-------------------------- MODULE RateLimitConstants --------------------------
(***************************************************************************)
(* The constants of RateLimit, apart so that what composes the limiter     *)
(* with other components can share them.                                   *)
(***************************************************************************)
EXTENDS Naturals, FiniteSets

CONSTANTS
  Calls,      \* calls of allow, each made once
  Instances,  \* API processes
  Host,       \* the process of each call
  Keys,       \* client keys: tenant and address
  Redis,      \* the shared store
  Limits      \* values settings.rate_limit_requests may take

ASSUME LimitsAssumption == Limits \subseteq Nat \ {0} /\ Limits # {}
ASSUME CallsAssumption == IsFiniteSet(Calls) /\ Host \in [Calls -> Instances] /\ Redis \notin Instances
===============================================================================
