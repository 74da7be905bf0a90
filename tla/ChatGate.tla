------------------------------- MODULE ChatGate -------------------------------
(***************************************************************************)
(* What a chat request passes before its answer is streamed                *)
(* (api/routes/chat.py): the check of its account (UserAccess), the        *)
(* preparation of the chat, and the rate limiter (RateLimit), whose key    *)
(* has the tenant in it. What follows is ChatTurn.                         *)
(***************************************************************************)
EXTENDS UserAccess, RateLimitConstants

CONSTANT Setups   \* a scenario of UserAccess, the limiter and its limit, and the processes
                  \* whose limit is changed

\* Each chat is one call, for the tenant it names; the limiters are those of the processes.
ASSUME CallsAreChats == Calls = Chats /\ Instances = Processes /\ Keys = Tenants
ASSUME SetupsAssumption ==
  \A s \in Setups : s \in [scenario : Scenarios, shared : BOOLEAN, limit : Limits,
                            tuning : SUBSET Processes]

VARIABLES
  setup,     \* constant in a behaviour
  prepared,  \* what ChatService.prepare has made of each chat: "no" before and when it raises
  shared, limit, top, count, timed, window, call, rank, won, broken

Limiter == INSTANCE RateLimit WITH key <- ask

gateVars == <<shared, limit, top, count, timed, window, call, rank, won, broken>>
vars == <<setup, userVars, prepared, gateVars>>

GateInit ==
  /\ setup \in Setups
  /\ Init /\ env = setup.scenario
  /\ Limiter!Unused /\ shared = setup.shared /\ top = setup.limit
  /\ prepared = [c \in Chats |-> "no"]

UserStep == UserNext /\ UNCHANGED <<prepared, gateVars>>

\* prepare looks up the knowledge base of the tenant: an unknown or disabled one is
\* refused before the call is counted. When it raises the chat stays where it is.
Prepare(c) ==
  /\ req[c] = "admitted" /\ prepared[c] = "no"
  /\ \E outcome \in {"yes", "refused"} : prepared' = [prepared EXCEPT ![c] = outcome]
  /\ UNCHANGED <<userVars, gateVars>>

Limit(c) ==
  /\ prepared[c] = "yes"
  /\ Limiter!CallStep(c) \/ Limiter!Lose(c)
  /\ UNCHANGED <<userVars, prepared>>

\* time passes, and the limit of a process is changed
Around ==
  /\ \/ \E s \in Limiter!Stores : Limiter!Elapse(s)
     \/ \E p \in setup.tuning : Limiter!Reconfigure(p)
  /\ UNCHANGED <<userVars, prepared>>

Next ==
  /\ \/ UserStep
     \/ \E c \in Chats : Prepare(c) \/ Limit(c)
     \/ Around
  /\ UNCHANGED setup

Spec == GateInit /\ [][Next]_vars

\* A process that is started again runs on.
Fairness == \A p \in Processes : WF_vars(BootStep(p) /\ UNCHANGED <<setup, prepared, gateVars>>)

FairSpec == Spec /\ Fairness

-----------------------------------------------------------------------------

\* A window of the limiter allows no more chats than its limit, see RateLimit.
WithinLimit == Limiter!WithinLimit

\* A counter that is in use comes to an end unless setting its expiry has failed, see
\* RateLimit.
WindowEnds == Limiter!WindowEnds

\* Why the limiter keeps to that here: a chat is counted after it has been let in and
\* prepared, so that the key of a call is a tenant, and stays.
GateInv ==
  /\ setup \in Setups
  /\ prepared \in [Chats -> {"no", "yes", "refused"}] /\ call \in [Chats -> Limiter!CallPc]
  /\ \A c \in Chats : prepared[c] = "yes" => req[c] = "admitted"
  /\ \A c \in Chats : call[c] # "start" => prepared[c] = "yes"
=============================================================================
