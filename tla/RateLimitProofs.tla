--------------------------- MODULE RateLimitProofs ---------------------------
(***************************************************************************)
(* What the limiters keep to for any number of calls, processes, keys and  *)
(* limits.                                                                 *)
(*                                                                         *)
(* IInv is inductive. A store gives the calls of a window the numbers 1,   *)
(* 2, ... in the order in which it counts them, so no two of them have one *)
(* number (RankInv), and only numbers up to the limit are allowed.         *)
(***************************************************************************)
EXTENDS RateLimit, FiniteSetTheorems, TLAPS

\* A call that is made has a store, of which it is one.
LEMMA StoreType ==
  ASSUME TypeOK, NEW c \in Calls, key[c] \in Keys
  PROVE  Store(c) \in Stores
  BY CallsAssumption DEF TypeOK, Store, Stores

\* A call that takes a step has been made.
LEMMA CallMade ==
  ASSUME TypeOK, NEW c \in Calls, CallStep(c) \/ Lose(c)
  PROVE  /\ call'[c] # "start" /\ \A d \in Calls \ {c} : call'[d] = call[d]
         /\ shared' = shared
<1> USE DEF Goto, TypeOK
<1>1. CASE Incr(c)
  BY <1>1 DEF Incr
<1>2. CASE Expire(c) \/ Verdict(c) \/ Lose(c)
  BY <1>2 DEF Expire, Verdict, Lose
<1>3. CASE AllowHere(c)
  <2>1. call' = [call EXCEPT ![c] = "refused"] \/ call' = [call EXCEPT ![c] = "allowed"]
    BY <1>3 DEF AllowHere
  <2> QED
    BY <1>3, <2>1 DEF AllowHere
<1> QED
  BY <1>1, <1>2, <1>3 DEF CallStep

\* No step moves a call that is made to another store, and it has one of the keys.
LEMMA StoreStays ==
  ASSUME TypeOK, LimiterNext, NEW c \in Calls, call[c] # "start" \/ call'[c] # "start"
  PROVE  /\ call'[c] # "start" /\ Store(c)' = Store(c) /\ key'[c] = key[c] /\ key[c] \in Keys
         /\ Store(c) \in Stores
<1>1. ASSUME NEW d \in Calls, CallStep(d) \/ Lose(d) PROVE call'[c] # "start" /\ shared' = shared
  BY <1>1, CallMade
<1>2. ASSUME \/ \E s \in Stores : Elapse(s)
             \/ \E i \in Instances : Reconfigure(i)
             \/ UNCHANGED <<shared, limit, top, stores, call, rank, won, broken>>
      PROVE  call'[c] # "start" /\ shared' = shared
  BY <1>2 DEF Elapse, Reconfigure
<1>3. call'[c] # "start" /\ shared' = shared
  BY <1>1, <1>2 DEF LimiterNext
<1>4. key'[c] = key[c] /\ key[c] \in Keys
  BY <1>3 DEF LimiterNext, KeyKept
<1> QED
  BY <1>3, <1>4, StoreType DEF Store

LEMMA InitInv == Unused => IInv
<1> SUFFICES ASSUME Unused PROVE IInv
  OBVIOUS
<1> USE LimitsAssumption, CallsAssumption DEF Unused
<1>1. TypeOK
  BY DEF TypeOK, CallPc
<1>2. RankInv
  BY <1>1 DEF RankInv, TypeOK
<1>3. WindowEnds
  BY DEF WindowEnds
<1> QED
  BY <1>1, <1>2, <1>3 DEF IInv

LEMMA TypePreserved == IInv /\ [LimiterNext]_limiterVars => TypeOK'
<1> SUFFICES ASSUME IInv, [LimiterNext]_limiterVars PROVE TypeOK'
  OBVIOUS
<1> USE LimitsAssumption, CallsAssumption DEF IInv
<1>1. CASE UNCHANGED limiterVars
  BY <1>1 DEF limiterVars, stores, TypeOK
<1>2. CASE LimiterNext
  <2> USE <1>2
  <2>0. \A c \in Calls : call'[c] # "start" => key'[c] \in Keys
    BY StoreStays
  <2>a. ASSUME NEW c \in Calls, CallStep(c) \/ Lose(c) PROVE Store(c) \in Stores
    BY <2>a, CallMade, StoreStays
  <2>1. ASSUME NEW c \in Calls, Incr(c) PROVE TypeOK'
    <3>1. Store(c) \in Stores
      BY <2>a, <2>1 DEF CallStep
    <3>2. /\ count' \in [Stores -> Nat] /\ rank' \in [Calls -> Nat] /\ won' \in [Calls -> Nat]
          /\ call' \in [Calls -> CallPc]
      BY <2>1, <3>1 DEF Incr, TypeOK, CallPc, Goto, Counted
    <3> QED
      BY <2>0, <2>1, <3>2 DEF Incr, TypeOK
  <2>2. ASSUME NEW c \in Calls, Expire(c) PROVE TypeOK'
    <3>1. Store(c) \in Stores
      BY <2>a, <2>2 DEF CallStep
    <3> QED
      BY <2>0, <2>2, <3>1 DEF Expire, TypeOK, CallPc, Goto
  <2>3. ASSUME NEW c \in Calls, Verdict(c) PROVE TypeOK'
    BY <2>0, <2>3 DEF Verdict, TypeOK, CallPc, Goto, stores
  <2>4. ASSUME NEW c \in Calls, AllowHere(c) PROVE TypeOK'
    <3>1. CASE count[Store(c)] >= limit[Host[c]]
      BY <2>0, <2>4, <3>1 DEF AllowHere, TypeOK, CallPc, Goto
    <3>2. CASE ~(count[Store(c)] >= limit[Host[c]])
      <4>1. /\ Counted(c) /\ timed' = [timed EXCEPT ![Store(c)] = TRUE] /\ Goto(c, "allowed")
            /\ UNCHANGED <<shared, limit, top, window, broken>>
        BY <2>4, <3>2 DEF AllowHere
      <4> QED
        BY <2>0, <2>a, <2>4, <4>1 DEF CallStep, TypeOK, CallPc, Goto, Counted
    <3> QED
      BY <3>1, <3>2
  <2>5. ASSUME NEW c \in Calls, Lose(c) PROVE TypeOK'
    BY <2>0, <2>a, <2>5 DEF Lose, TypeOK, CallPc, Goto, stores
  <2>6. ASSUME NEW s \in Stores, Elapse(s) PROVE TypeOK'
    BY <2>0, <2>6 DEF Elapse, TypeOK
  <2>7. ASSUME NEW i \in Instances, Reconfigure(i) PROVE TypeOK'
    BY <2>0, <2>7 DEF Reconfigure, TypeOK, stores
  <2>8. CASE UNCHANGED <<shared, limit, top, stores, call, rank, won, broken>>
    BY <2>0, <2>8 DEF TypeOK, stores
  <2> QED
    BY <1>2, <2>1, <2>2, <2>3, <2>4, <2>5, <2>6, <2>7, <2>8 DEF LimiterNext, CallStep
<1> QED
  BY <1>1, <1>2

\* A call that has a number has been made, so its store stays.
LEMMA NumberedStays ==
  ASSUME IInv, LimiterNext, NEW c \in Calls, rank[c] > 0
  PROVE  Store(c)' = Store(c) /\ Store(c) \in Stores
<1>1. call[c] # "start"
  BY DEF IInv, RankInv
<1> QED
  BY <1>1, StoreStays DEF IInv

\* A call that is counted gets a number of its window that no other call has.
LEMMA CountedFresh ==
  ASSUME IInv, NEW c \in Calls, call[c] = "start", LimiterNext, Counted(c),
         UNCHANGED <<limit, top, window>>,
         NEW pc \in {"expire", "verdict", "allowed"}, Goto(c, pc),
         pc = "allowed" => count[Store(c)] < limit[Host[c]]
  PROVE  RankInv'
<1> USE CallsAssumption DEF IInv
<1>1. /\ rank' = [rank EXCEPT ![c] = count[Store(c)] + 1]
      /\ count' = [count EXCEPT ![Store(c)] = @ + 1]
      /\ won' = [won EXCEPT ![c] = window[Store(c)]]
      /\ call' = [call EXCEPT ![c] = pc]
  BY DEF Counted, Goto
<1>2. \A d \in Calls : /\ d # c => rank'[d] = rank[d] /\ won'[d] = won[d] /\ call'[d] = call[d]
                       /\ rank'[c] = count[Store(c)] + 1 /\ won'[c] = window[Store(c)] /\ call'[c] = pc
  BY <1>1 DEF TypeOK
<1>3. \A s \in Stores : count'[s] = IF s = Store(c) THEN count[s] + 1 ELSE count[s]
  BY <1>1 DEF TypeOK
<1>a. Store(c) \in Stores /\ Store(c)' = Store(c)
  BY <1>2, StoreStays
<1>b. \A d \in Calls : rank[d] > 0 => Store(d)' = Store(d) /\ Store(d) \in Stores
  BY NumberedStays
<1>4. count[Store(c)] \in Nat /\ window[Store(c)] \in Nat /\ limit[Host[c]] \in Nat /\ limit[Host[c]] <= top
  BY <1>a DEF TypeOK, RankInv
<1>5. (\A i \in Instances : limit[i] <= top)'
  BY DEF RankInv
<1>6. ASSUME NEW d \in Calls
      PROVE  /\ call'[d] = "start" => rank'[d] = 0
             /\ call'[d] \in {"expire", "verdict", "allowed"} => rank'[d] > 0
             /\ call'[d] = "allowed" => rank'[d] <= top'
             /\ rank'[d] > 0 =>
                  /\ won'[d] <= window'[Store(d)']
                  /\ won'[d] = window'[Store(d)'] => rank'[d] <= count'[Store(d)']
  <2>1. CASE d = c
    BY <2>1, <1>a, <1>2, <1>3, <1>4 DEF TypeOK
  <2>2. CASE d # c
    BY <2>2, <1>b, <1>2, <1>3, <1>4 DEF TypeOK, RankInv
  <2> QED
    BY <2>1, <2>2
<1>7. ASSUME NEW d \in Calls, NEW e \in Calls, d # e, rank'[d] > 0, rank'[d] = rank'[e]
      PROVE  Store(d)' # Store(e)' \/ won'[d] # won'[e]
  <2>1. CASE d = c
    <3>1. rank[e] = count[Store(c)] + 1 /\ won'[e] = won[e] /\ won'[d] = window[Store(c)]
      BY <2>1, <1>2, <1>7
    <3> QED
      BY <3>1, <2>1, <1>7, <1>a, <1>b, <1>4 DEF TypeOK, RankInv
  <2>2. CASE e = c
    <3>1. rank[d] = count[Store(c)] + 1 /\ won'[d] = won[d] /\ won'[e] = window[Store(c)]
      BY <2>2, <1>2, <1>7
    <3> QED
      BY <3>1, <2>2, <1>2, <1>7, <1>a, <1>b, <1>4 DEF TypeOK, RankInv
  <2>3. CASE d # c /\ e # c
    BY <2>3, <1>2, <1>7, <1>b DEF RankInv
  <2> QED
    BY <2>1, <2>2, <2>3
<1> QED
  BY <1>5, <1>6, <1>7 DEF RankInv

LEMMA RankPreserved == IInv /\ [LimiterNext]_limiterVars => RankInv'
<1> SUFFICES ASSUME IInv, [LimiterNext]_limiterVars PROVE RankInv'
  OBVIOUS
<1> USE LimitsAssumption, CallsAssumption DEF IInv
<1>1. CASE UNCHANGED limiterVars
  BY <1>1 DEF limiterVars, stores, RankInv, Store
<1>2. CASE LimiterNext
  <2> USE <1>2
  <2>0. \A c \in Calls : rank[c] > 0 => Store(c)' = Store(c) /\ Store(c) \in Stores
    BY NumberedStays
  <2>1. ASSUME NEW c \in Calls, Incr(c) PROVE RankInv'
    BY <2>1, CountedFresh DEF Incr
  <2>2. ASSUME NEW c \in Calls, Expire(c) PROVE RankInv'
    BY <2>0, <2>2 DEF Expire, TypeOK, RankInv, Goto
  <2>3. ASSUME NEW c \in Calls, Verdict(c) PROVE RankInv'
    BY <2>0, <2>3 DEF Verdict, TypeOK, RankInv, Goto, stores, Within
  <2>4. ASSUME NEW c \in Calls, AllowHere(c) PROVE RankInv'
    <3>1. CASE count[Store(c)] >= limit[Host[c]]
      BY <2>0, <2>4, <3>1 DEF AllowHere, TypeOK, RankInv, Goto
    <3>2. CASE ~(count[Store(c)] >= limit[Host[c]])
      <4>0. Store(c) \in Stores
        BY <2>4, CallMade, StoreStays DEF CallStep
      <4>1. count[Store(c)] < limit[Host[c]]
        BY <3>2, <4>0 DEF TypeOK
      <4> QED
        BY <2>4, <3>2, <4>1, CountedFresh DEF AllowHere
    <3> QED
      BY <3>1, <3>2
  <2>5. ASSUME NEW c \in Calls, Lose(c) PROVE RankInv'
    BY <2>0, <2>5 DEF Lose, TypeOK, RankInv, Goto, stores
  <2>6. ASSUME NEW s \in Stores, Elapse(s) PROVE RankInv'
    BY <2>0, <2>6 DEF Elapse, TypeOK, RankInv
  <2>7. ASSUME NEW i \in Instances, Reconfigure(i) PROVE RankInv'
    BY <2>0, <2>7 DEF Reconfigure, TypeOK, RankInv, stores
  <2>8. CASE UNCHANGED <<shared, limit, top, stores, call, rank, won, broken>>
    BY <2>0, <2>8 DEF TypeOK, RankInv, stores
  <2> QED
    BY <1>2, <2>1, <2>2, <2>3, <2>4, <2>5, <2>6, <2>7, <2>8 DEF LimiterNext, CallStep
<1> QED
  BY <1>1, <1>2

LEMMA WindowEndsPreserved == IInv /\ [LimiterNext]_limiterVars => WindowEnds'
<1> SUFFICES ASSUME IInv, [LimiterNext]_limiterVars PROVE WindowEnds'
  OBVIOUS
<1> USE CallsAssumption DEF IInv
<1>1. CASE UNCHANGED limiterVars
  BY <1>1 DEF limiterVars, stores, WindowEnds, Store
<1>2. CASE LimiterNext
  <2> USE <1>2
  <2>0. \A c \in Calls : call[c] # "start" \/ call'[c] # "start" => Store(c)' = Store(c) /\ Store(c) \in Stores
    BY StoreStays
  <2>1. ASSUME NEW c \in Calls, Incr(c) PROVE WindowEnds'
    BY <2>0, <2>1, CallMade DEF CallStep, Incr, TypeOK, WindowEnds, Goto, Counted, First
  <2>2. ASSUME NEW c \in Calls, Expire(c) PROVE WindowEnds'
    BY <2>0, <2>2 DEF Expire, TypeOK, WindowEnds, Goto
  <2>3. ASSUME NEW c \in Calls, Verdict(c) PROVE WindowEnds'
    BY <2>0, <2>3 DEF Verdict, TypeOK, WindowEnds, Goto, stores
  <2>4. ASSUME NEW c \in Calls, AllowHere(c) PROVE WindowEnds'
    BY <2>0, <2>4, CallMade DEF CallStep, AllowHere, TypeOK, WindowEnds, Goto, Counted
  <2>5. ASSUME NEW c \in Calls, Lose(c) PROVE WindowEnds'
    BY <2>0, <2>5 DEF Lose, TypeOK, WindowEnds, Goto, stores
  <2>6. ASSUME NEW s \in Stores, Elapse(s) PROVE WindowEnds'
    BY <2>0, <2>6 DEF Elapse, TypeOK, WindowEnds
  <2>7. ASSUME NEW i \in Instances, Reconfigure(i) PROVE WindowEnds'
    BY <2>0, <2>7 DEF Reconfigure, TypeOK, WindowEnds, stores
  <2>8. CASE UNCHANGED <<shared, limit, top, stores, call, rank, won, broken>>
    BY <2>0, <2>8 DEF TypeOK, WindowEnds, stores
  <2> QED
    BY <1>2, <2>1, <2>2, <2>3, <2>4, <2>5, <2>6, <2>7, <2>8 DEF LimiterNext, CallStep
<1> QED
  BY <1>1, <1>2

\* The limiters keep IInv, whatever calls, failures, ends of windows and changes of
\* the limit follow each other.
THEOREM Invariance == LimiterSpec => []IInv
<1>1. IInv /\ [LimiterNext]_limiterVars => IInv'
  BY TypePreserved, RankPreserved, WindowEndsPreserved DEF IInv
<1> QED
  BY InitInv, <1>1, PTL DEF LimiterSpec

\* Numbers that differ and do not exceed top are at most top many.
LEMMA WithinLimitFollows == IInv => WithinLimit
<1> SUFFICES ASSUME IInv, NEW s \in Stores, NEW w \in 0..window[s],
                    ~(Cardinality(AllowedIn(s, w)) <= top)
             PROVE  FALSE
  BY DEF WithinLimit
<1> DEFINE Allowed == AllowedIn(s, w)
           f == [c \in Allowed |-> rank[c]]
<1>1. IsFiniteSet(Allowed) /\ Cardinality(Allowed) \in Nat
  BY CallsAssumption, FS_Subset, FS_CardinalityType DEF AllowedIn
<1>2. top \in Nat
  BY DEF IInv, TypeOK
<1>3. IsFiniteSet(1..top) /\ Cardinality(1..top) = top
  BY <1>2, FS_Interval
<1>4. f \in [Allowed -> 1..top]
  BY DEF IInv, TypeOK, RankInv, AllowedIn
<1>5. Cardinality(1..top) < Cardinality(Allowed)
  BY <1>1, <1>2, <1>3
<1> HIDE DEF f, Allowed
<1>6. PICK c \in Allowed, d \in Allowed : c # d /\ f[c] = f[d]
  BY <1>1, <1>3, <1>4, <1>5, FS_PigeonHole
<1> QED
  BY <1>6 DEF IInv, TypeOK, RankInv, AllowedIn, Allowed, f

\* No window of a store lets more calls through than the highest limit there has been
\* (RedisRateLimiter.allow, InMemoryRateLimiter.allow).
THEOREM WithinLimitAlways == LimiterSpec => []WithinLimit
  BY Invariance, WithinLimitFollows, PTL

\* A key that counts has an expiry, or a call that sets one, or an EXPIRE of it was
\* lost (RedisRateLimiter.allow).
THEOREM WindowEndsAlways == LimiterSpec => []WindowEnds
<1>1. IInv => WindowEnds
  BY DEF IInv
<1> QED
  BY Invariance, <1>1, PTL
=============================================================================
