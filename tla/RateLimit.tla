------------------------------ MODULE RateLimit ------------------------------
(***************************************************************************)
(* The rate limiters: allow(key) of RedisRateLimiter, which counts in a    *)
(* key of Redis that all processes share, and of InMemoryRateLimiter,      *)
(* which counts in a window of its own process.                            *)
(*                                                                         *)
(* A store is where the calls for a key are counted. Time is left out: a   *)
(* window that has an end may end at any moment.                           *)
(***************************************************************************)
EXTENDS Naturals, FiniteSets, RateLimitConstants

VARIABLES
  key,     \* the key of each call: whatever it is before the call is made, it stays then
  shared,  \* settings.rate_limiter_provider is "redis": constant in a behaviour
  limit,   \* max_requests of each process
  top,     \* history: the highest max_requests there has been
  count,   \* the number each store has
  timed,   \* the store's window has an end
  window,  \* history: how many windows of each store have ended
  call,    \* how far each call is
  rank,    \* the number it was given
  won,     \* history: the window it was counted in
  broken   \* history: stores of which an EXPIRE was lost

stores == <<count, timed, window>>
limiterVars == <<key, shared, limit, top, stores, call, rank, won, broken>>

Stores == (Instances \cup {Redis}) \X Keys
Store(c) == <<IF shared THEN Redis ELSE Host[c], key[c]>>
CallPc == {"start", "expire", "verdict", "allowed", "refused", "failed"}

Unused ==
  /\ shared \in BOOLEAN
  /\ \E l \in Limits : limit = [i \in Instances |-> l] /\ top = l
  /\ count = [s \in Stores |-> 0] /\ timed = [s \in Stores |-> FALSE]
  /\ window = [s \in Stores |-> 0]
  /\ call = [c \in Calls |-> "start"] /\ rank = [c \in Calls |-> 0] /\ won = [c \in Calls |-> 0]
  /\ broken = {}

Goto(c, s) == call' = [call EXCEPT ![c] = s]

\* The call is the next one of its window.
Counted(c) ==
  /\ count' = [count EXCEPT ![Store(c)] = @ + 1]
  /\ rank' = [rank EXCEPT ![c] = count[Store(c)] + 1]
  /\ won' = [won EXCEPT ![c] = window[Store(c)]]

\* fault: the expiry is set when the limit is reached
BadFirst(c) == count[Store(c)] + 1 = limit[Host[c]]

First(c) == count[Store(c)] = 0

\* INCR creates the key without an expiry
Incr(c) ==
  /\ shared /\ call[c] = "start"
  /\ Counted(c)
  /\ Goto(c, IF First(c) THEN "expire" ELSE "verdict")
  /\ UNCHANGED <<shared, limit, top, timed, window, broken>>

\* EXPIRE, by the call that was the first
Expire(c) ==
  /\ call[c] = "expire"
  /\ timed' = [timed EXCEPT ![Store(c)] = TRUE]
  /\ Goto(c, "verdict")
  /\ UNCHANGED <<shared, limit, top, count, window, rank, won, broken>>

\* fault: compared with what the counter was before
BadWithin(c) == rank[c] - 1 <= limit[Host[c]]

Within(c) == rank[c] <= limit[Host[c]]

\* The answer of Redis has arrived; the limit is the one of this moment.
Verdict(c) ==
  /\ call[c] = "verdict"
  /\ Goto(c, IF Within(c) THEN "allowed" ELSE "refused")
  /\ UNCHANGED <<shared, limit, top, stores, rank, won, broken>>

\* A command raises or the process dies.
Lose(c) ==
  /\ call[c] \in {"start", "expire", "verdict"}
  /\ Goto(c, "failed")
  /\ broken' = IF call[c] = "expire" THEN broken \cup {Store(c)} ELSE broken
  /\ UNCHANGED <<shared, limit, top, stores, rank, won>>

\* InMemoryRateLimiter.allow: nothing comes between its reads and writes. Refused
\* calls are not counted.
AllowHere(c) ==
  /\ ~shared /\ call[c] = "start"
  /\ IF count[Store(c)] >= limit[Host[c]]
       THEN Goto(c, "refused") /\ UNCHANGED <<count, timed, rank, won>>
       ELSE /\ Counted(c)
            /\ timed' = [timed EXCEPT ![Store(c)] = TRUE]
            /\ Goto(c, "allowed")
  /\ UNCHANGED <<shared, limit, top, window, broken>>

\* The key expires; or the window of the process is over and will be replaced.
Elapse(s) ==
  /\ timed[s]
  /\ count' = [count EXCEPT ![s] = 0] /\ timed' = [timed EXCEPT ![s] = FALSE]
  /\ window' = [window EXCEPT ![s] = @ + 1]
  /\ UNCHANGED <<shared, limit, top, call, rank, won, broken>>

\* update_runtime changes the limit of a process; windows go on.
Reconfigure(i) ==
  /\ \E l \in Limits \ {limit[i]} :
       /\ limit' = [limit EXCEPT ![i] = l]
       /\ top' = IF l > top THEN l ELSE top
  /\ UNCHANGED <<shared, stores, call, rank, won, broken>>

CallStep(c) == Incr(c) \/ Expire(c) \/ Verdict(c) \/ AllowHere(c)

\* A call that is made has one of the keys, and keeps it.
KeyKept(c) == key[c] \in Keys /\ key'[c] = key[c]

\* Calls are made and go on, time passes, limits are changed, and whoever is going to
\* make a call chooses its key.
LimiterNext ==
  /\ \/ \E c \in Calls : CallStep(c) \/ Lose(c)
     \/ \E s \in Stores : Elapse(s)
     \/ \E i \in Instances : Reconfigure(i)
     \/ UNCHANGED <<shared, limit, top, stores, call, rank, won, broken>>
  /\ \A c \in Calls : call'[c] # "start" => KeyKept(c)

LimiterSpec == Unused /\ [][LimiterNext]_limiterVars

-----------------------------------------------------------------------------

\* The types of all variables.
TypeOK ==
  /\ shared \in BOOLEAN /\ \A c \in Calls : call[c] # "start" => key[c] \in Keys
  /\ limit \in [Instances -> Nat] /\ top \in Nat
  /\ count \in [Stores -> Nat] /\ timed \in [Stores -> BOOLEAN] /\ window \in [Stores -> Nat]
  /\ call \in [Calls -> CallPc] /\ rank \in [Calls -> Nat] /\ won \in [Calls -> Nat]
  /\ broken \subseteq Stores

AllowedIn(s, w) == {c \in Calls : call[c] = "allowed" /\ won[c] = w /\ Store(c) = s}

\* In no window does a store allow more calls than the highest limit there has
\* been, however the calls of all processes interleave, fail half-way or overtake a
\* change of the limit (RedisRateLimiter.allow, InMemoryRateLimiter.allow).
WithinLimit == \A s \in Stores : \A w \in 0..window[s] : Cardinality(AllowedIn(s, w)) <= top

\* A key that counts has an expiry, or a call that is about to set one: only a lost
\* EXPIRE makes it count for ever (RedisRateLimiter.allow).
WindowEnds ==
  \A s \in Stores : count[s] > 0 /\ ~timed[s] =>
    s \in broken \/ \E c \in Calls : call[c] = "expire" /\ Store(c) = s

\* Why WithinLimit holds: within a window no number is given twice.
RankInv ==
  /\ \A i \in Instances : limit[i] <= top
  /\ \A c \in Calls : call[c] = "start" => rank[c] = 0
  /\ \A c \in Calls : call[c] \in {"expire", "verdict", "allowed"} => rank[c] > 0
  /\ \A c \in Calls : call[c] = "allowed" => rank[c] <= top
  /\ \A c \in Calls : rank[c] > 0 =>
       /\ won[c] <= window[Store(c)]
       /\ won[c] = window[Store(c)] => rank[c] <= count[Store(c)]
  /\ \A c, d \in Calls : c # d /\ rank[c] > 0 /\ rank[c] = rank[d] =>
       Store(c) # Store(d) \/ won[c] # won[d]

IInv == TypeOK /\ RankInv /\ WindowEnds
=============================================================================
