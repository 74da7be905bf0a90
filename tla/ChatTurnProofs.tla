--------------------------- MODULE ChatTurnProofs ---------------------------
(***************************************************************************)
(* Proofs about ChatTurn. A chat changes its answer only in its workflow,  *)
(* the review is the last to do so, and no step is traced twice; after the *)
(* workflow one write follows the other, so that at most one is under way, *)
(* and it finds the conversation as the write before it has left it, also  *)
(* if the chat has been given up meanwhile.                                *)
(***************************************************************************)
EXTENDS ChatTurn, FiniteSetTheorems, TLAPS

-----------------------------------------------------------------------------
(* Types *)

Calls == [chat : Chats, op : Writing \cup {"ticket"}, step : Nat, version : Configs]
Places == [run : Configs, step : Nat, client : Configs, round : 0..MaxRounds, used : BOOLEAN,
           calls : Seq(Tools), cause : {"error", "timeout"}, persist : BOOLEAN]
States == [evidence : BOOLEAN, handoffs : Nat, answer : Texts \cup {"rounds"},
           traces : Seq({"succeeded", "failed"})]

\* What an action that belongs to one chat may write.
ChatTyped == pc' \in [Chats -> Pc] /\ at' \in [Chats -> Places] /\ state' \in [Chats -> States]
ThreadsTyped == threads' \subseteq Calls
StoreTyped ==
  /\ turns' \in [Chats -> Seq({"user", "assistant"})] /\ tickets' \in [Chats -> Nat]
  /\ runs' \in [Chats -> SUBSET Run]

LEMMA TypeParts ==
  TypeOK => /\ pc \in [Chats -> Pc] /\ at \in [Chats -> Places] /\ state \in [Chats -> States]
            /\ threads \subseteq Calls
            /\ turns \in [Chats -> Seq({"user", "assistant"})] /\ tickets \in [Chats -> Nat]
            /\ runs \in [Chats -> SUBSET Run]
BY DEF TypeOK, Places, States, Calls

LEMMA TypeJoin ==
  ASSUME TypeOK, UNCHANGED runtimeVars, errors' \in 0..Errors, ChatTyped, ThreadsTyped, StoreTyped
  PROVE  TypeOK'
BY DEF TypeOK, ChatTyped, ThreadsTyped, StoreTyped, runtimeVars, Calls, Places, States

\* Fields of the two records, replaced one by one.
LEMMA PlaceFields ==
  ASSUME NEW q \in Places
  PROVE  /\ [q EXCEPT !.step = q.step + 1] \in Places
         /\ q.calls # <<>> => [q EXCEPT !.calls = Tail(q.calls)] \in Places
         /\ \A cause \in {"error", "timeout"} : [q EXCEPT !.cause = cause] \in Places
         /\ \A persist \in BOOLEAN : [q EXCEPT !.persist = persist] \in Places
         /\ \A k \in Configs : [q EXCEPT !.run = k, !.step = 1] \in Places
         /\ \A calls \in Seq(Tools) : [q EXCEPT !.used = TRUE, !.calls = calls] \in Places
         /\ \A round \in 0..MaxRounds : [q EXCEPT !.round = round] \in Places
         /\ \A k \in Configs, round \in 0..MaxRounds :
              [q EXCEPT !.client = k, !.round = round, !.used = FALSE, !.calls = <<>>] \in Places
<1>1. q.step + 1 \in Nat
  BY DEF Places
<1>2. q.calls # <<>> => Tail(q.calls) \in Seq(Tools)
  BY DEF Places
<1>3. <<>> \in Seq(Tools)
  OBVIOUS
<1> QED
  BY <1>1, <1>2, <1>3 DEF Places

LEMMA StateFields ==
  ASSUME NEW s \in States
  PROVE  /\ \A status \in {"succeeded", "failed"} :
              [s EXCEPT !.traces = Append(s.traces, status)] \in States
         /\ \A text \in Texts \cup {"rounds"} : [s EXCEPT !.answer = text] \in States
         /\ \A found \in BOOLEAN : [s EXCEPT !.evidence = s.evidence \/ found] \in States
         /\ [s EXCEPT !.handoffs = s.handoffs + 1] \in States
<1>1. \A status \in {"succeeded", "failed"} : Append(s.traces, status) \in Seq({"succeeded", "failed"})
  BY DEF States
<1>2. s.handoffs + 1 \in Nat
  BY DEF States
<1> QED
  BY <1>1, <1>2 DEF States

\* A new call of the database is well formed.
LEMMA ThreadTyped ==
  ASSUME TypeOK, NEW c \in Chats, NEW op \in Writing \cup {"ticket"}
  PROVE  Thread(c, op) \in Calls
BY TypeParts DEF Thread, Calls, TypeOK, Places, Configs

\* A failing step leaves well formed values.
LEMMA FailTyped ==
  ASSUME TypeOK, NEW c \in Chats, NEW cause \in {"error", "timeout"}, NEW rest \in SUBSET Calls,
         Fail(c, cause, rest)
  PROVE  ChatTyped /\ ThreadsTyped
<1>1. pc \in [Chats -> Pc] /\ at \in [Chats -> Places] /\ state \in [Chats -> States]
  BY TypeParts
<1>2. state' \in [Chats -> States]
  BY <1>1, StateFields DEF Fail
<1>3. /\ [at EXCEPT ![c].step = @ + 1] \in [Chats -> Places]
      /\ [at EXCEPT ![c].cause = cause] \in [Chats -> Places]
  BY <1>1, PlaceFields
<1>4. at' \in [Chats -> Places]
  BY <1>1, <1>3 DEF Fail
<1>5. pc' \in [Chats -> Pc]
  BY <1>1 DEF Fail, Write, Goto, Pc, Writing, Ended
<1>6. threads' \subseteq Calls
  BY ThreadTyped DEF Fail, Write, Writing
<1> QED
  BY <1>2, <1>4, <1>5, <1>6 DEF ChatTyped, ThreadsTyped

\* So does a step that succeeds.
LEMMA SucceedTyped ==
  ASSUME TypeOK, NEW c \in Chats, NEW st \in States, Succeed(c, st)
  PROVE  ChatTyped
<1>1. pc \in [Chats -> Pc] /\ at \in [Chats -> Places] /\ state \in [Chats -> States]
  BY TypeParts
<1>2. [st EXCEPT !.traces = Append(@, "succeeded")] \in States
  BY DEF States
<1>3. [at EXCEPT ![c].step = @ + 1] \in [Chats -> Places]
  BY <1>1, PlaceFields
<1> QED
  BY <1>1, <1>2, <1>3 DEF Succeed, Goto, Pc, ChatTyped

\* Steps of a chat that only change its place and state.
LEMMA LocalTyped ==
  ASSUME TypeOK, NEW c \in Chats, WorkflowInv(c),
         \/ Prepare(c) \/ Begin(c) \/ Retrieve(c) \/ Reply(c) \/ Round(c) \/ Search(c) \/ Found(c)
         \/ Answer(c) \/ Review(c) \/ Deliver(c) \/ RequestTimeout(c)
  PROVE  TypeOK'
<1>1. pc \in [Chats -> Pc] /\ at \in [Chats -> Places] /\ state \in [Chats -> States]
  BY TypeParts
<1>2. UNCHANGED <<runtimeVars, threads, storeVars, errors>>
  BY DEF Prepare, Begin, Retrieve, Reply, Round, Search, Found, Answer, Review, Deliver, RequestTimeout
<1>3. ChatTyped => TypeOK'
  <2>1. ThreadsTyped /\ StoreTyped /\ errors' \in 0..Errors
    BY <1>2, TypeParts DEF ThreadsTyped, StoreTyped, storeVars, TypeOK
  <2> QED
    BY <1>2, <2>1, TypeJoin
<1>4. \A text \in Texts \cup {"rounds"} : [state[c] EXCEPT !.answer = text] \in States
  BY <1>1, StateFields
<1> USE DEF Goto, Pc, Ended, InStep, Writing
<1>5. CASE Prepare(c)
  <2>1. \A persist \in BOOLEAN : [at EXCEPT ![c].persist = persist] \in [Chats -> Places]
    BY <1>1, PlaceFields
  <2> QED
    BY <1>1, <1>3, <1>5, <2>1 DEF Prepare, ChatTyped
<1>6. CASE Begin(c)
  <2>1. [at EXCEPT ![c].run = config, ![c].step = 1] \in [Chats -> Places]
    BY <1>1, PlaceFields DEF TypeOK
  <2> QED
    BY <1>1, <1>3, <1>6, <2>1 DEF Begin, ChatTyped
<1>7. CASE Retrieve(c)
  <2>1. 1 \in 0..MaxRounds /\ client \in Configs
    BY ChatAssumption DEF TypeOK
  <2>2. [at[c] EXCEPT !.client = client, !.round = 1, !.used = FALSE, !.calls = <<>>] \in Places
    BY <1>1, <2>1, PlaceFields
  <2>3. at' \in [Chats -> Places]
    BY <1>1, <1>7, <2>2 DEF Retrieve
  <2> QED
    BY <1>1, <1>3, <1>7, <2>3 DEF Retrieve, ChatTyped
<1>8. CASE Reply(c)
  <2>1. ASSUME NEW text \in Texts, at[c].used,
               state' = [state EXCEPT ![c] = [state[c] EXCEPT !.answer = text]],
               Goto(c, "answering"), UNCHANGED at
        PROVE  TypeOK'
    BY <1>1, <1>3, <1>4, <2>1 DEF ChatTyped
  <2>2. ASSUME NEW text \in Texts, Succeed(c, [state[c] EXCEPT !.answer = text]) PROVE TypeOK'
    BY <1>3, <1>4, <2>2, SucceedTyped
  <2>3. ASSUME NEW calls \in Replies, at' = [at EXCEPT ![c].used = TRUE, ![c].calls = calls],
               Goto(c, "calling"), UNCHANGED state
        PROVE  TypeOK'
    <3>1. [at EXCEPT ![c].used = TRUE, ![c].calls = calls] \in [Chats -> Places]
      BY <1>1, PlaceFields, ChatAssumption
    <3> QED
      BY <1>1, <1>3, <2>3, <3>1 DEF ChatTyped
  <2> QED
    BY <1>8, <2>1, <2>2, <2>3, Zenon DEF Reply
<1>9. CASE Round(c)
  <2>0. at[c].round \in 0..MaxRounds
    BY <1>1 DEF Places
  <2>1. NextRound(c) <= MaxRounds => NextRound(c) \in 0..MaxRounds
    BY <2>0, ChatAssumption DEF NextRound
  <2>3. NextRound(c) <= MaxRounds => [at EXCEPT ![c].round = NextRound(c)] \in [Chats -> Places]
    BY <1>1, <2>1, PlaceFields
  <2>2. [state EXCEPT ![c].answer = "rounds"] \in [Chats -> States]
    BY <1>1, StateFields
  <2> QED
    BY <1>1, <1>3, <1>9, <2>2, <2>3 DEF Round, ChatTyped
<1>10. CASE Search(c) \/ Deliver(c) \/ RequestTimeout(c)
  BY <1>1, <1>3, <1>10 DEF Search, Deliver, RequestTimeout, ChatTyped
<1>11. CASE Found(c)
  <2>1. \A found \in BOOLEAN : [state EXCEPT ![c].evidence = @ \/ found] \in [Chats -> States]
    BY <1>1, StateFields
  <2>2. [at EXCEPT ![c].calls = Tail(@)] \in [Chats -> Places]
    BY <1>1, <1>11, PlaceFields DEF Found, WorkflowInv
  <2> QED
    BY <1>1, <1>3, <1>11, <2>1, <2>2 DEF Found, ChatTyped
<1>12. CASE Answer(c)
  BY <1>3, <1>4, <1>12, SucceedTyped DEF Answer
<1>13. CASE Review(c)
  <2>1. [state[c] EXCEPT !.answer = "refusal"] \in States /\ state[c] \in States
    BY <1>1, <1>4 DEF Texts
  <2> QED
    BY <1>3, <1>13, <2>1, SucceedTyped DEF Review
<1> QED
  BY <1>5, <1>6, <1>7, <1>8, <1>9, <1>10, <1>11, <1>12, <1>13

\* Steps of a chat that start a call of the database, or fail.
LEMMA CallTyped ==
  ASSUME TypeOK, NEW c \in Chats,
         \/ Handoff(c) \/ UnknownTool(c) \/ StepRaises(c) \/ StepTimeout(c) \/ Finish(c)
  PROVE  TypeOK'
<1>1. pc \in [Chats -> Pc] /\ at \in [Chats -> Places] /\ state \in [Chats -> States] /\ threads \subseteq Calls
  BY TypeParts
<1>2. UNCHANGED <<runtimeVars, storeVars, errors>>
  BY DEF Handoff, UnknownTool, StepRaises, StepTimeout, Finish
<1>3. ChatTyped /\ ThreadsTyped => TypeOK'
  <2>1. StoreTyped /\ errors' \in 0..Errors
    BY <1>2, TypeParts DEF StoreTyped, storeVars, TypeOK
  <2> QED
    BY <1>2, <2>1, TypeJoin
<1>4. CASE Handoff(c)
  <2>1. [state EXCEPT ![c].handoffs = @ + 1] \in [Chats -> States]
    BY <1>1, StateFields
  <2> QED
    BY <1>1, <1>3, <1>4, <2>1, ThreadTyped
       DEF Handoff, Hand, Goto, Pc, InStep, ChatTyped, ThreadsTyped
<1>5. CASE UnknownTool(c) \/ StepRaises(c) \/ StepTimeout(c)
  BY <1>1, <1>3, <1>5, FailTyped DEF UnknownTool, StepRaises, StepTimeout
<1>6. CASE Finish(c)
  BY <1>1, <1>3, <1>6, ThreadTyped DEF Finish, Write, Goto, Pc, Writing, ChatTyped, ThreadsTyped
<1> QED
  BY <1>4, <1>5, <1>6

\* What a call of the database stores.
LEMMA StoredTyped ==
  ASSUME TypeOK, NEW t \in threads, Stored(t) \/ UNCHANGED storeVars
  PROVE  StoreTyped
<1>1. /\ state \in [Chats -> States] /\ threads \subseteq Calls
      /\ turns \in [Chats -> Seq({"user", "assistant"})] /\ tickets \in [Chats -> Nat]
      /\ runs \in [Chats -> SUBSET Run]
  BY TypeParts
<1>2. t.chat \in Chats /\ t.version \in Configs /\ t.op \in Writing \cup {"ticket"}
  BY <1>1 DEF Calls
<1>3. CASE UNCHANGED storeVars
  BY <1>1, <1>3 DEF storeVars, StoreTyped
<1>4. CASE Stored(t) /\ t.op = "ticket"
  <2>1. [tickets EXCEPT ![t.chat] = @ + 1] \in [Chats -> Nat]
    BY <1>1, <1>2
  <2>2. tickets' = [tickets EXCEPT ![t.chat] = @ + 1] /\ UNCHANGED <<turns, runs>>
    BY <1>4 DEF Stored
  <2> QED
    BY <1>1, <2>1, <2>2 DEF StoreTyped
<1>5. CASE Stored(t) /\ t.op \in {"user", "assistant"}
  <2>1. [turns EXCEPT ![t.chat] = Append(@, t.op)] \in [Chats -> Seq({"user", "assistant"})]
    BY <1>1, <1>2, <1>5
  <2> QED
    BY <1>1, <1>5, <2>1 DEF Stored, StoreTyped
<1>6. CASE Stored(t) /\ t.op \in {"succeeded", "failed"}
  <2> DEFINE r == [status |-> t.op, version |-> t.version, traces |-> state[t.chat].traces]
  <2>1. r \in Run
    BY <1>1, <1>2, <1>6 DEF Run, States
  <2>3. runs' = [runs EXCEPT ![t.chat] = @ \cup {r}] /\ UNCHANGED <<turns, tickets>>
    BY <1>6 DEF Stored
  <2> HIDE DEF r
  <2>2. runs' \in [Chats -> SUBSET Run] /\ UNCHANGED <<turns, tickets>>
    BY <1>1, <1>2, <2>1, <2>3
  <2> QED
    BY <1>1, <2>2 DEF StoreTyped
<1> QED
  BY <1>2, <1>3, <1>4, <1>5, <1>6 DEF Writing

\* Calls of the database that end.
LEMMA ReturnTyped ==
  ASSUME TypeOK, \A c \in Chats : WorkflowInv(c), NEW t \in threads, ThreadReturns(t) \/ ThreadRaises(t)
  PROVE  TypeOK'
<1>1. pc \in [Chats -> Pc] /\ at \in [Chats -> Places] /\ state \in [Chats -> States] /\ threads \subseteq Calls
  BY TypeParts
<1>2. t.chat \in Chats /\ t.op \in Writing \cup {"ticket"}
  BY <1>1 DEF Calls
<1>3. UNCHANGED runtimeVars /\ StoreTyped
  BY StoredTyped DEF ThreadReturns, ThreadRaises
<1>4. errors' \in 0..Errors
  <2>1. errors' = errors \/ (errors < Errors /\ errors' = errors + 1)
    BY DEF ThreadReturns, ThreadRaises
  <2>2. errors \in 0..Errors
    BY DEF TypeOK
  <2> QED
    BY <2>1, <2>2, ChatAssumption
<1>5. ChatTyped /\ ThreadsTyped => TypeOK'
  BY <1>3, <1>4, TypeJoin
<1>6. CASE ThreadReturns(t) /\ Awaited(t)
  <2>1. GoOn(t) /\ UNCHANGED state
    BY <1>6 DEF ThreadReturns
  <2>2. CASE t.op = "ticket"
    <3>1. at[t.chat].calls # <<>>
      BY <1>2, <1>6, <2>2 DEF Awaited, WorkflowInv
    <3>2. [at EXCEPT ![t.chat].calls = Tail(@)] \in [Chats -> Places]
      BY <1>1, <1>2, <3>1, PlaceFields
    <3> QED
      BY <1>1, <1>2, <1>5, <2>1, <2>2, <3>2 DEF GoOn, Goto, Pc, ChatTyped, ThreadsTyped
  <2>3. CASE t.op = "failed"
    <3>1. at[t.chat].cause \in Pc
      BY <1>1, <1>2 DEF Places, Pc, Ended
    <3>2. Goto(t.chat, at[t.chat].cause) /\ threads' = threads \ {t} /\ UNCHANGED at
      BY <2>1, <2>3 DEF GoOn
    <3> QED
      BY <1>1, <1>2, <1>5, <2>1, <3>1, <3>2 DEF Goto, ChatTyped, ThreadsTyped
  <2>4. CASE t.op \in {"user", "assistant", "succeeded"}
    <3>1. After(t.op) \in {"assistant", "succeeded", "streaming"}
      BY <2>4 DEF After
    <3>2. \/ Goto(t.chat, "streaming") /\ threads' = threads \ {t} /\ UNCHANGED at
          \/ Write(t.chat, After(t.op), threads \ {t}) /\ After(t.op) \in Writing /\ UNCHANGED at
      BY <2>1, <2>4, <3>1 DEF GoOn, Writing
    <3> QED
      BY <1>1, <1>2, <1>5, <2>1, <3>2, ThreadTyped DEF Write, Goto, Pc, ChatTyped, ThreadsTyped
  <2> QED
    BY <1>2, <2>2, <2>3, <2>4 DEF Writing
<1>7. CASE ThreadReturns(t) /\ ~Awaited(t)
  BY <1>1, <1>5, <1>7 DEF ThreadReturns, ChatTyped, ThreadsTyped
<1>8. CASE ThreadRaises(t) /\ ~Awaited(t)
  BY <1>1, <1>5, <1>8 DEF ThreadRaises, chatVars, ChatTyped, ThreadsTyped
<1>9. CASE ThreadRaises(t) /\ Awaited(t) /\ t.op = "ticket"
  <2>1. Fail(t.chat, "error", threads \ {t})
    BY <1>9 DEF ThreadRaises
  <2> QED
    BY <1>1, <1>2, <1>5, <2>1, FailTyped
<1>10. CASE ThreadRaises(t) /\ Awaited(t) /\ t.op # "ticket"
  BY <1>1, <1>2, <1>5, <1>10 DEF ThreadRaises, Goto, Pc, Ended, ChatTyped, ThreadsTyped
<1> QED
  BY <1>6, <1>7, <1>8, <1>9, <1>10

LEMMA UpdateTyped ==
  ASSUME TypeOK, NEW u \in Updates, Update(u) \/ CloseOld(u)
  PROVE  TypeOK'
<1>1. /\ config' \in Configs /\ client' \in Configs /\ open' \subseteq Configs
      /\ update' \in [Updates -> {"start", "closing", "done", "failed"}] /\ old' \in [Updates -> Configs]
  <2>1. /\ u \in Configs /\ client \in Configs /\ config \in Configs /\ open \subseteq Configs
        /\ update \in [Updates -> {"start", "closing", "done", "failed"}] /\ old \in [Updates -> Configs]
    BY DEF TypeOK, Configs
  <2>2. CASE Update(u) /\ Known(u)
    BY <2>1, <2>2 DEF Update, Replaced
  <2>3. CASE Update(u) /\ ~Known(u)
    BY <2>1, <2>3 DEF Update
  <2>4. CASE CloseOld(u)
    BY <2>1, <2>4 DEF CloseOld
  <2> QED
    BY <2>2, <2>3, <2>4
<1>2. UNCHANGED <<chatVars, threads, storeVars, errors>>
  BY DEF Update, CloseOld
<1> QED
  BY <1>1, <1>2 DEF TypeOK, chatVars, storeVars

-----------------------------------------------------------------------------
(* The workflow of a chat *)

Retrieving(c) == pc[c] \in InStep \cup {"calling"}

LEMMA StepsTyped ==
  ASSUME TypeOK, NEW c \in Chats
  PROVE  /\ Len(Steps(c)) \in Nat /\ DOMAIN Steps(c) = 1..Len(Steps(c))
         /\ at[c].step \in Nat /\ Len(state[c].traces) \in Nat
<1>1. at[c] \in Places /\ state[c] \in States
  BY TypeParts
<1>2. Workflow[at[c].run] \in Seq([name : STRING, on_error : {"stop", "continue"}])
  BY <1>1, ChatAssumption DEF Places
<1> QED
  BY <1>1, <1>2 DEF Steps, Places, States

\* What a chat that stays in its step preserves.
LEMMA StayInv ==
  ASSUME NEW c \in Chats, WorkflowInv(c), Retrieving(c), Retrieving(c)',
         at'[c].run = at[c].run, at'[c].step = at[c].step, state'[c].traces = state[c].traces,
         pc'[c] \in {"searching", "handing"} => at'[c].calls # <<>>
  PROVE  WorkflowInv(c)'
BY DEF WorkflowInv, Retrieving, InWorkflow, InStep, Answered, Steps, Step

\* What a chat preserves that leaves its workflow, or goes on after it.
LEMMA LeaveInv ==
  ASSUME NEW c \in Chats, WorkflowInv(c), at'[c].run = at[c].run, state'[c] = state[c],
         pc'[c] \in Writing \cup Ended \cup {"streaming"},
         Answered(c)' => Answered(c)
  PROVE  WorkflowInv(c)'
BY DEF WorkflowInv, InWorkflow, InStep, Answered, Steps, Step, Writing, Ended, Reviewed, Trusted

\* A step that ends, well or not, of which the chat goes on to the next.
LEMMA EndStepInv ==
  ASSUME TypeOK, NEW c \in Chats, NEW status \in {"succeeded", "failed"},
         at[c].step = Len(state[c].traces) + 1, at[c].step <= Len(Steps(c)),
         at'[c].run = at[c].run, at'[c].step = at[c].step + 1, pc'[c] = "next",
         state'[c].traces = Append(state[c].traces, status),
         Step(c).name = "safety_review" => (Trusted(c) \/ state[c].answer = "refusal")'
  PROVE  WorkflowInv(c)'
<1>1. /\ Len(Steps(c)) \in Nat /\ at[c].step \in Nat /\ Len(state[c].traces) \in Nat
      /\ Steps(c)' = Steps(c)
  BY StepsTyped DEF Steps
<1>2. Len(state'[c].traces) = Len(state[c].traces) + 1
  BY TypeParts DEF States
<1>3. Reviewed(c)' /\ at'[c].step > Len(Steps(c)') => (Trusted(c) \/ state[c].answer = "refusal")'
  <2>1. ASSUME Reviewed(c)', at'[c].step > Len(Steps(c)') PROVE Step(c).name = "safety_review"
    <3>1. at[c].step = Len(Steps(c))
      BY <1>1, <2>1
    <3> QED
      BY <1>1, <2>1, <3>1 DEF Reviewed, Step
  <2> QED
    BY <2>1
<1> QED
  BY <1>1, <1>2, <1>3 DEF WorkflowInv, InWorkflow, InStep, Answered

LEMMA SucceedInv ==
  ASSUME TypeOK, NEW c \in Chats, WorkflowInv(c), NEW st \in States, Succeed(c, st),
         Retrieving(c) \/ AtStep(c, "safety_review"), st.traces = state[c].traces,
         AtStep(c, "safety_review") => st.evidence \/ st.handoffs > 0 \/ st.answer = "refusal"
  PROVE  WorkflowInv(c)'
<1>1. pc \in [Chats -> Pc] /\ at \in [Chats -> Places] /\ state \in [Chats -> States]
  BY TypeParts
<1>2. at[c].step = Len(state[c].traces) + 1 /\ at[c].step <= Len(Steps(c))
  BY StepsTyped DEF WorkflowInv, InWorkflow, Retrieving, AtStep
<1>3. state'[c] = [st EXCEPT !.traces = Append(@, "succeeded")] /\ pc'[c] = "next"
  BY <1>1 DEF Succeed, Goto
<1>4. at'[c].run = at[c].run /\ at'[c].step = at[c].step + 1
  BY <1>1 DEF Succeed, Places
<1>5. /\ state'[c].traces = Append(state[c].traces, "succeeded")
      /\ state'[c].evidence = st.evidence /\ state'[c].handoffs = st.handoffs
      /\ state'[c].answer = st.answer
  BY <1>3 DEF States
<1>6. Step(c).name = "safety_review" => AtStep(c, "safety_review")
  BY DEF WorkflowInv, Retrieving, AtStep
<1> QED
  BY <1>2, <1>3, <1>4, <1>5, <1>6, EndStepInv DEF Trusted

\* A step that fails is a retrieval; it leaves a trace, and the chat goes on, or ends
\* with or without a record.
LEMMA FailEffect ==
  ASSUME TypeOK, NEW c \in Chats, NEW cause \in {"error", "timeout"}, NEW rest, Fail(c, cause, rest),
         WorkflowInv(c), Retrieving(c)
  PROVE  /\ WorkflowInv(c)'
         /\ Len(state'[c].traces) = Len(state[c].traces) + 1
         /\ state'[c].traces[Len(state'[c].traces)] = "failed"
         /\ \/ pc'[c] = "next" /\ threads' = rest
            \/ pc'[c] = "failed" /\ threads' = rest \cup {Thread(c, "failed")}
            \/ pc'[c] \in {"error", "timeout"} /\ threads' = rest
<1>1. pc \in [Chats -> Pc] /\ at \in [Chats -> Places] /\ state \in [Chats -> States]
  BY TypeParts
<1>2. at[c].step = Len(state[c].traces) + 1 /\ at[c].step <= Len(Steps(c)) /\ Step(c).name # "safety_review"
  BY DEF WorkflowInv, InWorkflow, Retrieving
<1>3. state'[c].traces = Append(state[c].traces, "failed")
  BY <1>1 DEF Fail, States
<1>4. Len(state'[c].traces) = Len(state[c].traces) + 1 /\ state'[c].traces[Len(state'[c].traces)] = "failed"
  BY <1>1, <1>3 DEF States
<1>5. CASE Step(c).on_error = "continue"
  <2>1. pc'[c] = "next" /\ threads' = rest /\ at' = [at EXCEPT ![c].step = @ + 1]
    BY <1>1, <1>5 DEF Fail, Goto
  <2>2. at'[c].run = at[c].run /\ at'[c].step = at[c].step + 1
    BY <1>1, <2>1 DEF Places
  <2>3. WorkflowInv(c)'
    BY <1>2, <1>3, <2>1, <2>2, EndStepInv
  <2> QED
    BY <1>4, <2>1, <2>3
<1>6. CASE Step(c).on_error # "continue"
  <2>1. \/ pc'[c] = "failed" /\ threads' = rest \cup {Thread(c, "failed")}
        \/ pc'[c] \in {"error", "timeout"} /\ threads' = rest
    BY <1>1, <1>6 DEF Fail, Write, Goto
  <2>2. WorkflowInv(c)'
    BY <2>1 DEF WorkflowInv, InWorkflow, InStep, Answered
  <2> QED
    BY <1>4, <2>1, <2>2
<1> QED
  BY <1>5, <1>6

\* Whatever a chat does itself keeps the invariant of its workflow.
LEMMA OwnWorkflow ==
  ASSUME TypeOK, NEW c \in Chats, WorkflowInv(c),
         Waited(c) \/ Local(c) \/ StepTimeout(c) \/ RequestTimeout(c)
  PROVE  WorkflowInv(c)'
<1>1. /\ pc \in [Chats -> Pc] /\ at \in [Chats -> Places] /\ state \in [Chats -> States]
      /\ at[c] \in Places /\ state[c] \in States
  BY TypeParts
<1>2. \A text \in Texts \cup {"rounds"} : [state[c] EXCEPT !.answer = text] \in States
  BY <1>1, StateFields
<1>3. CASE Prepare(c)
  <2>1. pc'[c] \in {"ready", "refused"} /\ at'[c].run = at[c].run /\ state' = state /\ pc[c] = "new"
    BY <1>1, <1>3 DEF Prepare, Goto, Places
  <2> QED
    BY <2>1 DEF WorkflowInv, InWorkflow, InStep, Answered
<1>4. CASE Begin(c)
  <2>1. pc'[c] = "next" /\ at'[c].step = 1 /\ state' = state /\ state[c].traces = <<>>
    BY <1>1, <1>4 DEF Begin, Goto, Places, WorkflowInv
  <2>2. Len(Steps(c)') \in Nat
    <3>1. at'[c].run = config
      BY <1>1, <1>4 DEF Begin, Places
    <3> QED
      BY <3>1, ChatAssumption DEF Steps, TypeOK
  <2>3. 1 = Len(state'[c].traces) + 1 /\ at'[c].step <= Len(Steps(c)') + 1
    BY <2>1, <2>2
  <2>4. ~(Reviewed(c)' /\ at'[c].step > Len(Steps(c)'))
    BY <2>1, <2>2 DEF Reviewed
  <2> QED
    BY <2>1, <2>3, <2>4 DEF WorkflowInv, InWorkflow, InStep, Answered
<1>5. CASE Retrieve(c)
  <2>1. /\ pc'[c] = "asking" /\ state' = state
        /\ at'[c].step = at[c].step /\ at'[c].run = at[c].run
    BY <1>1, <1>5 DEF Retrieve, Goto, Places
  <2>2. /\ at[c].step = Len(state[c].traces) + 1 /\ at[c].step <= Len(Steps(c))
        /\ Step(c).name = "knowledge_retrieval"
    BY <1>5, StepsTyped DEF Retrieve, AtStep, WorkflowInv, InWorkflow
  <2> QED
    BY <2>1, <2>2, StepsTyped DEF WorkflowInv, InWorkflow, InStep, Answered, Steps, Step
<1>6. CASE Reply(c)
  <2>1. Retrieving(c) /\ ~AtStep(c, "safety_review")
    BY <1>6 DEF Reply, Retrieving, InStep, AtStep
  <2>2. ASSUME NEW text \in Texts, Succeed(c, [state[c] EXCEPT !.answer = text])
        PROVE  WorkflowInv(c)'
    <3>1. [state[c] EXCEPT !.answer = text].traces = state[c].traces
      BY <1>1 DEF States
    <3> QED
      BY <1>2, <2>1, <2>2, <3>1, SucceedInv
  <2>3. ASSUME NEW text \in Texts, at[c].used,
               state' = [state EXCEPT ![c] = [state[c] EXCEPT !.answer = text]],
               Goto(c, "answering"), UNCHANGED at
        PROVE  WorkflowInv(c)'
    <3>1. state'[c].traces = state[c].traces /\ pc'[c] = "answering"
      BY <1>1, <2>3 DEF States, Goto
    <3> QED
      BY <2>1, <2>3, <3>1, StayInv DEF Retrieving, InStep
  <2>4. ASSUME NEW calls \in Replies, at' = [at EXCEPT ![c].used = TRUE, ![c].calls = calls],
               Goto(c, "calling"), UNCHANGED state
        PROVE  WorkflowInv(c)'
    <3>1. at'[c].run = at[c].run /\ at'[c].step = at[c].step /\ pc'[c] = "calling"
      BY <1>1, <2>4 DEF Places, Goto
    <3> QED
      BY <2>1, <2>4, <3>1, StayInv DEF Retrieving
  <2> QED
    BY <1>6, <2>2, <2>3, <2>4, Zenon DEF Reply
<1>7. CASE Round(c)
  <2>1. /\ Retrieving(c) /\ pc'[c] \in {"asking", "answering"}
        /\ at'[c].run = at[c].run /\ at'[c].step = at[c].step /\ state'[c].traces = state[c].traces
    BY <1>1, <1>7 DEF Round, Retrieving, Goto, Places, States
  <2> QED
    BY <2>1, StayInv DEF Retrieving, InStep
<1>8. CASE Search(c) \/ Found(c) \/ Handoff(c)
  <2>1. /\ Retrieving(c) /\ pc'[c] \in {"searching", "calling", "handing"}
        /\ at'[c].run = at[c].run /\ at'[c].step = at[c].step /\ state'[c].traces = state[c].traces
        /\ pc'[c] # "calling" => at'[c].calls # <<>>
    BY <1>1, <1>8 DEF Search, Found, Handoff, Hand, Retrieving, Goto, InStep, Places, States
  <2> QED
    BY <2>1, StayInv DEF Retrieving, InStep
<1>9. CASE UnknownTool(c) \/ StepRaises(c) \/ StepTimeout(c)
  <2>1. Retrieving(c) /\ (Fail(c, "error", threads) \/ Fail(c, "timeout", threads))
    BY <1>9 DEF UnknownTool, StepRaises, StepTimeout, Retrieving
  <2> QED
    BY <2>1, FailEffect
<1>10. CASE Answer(c)
  <2>1. PICK text \in Texts : Succeed(c, [state[c] EXCEPT !.answer = text])
    BY <1>10 DEF Answer
  <2>2. [state[c] EXCEPT !.answer = text].traces = state[c].traces
    BY <1>1 DEF States
  <2> QED
    BY <1>2, <1>10, <2>1, <2>2, SucceedInv DEF Answer, Retrieving, InStep, AtStep
<1>11. CASE Review(c)
  <2> DEFINE st == IF Trusted(c) THEN state[c] ELSE [state[c] EXCEPT !.answer = "refusal"]
  <2>1. /\ st \in States /\ st.traces = state[c].traces
        /\ st.evidence \/ st.handoffs > 0 \/ st.answer = "refusal"
    BY <1>1, <1>2 DEF Texts, Trusted, States
  <2>2. AtStep(c, "safety_review") /\ Succeed(c, st)
    BY <1>11 DEF Review
  <2> HIDE DEF st
  <2> QED
    BY <2>1, <2>2, SucceedInv
<1>12. CASE Finish(c)
  <2>1. /\ at' = at /\ state' = state /\ pc[c] = "next" /\ at[c].step > Len(Steps(c))
        /\ pc'[c] \in {"user", "streaming"}
    BY <1>1, <1>12 DEF Finish, Write, Goto
  <2>2. Len(state[c].traces) = Len(Steps(c))
    BY <2>1, StepsTyped DEF WorkflowInv, InWorkflow
  <2> QED
    BY <2>1, <2>2 DEF WorkflowInv, InWorkflow, InStep, Answered, Steps, Reviewed, Trusted
<1>13. CASE Deliver(c) \/ RequestTimeout(c)
  <2>1. /\ at' = at /\ state' = state /\ pc'[c] \in Ended
        /\ Answered(c)' => Answered(c)
    BY <1>1, <1>13 DEF Deliver, RequestTimeout, Goto, Ended, Answered
  <2> QED
    BY <2>1, LeaveInv
<1> QED
  BY <1>3, <1>4, <1>5, <1>6, <1>7, <1>8, <1>9, <1>10, <1>11, <1>12, <1>13 DEF Waited, Local

-----------------------------------------------------------------------------
(* The writes of a chat *)

\* nothing of the chat is being stored yet
Before(c) == pc[c] \in {"new", "ready", "refused"} \/ InWorkflow(c)

\* A new call of the database, and those that go on.
LEMMA WritesOf ==
  ASSUME NEW c \in Chats, NEW d \in Chats, NEW op \in Writing \cup {"ticket"}, NEW rest,
         threads' = rest \cup {Thread(c, op)}
  PROVE  /\ d # c \/ op = "ticket" => Writes(d)' = {t \in rest : t.chat = d /\ t.op \in Writing}
         /\ op \in Writing =>
              Writes(c)' = {t \in rest : t.chat = c /\ t.op \in Writing} \cup {Thread(c, op)}
<1>1. Thread(c, op).chat = c /\ Thread(c, op).op = op
  BY DEF Thread
<1>2. "ticket" \notin Writing
  BY DEF Writing
<1>3. Writes(d)' = {t \in rest \cup {Thread(c, op)} : t.chat = d /\ t.op \in Writing}
  BY DEF Writes
<1>4. Writes(c)' = {t \in rest \cup {Thread(c, op)} : t.chat = c /\ t.op \in Writing}
  BY DEF Writes
<1> HIDE DEF Thread
<1> QED
  BY <1>1, <1>2, <1>3, <1>4

\* A chat that has stored nothing, and still stores nothing.
LEMMA BeforeInv ==
  ASSUME NEW c \in Chats, WriteInv(c), Before(c),
         Before(c)' \/ pc'[c] \in {"error", "timeout"} \/ (pc'[c] = "streaming" /\ ~Persists(c)'),
         turns'[c] = turns[c], runs'[c] = runs[c], Writes(c)' = Writes(c)
  PROVE  WriteInv(c)'
BY DEF WriteInv, Before, InWorkflow, InStep

\* Its first write.
LEMMA FirstWrite ==
  ASSUME NEW c \in Chats, WriteInv(c), Before(c), NEW op \in {"user", "failed"},
         pc'[c] = op, turns'[c] = turns[c], runs'[c] = runs[c], Writes(c)' = {Thread(c, op)},
         op = "failed" => state'[c].traces # <<>> /\ state'[c].traces[Len(state'[c].traces)] = "failed",
         op = "user" => Len(state'[c].traces) = Len(Steps(c)')
  PROVE  WriteInv(c)'
<1>1. turns'[c] = <<>> /\ runs'[c] = {}
  BY DEF WriteInv, Before
<1>2. Thread(c, op).op = op
  BY DEF Thread
<1>3. \A t \in Writes(c)' : t = Thread(c, op)
  OBVIOUS
<1>4. Records(c, op, state[c].traces)'
  BY <1>1 DEF Records, Said
<1> HIDE DEF Thread
<1>5. ~Before(c)' /\ pc'[c] \notin {"streaming", "done"}
  BY DEF Before, InWorkflow, InStep
<1> QED
  BY <1>1, <1>2, <1>3, <1>4, <1>5 DEF WriteInv, Before

\* What a chat does itself keeps the invariant of its writes.
LEMMA OwnWrites ==
  ASSUME TypeOK, NEW c \in Chats, WorkflowInv(c), WriteInv(c),
         Waited(c) \/ Local(c) \/ StepTimeout(c) \/ RequestTimeout(c)
  PROVE  WriteInv(c)'
<1>1. /\ pc \in [Chats -> Pc] /\ at \in [Chats -> Places] /\ state \in [Chats -> States]
      /\ at[c] \in Places /\ state[c] \in States /\ threads \subseteq Calls
  BY TypeParts
<1>2. UNCHANGED <<turns, runs>>
  BY DEF Waited, Local, StepTimeout, RequestTimeout, Prepare, Reply, Found, Answer, StepRaises,
         Deliver, Begin, Retrieve, Round, Search, Handoff, UnknownTool, Review, Finish, storeVars
<1>3. threads' = threads => Writes(c)' = Writes(c)
  BY DEF Writes
<1>4. CASE Prepare(c) \/ Begin(c) \/ Retrieve(c) \/ Reply(c) \/ Round(c) \/ Search(c) \/ Found(c)
           \/ Answer(c) \/ Review(c)
  <2>1. Before(c) /\ threads' = threads
    BY <1>4 DEF Prepare, Begin, Retrieve, Reply, Round, Search, Found, Answer, Review, AtStep,
                Before, InWorkflow, InStep
  <2>2. pc'[c] \in {"ready", "refused", "next", "asking", "answering", "calling", "searching"}
    BY <1>1, <1>4 DEF Prepare, Begin, Retrieve, Reply, Round, Search, Found, Answer, Review, Succeed, Goto
  <2> QED
    BY <1>2, <1>3, <2>1, <2>2, BeforeInv DEF Before, InWorkflow, InStep
<1>5. CASE Handoff(c)
  <2>1. pc[c] = "calling" /\ pc'[c] = "handing" /\ threads' = threads \cup {Thread(c, "ticket")}
    BY <1>1, <1>5 DEF Handoff, Hand, Goto
  <2>2. Writes(c)' = Writes(c)
    BY <2>1, WritesOf DEF Writes
  <2> QED
    BY <1>2, <2>1, <2>2, BeforeInv DEF Before, InWorkflow, InStep
<1>6. CASE UnknownTool(c) \/ StepRaises(c) \/ StepTimeout(c)
  <2>1. Retrieving(c) /\ (Fail(c, "error", threads) \/ Fail(c, "timeout", threads))
    BY <1>6 DEF UnknownTool, StepRaises, StepTimeout, Retrieving
  <2>2. Before(c) /\ Writes(c) = {}
    BY <2>1 DEF Retrieving, Before, InWorkflow, WriteInv
  <2>3. CASE pc'[c] \in {"next", "error", "timeout"} /\ threads' = threads
    BY <1>2, <1>3, <2>2, <2>3, BeforeInv DEF Before, InWorkflow
  <2>4. CASE pc'[c] = "failed" /\ threads' = threads \cup {Thread(c, "failed")}
    <3>1. Writes(c)' = {Thread(c, "failed")}
      BY <2>2, <2>4, WritesOf DEF Writes, Writing
    <3>2. Len(state'[c].traces) = Len(state[c].traces) + 1 /\ state'[c].traces[Len(state'[c].traces)] = "failed"
      BY <2>1, FailEffect
    <3>3. state'[c].traces # <<>>
      BY <1>1, <3>2 DEF States
    <3> QED
      BY <1>2, <2>2, <2>4, <3>1, <3>2, <3>3, FirstWrite
  <2> QED
    BY <2>1, <2>3, <2>4, FailEffect
<1>7. CASE Finish(c)
  <2>1. Before(c) /\ Writes(c) = {} /\ at' = at /\ state' = state
    BY <1>7 DEF Finish, Before, InWorkflow, WriteInv
  <2>2. CASE Persists(c)
    <3>1. pc'[c] = "user" /\ threads' = threads \cup {Thread(c, "user")}
      BY <1>1, <1>7, <2>2 DEF Finish, Write, Goto
    <3>2. Writes(c)' = {Thread(c, "user")}
      BY <2>1, <3>1, WritesOf DEF Writes, Writing
    <3>3. Len(state'[c].traces) = Len(Steps(c)')
      BY <1>7, <2>1, StepsTyped DEF Finish, WorkflowInv, InWorkflow, Steps
    <3> QED
      BY <1>2, <2>1, <3>1, <3>2, <3>3, FirstWrite
  <2>3. CASE ~Persists(c)
    <3>1. pc'[c] = "streaming" /\ threads' = threads /\ ~Persists(c)'
      BY <1>1, <1>7, <2>3 DEF Finish, Goto, Persists
    <3> QED
      BY <1>2, <1>3, <2>1, <3>1, BeforeInv
  <2> QED
    BY <2>2, <2>3
<1>8. CASE Deliver(c)
  <2>1. pc[c] = "streaming" /\ pc'[c] = "done" /\ threads' = threads /\ at' = at /\ state' = state
    BY <1>1, <1>8 DEF Deliver, Goto
  <2>2. Writes(c) = {}
    BY <2>1 DEF WriteInv, Writes, Writing
  <2> QED
    BY <1>2, <1>3, <2>1, <2>2 DEF WriteInv, Records, Steps, InWorkflow, InStep, Persists
<1>9. CASE RequestTimeout(c)
  <2>1. pc'[c] = "timeout" /\ threads' = threads /\ at' = at /\ state' = state
    BY <1>1, <1>9 DEF RequestTimeout, Goto
  <2>2. \A t \in Writes(c) : Records(c, t.op, state[c].traces)'
    BY <1>2, <2>1 DEF WriteInv, Records, Steps
  <2>3. \A r \in runs[c] : Records(c, r.status, r.traces)'
    BY <1>2, <2>1 DEF WriteInv, Records, Steps
  <2> QED
    BY <1>2, <1>3, <2>1, <2>2, <2>3 DEF WriteInv, InWorkflow, InStep, Persists
<1> QED
  BY <1>4, <1>5, <1>6, <1>7, <1>8, <1>9 DEF Waited, Local

\* A call of the database that writes is the only one of its chat: it finds the
\* conversation as the write before has left it.
LEMMA WriteReturns ==
  ASSUME TypeOK, NEW t \in threads, t.op \in Writing, NEW c \in Chats, t.chat = c,
         WorkflowInv(c), WriteInv(c), ThreadReturns(t) \/ ThreadRaises(t)
  PROVE  WorkflowInv(c)' /\ WriteInv(c)'
<1>1. /\ pc \in [Chats -> Pc] /\ at \in [Chats -> Places] /\ state \in [Chats -> States]
      /\ turns \in [Chats -> Seq({"user", "assistant"})] /\ runs \in [Chats -> SUBSET Run]
      /\ at[c] \in Places
  BY TypeParts
<1>2. /\ Writes(c) = {t} /\ runs[c] = {} /\ pc[c] \in {t.op, "timeout"}
      /\ Records(c, t.op, state[c].traces)
  BY DEF WriteInv, Writes
<1>3. t.op \in {"user", "assistant", "succeeded", "failed"}
  BY DEF Writing
<1>4. state' = state
  BY <1>3 DEF ThreadReturns, ThreadRaises, chatVars
<1>5. at' = at /\ Steps(c)' = Steps(c) /\ Persists(c)' = Persists(c)
  BY <1>3 DEF ThreadReturns, ThreadRaises, chatVars, GoOn, Steps, Persists
<1>6. {s \in threads \ {t} : s.chat = c /\ s.op \in Writing} = {}
  BY <1>2 DEF Writes
<1>7. \/ pc'[c] = pc[c] /\ Writes(c)' = {}
      \/ pc[c] = t.op /\ pc'[c] = "error" /\ Writes(c)' = {}
      \/ /\ pc[c] = t.op /\ ThreadReturns(t) /\ t.op # "failed" /\ pc'[c] = After(t.op)
         /\ Writes(c)' = IF After(t.op) = "streaming" THEN {} ELSE {Thread(c, After(t.op))}
      \/ pc[c] = t.op /\ ThreadReturns(t) /\ t.op = "failed" /\ pc'[c] = at[c].cause /\ Writes(c)' = {}
  <2>1. threads' = threads \ {t} => Writes(c)' = {}
    BY <1>6 DEF Writes
  <2>2. CASE ~Awaited(t)
    BY <2>1, <2>2 DEF ThreadReturns, ThreadRaises, chatVars
  <2>3. CASE Awaited(t) /\ ThreadRaises(t)
    BY <1>1, <1>3, <2>1, <2>3 DEF ThreadRaises, Awaited, Goto
  <2>4. CASE Awaited(t) /\ ThreadReturns(t) /\ t.op = "failed"
    BY <1>1, <2>1, <2>4 DEF ThreadReturns, GoOn, Awaited, Goto
  <2>5. CASE Awaited(t) /\ ThreadReturns(t) /\ t.op # "failed"
    <3>1. After(t.op) \in {"assistant", "succeeded", "streaming"}
      BY <1>3, <2>5 DEF After
    <3>2. pc[c] = t.op /\ IF After(t.op) = "streaming"
                            THEN Goto(c, "streaming") /\ threads' = threads \ {t}
                            ELSE Write(c, After(t.op), threads \ {t})
      BY <1>3, <2>5 DEF ThreadReturns, GoOn, Awaited
    <3>3. CASE After(t.op) = "streaming"
      BY <1>1, <2>1, <2>5, <3>2, <3>3 DEF Goto
    <3>4. CASE After(t.op) # "streaming"
      <4>1. pc'[c] = After(t.op) /\ threads' = (threads \ {t}) \cup {Thread(c, After(t.op))}
        BY <1>1, <3>2, <3>4 DEF Write, Goto
      <4>2. Writes(c)' = {Thread(c, After(t.op))}
        BY <1>6, <3>1, <3>4, <4>1, WritesOf DEF Writing
      <4> QED
        BY <2>5, <3>2, <3>4, <4>1, <4>2
    <3> QED
      BY <3>3, <3>4
  <2> QED
    BY <2>2, <2>3, <2>4, <2>5
<1>8. at[c].cause \in {"error", "timeout"}
  BY <1>1 DEF Places
<1>9. WorkflowInv(c)'
  <2>1. Answered(c)' => Answered(c)
    BY <1>2, <1>3, <1>7, <1>8 DEF Answered, After
  <2>2. pc'[c] \in Writing \cup Ended \cup {"streaming"}
    BY <1>2, <1>3, <1>7, <1>8 DEF Writing, Ended, After
  <2> QED
    BY <1>4, <1>5, <2>1, <2>2, LeaveInv
<1>10. ~Before(c)' /\ pc'[c] # "done"
  BY <1>2, <1>3, <1>7, <1>8 DEF Before, InWorkflow, InStep, After
<1>12. CASE Stored(t) /\ t.op \in {"user", "assistant"}
  <2>1. turns'[c] = Append(turns[c], t.op) /\ runs'[c] = {}
    BY <1>1, <1>2, <1>12 DEF Stored
  <2>2. turns[c] = Said(t.op) /\ Len(state[c].traces) = Len(Steps(c))
    BY <1>2, <1>12 DEF Records
  <2>3. turns'[c] = Said(After(t.op)) /\ After(t.op) \in {"assistant", "succeeded"}
    BY <1>12, <2>1, <2>2 DEF Said, After
  <2>4. turns'[c] \in {<<"user">>, <<"user", "assistant">>}
    BY <2>3 DEF Said
  <2>5. Records(c, After(t.op), state[c].traces)'
    BY <1>4, <1>5, <2>2, <2>3 DEF Records
  <2>6. Thread(c, After(t.op)).op = After(t.op)
    BY DEF Thread
  <2>7. \A s \in Writes(c)' : s = Thread(c, After(t.op)) /\ Writes(c)' = {s} /\ pc'[c] = After(t.op)
    BY <1>7
  <2>8. pc'[c] # "streaming"
    BY <1>2, <1>7, <1>8, <1>12, <2>3
  <2> HIDE DEF Thread
  <2> QED
    BY <1>9, <1>10, <2>1, <2>4, <2>5, <2>6, <2>7, <2>8 DEF WriteInv, Before
<1>13. CASE Stored(t) /\ t.op \in {"succeeded", "failed"}
  <2>0. PICK r : r = [status |-> t.op, version |-> t.version, traces |-> state[c].traces]
    OBVIOUS
  <2>1. runs' = [runs EXCEPT ![c] = @ \cup {r}] /\ turns' = turns
    BY <1>13, <2>0 DEF Stored
  <2>2. r.status = t.op /\ r.traces = state[c].traces
    BY <2>0
  <2>3. runs'[c] = {r}
    BY <1>1, <1>2, <2>1
  <2>4. Records(c, r.status, r.traces)'
    BY <1>2, <1>4, <1>5, <2>1, <2>2 DEF Records
  <2>5. Writes(c)' = {}
    BY <1>7, <1>13 DEF After
  <2>6. pc'[c] = "streaming" => r.status = "succeeded"
    BY <1>2, <1>7, <1>8, <1>13, <2>2
  <2>7. turns'[c] = turns[c]
    BY <2>1
  <2> QED
    BY <1>9, <1>10, <2>3, <2>4, <2>5, <2>6, <2>7 DEF WriteInv, Before
<1>14. Stored(t) \/ (ThreadRaises(t) /\ UNCHANGED storeVars)
  BY DEF ThreadReturns, ThreadRaises
<1>15. CASE ThreadRaises(t) /\ UNCHANGED storeVars
  <2>1. Writes(c)' = {} /\ pc'[c] # "streaming"
    <3>1. pc'[c] \in {pc[c], "error"} /\ threads' = threads \ {t}
      BY <1>1, <1>3, <1>15 DEF ThreadRaises, chatVars, Goto
    <3> QED
      BY <1>2, <1>3, <1>6, <3>1 DEF Writes
  <2>2. turns'[c] = turns[c] /\ runs'[c] = {}
    BY <1>2, <1>15 DEF storeVars
  <2> QED
    BY <1>9, <1>10, <2>1, <2>2 DEF WriteInv, Before
<1> QED
  BY <1>3, <1>9, <1>12, <1>13, <1>14, <1>15

\* A ticket is written while its chat waits for it, or after it has been given up;
\* what is stored of the conversation does not change.
LEMMA TicketReturns ==
  ASSUME TypeOK, NEW t \in threads, t.op = "ticket", NEW c \in Chats, t.chat = c,
         WorkflowInv(c), WriteInv(c), ThreadReturns(t) \/ ThreadRaises(t)
  PROVE  WorkflowInv(c)' /\ WriteInv(c)'
<1>1. /\ pc \in [Chats -> Pc] /\ at \in [Chats -> Places] /\ state \in [Chats -> States]
      /\ at[c] \in Places /\ threads \subseteq Calls
  BY TypeParts
<1>2. UNCHANGED <<turns, runs>>
  BY DEF ThreadReturns, ThreadRaises, Stored, storeVars
<1>3. {s \in threads \ {t} : s.chat = c /\ s.op \in Writing} = Writes(c)
  BY DEF Writes, Writing
<1>4. threads' = threads \ {t} => Writes(c)' = Writes(c)
  BY <1>3 DEF Writes
<1>5. CASE ~Awaited(t)
  <2>1. UNCHANGED chatVars /\ threads' = threads \ {t}
    BY <1>5 DEF ThreadReturns, ThreadRaises, chatVars
  <2>2. WorkflowInv(c)'
    BY <2>1 DEF chatVars, WorkflowInv, InWorkflow, Answered, Steps, Step, Reviewed, Trusted
  <2>3. Writes(c)' = Writes(c)
    BY <1>4, <2>1
  <2> QED
    BY <1>2, <2>1, <2>2, <2>3 DEF chatVars, WriteInv, Records, InWorkflow, Steps, Persists
<1>6. CASE Awaited(t) /\ ThreadReturns(t)
  <2>1. /\ pc[c] = "handing" /\ pc'[c] = "calling" /\ threads' = threads \ {t} /\ state' = state
        /\ at'[c].run = at[c].run /\ at'[c].step = at[c].step
    BY <1>1, <1>6 DEF ThreadReturns, Awaited, GoOn, Goto, Places
  <2>2. WorkflowInv(c)'
    BY <2>1, StayInv DEF Retrieving, InStep
  <2>3. Before(c) /\ Before(c)'
    BY <2>1 DEF Before, InWorkflow, InStep
  <2> QED
    BY <1>2, <1>4, <2>1, <2>2, <2>3, BeforeInv
<1>7. CASE Awaited(t) /\ ThreadRaises(t)
  <2>1. pc[c] = "handing" /\ Fail(c, "error", threads \ {t})
    BY <1>7 DEF ThreadRaises, Awaited
  <2>2. Retrieving(c) /\ Before(c)
    BY <2>1 DEF Retrieving, Before, InWorkflow, InStep
  <2>3. Writes(c) = {}
    BY <2>2 DEF Before, WriteInv
  <2>4. /\ WorkflowInv(c)'
        /\ Len(state'[c].traces) = Len(state[c].traces) + 1
        /\ state'[c].traces[Len(state'[c].traces)] = "failed"
        /\ \/ pc'[c] = "next" /\ threads' = threads \ {t}
           \/ pc'[c] = "failed" /\ threads' = (threads \ {t}) \cup {Thread(c, "failed")}
           \/ pc'[c] \in {"error", "timeout"} /\ threads' = threads \ {t}
    BY <2>1, <2>2, FailEffect
  <2>5. CASE pc'[c] \in {"next", "error", "timeout"} /\ threads' = threads \ {t}
    BY <1>2, <1>4, <2>2, <2>4, <2>5, BeforeInv DEF Before, InWorkflow
  <2>6. CASE pc'[c] = "failed" /\ threads' = (threads \ {t}) \cup {Thread(c, "failed")}
    <3>1. Writes(c)' = {Thread(c, "failed")}
      <4>1. Writes(c)' = {s \in threads \ {t} : s.chat = c /\ s.op \in Writing} \cup {Thread(c, "failed")}
        BY <2>6, WritesOf DEF Writing
      <4> QED
        BY <1>3, <2>3, <4>1
    <3>2. state'[c].traces # <<>>
      BY <1>1, <2>4 DEF States
    <3> QED
      BY <1>2, <2>2, <2>4, <2>6, <3>1, <3>2, FirstWrite
  <2> QED
    BY <2>4, <2>5, <2>6
<1> QED
  BY <1>5, <1>6, <1>7

-----------------------------------------------------------------------------
(* The tickets of a chat *)

\* A new call that is not a ticket of the chat leaves its tickets alone.
LEMMA HandingOf ==
  ASSUME NEW c \in Chats, NEW d \in Chats, NEW op, d # c \/ op # "ticket", NEW rest,
         threads' = rest \/ threads' = rest \cup {Thread(c, op)}
  PROVE  Handing(d)' = {t \in rest : t.chat = d /\ t.op = "ticket"}
<1>1. Thread(c, op).chat = c /\ Thread(c, op).op = op
  BY DEF Thread
<1> HIDE DEF Thread
<1>2. \A t : t.chat = d /\ t.op = "ticket" => (t \in threads' <=> t \in rest)
  BY <1>1
<1> QED
  BY <1>2 DEF Handing

\* A trace more: no chat becomes well by it, and a failed one ends that.
LEMMA AllWellGrows ==
  ASSUME TypeOK, NEW c \in Chats, NEW status, state'[c].traces = Append(state[c].traces, status)
  PROVE  (AllWell(c)' => AllWell(c)) /\ (status = "failed" => ~AllWell(c)')
<1> DEFINE was == state[c].traces
           now == state'[c].traces
<1>1. was \in Seq({"succeeded", "failed"})
  BY TypeParts DEF States
<1>2. /\ DOMAIN now = 1..(Len(was) + 1) /\ DOMAIN was = 1..Len(was) /\ Len(was) \in Nat
      /\ \A n \in DOMAIN was : now[n] = was[n]
      /\ now[Len(was) + 1] = status
  BY <1>1
<1> HIDE DEF was, now
<1>3. \A n \in DOMAIN was : n \in DOMAIN now
  BY <1>2
<1>4. Len(was) + 1 \in DOMAIN now
  BY <1>2
<1> QED
  BY <1>2, <1>3, <1>4 DEF AllWell, was, now

\* A chat that writes no ticket and receives none.
LEMMA TicketStay ==
  ASSUME TypeOK, NEW c \in Chats, TicketInv(c),
         Handing(c)' = Handing(c), tickets'[c] = tickets[c], state'[c].handoffs = state[c].handoffs,
         pc'[c] \in {"new", "ready"} => pc[c] \in {"new", "ready"},
         InWorkflow(c)' => \/ pc[c] = "ready"
                           \/ InWorkflow(c) /\ pc[c] # "handing" /\ at'[c].step \in {at[c].step, at[c].step + 1}
                           \/ InWorkflow(c) /\ at'[c].step = at[c].step + 1,
         Live(c)' /\ AllWell(c)' => Live(c) /\ AllWell(c) /\ pc[c] # "handing"
  PROVE  TicketInv(c)'
<1>1. at[c].step \in Nat /\ \A t \in Handing(c) : t.step \in Nat
  BY StepsTyped, TypeParts DEF Handing, Calls
<1>2. Live(c)' /\ AllWell(c)' => Handing(c) = {}
  BY DEF TicketInv, OfThisStep
<1>3. InWorkflow(c)' => \A t \in Handing(c) : t.step < at'[c].step
  <2>1. CASE pc[c] = "ready"
    BY <2>1 DEF TicketInv
  <2>2. CASE InWorkflow(c) /\ pc[c] # "handing" /\ at'[c].step \in {at[c].step, at[c].step + 1}
    BY <1>1, <2>2 DEF TicketInv, OfThisStep
  <2>3. CASE InWorkflow(c) /\ at'[c].step = at[c].step + 1
    BY <1>1, <2>3 DEF TicketInv, OfThisStep
  <2> QED
    BY <2>1, <2>2, <2>3
<1>4. /\ IsFiniteSet(Handing(c)') /\ tickets'[c] + Cardinality(Handing(c)') <= state'[c].handoffs
      /\ pc'[c] \in {"new", "ready"} => Handing(c)' = {}
  BY DEF TicketInv
<1>5. Live(c)' /\ AllWell(c)' => tickets'[c] + Cardinality(Handing(c)') = state'[c].handoffs
  BY DEF TicketInv
<1> QED
  BY <1>2, <1>3, <1>4, <1>5 DEF TicketInv

\* A failing step: what is left of its tickets belongs to the past.
LEMMA FailTickets ==
  ASSUME TypeOK, NEW c \in Chats, NEW cause \in {"error", "timeout"}, NEW rest, Fail(c, cause, rest),
         InWorkflow(c)
  PROVE  /\ state'[c].handoffs = state[c].handoffs /\ ~AllWell(c)'
         /\ pc'[c] \in {"next", "failed", "error", "timeout"}
         /\ InWorkflow(c)' => at'[c].step = at[c].step + 1
         /\ Handing(c)' = {t \in rest : t.chat = c /\ t.op = "ticket"}
<1>1. /\ pc \in [Chats -> Pc] /\ at \in [Chats -> Places] /\ state \in [Chats -> States]
      /\ at[c] \in Places /\ state[c] \in States
  BY TypeParts
<1>2. state'[c].handoffs = state[c].handoffs /\ state'[c].traces = Append(state[c].traces, "failed")
  BY <1>1 DEF Fail, States
<1>3. ~AllWell(c)'
  BY <1>2, AllWellGrows
<1>4. /\ pc'[c] \in {"next", "failed", "error", "timeout"}
      /\ pc'[c] = "next" => at'[c].step = at[c].step + 1
  BY <1>1 DEF Fail, Write, Goto, Places
<1>5. threads' = rest \/ threads' = rest \cup {Thread(c, "failed")}
  BY DEF Fail, Write
<1>6. Handing(c)' = {t \in rest : t.chat = c /\ t.op = "ticket"}
  BY <1>5, HandingOf
<1> QED
  BY <1>2, <1>3, <1>4, <1>6 DEF InWorkflow, InStep

\* Whatever a chat does itself, its tickets stay accounted for.
LEMMA OwnTickets ==
  ASSUME TypeOK, NEW c \in Chats, WorkflowInv(c), TicketInv(c),
         Waited(c) \/ Local(c) \/ StepTimeout(c) \/ RequestTimeout(c)
  PROVE  TicketInv(c)'
<1>1. /\ pc \in [Chats -> Pc] /\ at \in [Chats -> Places] /\ state \in [Chats -> States]
      /\ at[c] \in Places /\ state[c] \in States /\ threads \subseteq Calls
      /\ tickets[c] \in Nat
  BY TypeParts
<1>2. tickets' = tickets
  BY DEF Waited, Local, StepTimeout, RequestTimeout, Prepare, Reply, Found, Answer, StepRaises,
         Deliver, Begin, Retrieve, Round, Search, Handoff, UnknownTool, Review, Finish, storeVars
<1>3. threads' = threads => Handing(c)' = Handing(c)
  BY DEF Handing
<1>4. CASE Prepare(c) \/ Begin(c)
  <2>1. /\ threads' = threads /\ state' = state
        /\ \/ pc[c] = "new" /\ pc'[c] \in {"ready", "refused"}
           \/ pc[c] = "ready" /\ pc'[c] = "next"
    BY <1>1, <1>4 DEF Prepare, Begin, Goto
  <2> QED
    BY <1>2, <1>3, <2>1, TicketStay DEF Live, InWorkflow, InStep, Answered, AllWell
<1>5. CASE Retrieve(c) \/ Round(c) \/ Search(c) \/ Found(c)
  <2>1. /\ threads' = threads /\ pc[c] \in {"next", "calling", "searching"}
        /\ pc'[c] \in {"asking", "answering", "searching", "calling"}
    BY <1>1, <1>5 DEF Retrieve, Round, Search, Found, AtStep, Goto
  <2>2. at'[c].step = at[c].step
    BY <1>1, <1>5 DEF Retrieve, Round, Search, Found, Places
  <2>3. state'[c].handoffs = state[c].handoffs /\ state'[c].traces = state[c].traces
    BY <1>1, <1>5 DEF Retrieve, Round, Search, Found, States
  <2> QED
    BY <1>2, <1>3, <2>1, <2>2, <2>3, TicketStay DEF Live, InWorkflow, InStep, Answered, AllWell
<1>6. ASSUME NEW st \in States, st.traces = state[c].traces, st.handoffs = state[c].handoffs,
             Succeed(c, st), threads' = threads, InWorkflow(c), pc[c] # "handing"
      PROVE  TicketInv(c)'
  <2>1. pc'[c] = "next" /\ at'[c].step = at[c].step + 1
    BY <1>1, <1>6 DEF Succeed, Goto, Places
  <2>2. state'[c] = [st EXCEPT !.traces = Append(@, "succeeded")]
    BY <1>1, <1>6 DEF Succeed
  <2>3. state'[c].handoffs = state[c].handoffs /\ state'[c].traces = Append(state[c].traces, "succeeded")
    BY <1>6, <2>2 DEF States
  <2>4. AllWell(c)' => AllWell(c)
    BY <2>3, AllWellGrows
  <2> QED
    BY <1>2, <1>3, <1>6, <2>1, <2>3, <2>4, TicketStay DEF Live
<1>7. CASE Reply(c)
  <2>1. pc[c] = "asking" /\ threads' = threads
    BY <1>7 DEF Reply
  <2>2. CASE \E text \in Texts : Succeed(c, [state[c] EXCEPT !.answer = text])
    <3>1. PICK text \in Texts : Succeed(c, [state[c] EXCEPT !.answer = text])
      BY <2>2
    <3>2. /\ [state[c] EXCEPT !.answer = text] \in States
          /\ [state[c] EXCEPT !.answer = text].traces = state[c].traces
          /\ [state[c] EXCEPT !.answer = text].handoffs = state[c].handoffs
      BY <1>1, StateFields DEF States
    <3> QED
      BY <1>6, <2>1, <3>1, <3>2 DEF InWorkflow, InStep
  <2>3. CASE ~\E text \in Texts : Succeed(c, [state[c] EXCEPT !.answer = text])
    <3>1. \/ \E text \in Texts : /\ state' = [state EXCEPT ![c] = [state[c] EXCEPT !.answer = text]]
                               /\ Goto(c, "answering") /\ UNCHANGED at
          \/ \E calls \in Replies : /\ at' = [at EXCEPT ![c].used = TRUE, ![c].calls = calls]
                                  /\ Goto(c, "calling") /\ UNCHANGED state
      BY <1>7, <2>3, Zenon DEF Reply
    <3>2. pc'[c] \in {"answering", "calling"} /\ at'[c].step = at[c].step
      BY <1>1, <3>1 DEF Goto, Places
    <3>3. state'[c].handoffs = state[c].handoffs /\ state'[c].traces = state[c].traces
      BY <1>1, <3>1 DEF States
    <3> QED
      BY <1>2, <1>3, <2>1, <3>2, <3>3, TicketStay DEF Live, InWorkflow, InStep, Answered, AllWell
  <2> QED
    BY <2>2, <2>3
<1>8. CASE Answer(c)
  <2>1. PICK text \in Texts : Succeed(c, [state[c] EXCEPT !.answer = text])
    BY <1>8 DEF Answer
  <2>2. /\ [state[c] EXCEPT !.answer = text] \in States
        /\ [state[c] EXCEPT !.answer = text].traces = state[c].traces
        /\ [state[c] EXCEPT !.answer = text].handoffs = state[c].handoffs
    BY <1>1, StateFields DEF States
  <2> QED
    BY <1>6, <1>8, <2>1, <2>2 DEF Answer, InWorkflow, InStep
<1>9. CASE Review(c)
  <2> DEFINE st == IF Trusted(c) THEN state[c] ELSE [state[c] EXCEPT !.answer = "refusal"]
  <2>1. Succeed(c, st) /\ threads' = threads /\ pc[c] = "next"
    BY <1>9 DEF Review, AtStep
  <2>2. st \in States /\ st.traces = state[c].traces /\ st.handoffs = state[c].handoffs
    BY <1>1, StateFields DEF States, Texts
  <2> HIDE DEF st
  <2> QED
    BY <1>6, <2>1, <2>2 DEF InWorkflow
<1>10. CASE Handoff(c)
  <2>1. /\ pc[c] = "calling" /\ pc'[c] = "handing" /\ at' = at
        /\ threads' = threads \cup {Thread(c, "ticket")}
    BY <1>1, <1>10 DEF Handoff, Hand, Goto
  <2>2. state'[c].handoffs = state[c].handoffs + 1 /\ state'[c].traces = state[c].traces
    BY <1>1, <1>10 DEF Handoff, States
  <2>3. PICK k : k = Thread(c, "ticket")
    OBVIOUS
  <2>4. k.chat = c /\ k.op = "ticket" /\ k.step = at[c].step
    BY <2>3 DEF Thread
  <2>5. Handing(c)' = Handing(c) \cup {k}
    BY <2>1, <2>3, <2>4 DEF Handing
  <2>6. at[c].step \in Nat /\ \A t \in Handing(c) : t.step < at[c].step
    BY <1>1, <2>1 DEF TicketInv, OfThisStep, InWorkflow, Places
  <2>7. k \notin Handing(c)
    BY <2>4, <2>6
  <2>8. /\ IsFiniteSet(Handing(c)')
        /\ Cardinality(Handing(c)') = Cardinality(Handing(c)) + 1
        /\ Cardinality(Handing(c)) \in Nat
    BY <2>5, <2>7, FS_AddElement, FS_CardinalityType DEF TicketInv
  <2>9. AllWell(c)' => AllWell(c)
    BY <2>2 DEF AllWell
  <2>10. /\ Live(c)
         /\ AllWell(c) => tickets[c] + Cardinality(Handing(c)) = state[c].handoffs /\ Handing(c) = {}
    BY <2>1 DEF Live, InWorkflow, TicketInv, OfThisStep
  <2>11. /\ tickets'[c] + Cardinality(Handing(c)') <= state'[c].handoffs
         /\ AllWell(c) => tickets'[c] + Cardinality(Handing(c)') = state'[c].handoffs
    <3>1. tickets[c] + Cardinality(Handing(c)) <= state[c].handoffs /\ state[c].handoffs \in Nat
      BY <1>1 DEF TicketInv, States
    <3> QED
      BY <1>1, <1>2, <2>2, <2>8, <2>10, <3>1
  <2>12. OfThisStep(c, k)'
    BY <2>1, <2>4 DEF OfThisStep
  <2>13. \A t \in Handing(c)' : t.step < at'[c].step \/ OfThisStep(c, t)'
    <3>1. \A t \in Handing(c) : t.step < at'[c].step
      BY <2>1, <2>6
    <3>2. k.step = at'[c].step /\ pc'[c] = "handing"
      BY <2>1, <2>4
    <3> QED
      BY <2>5, <3>1, <3>2 DEF OfThisStep
  <2>14. AllWell(c)' => \A t \in Handing(c)' : OfThisStep(c, t)'
    BY <2>1, <2>4, <2>5, <2>9, <2>10 DEF OfThisStep
  <2>15. \A s, t \in Handing(c)' : s.step = t.step => s = t
    <3>1. \A s, t \in Handing(c) : s.step = t.step => s = t
      BY DEF TicketInv
    <3>2. \A s \in Handing(c) : s.step # k.step
      BY <2>4, <2>6
    <3> QED
      BY <2>5, <3>1, <3>2
  <2> QED
    BY <2>1, <2>8, <2>9, <2>11, <2>13, <2>14, <2>15 DEF TicketInv
<1>11. CASE UnknownTool(c) \/ StepRaises(c) \/ StepTimeout(c)
  <2>1. InWorkflow(c) /\ (Fail(c, "error", threads) \/ Fail(c, "timeout", threads))
    BY <1>11 DEF UnknownTool, StepRaises, StepTimeout, InWorkflow
  <2>2. /\ state'[c].handoffs = state[c].handoffs /\ ~AllWell(c)'
        /\ pc'[c] \in {"next", "failed", "error", "timeout"}
        /\ InWorkflow(c)' => at'[c].step = at[c].step + 1
        /\ Handing(c)' = {t \in threads : t.chat = c /\ t.op = "ticket"}
    BY <2>1, FailTickets
  <2>3. Handing(c)' = Handing(c)
    BY <2>2 DEF Handing
  <2> QED
    BY <1>2, <2>1, <2>2, <2>3, TicketStay
<1>12. CASE Finish(c)
  <2>1. /\ pc[c] = "next" /\ pc'[c] \in {"user", "streaming"} /\ state' = state
        /\ (threads' = threads \/ threads' = threads \cup {Thread(c, "user")})
    BY <1>1, <1>12 DEF Finish, Write, Goto
  <2>2. Handing(c)' = Handing(c)
    BY <2>1, HandingOf DEF Handing
  <2> QED
    BY <1>2, <2>1, <2>2, TicketStay DEF Live, InWorkflow, InStep, Answered, AllWell
<1>13. CASE Deliver(c) \/ RequestTimeout(c)
  <2>1. /\ threads' = threads /\ state' = state
        /\ \/ pc[c] = "streaming" /\ pc'[c] = "done"
           \/ pc'[c] = "timeout"
    BY <1>1, <1>13 DEF Deliver, RequestTimeout, Goto
  <2> QED
    BY <1>2, <1>3, <2>1, TicketStay DEF Live, InWorkflow, InStep, Answered, AllWell
<1> QED
  BY <1>4, <1>5, <1>7, <1>8, <1>9, <1>10, <1>11, <1>12, <1>13 DEF Waited, Local

\* What a returning call of the database leaves of the tickets of its chat.
LEMMA ThreadTickets ==
  ASSUME TypeOK, NEW t \in threads, NEW c \in Chats, t.chat = c, WorkflowInv(c), WriteInv(c),
         TicketInv(c), ThreadReturns(t) \/ ThreadRaises(t)
  PROVE  TicketInv(c)'
<1>1. /\ pc \in [Chats -> Pc] /\ at \in [Chats -> Places] /\ state \in [Chats -> States]
      /\ at[c] \in Places /\ state[c] \in States /\ threads \subseteq Calls
      /\ tickets \in [Chats -> Nat] /\ t.op \in Writing \cup {"ticket"}
  BY TypeParts DEF Calls
<1>2. /\ IsFiniteSet(Handing(c)) /\ Cardinality(Handing(c)) \in Nat /\ state[c].handoffs \in Nat
      /\ at[c].step \in Nat
  BY <1>1, FS_CardinalityType DEF TicketInv, States, Places
<1>3. CASE t.op # "ticket"
  <2>1. tickets'[c] = tickets[c]
    BY <1>1, <1>3 DEF ThreadReturns, ThreadRaises, Stored, storeVars, Writing
  <2>2. state' = state
    BY <1>3 DEF ThreadReturns, ThreadRaises, chatVars
  <2>3. t \in Writes(c)
    BY <1>1, <1>3 DEF Writes
  <2>4. pc[c] \in {t.op, "timeout"} /\ pc[c] \in Writing \cup {"timeout"}
    BY <1>1, <1>3, <2>3 DEF WriteInv
  <2>5. /\ \/ pc'[c] = pc[c]
           \/ pc[c] = "user" /\ pc'[c] = "assistant"
           \/ pc[c] = "assistant" /\ pc'[c] = "succeeded"
           \/ pc[c] = "succeeded" /\ pc'[c] = "streaming"
           \/ pc'[c] \in {"error", "timeout"}
        /\ \/ threads' = threads \ {t}
           \/ threads' = (threads \ {t}) \cup {Thread(c, "assistant")}
           \/ threads' = (threads \ {t}) \cup {Thread(c, "succeeded")}
    <3>1. CASE ~Awaited(t)
      BY <3>1 DEF ThreadReturns, ThreadRaises, chatVars
    <3>2. CASE Awaited(t) /\ ThreadReturns(t)
      <4>1. pc[c] = t.op /\ GoOn(t)
        BY <1>3, <3>2 DEF ThreadReturns, Awaited
      <4>2. at[c].cause \in {"error", "timeout"}
        BY <1>1 DEF Places
      <4> QED
        BY <1>1, <1>3, <4>1, <4>2 DEF GoOn, After, Write, Goto, Writing
    <3>3. CASE Awaited(t) /\ ThreadRaises(t)
      BY <1>1, <1>3, <3>3 DEF ThreadRaises, Goto
    <3> QED
      BY <3>1, <3>2, <3>3
  <2>6. Handing(c)' = {s \in threads \ {t} : s.chat = c /\ s.op = "ticket"}
    <3>1. PICK rest : rest = threads \ {t}
      OBVIOUS
    <3>2. \E op \in Writing : threads' = rest \/ threads' = rest \cup {Thread(c, op)}
      BY <2>5, <3>1 DEF Writing
    <3>3. Handing(c)' = {s \in rest : s.chat = c /\ s.op = "ticket"}
      BY <3>2, HandingOf DEF Writing
    <3> QED
      BY <3>1, <3>3
  <2>7. Handing(c)' = Handing(c)
    BY <1>3, <2>6 DEF Handing
  <2> QED
    BY <2>1, <2>2, <2>4, <2>5, <2>7, TicketStay DEF Live, InWorkflow, InStep, Answered, AllWell, Writing
<1>4. CASE t.op = "ticket"
  <2>1. t \in Handing(c)
    BY <1>4 DEF Handing
  <2>2. /\ IsFiniteSet(Handing(c) \ {t})
        /\ Cardinality(Handing(c) \ {t}) = Cardinality(Handing(c)) - 1
    BY <1>2, <2>1, FS_RemoveElement
  <2>3. {s \in threads \ {t} : s.chat = c /\ s.op = "ticket"} = Handing(c) \ {t}
    BY DEF Handing
  <2>4. /\ tickets'[c] \in {tickets[c], tickets[c] + 1}
        /\ ThreadReturns(t) => tickets'[c] = tickets[c] + 1
    BY <1>1, <1>4 DEF ThreadReturns, ThreadRaises, Stored, storeVars
  <2>5. \A s \in Handing(c) : s.step \in Nat
    BY <1>1 DEF Handing, Calls
  <2>6. /\ tickets'[c] + Cardinality(Handing(c) \ {t}) <= state[c].handoffs
        /\ ThreadReturns(t) => tickets'[c] + Cardinality(Handing(c) \ {t})
                                 = tickets[c] + Cardinality(Handing(c))
    <3>1. tickets[c] + Cardinality(Handing(c)) <= state[c].handoffs /\ tickets[c] \in Nat
      BY <1>1 DEF TicketInv
    <3> QED
      BY <1>2, <2>2, <2>4, <3>1
  <2>7. pc[c] \notin {"new", "ready"}
    BY <2>1 DEF TicketInv
  <2>8. Awaited(t) => OfThisStep(c, t)
    BY <1>4 DEF Awaited, OfThisStep
  <2>9. OfThisStep(c, t) => Awaited(t)
    BY <1>4 DEF Awaited, OfThisStep
  <2>10. CASE ~Awaited(t)
    <3>1. pc' = pc /\ at' = at /\ state' = state /\ threads' = threads \ {t}
      BY <2>10 DEF ThreadReturns, ThreadRaises, chatVars
    <3>2. Handing(c)' = Handing(c) \ {t}
      BY <3>1 DEF Handing
    <3>3. ~(Live(c) /\ AllWell(c))
      BY <2>1, <2>9, <2>10 DEF TicketInv
    <3>4. ~(Live(c)' /\ AllWell(c)')
      BY <3>1, <3>3 DEF Live, AllWell, InWorkflow, Answered
    <3>5. InWorkflow(c)' => \A s \in Handing(c)' : s.step < at'[c].step \/ OfThisStep(c, s)'
      BY <3>1, <3>2 DEF TicketInv, InWorkflow, OfThisStep
    <3> QED
      BY <2>2, <2>6, <2>7, <3>1, <3>2, <3>4, <3>5 DEF TicketInv
  <2>11. CASE Awaited(t) /\ ThreadReturns(t)
    <3>1. /\ pc[c] = "handing" /\ pc'[c] = "calling" /\ state' = state /\ threads' = threads \ {t}
          /\ at'[c].step = at[c].step
      BY <1>1, <1>4, <2>11 DEF ThreadReturns, Awaited, GoOn, Goto, Places
    <3>2. Handing(c)' = Handing(c) \ {t}
      BY <3>1 DEF Handing
    <3>3. \A s \in Handing(c) : s # t => s.step < at[c].step
      <4>1. SUFFICES ASSUME NEW s \in Handing(c), s.step = at[c].step PROVE s = t
        BY <3>1 DEF TicketInv, InWorkflow, InStep, OfThisStep
      <4> QED
        BY <2>1, <2>8, <2>11, <4>1 DEF TicketInv, OfThisStep
    <3>4. Live(c)' /\ AllWell(c)' => Live(c) /\ AllWell(c)
      BY <3>1 DEF Live, InWorkflow, InStep, AllWell
    <3>5. Live(c) /\ AllWell(c) =>
            /\ tickets[c] + Cardinality(Handing(c)) = state[c].handoffs
            /\ Handing(c) \ {t} = {}
      <4>1. SUFFICES ASSUME Live(c), AllWell(c) PROVE \A s \in Handing(c) : s = t
        BY DEF TicketInv
      <4>2. \A s \in Handing(c) : s.step = at[c].step
        BY <4>1 DEF TicketInv, OfThisStep
      <4> QED
        BY <1>2, <3>3, <4>2
    <3> QED
      BY <2>2, <2>6, <2>11, <3>1, <3>2, <3>3, <3>4, <3>5 DEF TicketInv
  <2>12. CASE Awaited(t) /\ ThreadRaises(t)
    <3>1. pc[c] = "handing" /\ Fail(c, "error", threads \ {t}) /\ InWorkflow(c)
      BY <1>4, <2>12 DEF ThreadRaises, Awaited, InWorkflow, InStep
    <3>2. /\ state'[c].handoffs = state[c].handoffs /\ ~AllWell(c)'
          /\ pc'[c] \in {"next", "failed", "error", "timeout"}
          /\ InWorkflow(c)' => at'[c].step = at[c].step + 1
          /\ Handing(c)' = Handing(c) \ {t}
      BY <2>3, <3>1, FailTickets
    <3>3. InWorkflow(c)' => \A s \in Handing(c)' : s.step < at'[c].step
      <4>1. \A s \in Handing(c) : s.step <= at[c].step
        BY <1>2, <2>5, <3>1 DEF TicketInv, OfThisStep
      <4> QED
        BY <1>2, <2>5, <3>2, <4>1
    <3> QED
      BY <2>2, <2>6, <3>2, <3>3 DEF TicketInv
  <2> QED
    BY <2>10, <2>11, <2>12
<1> QED
  BY <1>3, <1>4

-----------------------------------------------------------------------------
(* Chats do not disturb each other *)

\* What is the chat's own.
Own(c) == <<pc[c], at[c], state[c], turns[c], runs[c], Writes(c)>>

LEMMA OwnInv ==
  ASSUME NEW c \in Chats, WorkflowInv(c), WriteInv(c), UNCHANGED Own(c)
  PROVE  WorkflowInv(c)' /\ WriteInv(c)'
<1>1. /\ pc'[c] = pc[c] /\ at'[c] = at[c] /\ state'[c] = state[c]
      /\ turns'[c] = turns[c] /\ runs'[c] = runs[c] /\ Writes(c)' = Writes(c)
  BY DEF Own
<1>2. Steps(c)' = Steps(c)
  BY <1>1 DEF Steps
<1>3. WorkflowInv(c)'
  BY <1>1, <1>2 DEF WorkflowInv, InWorkflow, Answered, Step, Reviewed, Trusted
<1>4. WriteInv(c)'
  BY <1>1, <1>2 DEF WriteInv, InWorkflow, Records, Persists
<1> QED
  BY <1>3, <1>4

\* A chat that fails, or waits for a call, changes only what is its own.
LEMMA FailOwn ==
  ASSUME TypeOK, NEW c \in Chats, NEW d \in Chats, d # c, NEW cause, NEW rest, Fail(c, cause, rest),
         Writes(d) = {t \in rest : t.chat = d /\ t.op \in Writing}
  PROVE  pc'[d] = pc[d] /\ at'[d] = at[d] /\ state'[d] = state[d] /\ Writes(d)' = Writes(d)
<1>1. pc \in [Chats -> Pc] /\ at \in [Chats -> Places] /\ state \in [Chats -> States]
  BY TypeParts
<1>2. pc'[d] = pc[d] /\ at'[d] = at[d] /\ state'[d] = state[d]
  BY <1>1 DEF Fail, Write, Goto
<1>3. CASE threads' = rest
  BY <1>2, <1>3 DEF Writes
<1>4. CASE threads' = rest \cup {Thread(c, "failed")}
  BY <1>2, <1>4, WritesOf DEF Writing
<1> QED
  BY <1>3, <1>4 DEF Fail, Write

\* So does everything a chat does itself.
LEMMA ChatOwn ==
  ASSUME TypeOK, NEW c \in Chats, NEW d \in Chats, d # c,
         Waited(c) \/ Local(c) \/ StepTimeout(c) \/ RequestTimeout(c)
  PROVE  UNCHANGED Own(d)
<1>1. pc \in [Chats -> Pc] /\ at \in [Chats -> Places] /\ state \in [Chats -> States]
  BY TypeParts
<1>2. UNCHANGED <<turns, runs>>
  BY DEF Waited, Local, StepTimeout, RequestTimeout, Prepare, Reply, Found, Answer, StepRaises,
         Deliver, Begin, Retrieve, Round, Search, Handoff, UnknownTool, Review, Finish, storeVars
<1>3. threads' = threads => Writes(d)' = Writes(d)
  BY DEF Writes
<1>4. CASE Prepare(c) \/ Begin(c) \/ Retrieve(c) \/ Reply(c) \/ Round(c) \/ Search(c) \/ Found(c)
           \/ Answer(c) \/ Review(c) \/ Deliver(c) \/ RequestTimeout(c)
  <2>1. threads' = threads
    BY <1>4 DEF Prepare, Begin, Retrieve, Reply, Round, Search, Found, Answer, Review, Deliver, RequestTimeout
  <2>2. pc'[d] = pc[d] /\ at'[d] = at[d] /\ state'[d] = state[d]
    BY <1>1, <1>4 DEF Prepare, Begin, Retrieve, Reply, Round, Search, Found, Answer, Review, Deliver,
                      RequestTimeout, Succeed, Goto
  <2> QED
    BY <1>2, <1>3, <2>1, <2>2 DEF Own
<1>5. CASE Handoff(c)
  <2>1. threads' = threads \cup {Thread(c, "ticket")}
    BY <1>5 DEF Handoff, Hand
  <2>2. Writes(d)' = Writes(d)
    BY <2>1, WritesOf DEF Writes
  <2>3. pc'[d] = pc[d] /\ at'[d] = at[d] /\ state'[d] = state[d]
    BY <1>1, <1>5 DEF Handoff, Hand, Goto
  <2> QED
    BY <1>2, <2>2, <2>3 DEF Own
<1>6. CASE UnknownTool(c) \/ StepRaises(c) \/ StepTimeout(c)
  <2>1. Fail(c, "error", threads) \/ Fail(c, "timeout", threads)
    BY <1>6 DEF UnknownTool, StepRaises, StepTimeout
  <2>2. Writes(d) = {t \in threads : t.chat = d /\ t.op \in Writing}
    BY DEF Writes
  <2> QED
    BY <1>2, <2>1, <2>2, FailOwn DEF Own
<1>7. CASE Finish(c)
  <2>1. pc'[d] = pc[d] /\ at'[d] = at[d] /\ state'[d] = state[d]
    BY <1>1, <1>7 DEF Finish, Write, Goto
  <2>2. threads' = threads \/ threads' = threads \cup {Thread(c, "user")}
    BY <1>7 DEF Finish, Write
  <2>3. Writes(d)' = Writes(d)
    BY <1>3, <2>2, WritesOf DEF Writes, Writing
  <2> QED
    BY <1>2, <2>1, <2>3 DEF Own
<1> QED
  BY <1>4, <1>5, <1>6, <1>7 DEF Waited, Local

\* And every call of the database.
LEMMA ThreadOwn ==
  ASSUME TypeOK, NEW t \in threads, NEW d \in Chats, d # t.chat, ThreadReturns(t) \/ ThreadRaises(t)
  PROVE  UNCHANGED Own(d)
<1>1. /\ pc \in [Chats -> Pc] /\ at \in [Chats -> Places] /\ state \in [Chats -> States]
      /\ turns \in [Chats -> Seq({"user", "assistant"})] /\ runs \in [Chats -> SUBSET Run]
      /\ t.chat \in Chats /\ t.op \in Writing \cup {"ticket"}
  BY TypeParts DEF Calls
<1>2. turns'[d] = turns[d] /\ runs'[d] = runs[d]
  <2>1. CASE Stored(t)
    <3>1. CASE t.op = "ticket"
      BY <2>1, <3>1 DEF Stored
    <3>2. CASE t.op \in {"user", "assistant"}
      <4>1. turns' = [turns EXCEPT ![t.chat] = Append(@, t.op)] /\ runs' = runs
        BY <2>1, <3>2 DEF Stored
      <4> QED
        BY <1>1, <4>1
    <3>3. CASE t.op \in {"succeeded", "failed"}
      <4>1. /\ turns' = turns
            /\ \E r : runs' = [runs EXCEPT ![t.chat] = @ \cup {r}]
        BY <2>1, <3>3 DEF Stored
      <4> QED
        BY <1>1, <4>1
    <3> QED
      BY <1>1, <3>1, <3>2, <3>3 DEF Writing
  <2>2. CASE UNCHANGED storeVars
    BY <2>2 DEF storeVars
  <2> QED
    BY <2>1, <2>2 DEF ThreadReturns, ThreadRaises
<1>3. Writes(d) = {s \in threads \ {t} : s.chat = d /\ s.op \in Writing}
  BY DEF Writes
<1>4. threads' = threads \ {t} => Writes(d)' = Writes(d)
  BY <1>3 DEF Writes
<1>5. CASE ~Awaited(t)
  BY <1>2, <1>4, <1>5 DEF ThreadReturns, ThreadRaises, chatVars, Own
<1>6. CASE Awaited(t) /\ ThreadReturns(t)
  <2>1. pc'[d] = pc[d] /\ at'[d] = at[d] /\ state' = state
    BY <1>1, <1>6 DEF ThreadReturns, GoOn, Write, Goto
  <2>2. \/ threads' = threads \ {t}
        \/ After(t.op) \in Writing /\ threads' = (threads \ {t}) \cup {Thread(t.chat, After(t.op))}
    <3>1. t.op \in {"user", "assistant", "succeeded"} => After(t.op) \in {"assistant", "succeeded", "streaming"}
      BY DEF After
    <3> QED
      BY <1>1, <1>6, <3>1 DEF ThreadReturns, GoOn, Write, Writing
  <2>3. Writes(d)' = Writes(d)
    <3>1. ASSUME NEW op \in Writing, threads' = (threads \ {t}) \cup {Thread(t.chat, op)}
          PROVE  Writes(d)' = {s \in threads \ {t} : s.chat = d /\ s.op \in Writing}
      <4>1. Thread(t.chat, op).chat = t.chat
        BY DEF Thread
      <4> HIDE DEF Thread
      <4>2. \A s : s.chat = d => (s \in threads' <=> s \in threads \ {t})
        BY <3>1, <4>1
      <4> QED
        BY <4>2 DEF Writes
    <3> QED
      BY <1>3, <1>4, <2>2, <3>1
  <2> QED
    BY <1>2, <2>1, <2>3 DEF Own
<1>7. CASE Awaited(t) /\ ThreadRaises(t) /\ t.op = "ticket"
  <2>1. Fail(t.chat, "error", threads \ {t})
    BY <1>7 DEF ThreadRaises
  <2> QED
    BY <1>1, <1>2, <1>3, <2>1, FailOwn DEF Own
<1>8. CASE Awaited(t) /\ ThreadRaises(t) /\ t.op # "ticket"
  BY <1>1, <1>2, <1>4, <1>8 DEF ThreadRaises, Goto, Own
<1> QED
  BY <1>5, <1>6, <1>7, <1>8

-----------------------------------------------------------------------------
(* Nor each other's tickets *)

LEMMA FrameTickets ==
  ASSUME NEW d \in Chats, TicketInv(d), UNCHANGED Own(d), tickets'[d] = tickets[d],
         Handing(d)' = Handing(d)
  PROVE  TicketInv(d)'
BY DEF Own, TicketInv, InWorkflow, Live, Answered, AllWell, OfThisStep

LEMMA OthersTickets ==
  ASSUME TypeOK, NEW c \in Chats, NEW d \in Chats, d # c, TicketInv(d),
         \/ Waited(c) \/ Local(c) \/ StepTimeout(c) \/ RequestTimeout(c)
         \/ \E t \in threads : t.chat = c /\ (ThreadReturns(t) \/ ThreadRaises(t))
  PROVE  TicketInv(d)'
<1>1. tickets \in [Chats -> Nat] /\ threads \subseteq Calls
  BY TypeParts
<1>2. CASE Waited(c) \/ Local(c) \/ StepTimeout(c) \/ RequestTimeout(c)
  <2>1. tickets' = tickets
    BY <1>2 DEF Waited, Local, StepTimeout, RequestTimeout, Prepare, Reply, Found, Answer, StepRaises,
                Deliver, Begin, Retrieve, Round, Search, Handoff, UnknownTool, Review, Finish, storeVars
  <2>2. \E op \in Writing \cup {"ticket"} : threads' = threads \/ threads' = threads \cup {Thread(c, op)}
    BY <1>2 DEF Waited, Local, StepTimeout, RequestTimeout, Prepare, Reply, Found, Answer, StepRaises,
                Deliver, Begin, Retrieve, Round, Search, Handoff, Hand, UnknownTool, Review, Finish,
                Fail, Write, Writing
  <2>3. Handing(d)' = Handing(d)
    BY <2>2, HandingOf DEF Handing
  <2> QED
    BY <1>2, <2>1, <2>3, ChatOwn, FrameTickets
<1>3. ASSUME NEW t \in threads, t.chat = c, ThreadReturns(t) \/ ThreadRaises(t)
      PROVE  TicketInv(d)'
  <2>1. t.op \in Writing \cup {"ticket"}
    BY <1>1 DEF Calls
  <2>2. tickets'[d] = tickets[d]
    BY <1>1, <1>3, <2>1 DEF ThreadReturns, ThreadRaises, Stored, storeVars, Writing
  <2>3. \E op \in Writing \cup {"ticket"} :
          threads' = threads \ {t} \/ threads' = (threads \ {t}) \cup {Thread(c, op)}
    <3>1. t.op \in {"user", "assistant", "succeeded"} => After(t.op) \in {"assistant", "succeeded", "streaming"}
      BY DEF After
    <3> QED
      BY <1>3, <2>1, <3>1 DEF ThreadReturns, ThreadRaises, GoOn, Fail, Write, Writing
  <2>4. PICK op : threads' = threads \ {t} \/ threads' = (threads \ {t}) \cup {Thread(c, op)}
    BY <2>3
  <2>5. Handing(d)' = Handing(d)
    <3>1. Thread(c, op).chat = c
      BY DEF Thread
    <3>2. \A s : s.chat = d => (s \in threads' <=> s \in threads)
      BY <1>3, <2>4, <3>1
    <3> QED
      BY <3>2 DEF Handing
  <2> QED
    BY <1>3, <2>2, <2>5, ThreadOwn, FrameTickets
<1> QED
  BY <1>2, <1>3

-----------------------------------------------------------------------------
(* Updates *)

LEMMA UpdateClient ==
  ASSUME TypeOK, ClientInv, NEW u \in Updates, Update(u) \/ CloseOld(u)
  PROVE  ClientInv'
<1>1. /\ u \in Configs /\ client \in Configs /\ open \subseteq Configs
      /\ update \in [Updates -> {"start", "closing", "done", "failed"}] /\ old \in [Updates -> Configs]
  BY DEF TypeOK, Configs
<1>2. CASE Update(u) /\ Known(u)
  <2>1. /\ client' = u /\ open' = open \cup {u} /\ old' = [old EXCEPT ![u] = client]
        /\ update' = [update EXCEPT ![u] = "closing"] /\ update[u] = "start" /\ client # u
    BY <1>2 DEF Update, Replaced, ClientInv
  <2>2. \A v \in Updates : update'[v] = "closing" => old'[v] # client'
    BY <1>1, <2>1 DEF ClientInv
  <2>3. \A v \in Updates : update'[v] = "start" => client' # v /\ \A x \in Updates : old'[x] # v
    BY <1>1, <2>1 DEF ClientInv
  <2> QED
    BY <2>1, <2>2, <2>3 DEF ClientInv
<1>3. CASE Update(u) /\ ~Known(u)
  BY <1>1, <1>3 DEF Update, ClientInv
<1>4. CASE CloseOld(u)
  <2>1. client' = client /\ open' = open \ {old[u]} /\ old' = old /\ update' = [update EXCEPT ![u] = "done"]
    BY <1>4 DEF CloseOld
  <2>2. update[u] = "closing"
    BY <1>4 DEF CloseOld
  <2> QED
    BY <1>1, <2>1, <2>2 DEF ClientInv
<1> QED
  BY <1>2, <1>3, <1>4

-----------------------------------------------------------------------------

\* At the start nothing is stored, and the one client is open.
LEMMA InitInv == Init => IInv
<1> SUFFICES ASSUME Init PROVE IInv
  OBVIOUS
<1>1. 0 \in 0..MaxRounds /\ 0 \in 0..Errors /\ Initial \in Configs /\ Initial \notin Updates
  BY ChatAssumption DEF Configs
<1>2. /\ pc = [c \in Chats |-> "new"] /\ turns = [c \in Chats |-> <<>>] /\ runs = [c \in Chats |-> {}]
      /\ state = [c \in Chats |-> [evidence |-> FALSE, handoffs |-> 0, answer |-> "", traces |-> <<>>]]
      /\ threads = {}
  BY DEF Init
<1>3. TypeOK
  <2>1. <<>> \in Seq(Tools) /\ <<>> \in Seq({"succeeded", "failed"}) /\ <<>> \in Seq({"user", "assistant"})
    OBVIOUS
  <2>2. [run |-> Initial, step |-> 0, client |-> Initial, round |-> 0, used |-> FALSE, calls |-> <<>>,
         cause |-> "error", persist |-> TRUE] \in Places
    BY <1>1, <2>1 DEF Places
  <2>3. [evidence |-> FALSE, handoffs |-> 0, answer |-> "", traces |-> <<>>] \in States
    BY <2>1 DEF States, Texts
  <2>4. at \in [Chats -> Places] /\ state \in [Chats -> States]
    BY <2>2, <2>3 DEF Init
  <2>5. pc \in [Chats -> Pc]
    BY <1>2 DEF Pc
  <2>6. /\ turns \in [Chats -> Seq({"user", "assistant"})] /\ tickets \in [Chats -> Nat]
        /\ runs \in [Chats -> SUBSET Run] /\ threads = {} /\ errors \in 0..Errors
    BY <1>1, <1>2, <2>1 DEF Init
  <2>7. /\ config \in Configs /\ client \in Configs /\ open \subseteq Configs
        /\ update \in [Updates -> {"start", "closing", "done", "failed"}]
        /\ old \in [Updates -> Configs]
    BY <1>1 DEF Init
  <2> QED
    BY <2>4, <2>5, <2>6, <2>7 DEF TypeOK, Places, States
<1>4. ClientInv
  BY <1>1 DEF Init, ClientInv
<1>5. ASSUME NEW c \in Chats PROVE WorkflowInv(c) /\ WriteInv(c)
  <2>1. pc[c] = "new" /\ state[c].traces = <<>> /\ turns[c] = <<>> /\ runs[c] = {} /\ Writes(c) = {}
    BY <1>2 DEF Writes
  <2> QED
    BY <2>1 DEF WorkflowInv, WriteInv, InWorkflow, InStep, Answered
<1> QED
  BY <1>3, <1>4, <1>5 DEF IInv

\* Every step keeps the invariant: of the chat that takes it, of all others, and of
\* the clients.
LEMMA NextInv == IInv /\ [Next]_vars => IInv'
<1> SUFFICES ASSUME IInv, [Next]_vars PROVE IInv'
  OBVIOUS
<1>1. TypeOK /\ ClientInv /\ \A c \in Chats : WorkflowInv(c) /\ WriteInv(c)
  BY DEF IInv
<1>2. UNCHANGED runtimeVars => ClientInv'
  BY <1>1 DEF runtimeVars, ClientInv
<1>3. ASSUME NEW c \in Chats, Waited(c) \/ Local(c) \/ StepTimeout(c) \/ RequestTimeout(c)
      PROVE  IInv'
  <2>1. TypeOK'
    BY <1>1, <1>3, LocalTyped, CallTyped DEF Waited, Local
  <2>2. UNCHANGED runtimeVars
    BY <1>3 DEF Waited, Local, StepTimeout, RequestTimeout, Prepare, Reply, Found, Answer, StepRaises,
                Deliver, Begin, Retrieve, Round, Search, Handoff, UnknownTool, Review, Finish
  <2>3. WorkflowInv(c)' /\ WriteInv(c)'
    BY <1>1, <1>3, OwnWorkflow, OwnWrites
  <2>4. ASSUME NEW d \in Chats, d # c PROVE WorkflowInv(d)' /\ WriteInv(d)'
    BY <1>1, <1>3, <2>4, ChatOwn, OwnInv
  <2> QED
    BY <1>2, <2>1, <2>2, <2>3, <2>4 DEF IInv
<1>4. ASSUME NEW t \in threads, ThreadReturns(t) \/ ThreadRaises(t)
      PROVE  IInv'
  <2>1. TypeOK'
    BY <1>1, <1>4, ReturnTyped
  <2>2. UNCHANGED runtimeVars
    BY <1>4 DEF ThreadReturns, ThreadRaises
  <2>3. t.chat \in Chats /\ t.op \in Writing \cup {"ticket"}
    BY <1>1, TypeParts DEF Calls
  <2>4. WorkflowInv(t.chat)' /\ WriteInv(t.chat)'
    BY <1>1, <1>4, <2>3, WriteReturns, TicketReturns
  <2>5. ASSUME NEW d \in Chats, d # t.chat PROVE WorkflowInv(d)' /\ WriteInv(d)'
    BY <1>1, <1>4, <2>5, ThreadOwn, OwnInv
  <2> QED
    BY <1>2, <2>1, <2>2, <2>4, <2>5 DEF IInv
<1>5. ASSUME NEW u \in Updates, Update(u) \/ CloseOld(u)
      PROVE  IInv'
  <2>1. UNCHANGED <<chatVars, threads, storeVars>>
    BY <1>5 DEF Update, CloseOld
  <2>2. \A c \in Chats : UNCHANGED Own(c)
    BY <2>1 DEF Own, chatVars, storeVars, Writes
  <2> QED
    BY <1>1, <1>5, <2>2, UpdateTyped, UpdateClient, OwnInv DEF IInv
<1>6. CASE UNCHANGED vars
  <2>1. TypeOK' /\ ClientInv'
    BY <1>1, <1>2, <1>6 DEF vars, runtimeVars, chatVars, storeVars, TypeOK
  <2>2. \A c \in Chats : UNCHANGED Own(c)
    BY <1>6 DEF vars, Own, chatVars, storeVars, Writes
  <2> QED
    BY <1>1, <2>1, <2>2, OwnInv DEF IInv
<1> QED
  BY <1>3, <1>4, <1>5, <1>6 DEF Next

\* The tickets stay accounted for, in every chat.
LEMMA NextTickets ==
  IInv /\ (\A c \in Chats : TicketInv(c)) /\ [Next]_vars => (\A c \in Chats : TicketInv(c))'
<1> SUFFICES ASSUME IInv, \A c \in Chats : TicketInv(c), [Next]_vars, NEW d \in Chats
             PROVE  TicketInv(d)'
  OBVIOUS
<1>1. TypeOK /\ \A c \in Chats : WorkflowInv(c) /\ WriteInv(c)
  BY DEF IInv
<1>2. ASSUME NEW c \in Chats, Waited(c) \/ Local(c) \/ StepTimeout(c) \/ RequestTimeout(c)
      PROVE  TicketInv(d)'
  BY <1>1, <1>2, OwnTickets, OthersTickets
<1>3. ASSUME NEW t \in threads, ThreadReturns(t) \/ ThreadRaises(t)
      PROVE  TicketInv(d)'
  <2>1. t.chat \in Chats
    BY <1>1, TypeParts DEF Calls
  <2> QED
    BY <1>1, <1>3, <2>1, ThreadTickets, OthersTickets
<1>4. CASE UNCHANGED vars \/ \E u \in Updates : Update(u) \/ CloseOld(u)
  <2>1. UNCHANGED <<chatVars, threads, storeVars>>
    BY <1>4 DEF vars, Update, CloseOld
  <2>2. UNCHANGED Own(d) /\ tickets'[d] = tickets[d] /\ Handing(d)' = Handing(d)
    BY <2>1 DEF Own, chatVars, storeVars, Writes, Handing
  <2> QED
    BY <2>2, FrameTickets
<1> QED
  BY <1>2, <1>3, <1>4 DEF Next

\* All parts of the invariant hold in every state, whatever the workflows, the
\* replies of the model and the number of chats and updates.
THEOREM Invariance == Spec => []IInv
BY InitInv, NextInv, PTL DEF Spec

\* In particular every variable keeps its type.
THEOREM TypeCorrect == Spec => []TypeOK
<1>1. IInv => TypeOK
  BY DEF IInv
<1> QED
  BY <1>1, Invariance, PTL

\* An answer without evidence or a handoff is a refusal, whatever the model says, if
\* the workflow ends with the review.
THEOREM GroundedAlways == Spec => []Grounded
<1>1. IInv => Grounded
  BY DEF IInv, WorkflowInv, Grounded, Trusted
<1> QED
  BY <1>1, Invariance, PTL

\* The record of a run tells what has been stored and done, also if the request has
\* been given up while it was written.
THEOREM RunsTruthfulAlways == Spec => []RunsTruthful
<1>1. IInv => RunsTruthful
  <2> SUFFICES ASSUME IInv, NEW c \in Chats
               PROVE  /\ Cardinality(runs[c]) <= 1
                      /\ \A r \in runs[c] :
                           IF r.status = "succeeded"
                             THEN turns[c] = <<"user", "assistant">> /\ Len(r.traces) = Len(Steps(c))
                             ELSE turns[c] = <<>> /\ r.traces[Len(r.traces)] = "failed"
    BY DEF RunsTruthful
  <2>1. \A r \in runs[c] : runs[c] = {r} /\ Records(c, r.status, r.traces)
    BY DEF IInv, WriteInv
  <2>2. Cardinality(runs[c]) <= 1
    <3>1. CASE runs[c] = {}
      BY <3>1, FS_EmptySet
    <3>2. ASSUME NEW r \in runs[c] PROVE Cardinality(runs[c]) <= 1
      <4>1. runs[c] = {r}
        BY <2>1
      <4>2. Cardinality({r}) = 1
        BY FS_Singleton
      <4> QED
        BY <4>1, <4>2
    <3> QED
      BY <3>1, <3>2
  <2>3. \A r \in runs[c] : r.status \in {"succeeded", "failed"}
    BY TypeParts DEF IInv, Run
  <2> QED
    BY <2>1, <2>2, <2>3 DEF Records, Said
<1> QED
  BY <1>1, Invariance, PTL

\* Nothing of an answer is streamed before question, answer and run are stored.
THEOREM DeliveredIsStoredAlways == Spec => []DeliveredIsStored
<1>1. IInv => DeliveredIsStored
  BY DEF IInv, WriteInv, DeliveredIsStored, Records, Said
<1> QED
  BY <1>1, Invariance, PTL

\* No ticket is made that the model has not asked for, and an answer whose steps have
\* all succeeded has all of its tickets, also if others were given up by their chats.
THEOREM TicketsMatchAlways == Spec => []TicketsMatch
<1>1. Init => \A c \in Chats : TicketInv(c)
  <2> SUFFICES ASSUME Init, NEW c \in Chats PROVE TicketInv(c)
    OBVIOUS
  <2>1. /\ pc[c] = "new" /\ state[c].handoffs = 0 /\ tickets[c] = 0 /\ Handing(c) = {}
    BY DEF Init, Handing
  <2>2. IsFiniteSet(Handing(c)) /\ Cardinality(Handing(c)) = 0
    BY <2>1, FS_EmptySet
  <2> QED
    BY <2>1, <2>2 DEF TicketInv, InWorkflow, InStep
<1>2. IInv /\ (\A c \in Chats : TicketInv(c)) => TicketsMatch
  <2> SUFFICES ASSUME IInv, NEW c \in Chats, TicketInv(c)
               PROVE  /\ tickets[c] <= state[c].handoffs
                      /\ Answered(c) /\ AllWell(c) => tickets[c] = state[c].handoffs
    BY DEF TicketsMatch, AllWell
  <2>1. /\ tickets[c] \in Nat /\ state[c].handoffs \in Nat
        /\ IsFiniteSet(Handing(c)) /\ Cardinality(Handing(c)) \in Nat
    BY TypeParts, FS_CardinalityType DEF IInv, TicketInv, States
  <2>2. tickets[c] + Cardinality(Handing(c)) <= state[c].handoffs
    BY DEF TicketInv
  <2>3. ASSUME Answered(c), AllWell(c) PROVE tickets[c] = state[c].handoffs
    <3>1. tickets[c] + Cardinality(Handing(c)) = state[c].handoffs /\ Handing(c) = {}
      BY <2>3 DEF TicketInv, Live, OfThisStep, Answered
    <3> QED
      BY <2>1, <3>1, FS_EmptySet
  <2> QED
    BY <2>1, <2>2, <2>3
<1> QED
  BY <1>1, <1>2, NextTickets, Invariance, PTL DEF Spec

\* The client the next chat will use is open, however updates overlap.
THEOREM ClientOpenAlways == Spec => []ClientOpen
<1>1. IInv => ClientOpen
  BY DEF IInv, ClientInv, ClientOpen
<1> QED
  BY <1>1, Invariance, PTL

=============================================================================
