------------------------------ MODULE ChatTurn ------------------------------
(***************************************************************************)
(* One turn of a conversation: a chat request (or a case of an evaluation) *)
(* runs the steps of the configured workflow, lets the model call tools in *)
(* a few rounds, reviews the answer, stores what was said, records the run *)
(* and only then streams the answer. Every step and the whole request have *)
(* a timeout, but a call of the database that runs in a thread goes on     *)
(* after its request has been given up. Meanwhile the runtime may be       *)
(* updated: the workflow and the model client are replaced, and the old    *)
(* client is closed.                                                       *)
(*                                                                         *)
(* Of a text only its kind matters: "model" is what a model says, and      *)
(* "refusal" any text with the phrase the review looks for. Rate limits    *)
(* and the knowledge base a chat may use decide at Prepare, nowhere else.  *)
(***************************************************************************)
EXTENDS Naturals, Sequences, FiniteSets

CONSTANTS
  Chats,         \* requests, and cases of evaluations
  Updates,       \* PATCH /runtime requests
  Initial,       \* the configuration before all updates
  Workflow,      \* the workflow_steps of each configuration
  Replies,       \* the sequences of tool calls a model may ask for
  MaxRounds,     \* KnowledgeRetrievalAgent.max_rounds
  Errors         \* bound: calls of the database that raise

\* an update is also the name of its configuration, and of the client built for it
Configs == Updates \cup {Initial}
Agents == {"knowledge_retrieval", "safety_review"}
Tools == {"search", "handoff", "unknown"}
Texts == {"", "model", "refusal"}

ASSUME ChatAssumption ==
  /\ Initial \notin Updates
  /\ Workflow \in [Configs -> Seq([name : STRING, on_error : {"stop", "continue"}])]
  /\ \A n \in DOMAIN Workflow[Initial] : Workflow[Initial][n].name \in Agents
  /\ Replies \subseteq Seq(Tools) \ {<<>>}
  /\ MaxRounds \in Nat \ {0} /\ Errors \in Nat

VARIABLES
  config,      \* ChatService.domain_plugin, and the orchestrator made of it
  client,      \* ChatService.model_client
  open,        \* the clients that are not closed
  update,      \* where each update is
  old,         \* the client each update has to close
  pc,          \* where each chat is
  at,          \* its workflow, step, client, round, tool calls still to make, and whether
               \* it is stored
  state,       \* its WorkflowState
  threads,     \* database calls under way
  turns,       \* conversation_messages, by chat
  tickets,     \* how many handoff_tickets each chat has
  runs,        \* workflow_runs, by chat
  errors       \* database calls that have raised

runtimeVars == <<config, client, open, update, old>>
chatVars == <<pc, at, state>>
storeVars == <<turns, tickets, runs>>
vars == <<runtimeVars, chatVars, threads, storeVars, errors>>

\* the retrieval step waits for the model, a search, a ticket or the model again
InStep == {"asking", "searching", "handing", "answering"}
Writing == {"user", "assistant", "succeeded", "failed"}
Ended == {"refused", "done", "timeout", "error"}
Pc == {"new", "ready", "next", "calling", "streaming"} \cup InStep \cup Writing \cup Ended

Init ==
  /\ config = Initial /\ client = Initial /\ open = {Initial}
  /\ update = [u \in Updates |-> "start"] /\ old = [u \in Updates |-> Initial]
  /\ pc = [c \in Chats |-> "new"]
  /\ at = [c \in Chats |-> [run |-> Initial, step |-> 0, client |-> Initial, round |-> 0,
                            used |-> FALSE, calls |-> <<>>, cause |-> "error", persist |-> TRUE]]
  /\ state = [c \in Chats |-> [evidence |-> FALSE, handoffs |-> 0, answer |-> "", traces |-> <<>>]]
  /\ threads = {}
  /\ turns = [c \in Chats |-> <<>>] /\ tickets = [c \in Chats |-> 0] /\ runs = [c \in Chats |-> {}]
  /\ errors = 0

Steps(c) == Workflow[at[c].run]
Step(c) == Steps(c)[at[c].step]
\* persist_conversation: a case of an evaluation is neither stored nor timed
Persists(c) == at[c].persist

Goto(c, p) == pc' = [pc EXCEPT ![c] = p]

\* asyncio.to_thread: op is a write of the chat, or a ticket; the workflow version a
\* run is recorded with is read now
Thread(c, op) ==
  [chat |-> c, op |-> op, step |-> at[c].step,
   version |-> IF op \in {"succeeded", "failed"} THEN config ELSE Initial]

\* the chat goes to a write and waits for it; rest are the other calls under way
Write(c, op, rest) == Goto(c, op) /\ threads' = rest \cup {Thread(c, op)}

-----------------------------------------------------------------------------
(* Before the workflow *)

\* the knowledge base is resolved and the rate limit allows the chat, or not
Prepare(c) ==
  /\ pc[c] = "new"
  /\ \E p \in {"ready", "refused"} : Goto(c, p)
  /\ \E persist \in BOOLEAN : at' = [at EXCEPT ![c].persist = persist]
  /\ UNCHANGED <<runtimeVars, state, threads, storeVars, errors>>

\* the orchestrator of this moment runs the chat to its end
Begin(c) ==
  /\ pc[c] = "ready"
  /\ at' = [at EXCEPT ![c].run = config, ![c].step = 1]
  /\ Goto(c, "next")
  /\ UNCHANGED <<runtimeVars, state, threads, storeVars, errors>>

-----------------------------------------------------------------------------
(* Workflow.run: the steps *)

Succeed(c, st) ==
  /\ state' = [state EXCEPT ![c] = [st EXCEPT !.traces = Append(@, "succeeded")]]
  /\ at' = [at EXCEPT ![c].step = @ + 1]
  /\ Goto(c, "next")

\* The step raises, or its time is over: the next step follows, or the failed run
\* is recorded and the chat ends with the cause.
Fail(c, cause, rest) ==
  /\ state' = [state EXCEPT ![c].traces = Append(@, "failed")]
  /\ IF Step(c).on_error = "continue"
       THEN at' = [at EXCEPT ![c].step = @ + 1] /\ Goto(c, "next") /\ threads' = rest
     ELSE IF Persists(c)
       THEN at' = [at EXCEPT ![c].cause = cause] /\ Write(c, "failed", rest)
       ELSE Goto(c, cause) /\ threads' = rest /\ UNCHANGED at

AtStep(c, agent) == pc[c] = "next" /\ at[c].step \in DOMAIN Steps(c) /\ Step(c).name = agent

\* the client of this moment serves the step to its end
Retrieve(c) ==
  /\ AtStep(c, "knowledge_retrieval")
  /\ at' = [at EXCEPT ![c].client = client, ![c].round = 1, ![c].used = FALSE, ![c].calls = <<>>]
  /\ Goto(c, "asking")
  /\ UNCHANGED <<runtimeVars, state, threads, storeVars, errors>>

\* the model answers, once it has an answer or asks for tools
Reply(c) ==
  /\ pc[c] = "asking" /\ at[c].client \in open
  /\ \/ \E text \in Texts :
          LET st == [state[c] EXCEPT !.answer = text] IN
            IF at[c].used
              THEN state' = [state EXCEPT ![c] = st] /\ Goto(c, "answering") /\ UNCHANGED at
              ELSE Succeed(c, st)
     \/ \E calls \in Replies :
          /\ at' = [at EXCEPT ![c].used = TRUE, ![c].calls = calls]
          /\ Goto(c, "calling") /\ UNCHANGED state
  /\ UNCHANGED <<runtimeVars, threads, storeVars, errors>>

\* fault: rounds are not counted
BadNextRound(c) == at[c].round

NextRound(c) == at[c].round + 1

\* all tools of the round have been called
Round(c) ==
  /\ pc[c] = "calling" /\ at[c].calls = <<>>
  /\ IF NextRound(c) <= MaxRounds
       THEN at' = [at EXCEPT ![c].round = NextRound(c)] /\ Goto(c, "asking") /\ UNCHANGED state
       ELSE state' = [state EXCEPT ![c].answer = "rounds"] /\ Goto(c, "answering") /\ UNCHANGED at
  /\ UNCHANGED <<runtimeVars, threads, storeVars, errors>>

Search(c) ==
  /\ pc[c] = "calling" /\ at[c].calls # <<>> /\ Head(at[c].calls) = "search"
  /\ Goto(c, "searching")
  /\ UNCHANGED <<runtimeVars, at, state, threads, storeVars, errors>>

Found(c) ==
  /\ pc[c] = "searching"
  /\ \E found \in BOOLEAN : state' = [state EXCEPT ![c].evidence = @ \/ found]
  /\ at' = [at EXCEPT ![c].calls = Tail(@)]
  /\ Goto(c, "calling")
  /\ UNCHANGED <<runtimeVars, threads, storeVars, errors>>

\* fault: the ticket is not waited for
BadHand(c) ==
  /\ threads' = threads \cup {Thread(c, "ticket")}
  /\ at' = [at EXCEPT ![c].calls = Tail(@)] /\ UNCHANGED pc

Hand(c) ==
  /\ threads' = threads \cup {Thread(c, "ticket")}
  /\ Goto(c, "handing") /\ UNCHANGED at

Handoff(c) ==
  /\ pc[c] = "calling" /\ at[c].calls # <<>> /\ Head(at[c].calls) = "handoff"
  /\ state' = [state EXCEPT ![c].handoffs = @ + 1]
  /\ Hand(c)
  /\ UNCHANGED <<runtimeVars, storeVars, errors>>

UnknownTool(c) ==
  /\ pc[c] = "calling" /\ at[c].calls # <<>> /\ Head(at[c].calls) = "unknown"
  /\ Fail(c, "error", threads)
  /\ UNCHANGED <<runtimeVars, storeVars, errors>>

\* the model's last word replaces the answer, once it has all come
Answer(c) ==
  /\ pc[c] = "answering" /\ at[c].client \in open
  /\ \E text \in Texts : Succeed(c, [state[c] EXCEPT !.answer = text])
  /\ UNCHANGED <<runtimeVars, threads, storeVars, errors>>

\* The model or the search raises (always, if the client is closed), or the time of
\* the step is over.
StepRaises(c) ==
  /\ pc[c] \in InStep \ {"handing"}
  /\ Fail(c, "error", threads)
  /\ UNCHANGED <<runtimeVars, storeVars, errors>>

StepTimeout(c) ==
  /\ pc[c] \in InStep
  /\ Fail(c, "timeout", threads)
  /\ UNCHANGED <<runtimeVars, storeVars, errors>>

\* fault: any tool call is taken for evidence
BadTrusted(c) == at[c].used

Trusted(c) == state[c].evidence \/ state[c].handoffs > 0

Review(c) ==
  /\ AtStep(c, "safety_review")
  /\ Succeed(c, IF Trusted(c) THEN state[c] ELSE [state[c] EXCEPT !.answer = "refusal"])
  /\ UNCHANGED <<runtimeVars, threads, storeVars, errors>>

-----------------------------------------------------------------------------
(* After the workflow *)

\* fault: the run is recorded as soon as the question is stored
BadAfter(op) ==
  CASE op = "user" -> "succeeded" [] op = "succeeded" -> "assistant" [] op = "assistant" -> "streaming"

\* fault: the run is not recorded
BadUnrecorded(op) == IF op = "user" THEN "assistant" ELSE "streaming"

After(op) ==
  CASE op = "user" -> "assistant" [] op = "assistant" -> "succeeded" [] op = "succeeded" -> "streaming"

Finish(c) ==
  /\ pc[c] = "next" /\ at[c].step > Len(Steps(c))
  /\ IF Persists(c) THEN Write(c, "user", threads) ELSE Goto(c, "streaming") /\ UNCHANGED threads
  /\ UNCHANGED <<runtimeVars, at, state, storeVars, errors>>

Deliver(c) ==
  /\ pc[c] = "streaming"
  /\ Goto(c, "done")
  /\ UNCHANGED <<runtimeVars, at, state, threads, storeVars, errors>>

\* The time of the whole request is over, or the caller has gone: the chat is
\* cancelled where it waits. An evaluation has no such limit.
RequestTimeout(c) ==
  /\ Persists(c) /\ pc[c] \in InStep \cup Writing \cup {"streaming"}
  /\ Goto(c, "timeout")
  /\ UNCHANGED <<runtimeVars, at, state, threads, storeVars, errors>>

-----------------------------------------------------------------------------
(* Database calls *)

Stored(t) ==
  CASE t.op = "ticket" ->
         tickets' = [tickets EXCEPT ![t.chat] = @ + 1] /\ UNCHANGED <<turns, runs>>
    [] t.op \in {"user", "assistant"} ->
         turns' = [turns EXCEPT ![t.chat] = Append(@, t.op)] /\ UNCHANGED <<tickets, runs>>
    [] t.op \in {"succeeded", "failed"} ->
         /\ runs' = [runs EXCEPT ![t.chat] = @ \cup
                       {[status |-> t.op, version |-> t.version, traces |-> state[t.chat].traces]}]
         /\ UNCHANGED <<turns, tickets>>

\* the chat is still there to go on with the result
Awaited(t) ==
  /\ pc[t.chat] = IF t.op = "ticket" THEN "handing" ELSE t.op
  /\ at[t.chat].step = t.step

\* the chat goes on after the call
GoOn(t) ==
  LET c == t.chat rest == threads \ {t} IN
    CASE t.op = "ticket" -> at' = [at EXCEPT ![c].calls = Tail(@)] /\ Goto(c, "calling") /\ threads' = rest
      [] t.op = "failed" -> Goto(c, at[c].cause) /\ threads' = rest /\ UNCHANGED at
      [] OTHER ->
           /\ IF After(t.op) = "streaming" THEN Goto(c, "streaming") /\ threads' = rest
                                          ELSE Write(c, After(t.op), rest)
           /\ UNCHANGED at

ThreadReturns(t) ==
  /\ t \in threads
  /\ Stored(t)
  /\ IF Awaited(t) THEN GoOn(t) ELSE threads' = threads \ {t} /\ UNCHANGED <<pc, at>>
  /\ UNCHANGED <<runtimeVars, state, errors>>

\* the exception may hide a commit that has happened
ThreadRaises(t) ==
  /\ t \in threads /\ errors < Errors /\ errors' = errors + 1
  /\ Stored(t) \/ UNCHANGED storeVars
  /\ IF ~Awaited(t)
       THEN threads' = threads \ {t} /\ UNCHANGED chatVars
     ELSE IF t.op = "ticket"
       THEN Fail(t.chat, "error", threads \ {t})
       ELSE Goto(t.chat, "error") /\ threads' = threads \ {t} /\ UNCHANGED <<at, state>>
  /\ UNCHANGED runtimeVars

-----------------------------------------------------------------------------
(* AppContainer.update_runtime *)

Known(u) == \A n \in DOMAIN Workflow[u] : Workflow[u][n].name \in Agents

\* fault: the client to close is read after the new one has been put in its place
BadReplaced(u) == u

Replaced(u) == client

\* A workflow with an unknown step is refused before anything has been replaced.
Update(u) ==
  /\ update[u] = "start"
  /\ IF Known(u)
       THEN /\ config' = u /\ client' = u /\ open' = open \cup {u}
            /\ old' = [old EXCEPT ![u] = Replaced(u)]
            /\ update' = [update EXCEPT ![u] = "closing"]
       ELSE update' = [update EXCEPT ![u] = "failed"] /\ UNCHANGED <<config, client, open, old>>
  /\ UNCHANGED <<chatVars, threads, storeVars, errors>>

CloseOld(u) ==
  /\ update[u] = "closing"
  /\ open' = open \ {old[u]}
  /\ update' = [update EXCEPT ![u] = "done"]
  /\ UNCHANGED <<config, client, old, chatVars, threads, storeVars, errors>>

-----------------------------------------------------------------------------

\* what a chat does at once
Local(c) ==
  \/ Begin(c) \/ Retrieve(c) \/ Round(c) \/ Search(c) \/ Handoff(c) \/ UnknownTool(c)
  \/ Review(c) \/ Finish(c)

\* what it waits for
Waited(c) == Prepare(c) \/ Reply(c) \/ Found(c) \/ Answer(c) \/ StepRaises(c) \/ Deliver(c)

Next ==
  \/ \E c \in Chats : Waited(c) \/ Local(c) \/ StepTimeout(c) \/ RequestTimeout(c)
  \/ \E t \in threads : ThreadReturns(t) \/ ThreadRaises(t)
  \/ \E u \in Updates : Update(u) \/ CloseOld(u)

Spec == Init /\ [][Next]_vars

\* Neither the model nor a tool nor the database need ever answer: timeouts end what
\* waits for them. Only an evaluation streams to a consumer that always goes on.
FairSpec ==
  /\ Spec
  /\ \A c \in Chats :
       /\ WF_vars(Local(c)) /\ WF_vars(StepTimeout(c)) /\ WF_vars(RequestTimeout(c))
       /\ WF_vars(~Persists(c) /\ Deliver(c))

-----------------------------------------------------------------------------

Run == [status : {"succeeded", "failed"}, version : Configs, traces : Seq({"succeeded", "failed"})]

\* The types of all variables.
TypeOK ==
  /\ config \in Configs /\ client \in Configs /\ open \subseteq Configs
  /\ update \in [Updates -> {"start", "closing", "done", "failed"}] /\ old \in [Updates -> Configs]
  /\ pc \in [Chats -> Pc]
  /\ at \in [Chats -> [run : Configs, step : Nat, client : Configs, round : 0..MaxRounds,
                       used : BOOLEAN, calls : Seq(Tools), cause : {"error", "timeout"},
                       persist : BOOLEAN]]
  /\ state \in [Chats -> [evidence : BOOLEAN, handoffs : Nat, answer : Texts \cup {"rounds"},
                          traces : Seq({"succeeded", "failed"})]]
  /\ threads \subseteq [chat : Chats, op : Writing \cup {"ticket"}, step : Nat, version : Configs]
  /\ turns \in [Chats -> Seq({"user", "assistant"})] /\ tickets \in [Chats -> Nat]
  /\ runs \in [Chats -> SUBSET Run]
  /\ errors \in 0..Errors

\* the chat has come to the end of its workflow
Answered(c) == pc[c] \in {"user", "assistant", "succeeded", "streaming", "done"}

Reviewed(c) == Len(Steps(c)) > 0 /\ Steps(c)[Len(Steps(c))].name = "safety_review"

\* Whatever the model says, which tools it calls in which order, and whichever step
\* fails and is passed over: if the workflow the chat runs ends with the review, an
\* answer without evidence or a handoff is never more than a refusal
\* (SafetyReviewAgent.run, Workflow.run).
Grounded ==
  \A c \in Chats : Answered(c) /\ Reviewed(c) =>
    state[c].evidence \/ state[c].handoffs > 0 \/ state[c].answer = "refusal"

\* A record of a run tells the truth, even when the request has been given up while a
\* thread was still writing: of a run that "succeeded" question and answer are stored,
\* in this order, and it has a trace of every step of its workflow; of one that
\* "failed" nothing is stored, and its last step failed. There is one record at most
\* (ChatService.stream).
RunsTruthful ==
  \A c \in Chats :
    /\ Cardinality(runs[c]) <= 1
    /\ \A r \in runs[c] :
         IF r.status = "succeeded"
           THEN turns[c] = <<"user", "assistant">> /\ Len(r.traces) = Len(Steps(c))
           ELSE turns[c] = <<>> /\ r.traces[Len(r.traces)] = "failed"

\* Nothing of an answer is streamed before question, answer and run are stored, and
\* an answer is never stored without its question (ChatService.stream).
DeliveredIsStored ==
  \A c \in Chats :
    /\ turns[c] \in {<<>>, <<"user">>, <<"user", "assistant">>}
    /\ Persists(c) /\ pc[c] \in {"streaming", "done"} =>
         turns[c] = <<"user", "assistant">> /\ \E r \in runs[c] : r.status = "succeeded"

\* There is never a ticket the model has not asked for; and an answer that says a
\* human will take over, all steps having succeeded, has each of its tickets
\* (KnowledgeRetrievalAgent.run, HandoffTool.invoke).
TicketsMatch ==
  \A c \in Chats :
    /\ tickets[c] <= state[c].handoffs
    /\ Answered(c) /\ (\A n \in DOMAIN state[c].traces : state[c].traces[n] = "succeeded")
         => tickets[c] = state[c].handoffs

\* However updates overlap, the client the next chat will use is open (update_runtime).
ClientOpen == client \in open

\* A chat that is admitted ends, whatever never answers: the rounds are bounded and
\* each wait is timed (engine.py, chat.py).
ChatsEnd == \A c \in Chats : pc[c] = "ready" ~> pc[c] \in Ended

\* Every workflow that has been run leaves a record, if no call of the database raises
\* ("每次运行保留步骤级轨迹", README.md).
TracesKept ==
  \A c \in Chats :
    Persists(c) /\ errors = 0 /\ pc[c] \in Ended \ {"refused"} =>
      runs[c] # {} \/ \E t \in threads : t.chat = c /\ t.op \in {"succeeded", "failed"}

-----------------------------------------------------------------------------
(* Why the safety properties hold *)

InWorkflow(c) == pc[c] \in {"next", "calling"} \cup InStep

\* a chat has a trace of each step before the one it is at; it is retrieving only in a
\* retrieval step; and the review is the last to change an answer
WorkflowInv(c) ==
  /\ pc[c] \in {"new", "ready"} => state[c].traces = <<>>
  /\ InWorkflow(c) => at[c].step = Len(state[c].traces) + 1 /\ at[c].step <= Len(Steps(c)) + 1
  /\ pc[c] \in InStep \cup {"calling"} =>
       at[c].step <= Len(Steps(c)) /\ Step(c).name = "knowledge_retrieval"
  /\ pc[c] \in {"searching", "handing"} => at[c].calls # <<>>
  /\ Answered(c) => Len(state[c].traces) = Len(Steps(c))
  /\ Reviewed(c) /\ (Answered(c) \/ (pc[c] = "next" /\ at[c].step > Len(Steps(c)))) =>
       Trusted(c) \/ state[c].answer = "refusal"

\* the write of a chat that is under way
Writes(c) == {t \in threads : t.chat = c /\ t.op \in Writing}

\* what is stored of the conversation when this write is made
Said(op) ==
  CASE op \in {"user", "failed"} -> <<>>
    [] op = "assistant"          -> <<"user">>
    [] op = "succeeded"          -> <<"user", "assistant">>

\* a run of the chat may be recorded with this status
Records(c, status, traces) ==
  /\ turns[c] = Said(status)
  /\ IF status = "failed" THEN traces # <<>> /\ traces[Len(traces)] = "failed"
                          ELSE Len(traces) = Len(Steps(c))

\* writes follow each other, and only the last one of a chat that is given up goes on
WriteInv(c) ==
  /\ pc[c] \in {"new", "ready", "refused"} \/ InWorkflow(c) =>
       turns[c] = <<>> /\ runs[c] = {} /\ Writes(c) = {}
  /\ \A t \in Writes(c) :
       /\ Writes(c) = {t} /\ runs[c] = {} /\ pc[c] \in {t.op, "timeout"}
       /\ Records(c, t.op, state[c].traces)
  /\ turns[c] \in {<<>>, <<"user">>, <<"user", "assistant">>}
  /\ \A r \in runs[c] : runs[c] = {r} /\ Records(c, r.status, r.traces)
  /\ Persists(c) /\ pc[c] \in {"streaming", "done"} => \E r \in runs[c] : r.status = "succeeded"

\* an update that has begun closes a client nobody will get any more
ClientInv ==
  /\ client \in open
  /\ \A u \in Updates :
       /\ update[u] = "closing" => old[u] # client
       /\ update[u] = "start" => client # u /\ \A v \in Updates : old[v] # u

IInv == TypeOK /\ ClientInv /\ \A c \in Chats : WorkflowInv(c) /\ WriteInv(c)

\* The tickets of a chat that are being written: each was asked for and counts once;
\* those of earlier steps have been given up, so that a chat whose steps have all
\* succeeded waits for the only one.
Handing(c) == {t \in threads : t.chat = c /\ t.op = "ticket"}
AllWell(c) == \A n \in DOMAIN state[c].traces : state[c].traces[n] = "succeeded"
Live(c) == pc[c] \in {"new", "ready"} \/ InWorkflow(c) \/ Answered(c)
OfThisStep(c, t) == pc[c] = "handing" /\ t.step = at[c].step

TicketInv(c) ==
  /\ IsFiniteSet(Handing(c))
  /\ tickets[c] + Cardinality(Handing(c)) <= state[c].handoffs
  /\ \A s, t \in Handing(c) : s.step = t.step => s = t
  /\ pc[c] \in {"new", "ready"} => Handing(c) = {}
  /\ InWorkflow(c) => \A t \in Handing(c) : t.step < at[c].step \/ OfThisStep(c, t)
  /\ Live(c) /\ AllWell(c) =>
       /\ tickets[c] + Cardinality(Handing(c)) = state[c].handoffs
       /\ \A t \in Handing(c) : OfThisStep(c, t)

=============================================================================
