----------------------------- MODULE MCChatTurn -----------------------------
(* Instances of ChatTurn for TLC. *)
EXTENDS ChatTurn

CONSTANTS p, u, v, w

Stop(name) == [name |-> name, on_error |-> "stop"]
Continue(name) == [name |-> name, on_error |-> "continue"]

\* the default workflow, one that goes on without its first step, one that
\* does not end with the review, and one that is refused
Workflows ==
  [k \in Configs |->
    CASE k = u -> <<Continue("knowledge_retrieval"), Stop("safety_review")>>
      [] k = v -> <<Stop("safety_review"), Stop("knowledge_retrieval")>>
      [] k = w -> <<Stop("knowledge_retrieval"), Stop("translation")>>
      [] OTHER -> <<Stop("knowledge_retrieval"), Stop("safety_review")>>]

Asked == {<<"search">>, <<"handoff", "search">>, <<"unknown">>}
=============================================================================
