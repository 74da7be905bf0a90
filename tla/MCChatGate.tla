------------------------------ MODULE MCChatGate ------------------------------
(* Instances of ChatGate for TLC. *)
EXTENDS ChatGate

CONSTANTS P, Q, root, ann, t, n,  \* processes, accounts, a tenant, a name
          c1, c2, c3, h1, h2, o1, o2, ghost

MCHost == [c \in Chats |-> IF c = c2 THEN Q ELSE P]

\* ann is a viewer of t
AnnOnly == [u \in Ids |-> IF u = ann THEN [name |-> n, role |-> "viewer", enabled |-> TRUE] ELSE NoAccount]
AnnAndRoot == [AnnOnly EXCEPT ![root] = [name |-> RootName, role |-> "admin", enabled |-> TRUE]]
AnnAdmin == [AnnAndRoot EXCEPT ![ann].role = "admin"]
Members(ofAnn) == [u \in Ids |-> IF u = ann THEN ofAnn ELSE IF u = root THEN {All} ELSE {}]

\* a PATCH of ann that sets some fields
Patch(sets, role, scope) ==
  [user |-> ann, sets |-> sets, role |-> role, scope |-> scope, enabled |-> FALSE]
MCChanges ==
  {Patch({"role"}, "viewer", {}), Patch({"scope"}, "viewer", {All}), Patch({"role", "scope"}, "admin", {All}),
   Patch({"scope"}, "viewer", {}), Patch({"enabled"}, "viewer", {}), Patch({"scope"}, "viewer", {ghost})}
MCEntries == {[name |-> n, role |-> "viewer", scope |-> {t}], [name |-> n, role |-> "viewer", scope |-> {All}]}

Setup(scenario, redis, max, tuning) ==
  [scenario |-> scenario, shared |-> redis, limit |-> max, tuning |-> tuning]

\* PATCHes of ann, who is an administrator with one tenant at first, and her requests
Administering(requests) ==
  [sent |-> requests, starting |-> {}, logins |-> {ann}, users |-> AnnAdmin, scopes |-> Members({t})]

\* two processes start on empty tables and two POSTs ask for one name
Starting ==
  [sent |-> {o1, o2}, starting |-> {P, Q}, logins |-> {root},
   users |-> [u \in Ids |-> NoAccount], scopes |-> [u \in Ids |-> {}]]

\* three chats
Chatting ==
  [sent |-> Chats, starting |-> {}, logins |-> {}, users |-> AnnAndRoot, scopes |-> Members({t})]

MCSetups ==
  {Setup(Administering({c1, h1}), TRUE, 1, {}), Setup(Administering({h1, h2}), TRUE, 1, {}),
   Setup(Starting, TRUE, 1, {}), Setup(Chatting, TRUE, 1, {P}), Setup(Chatting, FALSE, 1, {P})}
MCScenarios == {s.scenario : s \in MCSetups}
=============================================================================
