--------------------------- MODULE TenantDirectory ---------------------------
(***************************************************************************)
(* The directory of a tenant and its knowledge bases: KnowledgeBaseService *)
(* keeps a copy of the tables in every process, changes the copy first and *)
(* writes the whole row afterwards. Changes of the tenant (PATCH           *)
(* /tenants/{id} in admin.py) are also published as a configuration        *)
(* version and announced, and other instances then apply them to their     *)
(* copy (AppContainer._handle_config_event); changes of knowledge bases    *)
(* are not. A process that starts reads the tables, completes them with    *)
(* the plug-in's defaults and writes everything back (seed_defaults).      *)
(*                                                                         *)
(* One tenant is modelled; of other tenants only the knowledge bases they  *)
(* own matter. name, plan, enabled and settings of the tenant are one      *)
(* field, "plan", named by the request that set it; version numbers are    *)
(* left out, since no code reads them. Creating and publishing a version,  *)
(* one transaction each, are as ConfigPublish has them.                    *)
(***************************************************************************)
EXTENDS Naturals, FiniteSets

CONSTANTS
  Instances,     \* processes that build a container
  KBs,           \* knowledge base ids
  Seeds,         \* those the plug-in defines
  OurSeeds,      \* those it defines for this tenant
  SeedDefault,   \* the plug-in's default knowledge base of the tenant
  SeedPlan,      \* the plug-in's values of the tenant's other fields
  Updates,       \* PATCH /tenants/{id} requests
  Default,       \* the default each update sets, or NoKB
  Renames,       \* the updates that set the other fields
  Creates,       \* POST /knowledge-bases requests
  OurCreates,    \* those that name this tenant
  Toggles,       \* PATCH /knowledge-bases/{id} requests, which set enabled
  Target,        \* the knowledge base of each create and toggle
  Home,          \* the instance that serves each request
  Errors,        \* bound: exceptions of the database or of Redis
  Deaths,        \* bound: deaths of processes
  NoKB           \* no knowledge base; not set; no version

Requests == Updates \cup Creates \cup Toggles

ASSUME DirectoryAssumption ==
  /\ OurSeeds \subseteq Seeds /\ Seeds \subseteq KBs /\ SeedDefault \in OurSeeds
  /\ OurCreates \subseteq Creates
  /\ NoKB \notin KBs \cup Updates \cup {SeedPlan}
  /\ Default \in [Updates -> KBs \cup {NoKB}] /\ Renames \subseteq Updates
  /\ Target \in [Creates \cup Toggles -> KBs]
  /\ Home \in [Requests -> Instances]
  /\ Updates \cap (Creates \cup Toggles) = {} /\ Creates \cap Toggles = {}
  /\ Errors \in Nat /\ Deaths \in Nat

Tenant == [default : KBs, plan : Updates \cup {SeedPlan}]
\* a table or a copy of it: which ids there are, which belong to the tenant, and
\* which are enabled
Directory == [known : SUBSET KBs, ours : SUBSET KBs, enabled : SUBSET KBs]

VARIABLES
  tenantRow,   \* the row in tenants
  kbRows,      \* the rows in knowledge_bases
  published,   \* the values of the published tenant version, or NoKB
  tenant,      \* _tenants of each instance
  kbs,         \* _knowledge_bases of each instance
  req,         \* where each request is
  sent,        \* the tenant row each update is going to write, then its version
  inbox,       \* how many events each instance's subscription has still to deliver
  ipc,         \* what each instance does besides serving requests
  hread,       \* the values its listener has read, then the row it is going to write
  todo,        \* the knowledge bases a starting instance has still to write
  alone,       \* history: no request has begun before all others were answered
  faults       \* exceptions and deaths so far

storeVars == <<tenantRow, kbRows, published>>
copyVars == <<tenant, kbs>>
requestVars == <<req, sent, alone>>
instanceVars == <<inbox, ipc, hread, todo>>
vars == <<storeVars, copyVars, requestVars, instanceVars, faults>>

RequestPc == {"start", "changed", "saved", "created", "published", "done", "failed"}
\* "loading" to "writing" is build_container, "unheard" is before the subscription
InstancePc == {"loading", "loaded", "seeded", "writing", "unheard", "idle", "read", "changed"}

Init ==
  /\ tenantRow = [default |-> SeedDefault, plan |-> SeedPlan]
  /\ kbRows = [known |-> Seeds, ours |-> OurSeeds, enabled |-> Seeds]
  /\ published = NoKB
  /\ tenant = [i \in Instances |-> tenantRow] /\ kbs = [i \in Instances |-> kbRows]
  /\ req = [r \in Requests |-> "start"] /\ sent = [u \in Updates |-> tenantRow]
  /\ inbox = [i \in Instances |-> 0] /\ ipc = [i \in Instances |-> "idle"]
  /\ hread = [i \in Instances |-> tenantRow] /\ todo = [i \in Instances |-> {}]
  /\ alone = TRUE /\ faults = [error |-> 0, death |-> 0]

InFlight(r) == req[r] \notin {"start", "done", "failed"}
Serving(i) == ipc[i] \in {"unheard", "idle", "read", "changed"}

Start(r) ==
  /\ req[r] = "start" /\ Serving(Home[r])
  /\ alone' = (alone /\ \A s \in Requests : ~InFlight(s))

Goto(r, s) == req' = [req EXCEPT ![r] = s]
Become(i, s) == ipc' = [ipc EXCEPT ![i] = s]
Fault == faults.error < Errors /\ faults' = [faults EXCEPT !.error = @ + 1]

Set(S, k, in) == IF in THEN S \cup {k} ELSE S \ {k}
Put(d, k, our, on) ==
  [known |-> d.known \cup {k}, ours |-> Set(d.ours, k, our), enabled |-> Set(d.enabled, k, on)]

-----------------------------------------------------------------------------
(* update_tenant: change the copy, then write the row *)

\* the default must be a knowledge base this instance knows to be the tenant's
Accepts(i, k) == k = NoKB \/ k \in kbs[i].ours

\* fault: fields the request does not set are changed too
BadChanged(i, k, p) == [default |-> k, plan |-> p]

Changed(i, k, p) ==
  [default |-> IF k = NoKB THEN tenant[i].default ELSE k,
   plan    |-> IF p = NoKB THEN tenant[i].plan ELSE p]

UpdateTenant(u) ==
  /\ u \in Updates /\ Start(u)
  /\ IF Accepts(Home[u], Default[u])
       THEN LET t == Changed(Home[u], Default[u], IF u \in Renames THEN u ELSE NoKB) IN
              /\ tenant' = [tenant EXCEPT ![Home[u]] = t]
              /\ sent' = [sent EXCEPT ![u] = t]
              /\ Goto(u, "changed")
       ELSE Goto(u, "failed") /\ UNCHANGED <<tenant, sent>>
  /\ UNCHANGED <<storeVars, kbs, instanceVars, faults>>

SaveTenant(u) ==
  /\ u \in Updates /\ req[u] = "changed"
  /\ tenantRow' = sent[u]
  /\ Goto(u, "saved")
  /\ UNCHANGED <<kbRows, published, copyVars, sent, alone, instanceVars, faults>>

\* fault: the version holds the fields of the request only
BadResult(u) == [default |-> SeedDefault, plan |-> IF u \in Renames THEN u ELSE SeedPlan]

\* the complete tenant, as the instance's copy has it once the row is written
Result(u) == tenant[Home[u]]

\* The version is inserted some time after its values are read, which nothing
\* in this module could tell.
CreateVersion(u) ==
  /\ u \in Updates /\ req[u] = "saved"
  /\ sent' = [sent EXCEPT ![u] = Result(u)]
  /\ Goto(u, "created")
  /\ UNCHANGED <<storeVars, copyVars, alone, instanceVars, faults>>

PublishVersion(u) ==
  /\ u \in Updates /\ req[u] = "created"
  /\ published' = sent[u]
  /\ Goto(u, "published")
  /\ UNCHANGED <<tenantRow, kbRows, copyVars, sent, alone, instanceVars, faults>>

Subscribed(i) == ipc[i] \in {"idle", "read", "changed"}

Announce(u) ==
  /\ u \in Updates /\ req[u] = "published"
  /\ inbox' = [i \in Instances |-> IF i # Home[u] /\ Subscribed(i) THEN inbox[i] + 1 ELSE inbox[i]]
  /\ Goto(u, "done")
  /\ UNCHANGED <<storeVars, copyVars, sent, alone, ipc, hread, todo, faults>>

-----------------------------------------------------------------------------
(* Knowledge bases: change the copy, then write the row; nobody is told *)

\* fault: the id is looked up among the tenant's knowledge bases
BadExists(i, k) == k \in kbs[i].ours

\* the id is taken, as far as this instance knows
Exists(i, k) == k \in kbs[i].known

CreateKB(c) ==
  /\ c \in Creates /\ Start(c)
  /\ IF Exists(Home[c], Target[c])
       THEN Goto(c, "failed") /\ UNCHANGED kbs
       ELSE Goto(c, "changed") /\ kbs' = [kbs EXCEPT ![Home[c]] = Put(@, Target[c], c \in OurCreates, TRUE)]
  /\ UNCHANGED <<storeVars, tenant, sent, instanceVars, faults>>

UpdateKB(g) ==
  /\ g \in Toggles /\ Start(g)
  /\ LET k == Target[g] here == kbs[Home[g]] IN
       IF k \notin here.known
         THEN Goto(g, "failed") /\ UNCHANGED kbs
         ELSE /\ Goto(g, "changed")
              /\ \E on \in BOOLEAN : kbs' = [kbs EXCEPT ![Home[g]] = Put(@, k, k \in @.ours, on)]
  /\ UNCHANGED <<storeVars, tenant, sent, instanceVars, faults>>

\* fault: enabled is not written
BadWritten(i, k) == Put(kbRows, k, k \in kbs[i].ours, TRUE)

\* what is written is what the copy holds when the row is put together
Written(i, k) == Put(kbRows, k, k \in kbs[i].ours, k \in kbs[i].enabled)

SaveKB(r) ==
  /\ r \in Creates \cup Toggles /\ req[r] = "changed"
  /\ kbRows' = Written(Home[r], Target[r])
  /\ Goto(r, "done")
  /\ UNCHANGED <<tenantRow, published, copyVars, sent, alone, instanceVars, faults>>

\* The database or Redis raises: the copy stays as it has been changed.
Error(r) ==
  /\ InFlight(r) /\ Fault
  /\ Goto(r, "failed")
  /\ UNCHANGED <<storeVars, copyVars, sent, alone, instanceVars>>

-----------------------------------------------------------------------------
(* The listener: read what is published, update_tenant with all of it *)

Receive(i) ==
  /\ ipc[i] = "idle" /\ inbox[i] > 0 /\ published # NoKB
  /\ inbox' = [inbox EXCEPT ![i] = @ - 1]
  /\ hread' = [hread EXCEPT ![i] = published]
  /\ Become(i, "read")
  /\ UNCHANGED <<storeVars, copyVars, requestVars, todo, faults>>

Apply(i) ==
  /\ ipc[i] = "read" /\ Accepts(i, hread[i].default)
  /\ LET t == Changed(i, hread[i].default, hread[i].plan) IN
       /\ tenant' = [tenant EXCEPT ![i] = t]
       /\ hread' = [hread EXCEPT ![i] = t]
  /\ Become(i, "changed")
  /\ UNCHANGED <<storeVars, kbs, requestVars, inbox, todo, faults>>

\* update_tenant raises, and the bus drops the event: this instance does not know
\* the default knowledge base
Ignore(i) ==
  /\ ipc[i] = "read" /\ ~Accepts(i, hread[i].default)
  /\ Become(i, "idle")
  /\ UNCHANGED <<storeVars, copyVars, requestVars, inbox, hread, todo, faults>>

WriteBack(i) ==
  /\ ipc[i] = "changed"
  /\ tenantRow' = hread[i]
  /\ Become(i, "idle")
  /\ UNCHANGED <<kbRows, published, copyVars, requestVars, inbox, hread, todo, faults>>

HandlerError(i) ==
  /\ \/ ipc[i] = "idle" /\ inbox[i] > 0 /\ inbox' = [inbox EXCEPT ![i] = @ - 1]
     \/ ipc[i] = "changed" /\ UNCHANGED inbox
  /\ Fault /\ Become(i, "idle")
  /\ UNCHANGED <<storeVars, copyVars, requestVars, hread, todo>>

-----------------------------------------------------------------------------
(* Death and start of a process *)

Die(i) ==
  /\ faults.death < Deaths /\ faults' = [faults EXCEPT !.death = @ + 1]
  /\ Become(i, "loading")
  /\ inbox' = [inbox EXCEPT ![i] = 0]
  /\ req' = [r \in Requests |-> IF Home[r] = i /\ InFlight(r) THEN "failed" ELSE req[r]]
  /\ UNCHANGED <<storeVars, copyVars, sent, alone, hread, todo>>

\* load_knowledge_bases, completed with the plug-in's
LoadKBs(i) ==
  /\ ipc[i] = "loading"
  /\ kbs' = [kbs EXCEPT ![i] = [known   |-> kbRows.known \cup Seeds,
                                ours    |-> kbRows.ours \cup (OurSeeds \ kbRows.known),
                                enabled |-> kbRows.enabled \cup (Seeds \ kbRows.known)]]
  /\ Become(i, "loaded")
  /\ UNCHANGED <<storeVars, tenant, requestVars, inbox, hread, todo, faults>>

\* fault: the default is kept even if this process does not know it
BadRepaired(t, ours) == {t}

\* a default the process does not know is replaced by a knowledge base of the tenant
Repaired(t, ours) ==
  IF t.default \in ours THEN {t} ELSE {[t EXCEPT !.default = k] : k \in ours}

\* load_tenants, a query later, and the repair
LoadTenant(i) ==
  /\ ipc[i] = "loaded"
  /\ \E t \in Repaired(tenantRow, kbs[i].ours) : tenant' = [tenant EXCEPT ![i] = t]
  /\ Become(i, "seeded")
  /\ UNCHANGED <<storeVars, kbs, requestVars, inbox, hread, todo, faults>>

\* _persist_configuration: the tenant ...
SeedTenant(i) ==
  /\ ipc[i] = "seeded"
  /\ tenantRow' = tenant[i]
  /\ todo' = [todo EXCEPT ![i] = kbs[i].known]
  /\ Become(i, "writing")
  /\ UNCHANGED <<kbRows, published, copyVars, requestVars, inbox, hread, faults>>

\* ... and then each knowledge base, in a transaction of its own
SeedKB(i) ==
  /\ ipc[i] = "writing"
  /\ \E k \in todo[i] :
       /\ kbRows' = Written(i, k)
       /\ todo' = [todo EXCEPT ![i] = @ \ {k}]
       /\ Become(i, IF todo[i] = {k} THEN "unheard" ELSE "writing")
  /\ UNCHANGED <<tenantRow, published, copyVars, requestVars, inbox, hread, faults>>

Subscribe(i) ==
  /\ ipc[i] = "unheard"
  /\ Become(i, "idle")
  /\ UNCHANGED <<storeVars, copyVars, requestVars, inbox, hread, todo, faults>>

-----------------------------------------------------------------------------

RequestStep(r) ==
  \/ UpdateTenant(r) \/ SaveTenant(r) \/ CreateVersion(r) \/ PublishVersion(r) \/ Announce(r)
  \/ CreateKB(r) \/ UpdateKB(r) \/ SaveKB(r)

ListenerStep(i) == Receive(i) \/ Apply(i) \/ Ignore(i) \/ WriteBack(i)

StartStep(i) == LoadKBs(i) \/ LoadTenant(i) \/ SeedTenant(i) \/ SeedKB(i) \/ Subscribe(i)

Next ==
  \/ \E r \in Requests : RequestStep(r) \/ Error(r)
  \/ \E i \in Instances : ListenerStep(i) \/ HandlerError(i) \/ Die(i) \/ StartStep(i)

Spec == Init /\ [][Next]_vars

-----------------------------------------------------------------------------

\* The types of all variables.
TypeOK ==
  /\ tenantRow \in Tenant /\ kbRows \in Directory /\ published \in Tenant \cup {NoKB}
  /\ tenant \in [Instances -> Tenant] /\ kbs \in [Instances -> Directory]
  /\ req \in [Requests -> RequestPc] /\ sent \in [Updates -> Tenant]
  /\ inbox \in [Instances -> Nat] /\ ipc \in [Instances -> InstancePc]
  /\ hread \in [Instances -> Tenant] /\ todo \in [Instances -> SUBSET KBs] /\ alone \in BOOLEAN
  /\ faults \in [error : 0..Errors, death : 0..Deaths]

\* Every instance that serves requests has a default for the tenant that it knows
\* and that is the tenant's own, whatever failed half-way and whatever another
\* process has written: the copies differ, and still no chat is led to a knowledge
\* base of another tenant (KnowledgeBaseService.update_tenant, seed_defaults,
\* resolve_knowledge_base).
DefaultOwned ==
  \A i \in Instances : ipc[i] \notin {"loading", "loaded"} =>
    tenant[i].default \in kbs[i].ours

\* Why: the plug-in's default is never given away, neither in the table nor in a
\* copy, so that a starting process finds something to repair the default with.
SeedInv ==
  /\ SeedDefault \in kbRows.ours /\ kbRows.ours \subseteq kbRows.known
  /\ \A i \in Instances : SeedDefault \in kbs[i].ours /\ kbs[i].ours \subseteq kbs[i].known

IInv == TypeOK /\ SeedInv /\ DefaultOwned

\* One administrator, who waits for each answer, has used one instance for
\* everything so far; nothing has failed, and all events are handled.
Settled ==
  /\ alone /\ faults.error = 0 /\ faults.death = 0
  /\ \A r \in Requests : ~InFlight(r)
  /\ \A q, r \in Requests : req[q] # "start" /\ req[r] # "start" => Home[q] = Home[r]
  /\ \A i \in Instances : ipc[i] = "idle" /\ inbox[i] = 0

\* No listener has had to ignore the tenant that is published now.
AllKnow == published # NoKB /\ \A i \in Instances : published.default \in kbs[i].ours

\* Once all events are handled the table and all copies hold the published tenant,
\* although every listener writes the row back as well, and may do so after the
\* next update (_handle_config_event, update_tenant).
TenantsConverge ==
  Settled /\ AllKnow => tenantRow = published /\ \A i \in Instances : tenant[i] = published

\* Updates that set different fields do not cancel each other: what an answered
\* update has set is in the table, unless another update has set the same field.
UpdateStays ==
  Settled /\ AllKnow =>
    \A u \in Updates : req[u] = "done" =>
      /\ u \in Renames /\ (\A v \in Renames \ {u} : req[v] # "done") => tenantRow.plan = u
      /\ Default[u] # NoKB /\ (\A v \in Updates \ {u} : req[v] = "done" => Default[v] = NoKB)
           => tenantRow.default = Default[u]

\* Once an administrator's requests are answered, the copy of the instance that
\* serves them agrees with the table (create_knowledge_base, update_knowledge_base).
KBsAgree ==
  Settled => \A r \in Creates \cup Toggles : req[r] = "done" => kbs[Home[r]] = kbRows

\* A knowledge base, and with it its documents, never passes to another tenant:
\* creating an id that exists is refused ("knowledge base already exists",
\* create_knowledge_base).
OwnerKept ==
  [][\A k \in kbRows.known : k \in kbRows.ours <=> k \in kbRows'.ours]_vars

-----------------------------------------------------------------------------
(* Why no knowledge base changes hands, where one instance creates them all *)

Creators == {Home[c] : c \in Creates}

\* Requests are under way at instances that serve, and what is going to be written
\* is in the copy it comes from.
WriterInv ==
  /\ \A r \in Requests : InFlight(r) => Serving(Home[r])
  /\ \A r \in Creates \cup Toggles : req[r] = "changed" => Target[r] \in kbs[Home[r]].known
  /\ \A i \in Instances : ipc[i] = "writing" => todo[i] \subseteq kbs[i].known

\* The copy of an instance that creates is ahead of the table, all others are
\* behind; and who owns what both know they agree on.
OwnerInv ==
  /\ Seeds \subseteq kbRows.known
  /\ \A i \in Creators : kbRows.known \subseteq kbs[i].known
  /\ \A i \in Instances \ Creators : kbs[i].known \subseteq kbRows.known
  /\ \A i \in Instances : \A k \in kbs[i].known \cap kbRows.known :
       k \in kbs[i].ours <=> k \in kbRows.ours

-----------------------------------------------------------------------------
(* Why copies and table agree, for one administrator on one instance *)

\* one request after the other so far, and no fault
Undisturbed == alone /\ faults.error = 0 /\ faults.death = 0

\* this instance has served all requests
ServesAll(i) == \A r \in Requests : req[r] # "start" => Home[r] = i

\* one request at a time, and all instances are up
TurnInv ==
  /\ alone => \A q, r \in Requests : InFlight(q) /\ InFlight(r) => q = r
  /\ Undisturbed => \A i \in Instances : Subscribed(i)
  /\ published # NoKB => \E u \in Updates : req[u] # "start"

\* The copy of the knowledge bases is the table, or what it will be.
AgreeInv ==
  Undisturbed => \A h \in Instances : ServesAll(h) =>
    /\ (\A r \in Creates \cup Toggles : req[r] # "changed") => kbs[h] = kbRows
    /\ \A r \in Creates \cup Toggles : req[r] = "changed" => kbs[h] = Written(h, Target[r])

NoUpdate == \A u \in Updates : ~InFlight(u)

\* the updates that have been made, in the copy at least
Made == {u \in Updates : req[u] \notin {"start", "failed"}}

\* The copy of the tenant is what is published, or will be; and it has what the
\* last update of each field has set.
HomeInv ==
  Undisturbed => \A h \in Instances : ServesAll(h) =>
    /\ ipc[h] = "idle" /\ inbox[h] = 0
    /\ NoUpdate /\ published # NoKB => tenant[h] = published
    /\ \A u \in Updates : InFlight(u) =>
         /\ sent[u] = tenant[h]
         /\ req[u] = "published" => published = tenant[h]
    /\ \A u \in Made :
         /\ u \in Renames /\ Made \cap Renames = {u} => tenant[h].plan = u
         /\ Default[u] # NoKB /\ (\A v \in Made \ {u} : Default[v] = NoKB)
              => tenant[h].default = Default[u]

Knows(i) == published # NoKB /\ published.default \in kbs[i].ours

\* the announcement of what is published is on its way to this instance, or it has
\* read what is published
Owed(i) ==
  \/ \E u \in Updates : req[u] = "published"
  \/ inbox[i] > 0
  \/ ipc[i] = "read" /\ hread[i] = published

\* All other instances have what is published or will be told of it.
ListenInv ==
  Undisturbed => \A h, i \in Instances : ServesAll(h) /\ i # h =>
    /\ ipc[i] = "changed" => hread[i] = tenant[i]
    /\ Knows(i) => Owed(i) \/ (ipc[i] # "read" /\ tenant[i] = published)

\* The row is what is published, or somebody is going to write that; a stale row is
\* the work of a listener, who will hear of the newer tenant.
RowInv ==
  Undisturbed => \A h \in Instances : ServesAll(h) =>
    /\ \A u \in Updates : req[u] \in {"saved", "created", "published"} =>
         tenantRow = tenant[h] \/ Instances # {h}
    /\ NoUpdate /\ published # NoKB /\ (\A i \in Instances \ {h} : Knows(i)) =>
         \/ tenantRow = published
         \/ \E i \in Instances \ {h} :
              inbox[i] > 0 \/ (ipc[i] \in {"read", "changed"} /\ hread[i] = published)

SettleInv == IInv /\ TurnInv /\ AgreeInv /\ HomeInv /\ ListenInv /\ RowInv

=============================================================================
