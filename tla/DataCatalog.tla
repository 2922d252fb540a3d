------------------------------ MODULE DataCatalog ------------------------------
(***************************************************************************)
(* The data catalog of the registry server (api/data_catalog) over the SQL *)
(* registry.  One Project row holds the collections and the labels, as     *)
(* tags; the saved_datasets table holds the assets.  The row is changed by *)
(* mutate_project: read, let the mutator look and decide, compare and      *)
(* swap, up to MaxAttempts times.  An asset is written by a transaction of *)
(* its own that also touches the row, so that a swap by a mutator that has *)
(* looked at the assets before fails.                                      *)
(*                                                                         *)
(* A step is a statement, or the statements from the first lock to the     *)
(* commit, of a READ COMMITTED transaction: what it reads is committed,    *)
(* and nobody sees its writes before they are.                             *)
(***************************************************************************)
EXTENDS Naturals

CONSTANTS
    Clients,       \* threads that serve requests, in any number of processes
    Collections,   \* collections of one tenant (Iceberg namespaces)
    Displays,      \* display names of assets
    Labels,        \* labels of assets
    Props,         \* property keys of a collection
    Kinds,         \* asset_type: table or volume
    Default,       \* the collection that always exists
    MaxAttempts,   \* 16 in mutate_project
    MaxRequests,   \* bound: requests that are started
    MayCrash,      \* whether a request may die at any statement
    NoRow, Absent, Nobody

ASSUME AttemptsAssumption == MaxAttempts \in Nat \ {0}
ASSUME BoundAssumption == MaxRequests \in Nat

VARIABLES
    project,    \* the committed Project row of data-registry, or NoRow
    datasets,   \* the committed saved_datasets rows, by asset
    lock,       \* the client that has inserted the Project row, uncommitted
    writes,     \* how often the Project row has been written
    pc, req,    \* per client: next statement and request
    snap,       \* the Project row it has read
    seen,       \* the assets it has read
    found,      \* the row its write transaction has selected
    target,     \* the asset it writes
    tries,      \* failed swaps of mutate_project
    begun,      \* writes when mutate_project was called
    out,        \* answer to its last request
    alone,      \* whether no other request has run during this one
    created, deleted,  \* per asset: creates and deletes that were answered with success
    started     \* requests so far

store == <<project, datasets, lock, writes>>
locals == <<snap, seen, found, target, tries, begun>>
vars == <<store, pc, req, locals, out, alone, created, deleted, started>>

--------------------------------------------------------------------------------
Assets == Collections \X Displays
CollectionOf(a) == a[1]

Row == [kind : Kinds, labels : SUBSET Labels, id : Nat]
NsMeta == (SUBSET Props) \cup {Absent}
ProjectRow == [ns : [Collections -> NsMeta], labels : SUBSET Labels,
               protected : BOOLEAN, stamp : Nat]

\* No row, collection property, client or asset is one of the values for their absence.
ASSUME ValuesAssumption ==
    /\ NoRow \notin ProjectRow /\ NoRow \notin Row
    /\ \A P \in SUBSET Props : P # Absent
    /\ Nobody \notin Clients /\ Nobody \notin Assets

\* Project(name=data-registry), as mutate_project inserts it.
NewProject == [ns |-> [k \in Collections |-> Absent], labels |-> {},
               protected |-> FALSE, stamp |-> 0]

\* What a client may ask for.  A properties request sets or removes one key.
Request ==
    [op : {"create_namespace"}, col : Collections, props : SUBSET Props]
    \cup [op : {"drop_namespace"}, col : Collections \ {Default}]
    \cup [op : {"properties"}, col : Collections, prop : Props, remove : BOOLEAN]
    \cup [op : {"create_asset"}, asset : Assets, kind : Kinds, labels : SUBSET Labels]
    \cup [op : {"update_asset"}, asset : Assets, kind : Kinds, label : Labels, remove : BOOLEAN]
    \cup [op : {"delete_asset"}, asset : Assets, kind : Kinds]
    \cup [op : {"create_label", "delete_label"}, label : Labels]
    \cup [op : {"delete_feature_view"}]

AssetOps == {"create_asset", "update_asset", "delete_asset"}

Tagged(k) == project # NoRow /\ project.ns[k] # Absent
HasAssets(k) == \E d \in Displays : datasets[<<k, d>>] # NoRow
Unseen == [a \in Assets |-> NoRow]

\* A registry before its first request, or one in which earlier requests have left
\* the collections in C, and assets in some of them.
InitStore ==
    \/ project = NoRow /\ datasets = Unseen
    \/ \E C \in SUBSET (Collections \ {Default}), L \in SUBSET Labels :
         /\ project = [ns |-> [k \in Collections |-> IF k \in C THEN {} ELSE Absent],
                       labels |-> L, protected |-> TRUE, stamp |-> 0]
         /\ datasets \in [Assets -> [kind : Kinds, labels : {Labels}, id : {1}] \cup {NoRow}]
         /\ \A a \in Assets : datasets[a] # NoRow => CollectionOf(a) \in C \cup {Default}

Init ==
    /\ InitStore
    /\ lock = Nobody /\ writes = 0
    /\ pc = [c \in Clients |-> "idle"]
    /\ req = [c \in Clients |-> NoRow]
    /\ snap = [c \in Clients |-> NoRow]
    /\ seen = [c \in Clients |-> Unseen]
    /\ found = [c \in Clients |-> NoRow]
    /\ target = [c \in Clients |-> Nobody]
    /\ tries = [c \in Clients |-> 0]
    /\ begun = [c \in Clients |-> 0]
    /\ out = [c \in Clients |-> "none"]
    /\ alone = [c \in Clients |-> TRUE]
    /\ created = [a \in Assets |-> IF datasets[a] = NoRow THEN 0 ELSE 1]
    /\ deleted = [a \in Assets |-> 0]
    /\ started = 0

Goto(c, p) == pc' = [pc EXCEPT ![c] = p]
Became(f, c, v) == f' = [f EXCEPT ![c] = v]

\* The request ends: its transaction, if it has one, is over.
Finish(c, answer) ==
    /\ Goto(c, "idle")
    /\ Became(out, c, answer)
    /\ lock' = (IF lock = c THEN Nobody ELSE lock)
    /\ Became(snap, c, NoRow) /\ Became(seen, c, Unseen) /\ Became(found, c, NoRow)
    /\ Became(target, c, Nobody) /\ Became(tries, c, 0) /\ Became(begun, c, 0)

\* mutate_project begins.
CallMutate(c) == Goto(c, "select") /\ Became(tries, c, 0) /\ Became(begun, c, writes)

\* Every write of the row sets last_updated_timestamp: no two writes are equal.
WriteProject(row) ==
    /\ project' = [row EXCEPT !.stamp = writes + 1]
    /\ writes' = writes + 1

\* Fault: an asset is written without touching the row.
Touch_Fault == UNCHANGED <<project, writes>>

\* _cas_touch_project, in the transaction that writes an asset.  It compares and
\* repeats; here it has the row as it is at the commit, and never gives up.
Touch ==
    IF project = NoRow THEN UNCHANGED <<project, writes>> ELSE WriteProject(project)

--------------------------------------------------------------------------------
\* The HTTP handlers, up to the first statement.
Start(c) ==
    /\ pc[c] = "idle" /\ started < MaxRequests
    /\ \E r \in Request :
         /\ Became(req, c, r)
         /\ Became(target, c, IF r.op \in AssetOps THEN r.asset ELSE Nobody)
         /\ Goto(c, CASE r.op \in AssetOps -> "validate"
                      [] r.op = "create_label" -> "discover"
                      [] r.op = "delete_label" -> "lookup"
                      [] r.op = "delete_feature_view" -> "get_project"
                      [] OTHER -> "select")
    /\ Became(begun, c, writes)
    /\ alone' = [d \in Clients |-> IF d = c THEN \A e \in Clients : pc[e] = "idle"
                                   ELSE alone[d] /\ pc[d] = "idle"]
    /\ started' = started + 1
    /\ UNCHANGED <<store, snap, seen, found, tries, out, created, deleted>>

\* A request dies: its connection rolls back.
Crash(c) ==
    /\ MayCrash /\ pc[c] # "idle"
    /\ Finish(c, "died")
    /\ UNCHANGED <<project, datasets, writes, req, alone, created, deleted, started>>

--------------------------------------------------------------------------------
\* mutate_project: SELECT; a missing row is inserted, or the request fails.
Select(c) ==
    /\ pc[c] = "select"
    /\ \/ /\ project # NoRow
          /\ Became(snap, c, project) /\ Goto(c, "mutate")
          /\ UNCHANGED <<lock, seen, found, target, tries, begun, out>>
       \/ /\ project = NoRow /\ req[c].op \notin {"drop_namespace", "delete_label"}
          /\ Goto(c, "insert")
          /\ UNCHANGED <<lock, locals, out>>
       \/ /\ project = NoRow /\ req[c].op \in {"drop_namespace", "delete_label"}
          /\ Finish(c, "missing")
    /\ UNCHANGED <<project, datasets, writes, req, alone, created, deleted, started>>

\* INSERT waits for another uncommitted INSERT; if that one commits, it fails with
\* IntegrityError and the row of the other is read.
Insert(c) ==
    /\ pc[c] = "insert" /\ lock = Nobody
    /\ IF project = NoRow
         THEN lock' = c /\ Became(snap, c, NewProject)
         ELSE UNCHANGED lock /\ Became(snap, c, project)
    /\ Goto(c, "mutate")
    /\ UNCHANGED <<project, datasets, writes, req, seen, found, target, tries, begun,
                   out, alone, created, deleted, started>>

\* What the mutator of the request raises, on the row that was read and on the
\* assets that are committed now.
Verdict(r, row, discovered) ==
    CASE r.op = "create_namespace" ->
           IF r.col = Default \/ row.ns[r.col] # Absent \/ HasAssets(r.col)
             THEN "exists" ELSE "ok"
      [] r.op = "properties" ->
           IF r.col = Default \/ row.ns[r.col] # Absent \/ HasAssets(r.col)
             THEN "ok" ELSE "missing"
      [] r.op = "drop_namespace" ->
           IF HasAssets(r.col) THEN "not empty"
           ELSE IF row.ns[r.col] = Absent THEN "missing" ELSE "ok"
      [] r.op = "create_label" ->
           IF r.label \in row.labels \/ discovered THEN "exists" ELSE "ok"
      [] OTHER -> "ok"

\* The row as the mutator leaves it.
Mutated(r, row) ==
    CASE r.op = "create_namespace" -> [row EXCEPT !.ns[r.col] = r.props]
      [] r.op = "drop_namespace" -> [row EXCEPT !.ns[r.col] = Absent]
      [] r.op = "properties" ->
           LET current == IF row.ns[r.col] = Absent THEN {} ELSE row.ns[r.col]
           IN [row EXCEPT !.ns[r.col] =
                 IF r.remove THEN current \ {r.prop} ELSE current \cup {r.prop}]
      [] r.op = "create_label" -> [row EXCEPT !.labels = @ \cup {r.label}]
      [] r.op = "delete_label" -> [row EXCEPT !.labels = @ \ {r.label}]
      [] OTHER -> [row EXCEPT !.protected = TRUE]    \* ensure_catalog_project

\* list_discovered_labels of create_label.
Discovered(c) == \E a \in Assets : seen[c][a] # NoRow

Mutate(c) ==
    /\ pc[c] = "mutate"
    /\ LET v == Verdict(req[c], snap[c], Discovered(c))
       IN \/ /\ v = "ok" /\ Goto(c, "swap")
             /\ UNCHANGED <<lock, locals, out>>
          \/ /\ v # "ok" /\ Finish(c, v)
    /\ UNCHANGED <<project, datasets, writes, req, alone, created, deleted, started>>

\* UPDATE ... WHERE project_proto = old, and the commit.
SwapHits(c) == lock = c \/ project = snap[c]

AfterMutate(c) ==
    \/ /\ req[c].op = "create_asset"
       /\ Goto(c, "exists")
       /\ lock' = (IF lock = c THEN Nobody ELSE lock)
       /\ Became(snap, c, NoRow)
       /\ UNCHANGED <<seen, found, target, tries, begun, out>>
    \/ /\ req[c].op = "delete_label" /\ Discovered(c)
       /\ Goto(c, "cascade")
       /\ Became(snap, c, NoRow)
       /\ UNCHANGED <<lock, seen, found, target, tries, begun, out>>
    \/ /\ ~(req[c].op = "create_asset" \/ (req[c].op = "delete_label" /\ Discovered(c)))
       /\ Finish(c, "ok")

Swap(c) ==
    /\ pc[c] = "swap" /\ SwapHits(c)
    /\ WriteProject(Mutated(req[c], snap[c]))
    /\ AfterMutate(c)
    /\ UNCHANGED <<datasets, req, alone, created, deleted, started>>

\* Fault: the attempts are counted one too early.
Retry_Fault(c) ==
    /\ pc[c] = "swap" /\ ~SwapHits(c)
    /\ \/ /\ tries[c] + 2 < MaxAttempts
          /\ Became(tries, c, tries[c] + 1) /\ Goto(c, "select")
          /\ UNCHANGED <<lock, snap, seen, found, target, begun, out>>
       \/ /\ tries[c] + 2 >= MaxAttempts
          /\ Finish(c, "conflict")
    /\ UNCHANGED <<project, datasets, writes, req, alone, created, deleted, started>>

\* The row has changed since it was read: again from the SELECT, or give up.
Retry(c) ==
    /\ pc[c] = "swap" /\ ~SwapHits(c)
    /\ \/ /\ tries[c] + 1 < MaxAttempts
          /\ Became(tries, c, tries[c] + 1) /\ Goto(c, "select")
          /\ UNCHANGED <<lock, snap, seen, found, target, begun, out>>
       \/ /\ tries[c] + 1 = MaxAttempts
          /\ Finish(c, "conflict")
    /\ UNCHANGED <<project, datasets, writes, req, alone, created, deleted, started>>

--------------------------------------------------------------------------------
\* validate_namespace_exists: the tag, then the assets.
Validate(c) ==
    /\ pc[c] = "validate"
    /\ LET k == CollectionOf(target[c])
       IN Goto(c, IF k = Default \/ Tagged(k)
                    THEN IF req[c].op = "create_asset" THEN "ensure" ELSE "get"
                    ELSE "validate_assets")
    /\ UNCHANGED <<store, req, locals, out, alone, created, deleted, started>>

ValidateAssets(c) ==
    /\ pc[c] = "validate_assets"
    /\ \/ /\ HasAssets(CollectionOf(target[c]))
          /\ Goto(c, IF req[c].op = "create_asset" THEN "ensure" ELSE "get")
          /\ UNCHANGED <<lock, locals, out>>
       \/ /\ ~HasAssets(CollectionOf(target[c]))
          /\ Finish(c, "missing")
    /\ UNCHANGED <<project, datasets, writes, req, alone, created, deleted, started>>

\* ensure_catalog_project: a protected project is not written.
Ensure(c) ==
    /\ pc[c] = "ensure"
    /\ \/ /\ project # NoRow /\ project.protected
          /\ Goto(c, "exists") /\ UNCHANGED <<tries, begun>>
       \/ /\ ~(project # NoRow /\ project.protected)
          /\ CallMutate(c)
    /\ UNCHANGED <<store, req, snap, seen, found, target, out, alone, created, deleted, started>>

\* insert_catalog_dataset: the exists-check.
Exists(c) ==
    /\ pc[c] = "exists"
    /\ \/ /\ datasets[target[c]] = NoRow
          /\ Goto(c, "tx_select") /\ UNCHANGED <<lock, locals, out>>
       \/ /\ datasets[target[c]] # NoRow
          /\ Finish(c, "exists")
    /\ UNCHANGED <<project, datasets, writes, req, alone, created, deleted, started>>

\* get_catalog_dataset, for an update or a delete.
Get(c) ==
    /\ pc[c] = "get"
    /\ LET row == datasets[target[c]]
       IN \/ /\ row # NoRow /\ row.kind = req[c].kind
             /\ Became(seen, c, [seen[c] EXCEPT ![target[c]] = row])
             /\ Goto(c, IF req[c].op = "delete_asset" THEN "get_again" ELSE "tx_select")
             /\ UNCHANGED <<lock, snap, found, target, tries, begun, out>>
          \/ /\ ~(row # NoRow /\ row.kind = req[c].kind)
             /\ Finish(c, "missing")
    /\ UNCHANGED <<project, datasets, writes, req, alone, created, deleted, started>>

\* delete_catalog_dataset reads once more: a row that has gone is answered with 204.
GetAgain(c) ==
    /\ pc[c] = "get_again"
    /\ \/ /\ datasets[target[c]] # NoRow
          /\ Goto(c, "tx_delete") /\ UNCHANGED <<lock, locals, out>>
       \/ /\ datasets[target[c]] = NoRow
          /\ Finish(c, "ok")
    /\ UNCHANGED <<project, datasets, writes, req, alone, created, deleted, started>>

\* Fault: a create is applied like any other dataset, without on_conflict.
TxSelect_Fault(c) ==
    /\ pc[c] = "tx_select"
    /\ Became(found, c, datasets[target[c]]) /\ Goto(c, "tx_write")
    /\ UNCHANGED <<store, req, snap, seen, target, tries, begun, out, alone, created, deleted, started>>

\* _apply_object: SELECT of the row to write.  A create that finds one raises.
TxSelect(c) ==
    /\ pc[c] = "tx_select"
    /\ LET row == datasets[target[c]]
       IN \/ /\ ~(req[c].op = "create_asset" /\ row # NoRow)
             /\ Became(found, c, row) /\ Goto(c, "tx_write")
             /\ UNCHANGED <<lock, snap, seen, target, tries, begun, out>>
          \/ /\ req[c].op = "create_asset" /\ row # NoRow
             /\ Finish(c, "exists")
    /\ UNCHANGED <<project, datasets, writes, req, alone, created, deleted, started>>

\* The dataset that the request writes, made from the one it has read.
NewRow(c) ==
    LET r == req[c]
        old == seen[c][target[c]]
    IN CASE r.op = "create_asset" ->
              [kind |-> r.kind, labels |-> r.labels, id |-> created[target[c]] + 1]
         [] r.op = "update_asset" ->
              [old EXCEPT !.labels = IF r.remove THEN @ \ {r.label} ELSE @ \cup {r.label}]
         [] r.op = "delete_label" -> [old EXCEPT !.labels = @ \ {r.label}]

\* Fault: delete_label stops after the first asset.
AfterWrite_Fault(c) == Finish(c, "ok")

\* The write of one asset is over; delete_label goes on to the next.
AfterWrite(c) ==
    LET rest == [seen[c] EXCEPT ![target[c]] = NoRow]
    IN \/ /\ req[c].op = "delete_label" /\ rest # Unseen
          /\ Became(seen, c, rest) /\ Became(found, c, NoRow)
          /\ Goto(c, "cascade")
          /\ UNCHANGED <<lock, snap, target, tries, begun, out>>
       \/ /\ ~(req[c].op = "delete_label" /\ rest # Unseen)
          /\ Finish(c, "ok")

\* A create that gets as far as its write is answered with success.
Answered(c) ==
    created' = (IF req[c].op = "create_asset" THEN [created EXCEPT ![target[c]] = @ + 1]
                ELSE created)

\* The row that was found is unchanged: nothing is written.
TxSame(c) ==
    /\ pc[c] = "tx_write" /\ found[c] # NoRow /\ found[c] = NewRow(c)
    /\ AfterWrite(c)
    /\ UNCHANGED <<project, datasets, writes, req, alone, created, deleted, started>>

\* UPDATE of the row that was found: it writes nothing when the row has gone.
TxUpdate(c) ==
    /\ pc[c] = "tx_write" /\ found[c] # NoRow /\ found[c] # NewRow(c)
    /\ datasets' = (IF datasets[target[c]] = NoRow THEN datasets
                    ELSE [datasets EXCEPT ![target[c]] = NewRow(c)])
    /\ Touch
    /\ AfterWrite(c)
    /\ Answered(c)
    /\ UNCHANGED <<req, alone, deleted, started>>

\* INSERT of a row that was not found.  A row inserted since is an IntegrityError: a
\* create raises, any other write is skipped.
TxInsert(c) ==
    /\ pc[c] = "tx_write" /\ found[c] = NoRow
    /\ \/ /\ datasets[target[c]] = NoRow
          /\ datasets' = [datasets EXCEPT ![target[c]] = NewRow(c)]
          /\ Answered(c)
          /\ Touch
          /\ AfterWrite(c)
       \/ /\ datasets[target[c]] # NoRow /\ req[c].op = "create_asset"
          /\ Finish(c, "exists")
          /\ UNCHANGED <<project, writes, datasets, created>>
       \/ /\ datasets[target[c]] # NoRow /\ req[c].op # "create_asset"
          /\ Touch
          /\ AfterWrite(c)
          /\ UNCHANGED <<datasets, created>>
    /\ UNCHANGED <<req, alone, deleted, started>>

\* _delete_object.
TxDelete(c) ==
    /\ pc[c] = "tx_delete"
    /\ \/ /\ datasets[target[c]] # NoRow
          /\ datasets' = [datasets EXCEPT ![target[c]] = NoRow]
          /\ deleted' = [deleted EXCEPT ![target[c]] = @ + 1]
          /\ Touch
          /\ Finish(c, "ok")
       \/ /\ datasets[target[c]] = NoRow
          /\ Finish(c, "missing")
          /\ UNCHANGED <<project, writes, datasets, deleted>>
    /\ UNCHANGED <<req, alone, created, started>>

--------------------------------------------------------------------------------
\* create_label_meta: the labels of the assets, before the mutator.
WithLabel(l) ==
    [a \in Assets |-> IF datasets[a] # NoRow /\ l \in datasets[a].labels
                        THEN datasets[a] ELSE NoRow]

Discover(c) ==
    /\ pc[c] = "discover"
    /\ Became(seen, c, WithLabel(req[c].label))
    /\ CallMutate(c)
    /\ UNCHANGED <<store, req, snap, found, target, out, alone, created, deleted, started>>

\* delete_label_meta: is the label a tag; which assets have it; remove both.
Lookup(c) ==
    /\ pc[c] = "lookup"
    /\ Became(snap, c, project)
    /\ Goto(c, "list")
    /\ UNCHANGED <<store, req, seen, found, target, tries, begun, out, alone, created, deleted, started>>

ListAssets(c) ==
    LET l == req[c].label
        explicit == snap[c] # NoRow /\ l \in snap[c].labels
    IN /\ pc[c] = "list"
       /\ \/ /\ explicit \/ WithLabel(l) # Unseen
             /\ Became(seen, c, WithLabel(l)) /\ Became(snap, c, NoRow)
             /\ IF explicit THEN CallMutate(c)
                ELSE Goto(c, "cascade") /\ UNCHANGED <<tries, begun>>
             /\ UNCHANGED <<lock, found, target, out>>
          \/ /\ ~explicit /\ WithLabel(l) = Unseen
             /\ Finish(c, "missing")
       /\ UNCHANGED <<project, datasets, writes, req, alone, created, deleted, started>>

\* The next asset of the cascade goes to replace_catalog_dataset.
Cascade(c) ==
    /\ pc[c] = "cascade"
    /\ \E a \in Assets : seen[c][a] # NoRow /\ Became(target, c, a)
    /\ Goto(c, "tx_select")
    /\ UNCHANGED <<store, req, snap, seen, found, tries, begun, out, alone, created, deleted, started>>

--------------------------------------------------------------------------------
\* SqlRegistry.delete_feature_view, of a view in the catalog's project: once the
\* view is deleted, the project is read and applied again, with no comparison.
GetProject(c) ==
    /\ pc[c] = "get_project"
    /\ \/ /\ project # NoRow
          /\ Became(snap, c, project) /\ Goto(c, "reapply")
          /\ UNCHANGED <<lock, seen, found, target, tries, begun, out>>
       \/ /\ project = NoRow
          /\ Finish(c, "missing")
    /\ UNCHANGED <<project, datasets, writes, req, alone, created, deleted, started>>

Reapply(c) ==
    /\ pc[c] = "reapply"
    /\ IF project = snap[c] THEN UNCHANGED <<project, writes>> ELSE WriteProject(snap[c])
    /\ Finish(c, "ok")
    /\ UNCHANGED <<datasets, req, alone, created, deleted, started>>

Step(c) ==
    \/ Select(c) \/ Insert(c) \/ Mutate(c) \/ Swap(c) \/ Retry(c)
    \/ Validate(c) \/ ValidateAssets(c) \/ Ensure(c) \/ Exists(c) \/ Get(c) \/ GetAgain(c)
    \/ TxSelect(c) \/ TxSame(c) \/ TxUpdate(c) \/ TxInsert(c) \/ TxDelete(c)
    \/ Discover(c) \/ Lookup(c) \/ ListAssets(c) \/ Cascade(c)
    \/ GetProject(c) \/ Reapply(c)

Next == \E c \in Clients : Start(c) \/ Step(c) \/ Crash(c)

Spec == Init /\ [][Next]_vars

--------------------------------------------------------------------------------
Answers == {"none", "ok", "exists", "missing", "not empty", "conflict", "died"}

\* Type invariant: an uncommitted INSERT of the Project row belongs to the client
\* whose mutator runs on it, and only while no row is committed.
TypeOK ==
    /\ project \in ProjectRow \cup {NoRow}
    /\ datasets \in [Assets -> Row \cup {NoRow}]
    /\ writes \in Nat /\ started \in 0 .. MaxRequests
    /\ req \in [Clients -> Request \cup {NoRow}]
    /\ snap \in [Clients -> ProjectRow \cup {NoRow}]
    /\ seen \in [Clients -> [Assets -> Row \cup {NoRow}]]
    /\ found \in [Clients -> Row \cup {NoRow}]
    /\ target \in [Clients -> Assets \cup {Nobody}]
    /\ tries \in [Clients -> 0 .. MaxAttempts - 1]
    /\ begun \in [Clients -> Nat]
    /\ out \in [Clients -> Answers]
    /\ alone \in [Clients -> BOOLEAN]
    /\ lock \in Clients \cup {Nobody}
    /\ lock # Nobody => project = NoRow /\ pc[lock] \in {"mutate", "swap"}

Atomic == INSTANCE CatalogAtomic WITH
    namespaces <- IF project = NoRow THEN NewProject.ns ELSE project.ns,
    labels <- IF project = NoRow THEN {} ELSE project.labels,
    assets <- {a \in Assets : datasets[a] # NoRow}

\* Requests on collections, labels and assets take effect one at a time and find
\* what their answers say: no tag or property of another request is lost, nothing
\* is dropped that has an asset, no properties undo a drop.  The one step that may
\* break this is the second half of delete_feature_view, which puts back the
\* project it has read (sql.py, delete_feature_view).
ImplementsAtomicCatalog ==
    Atomic!Init /\ [][Atomic!Next \/ \E c \in Clients : Reapply(c)]_(Atomic!vars)

\* Of the requests that create an asset of one name, one is answered with success
\* for each time the asset has been deleted, and one more: an insert that loses
\* the race is a 409 (insert_catalog_dataset, _apply_object).
CreatedOnce == \A a \in Assets : created[a] <= deleted[a] + 1

\* mutate_project gives up with ConcurrentVersionConflict only when other requests
\* have written the row MaxAttempts times since it was called.
ConflictMeansContention ==
    [][\A c \in Clients :
         (pc[c] = "swap" /\ pc'[c] = "idle" /\ out'[c] = "conflict")
         => writes - begun[c] >= MaxAttempts]_vars

\* A delete of a label that no other request overlaps and that is answered with
\* success leaves the label on nothing, whatever requests died before it halfway
\* through (delete_label_meta).
LabelGone ==
    [][\A c \in Clients :
         (pc[c] # "idle" /\ pc'[c] = "idle" /\ out'[c] = "ok"
          /\ req[c].op = "delete_label" /\ alone[c])
         => /\ (project' # NoRow => req[c].label \notin project'.labels)
            /\ \A a \in Assets :
                 datasets'[a] # NoRow => req[c].label \notin datasets'[a].labels]_vars
================================================================================
