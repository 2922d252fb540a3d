-------------------------- MODULE DataCatalog_proofs --------------------------
(***************************************************************************)
(* Proofs about DataCatalog, for any number of clients, collections,       *)
(* assets, labels and attempts, with and without crashes:                  *)
(*                                                                         *)
(*   TypeCorrect             the type invariant;                           *)
(*   AssetsAreCreatedOnce    CreatedOnce;                                  *)
(*   ConflictsAreContention  ConflictMeansContention;                      *)
(*   CatalogIsAtomic         the refinement of CatalogAtomic;              *)
(*   DeletedLabelsAreGone    LabelGone.                                    *)
(*                                                                         *)
(* All rest on ControlInv, which says where a request can be and what it   *)
(* then holds, and on the lemmas about single steps: what a step of one    *)
(* client leaves to the others (StepMoves), what comes after what (Edges), *)
(* and what is written (RowMoves, QuietSteps, AssetWrites).                *)
(***************************************************************************)
EXTENDS DataCatalog, TLAPS

-------------------------------------------------------------------------------
(* The inductive invariants *)

\* The requests that call mutate_project.
MutatorOps == {"create_namespace", "drop_namespace", "properties", "create_label",
               "delete_label", "create_asset"}

\* Where a client can be.
Points == {"idle", "select", "insert", "mutate", "swap", "validate", "validate_assets",
           "ensure", "exists", "get", "get_again", "tx_select", "tx_write", "tx_delete",
           "discover", "lookup", "list", "cascade", "get_project", "reapply"}

\* The types of all variables.
Typed ==
    /\ TypeOK
    /\ pc \in [Clients -> Points]
    /\ created \in [Assets -> Nat] /\ deleted \in [Assets -> Nat]

\* The requests whose handler reaches a statement.
OpsAt(p) ==
    CASE p \in {"select", "mutate", "swap"} -> MutatorOps
      [] p = "insert" -> MutatorOps \ {"drop_namespace", "delete_label"}
      [] p \in {"validate", "validate_assets"} -> AssetOps
      [] p \in {"ensure", "exists"} -> {"create_asset"}
      [] p = "get" -> {"update_asset", "delete_asset"}
      [] p \in {"get_again", "tx_delete"} -> {"delete_asset"}
      [] p \in {"tx_select", "tx_write"} -> {"create_asset", "update_asset", "delete_label"}
      [] p = "discover" -> {"create_label"}
      [] p \in {"lookup", "list", "cascade"} -> {"delete_label"}
      [] p \in {"get_project", "reapply"} -> {"delete_feature_view"}

\* What the request of client c is, has read, and is about to write.
Control(c) ==
    /\ pc[c] # "idle" => req[c] \in Request /\ req[c].op \in OpsAt(pc[c])
    /\ pc[c] = "idle" => tries[c] = 0
    /\ pc[c] # "idle" /\ req[c].op \in AssetOps => target[c] \in Assets
    /\ pc[c] \in {"tx_select", "tx_write"} => target[c] \in Assets
    /\ pc[c] \in {"tx_select", "tx_write"} /\ req[c].op # "create_asset"
         => seen[c][target[c]] \in Row
    /\ pc[c] = "tx_write" /\ req[c].op = "create_asset" => found[c] = NoRow
    /\ pc[c] \in {"mutate", "swap", "reapply"} => snap[c] \in ProjectRow
    /\ lock = c => /\ snap[c] = NewProject
                   /\ req[c].op \notin {"drop_namespace", "delete_label"}

\* A client holds a copy of a row that is committed, or that it has inserted itself.
Based(c) == pc[c] \in {"mutate", "swap", "reapply"} => project # NoRow \/ lock = c

ControlInv == Typed /\ \A c \in Clients : Control(c) /\ Based(c)

\* The stamp of the Project row counts its writes, and no asset is there before it.
StoreOK ==
    /\ project = NoRow => writes = 0 /\ datasets = Unseen
    /\ project # NoRow => project.stamp = writes

\* A snapshot with the stamp of the committed row is that row; a snapshot was read
\* after as many writes as there were attempts before; and whoever writes an asset
\* comes after the Project row.
Fresh(c) ==
    /\ pc[c] \in {"exists", "get_again", "tx_select", "tx_write", "tx_delete", "cascade"}
         => project # NoRow
    /\ pc[c] \in {"mutate", "swap"} =>
         /\ snap[c].stamp <= writes
         /\ project # NoRow /\ snap[c].stamp = writes => snap[c] = project
         /\ begun[c] + tries[c] <= snap[c].stamp
    /\ begun[c] + tries[c] <= writes

FreshInv == ControlInv /\ StoreOK /\ \A c \in Clients : Fresh(c)

\* As long as its swap would succeed, what a mutator has decided is still right.
Decided(c) ==
    pc[c] = "swap" /\ SwapHits(c) => Verdict(req[c], snap[c], Discovered(c)) = "ok"

DecidedInv == \A c \in Clients : Decided(c)

\* Successful creates and deletes of an asset alternate, and an asset that is not
\* there has been deleted as often as it was created.
Balanced == \A a \in Assets :
    /\ created[a] <= deleted[a] + 1
    /\ datasets[a] = NoRow => created[a] <= deleted[a]

\* Client c deletes a label, and no other request overlaps this one.
Removing(c) == pc[c] # "idle" /\ req[c].op = "delete_label" /\ alone[c]

Labelled(a, l) == datasets[a] # NoRow /\ l \in datasets[a].labels

\* Every asset that still has the label is on the list of the deletion, as it is.
Tracks(c) ==
    \A a \in Assets : /\ Labelled(a, req[c].label) => seen[c][a] # NoRow
                      /\ seen[c][a] # NoRow => seen[c][a] = datasets[a]

\* What a deletion that runs alone knows: the tag is gone when the cascade begins, and
\* what its transaction has selected is there.
AloneOK(c) ==
    /\ alone[c] /\ pc[c] # "idle" => \A d \in Clients \ {c} : pc[d] = "idle"
    /\ Removing(c) =>
         /\ pc[c] = "list" => snap[c] = project
         /\ pc[c] \in {"select", "mutate", "swap", "cascade", "tx_select", "tx_write"} => Tracks(c)
         /\ pc[c] \in {"cascade", "tx_select", "tx_write"} => req[c].label \notin project.labels
         /\ pc[c] = "tx_write" => found[c] = datasets[target[c]]

AloneInv == \A c \in Clients : AloneOK(c)

-------------------------------------------------------------------------------
(* Operators *)

\* The fields of a request by its operation.
LEMMA RequestFields ==
    ASSUME NEW r \in Request
    PROVE  /\ r.op \in MutatorOps \cup AssetOps \cup {"delete_feature_view"}
           /\ r.op \in {"create_namespace", "drop_namespace", "properties"} => r.col \in Collections
           /\ r.op = "create_namespace" => r.props \in SUBSET Props
           /\ r.op = "properties" => r.prop \in Props
           /\ r.op \in AssetOps => r.asset \in Assets
           /\ r.op = "create_asset" => r.kind \in Kinds /\ r.labels \in SUBSET Labels
           /\ r.op \in {"create_label", "delete_label", "update_asset"} => r.label \in Labels
  BY DEF Request, MutatorOps, AssetOps

\* A mutator leaves a Project row behind, with the stamp it had.
LEMMA MutatedRow ==
    ASSUME NEW r \in Request, NEW row \in ProjectRow
    PROVE  Mutated(r, row) \in ProjectRow
<1>1. row.ns \in [Collections -> NsMeta] /\ row.labels \in SUBSET Labels
      /\ row.protected \in BOOLEAN /\ row.stamp \in Nat
  BY DEF ProjectRow
<1>2. \A k \in Collections, m \in NsMeta : [row EXCEPT !.ns[k] = m] \in ProjectRow
  BY <1>1 DEF ProjectRow
<1>3. CASE r.op = "create_namespace"
  <2>1. r.col \in Collections /\ r.props \in NsMeta
    BY <1>3, RequestFields DEF NsMeta
  <2>2. Mutated(r, row) = [row EXCEPT !.ns[r.col] = r.props]
    BY <1>3 DEF Mutated
  <2> QED
    BY <2>1, <2>2, <1>2
<1>4. CASE r.op = "drop_namespace"
  <2>1. r.col \in Collections /\ Absent \in NsMeta
    BY <1>4, RequestFields DEF NsMeta
  <2>2. Mutated(r, row) = [row EXCEPT !.ns[r.col] = Absent]
    BY <1>4 DEF Mutated
  <2> QED
    BY <2>1, <2>2, <1>2
<1>5. CASE r.op = "properties"
  <2> DEFINE current == IF row.ns[r.col] = Absent THEN {} ELSE row.ns[r.col]
             m == IF r.remove THEN current \ {r.prop} ELSE current \cup {r.prop}
  <2>1. r.col \in Collections /\ r.prop \in Props
    BY <1>5, RequestFields
  <2>2. current \in SUBSET Props
    BY <2>1, <1>1 DEF NsMeta
  <2>3. m \in NsMeta
    BY <2>1, <2>2 DEF NsMeta
  <2>4. Mutated(r, row) = [row EXCEPT !.ns[r.col] = m]
    BY <1>5 DEF Mutated
  <2> QED
    BY <2>1, <2>3, <2>4, <1>2
<1>6. CASE r.op = "create_label"
  <2>1. Mutated(r, row) = [row EXCEPT !.labels = row.labels \cup {r.label}]
    BY <1>6 DEF Mutated
  <2> QED
    BY <2>1, <1>1, <1>6, RequestFields DEF ProjectRow
<1>7. CASE r.op = "delete_label"
  <2>1. Mutated(r, row) = [row EXCEPT !.labels = row.labels \ {r.label}]
    BY <1>7 DEF Mutated
  <2> QED
    BY <2>1, <1>1, <1>7, RequestFields DEF ProjectRow
<1>8. CASE r.op \notin {"create_namespace", "drop_namespace", "properties", "create_label",
                        "delete_label"}
  <2>1. Mutated(r, row) = [row EXCEPT !.protected = TRUE]
    BY <1>8 DEF Mutated
  <2> QED
    BY <2>1, <1>1 DEF ProjectRow
<1> QED
  BY <1>3, <1>4, <1>5, <1>6, <1>7, <1>8

\* Every answer of a mutator is an answer of the service.
LEMMA VerdictAnswer ==
    ASSUME NEW r, NEW row, NEW b
    PROVE  Verdict(r, row, b) \in Answers
  BY DEF Verdict, Answers

\* A write of the Project row gives it a stamp that no earlier row has had, and
\* keeps the rest.
LEMMA WrittenRow ==
    ASSUME NEW row \in ProjectRow, writes \in Nat, WriteProject(row)
    PROVE  /\ project' \in ProjectRow /\ project' # NoRow
           /\ project'.stamp = writes + 1
           /\ project'.ns = row.ns /\ project'.labels = row.labels
           /\ writes' = writes + 1 /\ writes' \in Nat
<1>1. project' = [row EXCEPT !.stamp = writes + 1] /\ writes' = writes + 1
  BY DEF WriteProject
<1>2. project' \in ProjectRow
  BY <1>1 DEF ProjectRow
<1>3. project'.stamp = writes + 1 /\ project'.ns = row.ns /\ project'.labels = row.labels
  BY <1>1 DEF ProjectRow
<1> QED
  BY <1>1, <1>2, <1>3, ValuesAssumption

\* An asset's transaction touches the Project row if there is one.
LEMMA TouchedRow ==
    ASSUME project \in ProjectRow \cup {NoRow}, writes \in Nat, Touch
    PROVE  /\ project = NoRow => project' = NoRow /\ writes' = writes
           /\ project # NoRow => /\ project' \in ProjectRow /\ project' # NoRow
                                 /\ project'.stamp = writes + 1 /\ writes' = writes + 1
                                 /\ project'.ns = project.ns
                                 /\ project'.labels = project.labels
           /\ project' \in ProjectRow \cup {NoRow} /\ writes' \in Nat
<1>1. CASE project = NoRow
  BY <1>1 DEF Touch
<1>2. CASE project # NoRow
  <2>1. project \in ProjectRow /\ WriteProject(project)
    BY <1>2 DEF Touch
  <2> QED
    BY <2>1, <1>2, WrittenRow
<1> QED
  BY <1>1, <1>2

\* The row of an asset that a request writes is a row.
LEMMA NewRowType ==
    ASSUME NEW c \in Clients, Typed, Control(c), pc[c] = "tx_write"
    PROVE  /\ NewRow(c) \in Row /\ NewRow(c) # NoRow
           /\ req[c].op = "delete_label" => req[c].label \notin NewRow(c).labels
<1>1. req[c] \in Request /\ req[c].op \in {"create_asset", "update_asset", "delete_label"}
      /\ target[c] \in Assets
  BY DEF Control, OpsAt
<1>2. CASE req[c].op = "create_asset"
  <2>1. NewRow(c) = [kind |-> req[c].kind, labels |-> req[c].labels, id |-> created[target[c]] + 1]
    BY <1>2 DEF NewRow
  <2>2. created[target[c]] \in Nat
    BY <1>1 DEF Typed
  <2> QED
    BY <2>1, <2>2, <1>1, <1>2, RequestFields, ValuesAssumption DEF Row
<1>3. CASE req[c].op # "create_asset"
  <2> DEFINE old == seen[c][target[c]]
  <2>1. old \in Row
    BY <1>1, <1>3 DEF Control
  <2>2. req[c].label \in Labels
    BY <1>1, <1>3, RequestFields
  <2>3. PICK S \in {old.labels \ {req[c].label}, old.labels \cup {req[c].label}} :
          /\ NewRow(c) = [old EXCEPT !.labels = S]
          /\ req[c].op = "delete_label" => S = old.labels \ {req[c].label}
    <3>1. CASE req[c].op = "delete_label"
      <4>1. NewRow(c) = [old EXCEPT !.labels = old.labels \ {req[c].label}]
        BY <3>1 DEF NewRow
      <4> QED
        BY <4>1
    <3>2. CASE req[c].op = "update_asset"
      <4>1. NewRow(c) = [old EXCEPT !.labels = IF req[c].remove THEN old.labels \ {req[c].label}
                                               ELSE old.labels \cup {req[c].label}]
        BY <3>2 DEF NewRow
      <4> QED
        BY <4>1, <3>2
    <3> QED
      BY <3>1, <3>2, <1>1, <1>3
  <2> HIDE DEF old
  <2> QED
    BY <2>1, <2>2, <2>3, ValuesAssumption DEF Row
<1> QED
  BY <1>2, <1>3

-------------------------------------------------------------------------------
(* Control: where a request is, and what it then holds *)

\* The types of what belongs to a request.
LocalTypes ==
    /\ pc \in [Clients -> Points]
    /\ req \in [Clients -> Request \cup {NoRow}]
    /\ snap \in [Clients -> ProjectRow \cup {NoRow}]
    /\ seen \in [Clients -> [Assets -> Row \cup {NoRow}]]
    /\ found \in [Clients -> Row \cup {NoRow}]
    /\ target \in [Clients -> Assets \cup {Nobody}]
    /\ tries \in [Clients -> 0 .. MaxAttempts - 1]
    /\ begun \in [Clients -> Nat]
    /\ out \in [Clients -> Answers]

\* What a step of client c leaves alone: the requests of the other clients.
OthersKeep(c) ==
    \A d \in Clients \ {c} :
      /\ pc'[d] = pc[d] /\ req'[d] = req[d] /\ snap'[d] = snap[d] /\ seen'[d] = seen[d]
      /\ found'[d] = found[d] /\ target'[d] = target[d]
      /\ tries'[d] = tries[d] /\ begun'[d] = begun[d]
      /\ (lock' = d) <=> (lock = d)

\* What every step of client c comes to.
After(c) ==
    /\ LocalTypes' /\ OthersKeep(c) /\ Control(c)'
    /\ lock' \in {lock, c, Nobody}
    /\ lock' = c => pc'[c] \in {"mutate", "swap"}

\* The end of a request leaves the client idle and without a transaction.
LEMMA Finished ==
    ASSUME NEW c \in Clients, ControlInv, NEW answer \in Answers,
           Finish(c, answer), UNCHANGED req
    PROVE  /\ After(c) /\ lock' # c
           /\ pc'[c] = "idle" /\ out'[c] = answer /\ begun'[c] = 0 /\ tries'[c] = 0
<1>1. LocalTypes
  BY DEF ControlInv, Typed, TypeOK, LocalTypes
<1>2. lock \in Clients \cup {Nobody} /\ Nobody \notin Clients
  BY ValuesAssumption DEF ControlInv, Typed, TypeOK
<1>3. Unseen \in [Assets -> Row \cup {NoRow}] /\ 0 \in 0 .. MaxAttempts - 1
  BY AttemptsAssumption DEF Unseen
<1>4. lock' # c /\ lock' \in {lock, c, Nobody} /\ \A d \in Clients \ {c} : (lock' = d) <=> (lock = d)
  BY <1>2 DEF Finish
<1>5. pc'[c] = "idle" /\ out'[c] = answer /\ begun'[c] = 0 /\ tries'[c] = 0
  BY <1>1 DEF Finish, Goto, Became, LocalTypes
<1>6. LocalTypes'
  BY <1>1, <1>3 DEF Finish, Goto, Became, LocalTypes, Points
<1>7. OthersKeep(c)
  BY <1>1, <1>4 DEF Finish, Goto, Became, LocalTypes, OthersKeep
<1>8. Control(c)'
  BY <1>4, <1>5 DEF Control
<1> QED
  BY <1>4, <1>5, <1>6, <1>7, <1>8 DEF After

\* A request begins.
LEMMA StartMoves ==
    ASSUME NEW c \in Clients, ControlInv, Start(c)
    PROVE  After(c)
<1>1. LocalTypes /\ lock \in Clients \cup {Nobody} /\ writes \in Nat
  BY DEF ControlInv, Typed, TypeOK, LocalTypes
<1>2. PICK r \in Request :
         /\ Became(req, c, r)
         /\ Became(target, c, IF r.op \in AssetOps THEN r.asset ELSE Nobody)
         /\ Goto(c, CASE r.op \in AssetOps -> "validate"
                      [] r.op = "create_label" -> "discover"
                      [] r.op = "delete_label" -> "lookup"
                      [] r.op = "delete_feature_view" -> "get_project"
                      [] OTHER -> "select")
  BY DEF Start
<1>3. r.op \in MutatorOps \cup AssetOps \cup {"delete_feature_view"}
      /\ (r.op \in AssetOps => r.asset \in Assets)
  BY RequestFields
<1>4. PICK p \in Points \ {"idle", "tx_select", "tx_write", "mutate", "swap", "reapply"} :
        Goto(c, p) /\ r.op \in OpsAt(p)
  <2>1. CASE r.op \in AssetOps
    BY <2>1, <1>2 DEF Points, OpsAt
  <2>2. CASE r.op = "create_label"
    BY <2>2, <1>2 DEF Points, OpsAt, AssetOps
  <2>3. CASE r.op = "delete_label"
    BY <2>3, <1>2 DEF Points, OpsAt, AssetOps
  <2>4. CASE r.op = "delete_feature_view"
    BY <2>4, <1>2 DEF Points, OpsAt, AssetOps
  <2>5. CASE r.op \notin AssetOps \cup {"create_label", "delete_label", "delete_feature_view"}
    BY <2>5, <1>2, <1>3 DEF Points, OpsAt, MutatorOps
  <2> QED
    BY <2>1, <2>2, <2>3, <2>4, <2>5
<1>5. pc'[c] = p /\ req'[c] = r /\ (r.op \in AssetOps => target'[c] \in Assets)
  BY <1>1, <1>2, <1>3, <1>4 DEF Goto, Became, LocalTypes
<1>6. LocalTypes'
  BY <1>1, <1>2, <1>3, <1>4 DEF Start, store, Goto, Became, LocalTypes
<1>7. OthersKeep(c) /\ lock' = lock
  BY <1>1, <1>2, <1>4 DEF Start, store, Goto, Became, LocalTypes, OthersKeep
<1>8. lock # c
  BY ValuesAssumption DEF ControlInv, Typed, TypeOK, Start
<1>9. Control(c)'
  BY <1>4, <1>5, <1>7, <1>8 DEF Control
<1> QED
  BY <1>6, <1>7, <1>8, <1>9 DEF After

\* The statements of mutate_project.
LEMMA MutateMoves ==
    ASSUME NEW c \in Clients, ControlInv,
           Select(c) \/ Insert(c) \/ Mutate(c) \/ Swap(c) \/ Retry(c)
    PROVE  After(c)
<1>1. LocalTypes /\ lock \in Clients \cup {Nobody} /\ Nobody \notin Clients /\ writes \in Nat
      /\ project \in ProjectRow \cup {NoRow} /\ MaxAttempts \in Nat \ {0}
      /\ (lock # Nobody => pc[lock] \in {"mutate", "swap"})
  BY ValuesAssumption, AttemptsAssumption DEF ControlInv, Typed, TypeOK, LocalTypes
<1>2. Control(c)
  BY DEF ControlInv
<1>3. CASE Select(c)
  <2>1. CASE project # NoRow
    <3>1. Became(snap, c, project) /\ Goto(c, "mutate")
          /\ UNCHANGED <<lock, seen, found, target, tries, begun, out, req>>
      BY <1>3, <2>1 DEF Select
    <3>2. pc'[c] = "mutate" /\ snap'[c] \in ProjectRow /\ LocalTypes' /\ OthersKeep(c) /\ lock # c
      BY <3>1, <1>1, <1>3, <2>1 DEF Select, Goto, Became, LocalTypes, OthersKeep, Points
    <3> QED
      BY <3>1, <3>2, <1>2, <1>3 DEF After, Control, OpsAt, Select
  <2>2. CASE project = NoRow /\ req[c].op \notin {"drop_namespace", "delete_label"}
    <3>1. Goto(c, "insert") /\ UNCHANGED <<lock, locals, out, req>>
      BY <1>3, <2>2 DEF Select
    <3>2. pc'[c] = "insert" /\ LocalTypes' /\ OthersKeep(c) /\ lock # c
      BY <3>1, <1>1, <1>3 DEF Select, Goto, locals, LocalTypes, OthersKeep, Points
    <3> QED
      BY <3>1, <3>2, <1>2, <1>3, <2>2 DEF After, Control, OpsAt, Select, locals, MutatorOps
  <2>3. CASE project = NoRow /\ req[c].op \in {"drop_namespace", "delete_label"}
    BY <1>3, <2>3, Finished DEF Select, Answers
  <2> QED
    BY <2>1, <2>2, <2>3
<1>4. CASE Insert(c)
  <2>1. NewProject \in ProjectRow
    BY DEF NewProject, ProjectRow, NsMeta
  <2>2. pc'[c] = "mutate" /\ snap'[c] \in ProjectRow /\ LocalTypes'
    BY <1>1, <1>4, <2>1 DEF Insert, Goto, Became, LocalTypes, Points
  <2>3. OthersKeep(c) /\ lock' \in {lock, c} /\ (lock' = c => snap'[c] = NewProject)
    BY <1>1, <1>4 DEF Insert, Goto, Became, LocalTypes, OthersKeep
  <2> QED
    BY <2>2, <2>3, <1>2, <1>4 DEF After, Control, OpsAt, Insert
<1>5. CASE Mutate(c)
  <2> DEFINE v == Verdict(req[c], snap[c], Discovered(c))
  <2>1. CASE v = "ok"
    <3>1. Goto(c, "swap") /\ UNCHANGED <<lock, locals, out, req>>
      BY <1>5, <2>1 DEF Mutate
    <3>2. pc'[c] = "swap" /\ LocalTypes' /\ OthersKeep(c)
      BY <3>1, <1>1 DEF Goto, locals, LocalTypes, OthersKeep, Points
    <3> QED
      BY <3>1, <3>2, <1>2, <1>5 DEF After, Control, OpsAt, Mutate, locals
  <2>2. CASE v # "ok"
    <3>1. PICK answer \in Answers : answer = v
      BY VerdictAnswer
    <3>2. Finish(c, answer) /\ UNCHANGED req
      BY <1>5, <2>2, <3>1 DEF Mutate, Finish, Became
    <3> QED
      BY <3>2, Finished
  <2> QED
    BY <2>1, <2>2
<1>6. CASE Swap(c)
  <2>1. AfterMutate(c) /\ UNCHANGED req /\ req[c] \in Request /\ pc[c] # "idle"
    BY <1>2, <1>6 DEF Swap, Control
  <2>2. CASE req[c].op = "create_asset"
    <3>1. /\ Goto(c, "exists") /\ lock' = (IF lock = c THEN Nobody ELSE lock)
          /\ Became(snap, c, NoRow) /\ UNCHANGED <<seen, found, target, tries, begun, out>>
      BY <2>1, <2>2 DEF AfterMutate
    <3>2. pc'[c] = "exists" /\ LocalTypes' /\ OthersKeep(c) /\ lock' # c /\ lock' \in {lock, Nobody}
      BY <3>1, <2>1, <1>1 DEF Goto, Became, LocalTypes, OthersKeep, Points
    <3> QED
      BY <3>1, <3>2, <1>2, <2>1, <2>2 DEF After, Control, OpsAt
  <2>3. CASE req[c].op = "delete_label" /\ Discovered(c)
    <3>1. /\ Goto(c, "cascade") /\ Became(snap, c, NoRow)
          /\ UNCHANGED <<lock, seen, found, target, tries, begun, out>>
      BY <2>1, <2>3 DEF AfterMutate
    <3>2. pc'[c] = "cascade" /\ LocalTypes' /\ OthersKeep(c) /\ lock # c
      BY <3>1, <2>1, <1>1, <1>2, <2>3 DEF Goto, Became, LocalTypes, OthersKeep, Points, Control
    <3> QED
      BY <3>1, <3>2, <1>2, <2>1, <2>3 DEF After, Control, OpsAt, AssetOps
  <2>4. CASE ~(req[c].op = "create_asset" \/ (req[c].op = "delete_label" /\ Discovered(c)))
    BY <2>1, <2>4, Finished DEF AfterMutate, Answers
  <2> QED
    BY <2>2, <2>3, <2>4
<1>7. CASE Retry(c)
  <2>1. CASE tries[c] + 1 < MaxAttempts
    <3>1. Became(tries, c, tries[c] + 1) /\ Goto(c, "select")
          /\ UNCHANGED <<lock, snap, seen, found, target, begun, out, req>>
      BY <1>1, <1>7, <2>1 DEF Retry, LocalTypes
    <3>2. pc'[c] = "select" /\ LocalTypes' /\ OthersKeep(c) /\ lock # c
      BY <3>1, <1>1, <1>7, <2>1 DEF Retry, SwapHits, Goto, Became, LocalTypes, OthersKeep, Points
    <3> QED
      BY <3>1, <3>2, <1>2, <1>7 DEF After, Control, OpsAt, Retry
  <2>2. CASE ~(tries[c] + 1 < MaxAttempts)
    BY <1>7, <2>2, Finished DEF Retry, Answers
  <2> QED
    BY <2>1, <2>2
<1> QED
  BY <1>3, <1>4, <1>5, <1>6, <1>7

\* Only a client whose mutator runs has a transaction open.
LEMMA NoLock ==
    ASSUME NEW c \in Clients, ControlInv, pc[c] \notin {"mutate", "swap"}
    PROVE  lock # c
  BY ValuesAssumption DEF ControlInv, Typed, TypeOK

\* A step that only goes on.
LEMMA GoesOn ==
    ASSUME NEW c \in Clients, ControlInv, NEW p \in Points, Goto(c, p),
           pc[c] \notin {"mutate", "swap"}, UNCHANGED <<lock, locals, out, req>>
    PROVE  pc'[c] = p /\ LocalTypes' /\ OthersKeep(c) /\ lock' = lock /\ lock' # c
<1>1. LocalTypes
  BY DEF ControlInv, Typed, TypeOK, LocalTypes
<1>2. lock # c
  BY NoLock
<1> QED
  BY <1>1, <1>2 DEF Goto, locals, LocalTypes, OthersKeep

\* The statements before an asset is written.
LEMMA AssetMoves ==
    ASSUME NEW c \in Clients, ControlInv,
           \/ Validate(c) \/ ValidateAssets(c) \/ Ensure(c)
           \/ Exists(c) \/ Get(c) \/ GetAgain(c)
    PROVE  After(c)
<1>1. LocalTypes /\ datasets \in [Assets -> Row \cup {NoRow}] /\ writes \in Nat
      /\ MaxAttempts \in Nat \ {0}
  BY AttemptsAssumption DEF ControlInv, Typed, TypeOK, LocalTypes
<1>2. Control(c)
  BY DEF ControlInv
<1>3. CASE Validate(c)
  <2>1. PICK p \in {"ensure", "get", "validate_assets"} :
          /\ Goto(c, p) /\ (p = "ensure" => req[c].op = "create_asset")
          /\ (p = "get" => req[c].op # "create_asset")
    BY <1>3 DEF Validate
  <2>2. UNCHANGED <<lock, locals, out, req>> /\ pc[c] = "validate" /\ p \in Points
    BY <1>3 DEF Validate, store, Points
  <2>3. pc'[c] = p /\ LocalTypes' /\ OthersKeep(c) /\ lock' = lock /\ lock' # c
    BY <2>1, <2>2, GoesOn
  <2> QED
    BY <2>1, <2>2, <2>3, <1>2 DEF After, Control, OpsAt, locals, AssetOps
<1>4. CASE ValidateAssets(c)
  <2>1. CASE ~HasAssets(CollectionOf(target[c]))
    BY <1>4, <2>1, Finished DEF ValidateAssets, Answers
  <2>2. CASE HasAssets(CollectionOf(target[c]))
    <3>1. PICK p \in {"ensure", "get"} :
            /\ Goto(c, p) /\ (p = "ensure" => req[c].op = "create_asset")
            /\ (p = "get" => req[c].op # "create_asset")
      BY <1>4, <2>2 DEF ValidateAssets
    <3>2. UNCHANGED <<lock, locals, out, req>> /\ pc[c] = "validate_assets" /\ p \in Points
      BY <1>4, <2>2 DEF ValidateAssets, Points
    <3>3. pc'[c] = p /\ LocalTypes' /\ OthersKeep(c) /\ lock' = lock /\ lock' # c
      BY <3>1, <3>2, GoesOn
    <3> QED
      BY <3>1, <3>2, <3>3, <1>2 DEF After, Control, OpsAt, locals, AssetOps
  <2> QED
    BY <2>1, <2>2
<1>5. CASE Ensure(c)
  <2>0. pc[c] = "ensure" /\ lock # c
    BY <1>5, NoLock DEF Ensure
  <2>1. CASE project # NoRow /\ project.protected
    <3>1. Goto(c, "exists") /\ UNCHANGED <<lock, locals, out, req>>
      BY <1>5, <2>1 DEF Ensure, store, locals
    <3>2. pc'[c] = "exists" /\ LocalTypes' /\ OthersKeep(c) /\ lock' = lock /\ lock' # c
      BY <3>1, <2>0, GoesOn DEF Points
    <3> QED
      BY <3>1, <3>2, <2>0, <1>2 DEF After, Control, OpsAt, locals, AssetOps
  <2>2. CASE ~(project # NoRow /\ project.protected)
    <3>1. Goto(c, "select") /\ Became(tries, c, 0) /\ Became(begun, c, writes)
          /\ UNCHANGED <<lock, snap, seen, found, target, out, req>>
      BY <1>5, <2>2 DEF Ensure, CallMutate, store
    <3>2. pc'[c] = "select" /\ LocalTypes' /\ OthersKeep(c)
      BY <3>1, <1>1 DEF Goto, Became, LocalTypes, OthersKeep, Points
    <3> QED
      BY <3>1, <3>2, <2>0, <1>2 DEF After, Control, OpsAt, AssetOps, MutatorOps
  <2> QED
    BY <2>1, <2>2
<1>6. CASE Exists(c)
  <2>1. CASE datasets[target[c]] = NoRow
    <3>1. Goto(c, "tx_select") /\ UNCHANGED <<lock, locals, out, req>> /\ pc[c] = "exists"
      BY <1>6, <2>1 DEF Exists
    <3>2. pc'[c] = "tx_select" /\ LocalTypes' /\ OthersKeep(c) /\ lock' = lock /\ lock' # c
      BY <3>1, GoesOn DEF Points
    <3> QED
      BY <3>1, <3>2, <1>2 DEF After, Control, OpsAt, locals, AssetOps
  <2>2. CASE datasets[target[c]] # NoRow
    BY <1>6, <2>2, Finished DEF Exists, Answers
  <2> QED
    BY <2>1, <2>2
<1>7. CASE Get(c)
  <2> DEFINE row == datasets[target[c]]
  <2>0. pc[c] = "get" /\ lock # c /\ target[c] \in Assets
    BY <1>7, <1>2, NoLock DEF Get, Control, OpsAt, AssetOps
  <2>1. CASE row # NoRow /\ row.kind = req[c].kind
    <3>1. PICK p \in {"get_again", "tx_select"} :
            /\ Goto(c, p) /\ (p = "get_again" <=> req[c].op = "delete_asset")
            /\ Became(seen, c, [seen[c] EXCEPT ![target[c]] = row])
            /\ UNCHANGED <<lock, snap, found, target, tries, begun, out, req>>
      BY <1>7, <2>1 DEF Get
    <3>2. row \in Row
      BY <2>0, <2>1, <1>1
    <3> HIDE DEF row
    <3>3. pc'[c] = p /\ LocalTypes' /\ OthersKeep(c) /\ seen'[c][target[c]] = row
      BY <3>1, <3>2, <2>0, <1>1 DEF Goto, Became, LocalTypes, OthersKeep, Points
    <3> QED
      BY <3>1, <3>2, <3>3, <2>0, <1>2 DEF After, Control, OpsAt, AssetOps
  <2>2. CASE ~(row # NoRow /\ row.kind = req[c].kind)
    BY <1>7, <2>2, Finished DEF Get, Answers
  <2> QED
    BY <2>1, <2>2
<1>8. CASE GetAgain(c)
  <2>1. CASE datasets[target[c]] # NoRow
    <3>1. Goto(c, "tx_delete") /\ UNCHANGED <<lock, locals, out, req>> /\ pc[c] = "get_again"
      BY <1>8, <2>1 DEF GetAgain
    <3>2. pc'[c] = "tx_delete" /\ LocalTypes' /\ OthersKeep(c) /\ lock' = lock /\ lock' # c
      BY <3>1, GoesOn DEF Points
    <3> QED
      BY <3>1, <3>2, <1>2 DEF After, Control, OpsAt, locals, AssetOps
  <2>2. CASE datasets[target[c]] = NoRow
    BY <1>8, <2>2, Finished DEF GetAgain, Answers
  <2> QED
    BY <2>1, <2>2
<1> QED
  BY <1>3, <1>4, <1>5, <1>6, <1>7, <1>8

\* After the write of an asset.
LEMMA WroteMoves ==
    ASSUME NEW c \in Clients, ControlInv, pc[c] = "tx_write", AfterWrite(c), UNCHANGED req
    PROVE  After(c) /\ pc'[c] \in {"idle", "cascade"}
<1>1. LocalTypes /\ Control(c) /\ lock # c
  BY NoLock DEF ControlInv, Typed, TypeOK, LocalTypes
<1> DEFINE rest == [seen[c] EXCEPT ![target[c]] = NoRow]
<1>2. CASE req[c].op = "delete_label" /\ rest # Unseen
  <2>1. /\ Became(seen, c, rest) /\ Became(found, c, NoRow) /\ Goto(c, "cascade")
        /\ UNCHANGED <<lock, snap, target, tries, begun, out>>
    BY <1>2 DEF AfterWrite
  <2>2. rest \in [Assets -> Row \cup {NoRow}]
    BY <1>1 DEF LocalTypes
  <2> HIDE DEF rest
  <2>3. pc'[c] = "cascade" /\ LocalTypes' /\ OthersKeep(c)
    BY <2>1, <2>2, <1>1 DEF Goto, Became, LocalTypes, OthersKeep, Points
  <2> QED
    BY <2>1, <2>3, <1>1, <1>2 DEF After, Control, OpsAt, AssetOps
<1>3. CASE ~(req[c].op = "delete_label" /\ rest # Unseen)
  BY <1>3, Finished DEF AfterWrite, Answers
<1> QED
  BY <1>2, <1>3

\* The transactions that write an asset.
LEMMA TxMoves ==
    ASSUME NEW c \in Clients, ControlInv,
           TxSelect(c) \/ TxSame(c) \/ TxUpdate(c) \/ TxInsert(c) \/ TxDelete(c)
    PROVE  After(c)
<1>1. LocalTypes /\ datasets \in [Assets -> Row \cup {NoRow}] /\ Control(c)
  BY DEF ControlInv, Typed, TypeOK, LocalTypes
<1>2. CASE TxSelect(c)
  <2> DEFINE row == datasets[target[c]]
  <2>0. pc[c] = "tx_select" /\ lock # c /\ target[c] \in Assets
    BY <1>1, <1>2, NoLock DEF TxSelect, Control
  <2>1. CASE ~(req[c].op = "create_asset" /\ row # NoRow)
    <3>1. Became(found, c, row) /\ Goto(c, "tx_write")
          /\ UNCHANGED <<lock, snap, seen, target, tries, begun, out, req>>
      BY <1>2, <2>1 DEF TxSelect
    <3>2. row \in Row \cup {NoRow}
      BY <2>0, <1>1
    <3> HIDE DEF row
    <3>3. pc'[c] = "tx_write" /\ LocalTypes' /\ OthersKeep(c) /\ found'[c] = row
      BY <3>1, <3>2, <1>1 DEF Goto, Became, LocalTypes, OthersKeep, Points
    <3> QED
      BY <3>1, <3>3, <2>0, <2>1, <1>1 DEF After, Control, OpsAt
  <2>2. CASE req[c].op = "create_asset" /\ row # NoRow
    BY <1>2, <2>2, Finished DEF TxSelect, Answers
  <2> QED
    BY <2>1, <2>2
<1>3. CASE TxSame(c)
  BY <1>3, WroteMoves DEF TxSame
<1>4. CASE TxUpdate(c)
  BY <1>4, WroteMoves DEF TxUpdate
<1>5. CASE TxInsert(c)
  <2>1. pc[c] = "tx_write" /\ UNCHANGED req /\ (AfterWrite(c) \/ Finish(c, "exists"))
    BY <1>5 DEF TxInsert
  <2> QED
    BY <2>1, WroteMoves, Finished DEF Answers
<1>6. CASE TxDelete(c)
  <2>1. UNCHANGED req /\ (Finish(c, "ok") \/ Finish(c, "missing"))
    BY <1>6 DEF TxDelete
  <2> QED
    BY <2>1, Finished DEF Answers
<1> QED
  BY <1>2, <1>3, <1>4, <1>5, <1>6

\* The statements of the label requests, of delete_feature_view, and a crash.
LEMMA OtherMoves ==
    ASSUME NEW c \in Clients, ControlInv,
           \/ Discover(c) \/ Lookup(c) \/ ListAssets(c) \/ Cascade(c)
           \/ GetProject(c) \/ Reapply(c) \/ Crash(c)
    PROVE  After(c)
<1>1. LocalTypes /\ datasets \in [Assets -> Row \cup {NoRow}] /\ Control(c) /\ writes \in Nat
      /\ project \in ProjectRow \cup {NoRow} /\ MaxAttempts \in Nat \ {0}
  BY AttemptsAssumption DEF ControlInv, Typed, TypeOK, LocalTypes
<1>2. \A l : WithLabel(l) \in [Assets -> Row \cup {NoRow}]
  BY <1>1 DEF WithLabel
<1>3. CASE Discover(c)
  <2>1. pc[c] = "discover" /\ Became(seen, c, WithLabel(req[c].label)) /\ Goto(c, "select")
        /\ Became(tries, c, 0) /\ Became(begun, c, writes)
        /\ UNCHANGED <<lock, snap, found, target, out, req>>
    BY <1>3 DEF Discover, CallMutate, store
  <2>2. lock # c
    BY <2>1, NoLock
  <2>3. pc'[c] = "select" /\ LocalTypes' /\ OthersKeep(c)
    BY <2>1, <1>1, <1>2 DEF Goto, Became, LocalTypes, OthersKeep, Points
  <2> QED
    BY <2>1, <2>2, <2>3, <1>1 DEF After, Control, OpsAt, AssetOps, MutatorOps
<1>4. CASE Lookup(c)
  <2>1. pc[c] = "lookup" /\ Became(snap, c, project) /\ Goto(c, "list")
        /\ UNCHANGED <<lock, seen, found, target, tries, begun, out, req>>
    BY <1>4 DEF Lookup, store
  <2>2. lock # c
    BY <2>1, NoLock
  <2>3. pc'[c] = "list" /\ LocalTypes' /\ OthersKeep(c)
    BY <2>1, <1>1 DEF Goto, Became, LocalTypes, OthersKeep, Points
  <2> QED
    BY <2>1, <2>2, <2>3, <1>1 DEF After, Control, OpsAt, AssetOps
<1>5. CASE ListAssets(c)
  <2> DEFINE l == req[c].label
             explicit == snap[c] # NoRow /\ l \in snap[c].labels
  <2>0. pc[c] = "list" /\ lock # c /\ UNCHANGED req
    BY <1>5, NoLock DEF ListAssets
  <2>1. CASE explicit \/ WithLabel(l) # Unseen
    <3>1. /\ Became(seen, c, WithLabel(l)) /\ Became(snap, c, NoRow)
          /\ IF explicit THEN CallMutate(c) ELSE Goto(c, "cascade") /\ UNCHANGED <<tries, begun>>
          /\ UNCHANGED <<lock, found, target, out>>
      BY <1>5, <2>1 DEF ListAssets
    <3>2. pc'[c] \in {"select", "cascade"} /\ LocalTypes' /\ OthersKeep(c)
      <4> HIDE DEF explicit
      <4>1. WithLabel(l) \in [Assets -> Row \cup {NoRow}]
        BY <1>2
      <4>2. CASE explicit
        <5>1. /\ Goto(c, "select") /\ Became(tries, c, 0) /\ Became(begun, c, writes)
              /\ Became(seen, c, WithLabel(l)) /\ Became(snap, c, NoRow)
              /\ UNCHANGED <<lock, found, target, out, req>>
          BY <4>2, <3>1, <2>0 DEF CallMutate
        <5>2. 0 \in 0 .. MaxAttempts - 1
          BY <1>1
        <5>3. pc'[c] = "select" /\ LocalTypes'
          BY <5>1, <5>2, <4>1, <1>1 DEF Goto, Became, LocalTypes, Points
        <5>4. OthersKeep(c)
          BY <5>1, <1>1 DEF Goto, Became, LocalTypes, OthersKeep
        <5> QED
          BY <5>3, <5>4
      <4>3. CASE ~explicit
        BY <4>1, <4>3, <3>1, <2>0, <1>1 DEF Goto, Became, LocalTypes, OthersKeep, Points
      <4> QED
        BY <4>2, <4>3
    <3> QED
      BY <3>1, <3>2, <2>0, <1>1 DEF After, Control, OpsAt, AssetOps, MutatorOps
  <2>2. CASE ~explicit /\ WithLabel(l) = Unseen
    <3>1. Finish(c, "missing")
      BY <1>5, <2>2 DEF ListAssets
    <3> QED
      BY <3>1, <2>0, Finished DEF Answers
  <2> QED
    BY <2>1, <2>2
<1>6. CASE Cascade(c)
  <2>1. PICK a \in Assets : seen[c][a] # NoRow /\ Became(target, c, a)
    BY <1>6 DEF Cascade
  <2>2. pc[c] = "cascade" /\ Goto(c, "tx_select")
        /\ UNCHANGED <<lock, snap, seen, found, tries, begun, out, req>>
    BY <1>6 DEF Cascade, store
  <2>3. lock # c
    BY <2>2, NoLock
  <2>4. pc'[c] = "tx_select" /\ LocalTypes' /\ OthersKeep(c) /\ target'[c] = a
    BY <2>1, <2>2, <1>1 DEF Goto, Became, LocalTypes, OthersKeep, Points
  <2>5. seen[c][a] \in Row
    BY <2>1, <1>1 DEF LocalTypes
  <2> QED
    BY <2>2, <2>3, <2>4, <2>5, <1>1 DEF After, Control, OpsAt, AssetOps
<1>7. CASE GetProject(c)
  <2>1. CASE project # NoRow
    <3>1. pc[c] = "get_project" /\ Became(snap, c, project) /\ Goto(c, "reapply")
          /\ UNCHANGED <<lock, seen, found, target, tries, begun, out, req>>
      BY <1>7, <2>1 DEF GetProject
    <3>2. lock # c
      BY <3>1, NoLock
    <3>3. pc'[c] = "reapply" /\ LocalTypes' /\ OthersKeep(c) /\ snap'[c] \in ProjectRow
      BY <3>1, <2>1, <1>1 DEF Goto, Became, LocalTypes, OthersKeep, Points
    <3> QED
      BY <3>1, <3>2, <3>3, <1>1 DEF After, Control, OpsAt, AssetOps
  <2>2. CASE project = NoRow
    BY <1>7, <2>2, Finished DEF GetProject, Answers
  <2> QED
    BY <2>1, <2>2
<1>8. CASE Reapply(c)
  BY <1>8, Finished DEF Reapply, Answers
<1>9. CASE Crash(c)
  BY <1>9, Finished DEF Crash, Answers
<1> QED
  BY <1>3, <1>4, <1>5, <1>6, <1>7, <1>8, <1>9

\* Every step of a client.
LEMMA StepMoves ==
    ASSUME NEW c \in Clients, ControlInv, Start(c) \/ Step(c) \/ Crash(c)
    PROVE  After(c)
  BY StartMoves, MutateMoves, AssetMoves, TxMoves, OtherMoves DEF Step

\* Which statement comes after which, for the ones a later argument depends on.
LEMMA Edges ==
    ASSUME NEW c \in Clients, ControlInv, Start(c) \/ Step(c) \/ Crash(c)
    PROVE  /\ pc'[c] = "mutate" => Select(c) \/ Insert(c)
           /\ pc'[c] = "swap" => Mutate(c)
           /\ pc'[c] = "reapply" => GetProject(c)
           /\ pc'[c] = "exists" => Ensure(c) \/ Swap(c)
           /\ pc'[c] = "get_again" => Get(c)
           /\ pc'[c] = "tx_select" => Exists(c) \/ Get(c) \/ Cascade(c)
           /\ pc'[c] = "tx_write" => TxSelect(c)
           /\ pc'[c] = "tx_delete" => GetAgain(c)
           /\ pc'[c] = "list" => Lookup(c)
           /\ pc'[c] = "select" => \/ Start(c) \/ Retry(c) \/ Ensure(c)
                                   \/ Discover(c) \/ ListAssets(c)
           /\ pc'[c] = "cascade" => \/ Swap(c) \/ ListAssets(c)
                                    \/ TxSame(c) \/ TxUpdate(c) \/ TxInsert(c)
<1>0. pc \in [Clients -> Points]
  BY DEF ControlInv, Typed
<1>1. Start(c) => pc'[c] \in {"select", "validate", "discover", "lookup", "get_project"}
  BY <1>0 DEF Start, Goto
<1>2. Select(c) => pc'[c] \in {"mutate", "insert", "idle"}
  BY <1>0 DEF Select, Goto, Finish
<1>3. Insert(c) => pc'[c] \in {"mutate"}
  BY <1>0 DEF Insert, Goto
<1>4. Mutate(c) => pc'[c] \in {"swap", "idle"}
  BY <1>0 DEF Mutate, Goto, Finish
<1>5. Swap(c) => pc'[c] \in {"exists", "cascade", "idle"}
  BY <1>0 DEF Swap, AfterMutate, Goto, Finish
<1>6. Retry(c) => pc'[c] \in {"select", "idle"}
  BY <1>0 DEF Retry, Goto, Finish
<1>7. Validate(c) => pc'[c] \in {"ensure", "get", "validate_assets"}
  BY <1>0 DEF Validate, Goto
<1>8. ValidateAssets(c) => pc'[c] \in {"ensure", "get", "idle"}
  BY <1>0 DEF ValidateAssets, Goto, Finish
<1>9. Ensure(c) => pc'[c] \in {"exists", "select"}
  BY <1>0 DEF Ensure, CallMutate, Goto
<1>10. Exists(c) => pc'[c] \in {"tx_select", "idle"}
  BY <1>0 DEF Exists, Goto, Finish
<1>11. Get(c) => pc'[c] \in {"get_again", "tx_select", "idle"}
  BY <1>0 DEF Get, Goto, Finish
<1>12. GetAgain(c) => pc'[c] \in {"tx_delete", "idle"}
  BY <1>0 DEF GetAgain, Goto, Finish
<1>13. TxSelect(c) => pc'[c] \in {"tx_write", "idle"}
  BY <1>0 DEF TxSelect, Goto, Finish
<1>14. TxSame(c) => pc'[c] \in {"cascade", "idle"}
  BY <1>0 DEF TxSame, AfterWrite, Goto, Finish
<1>15. TxUpdate(c) => pc'[c] \in {"cascade", "idle"}
  BY <1>0 DEF TxUpdate, AfterWrite, Goto, Finish
<1>16. TxInsert(c) => pc'[c] \in {"cascade", "idle"}
  BY <1>0 DEF TxInsert, AfterWrite, Goto, Finish
<1>17. TxDelete(c) => pc'[c] \in {"idle"}
  BY <1>0 DEF TxDelete, Goto, Finish
<1>18. Discover(c) => pc'[c] \in {"select"}
  BY <1>0 DEF Discover, CallMutate, Goto
<1>19. Lookup(c) => pc'[c] \in {"list"}
  BY <1>0 DEF Lookup, Goto
<1>20. ListAssets(c) => pc'[c] \in {"select", "cascade", "idle"}
  BY <1>0 DEF ListAssets, CallMutate, Goto, Finish
<1>21. Cascade(c) => pc'[c] \in {"tx_select"}
  BY <1>0 DEF Cascade, Goto
<1>22. GetProject(c) => pc'[c] \in {"reapply", "idle"}
  BY <1>0 DEF GetProject, Goto, Finish
<1>23. Reapply(c) => pc'[c] \in {"idle"}
  BY <1>0 DEF Reapply, Goto, Finish
<1>24. Crash(c) => pc'[c] \in {"idle"}
  BY <1>0 DEF Crash, Goto, Finish
<1> QED
  BY <1>1, <1>2, <1>3, <1>4, <1>5, <1>6, <1>7, <1>8, <1>9, <1>10, <1>11, <1>12, <1>13, <1>14, <1>15, <1>16, <1>17, <1>18, <1>19, <1>20, <1>21, <1>22, <1>23, <1>24 DEF Step

\* Most statements write neither the Project row nor an asset.
LEMMA QuietSteps ==
    ASSUME NEW c \in Clients, Start(c) \/ Step(c) \/ Crash(c),
           ~Swap(c), ~Reapply(c), ~TxUpdate(c), ~TxInsert(c), ~TxDelete(c)
    PROVE  UNCHANGED <<project, datasets, writes, created, deleted>>
<1>1. CASE Start(c)
  BY <1>1 DEF Start, store
<1>2. CASE Select(c)
  BY <1>2 DEF Select, store
<1>3. CASE Insert(c)
  BY <1>3 DEF Insert, store
<1>4. CASE Mutate(c)
  BY <1>4 DEF Mutate, store
<1>5. CASE Retry(c)
  BY <1>5 DEF Retry, store
<1>6. CASE Validate(c)
  BY <1>6 DEF Validate, store
<1>7. CASE ValidateAssets(c)
  BY <1>7 DEF ValidateAssets, store
<1>8. CASE Ensure(c)
  BY <1>8 DEF Ensure, store
<1>9. CASE Exists(c)
  BY <1>9 DEF Exists, store
<1>10. CASE Get(c)
  BY <1>10 DEF Get, store
<1>11. CASE GetAgain(c)
  BY <1>11 DEF GetAgain, store
<1>12. CASE TxSelect(c)
  BY <1>12 DEF TxSelect, store
<1>13. CASE TxSame(c)
  BY <1>13 DEF TxSame, store
<1>14. CASE Discover(c)
  BY <1>14 DEF Discover, store
<1>15. CASE Lookup(c)
  BY <1>15 DEF Lookup, store
<1>16. CASE ListAssets(c)
  BY <1>16 DEF ListAssets, store
<1>17. CASE Cascade(c)
  BY <1>17 DEF Cascade, store
<1>18. CASE GetProject(c)
  BY <1>18 DEF GetProject, store
<1>19. CASE Crash(c)
  BY <1>19 DEF Crash, store
<1> QED
  BY <1>1, <1>2, <1>3, <1>4, <1>5, <1>6, <1>7, <1>8, <1>9, <1>10, <1>11, <1>12, <1>13, <1>14, <1>15, <1>16, <1>17, <1>18, <1>19 DEF Step

\* What the write of an asset does to the assets, the Project row and the counts.
Wrote(c) ==
    LET t == target[c] IN
    /\ pc[c] \in {"tx_write", "tx_delete"} /\ t \in Assets
    /\ Touch \/ UNCHANGED <<project, writes, datasets>>
    /\ datasets' \in [Assets -> Row \cup {NoRow}]
    /\ created' \in [Assets -> Nat] /\ deleted' \in [Assets -> Nat]
    /\ \A a \in Assets \ {t} : /\ datasets'[a] = datasets[a]
                               /\ created'[a] = created[a] /\ deleted'[a] = deleted[a]
    /\ \/ /\ datasets[t] = NoRow /\ datasets'[t] # NoRow
          /\ created'[t] \in {created[t], created[t] + 1} /\ deleted'[t] = deleted[t]
       \/ /\ datasets[t] # NoRow /\ datasets'[t] = NoRow
          /\ created'[t] = created[t] /\ deleted'[t] = deleted[t] + 1
       \/ /\ (datasets'[t] = NoRow) <=> (datasets[t] = NoRow)
          /\ created'[t] = created[t] /\ deleted'[t] = deleted[t]

\* The three statements that write an asset do that.
LEMMA AssetWrites ==
    ASSUME NEW c \in Clients, ControlInv, TxUpdate(c) \/ TxInsert(c) \/ TxDelete(c)
    PROVE  Wrote(c)
<1>1. /\ datasets \in [Assets -> Row \cup {NoRow}]
      /\ created \in [Assets -> Nat] /\ deleted \in [Assets -> Nat] /\ Control(c)
  BY DEF ControlInv, Typed, TypeOK
<1>2. NoRow \notin Row
  BY ValuesAssumption
<1>3. CASE TxUpdate(c) \/ TxInsert(c)
  <2>1. pc[c] = "tx_write" /\ target[c] \in Assets /\ deleted' = deleted
    BY <1>1, <1>3 DEF TxUpdate, TxInsert, Control
  <2>2. NewRow(c) \in Row /\ NewRow(c) # NoRow
    BY <2>1, NewRowType DEF ControlInv
  <2>3. CASE TxUpdate(c)
    <3>1. req[c].op # "create_asset"
      BY <1>1, <2>1, <2>3 DEF TxUpdate, Control
    <3>2. created' = created /\ Touch
      BY <3>1, <2>3 DEF TxUpdate, Answered
    <3>3. datasets' = (IF datasets[target[c]] = NoRow THEN datasets
                       ELSE [datasets EXCEPT ![target[c]] = NewRow(c)])
      BY <2>3 DEF TxUpdate
    <3> QED
      BY <3>2, <3>3, <2>1, <2>2, <1>1 DEF Wrote
  <2>4. CASE TxInsert(c)
    <3>1. CASE datasets[target[c]] = NoRow
      <4>1. datasets' = [datasets EXCEPT ![target[c]] = NewRow(c)] /\ Answered(c) /\ Touch
        BY <3>1, <2>4 DEF TxInsert
      <4>2. CASE req[c].op = "create_asset"
        <5>1. created' = [created EXCEPT ![target[c]] = created[target[c]] + 1]
          BY <4>1, <4>2 DEF Answered
        <5> QED
          BY <5>1, <4>1, <3>1, <2>1, <2>2, <1>1 DEF Wrote
      <4>3. CASE req[c].op # "create_asset"
        <5>1. created' = created
          BY <4>1, <4>3 DEF Answered
        <5> QED
          BY <5>1, <4>1, <3>1, <2>1, <2>2, <1>1 DEF Wrote
      <4> QED
        BY <4>2, <4>3
    <3>2. CASE datasets[target[c]] # NoRow
      <4>1. UNCHANGED <<datasets, created>> /\ (Touch \/ UNCHANGED <<project, writes, datasets>>)
        BY <3>2, <2>4 DEF TxInsert
      <4> QED
        BY <4>1, <3>2, <2>1, <1>1 DEF Wrote
    <3> QED
      BY <3>1, <3>2
  <2> QED
    BY <1>3, <2>3, <2>4
<1>4. CASE TxDelete(c)
  <2>1. pc[c] = "tx_delete" /\ target[c] \in Assets /\ created' = created
    BY <1>1, <1>4 DEF TxDelete, Control, OpsAt, AssetOps
  <2>2. CASE datasets[target[c]] # NoRow
    <3>1. /\ datasets' = [datasets EXCEPT ![target[c]] = NoRow] /\ Touch
          /\ deleted' = [deleted EXCEPT ![target[c]] = deleted[target[c]] + 1]
      BY <1>4, <2>2 DEF TxDelete
    <3> QED
      BY <3>1, <2>1, <2>2, <1>1 DEF Wrote
  <2>3. CASE datasets[target[c]] = NoRow
    <3>1. UNCHANGED <<project, writes, datasets, deleted>>
      BY <1>4, <2>3 DEF TxDelete
    <3> QED
      BY <3>1, <2>1, <2>3, <1>1 DEF Wrote
  <2> QED
    BY <2>2, <2>3
<1> QED
  BY <1>3, <1>4

\* Every step leaves the Project row alone or gives it a new stamp; the row is not
\* created but by the client that has inserted it.
LEMMA RowMoves ==
    ASSUME NEW c \in Clients, ControlInv, Start(c) \/ Step(c) \/ Crash(c)
    PROVE  /\ project' \in ProjectRow \cup {NoRow} /\ writes' \in Nat
           /\ \/ project' = project /\ writes' = writes
              \/ /\ project' \in ProjectRow /\ project' # NoRow
                 /\ project'.stamp = writes + 1 /\ writes' = writes + 1
                 /\ project # NoRow \/ lock = c
<1>1. project \in ProjectRow \cup {NoRow} /\ writes \in Nat /\ Control(c) /\ Based(c)
  BY DEF ControlInv, Typed, TypeOK
<1>2. CASE Swap(c)
  <2>1. pc[c] = "swap" /\ SwapHits(c) /\ WriteProject(Mutated(req[c], snap[c]))
    BY <1>2 DEF Swap
  <2>2. Mutated(req[c], snap[c]) \in ProjectRow
    BY <2>1, <1>1, MutatedRow DEF Control
  <2>3. PICK row \in ProjectRow : row = Mutated(req[c], snap[c])
    BY <2>2
  <2>4. WriteProject(row)
    BY <2>1, <2>3 DEF WriteProject
  <2> QED
    BY <2>1, <2>4, <1>1, WrittenRow DEF Based
<1>3. CASE Reapply(c)
  <2>1. CASE project = snap[c]
    BY <2>1, <1>1, <1>3 DEF Reapply
  <2>2. CASE project # snap[c]
    <3>1. pc[c] = "reapply" /\ WriteProject(snap[c]) /\ snap[c] \in ProjectRow
      BY <2>2, <1>1, <1>3 DEF Reapply, Control
    <3>2. PICK row \in ProjectRow : row = snap[c]
      BY <3>1
    <3>3. WriteProject(row)
      BY <3>1, <3>2 DEF WriteProject
    <3> QED
      BY <3>1, <3>3, <1>1, WrittenRow DEF Based
  <2> QED
    BY <2>1, <2>2
<1>4. CASE TxUpdate(c) \/ TxInsert(c) \/ TxDelete(c)
  <2>1. Touch \/ UNCHANGED <<project, writes>>
    BY <1>4, AssetWrites DEF Wrote
  <2>2. CASE Touch
    BY <2>2, <1>1, TouchedRow
  <2> QED
    BY <2>1, <2>2, <1>1
<1>5. CASE ~(Swap(c) \/ Reapply(c) \/ TxUpdate(c) \/ TxInsert(c) \/ TxDelete(c))
  BY <1>5, <1>1, QuietSteps
<1> QED
  BY <1>2, <1>3, <1>4, <1>5

\* A client holds a Project row only when there is one, committed or its own.
LEMMA BasedMoves ==
    ASSUME NEW c \in Clients, ControlInv, Start(c) \/ Step(c) \/ Crash(c)
    PROVE  Based(c)'
<1>1. pc \in [Clients -> Points] /\ Based(c) /\ lock \in Clients \cup {Nobody}
  BY DEF ControlInv, Typed, TypeOK
<1>2. project # NoRow => project' # NoRow
  BY RowMoves
<1>3. CASE pc'[c] = "mutate"
  <2>1. CASE Select(c)
    <3>1. project # NoRow
      BY <2>1, <1>1, <1>3 DEF Select, Goto, Finish
    <3> QED
      BY <3>1, <1>2 DEF Based
  <2>2. CASE Insert(c)
    BY <2>2, <1>2 DEF Insert, Based
  <2> QED
    BY <1>3, <2>1, <2>2, Edges
<1>4. CASE pc'[c] = "swap"
  <2>1. Mutate(c)
    BY <1>4, Edges
  <2>2. pc[c] = "mutate" /\ lock' = lock
    BY <2>1, <1>1, <1>4 DEF Mutate, Finish, Goto
  <2> QED
    BY <2>2, <1>1, <1>2 DEF Based
<1>5. CASE pc'[c] = "reapply"
  <2>1. GetProject(c)
    BY <1>5, Edges
  <2>2. project # NoRow
    BY <2>1, <1>1, <1>5 DEF GetProject, Finish, Goto
  <2> QED
    BY <2>2, <1>2 DEF Based
<1> QED
  BY <1>3, <1>4, <1>5 DEF Based

\* Types and control are invariant.
LEMMA ControlInit == Init => ControlInv
<1> SUFFICES ASSUME Init PROVE ControlInv
  OBVIOUS
<1>1. project \in ProjectRow \cup {NoRow} /\ datasets \in [Assets -> Row \cup {NoRow}]
  <2>1. CASE project = NoRow /\ datasets = Unseen
    BY <2>1 DEF Unseen
  <2>2. CASE project # NoRow \/ datasets # Unseen
    <3>1. PICK C \in SUBSET (Collections \ {Default}), L \in SUBSET Labels :
         /\ project = [ns |-> [k \in Collections |-> IF k \in C THEN {} ELSE Absent],
                       labels |-> L, protected |-> TRUE, stamp |-> 0]
         /\ datasets \in [Assets -> [kind : Kinds, labels : {Labels}, id : {1}] \cup {NoRow}]
      BY <2>2 DEF Init, InitStore
    <3>2. project \in ProjectRow
      BY <3>1 DEF ProjectRow, NsMeta
    <3>3. [kind : Kinds, labels : {Labels}, id : {1}] \subseteq Row
      BY DEF Row
    <3> QED
      BY <3>1, <3>2, <3>3
  <2> QED
    BY <2>1, <2>2
<1>2. created \in [Assets -> Nat] /\ deleted \in [Assets -> Nat]
  BY DEF Init
<1>3. Unseen \in [Assets -> Row \cup {NoRow}] /\ 0 \in 0 .. MaxAttempts - 1 /\ 0 \in 0 .. MaxRequests
  BY AttemptsAssumption, BoundAssumption DEF Unseen
<1>4. Typed
  BY <1>1, <1>2, <1>3 DEF Init, Typed, TypeOK, Points, Answers
<1>5. \A c \in Clients : Control(c) /\ Based(c)
  BY ValuesAssumption DEF Init, Control, Based
<1> QED
  BY <1>4, <1>5 DEF ControlInv

\* Every step keeps types and control.
LEMMA ControlStep == ControlInv /\ [Next]_vars => ControlInv'
<1> SUFFICES ASSUME ControlInv, [Next]_vars PROVE ControlInv'
  OBVIOUS
<1>1. CASE UNCHANGED vars
  <2>1. UNCHANGED <<project, datasets, lock, writes, pc, req, snap, seen, found, target, tries,
                    begun, out, alone, created, deleted, started>>
    BY <1>1 DEF vars, store, locals
  <2>2. Typed'
    BY <2>1 DEF ControlInv, Typed, TypeOK
  <2>3. \A c \in Clients : (Control(c) <=> Control(c)') /\ (Based(c) <=> Based(c)')
    BY <2>1 DEF Control, Based
  <2> QED
    BY <2>2, <2>3 DEF ControlInv
<1>2. CASE Next
  <2>1. PICK c \in Clients : Start(c) \/ Step(c) \/ Crash(c)
    BY <1>2 DEF Next
  <2>2. After(c) /\ Based(c)'
    BY <2>1, StepMoves, BasedMoves
  <2>3. project' \in ProjectRow \cup {NoRow} /\ writes' \in Nat
        /\ (project # NoRow => project' # NoRow)
    BY <2>1, RowMoves
  <2>4. \A d \in Clients \ {c} : Control(d)' /\ Based(d)'
    <3> SUFFICES ASSUME NEW d \in Clients, d # c PROVE Control(d)' /\ Based(d)'
      OBVIOUS
    <3>1. /\ pc'[d] = pc[d] /\ req'[d] = req[d] /\ snap'[d] = snap[d] /\ seen'[d] = seen[d]
          /\ found'[d] = found[d] /\ target'[d] = target[d] /\ tries'[d] = tries[d]
          /\ (lock' = d) <=> (lock = d)
      BY <2>2 DEF After, OthersKeep
    <3>2. Control(d) /\ Based(d)
      BY DEF ControlInv
    <3>3. Control(d)'
      BY <3>1, <3>2 DEF Control
    <3> QED
      BY <3>1, <3>2, <3>3, <2>3 DEF Based
  <2>5. datasets' \in [Assets -> Row \cup {NoRow}] /\ created' \in [Assets -> Nat]
        /\ deleted' \in [Assets -> Nat]
    <3>0. datasets \in [Assets -> Row \cup {NoRow}] /\ created \in [Assets -> Nat]
          /\ deleted \in [Assets -> Nat]
      BY DEF ControlInv, Typed, TypeOK
    <3>1. CASE TxUpdate(c) \/ TxInsert(c) \/ TxDelete(c)
      BY <3>1, AssetWrites DEF Wrote
    <3>2. CASE Swap(c) \/ Reapply(c)
      BY <3>0, <3>2 DEF Swap, Reapply
    <3>3. CASE ~(Swap(c) \/ Reapply(c) \/ TxUpdate(c) \/ TxInsert(c) \/ TxDelete(c))
      BY <3>0, <3>3, <2>1, QuietSteps
    <3> QED
      BY <3>1, <3>2, <3>3
  <2>6. started' \in 0 .. MaxRequests /\ alone' \in [Clients -> BOOLEAN]
    <3>0. started \in 0 .. MaxRequests /\ alone \in [Clients -> BOOLEAN] /\ MaxRequests \in Nat
      BY BoundAssumption DEF ControlInv, Typed, TypeOK
    <3>1. CASE Start(c)
      <4>1. started' \in 0 .. MaxRequests
        BY <3>0, <3>1 DEF Start
      <4>2. alone' = [d \in Clients |-> IF d = c THEN \A e \in Clients : pc[e] = "idle"
                                        ELSE alone[d] /\ pc[d] = "idle"]
        BY <3>1 DEF Start
      <4>3. alone' \in [Clients -> BOOLEAN]
        BY <4>2
      <4> QED
        BY <4>1, <4>3
    <3>2. CASE Step(c) \/ Crash(c)
      <4>1. started' = started /\ alone' = alone
        BY <3>2 DEF Step, Crash, Select, Insert, Mutate, Swap, Retry, Validate, ValidateAssets,
              Ensure, Exists, Get, GetAgain, TxSelect, TxSame, TxUpdate, TxInsert, TxDelete,
              Discover, Lookup, ListAssets, Cascade, GetProject, Reapply
      <4> QED
        BY <4>1, <3>0
    <3> QED
      BY <2>1, <3>1, <3>2
  <2>7. lock' \in Clients \cup {Nobody}
    BY <2>2 DEF After, ControlInv, Typed, TypeOK
  <2>8. lock' # Nobody => project' = NoRow /\ pc'[lock'] \in {"mutate", "swap"}
    <3> SUFFICES ASSUME lock' # Nobody
                 PROVE  project' = NoRow /\ pc'[lock'] \in {"mutate", "swap"}
      OBVIOUS
    <3>0. lock # Nobody => project = NoRow /\ pc[lock] \in {"mutate", "swap"}
      BY DEF ControlInv, Typed, TypeOK
    <3>1. CASE lock' # c
      <4>1. lock' = lock /\ lock \in Clients /\ lock # c /\ pc'[lock'] = pc[lock]
        BY <3>1, <2>2, <2>7 DEF After, OthersKeep
      <4>2. project' = project
        BY <4>1, <3>0, <2>1, RowMoves
      <4> QED
        BY <4>1, <4>2, <3>0
    <3>2. CASE lock' = c
      <4>1. pc'[c] \in {"mutate", "swap"}
        BY <3>2, <2>2 DEF After
      <4>2. Select(c) \/ Insert(c) \/ Mutate(c)
        BY <4>1, <2>1, Edges
      <4>3. project = NoRow
        BY <4>2, <3>0, <3>2, <2>7 DEF Select, Insert, Mutate, Finish
      <4>4. project' = project
        BY <4>2 DEF Select, Insert, Mutate
      <4> QED
        BY <4>1, <4>3, <4>4, <3>2
    <3> QED
      BY <3>1, <3>2
  <2>9. Typed'
    BY <2>2, <2>3, <2>5, <2>6, <2>7, <2>8 DEF Typed, TypeOK, After, LocalTypes
  <2> QED
    BY <2>2, <2>4, <2>9 DEF ControlInv, After
<1> QED
  BY <1>1, <1>2

\* The data catalog keeps its types, and an uncommitted INSERT of the Project row
\* belongs to the one client whose mutator runs on it while no row is committed
\* (mutate_project).
THEOREM TypeCorrect == Spec => []TypeOK
<1>1. ControlInv => TypeOK
  BY DEF ControlInv, Typed
<1> QED
  BY ControlInit, ControlStep, <1>1, PTL DEF Spec

-------------------------------------------------------------------------------
(* Creates and deletes of an asset *)

\* Creates and deletes are balanced at the beginning.
LEMMA BalancedInit == Init => Balanced
  BY DEF Init, Balanced

\* Every step keeps them balanced: an insert finds no row, a delete finds one.
LEMMA BalancedStep == ControlInv /\ Balanced /\ [Next]_vars => Balanced'
<1> SUFFICES ASSUME ControlInv, Balanced, [Next]_vars PROVE Balanced'
  OBVIOUS
<1>1. CASE UNCHANGED vars
  BY <1>1 DEF Balanced, vars, store
<1>2. CASE Next
  <2>1. PICK c \in Clients : Start(c) \/ Step(c) \/ Crash(c)
    BY <1>2 DEF Next
  <2>2. CASE TxUpdate(c) \/ TxInsert(c) \/ TxDelete(c)
    <3>1. Wrote(c)
      BY <2>2, AssetWrites
    <3>2. created \in [Assets -> Nat] /\ deleted \in [Assets -> Nat]
      BY DEF ControlInv, Typed
    <3> QED
      BY <3>1, <3>2 DEF Wrote, Balanced
  <2>3. CASE ~(TxUpdate(c) \/ TxInsert(c) \/ TxDelete(c))
    <3>1. UNCHANGED <<datasets, created, deleted>>
      BY <2>1, <2>3, QuietSteps DEF Swap, Reapply
    <3> QED
      BY <3>1 DEF Balanced
  <2> QED
    BY <2>2, <2>3
<1> QED
  BY <1>1, <1>2

\* Of any number of requests that create an asset of one name at the same time, no
\* more are answered with success than the asset has been deleted, and one
\* (insert_catalog_dataset, _apply_object).
THEOREM AssetsAreCreatedOnce == Spec => []CreatedOnce
<1>1. Balanced => CreatedOnce
  BY DEF Balanced, CreatedOnce
<1> QED
  BY ControlInit, ControlStep, BalancedInit, BalancedStep, <1>1, PTL DEF Spec

-------------------------------------------------------------------------------
(* The snapshots that mutate_project compares and swaps *)

\* The snapshot invariant holds at the beginning.
LEMMA FreshInit == Init => StoreOK /\ \A c \in Clients : Fresh(c)
<1> SUFFICES ASSUME Init PROVE StoreOK /\ \A c \in Clients : Fresh(c)
  OBVIOUS
<1>1. StoreOK
  <2>1. writes = 0
    BY DEF Init
  <2>2. (project = NoRow => datasets = Unseen) /\ (project # NoRow => project.stamp = 0)
    <3>1. CASE project = NoRow /\ datasets = Unseen
      BY <3>1
    <3>2. CASE project # NoRow \/ datasets # Unseen
      <4>1. PICK C \in SUBSET (Collections \ {Default}), L \in SUBSET Labels :
             project = [ns |-> [k \in Collections |-> IF k \in C THEN {} ELSE Absent],
                        labels |-> L, protected |-> TRUE, stamp |-> 0]
        BY <3>2 DEF Init, InitStore
      <4>2. project \in ProjectRow
        BY <4>1 DEF ProjectRow, NsMeta
      <4>3. project # NoRow
        BY <4>2, ValuesAssumption
      <4> QED
        BY <4>1, <4>3
    <3> QED
      BY <3>1, <3>2
  <2> QED
    BY <2>1, <2>2 DEF StoreOK
<1>2. \A c \in Clients : Fresh(c)
  <2>1. \A c \in Clients : pc[c] = "idle" /\ begun[c] = 0 /\ tries[c] = 0
    BY DEF Init
  <2>2. writes = 0
    BY DEF Init
  <2> SUFFICES ASSUME NEW c \in Clients PROVE Fresh(c)
    OBVIOUS
  <2>3. begun[c] + tries[c] <= writes
    BY <2>1, <2>2
  <2>4. pc[c] \notin {"mutate", "swap"}
        /\ pc[c] \notin {"exists", "get_again", "tx_select", "tx_write", "tx_delete", "cascade"}
    BY <2>1
  <2> QED
    BY <2>3, <2>4 DEF Fresh
<1> QED
  BY <1>1, <1>2

\* The stamp goes on counting, and no asset is written before there is a Project row.
LEMMA StoreStep ==
    ASSUME NEW c \in Clients, FreshInv, Start(c) \/ Step(c) \/ Crash(c)
    PROVE  StoreOK'
<1>1. ControlInv /\ StoreOK /\ Fresh(c) /\ writes \in Nat
  BY DEF FreshInv, ControlInv, Typed, TypeOK
<1>2. project' # NoRow => project'.stamp = writes'
  BY <1>1, RowMoves DEF StoreOK
<1>3. ASSUME project' = NoRow PROVE writes' = 0 /\ datasets' = Unseen
  <2>1. project = NoRow /\ writes' = writes
    BY <1>1, <1>3, RowMoves
  <2>2. ~(Swap(c) \/ TxUpdate(c) \/ TxInsert(c) \/ TxDelete(c))
    <3>1. pc[c] \notin {"tx_write", "tx_delete"}
      BY <1>1, <2>1 DEF Fresh
    <3>2. ~Swap(c)
      BY <1>1, <1>3, <2>1 DEF Swap, WriteProject
    <3> QED
      BY <3>1, <3>2 DEF TxUpdate, TxInsert, TxDelete
  <2>3. datasets' = datasets
    BY <2>2, QuietSteps DEF Reapply
  <2> QED
    BY <2>1, <2>3, <1>1 DEF StoreOK
<1> QED
  BY <1>2, <1>3 DEF StoreOK

\* The invariant for the client that takes the step.
LEMMA FreshOwn ==
    ASSUME NEW c \in Clients, FreshInv, Start(c) \/ Step(c) \/ Crash(c)
    PROVE  Fresh(c)'
<1>1. /\ ControlInv /\ StoreOK /\ Fresh(c) /\ Control(c) /\ Based(c) /\ LocalTypes
      /\ writes \in Nat /\ lock \in Clients \cup {Nobody} /\ Nobody \notin Clients
      /\ project \in ProjectRow \cup {NoRow} /\ (lock # Nobody => project = NoRow)
      /\ datasets \in [Assets -> Row \cup {NoRow}]
  BY ValuesAssumption DEF FreshInv, ControlInv, Typed, TypeOK, LocalTypes
<1>2. /\ writes' \in Nat /\ writes' >= writes /\ (project # NoRow => project' # NoRow)
      /\ LocalTypes'
  BY <1>1, RowMoves, StepMoves DEF After
<1>3. begun'[c] + tries'[c] <= writes'
  <2>1. CASE Start(c)
    <3>1. tries[c] = 0 /\ tries'[c] = tries[c] /\ begun'[c] = writes /\ writes' = writes
      BY <2>1, <1>1 DEF Start, store, Became, LocalTypes, Control
    <3> QED
      BY <3>1, <1>1
  <2>2. CASE Ensure(c) \/ Discover(c) \/ ListAssets(c)
    <3>1. writes' = writes
      BY <2>2 DEF Ensure, Discover, ListAssets, store
    <3>2. \/ tries'[c] = 0 /\ begun'[c] \in {0, writes}
          \/ tries'[c] = tries[c] /\ begun'[c] = begun[c]
      BY <2>2, <1>1 DEF Ensure, Discover, ListAssets, CallMutate, Became, Finish, LocalTypes
    <3> QED
      BY <3>1, <3>2, <1>1 DEF Fresh
  <2>3. CASE Retry(c)
    <3>1. CASE tries'[c] = 0 /\ begun'[c] = 0
      BY <3>1, <1>2
    <3>2. CASE tries'[c] = tries[c] + 1 /\ begun'[c] = begun[c]
      <4>1. pc[c] = "swap" /\ lock # c /\ project # snap[c]
        BY <2>3 DEF Retry, SwapHits
      <4>2. project # NoRow
        BY <4>1, <1>1 DEF Based
      <4>3. snap[c].stamp < writes /\ begun[c] + tries[c] <= snap[c].stamp /\ snap[c].stamp \in Nat
        <5>1. snap[c].stamp \in Nat
          BY <4>1, <1>1 DEF Control, ProjectRow
        <5> QED
          BY <5>1, <4>1, <4>2, <1>1 DEF Fresh
      <4>4. begun[c] \in Nat /\ tries[c] \in Nat /\ writes' = writes
        BY <2>3, <1>1, AttemptsAssumption DEF LocalTypes, Retry
      <4> QED
        BY <3>2, <4>3, <4>4, <1>1
    <3> QED
      BY <2>3, <3>1, <3>2, <1>1 DEF Retry, Became, Finish, LocalTypes
  <2>4. CASE \/ Step(c) /\ ~Ensure(c) /\ ~Discover(c) /\ ~ListAssets(c) /\ ~Retry(c)
             \/ Crash(c)
    <3>1. \/ tries'[c] = tries[c] /\ begun'[c] = begun[c]
          \/ tries'[c] = 0 /\ begun'[c] = 0
      <4>0. tries \in [Clients -> 0 .. MaxAttempts - 1] /\ begun \in [Clients -> Nat]
        BY <1>1 DEF LocalTypes
      <4>1. CASE Select(c) \/ Insert(c) \/ Mutate(c)
        BY <4>0, <4>1 DEF Select, Insert, Mutate, Became, Finish, locals
      <4>2. CASE Swap(c)
        BY <4>0, <4>2 DEF Swap, AfterMutate, Became, Finish
      <4>3. CASE Validate(c) \/ ValidateAssets(c) \/ Exists(c) \/ Get(c) \/ GetAgain(c)
        BY <4>0, <4>3 DEF Validate, ValidateAssets, Exists, Get, GetAgain, Became, Finish, locals
      <4>4. CASE TxSelect(c) \/ TxSame(c) \/ TxUpdate(c) \/ TxInsert(c) \/ TxDelete(c)
        BY <4>0, <4>4
           DEF TxSelect, TxSame, TxUpdate, TxInsert, TxDelete, AfterWrite, Became, Finish
      <4>5. CASE Lookup(c) \/ Cascade(c) \/ GetProject(c) \/ Reapply(c) \/ Crash(c)
        BY <4>0, <4>5 DEF Lookup, Cascade, GetProject, Reapply, Crash, Became, Finish
      <4> QED
        BY <2>4, <4>1, <4>2, <4>3, <4>4, <4>5 DEF Step
    <3>2. begun[c] \in Nat /\ tries[c] \in Nat
      BY <1>1, AttemptsAssumption DEF LocalTypes
    <3> QED
      BY <3>1, <3>2, <1>1, <1>2 DEF Fresh
  <2> QED
    BY <2>1, <2>2, <2>3, <2>4
<1>4. ASSUME pc'[c] \in {"mutate", "swap"}
      PROVE  /\ snap'[c].stamp <= writes'
             /\ project' # NoRow /\ snap'[c].stamp = writes' => snap'[c] = project'
             /\ begun'[c] + tries'[c] <= snap'[c].stamp
  <2>1. Select(c) \/ Insert(c) \/ Mutate(c)
    BY <1>1, <1>4, Edges
  <2>2. UNCHANGED <<project, writes>>
    BY <2>1 DEF Select, Insert, Mutate
  <2>3. CASE Mutate(c)
    <3>1. pc[c] = "mutate" /\ UNCHANGED locals
      BY <2>3, <1>1, <1>4 DEF Mutate, Finish, Goto, LocalTypes
    <3> QED
      BY <3>1, <2>2, <1>1 DEF Fresh, locals
  <2>4. CASE (Select(c) \/ Insert(c)) /\ project # NoRow
    <3>1. snap'[c] = project
      BY <2>4, <1>1, <1>4 DEF Select, Insert, Finish, Goto, Became, LocalTypes
    <3> QED
      BY <3>1, <2>2, <2>4, <1>1, <1>2, <1>3 DEF StoreOK
  <2>5. CASE (Select(c) \/ Insert(c)) /\ project = NoRow
    <3>1. Insert(c)
      BY <2>5, <1>1, <1>4 DEF Select, Finish, Goto, LocalTypes
    <3>2. snap'[c] = NewProject
      BY <3>1, <2>5, <1>1 DEF Insert, Became, LocalTypes
    <3>3. snap'[c].stamp = 0
      BY <3>2 DEF NewProject
    <3> QED
      BY <3>3, <2>2, <2>5, <1>1, <1>2, <1>3 DEF StoreOK
  <2> QED
    BY <2>1, <2>3, <2>4, <2>5
<1>5. ASSUME pc'[c] \in {"exists", "get_again", "tx_select", "tx_write", "tx_delete", "cascade"}
      PROVE  project' # NoRow
  <2>1. \A a \in Assets : datasets[a] # NoRow => project # NoRow
    BY <1>1 DEF StoreOK, Unseen
  <2>2. CASE Swap(c)
    <3>1. project' \in ProjectRow
      <4>1. req[c] \in Request /\ snap[c] \in ProjectRow
        BY <2>2, <1>1 DEF Swap, Control
      <4>2. PICK row \in ProjectRow : row = Mutated(req[c], snap[c])
        BY <4>1, MutatedRow
      <4>3. WriteProject(row)
        BY <4>2, <2>2 DEF Swap, WriteProject
      <4> QED
        BY <4>3, <1>1, WrittenRow
    <3> QED
      BY <3>1, ValuesAssumption
  <2>3. CASE Ensure(c)
    <3>1. pc'[c] # "select"
      BY <1>5
    <3>2. project # NoRow
      BY <2>3, <3>1, <1>1 DEF Ensure, CallMutate, Goto, LocalTypes
    <3> QED
      BY <3>2, <1>2
  <2>4. CASE Get(c)
    <3>1. target[c] \in Assets
      BY <2>4, <1>1 DEF Get, Control, OpsAt, AssetOps
    <3>2. datasets[target[c]] # NoRow
      BY <2>4, <1>1, <1>5 DEF Get, Finish, Goto, LocalTypes
    <3> QED
      BY <3>1, <3>2, <2>1, <1>2
  <2>5. CASE ListAssets(c)
    <3>1. WithLabel(req[c].label) # Unseen
      <4>1. pc'[c] # "select" /\ pc'[c] # "idle"
        BY <1>5
      <4>2. ~(snap[c] # NoRow /\ req[c].label \in snap[c].labels)
        BY <4>1, <2>5, <1>1 DEF ListAssets, CallMutate, Goto, Finish, LocalTypes
      <4> QED
        BY <4>1, <4>2, <2>5, <1>1 DEF ListAssets, Goto, Finish, LocalTypes
    <3>2. PICK a \in Assets : datasets[a] # NoRow
      BY <3>1 DEF WithLabel, Unseen
    <3> QED
      BY <3>2, <2>1, <1>2
  <2>6. CASE pc[c] \in {"exists", "get_again", "tx_select", "tx_write", "tx_delete", "cascade"}
    BY <2>6, <1>1, <1>2 DEF Fresh
  <2>7. Swap(c) \/ Ensure(c) \/ Get(c) \/ ListAssets(c)
        \/ pc[c] \in {"exists", "get_again", "tx_select", "tx_write", "tx_delete", "cascade"}
    BY <1>1, <1>5, Edges DEF Exists, Cascade, TxSelect, GetAgain, TxSame, TxUpdate, TxInsert
  <2> QED
    BY <2>2, <2>3, <2>4, <2>5, <2>6, <2>7
<1> QED
  BY <1>3, <1>4, <1>5 DEF Fresh

\* Every step keeps the snapshots of all clients in order: a write of the row by one
\* client gives it a stamp that no snapshot of another has.
LEMMA FreshStep == FreshInv /\ [Next]_vars => FreshInv'
<1> SUFFICES ASSUME FreshInv, [Next]_vars PROVE FreshInv'
  OBVIOUS
<1>1. ControlInv'
  BY ControlStep DEF FreshInv
<1>2. CASE UNCHANGED vars
  <2>1. UNCHANGED <<project, datasets, lock, writes, pc, req, snap, seen, found, target, tries, begun>>
    BY <1>2 DEF vars, store, locals
  <2>2. StoreOK'
    BY <2>1 DEF FreshInv, StoreOK
  <2>3. \A c \in Clients : Fresh(c) <=> Fresh(c)'
    BY <2>1 DEF Fresh
  <2> QED
    BY <1>1, <2>2, <2>3 DEF FreshInv
<1>3. CASE Next
  <2>1. PICK c \in Clients : Start(c) \/ Step(c) \/ Crash(c)
    BY <1>3 DEF Next
  <2>2. StoreOK' /\ Fresh(c)'
    BY <2>1, StoreStep, FreshOwn
  <2>3. \A d \in Clients \ {c} : Fresh(d)'
    <3> SUFFICES ASSUME NEW d \in Clients, d # c PROVE Fresh(d)'
      OBVIOUS
    <3>1. /\ pc'[d] = pc[d] /\ snap'[d] = snap[d] /\ tries'[d] = tries[d] /\ begun'[d] = begun[d]
      BY <2>1, StepMoves DEF After, OthersKeep, FreshInv
    <3>2. /\ Fresh(d) /\ Control(d) /\ Based(d) /\ writes \in Nat /\ StoreOK
          /\ begun[d] \in Nat /\ tries[d] \in Nat /\ ControlInv
      BY AttemptsAssumption DEF FreshInv, ControlInv, Typed, TypeOK
    <3>3. \/ project' = project /\ writes' = writes
          \/ /\ project' # NoRow /\ project'.stamp = writes + 1 /\ writes' = writes + 1
             /\ project # NoRow \/ lock = c
      BY <2>1, <3>2, RowMoves
    <3>4. pc[d] \in {"mutate", "swap"} => snap[d].stamp \in Nat
      BY <3>2 DEF Control, ProjectRow
    <3> QED
      BY <3>1, <3>2, <3>3, <3>4 DEF Fresh
  <2> QED
    BY <1>1, <2>2, <2>3 DEF FreshInv
<1> QED
  BY <1>2, <1>3

\* mutate_project reports a conflict only after MaxAttempts writes of the row by
\* other requests: every failed attempt has been overtaken by a write of its own
\* (mutate_project).
THEOREM ConflictsAreContention == Spec => ConflictMeansContention
<1>1. FreshInv /\ [Next]_vars =>
        [\A c \in Clients :
           (pc[c] = "swap" /\ pc'[c] = "idle" /\ out'[c] = "conflict")
           => writes - begun[c] >= MaxAttempts]_vars
  <2> SUFFICES ASSUME FreshInv, Next, NEW c \in Clients,
                      pc[c] = "swap", pc'[c] = "idle", out'[c] = "conflict"
               PROVE  writes - begun[c] >= MaxAttempts
    BY DEF ConflictMeansContention
  <2>1. PICK d \in Clients : Start(d) \/ Step(d) \/ Crash(d)
    BY DEF Next
  <2>2. ControlInv /\ LocalTypes /\ Control(c) /\ Based(c) /\ Fresh(c) /\ StoreOK /\ writes \in Nat
    BY DEF FreshInv, ControlInv, Typed, TypeOK, LocalTypes
  <2>3. d = c
    BY <2>1, <2>2, StepMoves DEF After, OthersKeep
  <2>4. Swap(c) \/ Retry(c) \/ Crash(c)
    BY <2>1, <2>3 DEF Start, Step, Select, Insert, Mutate, Validate, ValidateAssets,
          Ensure, Exists, Get, GetAgain, TxSelect, TxSame, TxUpdate, TxInsert, TxDelete,
          Discover, Lookup, ListAssets, Cascade, GetProject, Reapply
  <2>5. ~Swap(c)
    BY <2>2 DEF Swap, AfterMutate, Finish, Goto, Became, LocalTypes
  <2>6. ~Crash(c)
    BY <2>2 DEF Crash, Finish, Became, LocalTypes
  <2>7. tries[c] + 1 = MaxAttempts /\ lock # c /\ project # snap[c]
    BY <2>2, <2>4, <2>5, <2>6 DEF Retry, SwapHits, Goto, LocalTypes
  <2>8. project # NoRow /\ snap[c].stamp \in Nat
    BY <2>2, <2>7 DEF Based, Control, ProjectRow
  <2>9. snap[c].stamp < writes /\ begun[c] + tries[c] <= snap[c].stamp
    BY <2>2, <2>7, <2>8 DEF Fresh
  <2>10. begun[c] \in Nat /\ tries[c] \in Nat /\ MaxAttempts \in Nat
    BY <2>2, AttemptsAssumption DEF LocalTypes
  <2> QED
    BY <2>2, <2>7, <2>8, <2>9, <2>10
<1>2. Init => FreshInv
  BY ControlInit, FreshInit DEF FreshInv
<1> QED
  BY <1>1, <1>2, FreshStep, PTL DEF Spec, ConflictMeansContention

-------------------------------------------------------------------------------
(* The catalog implements the atomic one *)

\* A step of another client that keeps a compare-and-swap possible has written no
\* asset: the write would have touched the row, or there is no row to touch and
\* then no asset either.
LEMMA SwapStays ==
    ASSUME NEW c \in Clients, NEW d \in Clients, d # c, FreshInv, FreshInv',
           Start(c) \/ Step(c) \/ Crash(c), pc[d] = "swap", SwapHits(d)'
    PROVE  SwapHits(d) /\ datasets' = datasets
<1>1. /\ ControlInv /\ StoreOK /\ Fresh(c) /\ Fresh(d) /\ Control(d) /\ Based(d) /\ writes \in Nat
      /\ lock \in Clients \cup {Nobody} /\ Nobody \notin Clients
      /\ (lock # Nobody => project = NoRow) /\ NoRow \notin ProjectRow
      /\ project \in ProjectRow \cup {NoRow}
  BY ValuesAssumption DEF FreshInv, ControlInv, Typed, TypeOK
<1>2. snap'[d] = snap[d] /\ ((lock' = d) <=> (lock = d)) /\ snap[d] \in ProjectRow
  BY <1>1, StepMoves DEF After, OthersKeep, Control
<1>3. \/ project' = project /\ writes' = writes
      \/ project' # NoRow /\ project'.stamp = writes + 1 /\ (project # NoRow \/ lock = c)
  BY <1>1, RowMoves
<1>4. CASE lock = d
  <2>1. project = NoRow /\ lock # c
    BY <1>1, <1>4
  <2>2. project' = NoRow
    BY <1>3, <2>1
  <2>3. datasets = Unseen /\ datasets' = Unseen
    BY <1>1, <2>1, <2>2 DEF StoreOK, FreshInv
  <2> QED
    BY <1>4, <2>3 DEF SwapHits
<1>5. CASE lock # d
  <2>1. project' = snap[d]
    BY <1>2, <1>5 DEF SwapHits
  <2>2. snap[d].stamp <= writes /\ snap[d].stamp \in Nat
    BY <1>1, <1>2 DEF Fresh, ProjectRow
  <2>3. project' = project /\ writes' = writes /\ project # NoRow
    BY <1>1, <1>2, <1>3, <2>1, <2>2
  <2>4. datasets' = datasets
    <3>1. CASE TxUpdate(c) \/ TxInsert(c) \/ TxDelete(c)
      <4>1. ~Touch
        BY <1>1, <2>3, TouchedRow
      <4> QED
        BY <3>1, <4>1, <1>1, AssetWrites DEF Wrote
    <3>2. CASE ~(TxUpdate(c) \/ TxInsert(c) \/ TxDelete(c))
      BY <3>2, QuietSteps DEF Swap, Reapply
    <3> QED
      BY <3>1, <3>2
  <2> QED
    BY <2>1, <2>3, <2>4 DEF SwapHits
<1> QED
  BY <1>4, <1>5

\* What a mutator has decided still holds when its swap succeeds.
LEMMA DecidedInit == Init => DecidedInv
  BY DEF Init, DecidedInv, Decided

\* Every step keeps that: for its own client the mutator has just looked, for the
\* others SwapStays.
LEMMA DecidedStep == FreshInv /\ FreshInv' /\ DecidedInv /\ [Next]_vars => DecidedInv'
<1> SUFFICES ASSUME FreshInv, FreshInv', DecidedInv, [Next]_vars, NEW d \in Clients,
                    pc'[d] = "swap", SwapHits(d)'
             PROVE  Verdict(req[d], snap[d], Discovered(d))' = "ok"
  BY DEF DecidedInv, Decided
<1>0. Decided(d) /\ ControlInv
  BY DEF DecidedInv, FreshInv
<1>1. CASE UNCHANGED vars
  <2>1. UNCHANGED <<project, datasets, lock, pc, req, snap, seen>>
    BY <1>1 DEF vars, store, locals
  <2> QED
    BY <2>1, <1>0 DEF Decided, SwapHits, Verdict, HasAssets, Discovered
<1>2. CASE Next
  <2>1. PICK c \in Clients : Start(c) \/ Step(c) \/ Crash(c)
    BY <1>2 DEF Next
  <2>2. UNCHANGED datasets /\ req'[d] = req[d] /\ snap'[d] = snap[d] /\ seen'[d] = seen[d]
        /\ Verdict(req[d], snap[d], Discovered(d)) = "ok"
    <3>1. CASE c = d
      <4>1. Mutate(d)
        BY <2>1, <3>1, <1>0, Edges
      <4>2. pc \in [Clients -> Points]
        BY <1>0 DEF ControlInv, Typed
      <4>3. Verdict(req[d], snap[d], Discovered(d)) = "ok" /\ UNCHANGED locals
        BY <4>1, <4>2 DEF Mutate, Finish, Goto
      <4> QED
        BY <4>1, <4>3 DEF Mutate, locals
    <3>2. CASE c # d
      <4>1. pc[d] = "swap" /\ req'[d] = req[d] /\ snap'[d] = snap[d] /\ seen'[d] = seen[d]
        BY <2>1, <3>2, <1>0, StepMoves DEF After, OthersKeep
      <4>2. SwapHits(d) /\ datasets' = datasets
        BY <4>1, <2>1, <3>2, SwapStays
      <4> QED
        BY <4>1, <4>2, <1>0 DEF Decided
    <3> QED
      BY <3>1, <3>2
  <2>3. Discovered(d)' = Discovered(d) /\ \A k : HasAssets(k)' = HasAssets(k)
    BY <2>2 DEF Discovered, HasAssets
  <2> QED
    BY <2>2, <2>3 DEF Verdict
<1> QED
  BY <1>1, <1>2

\* The collections and the labels that a reader of the Project row finds.
Namespaces == IF project = NoRow THEN NewProject.ns ELSE project.ns
LabelTags == IF project = NoRow THEN {} ELSE project.labels
Present == {a \in Assets : datasets[a] # NoRow}

\* A swap that succeeds mutates what is committed.
LEMMA SwapOfCommitted ==
    ASSUME NEW c \in Clients, FreshInv, Swap(c)
    PROVE  /\ req[c] \in Request /\ snap[c] \in ProjectRow
           /\ Namespaces = snap[c].ns /\ LabelTags = snap[c].labels
           /\ Namespaces' = Mutated(req[c], snap[c]).ns
           /\ LabelTags' = Mutated(req[c], snap[c]).labels
           /\ Present' = Present
<1>1. Control(c) /\ writes \in Nat /\ pc[c] = "swap" /\ (lock = c => project = NoRow)
  BY ValuesAssumption DEF FreshInv, ControlInv, Typed, TypeOK, Swap
<1>2. req[c] \in Request /\ snap[c] \in ProjectRow /\ snap[c] # NoRow
  BY <1>1, ValuesAssumption DEF Control
<1>3. PICK row \in ProjectRow : row = Mutated(req[c], snap[c])
  BY <1>2, MutatedRow
<1>4. WriteProject(row)
  BY <1>3 DEF Swap, WriteProject
<1>5. project' # NoRow /\ project'.ns = row.ns /\ project'.labels = row.labels
  BY <1>1, <1>4, WrittenRow
<1>6. Namespaces = snap[c].ns /\ LabelTags = snap[c].labels
  <2>1. CASE lock = c
    <3>1. project = NoRow /\ snap[c] = NewProject
      BY <1>1, <2>1 DEF Control
    <3> QED
      BY <3>1 DEF Namespaces, LabelTags, NewProject
  <2>2. CASE lock # c
    <3>1. project = snap[c] /\ project # NoRow
      BY <1>2, <2>2 DEF Swap, SwapHits
    <3> QED
      BY <3>1 DEF Namespaces, LabelTags
  <2> QED
    BY <2>1, <2>2
<1>7. Present' = Present
  BY DEF Swap, Present
<1> QED
  BY <1>2, <1>3, <1>5, <1>6, <1>7 DEF Namespaces, LabelTags

\* A successful swap is one step of the atomic catalog.
LEMMA SwapIsAtomic ==
    ASSUME NEW c \in Clients, FreshInv, DecidedInv, Swap(c)
    PROVE  [Atomic!Next]_(Atomic!vars)
<1>1. /\ req[c] \in Request /\ snap[c] \in ProjectRow
      /\ Namespaces = snap[c].ns /\ LabelTags = snap[c].labels
      /\ Namespaces' = Mutated(req[c], snap[c]).ns
      /\ LabelTags' = Mutated(req[c], snap[c]).labels
      /\ Present' = Present
  BY SwapOfCommitted
<1>2. Verdict(req[c], snap[c], Discovered(c)) = "ok"
  BY DEF DecidedInv, Decided, Swap
<1>3. snap[c].ns \in [Collections -> NsMeta] /\ snap[c].labels \in SUBSET Labels
  BY <1>1 DEF ProjectRow
<1>4. \A k \in Collections : HasAssets(k) <=> ~(\A d \in Displays : <<k, d>> \notin Present)
  BY DEF HasAssets, Present, Assets
<1> DEFINE k == req[c].col
<1>5. CASE req[c].op = "create_namespace"
  <2>1. k \in Collections /\ req[c].props \in SUBSET Props
    BY <1>1, <1>5, RequestFields
  <2>2. k # Default /\ Namespaces[k] = Absent /\ ~HasAssets(k)
    BY <1>1, <1>2, <1>5 DEF Verdict
  <2>3. Mutated(req[c], snap[c]) = [snap[c] EXCEPT !.ns[k] = req[c].props]
    BY <1>5 DEF Mutated
  <2>4. Namespaces' = [Namespaces EXCEPT ![k] = req[c].props] /\ LabelTags' = LabelTags
    BY <2>3, <1>1 DEF ProjectRow
  <2>5. Atomic!Create(k)
    BY <2>1, <2>2, <2>4, <1>1, <1>4
       DEF Atomic!Create, Atomic!Empty, Namespaces, LabelTags, Present
  <2> QED
    BY <2>1, <2>5 DEF Atomic!Next
<1>6. CASE req[c].op = "drop_namespace"
  <2>1. k \in Collections
    BY <1>1, <1>6, RequestFields
  <2>2. Namespaces[k] # Absent /\ ~HasAssets(k)
    BY <1>1, <1>2, <1>6 DEF Verdict
  <2>3. Mutated(req[c], snap[c]) = [snap[c] EXCEPT !.ns[k] = Absent]
    BY <1>6 DEF Mutated
  <2>4. Namespaces' = [Namespaces EXCEPT ![k] = Absent] /\ LabelTags' = LabelTags
    BY <2>3, <1>1 DEF ProjectRow
  <2>5. Atomic!Drop(k)
    BY <2>1, <2>2, <2>4, <1>1, <1>4
       DEF Atomic!Drop, Atomic!Empty, Namespaces, LabelTags, Present
  <2> QED
    BY <2>1, <2>5 DEF Atomic!Next
<1>7. CASE req[c].op = "properties"
  <2> DEFINE old == IF Namespaces[k] = Absent THEN {} ELSE Namespaces[k]
             new == IF req[c].remove THEN old \ {req[c].prop} ELSE old \cup {req[c].prop}
  <2>1. k \in Collections /\ req[c].prop \in Props
    BY <1>1, <1>7, RequestFields
  <2>2. k = Default \/ Namespaces[k] # Absent \/ HasAssets(k)
    BY <1>1, <1>2, <1>7 DEF Verdict
  <2>3. Mutated(req[c], snap[c]) = [snap[c] EXCEPT !.ns[k] = new]
    BY <1>1, <1>7 DEF Mutated
  <2>4. Namespaces' = [Namespaces EXCEPT ![k] = new] /\ LabelTags' = LabelTags
    <3> HIDE DEF new
    <3> QED
      BY <2>3, <1>1 DEF ProjectRow
  <2>5. \E p \in Props : \/ Namespaces' = [Namespaces EXCEPT ![k] = old \cup {p}]
                         \/ Namespaces' = [Namespaces EXCEPT ![k] = old \ {p}]
    <3> HIDE DEF old
    <3> QED
      BY <2>1, <2>4
  <2>6. Namespaces[k] # Absent \/ ~(\A d \in Displays : <<k, d>> \notin Present) \/ k = Default
    BY <2>1, <2>2, <1>4
  <2>7. Atomic!Properties(k)
    BY <2>1, <2>4, <2>5, <2>6, <1>1
       DEF Atomic!Properties, Atomic!Empty, Namespaces, LabelTags, Present
  <2> QED
    BY <2>1, <2>7 DEF Atomic!Next
<1>8. CASE req[c].op \in {"create_label", "delete_label"}
  <2>1. req[c].label \in Labels
    BY <1>1, <1>8, RequestFields
  <2>2. /\ Namespaces' = Namespaces
        /\ \/ LabelTags' = LabelTags \cup {req[c].label}
           \/ LabelTags' = LabelTags \ {req[c].label}
    <3>1. CASE req[c].op = "create_label"
      <4>1. Mutated(req[c], snap[c]) = [snap[c] EXCEPT !.labels = snap[c].labels \cup {req[c].label}]
        BY <3>1 DEF Mutated
      <4> QED
        BY <4>1, <1>1 DEF ProjectRow
    <3>2. CASE req[c].op = "delete_label"
      <4>1. Mutated(req[c], snap[c]) = [snap[c] EXCEPT !.labels = snap[c].labels \ {req[c].label}]
        BY <3>2 DEF Mutated
      <4> QED
        BY <4>1, <1>1 DEF ProjectRow
    <3> QED
      BY <1>8, <3>1, <3>2
  <2>3. Atomic!Label(req[c].label)
    BY <2>2, <1>1 DEF Atomic!Label, Namespaces, LabelTags, Present
  <2> QED
    BY <2>1, <2>3 DEF Atomic!Next
<1>9. CASE req[c].op \notin {"create_namespace", "drop_namespace", "properties", "create_label",
                             "delete_label"}
  <2>1. Mutated(req[c], snap[c]) = [snap[c] EXCEPT !.protected = TRUE]
    BY <1>9 DEF Mutated
  <2>2. Namespaces' = Namespaces /\ LabelTags' = LabelTags
    BY <2>1, <1>1 DEF ProjectRow
  <2> QED
    BY <2>2, <1>1 DEF Atomic!vars, Namespaces, LabelTags, Present
<1> QED
  BY <1>5, <1>6, <1>7, <1>8, <1>9

\* The write of an asset is one step of the atomic catalog, or none.
LEMMA AssetIsAtomic ==
    ASSUME NEW c \in Clients, ControlInv, Wrote(c)
    PROVE  [Atomic!Next]_(Atomic!vars)
<1>1. project \in ProjectRow \cup {NoRow} /\ writes \in Nat
  BY DEF ControlInv, Typed, TypeOK
<1>2. Namespaces' = Namespaces /\ LabelTags' = LabelTags
  <2>1. CASE Touch
    BY <2>1, <1>1, TouchedRow DEF Namespaces, LabelTags
  <2>2. CASE UNCHANGED project
    BY <2>2 DEF Namespaces, LabelTags
  <2> QED
    BY <2>1, <2>2 DEF Wrote
<1>3. target[c] \in Assets
  BY DEF Wrote
<1>4. \/ Present' = Present
      \/ Present' = Present \cup {target[c]}
      \/ Present' = Present \ {target[c]}
  <2>1. \A a \in Assets \ {target[c]} : (a \in Present') <=> (a \in Present)
    BY DEF Wrote, Present
  <2>2. Present \subseteq Assets /\ Present' \subseteq Assets
    BY DEF Present
  <2> QED
    BY <2>1, <2>2, <1>3
<1>5. CASE Present' = Present
  BY <1>2, <1>5 DEF Atomic!vars, Namespaces, LabelTags, Present
<1>6. CASE Present' = Present \cup {target[c]} \/ Present' = Present \ {target[c]}
  <2>1. PICK a \in Assets : a = target[c]
    BY <1>3
  <2>2. Atomic!Asset(a)
    BY <1>2, <1>6, <2>1 DEF Atomic!Asset, Namespaces, LabelTags, Present
  <2>3. a \in Atomic!Assets
    BY DEF Atomic!Assets, Assets
  <2>4. \E b \in Atomic!Assets : Atomic!Asset(b)
    BY <2>2, <2>3
  <2> QED
    BY <2>4 DEF Atomic!Next
<1> QED
  BY <1>4, <1>5, <1>6

\* The initial states are initial states of the atomic catalog.
LEMMA AtomicInit == Init => Atomic!Init
<1> SUFFICES ASSUME Init PROVE Atomic!Init
  OBVIOUS
<1>1. /\ Namespaces \in [Collections -> (SUBSET Props) \cup {Absent}]
      /\ LabelTags \in SUBSET Labels /\ Present \in SUBSET Atomic!Assets
      /\ \A a \in Present : Namespaces[a[1]] # Absent \/ a[1] = Default
  <2>0. Present \in SUBSET Atomic!Assets
    BY DEF Present, Assets, Atomic!Assets
  <2>1. CASE project = NoRow /\ datasets = Unseen
    <3>1. Present = {}
      BY <2>1 DEF Present, Unseen
    <3>2. Namespaces = [k \in Collections |-> Absent] /\ LabelTags = {}
      BY <2>1 DEF Namespaces, LabelTags, NewProject
    <3> QED
      BY <2>0, <3>1, <3>2
  <2>2. CASE ~(project = NoRow /\ datasets = Unseen)
    <3>1. PICK C \in SUBSET (Collections \ {Default}), L \in SUBSET Labels :
         /\ project = [ns |-> [k \in Collections |-> IF k \in C THEN {} ELSE Absent],
                       labels |-> L, protected |-> TRUE, stamp |-> 0]
         /\ \A a \in Assets : datasets[a] # NoRow => CollectionOf(a) \in C \cup {Default}
      BY <2>2 DEF Init, InitStore
    <3>2. project \in ProjectRow
      BY <3>1 DEF ProjectRow, NsMeta
    <3>3. Namespaces = [k \in Collections |-> IF k \in C THEN {} ELSE Absent] /\ LabelTags = L
      BY <3>1, <3>2, ValuesAssumption DEF Namespaces, LabelTags
    <3>4. {} # Absent
      BY ValuesAssumption
    <3>5. ASSUME NEW a \in Present PROVE Namespaces[a[1]] # Absent \/ a[1] = Default
      <4>1. a \in Assets /\ a[1] \in C \cup {Default} /\ a[1] \in Collections
        BY <3>1, <3>5 DEF Present, CollectionOf, Assets
      <4> QED
        BY <4>1, <3>3, <3>4
    <3>6. Namespaces \in [Collections -> (SUBSET Props) \cup {Absent}]
      BY <3>3
    <3> QED
      BY <2>0, <3>3, <3>5, <3>6
  <2> QED
    BY <2>1, <2>2
<1> QED
  BY <1>1 DEF Atomic!Init, Namespaces, LabelTags, Present

\* The requests of any number of clients take effect one at a time, each on the
\* collections, labels and assets as they are at that moment: the compare-and-swap of
\* mutate_project, together with the touch of the row by every write of an asset, is
\* enough for that.  Only the second half of delete_feature_view is excepted.
THEOREM CatalogIsAtomic == Spec => ImplementsAtomicCatalog
<1>1. FreshInv /\ DecidedInv /\ [Next]_vars
        => [Atomic!Next \/ \E c \in Clients : Reapply(c)]_(Atomic!vars)
  <2> SUFFICES ASSUME FreshInv, DecidedInv, [Next]_vars
               PROVE  [Atomic!Next \/ \E c \in Clients : Reapply(c)]_(Atomic!vars)
    OBVIOUS
  <2>1. CASE UNCHANGED vars
    BY <2>1 DEF vars, store, Atomic!vars
  <2>2. CASE Next
    <3>1. PICK c \in Clients : Start(c) \/ Step(c) \/ Crash(c)
      BY <2>2 DEF Next
    <3>2. CASE Swap(c)
      BY <3>2, SwapIsAtomic
    <3>3. CASE TxUpdate(c) \/ TxInsert(c) \/ TxDelete(c)
      BY <3>3, AssetWrites, AssetIsAtomic DEF FreshInv
    <3>4. CASE Reapply(c)
      BY <3>4
    <3>5. CASE ~(Swap(c) \/ Reapply(c) \/ TxUpdate(c) \/ TxInsert(c) \/ TxDelete(c))
      <4>1. UNCHANGED <<project, datasets>>
        BY <3>1, <3>5, QuietSteps
      <4> QED
        BY <4>1 DEF Atomic!vars
    <3> QED
      BY <3>2, <3>3, <3>4, <3>5
  <2> QED
    BY <2>1, <2>2
<1>2. Init => FreshInv /\ DecidedInv /\ Atomic!Init
  BY ControlInit, FreshInit, DecidedInit, AtomicInit DEF FreshInv
<1> QED
  BY <1>1, <1>2, FreshStep, DecidedStep, PTL DEF Spec, ImplementsAtomicCatalog

-------------------------------------------------------------------------------
(* A label that is deleted *)

\* At the beginning nobody deletes anything.
LEMMA AloneInit == Init => AloneInv
  BY DEF Init, AloneInv, AloneOK, Removing

\* Nobody else moves during a request that runs alone.
LEMMA OthersIdle ==
    ASSUME NEW c \in Clients, NEW d \in Clients, d # c, ControlInv, AloneInv,
           Start(d) \/ Step(d) \/ Crash(d)
    PROVE  alone'[c] => pc[c] = "idle"
<1>1. alone \in [Clients -> BOOLEAN] /\ AloneOK(c)
  BY DEF ControlInv, Typed, TypeOK, AloneInv
<1>2. CASE Start(d)
  BY <1>1, <1>2 DEF Start
<1>3. CASE Step(d) \/ Crash(d)
  <2>1. pc[d] # "idle"
    BY <1>3 DEF Crash, Step, Select, Insert, Mutate, Swap, Retry, Validate, ValidateAssets, Ensure,
          Exists, Get, GetAgain, TxSelect, TxSame, TxUpdate, TxInsert, TxDelete,
          Discover, Lookup, ListAssets, Cascade, GetProject, Reapply
  <2>2. alone' = alone
    BY <1>3 DEF Crash, Step, Select, Insert, Mutate, Swap, Retry, Validate, ValidateAssets, Ensure,
          Exists, Get, GetAgain, TxSelect, TxSame, TxUpdate, TxInsert, TxDelete,
          Discover, Lookup, ListAssets, Cascade, GetProject, Reapply
  <2> QED
    BY <2>1, <2>2, <1>1 DEF AloneOK
<1> QED
  BY <1>2, <1>3

\* The steps of the request itself leave req and alone as they are.
LEMMA OwnRequest ==
    ASSUME NEW c \in Clients, Step(c) \/ Crash(c)
    PROVE  req' = req /\ alone' = alone /\ pc[c] # "idle"
  BY DEF Crash, Step, Select, Insert, Mutate, Swap, Retry, Validate, ValidateAssets, Ensure,
        Exists, Get, GetAgain, TxSelect, TxSame, TxUpdate, TxInsert, TxDelete,
        Discover, Lookup, ListAssets, Cascade, GetProject, Reapply, store

\* One asset of the cascade is written: it loses the label, the others stay.
LEMMA LabelRemoved ==
    ASSUME NEW c \in Clients, FreshInv, AloneOK(c), Removing(c),
           TxSame(c) \/ TxUpdate(c) \/ TxInsert(c)
    PROVE  /\ pc[c] = "tx_write" /\ target[c] \in Assets
           /\ req[c].label \notin datasets'[target[c]].labels
           /\ \A a \in Assets \ {target[c]} : datasets'[a] = datasets[a]
           /\ project' # NoRow => req[c].label \notin project'.labels
<1>1. /\ ControlInv /\ Control(c) /\ Fresh(c) /\ Typed /\ writes \in Nat
      /\ project \in ProjectRow \cup {NoRow} /\ datasets \in [Assets -> Row \cup {NoRow}]
      /\ NoRow \notin Row /\ req[c].op = "delete_label"
  BY ValuesAssumption DEF FreshInv, ControlInv, Typed, TypeOK, Removing
<1>2. pc[c] = "tx_write" /\ req' = req
  BY DEF TxSame, TxUpdate, TxInsert
<1>3. /\ target[c] \in Assets /\ seen[c][target[c]] \in Row /\ project # NoRow /\ Tracks(c)
      /\ found[c] = datasets[target[c]] /\ req[c].label \notin project.labels
  BY <1>1, <1>2 DEF Control, Fresh, AloneOK
<1>4. found[c] \in Row /\ found[c] # NoRow
  BY <1>1, <1>3 DEF Tracks
<1>5. NewRow(c) \in Row /\ req[c].label \notin NewRow(c).labels
  BY <1>1, <1>2, NewRowType
<1>6. CASE TxSame(c)
  <2>1. UNCHANGED <<project, datasets>> /\ datasets[target[c]] = NewRow(c)
    BY <1>3, <1>6 DEF TxSame
  <2> QED
    BY <2>1, <1>2, <1>3, <1>5
<1>7. CASE TxUpdate(c)
  <2>1. datasets' = [datasets EXCEPT ![target[c]] = NewRow(c)] /\ Touch
    BY <1>3, <1>4, <1>7 DEF TxUpdate
  <2>2. project'.labels = project.labels
    BY <2>1, <1>1, <1>3, TouchedRow
  <2>3. target[c] \in Assets /\ datasets'[target[c]] = NewRow(c)
    BY <2>1, <1>1, <1>3
  <2> QED
    BY <2>1, <2>2, <2>3, <1>1, <1>2, <1>3, <1>5
<1>8. ~TxInsert(c)
  BY <1>4 DEF TxInsert
<1> QED
  BY <1>6, <1>7, <1>8

\* A deletion that runs alone follows what there is to delete.
LEMMA AloneOwn ==
    ASSUME NEW c \in Clients, FreshInv, FreshInv', AloneInv, Start(c) \/ Step(c) \/ Crash(c)
    PROVE  AloneOK(c)'
<1>1. /\ ControlInv /\ LocalTypes /\ AloneOK(c) /\ Control(c) /\ Fresh(c) /\ Based(c)
      /\ project \in ProjectRow \cup {NoRow} /\ datasets \in [Assets -> Row \cup {NoRow}]
      /\ NoRow \notin Row /\ NoRow \notin ProjectRow /\ writes \in Nat
      /\ alone \in [Clients -> BOOLEAN]
  BY ValuesAssumption DEF FreshInv, ControlInv, Typed, TypeOK, LocalTypes, AloneInv
<1>2. OthersKeep(c)
  BY <1>1, StepMoves DEF After
<1>3. ASSUME alone'[c] PROVE pc'[c] # "idle" => \A d \in Clients \ {c} : pc'[d] = "idle"
  <2>1. CASE Start(c)
    <3>1. \A e \in Clients : pc[e] = "idle"
      BY <2>1, <1>3 DEF Start
    <3> QED
      BY <3>1, <1>2 DEF OthersKeep
  <2>2. CASE Step(c) \/ Crash(c)
    BY <2>2, <1>1, <1>2, <1>3, OwnRequest DEF AloneOK, OthersKeep
  <2> QED
    BY <2>1, <2>2
<1>4. ASSUME Removing(c)'
      PROVE  /\ pc'[c] = "list" => snap'[c] = project'
             /\ pc'[c] \in {"select", "mutate", "swap", "cascade", "tx_select", "tx_write"} => Tracks(c)'
             /\ pc'[c] \in {"cascade", "tx_select", "tx_write"} => req'[c].label \notin project'.labels
             /\ pc'[c] = "tx_write" => found'[c] = datasets'[target'[c]]
  <2>1. CASE Start(c)
    <3>1. PICK r \in Request :
             /\ Became(req, c, r)
             /\ Goto(c, CASE r.op \in AssetOps -> "validate"
                          [] r.op = "create_label" -> "discover"
                          [] r.op = "delete_label" -> "lookup"
                          [] r.op = "delete_feature_view" -> "get_project"
                          [] OTHER -> "select")
      BY <2>1 DEF Start
    <3>2. r.op = "delete_label"
      BY <3>1, <1>1, <1>4 DEF Removing, Became, LocalTypes
    <3>3. pc'[c] = "lookup"
      BY <3>1, <3>2, <1>1 DEF Goto, LocalTypes, AssetOps
    <3> QED
      BY <3>3
  <2>2. CASE Step(c) \/ Crash(c)
    <3>1. req' = req /\ Removing(c) /\ req[c].op = "delete_label" /\ pc'[c] # "idle"
      BY <2>2, <1>4, OwnRequest DEF Removing
    <3>2. ASSUME UNCHANGED <<seen, datasets>>, Tracks(c) PROVE Tracks(c)'
      BY <3>1, <3>2 DEF Tracks, Labelled
    <3>3. CASE pc'[c] = "list"
      <4>1. Lookup(c)
        BY <2>2, <1>1, <3>3, Edges
      <4> QED
        BY <4>1, <3>3, <1>1 DEF Lookup, Became, LocalTypes, store
    <3>4. ASSUME ListAssets(c) PROVE Tracks(c)' /\ (pc'[c] = "cascade" => req'[c].label \notin project'.labels)
      <4>1. seen'[c] = WithLabel(req[c].label) /\ datasets' = datasets /\ project' = project
        BY <3>1, <3>4, <1>1 DEF ListAssets, Finish, Goto, Became, LocalTypes
      <4>2. Tracks(c)'
        BY <4>1, <3>1 DEF Tracks, Labelled, WithLabel
      <4>3. ASSUME pc'[c] = "cascade" PROVE req[c].label \notin project.labels
        <5>1. ~(snap[c] # NoRow /\ req[c].label \in snap[c].labels)
          BY <3>4, <4>3, <1>1 DEF ListAssets, CallMutate, Finish, Goto, LocalTypes
        <5>2. snap[c] = project /\ pc[c] = "list"
          BY <3>1, <3>4, <1>1 DEF ListAssets, AloneOK
        <5>3. project' # NoRow
          BY <4>3 DEF FreshInv, Fresh
        <5> QED
          BY <5>1, <5>2, <5>3, <4>1
      <4> QED
        BY <4>1, <4>2, <4>3, <3>1
    <3>5. CASE pc'[c] = "select"
      <4>1. Retry(c) \/ ListAssets(c)
        <5>1. ~Ensure(c) /\ ~Discover(c)
          BY <1>1, <3>1 DEF Ensure, Discover, Control, OpsAt
        <5>2. ~Start(c)
          BY <2>2, OwnRequest DEF Start
        <5> QED
          BY <5>1, <5>2, <2>2, <1>1, <3>5, Edges
      <4>2. CASE Retry(c)
        <5>1. UNCHANGED <<seen, datasets>> /\ pc[c] = "swap"
          BY <4>2, <3>1, <1>1 DEF Retry, Finish, Goto, LocalTypes
        <5> QED
          BY <5>1, <3>1, <3>2, <3>5, <1>1 DEF AloneOK
      <4> QED
        BY <4>1, <4>2, <3>4, <3>5
    <3>6. CASE pc'[c] = "mutate"
      <4>1. Select(c)
        BY <2>2, <1>1, <3>1, <3>6, Edges DEF Insert, Control, OpsAt
      <4>2. UNCHANGED <<seen, datasets>> /\ pc[c] = "select"
        BY <4>1, <3>6, <1>1 DEF Select, Finish, Goto, LocalTypes, locals
      <4> QED
        BY <4>2, <3>1, <3>2, <3>6, <1>1 DEF AloneOK
    <3>7. CASE pc'[c] = "swap"
      <4>1. Mutate(c)
        BY <2>2, <1>1, <3>7, Edges
      <4>2. UNCHANGED <<seen, datasets>> /\ pc[c] = "mutate"
        BY <4>1, <3>7, <1>1 DEF Mutate, Finish, Goto, LocalTypes, locals
      <4> QED
        BY <4>2, <3>1, <3>2, <3>7, <1>1 DEF AloneOK
    <3>8. CASE pc'[c] = "tx_select"
      <4>1. Cascade(c)
        BY <2>2, <1>1, <3>1, <3>8, Edges DEF Exists, Get, Control, OpsAt
      <4>2. UNCHANGED <<seen, datasets, project>> /\ pc[c] = "cascade"
        BY <4>1 DEF Cascade, store
      <4> QED
        BY <4>2, <3>1, <3>2, <3>8, <1>1 DEF AloneOK
    <3>9. CASE pc'[c] = "tx_write"
      <4>1. TxSelect(c)
        BY <2>2, <1>1, <3>9, Edges
      <4>2. /\ UNCHANGED <<seen, datasets, project, target>> /\ pc[c] = "tx_select"
            /\ found'[c] = datasets[target[c]]
        BY <4>1, <3>9, <1>1 DEF TxSelect, Finish, Goto, Became, LocalTypes
      <4> QED
        BY <4>2, <3>1, <3>2, <3>9, <1>1 DEF AloneOK
    <3>10. CASE pc'[c] = "cascade"
      <4>1. Swap(c) \/ ListAssets(c) \/ TxSame(c) \/ TxUpdate(c) \/ TxInsert(c)
        BY <2>2, <1>1, <3>10, Edges
      <4>2. CASE Swap(c)
        <5>1. UNCHANGED <<seen, datasets>> /\ pc[c] = "swap"
          BY <4>2, <3>1, <3>10, <1>1 DEF Swap, AfterMutate, Finish, Goto, LocalTypes
        <5>2. LabelTags' = Mutated(req[c], snap[c]).labels /\ snap[c] \in ProjectRow
          BY <4>2, SwapOfCommitted
        <5>3. Mutated(req[c], snap[c]) = [snap[c] EXCEPT !.labels = snap[c].labels \ {req[c].label}]
          BY <3>1 DEF Mutated
        <5>4. req[c].label \notin LabelTags'
          BY <5>2, <5>3 DEF ProjectRow
        <5>5. project' # NoRow
          BY <3>10 DEF FreshInv, Fresh
        <5> QED
          BY <5>1, <5>4, <5>5, <3>1, <3>2, <3>10, <1>1 DEF AloneOK, LabelTags
      <4>3. CASE TxSame(c) \/ TxUpdate(c) \/ TxInsert(c)
        <5>1. /\ pc[c] = "tx_write" /\ target[c] \in Assets
              /\ req[c].label \notin datasets'[target[c]].labels
              /\ \A a \in Assets \ {target[c]} : datasets'[a] = datasets[a]
              /\ project' # NoRow => req[c].label \notin project'.labels
          BY <4>3, <3>1, <1>1, LabelRemoved
        <5>2. AfterWrite(c)
          BY <4>3, <5>1, <3>10, <1>1, <3>1 DEF TxSame, TxUpdate, TxInsert, Finish, Goto, LocalTypes
        <5>3. seen'[c] = [seen[c] EXCEPT ![target[c]] = NoRow]
          BY <5>2, <3>10, <1>1 DEF AfterWrite, Finish, Goto, Became, LocalTypes
        <5>4. Tracks(c) /\ seen[c] \in [Assets -> Row \cup {NoRow}]
          BY <5>1, <3>1, <1>1 DEF AloneOK, LocalTypes
        <5>5. Tracks(c)'
          BY <5>1, <5>3, <5>4, <3>1 DEF Tracks, Labelled
        <5>6. project' # NoRow
          BY <3>10 DEF FreshInv, Fresh
        <5> QED
          BY <5>1, <5>5, <5>6, <3>1, <3>10
      <4> QED
        BY <4>1, <4>2, <4>3, <3>4, <3>10
    <3> QED
      BY <3>3, <3>5, <3>6, <3>7, <3>8, <3>9, <3>10
  <2> QED
    BY <2>1, <2>2
<1> QED
  BY <1>3, <1>4 DEF AloneOK

\* Every step keeps what a deletion that runs alone knows.
LEMMA AloneStep == FreshInv /\ FreshInv' /\ AloneInv /\ [Next]_vars => AloneInv'
<1> SUFFICES ASSUME FreshInv, FreshInv', AloneInv, [Next]_vars, NEW c \in Clients
             PROVE  AloneOK(c)'
  BY DEF AloneInv
<1>1. CASE UNCHANGED vars
  <2>1. UNCHANGED <<project, datasets, pc, req, snap, seen, found, target, alone>>
    BY <1>1 DEF vars, store, locals
  <2>2. AloneOK(c)
    BY DEF AloneInv
  <2> QED
    BY <2>1, <2>2 DEF AloneOK, Removing, Tracks, Labelled
<1>2. CASE Next
  <2>1. PICK d \in Clients : Start(d) \/ Step(d) \/ Crash(d)
    BY <1>2 DEF Next
  <2>2. CASE d = c
    BY <2>1, <2>2, AloneOwn
  <2>3. CASE d # c
    <3>1. ControlInv
      BY DEF FreshInv
    <3>2. pc'[c] = pc[c]
      BY <2>1, <2>3, <3>1, StepMoves DEF After, OthersKeep
    <3>3. alone'[c] => pc'[c] = "idle"
      BY <2>1, <2>3, <3>1, <3>2, OthersIdle
    <3> QED
      BY <3>3 DEF AloneOK, Removing
  <2> QED
    BY <2>2, <2>3
<1> QED
  BY <1>1, <1>2

\* A label whose deletion no other request overlaps and is answered with success is
\* on nothing any more, whatever number of assets had it and whatever requests died
\* halfway before (delete_label_meta).
THEOREM DeletedLabelsAreGone == Spec => LabelGone
<1>1. FreshInv /\ FreshInv' /\ AloneInv /\ [Next]_vars =>
        [\A c \in Clients :
           (pc[c] # "idle" /\ pc'[c] = "idle" /\ out'[c] = "ok"
            /\ req[c].op = "delete_label" /\ alone[c])
           => /\ (project' # NoRow => req[c].label \notin project'.labels)
              /\ \A a \in Assets :
                   datasets'[a] # NoRow => req[c].label \notin datasets'[a].labels]_vars
  <2> SUFFICES ASSUME FreshInv, FreshInv', AloneInv, Next, NEW c \in Clients,
                      pc[c] # "idle", pc'[c] = "idle", out'[c] = "ok",
                      req[c].op = "delete_label", alone[c]
               PROVE  /\ (project' # NoRow => req[c].label \notin project'.labels)
                      /\ \A a \in Assets :
                           datasets'[a] # NoRow => req[c].label \notin datasets'[a].labels
    OBVIOUS
  <2>1. PICK d \in Clients : Start(d) \/ Step(d) \/ Crash(d)
    BY DEF Next
  <2>2. /\ ControlInv /\ LocalTypes /\ AloneOK(c) /\ Control(c) /\ Removing(c)
        /\ datasets \in [Assets -> Row \cup {NoRow}]
    BY DEF FreshInv, ControlInv, Typed, TypeOK, LocalTypes, AloneInv, Removing
  <2>3. d = c
    BY <2>1, <2>2, StepMoves DEF After, OthersKeep
  <2>4. Swap(c) \/ TxSame(c) \/ TxUpdate(c) \/ TxInsert(c)
    <3>0. Start(c) \/ Step(c) \/ Crash(c)
      BY <2>1, <2>3
    <3>1. pc[c] \notin {"validate", "validate_assets", "ensure", "exists", "get", "get_again",
                        "tx_delete", "discover", "get_project", "reapply", "insert"}
      BY <2>2 DEF Control, OpsAt, AssetOps, MutatorOps
    <3>2. ~(\/ Start(c) \/ Insert(c) \/ Validate(c) \/ ValidateAssets(c) \/ Ensure(c) \/ Exists(c)
            \/ Get(c) \/ GetAgain(c) \/ TxDelete(c) \/ Discover(c) \/ GetProject(c) \/ Reapply(c))
      BY <3>1 DEF Start, Insert, Validate, ValidateAssets, Ensure, Exists, Get, GetAgain, TxDelete,
            Discover, GetProject, Reapply
    <3>3. ~(Select(c) \/ Retry(c) \/ ListAssets(c) \/ TxSelect(c) \/ Crash(c))
      BY <2>2 DEF Select, Retry, ListAssets, TxSelect, Crash, Finish, Goto, Became, CallMutate,
            LocalTypes
    <3>4. ~(Lookup(c) \/ Cascade(c))
      BY <2>2 DEF Lookup, Cascade, Goto, LocalTypes
    <3>5. ~Mutate(c)
      BY <2>2 DEF Mutate, Finish, Goto, Became, LocalTypes
    <3> QED
      BY <3>0, <3>2, <3>3, <3>4, <3>5 DEF Step
  <2>5. CASE Swap(c)
    <3>1. datasets' = datasets /\ ~Discovered(c) /\ pc[c] = "swap"
      BY <2>2, <2>5 DEF Swap, AfterMutate, Goto, LocalTypes
    <3>2. LabelTags' = Mutated(req[c], snap[c]).labels /\ snap[c] \in ProjectRow
      BY <2>5, SwapOfCommitted
    <3>3. Mutated(req[c], snap[c]) = [snap[c] EXCEPT !.labels = snap[c].labels \ {req[c].label}]
      BY DEF Mutated
    <3>4. req[c].label \notin LabelTags'
      BY <3>2, <3>3 DEF ProjectRow
    <3>5. Tracks(c)
      BY <2>2, <3>1 DEF AloneOK
    <3> QED
      BY <3>1, <3>4, <3>5 DEF LabelTags, Tracks, Labelled, Discovered
  <2>6. CASE TxSame(c) \/ TxUpdate(c) \/ TxInsert(c)
    <3>1. /\ pc[c] = "tx_write" /\ target[c] \in Assets
          /\ req[c].label \notin datasets'[target[c]].labels
          /\ \A a \in Assets \ {target[c]} : datasets'[a] = datasets[a]
          /\ project' # NoRow => req[c].label \notin project'.labels
      BY <2>2, <2>6, LabelRemoved
    <3>2. Tracks(c) /\ seen[c] \in [Assets -> Row \cup {NoRow}]
      BY <2>2, <3>1 DEF AloneOK, LocalTypes
    <3>3. [seen[c] EXCEPT ![target[c]] = NoRow] = Unseen
      BY <2>2, <2>6 DEF TxSame, TxUpdate, TxInsert, AfterWrite, Finish, Goto, Became, LocalTypes
    <3>4. \A a \in Assets \ {target[c]} : seen[c][a] = NoRow
      BY <3>2, <3>3 DEF Unseen
    <3> QED
      BY <3>1, <3>2, <3>4 DEF Tracks, Labelled
  <2> QED
    BY <2>4, <2>5, <2>6
<1>2. Init => FreshInv /\ AloneInv
  BY ControlInit, FreshInit, AloneInit DEF FreshInv
<1> QED
  BY <1>1, <1>2, FreshStep, AloneStep, PTL DEF Spec, LabelGone
===============================================================================
