------------------------ MODULE SqlFeatureViewVersions ------------------------
(***************************************************************************)
(* One feature view of one project in the SQL registry                     *)
(* (sdk/python/feast/infra/registry/sql.py): the active row, the table     *)
(* feature_view_version_history, and clients that run apply_feature_view   *)
(* (latest, pin, forward declaration, no_promote), delete_feature_view and *)
(* delete_project concurrently. A step is one SQL statement or one         *)
(* transaction that the database runs atomically; between two steps of a   *)
(* client any other client may run, and a client may crash.                *)
(***************************************************************************)
EXTENDS Integers, FiniteSets, FiniteSetsExt

CONSTANTS
    Clients,
    Schemas,       \* what _schema_or_udf_changed looks at
    Metas,         \* the rest of the definition: description, tags, ttl, ...
    PinVersions,   \* version numbers that clients ask for explicitly
    NoPromotes,    \* the values of no_promote that clients use
    Deletes,       \* subset of {"view", "project"}: deletions that happen
    MayCrash,      \* TRUE: clients may die between two steps
    MaxRetries,    \* max_retries of the latest apply
    MaxOps,        \* bound: operations started
    MaxVersion,    \* bound: version numbers
    NoRow          \* no such row

ASSUME BoundsAssumption ==
    /\ MaxRetries \in Nat \ {0} /\ MaxOps \in Nat /\ MaxVersion \in Nat
    /\ PinVersions \subseteq 0..MaxVersion
    /\ NoPromotes \subseteq BOOLEAN /\ MayCrash \in BOOLEAN
    /\ Deletes \subseteq {"view", "project"}

Latest == -1   \* version = "latest"
None == -1     \* current_version_number is None

Versions == 0..MaxVersion
Row == [schema : Schemas, meta : Metas,
        ver : {Latest} \cup Versions, cvn : {None} \cup Versions]

ASSUME NoRowAssumption == NoRow \notin Row

VARIABLES
    active,    \* the row of the feature view's table
    history,   \* feature_view_version_history, by version number
    pc,        \* where each client is
    obj,       \* the feature view object each client applies
    noPromote, \* no_promote of each client's call
    old,       \* old_proto_bytes
    seen,      \* the row that _apply_object's SELECT returned
    nextVer,   \* next_ver
    tries,     \* attempt
    ops,       \* operations started so far
    deleted,   \* which deletions have happened
    forward    \* a forward declaration has happened

local == <<obj, noPromote, old, seen, nextVer, tries>>
vars == <<active, history, pc, local, ops, deleted, forward>>

Ended == {"done", "pinConflict", "versionConflict", "integrityError", "notFound", "crashed"}
Labels == {"idle", "getSnapshot", "pinCheck", "forward", "readOld", "select", "write",
           "readNew", "nextVersion", "saveOld", "saveNext", "promote", "saveFirst"}
          \cup Ended

Recorded == {n \in Versions : history[n] # NoRow}

\* FeatureView.__eq__: neither current_version_number nor state is compared.
Same(r, s) == r.schema = s.schema /\ r.meta = s.meta /\ r.ver = s.ver

\* _schema_or_udf_changed
SchemaChanged_Fault(r, s) == r.schema # s.schema /\ r.meta # s.meta
SchemaChanged(r, s) == r.schema # s.schema

Init ==
    /\ active = NoRow
    /\ history = [n \in Versions |-> NoRow]
    /\ pc = [c \in Clients |-> "idle"]
    /\ obj = [c \in Clients |-> NoRow]
    /\ noPromote = [c \in Clients |-> FALSE]
    /\ old = [c \in Clients |-> NoRow]
    /\ seen = [c \in Clients |-> NoRow]
    /\ nextVer = [c \in Clients |-> 0]
    /\ tries = [c \in Clients |-> 0]
    /\ ops = 0
    /\ deleted = {}
    /\ forward = FALSE

\* A client between two calls; after a crash the user runs feast again.
AtRest(c) == pc[c] \in {"idle"} \cup Ended

Goto(c, label) == pc' = [pc EXCEPT ![c] = label]

-------------------------------------------------------------------------------
(* apply_feature_view *)

\* parse_version decides between the explicit and the latest path. The object
\* comes from a feature repository: it has no current_version_number.
StartApply(c) ==
    /\ AtRest(c)
    /\ ops < MaxOps
    /\ \E s \in Schemas, m \in Metas, v \in {Latest} \cup PinVersions, np \in NoPromotes :
         /\ obj' = [obj EXCEPT ![c] = [schema |-> s, meta |-> m, ver |-> v, cvn |-> None]]
         /\ noPromote' = [noPromote EXCEPT ![c] = np]
         /\ Goto(c, IF v = Latest THEN "readOld" ELSE "getSnapshot")
    /\ old' = [old EXCEPT ![c] = NoRow]
    /\ seen' = [seen EXCEPT ![c] = NoRow]
    /\ nextVer' = [nextVer EXCEPT ![c] = 0]
    /\ tries' = [tries EXCEPT ![c] = 0]
    /\ ops' = ops + 1
    /\ UNCHANGED <<active, history, deleted, forward>>

\* Explicit version: it exists (pin) or not (forward declaration). The restored
\* object is kept in seen until the check against the active row has passed.
GetSnapshot(c) ==
    /\ pc[c] = "getSnapshot"
    /\ LET snapshot == history[obj[c].ver] IN
         IF snapshot # NoRow
         THEN seen' = [seen EXCEPT ![c] = snapshot] /\ Goto(c, "pinCheck") /\ UNCHANGED obj
         ELSE /\ obj' = [obj EXCEPT ![c].cvn = obj[c].ver]
              /\ Goto(c, "forward")
              /\ UNCHANGED seen
    /\ UNCHANGED <<active, history, noPromote, old, nextVer, tries, ops, deleted, forward>>

\* Pin: the definition must be the active one, up to its version; then the
\* snapshot is applied under the version that was asked for.
Restored_Fault(c) == [obj[c] EXCEPT !.cvn = obj[c].ver]
Restored(c) == [seen[c] EXCEPT !.ver = obj[c].ver, !.cvn = obj[c].ver]

PinCheck(c) ==
    /\ pc[c] = "pinCheck"
    /\ IF active # NoRow /\ ~Same([obj[c] EXCEPT !.ver = Latest], [active EXCEPT !.ver = Latest])
       THEN Goto(c, "pinConflict") /\ UNCHANGED obj
       ELSE Goto(c, "select") /\ obj' = [obj EXCEPT ![c] = Restored(c)]
    /\ UNCHANGED <<active, history, noPromote, old, seen, nextVer, tries, ops, deleted, forward>>

\* _save_version_snapshot: an INSERT that fails on an existing primary key.
Recordable_Fault(n) == TRUE
Recordable(n) == history[n] = NoRow

Save(n, row) == history' = [history EXCEPT ![n] = row]

\* Forward declaration: record the version, then apply it as the active row.
SaveForward(c) ==
    /\ pc[c] = "forward"
    /\ IF Recordable(obj[c].ver)
       THEN Save(obj[c].ver, obj[c]) /\ Goto(c, "select") /\ forward' = TRUE
       ELSE Goto(c, "versionConflict") /\ UNCHANGED <<history, forward>>
    /\ UNCHANGED <<active, local, ops, deleted>>

\* Latest path: remember the old row.
ReadOld(c) ==
    /\ pc[c] = "readOld"
    /\ old' = [old EXCEPT ![c] = active]
    /\ Goto(c, "select")
    /\ UNCHANGED <<active, history, obj, noPromote, seen, nextVer, tries, ops, deleted, forward>>

\* _apply_object, its SELECT.
Select(c) ==
    /\ pc[c] = "select"
    /\ seen' = [seen EXCEPT ![c] = active]
    /\ Goto(c, "write")
    /\ UNCHANGED <<active, history, obj, noPromote, old, nextVer, tries, ops, deleted, forward>>

\* Fault: the UPDATE keeps the version number of the row it replaces.
Written_Fault(c) ==
    IF seen[c] = NoRow
    THEN IF active = NoRow THEN obj[c] ELSE active
    ELSE IF active = NoRow \/ Same(seen[c], obj[c]) THEN active
    ELSE IF obj[c].cvn = None THEN [obj[c] EXCEPT !.cvn = active.cvn] ELSE obj[c]

\* _apply_object, its INSERT or UPDATE: an equal row is left alone, an INSERT
\* that meets a row is skipped, an UPDATE of a deleted row changes nothing.
Written(c) ==
    IF seen[c] = NoRow
    THEN IF active = NoRow THEN obj[c] ELSE active
    ELSE IF active = NoRow \/ Same(seen[c], obj[c]) THEN active ELSE obj[c]

Write(c) ==
    /\ pc[c] = "write"
    /\ active' = Written(c)
    /\ Goto(c, IF obj[c].ver = Latest THEN "readNew" ELSE "done")
    /\ UNCHANGED <<history, local, ops, deleted, forward>>

\* Latest path: has anything version-significant changed since ReadOld?
ReadNew(c) ==
    /\ pc[c] = "readNew"
    /\ Goto(c, IF active = NoRow THEN "done"
               ELSE IF old[c] = NoRow THEN "saveFirst"
               ELSE IF SchemaChanged(active, old[c]) THEN "nextVersion"
               ELSE "done")
    /\ UNCHANGED <<active, history, local, ops, deleted, forward>>

\* _get_next_version_number; a first version is preceded by a snapshot of the old row.
NextVersionNumber_NoIncrement == IF Recorded = {} THEN -1 ELSE Max(Recorded)
NextVersionNumber_Fault == Cardinality(Recorded) + 1
NextVersionNumber == IF Recorded = {} THEN 0 ELSE Max(Recorded) + 1

GetNextVersion(c) ==
    /\ pc[c] = "nextVersion"
    /\ NextVersionNumber <= MaxVersion
    /\ nextVer' = [nextVer EXCEPT ![c] = NextVersionNumber]
    /\ Goto(c, IF NextVersionNumber = 0 /\ tries[c] = 0 THEN "saveOld" ELSE "saveNext")
    /\ UNCHANGED <<active, history, obj, noPromote, old, seen, tries, ops, deleted, forward>>

\* First time versioning: the old row becomes v0. Nothing catches its IntegrityError.
SaveOld(c) ==
    /\ pc[c] = "saveOld"
    /\ IF Recordable(0)
       THEN /\ Save(0, old[c]) /\ Goto(c, "saveNext")
            /\ nextVer' = [nextVer EXCEPT ![c] = 1]
       ELSE Goto(c, "integrityError") /\ UNCHANGED <<history, nextVer>>
    /\ UNCHANGED <<active, obj, noPromote, old, seen, tries, ops, deleted, forward>>

\* The retry loop: claim the next number, or read it again. With no_promote the
\* call ends once the snapshot is recorded.
AfterConflict_Fault(n) == "versionConflict"
AfterConflict(n) == IF n + 1 = MaxRetries THEN "versionConflict" ELSE "nextVersion"

SaveNext(c) ==
    LET row == [obj[c] EXCEPT !.cvn = nextVer[c]] IN
    /\ pc[c] = "saveNext"
    /\ nextVer[c] <= MaxVersion
    /\ IF Recordable(nextVer[c])
       THEN /\ Save(nextVer[c], row)
            /\ obj' = [obj EXCEPT ![c] = row]
            /\ Goto(c, IF noPromote[c] THEN "done" ELSE "promote")
            /\ UNCHANGED tries
       ELSE /\ tries' = [tries EXCEPT ![c] = @ + 1]
            /\ Goto(c, AfterConflict(tries[c]))
            /\ UNCHANGED <<history, obj>>
    /\ UNCHANGED <<active, noPromote, old, seen, nextVer, ops, deleted, forward>>

\* New feature view: record it as v0. Nothing catches its IntegrityError.
SaveFirst(c) ==
    LET row == [obj[c] EXCEPT !.cvn = 0] IN
    /\ pc[c] = "saveFirst"
    /\ IF Recordable(0)
       THEN Save(0, row) /\ Goto(c, "promote") /\ obj' = [obj EXCEPT ![c] = row]
       ELSE Goto(c, "integrityError") /\ UNCHANGED <<history, obj>>
    /\ UNCHANGED <<active, noPromote, old, seen, nextVer, tries, ops, deleted, forward>>

\* The last UPDATE: the active row with its version number.
Promote(c) ==
    /\ pc[c] = "promote"
    /\ active' = IF active = NoRow THEN NoRow ELSE obj[c]
    /\ Goto(c, "done")
    /\ UNCHANGED <<history, local, ops, deleted, forward>>

-------------------------------------------------------------------------------
(* Deletions and crashes *)

\* delete_feature_view removes the row and its history in one transaction.
HistoryAfterDelete_Fault == history
HistoryAfterDelete == [n \in Versions |-> NoRow]

DeleteFeatureView(c) ==
    /\ "view" \in Deletes /\ ops < MaxOps
    /\ AtRest(c)
    /\ IF active = NoRow
       THEN Goto(c, "notFound") /\ UNCHANGED <<active, history, deleted>>
       ELSE /\ active' = NoRow
            /\ history' = HistoryAfterDelete
            /\ deleted' = deleted \cup {"view"}
            /\ Goto(c, "done")
    /\ ops' = ops + 1
    /\ obj' = [obj EXCEPT ![c] = NoRow]
    /\ UNCHANGED <<noPromote, old, seen, nextVer, tries, forward>>

\* delete_project removes the rows of every table with a project_id it lists;
\* feature_view_version_history is not one of them.
DeleteProject(c) ==
    /\ "project" \in Deletes /\ ops < MaxOps
    /\ AtRest(c)
    /\ active' = NoRow
    /\ deleted' = deleted \cup {"project"}
    /\ Goto(c, "done")
    /\ ops' = ops + 1
    /\ obj' = [obj EXCEPT ![c] = NoRow]
    /\ UNCHANGED <<history, noPromote, old, seen, nextVer, tries, forward>>

Crash(c) ==
    /\ MayCrash
    /\ ~AtRest(c)
    /\ Goto(c, "crashed")
    /\ UNCHANGED <<active, history, local, ops, deleted, forward>>

ApplyStep(c) ==
    \/ GetSnapshot(c) \/ PinCheck(c) \/ SaveForward(c)
    \/ ReadOld(c) \/ Select(c) \/ Write(c) \/ ReadNew(c)
    \/ GetNextVersion(c) \/ SaveOld(c) \/ SaveNext(c) \/ SaveFirst(c) \/ Promote(c)

Next == \E c \in Clients :
    \/ StartApply(c) \/ ApplyStep(c)
    \/ DeleteFeatureView(c) \/ DeleteProject(c) \/ Crash(c)

Spec == Init /\ [][Next]_vars

-------------------------------------------------------------------------------
(* Properties *)

Quiet == \A c \in Clients : AtRest(c)

\* The type of every variable.
TypeOK ==
    /\ active \in Row \cup {NoRow}
    /\ history \in [Versions -> Row \cup {NoRow}]
    /\ pc \in [Clients -> Labels]
    /\ obj \in [Clients -> Row \cup {NoRow}]
    /\ noPromote \in [Clients -> BOOLEAN]
    /\ old \in [Clients -> Row \cup {NoRow}]
    /\ seen \in [Clients -> Row \cup {NoRow}]
    /\ nextVer \in [Clients -> 0..(MaxVersion + 1)]
    /\ tries \in [Clients -> 0..MaxRetries]
    /\ ops \in 0..MaxOps
    /\ deleted \subseteq {"view", "project"}
    /\ forward \in BOOLEAN

\* A recorded version is never changed and disappears only when its feature view
\* is deleted: pins, races on a number and retries leave the history intact.
HistoryAppendOnly ==
    [][\/ \A n \in Recorded : history'[n] = history[n]
       \/ active # NoRow /\ active' = NoRow /\ \A n \in Versions : history'[n] = NoRow]_vars

\* An active row that is pinned to version n is the snapshot n, whatever else was
\* applied between reading the snapshot and writing the row.
PinnedIsSnapshot ==
    ("view" \notin deleted /\ active # NoRow /\ active.ver # Latest)
    => /\ history[active.ver] # NoRow
       /\ active.schema = history[active.ver].schema
       /\ active.meta = history[active.ver].meta
       /\ active.cvn = active.ver

\* Without forward declarations and delete_feature_view the version numbers are contiguous
\* from 0, also while applies race for the same number.
ContiguousVersions ==
    ("view" \notin deleted /\ ~forward) => \A n \in Recorded : n > 0 => n - 1 \in Recorded

\* A latest apply gives up only after losing max_retries numbers, each to a
\* different call: besides itself and the call that created the row, that many
\* others were started.
RetriesSuffice ==
    \A c \in Clients :
      (pc[c] = "versionConflict" /\ obj[c] # NoRow /\ obj[c].ver = Latest) => ops >= MaxRetries + 2

\* Whenever no call is running, the active definition is a recorded version: every
\* sequence of calls that changes the definition has also recorded it.
ActiveIsRecorded ==
    (Quiet /\ active # NoRow /\ "project" \notin deleted)
    => \E n \in Recorded : history[n].schema = active.schema

\* Whenever no call is running, the version number that the active row carries is
\* that of its own schema, so that an unversioned read uses the right table, also
\* after in-place changes, no_promote applies and pins.  They may leave the row
\* without a number, and then the table of v0 is read.
NumberIsOfSchema ==
    (Quiet /\ active # NoRow /\ active.cvn # None /\ "project" \notin deleted)
    => /\ history[active.cvn] # NoRow
       /\ ~SchemaChanged(active, history[active.cvn])

\* Whenever no call is running, a feature view that does not exist has no versions,
\* so that the next first apply can record v0.
NoOrphanVersions == (Quiet /\ active = NoRow /\ "project" \notin deleted) => Recorded = {}
===============================================================================
