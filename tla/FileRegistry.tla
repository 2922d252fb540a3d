------------------------------ MODULE FileRegistry ------------------------------
(***************************************************************************)
(* The file registry (infra/registry/registry.py over file.py) and the     *)
(* apply pipeline of the feature store that stages changes in it.  A       *)
(* registry is one protobuf message in one file.  Every process keeps a    *)
(* copy in memory; a change is made to the copy, and commit() truncates    *)
(* the file and writes the whole copy.  A process looks at the file again  *)
(* when its copy is older than the TTL, when the file has a newer          *)
(* modification time (cache_mode sync), or when it is told to.             *)
(*                                                                         *)
(* The message is abstracted to one project with one data source and one   *)
(* feature view with its version history.  Of times only the comparisons   *)
(* are kept: a copy may have expired whenever there is a TTL, and the file *)
(* is newer than the process believes, or not.                             *)
(***************************************************************************)
EXTENDS Naturals, Sequences, FiniteSetsExt

CONSTANTS
    Processes,    \* processes that have opened the registry
    Calls,        \* per process: the calls it may make, a set of Call records
    Values,       \* definitions of the data source
    Defs,         \* definitions of the feature view
    Pins,         \* explicit versions a feature view may be applied with
    Starts,       \* content of the file when the first process starts, or NoFile,
                  \* cache_mode, "sync" or "thread", and a bound on calls and crashes
    HasTtl,       \* whether cache_ttl_seconds is positive; 0 is for ever
    Latest, None, NoFile

ASSUME PinsAssumption == Pins \subseteq Nat /\ Latest \notin Pins

VARIABLES
    file,      \* content of the registry file, or NoFile
    mode,
    cache,     \* per process: cached_registry_proto
    behind,    \* per process: the file's mtime is newer than _file_mtime
    pc, then,  \* per process: next step, and the one after a commit or reload
    call,      \* per process: the call it is in
    todo,      \* per process: changes of the call that are not made yet
    known,     \* per process: the version record its apply has found
    old, num,  \* per process: the view its apply replaces, the number it takes
    attached,  \* per process: the list of views it changes is that of its copy
    reading,   \* per process: a thread has read the file and not its time yet
    writing,   \* per process: the message that commit() is writing
    truth,     \* the registry as the completed calls would make it, one at a time
    mishaps,   \* what has happened that excuses a difference: calls that overlap, or
               \* a thread's read with a call of its process or a commit of another;
               \* a crash during the write or a failed call (fault);
               \* a reload or a lookup at the wrong time
    left       \* calls and crashes that may still come

local == <<old, num, attached>>
memory == <<cache, behind, call, todo, known, local, reading, writing>>
vars == <<file, mode, memory, pc, then, truth, mishaps, left>>

--------------------------------------------------------------------------------
ViewRequest == [def : Defs, pin : Pins \cup {Latest}, promote : BOOLEAN]
Call ==
    [kind : {"apply"}, value : Values, view : ViewRequest]
    \cup [kind : {"diff"}, value : Values, view : ViewRequest \cup {None}]
    \cup [kind : {"source"}, value : Values]
    \cup [kind : {"view"}, view : ViewRequest]
    \cup [kind : {"delete"}]

Record == [ver : Nat, def : Defs]
Proto == [project : BOOLEAN, source : Values \cup {None},
          active : [def : Defs, pin : Pins \cup {Latest}] \cup {None},
          records : Seq(Record)]

ASSUME CallsAssumption == Calls \in [Processes -> SUBSET Call]
ASSUME NoneAssumption ==
    /\ None \notin Defs /\ None \notin ViewRequest /\ None \notin Call
    /\ None \notin [def : Defs, pin : Pins \cup {Latest}]
    /\ NoFile \notin Proto

\* RegistryProto(): also what a truncated file parses as.
EmptyProto == [project |-> FALSE, source |-> None, active |-> None, records |-> <<>>]

Init ==
    /\ \E s \in Starts : file = s.file /\ mode = s.mode /\ left = s.bound
    /\ cache = [p \in Processes |-> EmptyProto]
    /\ behind = [p \in Processes |-> FALSE]
    /\ pc = [p \in Processes |-> "down"]
    /\ then = [p \in Processes |-> "idle"]
    /\ call = [p \in Processes |-> None]
    /\ todo = [p \in Processes |-> <<>>]
    /\ known = [p \in Processes |-> None]
    /\ old = [p \in Processes |-> None]
    /\ num = [p \in Processes |-> 0]
    /\ attached = [p \in Processes |-> FALSE]
    /\ reading = [p \in Processes |-> FALSE]
    /\ writing = [p \in Processes |-> EmptyProto]
    /\ truth = (IF file = NoFile THEN EmptyProto ELSE file)
    /\ mishaps = {}

Goto(p, s) == pc' = [pc EXCEPT ![p] = s]
Became(f, p, v) == f' = [f EXCEPT ![p] = v]

\* The call is over.
Forget(p) == Became(call, p, None) /\ Became(todo, p, <<>>) /\ Became(known, p, None)

\* ... and so is the replacement of a view.
Released(p) == Became(old, p, None) /\ Became(num, p, 0) /\ Became(attached, p, FALSE)

\* The process reads the file into its copy.
Load(p) == Became(cache, p, file)

\* ... and takes the modification time afterwards, in a step of its own.
Reload(p, next) ==
    /\ file # NoFile
    /\ Load(p)
    /\ Goto(p, "stat") /\ Became(then, p, next)
    /\ UNCHANGED <<file, behind, call, known, local, reading, writing, truth, left>>

\* The file has a modification time that is new to everybody.
Touch == behind' = [q \in Processes |-> TRUE]

--------------------------------------------------------------------------------
\* apply_feature_view on a message.
Matching(records, v) == {i \in DOMAIN records : records[i].ver = v}

\* _get_version_record: the first record of the version.
VersionRecord(records, v) ==
    IF Matching(records, v) = {} THEN None ELSE records[Min(Matching(records, v))].def

\* _next_version_number
NextVersion(records) ==
    IF records = <<>> THEN 0 ELSE Max({records[i].ver : i \in DOMAIN records}) + 1

\* _save_version_record
Save(records, v, d) == Append(records, [ver |-> v, def |-> d])

PinConflict(proto, view, record) ==
    view.pin # Latest /\ record # None /\ proto.active # None /\ proto.active.def # view.def

AppliedLatest(proto, view) ==
    LET new == [def |-> view.def, pin |-> Latest]
        first == NextVersion(proto.records) = 0
        base == IF first THEN Save(proto.records, 0, proto.active.def) ELSE proto.records
    IN IF proto.active = None
         THEN [proto EXCEPT !.active = new, !.records = Save(@, 0, view.def)]
       ELSE IF proto.active.def = view.def
         THEN [proto EXCEPT !.active = new]
       ELSE [proto EXCEPT !.active = IF view.promote THEN new ELSE @,
                          !.records = Save(base, NextVersion(base), view.def)]

\* An explicit version: one that was not found is declared, with the definition at
\* hand; then the view becomes what the record that was found says, or that.
Declared(proto, view, record) ==
    IF record = None THEN [proto EXCEPT !.records = Save(@, view.pin, view.def)] ELSE proto

AppliedPin(proto, view, record) ==
    [proto EXCEPT !.active = [def |-> IF record = None THEN view.def ELSE record,
                              pin |-> view.pin]]

AppliedView(proto, view, record) ==
    IF view.pin = Latest THEN AppliedLatest(proto, view) ELSE AppliedPin(proto, view, record)

\* A view that does not exist yet, or whose definition is another one, is taken out
\* of its list, and put back when its version is recorded.
Renews(c, item, proto) ==
    /\ item = "view" /\ c.view.pin = Latest
    /\ proto.active = None \/ proto.active.def # c.view.def

Without(proto) == [proto EXCEPT !.active = None]

\* Fault: the version history outlives the view.
Cleaned_Fault(proto) == proto

\* delete_feature_view takes the view out of its list, then cleans up its history.
Cleaned(proto) == [proto EXCEPT !.records = <<>>]

DeletedView(proto) == Cleaned(Without(proto))

\* One change of call c to a message.
Changed(c, item, proto, record) ==
    CASE item = "project" -> [proto EXCEPT !.project = TRUE]
      [] item = "source" -> [proto EXCEPT !.source = c.value]
      [] item = "declare" -> Declared(proto, c.view, record)
      [] item = "view" -> AppliedView(proto, c.view, record)
      [] item = "delete" -> Without(proto)
      [] OTHER -> proto     \* update_infra: infra is not part of the abstraction

Raises(c, item, proto, record) ==
    \/ item = "declare" /\ PinConflict(proto, c.view, record)
    \/ item = "delete" /\ proto.active = None

ItemNames == {"project", "source", "declare", "view", "delete", "infra"}

\* The changes of a call, in order: FeatureStore.apply, or the diffs of feast apply.
ViewItems(view) == IF view.pin = Latest THEN <<"view">> ELSE <<"declare", "view">>

Items(c) ==
    CASE c.kind = "apply" -> <<"project", "source">> \o ViewItems(c.view)
      [] c.kind = "diff" /\ c.view # None -> <<"source">> \o ViewItems(c.view) \o <<"infra">>
      [] c.kind = "diff" /\ c.view = None -> <<"source", "delete", "infra">>
      [] c.kind = "view" -> ViewItems(c.view)
      [] OTHER -> <<c.kind>>

\* What the whole call does to the view when nothing else happens.
ViewEffect(c, proto) ==
    LET record == VersionRecord(proto.records, c.view.pin)
    IN IF c.kind = "source" THEN proto
       ELSE IF c.kind = "delete" \/ c.view = None THEN DeletedView(proto)
       ELSE IF c.view.pin = Latest THEN AppliedLatest(proto, c.view)
       ELSE AppliedPin(Declared(proto, c.view, record), c.view, record)

\* ... and to the registry: the project is there, the source has its definition.
Effect(c, proto) ==
    [ViewEffect(c, proto) EXCEPT
       !.project = TRUE,
       !.source = IF c.kind \in {"apply", "diff", "source"} THEN c.value ELSE @]

--------------------------------------------------------------------------------
Resting(p) == pc[p] \in {"idle", "down"}
Alone(p) == \A q \in Processes \ {p} : Resting(q)
Overlap(p) == IF Alone(p) THEN {} ELSE {"overlap"}

\* Registry.__init__: a missing file is created by a commit of the empty message.
Start(p) ==
    /\ pc[p] = "down"
    /\ \/ /\ file # NoFile
          /\ Load(p) /\ Became(behind, p, FALSE)
          /\ Goto(p, "idle") /\ UNCHANGED then
       \/ /\ file = NoFile
          /\ Became(cache, p, EmptyProto)
          /\ Goto(p, "open") /\ UNCHANGED then
          /\ UNCHANGED behind
    /\ mishaps' = mishaps \cup Overlap(p)
    /\ UNCHANGED <<file, mode, call, todo, known, local, reading, writing, truth, left>>

\* The process is killed.  Between truncation and write it leaves an empty file.
Crash(p) ==
    /\ pc[p] # "down" /\ left > 0
    /\ left' = left - 1
    /\ mishaps' = (IF pc[p] = "write" THEN mishaps \cup {"fault"} ELSE mishaps)
    /\ Goto(p, "down")
    /\ Became(cache, p, EmptyProto) /\ Became(writing, p, EmptyProto)
    /\ Became(behind, p, FALSE) /\ Became(reading, p, FALSE)
    /\ Forget(p) /\ Became(then, p, "idle") /\ Released(p)
    /\ UNCHANGED <<file, mode, truth>>

Begin(p) ==
    /\ pc[p] = "idle" /\ left > 0
    /\ \E c \in Calls[p] :
         /\ Became(call, p, c) /\ Became(todo, p, Items(c))
         /\ Goto(p, IF c.kind = "diff" THEN "plan" ELSE "prepare")
    /\ left' = left - 1
    /\ mishaps' = mishaps \cup Overlap(p)
    /\ UNCHANGED <<file, mode, cache, behind, known, local, reading, writing, then, truth>>

\* plan refreshes the copy and computes the diffs from it: a view that is not there
\* need not be deleted.
Plan(p) ==
    /\ pc[p] = "plan"
    /\ Reload(p, "infra")
    /\ Became(todo, p, IF file.active = None /\ call[p].view = None THEN <<"source", "infra">>
                       ELSE todo[p])
    /\ UNCHANGED <<mode, mishaps>>

\* The mtime after a read or a write (_get_registry_proto, commit).
Stat(p) ==
    /\ pc[p] = "stat"
    /\ Became(behind, p, FALSE)
    /\ Goto(p, then[p]) /\ Became(then, p, "idle")
    /\ IF then[p] = "idle" THEN Forget(p) ELSE UNCHANGED <<call, todo, known>>
    /\ UNCHANGED <<file, mode, cache, local, reading, writing, truth, mishaps, left>>

\* Fault: only the modification time is looked at.
MayBeStale_Fault(p) == mode = "sync" /\ behind[p]

\* _get_registry_proto with allow_cache: the copy may have to be replaced.  With a
\* TTL it may have expired whenever somebody looks.
MayBeStale(p) == HasTtl \/ (mode = "sync" /\ behind[p])

\* Fault: only the TTL is looked at.
MustBeStale_Fault(p) == FALSE

\* ... and the copy must be replaced, TTL or not.
MustBeStale(p) == mode = "sync" /\ behind[p]

\* A change that takes several steps, each on what is then the copy.
Midway == {"number", "save", "add", "clean"}

\* What is staged in the copy and not committed would be lost by a reload.
StagedSoFar(p) ==
    IF call[p] # None /\ ~Resting(p) /\ (\/ todo[p] = <<>> \/ pc[p] \in Midway
                                        \/ Head(todo[p]) # Head(Items(call[p])))
      THEN {"reload"} ELSE {}

\* apply_project does not prepare.  An explicit version is looked up in the copy as
\* it is; then _prepare_registry_for_changes looks for the project.
Prepare(p) ==
    /\ pc[p] = "prepare"
    /\ LET item == Head(todo[p])
       IN /\ Became(known, p, IF item = "declare"
                                THEN VersionRecord(cache[p].records, call[p].view.pin)
                                ELSE known[p])
          /\ \/ /\ item = "project" \/ (~MustBeStale(p) /\ cache[p].project)
                /\ Goto(p, "modify")
                /\ UNCHANGED <<cache, then, mishaps>>
             \/ /\ item # "project" /\ (MayBeStale(p) \/ ~cache[p].project)
                /\ file # NoFile
                /\ Load(p) /\ Goto(p, "stat") /\ Became(then, p, "prepared")
                /\ mishaps' = mishaps \cup StagedSoFar(p)
    /\ UNCHANGED <<file, mode, behind, call, todo, local, reading, writing, truth, left>>

\* After the reload: a project that is still missing is added and committed at once.
Prepared(p) ==
    /\ pc[p] = "prepared"
    /\ \/ /\ cache[p].project
          /\ Goto(p, "modify")
          /\ UNCHANGED <<cache, behind, then>>
       \/ /\ ~cache[p].project /\ file.project
          /\ Load(p) /\ Goto(p, "stat") /\ Became(then, p, "prepared")
          /\ UNCHANGED behind
       \/ /\ ~cache[p].project /\ ~file.project
          /\ Became(cache, p, [file EXCEPT !.project = TRUE])
          /\ Became(behind, p, FALSE)
          /\ Goto(p, "open") /\ Became(then, p, "modify")
    /\ UNCHANGED <<file, mode, call, todo, known, local, reading, writing, truth, mishaps,
                   left>>

\* The call raises: what it has staged stays in the copy.
Fail(p) ==
    /\ mishaps' = (IF StagedSoFar(p) = {} THEN mishaps ELSE mishaps \cup {"fault"})
    /\ Goto(p, "idle") /\ Forget(p)
    /\ UNCHANGED <<cache, then>>

\* The last change is made.
Finish(p, unchanged) ==
    CASE call[p].kind = "apply" -> Goto(p, "infra")
      [] call[p].kind = "source" /\ unchanged -> Goto(p, "idle")
      [] OTHER -> Goto(p, "open")

\* A version record that was looked up in an old copy.
Blind(p) ==
    /\ Head(todo[p]) = "declare"
    /\ known[p] # VersionRecord(cache[p].records, call[p].view.pin)

\* The change is made, and the next one follows.
Done(p, new) ==
    /\ Became(cache, p, new)
    /\ Became(todo, p, Tail(todo[p]))
    /\ IF Len(todo[p]) > 1 THEN Goto(p, "prepare") ELSE Finish(p, new = cache[p])

\* A change begins, and most are over at once.
Modify(p) ==
    /\ pc[p] = "modify"
    /\ LET item == Head(todo[p])
       IN \/ /\ Raises(call[p], item, cache[p], known[p])
             /\ Fail(p)
             /\ UNCHANGED local
          \/ /\ ~Raises(call[p], item, cache[p], known[p])
             /\ IF Renews(call[p], item, cache[p])
                THEN /\ Became(old, p, cache[p].active) /\ Became(attached, p, TRUE)
                     /\ Became(cache, p, Without(cache[p]))
                     /\ Goto(p, "number") /\ UNCHANGED <<num, todo>>
                ELSE /\ IF item = "delete"
                        THEN /\ Became(cache, p, Without(cache[p]))
                             /\ Goto(p, "clean") /\ UNCHANGED todo
                        ELSE Done(p, Changed(call[p], item, cache[p], known[p]))
                     /\ UNCHANGED local
             /\ mishaps' = (IF Blind(p) THEN mishaps \cup {"lookup"} ELSE mishaps)
             /\ UNCHANGED <<call, known, then>>
    /\ UNCHANGED <<file, mode, behind, reading, writing, truth, left>>

\* The next version number is that of the copy as it is now; a new view is version 0.
Number(p) ==
    /\ pc[p] = "number"
    /\ Became(num, p, IF old[p] = None THEN 0 ELSE NextVersion(cache[p].records))
    /\ Goto(p, "save")
    /\ UNCHANGED <<file, mode, cache, behind, call, todo, known, old, attached, reading,
                   writing, then, truth, mishaps, left>>

\* A record is added to the copy as it is now: of the replaced view if it is the
\* first, then of the new one.
SaveRecord(p) ==
    /\ pc[p] = "save"
    /\ LET first == old[p] # None /\ num[p] = 0
           def == IF first THEN old[p].def ELSE call[p].view.def
       IN /\ Became(cache, p, [cache[p] EXCEPT !.records = Save(@, num[p], def)])
          /\ IF first THEN Became(num, p, 1) /\ UNCHANGED pc
             ELSE Goto(p, "add") /\ UNCHANGED num
    /\ UNCHANGED <<file, mode, behind, call, todo, known, old, attached, reading,
                   writing, then, truth, mishaps, left>>

\* The view goes to the list it was taken from; the replaced one if it is not promoted.
\* The list may be that of a message that is no longer the copy.
AddView(p) ==
    /\ pc[p] = "add"
    /\ LET view == IF old[p] = None \/ call[p].view.promote
                     THEN [def |-> call[p].view.def, pin |-> Latest] ELSE old[p]
       IN Done(p, IF attached[p] THEN [cache[p] EXCEPT !.active = view] ELSE cache[p])
    /\ Released(p)
    /\ UNCHANGED <<file, mode, behind, call, known, reading, writing, then, truth,
                   mishaps, left>>

\* The history of a deleted view goes from the copy as it is now.
Clean(p) ==
    /\ pc[p] = "clean"
    /\ Done(p, Cleaned(cache[p]))
    /\ UNCHANGED <<file, mode, behind, call, known, local, reading, writing, then, truth,
                   mishaps, left>>

\* The provider updates the infrastructure, and may fail: after the changes are
\* staged in FeatureStore.apply, before that in _apply_diffs.
Infra(p) ==
    /\ pc[p] = "infra"
    /\ \/ /\ IF call[p].kind = "diff" THEN Goto(p, "prepare") /\ UNCHANGED then
             ELSE Goto(p, "open") /\ Became(then, p, "after")
          /\ UNCHANGED <<cache, call, todo, known, mishaps>>
       \/ Fail(p)
    /\ UNCHANGED <<file, mode, behind, local, reading, writing, truth, left>>

\* A thread of another process has read the file, and takes its time after this.
Straddled(p) == IF \E q \in Processes \ {p} : reading[q] THEN {"overlap"} ELSE {}

\* commit(): _write_registry opens the file, which truncates it, and writes the
\* message that was cached when commit was called.
Open(p) ==
    /\ pc[p] = "open"
    /\ Became(writing, p, cache[p])
    /\ file' = EmptyProto
    /\ Touch
    /\ Goto(p, "write")
    /\ mishaps' = mishaps \cup Straddled(p)
    /\ UNCHANGED <<mode, cache, call, todo, known, local, reading, then, truth, left>>

\* The clock of the file system may not have moved on since the truncation.
Write(p) ==
    /\ pc[p] = "write"
    /\ file' = writing[p]
    /\ Became(writing, p, EmptyProto)
    /\ Touch \/ UNCHANGED behind
    /\ truth' = (IF call[p] = None \/ ~(mishaps \subseteq {"reload"}) THEN truth
                 ELSE IF then[p] = "modify" THEN [truth EXCEPT !.project = TRUE]
                 ELSE Effect(call[p], truth))
    /\ Goto(p, "stat")
    /\ mishaps' = mishaps \cup Straddled(p)
    /\ UNCHANGED <<mode, cache, call, todo, known, local, reading, then, left>>

\* FeatureStore.apply refreshes the copy after its commit, in sync mode.
After(p) ==
    /\ pc[p] = "after"
    /\ \/ /\ mode = "sync" /\ Reload(p, "idle") /\ UNCHANGED todo
       \/ /\ mode # "sync" /\ Goto(p, "idle") /\ Forget(p)
          /\ UNCHANGED <<file, cache, behind, local, reading, writing, then, truth, left>>
    /\ UNCHANGED <<mode, mishaps>>

Step(p) ==
    \/ Plan(p) \/ Stat(p) \/ Prepare(p) \/ Prepared(p)
    \/ Modify(p) \/ Number(p) \/ SaveRecord(p) \/ AddView(p) \/ Clean(p)
    \/ Infra(p) \/ Open(p) \/ Write(p) \/ After(p)

--------------------------------------------------------------------------------
\* Another thread of the process reads the file, because its cached read finds the
\* copy stale, or because it does not want the copy.
ThreadLoads(p) ==
    /\ pc[p] # "down" /\ file # NoFile /\ ~reading[p]
    /\ Load(p) /\ Became(reading, p, TRUE) /\ Became(attached, p, FALSE)
    /\ mishaps' = mishaps \cup StagedSoFar(p)
                  \cup (IF pc[p] = "idle" /\ \A q \in Processes : pc[q] # "write" THEN {}
                        ELSE {"overlap"})
    /\ UNCHANGED <<file, mode, behind, call, todo, known, old, num, writing, pc, then,
                   truth, left>>

\* ... and takes the modification time afterwards.
ThreadStats(p) ==
    /\ reading[p]
    /\ Became(reading, p, FALSE) /\ Became(behind, p, FALSE)
    /\ UNCHANGED <<file, mode, cache, call, todo, known, local, writing, pc, then, truth,
                   mishaps, left>>

CachedLoad(p) == MayBeStale(p) /\ ThreadLoads(p)

Next == \E p \in Processes :
    \/ Start(p) \/ Crash(p) \/ Begin(p) \/ Step(p)
    \/ ThreadLoads(p) \/ ThreadStats(p)

\* A process goes on with its call, and one that is up goes on reading with the cache
\* allowed (a server answers requests), also after its TTL.
Fairness == \A p \in Processes :
    /\ WF_vars(Step(p)) /\ WF_vars(Start(p))
    /\ WF_vars(CachedLoad(p)) /\ WF_vars(ThreadStats(p))

Spec == Init /\ [][Next]_vars /\ Fairness

--------------------------------------------------------------------------------
PcValues == {"down", "idle", "plan", "prepare", "prepared", "modify", "infra",
             "open", "write", "stat", "after"} \cup Midway

\* Type invariant: a process has changes to make only inside a call, and a file that
\* is missing is missed only by processes that are down or about to create it.
TypeOK ==
    /\ file \in Proto \cup {NoFile}
    /\ mode \in {"sync", "thread"}
    /\ cache \in [Processes -> Proto] /\ writing \in [Processes -> Proto]
    /\ behind \in [Processes -> BOOLEAN]
    /\ pc \in [Processes -> PcValues] /\ then \in [Processes -> PcValues]
    /\ call \in [Processes -> Call \cup {None}] /\ todo \in [Processes -> Seq(ItemNames)]
    /\ known \in [Processes -> Defs \cup {None}]
    /\ old \in [Processes -> [def : Defs, pin : Pins \cup {Latest}] \cup {None}]
    /\ num \in [Processes -> Nat]
    /\ attached \in [Processes -> BOOLEAN] /\ reading \in [Processes -> BOOLEAN]
    /\ truth \in Proto /\ left \in Nat
    /\ mishaps \subseteq {"overlap", "fault", "reload", "lookup"}
    /\ \A p \in Processes : pc[p] \in {"prepare", "prepared", "modify"} \cup Midway => todo[p] # <<>>
    /\ file = NoFile => \A p \in Processes : pc[p] \in {"down", "open"}

\* In sync mode, when calls do not overlap and no read of another thread overlaps a
\* call of its process or a commit, every call finds what the calls before it have
\* committed, in whatever process, and the file holds the result of all of them:
\* whatever the caches have missed, and whatever dies before it opens the file
\* (_get_registry_proto, commit).
SequentialUse ==
    (mishaps = {} /\ mode = "sync" /\ file # NoFile /\ \A p \in Processes : Resting(p)) => file = truth

\* What all write operations of a call have changed in the copy is in the file when
\* its commit has returned, also when the copy expires while the call is under way
\* (the comment on cached_registry_proto, registry.py:207).
StagedIsCommitted ==
    (mishaps \subseteq {"reload"} /\ mode = "sync" /\ file # NoFile /\ \A p \in Processes : Resting(p))
    => file = truth

\* A history has one record of a version, and a view that is pinned to a version has
\* the definition recorded for it.
Consistent(proto) ==
    /\ \A i, j \in DOMAIN proto.records : proto.records[i].ver = proto.records[j].ver => i = j
    /\ (proto.active # None /\ proto.active.pin # Latest)
       => VersionRecord(proto.records, proto.active.pin) = proto.active.def

\* The file was written by a registry: a view that does not exist has no history.
ASSUME StartsAssumption ==
    \A s \in Starts :
       /\ s.mode \in {"sync", "thread"} /\ s.bound \in Nat
       /\ \/ s.file = NoFile
          \/ /\ s.file \in Proto /\ Consistent(s.file)
             /\ s.file.active = None => s.file.records = <<>>

\* Copies that are overwritten, lost, truncated or left behind by a failed call never
\* mix two histories of a view.  Only two things do: a copy that is replaced while a
\* call of its process changes it or has changed it, and an explicit version that
\* was looked up in an old copy (apply_feature_view looks before it prepares).
HistoryConsistent ==
    {"lookup", "reload"} \cap mishaps # {}
    \/ /\ file # NoFile => Consistent(file)
       /\ \A p \in Processes : Consistent(cache[p])

\* When no more calls are made, every process that goes on reading ends up with the
\* content of the file: no change is missed for ever, and changes that a failed call
\* has left in a copy go away.
Converges == <>[](\A p \in Processes : pc[p] = "idle" => cache[p] = file)
================================================================================
