---------------------------- MODULE RegistryCache ----------------------------
(***************************************************************************)
(* What a feature server process keeps of a SQL registry, and the threads  *)
(* that read and replace it without a common lock:                         *)
(*   - CachingRegistry: the cached proto, the time it was made, the        *)
(*     non-blocking lock of the expiry refresh, the timer of mode "thread"; *)
(*   - SqlRegistry.proto(), which reads one table after the other, the     *)
(*     refresh that in mode "sync" follows most writes, and the writes it  *)
(*     does not follow;                                                    *)
(*   - the feature server's chain of timers and its vector store index;    *)
(*   - the resolution cache in front of the cached proto                   *)
(*     (utils._get_cached_request_context), tagged with the time of the    *)
(*     proto it was made from.                                             *)
(* The registry has one project.  A table's content is the number of       *)
(* writes made to it, 0 if it is empty.  Times are only compared for       *)
(* equality and for expiry: a remembered time is the number of different   *)
(* remembered times up to cached_registry_proto_created, which is 0, and   *)
(* `expired` says whether that lies a TTL back.                            *)
(***************************************************************************)
EXTENDS Naturals, FiniteSets

CONSTANTS Readers,     \* request threads, all asking for the same features
          Writers,     \* threads that write to the registry (materialization)
          Timer,       \* the refresh timer of cache mode "thread"
          Server,      \* the feature server's timer, async_refresh
          Crews,       \* the processes examined: cache mode, threads, whether
                       \* proto() uses a thread pool, bound on the writes
          MaxFails,    \* bound: reads of the database that raise
          Free, None   \* nobody holds the lock; no time, no entry

VARIABLES crew,        \* the process: its cache_mode and its threads
          db,          \* the tables of the registry database
          cached,      \* cached_registry_proto
          expired,     \* now > cached_registry_proto_created + ttl
          lock,        \* _refresh_lock
          res,         \* _feature_resolution_cache and its timestamp
          th,          \* the threads
          shutting,    \* shutting_down of the feature server
          vs,          \* the vector store index: version of the feature views
          fails,       \* database reads that have raised so far
          covered,     \* history: the tables as of the last commit that a
                       \* refresh by its writer follows
          excused      \* history: such a refresh failed, or an older proto
                       \* has replaced a newer one

vars == <<crew, db, cached, expired, lock, res, th, shutting, vs,
          fails, covered, excused>>

Threads == Readers \cup Writers \cup {Timer, Server}

ASSUME CacheAssumption ==
    /\ Readers \cap Writers = {}
    /\ {Timer, Server} \cap (Readers \cup Writers) = {}
    /\ Timer # Server
    /\ Free \notin Readers /\ IsFiniteSet(Readers) /\ None \notin Nat
    /\ \A c \in Crews : /\ c.mode \in {"sync", "thread"}
                        /\ c.threads \subseteq Threads
                        /\ c.mode = "sync" => Timer \notin c.threads
                        /\ c.pool \in BOOLEAN /\ c.writes \in Nat
    /\ MaxFails \in Nat

\* The two tables a request needs, in the order in which proto() reads them.
Tables == {"entities", "views"}

Versions == UNION {0..c.writes : c \in Crews}
Protos == [Tables -> Versions]

\* No more times than these are remembered at once: one by each request, one
\* by the resolution cache, and the current one.
Times == 0..(Cardinality(Readers) + 1)

Refreshing == {"proto1", "proto2", "assign", "stamp"}
PCs == {"idle", "armed", "none", "valid", "lookup", "get1", "acquire1",
        "read1", "get2", "acquire2", "read2", "after", "put", "update", "vs"}
       \cup Refreshing

(***************************************************************************)
(* pc:     where the thread is                                             *)
(* ts:     registry_ts of a request, then registry_ts_after                *)
(* buf:    the proto under construction                                    *)
(* ret:    where a reader or a writer goes on after the refresh            *)
(* clean:  no other time was stamped while the request resolved            *)
(* answer: what the last request was answered with, or has resolved so far *)
(***************************************************************************)
Thread == [pc: PCs, ts: Times \cup {None}, buf: Protos,
           ret: {"read1", "read2", "update", "idle"}, clean: BOOLEAN, answer: Protos]

Entry == [ctx: Protos, clean: BOOLEAN]

\* The types of the state.  The lock is one of the request threads' only, and
\* only the two chains of timers are ever armed or ended.
TypeOK ==
    /\ crew \in Crews
    /\ db \in Protos /\ cached \in Protos
    /\ expired \in BOOLEAN
    /\ lock \in Readers \cup {Free}
    /\ res \in [tag: Times \cup {None}, entry: Entry \cup {None}]
    /\ th \in [Threads -> Thread]
    /\ \A t \in Threads :
         th[t].pc \in {"armed", "none"} => t \in {Timer, Server}
    /\ shutting \in BOOLEAN
    /\ vs \in Versions
    /\ fails \in 0..MaxFails
    /\ covered \in Protos
    /\ excused \in BOOLEAN

Zero == [tb \in Tables |-> 0]

\* The registry has been loaded by __init__, the server's first async_refresh
\* has run and armed a timer, and so has the one of mode "thread".
Init ==
    /\ db = Zero /\ cached = Zero
    /\ expired = FALSE
    /\ lock = Free
    /\ res = [tag |-> None, entry |-> None]
    /\ crew \in Crews
    /\ th = [t \in Threads |->
              [pc |-> CASE t \in {Timer, Server} \ crew.threads -> "none"
                        [] t \in {Timer, Server} \cap crew.threads -> "armed"
                        [] OTHER -> "idle",
               ts |-> None, buf |-> Zero, ret |-> "read1",
               clean |-> FALSE, answer |-> Zero]]
    /\ shutting = FALSE
    /\ vs = 0
    /\ fails = 0
    /\ covered = Zero
    /\ excused = FALSE

Goto(t, pc) == th' = [th EXCEPT ![t].pc = pc]

(***************************************************************************)
(* refresh(): proto(), the assignment, the stamp.  A read that raises ends *)
(* it and is only logged.                                                  *)
(***************************************************************************)

\* The finally of the expiry refresh; no other refresh holds the lock.
ReleaseLock(t) == lock' = IF lock = t THEN Free ELSE lock

\* Where a thread goes on after refresh().
AfterRefresh(t) ==
    CASE t \in Readers \cup Writers -> th[t].ret
      [] t = Timer -> "armed"
      [] t = Server -> "vs"

Returned(t) ==
    [th EXCEPT ![t].pc = AfterRefresh(t), ![t].buf = Zero, ![t].ret = "read1"]

\* proto() reads the entities of the project.
ReadEntities(t) ==
    /\ th[t].pc = "proto1"
    /\ th' = [th EXCEPT ![t].pc = "proto2",
                        ![t].buf["entities"] = db["entities"]]
    /\ UNCHANGED <<crew, db, cached, expired, lock, res, shutting,
                   vs, fails, covered, excused>>

\* proto() reads the feature views of the project.
ReadViews(t) ==
    /\ th[t].pc = "proto2"
    /\ th' = [th EXCEPT ![t].pc = "assign", ![t].buf["views"] = db["views"]]
    /\ UNCHANGED <<crew, db, cached, expired, lock, res, shutting,
                   vs, fails, covered, excused>>

\* A read of proto() raises.  refresh() swallows it and the old cache stays; but
\* the results of executor.map are never looked at, so in a thread pool it ends
\* the reading of the project only: proto() returns without its other tables.
ReadFails(t) ==
    /\ th[t].pc \in {"proto1", "proto2"}
    /\ fails < MaxFails
    /\ fails' = fails + 1
    /\ excused' = (excused \/ t \in Writers)
    /\ \/ ReleaseLock(t) /\ th' = Returned(t)
       \/ crew.pool /\ Goto(t, "assign") /\ UNCHANGED lock
    /\ UNCHANGED <<crew, db, cached, expired, res, shutting, vs, covered>>

\* A new time is stamped: every remembered time moves one place back.
Remembered == ({res.tag} \cup {th[r].ts : r \in Readers}) \ {None}

Older(time) ==
    IF time = None THEN None
    ELSE 1 + Cardinality({x \in Remembered : x < time})

\* self.cached_registry_proto_created = _utc_now()
StampTime(threads) ==
    /\ expired' = FALSE
    /\ res' = [res EXCEPT !.tag = Older(res.tag)]
    /\ th' = [t \in Threads |-> [threads[t] EXCEPT !.ts = Older(threads[t].ts)]]

\* self.cached_registry_proto = ...
Assign(t) ==
    /\ th[t].pc = "assign"
    /\ cached' = th[t].buf
    /\ excused' = (excused \/ \E tb \in Tables : th[t].buf[tb] < cached[tb])
    /\ Goto(t, "stamp")
    /\ UNCHANGED <<crew, db, expired, lock, res, shutting, vs, fails, covered>>

\* Fault: the time is only renewed when it had expired.
Stamp_Fault(t) ==
    /\ th[t].pc = "stamp"
    /\ IF expired THEN StampTime(Returned(t))
       ELSE th' = Returned(t) /\ UNCHANGED <<expired, res>>
    /\ ReleaseLock(t)
    /\ UNCHANGED <<crew, db, cached, shutting, vs, fails, covered, excused>>

\* The time of the new proto, and the return of refresh().
Stamp(t) ==
    /\ th[t].pc = "stamp"
    /\ StampTime(Returned(t))
    /\ ReleaseLock(t)
    /\ UNCHANGED <<crew, db, cached, shutting, vs, fails, covered, excused>>

Refresh(t) ==
    ReadEntities(t) \/ ReadViews(t) \/ ReadFails(t) \/ Assign(t) \/ Stamp(t)

\* The time to live passes.
Expire ==
    /\ ~expired
    /\ expired' = TRUE
    /\ UNCHANGED <<crew, db, cached, lock, res, th, shutting, vs,
                   fails, covered, excused>>

(***************************************************************************)
(* A request: _get_cached_request_context                                  *)
(***************************************************************************)

\* registry_ts = registry.cached_registry_proto_created
Start(r) ==
    /\ r \in crew.threads
    /\ th[r].pc = "idle"
    /\ ~shutting
    /\ th' = [th EXCEPT ![r].pc = "valid", ![r].ts = 0]
    /\ UNCHANGED <<crew, db, cached, expired, lock, res, shutting,
                   vs, fails, covered, excused>>

\* Fault: the resolution cache is used whether or not the registry's has expired.
CheckValid_Fault(r) ==
    /\ th[r].pc = "valid"
    /\ Goto(r, "lookup")
    /\ UNCHANGED <<crew, db, cached, expired, lock, res, shutting,
                   vs, fails, covered, excused>>

\* is_cache_valid(): an expired registry bypasses the resolution cache.
CheckValid(r) ==
    /\ th[r].pc = "valid"
    /\ Goto(r, IF expired THEN "get1" ELSE "lookup")
    /\ UNCHANGED <<crew, db, cached, expired, lock, res, shutting,
                   vs, fails, covered, excused>>

\* Under the resolution lock: clear what an older proto gave, or answer.
Lookup(r) ==
    /\ th[r].pc = "lookup"
    /\ IF th[r].ts # res.tag
       THEN /\ res' = [tag |-> th[r].ts, entry |-> None]
            /\ Goto(r, "get1")
       ELSE /\ IF res.entry # None
               THEN th' = [th EXCEPT ![r].pc = "idle", ![r].ts = None,
                                     ![r].answer = res.entry.ctx]
               ELSE Goto(r, "get1")
            /\ UNCHANGED res
    /\ UNCHANGED <<crew, db, cached, expired, lock, shutting, vs,
                   fails, covered, excused>>

\* _refresh_cached_registry_if_necessary of a getter with allow_cache asks
\* is_cache_valid(), in mode "sync" only.
Ensure(r) ==
    /\ \/ /\ th[r].pc = "get1"
          /\ Goto(r, IF crew.mode = "sync" /\ expired THEN "acquire1" ELSE "read1")
       \/ /\ th[r].pc = "get2"
          /\ Goto(r, IF crew.mode = "sync" /\ expired THEN "acquire2" ELSE "read2")
    /\ UNCHANGED <<crew, db, cached, expired, lock, res, shutting, vs,
                   fails, covered, excused>>

ReadOf(acquire) == IF acquire = "acquire1" THEN "read1" ELSE "read2"

\* Fault: the refresh starts whether or not another thread holds the lock.
Acquire_Fault(r) ==
    /\ th[r].pc \in {"acquire1", "acquire2"}
    /\ lock' = r
    /\ th' = [th EXCEPT ![r].pc = "proto1", ![r].ret = ReadOf(th[r].pc)]
    /\ UNCHANGED <<crew, db, cached, expired, res, shutting, vs,
                   fails, covered, excused>>

\* The lock is tried, and not waited for.  Whoever gets it refreshes without
\* asking again whether the cache is still expired.
Acquire(r) ==
    /\ th[r].pc \in {"acquire1", "acquire2"}
    /\ IF lock = Free
       THEN /\ lock' = r
            /\ th' = [th EXCEPT ![r].pc = "proto1",
                                ![r].ret = ReadOf(th[r].pc)]
       ELSE /\ Goto(r, ReadOf(th[r].pc))
            /\ UNCHANGED lock
    /\ UNCHANGED <<crew, db, cached, expired, res, shutting, vs,
                   fails, covered, excused>>

\* The getters read self.cached_registry_proto: views first, then entities.
ReadCached(r) ==
    /\ \/ /\ th[r].pc = "read1"
          /\ th' = [th EXCEPT ![r].pc = "get2",
                              ![r].answer["views"] = cached["views"]]
       \/ /\ th[r].pc = "read2"
          /\ th' = [th EXCEPT ![r].pc = "after",
                              ![r].answer["entities"] = cached["entities"]]
    /\ UNCHANGED <<crew, db, cached, expired, lock, res, shutting,
                   vs, fails, covered, excused>>

\* registry_ts_after = registry.cached_registry_proto_created
TimeAfter(r) ==
    /\ th[r].pc = "after"
    /\ th' = [th EXCEPT ![r].pc = "put", ![r].ts = 0,
                        ![r].clean = (th[r].ts = 0)]
    /\ UNCHANGED <<crew, db, cached, expired, lock, res, shutting,
                   vs, fails, covered, excused>>

\* The result is kept under the time read last, and returned.
Put(r) ==
    /\ th[r].pc = "put"
    /\ res' = [tag |-> th[r].ts,
               entry |-> [ctx |-> th[r].answer, clean |-> th[r].clean]]
    /\ th' = [th EXCEPT ![r].pc = "idle", ![r].ts = None, ![r].clean = FALSE]
    /\ UNCHANGED <<crew, db, cached, expired, lock, shutting, vs,
                   fails, covered, excused>>

(***************************************************************************)
(* Writes                                                                  *)
(***************************************************************************)

Commit(tb) ==
    /\ db["entities"] + db["views"] < crew.writes
    /\ db' = [db EXCEPT ![tb] = @ + 1]

\* What apply_feature_view goes on with after _apply_object has returned.
AfterWrite(tb) == IF tb = "views" THEN "update" ELSE "idle"

\* Fault: the writer refreshes like a reader, only what has expired.
Write_Fault(w, tb) ==
    /\ w \in crew.threads
    /\ th[w].pc = "idle"
    /\ Commit(tb)
    /\ IF crew.mode = "sync"
       THEN /\ th' = [th EXCEPT ![w].pc = IF expired THEN "proto1" ELSE AfterWrite(tb),
                                ![w].ret = AfterWrite(tb)]
            /\ covered' = db'
       ELSE /\ Goto(w, AfterWrite(tb))
            /\ UNCHANGED covered
    /\ UNCHANGED <<crew, cached, expired, lock, res, shutting, vs,
                   fails, excused>>

\* _apply_object, _delete_object, mutate_project: the transaction, then in
\* mode "sync" a refresh that does not take the lock.
Write(w, tb) ==
    /\ w \in crew.threads
    /\ th[w].pc = "idle"
    /\ Commit(tb)
    /\ IF crew.mode = "sync"
       THEN /\ th' = [th EXCEPT ![w].pc = "proto1", ![w].ret = AfterWrite(tb)]
            /\ covered' = db'
       ELSE /\ Goto(w, AfterWrite(tb))
            /\ UNCHANGED covered
    /\ UNCHANGED <<crew, cached, expired, lock, res, shutting, vs,
                   fails, excused>>

\* apply_feature_view ends with an UPDATE of the row, for the number of the new
\* version, that no refresh follows; or with none, if it is not a new version,
\* is not promoted, or could not be saved.
Update(w) ==
    /\ th[w].pc = "update"
    /\ Commit("views") \/ UNCHANGED db
    /\ Goto(w, "idle")
    /\ UNCHANGED <<crew, cached, expired, lock, res, shutting, vs,
                   fails, covered, excused>>

\* delete_project empties the tables in one transaction, and nothing follows.
DeleteProject(w) ==
    /\ w \in crew.threads
    /\ th[w].pc = "idle"
    /\ db["entities"] + db["views"] + 1 < crew.writes
    /\ db' = [tb \in Tables |-> db[tb] + 1]
    /\ UNCHANGED <<crew, cached, expired, lock, res, th, shutting, vs,
                   fails, covered, excused>>

\* Another process writes to the same database.
ForeignWrite(tb) ==
    /\ Commit(tb)
    /\ UNCHANGED <<crew, cached, expired, lock, res, th, shutting,
                   vs, fails, covered, excused>>

(***************************************************************************)
(* Timers                                                                  *)
(***************************************************************************)

\* _start_thread_async_refresh of mode "thread" runs again.
TimerFires ==
    /\ th[Timer].pc = "armed"
    /\ Goto(Timer, "proto1")
    /\ UNCHANGED <<crew, db, cached, expired, lock, res, shutting,
                   vs, fails, covered, excused>>

\* Fault: async_refresh does not look at shutting_down.
ServerFires_Fault ==
    /\ th[Server].pc = "armed"
    /\ Goto(Server, "proto1")
    /\ UNCHANGED <<crew, db, cached, expired, lock, res, shutting,
                   vs, fails, covered, excused>>

\* async_refresh: nothing more once the server is shutting down.
ServerFires ==
    /\ th[Server].pc = "armed"
    /\ Goto(Server, IF shutting THEN "none" ELSE "proto1")
    /\ UNCHANGED <<crew, db, cached, expired, lock, res, shutting,
                   vs, fails, covered, excused>>

\* Fault: the views that are already in the index are kept.
IndexVectorStores_Fault ==
    /\ th[Server].pc = "vs"
    /\ \/ /\ UNCHANGED <<vs, fails>>
          /\ Goto(Server, "armed")
       \/ /\ fails < MaxFails
          /\ fails' = fails + 1
          /\ Goto(Server, "none")
          /\ UNCHANGED vs
    /\ UNCHANGED <<crew, db, cached, expired, lock, res, shutting,
                   covered, excused>>

\* vs_registry.refresh() lists the feature views in the database, then the
\* next timer is armed; if the list raises, nothing is armed any more.
IndexVectorStores ==
    /\ th[Server].pc = "vs"
    /\ \/ /\ vs' = db["views"]
          /\ Goto(Server, "armed")
          /\ UNCHANGED fails
       \/ /\ fails < MaxFails
          /\ fails' = fails + 1
          /\ Goto(Server, "none")
          /\ UNCHANGED vs
    /\ UNCHANGED <<crew, db, cached, expired, lock, res, shutting,
                   covered, excused>>

\* stop_refresh: the timer it knows is cancelled; one that runs is not.
StopRefresh ==
    /\ ~shutting
    /\ Server \in crew.threads
    /\ shutting' = TRUE
    /\ IF th[Server].pc = "armed" THEN Goto(Server, "none") ELSE UNCHANGED th
    /\ UNCHANGED <<crew, db, cached, expired, lock, res, vs, fails,
                   covered, excused>>

-----------------------------------------------------------------------------

\* One step of a request.
Request(r) ==
    \/ Start(r) \/ CheckValid(r) \/ Lookup(r) \/ Ensure(r) \/ Acquire(r)
    \/ ReadCached(r) \/ TimeAfter(r) \/ Put(r)

Next ==
    \/ \E t \in Threads : Refresh(t)
    \/ \E r \in Readers : Request(r)
    \/ \E w \in Writers, tb \in Tables : Write(w, tb)
    \/ \E w \in Writers : Update(w) \/ DeleteProject(w)
    \/ \E tb \in Tables : ForeignWrite(tb)
    \/ TimerFires \/ ServerFires \/ IndexVectorStores
    \/ StopRefresh
    \/ Expire

Spec == Init /\ [][Next]_vars

\* Requests keep coming and threads are scheduled; time passes and timers
\* fire.  Writes, failures and the shutdown need not happen.
Fairness ==
    /\ \A t \in Threads : WF_vars(Refresh(t))
    /\ \A r \in Readers : WF_vars(Request(r))
    /\ WF_vars(TimerFires) /\ WF_vars(ServerFires)
    /\ WF_vars(IndexVectorStores)
    /\ WF_vars(Expire)

FairSpec == Spec /\ Fairness

-----------------------------------------------------------------------------

\* However the checks of expiry and the attempts at _refresh_lock interleave,
\* request threads download the registry one at a time, and the lock is held
\* exactly while one of them does: a refresh that fails gives it back too.  They
\* may do so one after the other for the same expiry.
OneExpiryRefresh ==
    \A r \in Readers : lock = r <=> th[r].pc \in Refreshing

\* What an entry of the resolution cache was resolved from: if no new time was
\* stamped while it was, and it is tagged with the time of the cached proto,
\* it is what that proto says.  Entries resolved across a refresh are the
\* exception: they carry the new time and the old content.
EntryOfItsProto ==
    (/\ res.entry # None
     /\ res.entry.clean
     /\ res.tag = 0
     /\ \A t \in Threads : th[t].pc # "stamp")
    => res.entry.ctx = cached

\* What is immediate in mode "sync": when no writer is in its refresh, the cache
\* has every write that such a refresh followed, and all that was committed
\* before, whatever requests and timers download meanwhile, unless a writer's
\* refresh failed or a proto older than the cached one was assigned.  Not the
\* last UPDATE of apply_feature_view, nor delete_project, nor other processes.
SyncImmediate ==
    (/\ crew.mode = "sync"
     /\ ~excused
     /\ \A w \in Writers : th[w].pc \notin Refreshing)
    => \A tb \in Tables : cached[tb] >= covered[tb]

\* Writes reach the requests: once the database no longer changes, every
\* request is eventually answered with it, in both cache modes, whatever
\* overtook whatever and although refreshes have failed.
Converges ==
    <>[](shutting \/ \A r \in Readers \cap crew.threads :
                     th[r].pc = "idle" => th[r].answer = db)

\* The vector store index follows the database as long as the chain of
\* timers of the server lives.
VectorStoresFollow == <>[](th[Server].pc = "none" \/ vs = db["views"])

\* A stop that comes while async_refresh runs does not see the timer that run
\* arms; nevertheless the chain ends, and with it the last non-daemon thread.
ServerTimersEnd == shutting ~> th[Server].pc = "none"

=============================================================================
