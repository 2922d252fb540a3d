---------------------------- MODULE Materialization ----------------------------
(***************************************************************************)
(* The lifecycle of feature views while they are materialized:             *)
(* FeatureStore.materialize and materialize_incremental                    *)
(* (sdk/python/feast/feature_store.py), the asynchronous /materialize      *)
(* endpoints of the feature server that reserve a view first               *)
(* (sdk/python/feast/feature_server.py), set_feature_view_state, and what  *)
(* apply_feature_view and apply_materialization of the file and of the SQL *)
(* registry do with a view's state and its materialization intervals.      *)
(*                                                                         *)
(* A worker is a thread that runs one call after the other. A step is one  *)
(* registry operation on one view, or one run of the engine. The threads   *)
(* that use the file registry are those of one process: they share its     *)
(* copy of the file, change it without a lock and write it back later.     *)
(***************************************************************************)
EXTENDS Integers, Sequences, FiniteSets, FiniteSetsExt, SequencesExt

CONSTANTS
    Views,
    ViewLists,    \* the lists of views that calls name
    Workers,
    Backends,     \* subset of {"file", "sql"}
    Modes,        \* subset of {"sync", "async", "force"}
    Starts,       \* start dates of materialize; materialize_incremental has none
    NoTtl,        \* views without a ttl
    UserStates,   \* the states users set by hand
    Engines,      \* "batch": supports_batch; "single"; "detached": does not wait for its job
    OneServer,    \* TRUE: one event loop runs the handlers of all async requests
    MayCrash,
    MaxTime,      \* bound: end dates are 1..MaxTime; data begins at 0
    MaxCalls,     \* bound, for each registry: calls, of users too
    MaxFailures,  \* bound: failing engine runs
    User,         \* the thread that sets states by hand
    Nobody        \* no worker

ASSUME BoundsAssumption ==
    /\ MaxTime \in Nat /\ MaxCalls \in [Backends -> Nat] /\ MaxFailures \in Nat
    /\ Engines \subseteq {"batch", "single", "detached"} /\ OneServer \in BOOLEAN /\ MayCrash \in BOOLEAN
    /\ Backends \subseteq {"file", "sql"} /\ Modes \subseteq {"sync", "async", "force"}
    /\ Nobody \notin Workers /\ User \notin Workers
    /\ \A list \in ViewLists : list \in Seq(Views) /\ list # <<>> /\ IsInjective(list)

States == {"UNSPECIFIED", "CREATED", "GENERATED", "MATERIALIZING", "AVAILABLE_ONLINE"}

ASSUME InputsAssumption ==
    UserStates \subseteq States /\ NoTtl \subseteq Views /\ Starts \subseteq 0..MaxTime

Incremental == -1

\* _VALID_STATE_TRANSITIONS
ValidTransitions ==
    [UNSPECIFIED      |-> {"CREATED"},
     CREATED          |-> {"GENERATED"},
     GENERATED        |-> {"MATERIALIZING"},
     MATERIALIZING    |-> {"AVAILABLE_ONLINE", "GENERATED"},
     AVAILABLE_ONLINE |-> {"MATERIALIZING"}]

VARIABLES
    backend,   \* the registry in use
    batch,     \* the engine's supports_batch
    waits,     \* the engine returns when its job has ended
    rows,      \* state and materialization_intervals of each view: in the SQL
               \* registry, or in the process's copy of the registry file
    file,      \* the same in the file, for the file registry
    io,        \* per thread: a commit it has still to begin ("open") or to end ("write")
    msg,       \* per thread: the message that commit() is writing
    edit,      \* what set_feature_view_state has read and will write
    loop,      \* the worker whose handler the event loop runs
    pc,        \* where each worker is
    job,       \* the local variables of each worker's call
    \* history variables
    accepted,  \* the intervals whose job the engine has not reported as failed
    written,   \* the intervals whose data the engine wrote to the online store
    raced,     \* a thread used the registry file or its copy while another one was
               \* between its change of the copy and the end of its commit
    calls,     \* calls started
    failures   \* engine runs that failed

fixed == <<backend, batch, waits>>
registry == <<rows, file, io, msg, raced>>
data == <<accepted, written>>
vars == <<fixed, registry, edit, loop, pc, job, data, calls, failures>>

Interval == (0..MaxTime) \X (0..MaxTime)
Row == [state : States, intervals : Seq(Interval)]
NewRow == [state |-> "UNSPECIFIED", intervals |-> <<>>]
NewRows == [v \in Views |-> NewRow]
Threads == Workers \cup {User}

(* A call: its mode, list of views, start and end date; the views its current loop     *)
(* has still to visit; its copies of the views, their start dates and previous  *)
(* states; the views given to the engine together, and those after them; the    *)
(* views to record once all failures are rolled back; what _update_fv_state is  *)
(* called for; and whether an exception is under way.                           *)
NewJob(m, list, s, e) ==
    [mode |-> m, views |-> list, from |-> s, end |-> e, todo |-> list,
     objs |-> [v \in Views |-> NewRow], start |-> [v \in Views |-> 0],
     prev |-> [v \in Views |-> "UNSPECIFIED"],
     current |-> <<>>, later |-> <<>>, good |-> <<>>, stuck |-> <<>>,
     purpose |-> IF m = "force" THEN "force" ELSE "reserve", failing |-> FALSE]

Ended == {"idle", "done", "failed", "rejected", "crashed"}
AtRest(w) == pc[w] \in Ended /\ io[w] = "none"

NoJob == NewJob("sync", <<>>, 0, 0)

\* The views of a list that are in S, in their order.
Among(list, S) ==
    LET upTo[i \in 0..Len(list)] ==
          IF i = 0 THEN <<>>
          ELSE IF list[i] \in S THEN Append(upTo[i - 1], list[i]) ELSE upTo[i - 1]
    IN upTo[Len(list)]

\* Worker w goes on at label with the local variables j; at the end of a call they
\* are gone.
Continue(w, label, j) ==
    /\ pc' = [pc EXCEPT ![w] = label]
    /\ job' = [job EXCEPT ![w] = IF label \in Ended THEN NoJob ELSE j]

Init ==
    /\ backend \in Backends
    /\ \E e \in Engines : batch = (e = "batch") /\ waits = (e # "detached")
    /\ rows = NewRows /\ file = NewRows
    /\ io = [t \in Threads |-> "none"]
    /\ msg = [t \in Threads |-> NewRows]
    /\ edit = {}
    /\ raced = FALSE
    /\ loop = Nobody
    /\ pc = [w \in Workers |-> "idle"]
    /\ job = [w \in Workers |-> NoJob]
    /\ accepted = [v \in Views |-> {}] /\ written = [v \in Views |-> {}]
    /\ calls = 0 /\ failures = 0

-------------------------------------------------------------------------------
(* The registry *)

\* What a reader gets who does not want the copy.
Current == IF backend = "file" THEN file ELSE rows

\* A thread has changed the copy, and the file does not have the change yet.
Pending == \E t \in Threads : io[t] # "none"

\* _get_registry_proto without allow_cache: the file becomes the process's copy.
Read ==
    /\ rows' = Current
    /\ raced' = (raced \/ Pending)
    /\ UNCHANGED <<file, io, msg>>

\* Thread t writes a row: at once in SQL, in the copy for the file registry, which
\* commits it in two more steps. _prepare_registry_for_changes has reloaded the copy
\* if it was expired or older than the file, and base is the one or the other.
Store(t, base, v, row) ==
    /\ rows' = [base EXCEPT ![v] = row]
    /\ io' = IF backend = "file" THEN [io EXCEPT ![t] = "open"] ELSE io
    /\ raced' = (raced \/ Pending)
    /\ UNCHANGED <<file, msg>>

Bases == {rows, Current}

\* commit(): the copy of this moment is written, whatever has become of it.
OpenFile(t) ==
    /\ io[t] = "open"
    /\ msg' = [msg EXCEPT ![t] = rows]
    /\ io' = [io EXCEPT ![t] = "write"]
    /\ UNCHANGED <<fixed, rows, file, raced, edit, loop, pc, job, data, calls, failures>>

WriteFile(t) ==
    /\ io[t] = "write"
    /\ file' = msg[t]
    /\ msg' = [msg EXCEPT ![t] = NewRows]
    /\ io' = [io EXCEPT ![t] = "none"]
    /\ UNCHANGED <<fixed, rows, raced, edit, loop, pc, job, data, calls, failures>>

\* A thread that serves features finds the copy expired.
ThreadReads ==
    /\ backend = "file"
    /\ Read
    /\ UNCHANGED <<fixed, edit, loop, pc, job, data, calls, failures>>

\* update_materialization_intervals, in the SQL registry: an object without
\* intervals gets those of the row.
Completed(o, row) ==
    IF backend = "sql" /\ o.intervals = <<>> THEN [o EXCEPT !.intervals = row.intervals] ELSE o

\* apply_feature_view with an object that differs from the row at most in state
\* and intervals. The file registry copies the state (_update_metadata_fields);
\* the SQL registry compares first, and FeatureView.__eq__ looks at the intervals
\* but not at the state.
Applied(o, row) ==
    IF backend = "file"
    THEN IF o.state = "UNSPECIFIED" THEN row ELSE [row EXCEPT !.state = o.state]
    ELSE IF o.intervals = row.intervals THEN row ELSE Completed(o, row)

\* Worker w applies its copy o of view v, and goes on at label with j.
Put(w, v, o, label, j) ==
    \E base \in Bases :
      /\ Store(w, base, v, Applied(o, base[v]))
      /\ Continue(w, label, [j EXCEPT !.objs[v] = Completed(o, base[v])])

-------------------------------------------------------------------------------
(* Requests: the handlers of /materialize and /materialize-incremental *)

\* The event loop has no handler to run, the commit of its last reservation included.
LoopIsFree == loop = Nobody /\ \A w \in Workers : pc[w] = "fetch" => io[w] = "none"

\* A synchronous call, by the SDK, the CLI or a synchronous request, goes straight
\* to the store; an asynchronous one is first reserved on the event loop.
Start(w) ==
    /\ AtRest(w)
    /\ calls < MaxCalls[backend]
    /\ calls' = calls + 1
    /\ \E m \in Modes, list \in ViewLists, s \in Starts \cup {Incremental}, e \in 1..MaxTime :
         /\ s <= e
         /\ IF m # "sync" /\ OneServer THEN LoopIsFree /\ loop' = w ELSE UNCHANGED loop
         /\ Continue(w, CASE m = "sync" -> "fetch" [] m = "async" -> "check" [] m = "force" -> "stuck",
                     NewJob(m, list, s, e))
    /\ UNCHANGED <<fixed, registry, edit, data, failures>>

LeaveLoop(w) == loop' = IF loop = w THEN Nobody ELSE loop

\* _check_already_materializing, one view: 409 when it is MATERIALIZING.
Conflict_Fault(v) == FALSE
Conflict(v) == Current[v].state = "MATERIALIZING"

Check(w) ==
    LET j == job[w] IN
    /\ pc[w] = "check"
    /\ IF Conflict(Head(j.todo))
       THEN Continue(w, "rejected", j) /\ LeaveLoop(w)
       ELSE /\ IF Len(j.todo) > 1
               THEN Continue(w, "check", [j EXCEPT !.todo = Tail(@)])
               ELSE Continue(w, "get", [j EXCEPT !.todo = j.views])
            /\ UNCHANGED loop
    /\ Read
    /\ UNCHANGED <<fixed, edit, data, calls, failures>>

\* _reset_stuck_materializing_to_generated, for a forced request and after a job
\* has failed: the views that are MATERIALIZING are collected first.
AfterReset(j) == IF j.purpose = "reset" THEN "failed" ELSE "get"

CollectStuck(w) ==
    LET j == job[w]
        v == Head(j.todo)
        found == IF Current[v].state = "MATERIALIZING" THEN Append(j.stuck, v) ELSE j.stuck
        done == Len(j.todo) = 1
    IN
    /\ pc[w] = "stuck"
    /\ IF ~done
       THEN Continue(w, "stuck", [j EXCEPT !.stuck = found, !.todo = Tail(@)])
       ELSE IF found # <<>>
       THEN Continue(w, "get", [j EXCEPT !.stuck = found, !.todo = found])
       ELSE Continue(w, AfterReset(j), [j EXCEPT !.todo = j.views, !.purpose = "reserve"])
    /\ Read
    /\ UNCHANGED <<fixed, edit, loop, data, calls, failures>>

\* _update_fv_state, one view: read it ...
GetView(w) ==
    /\ pc[w] = "get"
    /\ Continue(w, "put", [job[w] EXCEPT !.objs[Head(job[w].todo)] = Current[Head(job[w].todo)]])
    /\ Read
    /\ UNCHANGED <<fixed, edit, loop, data, calls, failures>>

\* ... and write it back in the new state. After a reservation the handler answers
\* 202 and hands the call to the executor; after a forced reset it reserves.
Target(j) == IF j.purpose = "reserve" THEN "MATERIALIZING" ELSE "GENERATED"

PutView(w) ==
    LET j == job[w]
        v == Head(j.todo)
        done == Len(j.todo) = 1
    IN
    /\ pc[w] = "put"
    /\ Put(w, v, [j.objs[v] EXCEPT !.state = Target(j)],
           IF ~done THEN "get" ELSE IF j.purpose = "reserve" THEN "fetch" ELSE AfterReset(j),
           IF ~done THEN [j EXCEPT !.todo = Tail(@)]
           ELSE [j EXCEPT !.todo = j.views, !.purpose = "reserve"])
    /\ IF done /\ j.purpose = "reserve" THEN LeaveLoop(w) ELSE UNCHANGED loop
    /\ UNCHANGED <<fixed, edit, data, calls, failures>>

-------------------------------------------------------------------------------
(* FeatureStore.materialize and materialize_incremental *)

\* most_recent_end_time
MostRecentEnd(intervals) ==
    IF intervals = <<>> THEN 0 ELSE Max({intervals[i][2] : i \in 1..Len(intervals)})

\* start_date: an incremental call begins where the last one ended, the first one at
\* the beginning of the data (now - ttl, with a ttl that reaches back to 0).
StartDate_Fault(j, row) ==
    IF j.from # Incremental \/ row.intervals = <<>> THEN 0 ELSE MostRecentEnd(row.intervals) + 1
StartDate(j, row) == IF j.from # Incremental THEN j.from ELSE MostRecentEnd(row.intervals)

NoStartTime(j, v) == j.from = Incremental /\ v \in NoTtl /\ Current[v].intervals = <<>>

\* An exception leaves the call; an asynchronous one resets its views first.
AfterRaise_Fault(j) == "failed"
AfterRaise(j) == IF j.mode = "sync" THEN "failed" ELSE "stuck"
Raised(j) == [j EXCEPT !.todo = j.views, !.stuck = <<>>, !.purpose = "reset"]

\* The views to give to the engine together: all of them, or one at a time.
First(list) == IF batch THEN list ELSE <<Head(list)>>
Batched(j, list) ==
    [j EXCEPT !.todo = First(list), !.current = First(list),
              !.later = IF batch THEN <<>> ELSE Tail(list)]

\* _get_feature_views_to_materialize, one view, and its start date; without a ttl an
\* incremental call has none before the first materialization, and raises.
Fetch(w) ==
    LET j == job[w]
        v == Head(j.todo)
        done == Len(j.todo) = 1
        fetched == [j EXCEPT !.objs[v] = Current[v], !.start[v] = StartDate(j, Current[v])]
    IN
    /\ pc[w] = "fetch"
    /\ IF NoStartTime(j, v) THEN Continue(w, AfterRaise(j), Raised(j))
       ELSE IF done THEN Continue(w, "transition", Batched(fetched, j.views))
       ELSE Continue(w, "fetch", [fetched EXCEPT !.todo = Tail(@)])
    /\ Read
    /\ UNCHANGED <<fixed, edit, loop, data, calls, failures>>

\* Undo what is in bad, record what is in good, then go on or raise.
Settle(w, j, bad, succeeded, raising) ==
    LET k == [j EXCEPT !.good = succeeded, !.failing = raising] IN
    IF bad # <<>> THEN Continue(w, "rollback", [k EXCEPT !.todo = bad])
    ELSE IF succeeded # <<>> THEN Continue(w, "record", [k EXCEPT !.todo = succeeded])
    ELSE IF raising THEN Continue(w, AfterRaise(k), Raised(k))
    ELSE IF j.later # <<>> THEN Continue(w, "transition", Batched(k, j.later))
    ELSE Continue(w, "done", k)

\* _transition_fv_to_materializing, one view (the same code is repeated inline for
\* engines without batches): a view that is already MATERIALIZING is left alone,
\* and falls back to GENERATED; one that may not be materialized undoes the views
\* before it.
Before(j) == Among(j.current, Views \ ToSet(j.todo))

Fallback(state) == IF state = "MATERIALIZING" THEN "GENERATED" ELSE state

Transition(w) ==
    LET j == job[w]
        v == Head(j.todo)
        o == j.objs[v]
        next(prev) == [j EXCEPT !.prev[v] = prev, !.todo = Tail(j.todo)]
    IN
    /\ pc[w] = "transition" /\ j.todo # <<>>
    /\ \/ /\ o.state \in {"MATERIALIZING", "UNSPECIFIED"}
          /\ Continue(w, "transition", next(Fallback(o.state)))
          /\ UNCHANGED registry
       \/ /\ "MATERIALIZING" \in ValidTransitions[o.state]
          /\ Put(w, v, [o EXCEPT !.state = "MATERIALIZING"], "transition", next(o.state))
       \/ /\ o.state = "CREATED"
          /\ Settle(w, next(o.state), Before(j), <<>>, TRUE)
          /\ UNCHANGED registry
    /\ UNCHANGED <<fixed, edit, loop, data, calls, failures>>

\* The engine materializes the views of one batch; any of them may fail, or the
\* engine as a whole. A job that fails without an error does not raise, and every job
\* that has not failed counts as a success, one that still runs (late) too.
Succeeded_Fault(j, bad) == j.current
Succeeded(j, bad) == Among(j.current, Views \ bad)

With(intervals, views, j) ==
    [v \in Views |-> intervals[v] \cup (IF v \in views THEN {<<j.start[v], j.end>>} ELSE {})]

RunEngine(w) ==
    LET j == job[w] IN
    /\ pc[w] = "transition" /\ j.todo = <<>>
    /\ \E bad, late \in SUBSET ToSet(j.current), raising \in BOOLEAN :
         /\ bad # {} => failures < MaxFailures
         /\ raising => bad # {}
         /\ ~batch => raising = (bad # {})
         /\ waits => late = {}
         /\ failures' = IF bad = {} THEN failures ELSE failures + 1
         /\ accepted' = With(accepted, ToSet(j.current) \ bad, j)
         /\ written' = With(written, ToSet(j.current) \ (bad \cup late), j)
         /\ Settle(w, j, Among(j.current, bad), Succeeded(j, bad), raising)
    /\ UNCHANGED <<fixed, registry, edit, loop, calls>>

\* A job that the engine did not wait for ends; it may also never do so.
JobEnds(v, i) ==
    /\ i \in accepted[v] \ written[v]
    /\ written' = [written EXCEPT ![v] = @ \cup {i}]
    /\ UNCHANGED <<fixed, registry, edit, loop, pc, job, accepted, calls, failures>>

\* _rollback_fv_states, one view.
PreviousState_Fault(j, v) == "AVAILABLE_ONLINE"
PreviousState(j, v) == j.prev[v]

Rollback(w) ==
    LET j == job[w]
        v == Head(j.todo)
        o == [j.objs[v] EXCEPT !.state = PreviousState(j, v)]
    IN
    /\ pc[w] = "rollback"
    /\ \E base \in Bases :
         /\ IF j.prev[v] = "UNSPECIFIED" THEN UNCHANGED registry
            ELSE Store(w, base, v, Applied(o, base[v]))
         /\ Settle(w, [j EXCEPT !.objs[v] = Completed(o, base[v])], Tail(j.todo), j.good, j.failing)
    /\ UNCHANGED <<fixed, edit, loop, data, calls, failures>>

\* apply_materialization: the SQL registry reads the row ...
Record(w) ==
    /\ pc[w] = "record" /\ backend = "sql"
    /\ Continue(w, "recordPut",
                [job[w] EXCEPT !.objs[Head(job[w].todo)] = rows[Head(job[w].todo)]])
    /\ UNCHANGED <<fixed, registry, edit, loop, data, calls, failures>>

\* ... and writes it in another transaction with the interval added, unless it then
\* equals the row; the file registry adds the interval to the row it has seen in its
\* copy, which may have been replaced by then.
Recorded(o, j, v) ==
    [state |-> "AVAILABLE_ONLINE", intervals |-> Append(o.intervals, <<j.start[v], j.end>>)]

RecordPut(w) ==
    LET j == job[w]
        v == Head(j.todo)
    IN
    /\ pc[w] = (IF backend = "sql" THEN "recordPut" ELSE "record")
    /\ \E seen, base \in Bases :
         Store(w, base, v, IF backend = "sql" THEN Applied(Recorded(j.objs[v], j, v), base[v])
                           ELSE Recorded(seen[v], j, v))
    /\ Settle(w, j, <<>>, Tail(j.todo), j.failing)
    /\ UNCHANGED <<fixed, edit, loop, data, calls, failures>>

-------------------------------------------------------------------------------
(* Users and crashes *)

\* set_feature_view_state reads the view and checks the transition ...
SetFeatureViewState(v, s) ==
    /\ edit = {} /\ io[User] = "none"
    /\ calls < MaxCalls[backend] /\ calls' = calls + 1
    /\ s \in UserStates \cap ValidTransitions[Current[v].state]
    /\ edit' = {[view |-> v, row |-> [Current[v] EXCEPT !.state = s]]}
    /\ Read
    /\ UNCHANGED <<fixed, loop, pc, job, data, failures>>

\* ... and applies the view in its new state.
ApplyState ==
    /\ \E e \in edit, base \in Bases : Store(User, base, e.view, Applied(e.row, base[e.view]))
    /\ edit' = {}
    /\ UNCHANGED <<fixed, loop, pc, job, data, calls, failures>>

\* A process dies: with SQL the server with all its asynchronous jobs, or a process
\* that runs a synchronous call; the one with the copy of the file, and the next one
\* reads the file.
Crash(dying) ==
    /\ MayCrash
    /\ \E w \in dying : ~AtRest(w)
    /\ pc' = [w \in Workers |-> IF w \in dying /\ ~AtRest(w) THEN "crashed" ELSE pc[w]]
    /\ loop' = IF loop \in dying THEN Nobody ELSE loop
    /\ job' = [w \in Workers |-> IF w \in dying THEN NoJob ELSE job[w]]
    /\ rows' = Current
    /\ io' = [t \in Threads |-> "none"] /\ msg' = [t \in Threads |-> NewRows]
    /\ edit' = IF backend = "file" THEN {} ELSE edit
    /\ UNCHANGED <<fixed, file, raced, data, calls, failures>>

ServerJobs == {w \in Workers : job[w].mode # "sync"}

Dying == IF backend = "file" THEN {Workers}
         ELSE {ServerJobs} \cup {{w} : w \in Workers \ ServerJobs}

Call(w) ==
    \/ Check(w) \/ CollectStuck(w) \/ GetView(w) \/ PutView(w)
    \/ Fetch(w) \/ Transition(w) \/ RunEngine(w) \/ Rollback(w) \/ Record(w) \/ RecordPut(w)

Step(w) == (io[w] = "none" /\ Call(w)) \/ OpenFile(w) \/ WriteFile(w)

Next ==
    \/ \E w \in Workers : Start(w) \/ Step(w)
    \/ \E v \in Views, s \in States : SetFeatureViewState(v, s)
    \/ ApplyState \/ OpenFile(User) \/ WriteFile(User)
    \/ ThreadReads
    \/ \E v \in Views : \E i \in accepted[v] : JobEnds(v, i)
    \/ \E dying \in Dying : Crash(dying)

Spec == Init /\ [][Next]_vars

\* Threads are scheduled and engine runs end; nobody has to make a request.
FairSpec == Spec /\ \A w \in Workers : WF_vars(Step(w))

-------------------------------------------------------------------------------
(* Properties *)

Labels == Ended \cup {"check", "stuck", "get", "put", "fetch", "transition", "rollback",
                      "record", "recordPut"}

\* The type of every variable.
TypeOK ==
    /\ backend \in {"file", "sql"} /\ batch \in BOOLEAN /\ waits \in BOOLEAN
    /\ rows \in [Views -> Row] /\ file \in [Views -> Row]
    /\ io \in [Threads -> {"none", "open", "write"}]
    /\ msg \in [Threads -> [Views -> Row]]
    /\ edit \subseteq [view : Views, row : Row]
    /\ loop \in Workers \cup {Nobody}
    /\ pc \in [Workers -> Labels]
    /\ \A w \in Workers :
         /\ job[w].mode \in {"sync", "async", "force"}
         /\ job[w].end \in 0..MaxTime
         /\ job[w].objs \in [Views -> Row]
         /\ job[w].start \in [Views -> 0..MaxTime]
         /\ job[w].prev \in [Views -> States \ {"MATERIALIZING"}]
    /\ accepted \in [Views -> SUBSET Interval] /\ written \in [Views -> SUBSET Interval]
    /\ raced \in BOOLEAN
    /\ calls \in Nat /\ failures \in 0..MaxFailures

\* What a success of the engine stands for: the data is written; of an engine that
\* does not wait, only that the job has been accepted.
Delivered == IF waits THEN written ELSE accepted

\* An interval is in the registry only if the engine wrote its data, or accepted the
\* job if it does not wait: no failure, rollback, lost race, reload or crash records
\* an interval whose job failed.
RecordedIsWritten ==
    \A v \in Views : ToSet(rows[v].intervals) \cup ToSet(file[v].intervals) \subseteq Delivered[v]

\* What materialize_incremental skips is there: all data before the most recent end
\* time has been written by jobs that succeeded, also when calls overlap, fail or
\* crash, when the SQL registry loses an interval, and when threads overwrite the
\* registry file with an older copy.
WatermarkCovered ==
    \A v \in Views : \A t \in 0..(MostRecentEnd(Current[v].intervals) - 1) :
      \E i \in Delivered[v] : i[1] <= t /\ t < i[2]

\* A view is served as AVAILABLE_ONLINE only when something was materialized.
AvailableHasData ==
    \A v \in Views : Current[v].state = "AVAILABLE_ONLINE" => Delivered[v] # {}

\* Worker w is materializing view v, from the reservation to the end.
Working(w, v) ==
    \/ pc[w] = "fetch" /\ v \in ToSet(job[w].views)
    \/ pc[w] = "transition" /\ v \in ToSet(job[w].current \o job[w].later)

Exclusive ==
    \A w1, w2 \in Workers, v \in Views : (Working(w1, v) /\ Working(w2, v)) => w1 = w2

\* On one server with the file registry, while no job has failed and no thread has
\* used the registry in the middle of another one's change, the reservation keeps any
\* two asynchronous jobs from materializing the same view.
ExclusiveWhileNothingFails == (backend = "file" /\ failures = 0 /\ ~raced) => Exclusive

\* With the file registry, a view is MATERIALIZING only while a call that names it
\* runs: of calls that overlap, fail, raise or roll back, none ends and leaves a view
\* behind that nobody will release, unless a thread uses the registry in the middle
\* of another one's change.
MaterializingIsOwned ==
    (backend = "file" /\ ~raced /\ ~Pending) =>
      \A v \in Views : file[v].state = "MATERIALIZING" =>
        \E w \in Workers : ~AtRest(w) /\ v \in ToSet(job[w].views)

\* Nothing stays MATERIALIZING: every reservation and transition is followed by a
\* success, a rollback or a reset, unless the registry file loses it to a race.
EventuallyReleased ==
    \A v \in Views :
      Current[v].state = "MATERIALIZING" ~> (Current[v].state # "MATERIALIZING" \/ raced)
===============================================================================
