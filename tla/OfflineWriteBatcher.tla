-------------------------- MODULE OfflineWriteBatcher --------------------------
(***************************************************************************)
(* The Python feature server's in-process batcher for the offline part of  *)
(* /push requests (sdk/python/feast/feature_server.py, class               *)
(* OfflineWriteBatcher) and the store.push(to=OFFLINE) it calls.           *)
(*                                                                         *)
(* Threads: the producers call enqueue, and flush in the calling thread    *)
(* when a buffer is full; Bg is the daemon thread that runs _run; Main is  *)
(* the producer that runs the server's lifespan, hence shutdown. One step  *)
(* is one critical section under _lock or one write of one feature view.   *)
(***************************************************************************)
EXTENDS Integers, Sequences, SequencesExt

CONSTANTS
    Keys,          \* batch keys: (push source, allow_registry_cache, transform_on_write)
    Views,         \* the feature views fed by a push source
    Producers,     \* threads that call enqueue
    Main,          \* the producer that runs the lifespan and so shutdown
    Bg,            \* the background flusher thread
    BatchSize,     \* cfg.batch_size, in rows
    Interval,      \* cfg.batch_interval_seconds
    RowCounts,     \* row counts of the pushed frames
    Prompt,        \* TRUE: time only passes while no thread has work to do
    ConcatMayFail, \* TRUE: pd.concat may raise (out of memory)
    MaxFrames,     \* bound: frames accepted per key
    MaxFailures    \* bound: failing pushes

ASSUME ThreadsAssumption == Main \in Producers /\ Bg \notin Producers
ASSUME ConfigAssumption ==
    /\ BatchSize \in Nat /\ Interval \in Nat \ {0} /\ RowCounts \subseteq Nat
    /\ Prompt \in BOOLEAN /\ ConcatMayFail \in BOOLEAN
    /\ MaxFrames \in Nat /\ MaxFailures \in Nat
ASSUME ViewsAssumption == Views # {}

VARIABLES
    buffers,   \* _buffers: frames waiting, per key
    inflight,  \* _inflight: keys some thread is flushing
    age,       \* seconds since _last_flush[key], capped; Never before its default is made
    stop,      \* _stop_event
    waited,    \* seconds Bg has spent in _stop_event.wait, capped
    pc,        \* where each thread is
    cur,       \* the key each thread is flushing
    held,      \* the frames a thread drained (local variable dfs)
    todo,      \* feature views the thread's push has not written yet
    work,      \* keys the thread flushes next (keys_to_flush, or flush_all's keys)
    \* history variables
    accepted,  \* frames enqueue accepted, per key, in order
    delivered, \* frames of pushes that returned normally, per key, in order
    written,   \* what each feature view's batch source received, per key
    lost,      \* frames dropped by a failing pd.concat
    failures,  \* number of failing pushes
    timedOut,  \* shutdown's join gave up waiting for Bg
    since      \* seconds the oldest frame of each buffer has waited, capped

shared == <<buffers, inflight, age, stop, waited>>
local  == <<pc, cur, held, todo, work>>
hist   == <<accepted, delivered, written, lost, failures, timedOut, since>>
vars   == <<shared, local, hist>>

Threads == Producers \cup {Bg}
Never == -1
NoKey == "none"
CheckInterval == IF Interval < 1 THEN 1 ELSE Interval
SinceCap == 2 * Interval + 1

Frame == [id : 1..MaxFrames, rows : RowCounts]

\* sum(len(d) for d in dfs)
Rows(dfs) == FoldLeft(LAMBDA sum, f : sum + f.rows, 0, dfs)

ShouldFlush(dfs) == Rows(dfs) >= BatchSize

Init ==
    /\ buffers = [k \in Keys |-> <<>>]
    /\ inflight = {}
    /\ age = [k \in Keys |-> Never]
    /\ stop = FALSE
    /\ waited = 0
    /\ pc = [t \in Threads |-> IF t = Bg THEN "wait" ELSE "idle"]
    /\ cur = [t \in Threads |-> NoKey]
    /\ held = [t \in Threads |-> <<>>]
    /\ todo = [t \in Threads |-> {}]
    /\ work = [t \in Threads |-> {}]
    /\ accepted = [k \in Keys |-> <<>>]
    /\ delivered = [k \in Keys |-> <<>>]
    /\ written = [k \in Keys |-> [v \in Views |-> <<>>]]
    /\ lost = [k \in Keys |-> <<>>]
    /\ failures = 0
    /\ timedOut = FALSE
    /\ since = [k \in Keys |-> 0]


\* Next to some operators stands a mutated form of it, Operator_Fault: a plausible
\* mistake in the code that the operator models. No action uses these.

Goto(t, label) == pc' = [pc EXCEPT ![t] = label]

\* Where a thread goes when it has no more keys to flush.
Home(t) == IF t = Bg THEN "wait" ELSE IF stop THEN "down" ELSE "idle"

-------------------------------------------------------------------------------
(* The public API *)

\* enqueue: the frame is buffered, and the caller flushes a full buffer itself.
\* The server runs shutdown once its requests are done, so not while stop holds.
Enqueue(t, k) ==
    /\ pc[t] = "idle" /\ ~stop
    /\ Len(accepted[k]) < MaxFrames
    /\ \E r \in RowCounts :
         LET f == [id |-> Len(accepted[k]) + 1, rows |-> r]
             dfs == Append(buffers[k], f)
         IN  /\ buffers' = [buffers EXCEPT ![k] = dfs]
             /\ accepted' = [accepted EXCEPT ![k] = Append(@, f)]
             /\ IF ShouldFlush(dfs)
                THEN Goto(t, "drain") /\ cur' = [cur EXCEPT ![t] = k]
                ELSE UNCHANGED <<pc, cur>>
    /\ since' = IF buffers[k] = <<>> THEN [since EXCEPT ![k] = 0] ELSE since
    /\ UNCHANGED <<inflight, age, stop, waited, held, todo, work,
                   delivered, written, lost, failures, timedOut>>

\* shutdown, first half: signal the background thread and start joining it.
\* The lifespan's shutdown runs when no request is being served.
Shutdown ==
    /\ ~stop
    /\ \A t \in Producers : pc[t] = "idle"
    /\ stop' = TRUE
    /\ Goto(Main, "join")
    /\ UNCHANGED <<buffers, inflight, age, waited, cur, held, todo, work, hist>>

\* shutdown, second half: join returned, because the thread ended or after its
\* timeout, and flush_all takes the keys of _buffers (those ever enqueued).
FlushAllKeys_None == {}
FlushAllKeys == {k \in Keys : accepted[k] # <<>>}

FlushAll ==
    /\ pc[Main] = "join"
    /\ timedOut' = (pc[Bg] # "exited")
    /\ work' = [work EXCEPT ![Main] = FlushAllKeys]
    /\ Goto(Main, "next")
    /\ UNCHANGED <<shared, cur, held, todo,
                   accepted, delivered, written, lost, failures, since>>

-------------------------------------------------------------------------------
(* The background loop *)

Due_Late(k) == buffers[k] # <<>> /\ age[k] # Never /\ age[k] > Interval
Due(k) == buffers[k] # <<>> /\ age[k] # Never /\ age[k] >= Interval

\* _run, one round: the wait timed out; keys whose last flush is old enough are
\* collected, and reading _last_flush of a buffered key for the first time sets
\* it to the current time.
AgeOnCheck(k) == IF buffers[k] # <<>> /\ age[k] = Never THEN 0 ELSE age[k]

Check ==
    /\ pc[Bg] = "wait" /\ ~stop /\ waited >= CheckInterval
    /\ work' = [work EXCEPT ![Bg] = {k \in Keys : Due(k)}]
    /\ age' = [k \in Keys |-> AgeOnCheck(k)]
    /\ Goto(Bg, "next")
    /\ UNCHANGED <<buffers, inflight, stop, waited, cur, held, todo, hist>>

\* _run leaves its loop when wait reports the stop event.
BgExit ==
    /\ pc[Bg] = "wait" /\ stop
    /\ Goto(Bg, "exited")
    /\ UNCHANGED <<shared, cur, held, todo, work, hist>>

\* The for loops of _run and flush_all: flush the next key, or be done.
NextKey(t) ==
    /\ pc[t] = "next"
    /\ \/ /\ work[t] = {}
          /\ Goto(t, Home(t))
          /\ cur' = [cur EXCEPT ![t] = NoKey]
          /\ waited' = IF t = Bg THEN 0 ELSE waited
          /\ UNCHANGED work
       \/ \E k \in work[t] :
            /\ work' = [work EXCEPT ![t] = @ \ {k}]
            /\ cur' = [cur EXCEPT ![t] = k]
            /\ Goto(t, "drain")
            /\ UNCHANGED waited
    /\ UNCHANGED <<buffers, inflight, age, stop, held, todo, hist>>

-------------------------------------------------------------------------------
(* _flush, in whichever thread runs it *)

\* _drain_locked under the lock: nothing to do if another thread flushes the
\* key or the buffer is empty; else take the frames and mark the key in flight.
BusyOrEmpty_EmptyOnly(k) == buffers[k] = <<>>
BusyOrEmpty(k) == k \in inflight \/ buffers[k] = <<>>

NothingDrained == "next"

Drain(t) ==
    /\ pc[t] = "drain"
    /\ LET k == cur[t] IN
       IF BusyOrEmpty(k)
       THEN /\ Goto(t, NothingDrained)
            /\ UNCHANGED <<buffers, inflight, held, todo, since>>
       ELSE /\ held' = [held EXCEPT ![t] = buffers[k]]
            /\ buffers' = [buffers EXCEPT ![k] = <<>>]
            /\ inflight' = inflight \cup {k}
            /\ todo' = [todo EXCEPT ![t] = Views]
            /\ since' = [since EXCEPT ![k] = 0]
            /\ Goto(t, "push")
    /\ UNCHANGED <<age, stop, waited, cur, work,
                   accepted, delivered, written, lost, failures, timedOut>>

\* pd.concat is outside the try: its exception leaves _flush with the drained
\* frames gone and the key still in flight, and ends the caller's for loop.
ConcatError(t) ==
    /\ ConcatMayFail
    /\ pc[t] = "push" /\ todo[t] = Views
    /\ lost' = [lost EXCEPT ![cur[t]] = held[t]]
    /\ held' = [held EXCEPT ![t] = <<>>]
    /\ todo' = [todo EXCEPT ![t] = {}]
    /\ work' = [work EXCEPT ![t] = {}]
    /\ Goto(t, "next")
    /\ UNCHANGED <<shared, cur, accepted, delivered, written, failures, timedOut, since>>

\* store.push writes the batch to the batch source of each feature view in turn.
ViewsLeft_None(t, v) == {}
ViewsLeft(t, v) == todo[t] \ {v}

PushView(t) ==
    /\ pc[t] = "push"
    /\ \E v \in todo[t] :
         /\ written' = [written EXCEPT ![cur[t]][v] = @ \o held[t]]
         /\ todo' = [todo EXCEPT ![t] = ViewsLeft(t, v)]
    /\ UNCHANGED <<shared, pc, cur, held, work,
                   accepted, delivered, lost, failures, timedOut, since>>

\* store.push raises: no such push source, a column mismatch, a store error,
\* possibly after some or all of the feature views were written.
PushError(t) ==
    /\ pc[t] = "push" /\ failures < MaxFailures
    /\ failures' = failures + 1
    /\ todo' = [todo EXCEPT ![t] = {}]
    /\ Goto(t, "failed")
    /\ UNCHANGED <<shared, cur, held, work,
                   accepted, delivered, written, lost, timedOut, since>>

\* The except branch, under the lock: the frames go back to the head of the
\* buffer for a later flush.
PutBack_Behind(dfs, buffer) == buffer \o dfs
PutBack(dfs, buffer) == dfs \o buffer

Release_Never(k) == inflight
Release(k) == inflight \ {k}

Restore(t) ==
    /\ pc[t] = "failed"
    /\ buffers' = [buffers EXCEPT ![cur[t]] = PutBack(held[t], @)]
    /\ inflight' = Release(cur[t])
    /\ held' = [held EXCEPT ![t] = <<>>]
    /\ Goto(t, "next")
    /\ UNCHANGED <<age, stop, waited, cur, todo, work, hist>>

\* push returned: under the lock the flush time is recorded, the key released,
\* and the loop goes round again if a full batch arrived meanwhile.
AfterFlush_Return(k) == "next"
AfterFlush(k) == IF ShouldFlush(buffers[k]) THEN "drain" ELSE "next"

Complete(t) ==
    /\ pc[t] = "push" /\ todo[t] = {}
    /\ age' = [age EXCEPT ![cur[t]] = 0]
    /\ inflight' = Release(cur[t])
    /\ delivered' = [delivered EXCEPT ![cur[t]] = @ \o held[t]]
    /\ held' = [held EXCEPT ![t] = <<>>]
    /\ Goto(t, AfterFlush(cur[t]))
    /\ UNCHANGED <<buffers, stop, waited, cur, todo, work,
                   accepted, written, lost, failures, timedOut, since>>

-------------------------------------------------------------------------------
(* The environment *)

\* The server process ends after its lifespan: Bg is a daemon thread and dies.
Exit ==
    /\ pc[Main] = "down"
    /\ pc' = [t \in Threads |-> "dead"]
    /\ UNCHANGED <<shared, cur, held, todo, work, hist>>

AtRest(t) ==
    \/ pc[t] \in {"idle", "exited", "dead"}
    \/ pc[t] = "wait" /\ ~stop /\ waited < CheckInterval

\* A second passes. Ages count up to the largest value a decision looks at.
Tick ==
    /\ Prompt => \A t \in Threads : AtRest(t)
    /\ waited' = IF pc[Bg] = "wait" /\ waited < CheckInterval THEN waited + 1 ELSE waited
    /\ age' = [k \in Keys |-> IF age[k] \in 0..(Interval - 1) THEN age[k] + 1 ELSE age[k]]
    /\ since' = [k \in Keys |-> IF buffers[k] # <<>> /\ since[k] < SinceCap
                                THEN since[k] + 1 ELSE since[k]]
    /\ UNCHANGED <<buffers, inflight, stop, local,
                   accepted, delivered, written, lost, failures, timedOut>>

Flush(t) ==
    Drain(t) \/ ConcatError(t) \/ PushView(t) \/ PushError(t) \/ Restore(t) \/ Complete(t)

Next ==
    \/ \E t \in Producers, k \in Keys : Enqueue(t, k)
    \/ Shutdown \/ FlushAll \/ Check \/ BgExit \/ Exit \/ Tick
    \/ \E t \in Threads : NextKey(t) \/ Flush(t)

Spec == Init /\ [][Next]_vars

(* Threads are scheduled, time passes, and a push that has been started ends,  *)
(* normally or not; nothing obliges a client to push or the server to stop.    *)
Fairness ==
    /\ \A t \in Threads : WF_vars(NextKey(t)) /\ WF_vars(Flush(t))
    /\ WF_vars(Check) /\ WF_vars(BgExit) /\ WF_vars(FlushAll) /\ WF_vars(Tick)

FairSpec == Spec /\ Fairness
-------------------------------------------------------------------------------
(* Properties *)

Labels == {"idle", "wait", "join", "next", "drain", "push", "failed",
           "down", "exited", "dead"}

\* The type of every variable of the batcher.
TypeOK ==
    /\ buffers \in [Keys -> Seq(Frame)]
    /\ inflight \subseteq Keys
    /\ age \in [Keys -> {Never} \cup (0..Interval)]
    /\ stop \in BOOLEAN
    /\ waited \in 0..CheckInterval
    /\ pc \in [Threads -> Labels]
    /\ cur \in [Threads -> Keys \cup {NoKey}]
    /\ held \in [Threads -> Seq(Frame)]
    /\ todo \in [Threads -> SUBSET Views]
    /\ work \in [Threads -> SUBSET Keys]
    /\ accepted \in [Keys -> Seq(Frame)]
    /\ delivered \in [Keys -> Seq(Frame)]
    /\ written \in [Keys -> [Views -> Seq(Frame)]]
    /\ lost \in [Keys -> Seq(Frame)]
    /\ failures \in Nat
    /\ timedOut \in BOOLEAN
    /\ since \in [Keys -> Nat]

\* Thread t has drained key k and has not released it yet.
Holding(t, k) == held[t] # <<>> /\ cur[t] = k

\* A key is in _inflight exactly while one thread flushes it, or for ever once
\* pd.concat failed on it: never two flushes of a key at a time, and no key is
\* left in flight by a flush that ended.
InflightExclusive ==
    \A k \in Keys :
       /\ k \in inflight <=> (lost[k] # <<>> \/ \E t \in Threads : Holding(t, k))
       /\ \A t \in Threads : Holding(t, k) =>
             lost[k] = <<>> /\ \A u \in Threads : Holding(u, k) => u = t

\* Nothing is lost, duplicated or reordered on the way through the buffers: what
\* enqueue accepted is what pushes delivered, then what is in the hands of the
\* flushing thread (or was dropped by pd.concat), then what is buffered.
Conservation ==
    \A k \in Keys :
       /\ \A t \in Threads : Holding(t, k) =>
             accepted[k] = delivered[k] \o held[t] \o buffers[k]
       /\ (\A t \in Threads : ~Holding(t, k)) =>
             accepted[k] = delivered[k] \o lost[k] \o buffers[k]

\* No feature view's batch source sees a frame before all earlier frames of the
\* same key, whatever fails and is retried.
ViewOrder ==
    \A k \in Keys, v \in Views : LET w == written[k][v] IN
       \A i \in 1..Len(w) : \A n \in 1..(w[i].id - 1) : \E j \in 1..(i - 1) : w[j].id = n

\* A delivered frame is in the batch source of every feature view.
AllViewsWritten ==
    \A k \in Keys, v \in Views : ToSet(delivered[k]) \subseteq ToSet(written[k][v])

\* No full buffer is left behind: a frame that fills a buffer while another
\* thread flushes the key (so that its own _drain_locked returns None) is
\* flushed by that thread's re-check of pending_rows.
NoFullBufferAtRest ==
    \A k \in Keys :
       (failures = 0 /\ lost[k] = <<>> /\ \A t \in Threads : cur[t] # k)
       => ~ShouldFlush(buffers[k])

\* shutdown delivers everything that was accepted, provided the background
\* thread ended in time, no push failed and no concat failed.
GracefulShutdown ==
    (pc[Main] \in {"down", "dead"} /\ ~timedOut /\ failures = 0
        /\ \A k \in Keys : lost[k] = <<>>)
    => delivered = accepted

\* With threads that run promptly and pushes that do not fail, a frame waits in
\* its buffer for at most two intervals while the server runs.
BufferedAtMostTwoIntervals ==
    (~stop /\ failures = 0) => \A k \in Keys : since[k] <= 2 * Interval

\* Every accepted frame is delivered unless the server shuts down first: the
\* background thread retries what failed and flushes what never fills a batch.
EventuallyDelivered ==
    \A k \in Keys : \A n \in 1..MaxFrames :
       Len(accepted[k]) >= n ~> (Len(delivered[k]) >= n \/ stop)

\* The batcher implements the delivery it promises.
Delivery == INSTANCE OfflineDelivery
ImplementsDelivery == Delivery!Spec
================================================================================
