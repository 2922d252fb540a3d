------------------------------ MODULE GoLogger ------------------------------
(***************************************************************************)
(* Feature logging of the Go feature server.  Requests put logs into the   *)
(* bounded channel of their feature service's logger; the goroutine of     *)
(* each logger buffers them, writes them to files in a directory, and      *)
(* hands the directory to a callback that loads it into the offline store. *)
(* All loggers share one OfflineStoreSink, that is one datasetDir, which   *)
(* no lock protects.  Stop signals each goroutine and waits for it.        *)
(*                                                                         *)
(* Logs are numbered in the order in which they are accepted.  What Compact *)
(* turns into Arrow records is written together: records are a set of logs. *)
(***************************************************************************)
EXTENDS Naturals, FiniteSets, FiniteSetsExt

CONSTANTS Services,      \* feature services with logging
          Setups,        \* the services in use, with bounds on their logs and
                         \* on faults: failed writes, failed callbacks, panics,
                         \* logs that cannot be converted
          Capacity,      \* ChannelCapacity
          RecordSize,    \* RECORD_SIZE
          Dirs,          \* names of temporary directories
          NoDir

VARIABLES setup,         \* the services in use and the bounds
          loggers,       \* LoggingService.loggers
          last,          \* number of the last accepted log
          own,           \* the service that logged it
          poison,        \* logs that cannot be converted to Arrow
          ch,            \* logCh
          sig,           \* number of signals in signalCh
          logs, records, \* MemoryBuffer
          loop,          \* the goroutine: pc, its directory, shouldStop
          datasetDir,    \* of the sink
          dirs,          \* what the directories hold
          jobs,          \* the goroutines that Flush has started
          store,         \* how often the offline store has a log, by name
          failed,        \* logs of callbacks that failed
          stopper,       \* LoggingService.Stop
          faults,        \* faults so far
          panicked,      \* history: a handler has panicked
          overlap        \* history: two loggers were in the sink at once

vars == <<setup, loggers, last, own, poison, ch, sig, logs, records, loop,
          datasetDir, dirs, jobs, store, failed, stopper, faults, panicked,
          overlap>>

memory == <<poison, ch, sig, logs, records>>
service == <<setup, loggers, last, own, stopper>>
sink == <<datasetDir, dirs, jobs>>
offline == <<store, failed>>
history == <<panicked, overlap>>

Logs == UNION {1..u.logs : u \in Setups}

ASSUME LoggerAssumption ==
    /\ IsFiniteSet(Services) /\ Setups # {}
    /\ \A u \in Setups : /\ u.services \subseteq Services
                         /\ u.logs \in Nat /\ u.faults \in Nat
    /\ Capacity \in Nat \ {0} /\ RecordSize \in Nat \ {0}
    /\ NoDir \notin Dirs

Loop == [pc: {"select", "open", "mkdir", "create", "table", "flush", "clear",
              "stopped"},
         dir: Dirs \cup {NoDir}, stop: BOOLEAN]

Dir == [state: {"none", "live"}, logs: SUBSET Logs, broken: BOOLEAN]

Job == [name: Services, dir: Dirs, pc: {"call", "remove"}]

\* The types of the state; no buffer holds a log before it was accepted, and
\* neither the log channel nor the signal channel exceeds its capacity.
TypeOK ==
    /\ setup \in Setups /\ loggers \subseteq setup.services
    /\ last \in 0..setup.logs
    /\ own \in [1..last -> Services]
    /\ poison \subseteq 1..last
    /\ ch \in [Services -> SUBSET (1..last)]
    /\ \A s \in Services : Cardinality(ch[s]) <= Capacity
    /\ sig \in [Services -> 0..2]
    /\ logs \in [Services -> SUBSET (1..last)]
    /\ records \in [Services -> SUBSET (1..last)]
    /\ loop \in [Services -> Loop]
    /\ datasetDir \in Dirs \cup {NoDir}
    /\ dirs \in [Dirs -> Dir]
    /\ jobs \subseteq Job
    /\ store \in [Services -> [Logs -> 0..2]]
    /\ failed \subseteq 1..last
    /\ stopper \in [pc: {"idle", "stopping", "done"}, left: SUBSET Services,
                    waits: SUBSET Services]
    /\ faults \in 0..setup.faults
    /\ panicked \in BOOLEAN /\ overlap \in BOOLEAN

NoLogs == [state |-> "none", logs |-> {}, broken |-> FALSE]

Init ==
    /\ setup \in Setups
    /\ loggers = {}
    /\ last = 0 /\ own = <<>>
    /\ poison = {} /\ ch = [s \in Services |-> {}]
    /\ sig = [s \in Services |-> 0]
    /\ logs = [s \in Services |-> {}] /\ records = [s \in Services |-> {}]
    /\ loop = [s \in Services |->
                 [pc |-> "select", dir |-> NoDir, stop |-> FALSE]]
    /\ datasetDir = NoDir
    /\ dirs = [d \in Dirs |-> NoLogs]
    /\ jobs = {}
    /\ store = [s \in Services |-> [l \in Logs |-> 0]]
    /\ failed = {}
    /\ stopper = [pc |-> "idle", left |-> {}, waits |-> {}]
    /\ faults = 0 /\ panicked = FALSE /\ overlap = FALSE

Fault == faults < setup.faults /\ faults' = faults + 1

(***************************************************************************)
(* Requests                                                                *)
(***************************************************************************)

\* GetOrCreateLogger: the first request of a service starts its goroutine.
GetOrCreateLogger(s) ==
    /\ stopper.pc = "idle"
    /\ s \in setup.services \ loggers
    /\ loggers' = loggers \cup {s}
    /\ UNCHANGED <<setup, last, own, stopper, loop, sink, offline, faults,
                   history, memory>>

\* EmitLog: the log is accepted, or the request gives up after EmitTimeout,
\* which changes nothing.  Requests have ended when the service is stopped.
EmitLog(s) ==
    /\ stopper.pc = "idle"
    /\ s \in loggers
    /\ last < setup.logs
    /\ Cardinality(ch[s]) < Capacity
    /\ last' = last + 1
    /\ own' = [l \in 1..(last + 1) |-> IF l <= last THEN own[l] ELSE s]
    /\ ch' = [ch EXCEPT ![s] = @ \cup {last + 1}]
    /\ \/ UNCHANGED <<poison, faults>>
       \/ Fault /\ poison' = poison \cup {last + 1}
    /\ UNCHANGED <<setup, loggers, stopper, sig, logs, records, loop, sink,
                   offline, history>>

(***************************************************************************)
(* The buffer                                                              *)
(***************************************************************************)

\* Compact fails as long as the buffer holds a log that cannot be converted.
Convertible(ls) == ls \cap poison = {}

\* case logItem := <-l.logCh: Append, which compacts a full buffer.
TakeLog(s) ==
    /\ s \in loggers
    /\ loop[s].pc = "select"
    /\ ch[s] # {}
    /\ LET l == Min(ch[s])
           new == logs[s] \cup {l}
           full == Cardinality(new) = RecordSize /\ Convertible(new)
       IN /\ ch' = [ch EXCEPT ![s] = @ \ {l}]
          /\ logs' = [logs EXCEPT ![s] = IF full THEN {} ELSE new]
          /\ records' = [records EXCEPT ![s] = IF full THEN @ \cup new ELSE @]
    /\ UNCHANGED <<poison, sig, loop, sink, offline, faults, history,
                   service>>

\* Where a handler goes on: the one of the signal writes, flushes and stops.
AfterWrite(stop) == IF stop THEN "flush" ELSE "select"

\* Fault: the loop goes on after the signal.
AfterFlush_Fault(stop) == "select"

\* shouldStop ends the loop and sets isStopped.
AfterFlush(stop) == IF stop THEN "stopped" ELSE "select"

\* writeBatch up to the call of the sink: compact what there is.
WriteBatch(s, stop) ==
    LET ok == Convertible(logs[s])
        recs == IF ok THEN records[s] \cup logs[s] ELSE records[s]
        write == ok /\ recs # {}
    IN /\ logs' = [logs EXCEPT ![s] = IF ok THEN {} ELSE @]
       /\ records' = [records EXCEPT ![s] = recs]
       /\ loop' = [loop EXCEPT ![s].stop = stop,
                               ![s].pc = IF write THEN "open"
                                                  ELSE AfterWrite(stop)]

\* Fault: only full buffers are written.
WriteTick_Fault(s) ==
    /\ s \in loggers
    /\ loop[s].pc = "select"
    /\ records[s] # {}
    /\ Convertible(logs[s])
    /\ WriteBatch(s, FALSE)
    /\ UNCHANGED <<poison, ch, sig, sink, offline, faults, history, service>>

\* case <-writeTicker.C.  A tick that finds nothing it can write has no effect
\* and is no step here.
WriteTick(s) ==
    /\ s \in loggers
    /\ loop[s].pc = "select"
    /\ logs[s] \cup records[s] # {}
    /\ Convertible(logs[s])
    /\ WriteBatch(s, FALSE)
    /\ UNCHANGED <<poison, ch, sig, sink, offline, faults, history, service>>

\* case <-flushTicker.C.  Without a directory a tick has no effect.
FlushTick(s) ==
    /\ s \in loggers
    /\ loop[s].pc = "select"
    /\ datasetDir # NoDir
    /\ loop' = [loop EXCEPT ![s].pc = "flush"]
    /\ UNCHANGED <<sink, offline, faults, history, memory, service>>

\* Fault: the signal flushes, but what is still in the buffer is not written.
TakeSignal_Fault(s) ==
    /\ loop[s].pc = "select"
    /\ sig[s] > 0
    /\ sig' = [sig EXCEPT ![s] = @ - 1]
    /\ loop' = [loop EXCEPT ![s].pc = "flush", ![s].stop = TRUE]
    /\ UNCHANGED <<poison, ch, logs, records, sink, offline, faults, history,
                   service>>

\* case <-l.signalCh: write, flush, stop.  What is in logCh stays there.
TakeSignal(s) ==
    /\ loop[s].pc = "select"
    /\ sig[s] > 0
    /\ sig' = [sig EXCEPT ![s] = @ - 1]
    /\ WriteBatch(s, TRUE)
    /\ UNCHANGED <<poison, ch, sink, offline, faults, history, service>>

(***************************************************************************)
(* OfflineStoreSink.Write                                                  *)
(***************************************************************************)

InSink(s) == loop[s].pc \in {"mkdir", "create", "table", "clear"}

\* Another logger is in the middle of a Write or a Flush.
Overlapping(s) ==
    overlap' = (overlap \/ \E t \in Services \ {s} : InSink(t))

\* getOrCreateDatasetDir: the directory there is, or none yet.
OpenDir(s) ==
    /\ loop[s].pc = "open"
    /\ loop' = [loop EXCEPT ![s].dir = datasetDir,
                            ![s].pc = IF datasetDir = NoDir THEN "mkdir"
                                                            ELSE "create"]
    /\ Overlapping(s)
    /\ UNCHANGED <<sink, offline, faults, panicked, memory, service>>

\* A name that nobody uses (any more).
Unused(d) ==
    /\ dirs[d].state = "none"
    /\ d # datasetDir
    /\ \A t \in Services : loop[t].dir # d
    /\ \A j \in jobs : j.dir # d

\* os.MkdirTemp and the assignment to s.datasetDir, over another logger's.  The
\* number of names in use at a time is bounded by Dirs.
MakeDir(s) ==
    /\ loop[s].pc = "mkdir"
    /\ \E d \in Dirs : Unused(d)
    /\ LET d == CHOOSE e \in Dirs : Unused(e)
       IN /\ dirs' = [dirs EXCEPT ![d].state = "live"]
          /\ datasetDir' = d
          /\ loop' = [loop EXCEPT ![s].dir = d, ![s].pc = "create"]
    /\ Overlapping(s)
    /\ UNCHANGED <<jobs, offline, faults, panicked, memory, service>>

\* The end of writeBatch, whatever came of it.
Written(s) ==
    [loop EXCEPT ![s].dir = NoDir, ![s].pc = AfterWrite(loop[s].stop)]

\* os.Create: an error if a callback has removed the directory.
CreateFile(s) ==
    /\ loop[s].pc = "create"
    /\ loop' = IF dirs[loop[s].dir].state = "live"
               THEN [loop EXCEPT ![s].pc = "table"] ELSE Written(s)
    /\ Overlapping(s)
    /\ UNCHANGED <<sink, offline, faults, panicked, memory, service>>

\* pqarrow.WriteTable, and the buffer is empty.  The file is gone with its
\* directory if that has been removed in the meantime.
WriteTable(s) ==
    /\ loop[s].pc = "table"
    /\ dirs' = IF dirs[loop[s].dir].state = "live"
               THEN [dirs EXCEPT ![loop[s].dir].logs = @ \cup records[s]]
               ELSE dirs
    /\ records' = [records EXCEPT ![s] = {}]
    /\ loop' = Written(s)
    /\ Overlapping(s)
    /\ UNCHANGED <<poison, ch, sig, logs, datasetDir, jobs, offline, faults,
                   panicked, service>>

\* Fault: the records are dropped although the write has failed.
WriteFails_Fault(s) ==
    /\ loop[s].pc \in {"mkdir", "create", "table"}
    /\ Fault
    /\ records' = [records EXCEPT ![s] = {}]
    /\ loop' = Written(s)
    /\ Overlapping(s)
    /\ UNCHANGED <<poison, ch, sig, logs, sink, offline, panicked, service>>

\* MkdirTemp, Create or WriteTable returns an error, the last one with part of
\* a file left: the records are kept for the next write.
WriteFails(s) ==
    /\ loop[s].pc \in {"mkdir", "create", "table"}
    /\ Fault
    /\ dirs' = IF loop[s].pc = "table" /\ dirs[loop[s].dir].state = "live"
               THEN [dirs EXCEPT ![loop[s].dir].broken = TRUE] ELSE dirs
    /\ loop' = Written(s)
    /\ Overlapping(s)
    /\ UNCHANGED <<datasetDir, jobs, offline, panicked, memory, service>>

(***************************************************************************)
(* OfflineStoreSink.Flush and the goroutine it starts                      *)
(***************************************************************************)

\* Nothing to flush, or datasetDir := s.datasetDir.
FlushRead(s) ==
    /\ loop[s].pc = "flush"
    /\ loop' = IF datasetDir = NoDir
               THEN [loop EXCEPT ![s].pc = AfterFlush(loop[s].stop)]
               ELSE [loop EXCEPT ![s].pc = "clear", ![s].dir = datasetDir]
    /\ Overlapping(s)
    /\ UNCHANGED <<sink, offline, faults, panicked, memory, service>>

\* s.datasetDir = "", and the callback starts, with this logger's name.
FlushClear(s) ==
    /\ loop[s].pc = "clear"
    /\ datasetDir' = NoDir
    /\ jobs' = jobs \cup {[name |-> s, dir |-> loop[s].dir, pc |-> "call"]}
    /\ loop' = [loop EXCEPT ![s].dir = NoDir,
                            ![s].pc = AfterFlush(loop[s].stop)]
    /\ Overlapping(s)
    /\ UNCHANGED <<dirs, offline, faults, panicked, memory, service>>

\* writeCallback loads the directory into the offline store, or fails, which
\* is only printed; part of a file may be enough for that.
Callback(j) ==
    /\ j.pc = "call"
    /\ jobs' = (jobs \ {j}) \cup {[j EXCEPT !.pc = "remove"]}
    /\ \/ /\ store' = [store EXCEPT ![j.name] =
                         [l \in Logs |-> IF l \in dirs[j.dir].logs
                                         THEN Min({@[l] + 1, 2}) ELSE @[l]]]
          /\ UNCHANGED <<failed, faults>>
       \/ /\ IF dirs[j.dir].broken THEN UNCHANGED faults ELSE Fault
          /\ failed' = failed \cup dirs[j.dir].logs
          /\ UNCHANGED store
    /\ UNCHANGED <<loop, datasetDir, dirs, history, memory, service>>

\* os.RemoveAll(datasetDir)
RemoveDir(j) ==
    /\ j.pc = "remove"
    /\ jobs' = jobs \ {j}
    /\ dirs' = [dirs EXCEPT ![j.dir] = NoLogs]
    /\ UNCHANGED <<loop, datasetDir, offline, faults, history, memory,
                   service>>

\* A panic in a handler: loggerLoop returns its error and is started again.
\* If the handler was that of the signal, the signal is gone.
Panic(s) ==
    /\ loop[s].pc \in {"create", "table", "flush"}
    /\ Fault
    /\ panicked' = TRUE
    /\ loop' = [loop EXCEPT ![s] =
                  [pc |-> "select", dir |-> NoDir, stop |-> FALSE]]
    /\ UNCHANGED <<sink, offline, overlap, memory, service>>

(***************************************************************************)
(* LoggingService.Stop                                                     *)
(***************************************************************************)

\* The server has ended its requests and stops one logger after the other.
BeginStop ==
    /\ stopper.pc = "idle"
    /\ stopper' = [pc |-> "stopping", left |-> loggers, waits |-> {}]
    /\ UNCHANGED <<setup, loggers, last, own, loop, sink, offline, faults,
                   history, memory>>

\* logger.Stop(): a signal, dropped if the channel is full.
StopNext(s) ==
    /\ stopper.waits = {}
    /\ s \in stopper.left
    /\ sig' = [sig EXCEPT ![s] = Min({@ + 1, 2})]
    /\ stopper' = [stopper EXCEPT !.left = @ \ {s}, !.waits = {s}]
    /\ UNCHANGED <<setup, loggers, last, own, poison, ch, logs, records, loop,
                   sink, offline, faults, history>>

\* WaitUntilStopped returns: isStopped of the logger that was signalled.
Stopped(s) ==
    /\ s \in stopper.waits
    /\ loop[s].pc = "stopped"
    /\ stopper' = [stopper EXCEPT !.waits = {}]
    /\ UNCHANGED <<setup, loggers, last, own, loop, sink, offline, faults,
                   history, memory>>

EndStop ==
    /\ stopper.pc = "stopping"
    /\ stopper.left = {} /\ stopper.waits = {}
    /\ stopper' = [stopper EXCEPT !.pc = "done"]
    /\ UNCHANGED <<setup, loggers, last, own, loop, sink, offline, faults,
                   history, memory>>

-----------------------------------------------------------------------------

\* What the goroutine of a logger does inside a handler.
Handler(s) ==
    \/ OpenDir(s) \/ MakeDir(s) \/ CreateFile(s) \/ WriteTable(s)
    \/ FlushRead(s) \/ FlushClear(s)

Next ==
    \/ \E s \in Services :
         \/ GetOrCreateLogger(s) \/ EmitLog(s)
         \/ TakeLog(s) \/ WriteTick(s) \/ FlushTick(s) \/ TakeSignal(s)
         \/ Handler(s) \/ WriteFails(s) \/ Panic(s)
         \/ StopNext(s) \/ Stopped(s)
    \/ \E j \in jobs : Callback(j) \/ RemoveDir(j)
    \/ BeginStop \/ EndStop

Spec == Init /\ [][Next]_vars

\* Goroutines are scheduled and tickers tick.  select chooses at random among
\* the cases that are ready, so that a signal which is there again and again
\* when it chooses is taken: strong fairness.
Fairness ==
    /\ \A s \in Services :
         /\ WF_vars(Handler(s))
         /\ WF_vars(TakeLog(s)) /\ WF_vars(WriteTick(s))
         /\ WF_vars(FlushTick(s)) /\ SF_vars(TakeSignal(s))
    /\ WF_vars(\E j \in jobs : Callback(j) \/ RemoveDir(j))
    /\ WF_vars(EndStop \/ \E s \in Services : StopNext(s) \/ Stopped(s))

FairSpec == Spec /\ Fairness

-----------------------------------------------------------------------------

\* A log is in the offline store, under some name; once, under one name.
Stored(l) == \E s \in Services : store[s][l] > 0
StoredOnce(l) ==
    \E s \in Services : store[s][l] = 1 /\ \A t \in Services \ {s} : store[t][l] = 0

\* Where a log waits: channel, buffer, records, directory in use or handed over.
Waiting(l) ==
    \/ \E s \in Services : l \in ch[s] \cup logs[s] \cup records[s]
    \/ \E d \in Dirs :
         /\ l \in dirs[d].logs
         /\ d = datasetDir \/ \E j \in jobs : j.dir = d /\ j.pc = "call"

\* No log is lost and none is stored twice: every accepted log waits, or is in
\* the offline store exactly once, or its callback has failed, whatever writes
\* fail, directories break and handlers panic -- as long as no two loggers were
\* in the shared sink at once.
Conserved ==
    ~overlap =>
      \A l \in 1..last :
        /\ Stored(l) => StoredOnce(l)
        /\ Waiting(l) \/ Stored(l) \/ l \in failed
        /\ ~(Waiting(l) /\ Stored(l))

\* What a stop leaves behind: a logger that has stopped has nothing in its
\* buffer unless a write failed or a log cannot be converted.  What it had not
\* taken from the channel is lost; that is not part of the promise.
StopWritesBuffer ==
    \A s \in Services :
      loop[s].pc = "stopped" /\ faults = 0 =>
        logs[s] = {} /\ (~overlap => records[s] = {})

\* A log that was accepted does not stay behind: it is stored, or its callback
\* fails, unless the service is stopped, two loggers met in the sink, or the
\* buffer of its service holds a log that cannot be converted, which blocks
\* every later one.
EventuallyStored ==
    <>[](\/ stopper.pc # "idle" \/ overlap
         \/ \A l \in 1..last : \/ Stored(l) \/ l \in failed
                               \/ \E k \in poison : own[k] = own[l])

\* Stop returns, although the select may serve its tickers and the channel
\* first, and although a conversion or a write fails; not after a panic, which
\* takes the signal with it.
StopReturns == <>[](stopper.pc \in {"idle", "done"} \/ panicked)

=============================================================================
