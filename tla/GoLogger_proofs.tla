--------------------------- MODULE GoLogger_proofs ---------------------------
(***************************************************************************)
(* Proofs about the feature logging of the Go server, for any services,    *)
(* numbers of logs and faults, capacities and record sizes.                *)
(***************************************************************************)
EXTENDS GoLogger, FiniteSetTheorems, WellFoundedInduction, TLAPS

\* The goroutine of a logger: inside a Write or a Flush it has a directory, and
\* shouldStop is set from the signal to the end.
LoopAt(r) ==
    /\ r.pc \in {"create", "table", "clear"} => r.dir # NoDir
    /\ r.pc = "select" => ~r.stop
    /\ r.pc = "stopped" => r.stop

\* Nothing is anywhere before it was accepted.
Past ==
    /\ \A d \in Dirs : dirs[d].logs \subseteq 1..last
    /\ \A s \in Services, l \in Logs : store[s][l] > 0 => l <= last

Typed == TypeOK /\ Past /\ \A s \in Services : LoopAt(loop[s])

\* Two loggers in the sink at once have been noticed, and without that the
\* directory of the sink is that of the logger in it.
Alone ==
    /\ \A s, t \in Services : InSink(s) /\ InSink(t) => s = t
    /\ \A s \in Services :
         /\ loop[s].pc = "mkdir" => datasetDir = NoDir
         /\ loop[s].pc \in {"create", "table", "clear"} => loop[s].dir = datasetDir

\* A directory is that of the sink, or handed over to one callback, or removed.
DirsOK ==
    /\ datasetDir # NoDir => /\ dirs[datasetDir].state = "live"
                             /\ \A j \in jobs : j.dir # datasetDir
    /\ \A i, j \in jobs : i.dir = j.dir => i = j
    /\ \A d \in Dirs : dirs[d].state = "none" => dirs[d].logs = {}
    /\ \A d \in Dirs :
         dirs[d].state = "live" => d = datasetDir \/ \E j \in jobs : j.dir = d

SinkInv == ~overlap => Alone /\ DirsOK

\* A logger that was told to stop has compacted its buffer, and has written it
\* when it goes on to the flush.
StopAt(s) ==
    loop[s].stop =>
      /\ logs[s] = {}
      /\ ~overlap /\ loop[s].pc \in {"flush", "clear", "stopped"} => records[s] = {}

StopInv == faults = 0 => poison = {} /\ \A s \in Services : StopAt(s)

\* What the process holds of a service.
Memory(s) == ch[s] \cup logs[s] \cup records[s]

\* A directory whose logs wait to be loaded.
Pending(d) == d = datasetDir \/ \E j \in jobs : j.dir = d /\ j.pc = "call"

\* A log is in one place.
Apart ==
    /\ \A s \in Services : /\ ch[s] \cap logs[s] = {}
                           /\ (ch[s] \cup logs[s]) \cap records[s] = {}
    /\ \A s, t \in Services : s # t => Memory(s) \cap Memory(t) = {}
    /\ \A s \in Services, d \in Dirs : Memory(s) \cap dirs[d].logs = {}
    /\ \A d, e \in Dirs : d # e => dirs[d].logs \cap dirs[e].logs = {}

\* What is stored is stored once, and is nowhere else to be stored again.
Settled ==
    \A l \in Logs : Stored(l) =>
       /\ StoredOnce(l)
       /\ \A s \in Services : l \notin Memory(s)
       /\ \A d \in Dirs : Pending(d) => l \notin dirs[d].logs

Kept == \A l \in 1..last : Waiting(l) \/ Stored(l) \/ l \in failed

PlaceInv == ~overlap => Apart /\ Settled /\ Kept

-----------------------------------------------------------------------------
(* Operators *)

\* Every nonempty set of natural numbers has a least element, which Min chooses.
LEMMA MinIn ==
    ASSUME NEW S \in SUBSET Nat, S # {}
    PROVE  Min(S) \in S
  <1>1. PICK x \in S : \A y \in S : <<y, x>> \notin OpToRel(<, Nat)
    BY WFMin, NatLessThanWellFounded, Zenon
  <1>2. \A y \in S : ~(y < x)
    BY <1>1, Zenon DEF OpToRel
  <1>3. \A y \in S : x <= y
    BY <1>2
  <1> QED
    BY <1>3 DEF Min

\* Counting up to two.
LEMMA CountToTwo ==
    ASSUME NEW n \in 0..2
    PROVE  Min({n + 1, 2}) \in 1..2 /\ (n = 0 => Min({n + 1, 2}) = 1)
  <1>1. Min({n + 1, 2}) \in {n + 1, 2}
    BY MinIn
  <1>3. n + 1 \in 1..2 \/ n = 2
    OBVIOUS
  <1>4. Min({n + 1, 2}) \in 1..2
    <2>1. CASE n = 2
      <3>1. 2 \in {3, 2} /\ {3, 2} \subseteq Nat /\ 2 <= 3 /\ ~(3 <= 2)
        OBVIOUS
      <3>2. Min({3, 2}) \in {3, 2} /\ \A y \in {3, 2} : Min({3, 2}) <= y
        BY <3>1 DEF Min
      <3> QED
        BY <2>1, <3>2
    <2> QED
      BY <1>1, <1>3, <2>1
  <1>2. n = 0 => Min({n + 1, 2}) = 1
    <2> SUFFICES ASSUME n = 0 PROVE Min({1, 2}) = 1
      OBVIOUS
    <2> QED
      BY DEF Min
  <1> QED
    BY <1>2, <1>4

\* The logs of a setup are logs.
LEMMA LogsContain ==
    ASSUME NEW u \in Setups
    PROVE  1..u.logs \subseteq Logs /\ u.logs \in Nat /\ u.faults \in Nat
  BY LoggerAssumption DEF Logs

\* The channel takes one more log, or gives one away.
LEMMA ChannelSize ==
    ASSUME NEW n \in Nat, NEW S \in SUBSET (1..n), NEW l
    PROVE  /\ Cardinality(S) \in Nat
           /\ Cardinality(S \cup {l}) <= Cardinality(S) + 1
           /\ Cardinality(S \ {l}) <= Cardinality(S)
  <1>1. IsFiniteSet(S)
    <2>1. IsFiniteSet(1..n)
      BY FS_Interval
    <2> QED
      BY <2>1, FS_Subset
  <1>2. Cardinality(S) \in Nat
    BY <1>1, FS_CardinalityType
  <1>3. Cardinality(S \cup {l}) = IF l \in S THEN Cardinality(S) ELSE Cardinality(S) + 1
    BY <1>1, FS_AddElement
  <1>4. Cardinality(S \ {l}) = IF l \in S THEN Cardinality(S) - 1 ELSE Cardinality(S)
    BY <1>1, FS_RemoveElement
  <1> QED
    BY <1>2, <1>3, <1>4

-----------------------------------------------------------------------------
(* Types *)

\* The initial state has its type.
LEMMA InitTyped == Init => Typed
  <1> SUFFICES ASSUME Init PROVE Typed
    OBVIOUS
  <1>1. setup \in Setups /\ setup.logs \in Nat /\ setup.faults \in Nat
    BY LogsContain DEF Init
  <1>2. \A s \in Services : Cardinality(ch[s]) <= Capacity
    BY FS_EmptySet, LoggerAssumption DEF Init
  <1>3. own \in [1..last -> Services]
    BY DEF Init
  <1>4. loop \in [Services -> Loop] /\ \A s \in Services : LoopAt(loop[s])
    BY DEF Init, LoopAt, Loop
  <1>5. dirs \in [Dirs -> Dir]
    BY DEF Init, Dir, NoLogs
  <1>6. /\ last \in 0..setup.logs /\ faults \in 0..setup.faults
        /\ loggers \subseteq setup.services /\ poison \subseteq 1..last
    BY <1>1 DEF Init
  <1>7. /\ ch \in [Services -> SUBSET (1..last)] /\ sig \in [Services -> 0..2]
        /\ logs \in [Services -> SUBSET (1..last)]
        /\ records \in [Services -> SUBSET (1..last)]
        /\ store \in [Services -> [Logs -> 0..2]]
    BY DEF Init
  <1>8. /\ stopper \in [pc: {"idle", "stopping", "done"}, left: SUBSET Services,
                         waits: SUBSET Services]
        /\ datasetDir \in Dirs \cup {NoDir} /\ jobs \subseteq Job
        /\ failed \subseteq 1..last /\ panicked \in BOOLEAN /\ overlap \in BOOLEAN
    BY DEF Init
  <1>9. Past
    BY DEF Init, Past, NoLogs
  <1> QED
    BY <1>1, <1>2, <1>3, <1>4, <1>5, <1>6, <1>7, <1>8, <1>9 DEF Typed, TypeOK

\* What an accepted log changes.
LEMMA EmitTyped ==
    ASSUME Typed, NEW s \in Services, EmitLog(s)
    PROVE  Typed'
  <1> USE DEF Typed, TypeOK
  <1>1. last \in Nat /\ last + 1 \in 0..setup.logs
    BY LogsContain DEF EmitLog
  <1>2. own' \in [1..last' -> Services]
    <2>1. \A l \in 1..(last + 1) : l <= last => l \in 1..last
      BY <1>1
    <2> QED
      BY <1>1, <2>1 DEF EmitLog
  <1>3. 1..last \subseteq 1..last' /\ last + 1 \in 1..last' /\ last' \in 0..setup'.logs
    BY <1>1 DEF EmitLog
  <1>4. poison' \subseteq 1..last' /\ faults' \in 0..setup'.faults
    <2>1. setup' = setup /\ last' = last + 1
      BY DEF EmitLog
    <2>2. CASE UNCHANGED <<poison, faults>>
      BY <1>3, <2>1, <2>2
    <2>3. CASE Fault /\ poison' = poison \cup {last + 1}
      BY <1>3, <2>1, <2>3, LogsContain DEF Fault
    <2> QED
      BY <2>2, <2>3 DEF EmitLog
  <1>5. ch' \in [Services -> SUBSET (1..last')]
    BY <1>3 DEF EmitLog
  <1>6. \A t \in Services : Cardinality(ch'[t]) <= Capacity
    <2>1. Cardinality(ch[s]) \in Nat /\ Cardinality(ch[s] \cup {last + 1}) <= Cardinality(ch[s]) + 1
      BY <1>1, ChannelSize
    <2>2. Cardinality(ch[s] \cup {last + 1}) \in Nat
      <3>1. last + 1 \in Nat /\ ch[s] \cup {last + 1} \in SUBSET (1..(last + 1))
        BY <1>1
      <3> QED
        BY <3>1, ChannelSize
    <2>3. Cardinality(ch'[s]) <= Capacity
      BY <2>1, <2>2, LoggerAssumption DEF EmitLog
    <2> QED
      BY <2>3 DEF EmitLog
  <1>7. /\ logs' \in [Services -> SUBSET (1..last')]
        /\ records' \in [Services -> SUBSET (1..last')]
        /\ failed' \subseteq 1..last'
    BY <1>3 DEF EmitLog, offline
  <1>8. Past'
    <2>1. \A l \in Logs : l <= last => l <= last'
      BY <1>1, LoggerAssumption DEF EmitLog, Logs
    <2> QED
      BY <1>3, <2>1 DEF EmitLog, Past, sink, offline
  <1> QED
    BY <1>2, <1>3, <1>4, <1>5, <1>6, <1>7, <1>8 DEF EmitLog, sink, offline, history

\* A log moves from the channel to the buffer.
LEMMA TakeTyped ==
    ASSUME Typed, NEW s \in Services, TakeLog(s)
    PROVE  Typed'
  <1> USE DEF Typed, TypeOK
  <1>1. last \in Nat /\ Min(ch[s]) \in ch[s]
    BY MinIn, LogsContain DEF TakeLog
  <1>2. ch' \in [Services -> SUBSET (1..last)]
    BY DEF TakeLog
  <1>3. \A t \in Services : Cardinality(ch'[t]) <= Capacity
    <2>1. /\ Cardinality(ch[s]) \in Nat
          /\ Cardinality(ch[s] \ {Min(ch[s])}) <= Cardinality(ch[s])
      BY <1>1, ChannelSize
    <2>2. Cardinality(ch[s] \ {Min(ch[s])}) \in Nat
      <3>1. ch[s] \ {Min(ch[s])} \in SUBSET (1..last)
        BY <1>1
      <3> QED
        BY <1>1, <3>1, ChannelSize
    <2>3. Cardinality(ch'[s]) <= Capacity
      BY <2>1, <2>2, LoggerAssumption DEF TakeLog
    <2> QED
      BY <2>3 DEF TakeLog
  <1>4. /\ logs' \in [Services -> SUBSET (1..last)]
        /\ records' \in [Services -> SUBSET (1..last)]
    <2>1. logs[s] \cup {Min(ch[s])} \in SUBSET (1..last)
      BY <1>1
    <2> QED
      BY <2>1 DEF TakeLog
  <1> QED
    BY <1>2, <1>3, <1>4 DEF TakeLog, Past, sink, offline, history, service

\* The goroutine of s goes on at p, with directory d and shouldStop b.
LoopTo(s, p, d, b) ==
    /\ loop' \in [Services -> Loop]
    /\ \A t \in Services : t # s => loop'[t] = loop[t]
    /\ loop'[s].pc = p /\ loop'[s].dir = d /\ loop'[s].stop = b

\* The states of a loop.
PcValues == {"select", "open", "mkdir", "create", "table", "flush", "clear", "stopped"}

\* Some fields of a loop are assigned.
LEMMA LoopAssign ==
    ASSUME Typed, NEW s \in Services, NEW p \in PcValues, NEW b \in BOOLEAN,
           NEW d \in Dirs \cup {NoDir}
    PROVE  /\ loop' = [loop EXCEPT ![s].stop = b, ![s].pc = p]
              => LoopTo(s, p, loop[s].dir, b)
           /\ loop' = [loop EXCEPT ![s].dir = d, ![s].pc = p]
              => LoopTo(s, p, d, loop[s].stop)
           /\ loop' = [loop EXCEPT ![s].pc = p, ![s].dir = d]
              => LoopTo(s, p, d, loop[s].stop)
           /\ loop' = [loop EXCEPT ![s].pc = p]
              => LoopTo(s, p, loop[s].dir, loop[s].stop)
           /\ loop' = [loop EXCEPT ![s] = [pc |-> p, dir |-> d, stop |-> b]]
              => LoopTo(s, p, d, b)
  <1> USE DEF Loop, PcValues
  <1>0. loop \in [Services -> Loop]
    BY DEF Typed, TypeOK
  <1>1. ASSUME loop' = [loop EXCEPT ![s].stop = b, ![s].pc = p]
        PROVE  LoopTo(s, p, loop[s].dir, b)
    <2>1. loop'[s].pc = p /\ loop'[s].stop = b /\ loop'[s].dir = loop[s].dir
      BY <1>0, <1>1
    <2> QED
      BY <1>0, <1>1, <2>1 DEF LoopTo
  <1>2. ASSUME loop' = [loop EXCEPT ![s].dir = d, ![s].pc = p]
        PROVE  LoopTo(s, p, d, loop[s].stop)
    <2>1. loop'[s].pc = p /\ loop'[s].stop = loop[s].stop /\ loop'[s].dir = d
      BY <1>0, <1>2
    <2> QED
      BY <1>0, <1>2, <2>1 DEF LoopTo
  <1>3. ASSUME loop' = [loop EXCEPT ![s].pc = p, ![s].dir = d]
        PROVE  LoopTo(s, p, d, loop[s].stop)
    <2>1. loop'[s].pc = p /\ loop'[s].stop = loop[s].stop /\ loop'[s].dir = d
      BY <1>0, <1>3
    <2> QED
      BY <1>0, <1>3, <2>1 DEF LoopTo
  <1>4. ASSUME loop' = [loop EXCEPT ![s].pc = p]
        PROVE  LoopTo(s, p, loop[s].dir, loop[s].stop)
    <2>1. loop'[s].pc = p /\ loop'[s].stop = loop[s].stop /\ loop'[s].dir = loop[s].dir
      BY <1>0, <1>4
    <2> QED
      BY <1>0, <1>4, <2>1 DEF LoopTo
  <1>5. ASSUME loop' = [loop EXCEPT ![s] = [pc |-> p, dir |-> d, stop |-> b]]
        PROVE  LoopTo(s, p, d, b)
    <2>1. loop'[s] = [pc |-> p, dir |-> d, stop |-> b]
      BY <1>0, <1>5
    <2> QED
      BY <1>0, <1>5, <2>1 DEF LoopTo
  <1> QED
    BY <1>1, <1>2, <1>3, <1>4, <1>5

\* Where each step of a handler leads.
LEMMA LoopMoves ==
    ASSUME Typed, NEW s \in Services
    PROVE  /\ \A b \in BOOLEAN : WriteBatch(s, b) =>
                \/ LoopTo(s, "open", loop[s].dir, b)
                \/ LoopTo(s, AfterWrite(b), loop[s].dir, b) /\ ~(Convertible(logs[s]) /\ records'[s] # {})
           /\ FlushTick(s) => LoopTo(s, "flush", loop[s].dir, loop[s].stop)
           /\ OpenDir(s) => \/ datasetDir = NoDir /\ LoopTo(s, "mkdir", datasetDir, loop[s].stop)
                            \/ datasetDir # NoDir /\ LoopTo(s, "create", datasetDir, loop[s].stop)
           /\ MakeDir(s) => \E d \in Dirs :
                /\ Unused(d) /\ datasetDir' = d /\ dirs' = [dirs EXCEPT ![d].state = "live"]
                /\ LoopTo(s, "create", d, loop[s].stop)
           /\ CreateFile(s) =>
                \/ /\ dirs[loop[s].dir].state = "live"
                   /\ LoopTo(s, "table", loop[s].dir, loop[s].stop)
                \/ /\ dirs[loop[s].dir].state # "live"
                   /\ LoopTo(s, AfterWrite(loop[s].stop), NoDir, loop[s].stop)
           /\ WriteTable(s) \/ WriteFails(s)
                => LoopTo(s, AfterWrite(loop[s].stop), NoDir, loop[s].stop)
           /\ FlushRead(s) =>
                \/ LoopTo(s, AfterFlush(loop[s].stop), loop[s].dir, loop[s].stop)
                \/ datasetDir # NoDir /\ LoopTo(s, "clear", datasetDir, loop[s].stop)
           /\ FlushClear(s) => LoopTo(s, AfterFlush(loop[s].stop), NoDir, loop[s].stop)
           /\ Panic(s) => LoopTo(s, "select", NoDir, FALSE)
  <1>0. /\ datasetDir \in Dirs \cup {NoDir} /\ NoDir \in Dirs \cup {NoDir}
        /\ loop[s].stop \in BOOLEAN /\ loop[s].dir \in Dirs \cup {NoDir}
        /\ loop \in [Services -> Loop]
    BY DEF Typed, TypeOK, Loop
  <1>1. \A b \in BOOLEAN : AfterWrite(b) \in PcValues /\ AfterFlush(b) \in PcValues
    BY DEF AfterWrite, AfterFlush, PcValues
  <1>2. \A p \in {"open", "flush", "mkdir", "create", "table", "clear", "select"} : p \in PcValues
    BY DEF PcValues
  <1>3. ASSUME NEW b \in BOOLEAN, WriteBatch(s, b)
        PROVE  \/ LoopTo(s, "open", loop[s].dir, b)
               \/ LoopTo(s, AfterWrite(b), loop[s].dir, b) /\ ~(Convertible(logs[s]) /\ records'[s] # {})
    <2>1. \/ loop' = [loop EXCEPT ![s].stop = b, ![s].pc = "open"]
          \/ /\ loop' = [loop EXCEPT ![s].stop = b, ![s].pc = AfterWrite(b)]
             /\ ~(Convertible(logs[s]) /\ records'[s] # {})
      BY <1>3 DEF WriteBatch, Typed, TypeOK
    <2>2. CASE loop' = [loop EXCEPT ![s].stop = b, ![s].pc = "open"]
      <3>1. LoopTo(s, "open", loop[s].dir, b)
        BY <1>0, <1>2, <2>2, LoopAssign
      <3> QED
        BY <3>1
    <2>3. CASE /\ loop' = [loop EXCEPT ![s].stop = b, ![s].pc = AfterWrite(b)]
               /\ ~(Convertible(logs[s]) /\ records'[s] # {})
      <3>1. AfterWrite(b) \in PcValues
        BY <1>1
      <3>2. LoopTo(s, AfterWrite(b), loop[s].dir, b)
        BY <1>0, <3>1, <2>3, LoopAssign
      <3> QED
        BY <2>3, <3>2
    <2> QED
      BY <2>1, <2>2, <2>3
  <1>4. FlushTick(s) => LoopTo(s, "flush", loop[s].dir, loop[s].stop)
    BY <1>0, <1>2, LoopAssign DEF FlushTick
  <1>5. ASSUME OpenDir(s)
        PROVE  \/ datasetDir = NoDir /\ LoopTo(s, "mkdir", datasetDir, loop[s].stop)
               \/ datasetDir # NoDir /\ LoopTo(s, "create", datasetDir, loop[s].stop)
    <2>1. \/ datasetDir = NoDir /\ loop' = [loop EXCEPT ![s].dir = datasetDir, ![s].pc = "mkdir"]
          \/ datasetDir # NoDir /\ loop' = [loop EXCEPT ![s].dir = datasetDir, ![s].pc = "create"]
      BY <1>5 DEF OpenDir
    <2> QED
      BY <1>0, <1>2, <2>1, LoopAssign
  <1>6. ASSUME MakeDir(s)
        PROVE  \E d \in Dirs :
                 /\ Unused(d) /\ datasetDir' = d /\ dirs' = [dirs EXCEPT ![d].state = "live"]
                 /\ LoopTo(s, "create", d, loop[s].stop)
    <2>1. PICK d \in Dirs : d = CHOOSE e \in Dirs : Unused(e)
      BY <1>6 DEF MakeDir
    <2>2. Unused(d)
      BY <1>6, <2>1 DEF MakeDir
    <2>3. /\ datasetDir' = d /\ dirs' = [dirs EXCEPT ![d].state = "live"]
          /\ loop' = [loop EXCEPT ![s].dir = d, ![s].pc = "create"]
      BY <1>6, <2>1 DEF MakeDir
    <2> QED
      BY <1>0, <1>2, <2>2, <2>3, LoopAssign
  <1>7. ASSUME CreateFile(s)
        PROVE  \/ /\ dirs[loop[s].dir].state = "live"
                  /\ LoopTo(s, "table", loop[s].dir, loop[s].stop)
               \/ /\ dirs[loop[s].dir].state # "live"
                  /\ LoopTo(s, AfterWrite(loop[s].stop), NoDir, loop[s].stop)
    BY <1>0, <1>1, <1>2, <1>7, LoopAssign DEF CreateFile, Written
  <1>8. WriteTable(s) \/ WriteFails(s)
          => LoopTo(s, AfterWrite(loop[s].stop), NoDir, loop[s].stop)
    BY <1>0, <1>1, LoopAssign DEF WriteTable, WriteFails, Written
  <1>9. ASSUME FlushRead(s)
        PROVE  \/ LoopTo(s, AfterFlush(loop[s].stop), loop[s].dir, loop[s].stop)
               \/ datasetDir # NoDir /\ LoopTo(s, "clear", datasetDir, loop[s].stop)
    BY <1>0, <1>1, <1>2, <1>9, LoopAssign DEF FlushRead
  <1>10. FlushClear(s) => LoopTo(s, AfterFlush(loop[s].stop), NoDir, loop[s].stop)
    BY <1>0, <1>1, LoopAssign DEF FlushClear
  <1>11. Panic(s) => LoopTo(s, "select", NoDir, FALSE)
    BY <1>0, <1>2, LoopAssign DEF Panic
  <1> QED
    BY <1>3, <1>4, <1>5, <1>6, <1>7, <1>8, <1>9, <1>10, <1>11

\* Compact moves what can be converted to the records.
LEMMA BatchTyped ==
    ASSUME Typed, NEW s \in Services, NEW stop \in BOOLEAN, WriteBatch(s, stop),
           UNCHANGED <<poison, ch, sink, offline, faults, history, service>>,
           sig' \in [Services -> 0..2]
    PROVE  Typed'
  <1>0. LoopTo(s, "open", loop[s].dir, stop) \/ LoopTo(s, AfterWrite(stop), loop[s].dir, stop)
    <2>1. WriteBatch(s, stop)
      OBVIOUS
    <2> QED
      BY <2>1, LoopMoves, Zenon
  <1> USE DEF Typed, TypeOK
  <1>1. /\ logs' \in [Services -> SUBSET (1..last)]
        /\ records' \in [Services -> SUBSET (1..last)]
    BY DEF WriteBatch
  <1>2. loop' \in [Services -> Loop] /\ \A t \in Services : LoopAt(loop'[t])
    BY <1>0 DEF LoopTo, LoopAt, AfterWrite
  <1> QED
    BY <1>1, <1>2 DEF Past, sink, offline, history, service

\* The loop of a logger makes a step that touches neither memory nor service.
LEMMA LoopTyped ==
    ASSUME Typed, Past', UNCHANGED <<memory, service>>,
           loop' \in [Services -> Loop], \A t \in Services : LoopAt(loop'[t]),
           datasetDir' \in Dirs \cup {NoDir}, dirs' \in [Dirs -> Dir], jobs' \subseteq Job,
           store' \in [Services -> [Logs -> 0..2]], failed' \subseteq 1..last,
           faults' \in 0..setup.faults, panicked' \in BOOLEAN, overlap' \in BOOLEAN
    PROVE  Typed'
  BY DEF Typed, TypeOK, memory, service

\* What is written to a directory has its type.
LEMMA DirAssign ==
    ASSUME Typed, NEW d \in Dirs, NEW L \in SUBSET Logs
    PROVE  /\ [dirs EXCEPT ![d].state = "live"] \in [Dirs -> Dir]
           /\ [dirs EXCEPT ![d].logs = @ \cup L] \in [Dirs -> Dir]
           /\ [dirs EXCEPT ![d].broken = TRUE] \in [Dirs -> Dir]
           /\ [dirs EXCEPT ![d] = NoLogs] \in [Dirs -> Dir]
  BY DEF Typed, TypeOK, Dir, NoLogs

\* The callback of job j loads its directory.
LEMMA StoreAssign ==
    ASSUME Typed, NEW n \in Services, NEW L
    PROVE  [store EXCEPT ![n] = [l \in Logs |-> IF l \in L THEN Min({@[l] + 1, 2}) ELSE @[l]]]
             \in [Services -> [Logs -> 0..2]]
  <1>1. store \in [Services -> [Logs -> 0..2]]
    BY DEF Typed, TypeOK
  <1>2. \A l \in Logs : store[n][l] \in 0..2 /\ Min({store[n][l] + 1, 2}) \in 0..2
    <2> SUFFICES ASSUME NEW l \in Logs
                 PROVE  store[n][l] \in 0..2 /\ Min({store[n][l] + 1, 2}) \in 0..2
      OBVIOUS
    <2>1. store[n][l] \in 0..2
      BY <1>1
    <2>2. Min({store[n][l] + 1, 2}) \in 1..2
      BY <2>1, CountToTwo
    <2> QED
      BY <2>1, <2>2
  <1>3. [l \in Logs |-> IF l \in L THEN Min({store[n][l] + 1, 2}) ELSE store[n][l]]
          \in [Logs -> 0..2]
    BY <1>2
  <1> QED
    BY <1>1, <1>3

\* Every step keeps the types.
LEMMA TypedStep == Typed /\ [Next]_vars => Typed'
  <1> SUFFICES ASSUME Typed, [Next]_vars PROVE Typed'
    OBVIOUS
  <1>0. /\ setup \in Setups /\ setup.faults \in Nat /\ faults \in 0..setup.faults
        /\ overlap \in BOOLEAN /\ panicked \in BOOLEAN
        /\ \A s \in Services : loop[s] \in Loop /\ LoopAt(loop[s]) /\ records[s] \in SUBSET Logs
    BY LogsContain DEF Typed, TypeOK
  <1>1. Fault => faults' \in 0..setup.faults
    BY <1>0 DEF Fault
  <1>2. \A s \in Services : Overlapping(s) => overlap' \in BOOLEAN
    BY <1>0 DEF Overlapping
  <1>20. UNCHANGED <<dirs, store, last>> => Past'
    BY DEF Typed, Past
  <1>3. ASSUME NEW s \in Services, GetOrCreateLogger(s) PROVE Typed'
    BY <1>3 DEF GetOrCreateLogger, Typed, TypeOK, Past, memory, sink, offline, history
  <1>4. ASSUME NEW s \in Services, FlushTick(s) PROVE Typed'
    <2>1. LoopTo(s, "flush", loop[s].dir, loop[s].stop)
      BY <1>4, LoopMoves
    <2> QED
      BY <1>4, <2>1 DEF FlushTick, LoopTo, LoopAt, Typed, TypeOK, Past, memory, sink, offline, history, service
  <1>5. ASSUME NEW s \in Services, WriteTick(s) PROVE Typed'
    BY <1>5, BatchTyped DEF WriteTick, Typed, TypeOK
  <1>6. ASSUME NEW s \in Services, TakeSignal(s) PROVE Typed'
    <2>1. sig' \in [Services -> 0..2]
      BY <1>6 DEF TakeSignal, Typed, TypeOK
    <2> QED
      BY <1>6, <2>1, BatchTyped DEF TakeSignal
  <1>7. ASSUME NEW s \in Services, OpenDir(s) PROVE Typed'
    <2>1. \/ datasetDir = NoDir /\ LoopTo(s, "mkdir", datasetDir, loop[s].stop)
          \/ datasetDir # NoDir /\ LoopTo(s, "create", datasetDir, loop[s].stop)
      BY <1>7, LoopMoves
    <2>2. loop' \in [Services -> Loop] /\ \A t \in Services : LoopAt(loop'[t])
      BY <1>0, <2>1 DEF LoopTo, LoopAt
    <2>3. Past'
      BY <1>7, <1>20 DEF OpenDir, sink, offline, service
    <2> QED
      BY <1>7, <1>2, <2>2, <2>3, LoopTyped DEF OpenDir, Typed, TypeOK, sink, offline
  <1>8. ASSUME NEW s \in Services, MakeDir(s) PROVE Typed'
    <2>1. PICK d \in Dirs : /\ datasetDir' = d /\ dirs' = [dirs EXCEPT ![d].state = "live"]
                            /\ LoopTo(s, "create", d, loop[s].stop)
      BY <1>8, LoopMoves
    <2>2. loop' \in [Services -> Loop] /\ \A t \in Services : LoopAt(loop'[t])
      BY <1>0, <2>1, LoggerAssumption DEF LoopTo, LoopAt
    <2>3. dirs' \in [Dirs -> Dir]
      BY <2>1, DirAssign
    <2>4. Past'
      BY <1>8, <2>1 DEF MakeDir, Past, Typed, TypeOK, Dir, offline, service
    <2> QED
      BY <1>8, <1>2, <2>1, <2>2, <2>3, <2>4, LoopTyped DEF MakeDir, Typed, TypeOK, offline
  <1>9. ASSUME NEW s \in Services, CreateFile(s) PROVE Typed'
    <2>1. \/ LoopTo(s, "table", loop[s].dir, loop[s].stop)
          \/ LoopTo(s, AfterWrite(loop[s].stop), NoDir, loop[s].stop)
      BY <1>9, LoopMoves
    <2>2. loop' \in [Services -> Loop] /\ \A t \in Services : LoopAt(loop'[t])
      BY <1>0, <1>9, <2>1 DEF LoopTo, LoopAt, CreateFile, AfterWrite
    <2>3. Past'
      BY <1>9, <1>20 DEF CreateFile, sink, offline, service
    <2> QED
      BY <1>9, <1>2, <2>2, <2>3, LoopTyped DEF CreateFile, Typed, TypeOK, sink, offline
  <1>10. ASSUME NEW s \in Services, WriteTable(s) PROVE Typed'
    <2>1. LoopTo(s, AfterWrite(loop[s].stop), NoDir, loop[s].stop)
      BY <1>10, LoopMoves
    <2>2. loop' \in [Services -> Loop] /\ \A t \in Services : LoopAt(loop'[t])
      BY <1>0, <1>10, <2>1 DEF LoopTo, LoopAt, AfterWrite
    <2>3. loop[s].dir \in Dirs
      BY <1>0, <1>10 DEF WriteTable, LoopAt, Loop
    <2>4. dirs' \in [Dirs -> Dir]
      BY <1>0, <1>10, <2>3, DirAssign DEF WriteTable, Typed, TypeOK
    <2>5. records' \in [Services -> SUBSET (1..last)]
      BY <1>10 DEF WriteTable, Typed, TypeOK
    <2>6. Past'
      BY <1>10, <2>3 DEF WriteTable, Past, Typed, TypeOK, Dir, offline, service
    <2> QED
      BY <1>10, <1>2, <2>2, <2>4, <2>5, <2>6 DEF WriteTable, Typed, TypeOK, offline, service
  <1>11. ASSUME NEW s \in Services, WriteFails(s) PROVE Typed'
    <2>1. LoopTo(s, AfterWrite(loop[s].stop), NoDir, loop[s].stop)
      BY <1>11, LoopMoves
    <2>2. loop' \in [Services -> Loop] /\ \A t \in Services : LoopAt(loop'[t])
      BY <1>0, <1>11, <2>1 DEF LoopTo, LoopAt, AfterWrite
    <2>3. loop[s].pc = "table" => loop[s].dir \in Dirs
      BY <1>0 DEF LoopAt, Loop
    <2>4. dirs' \in [Dirs -> Dir]
      BY <1>11, <2>3, DirAssign DEF WriteFails, Typed, TypeOK
    <2>5. Past'
      BY <1>11, <2>3 DEF WriteFails, Past, Typed, TypeOK, Dir, offline, service
    <2> QED
      BY <1>11, <1>1, <1>2, <2>2, <2>4, <2>5, LoopTyped DEF WriteFails, Typed, TypeOK, offline
  <1>12. ASSUME NEW s \in Services, FlushRead(s) PROVE Typed'
    <2>1. \/ LoopTo(s, AfterFlush(loop[s].stop), loop[s].dir, loop[s].stop)
          \/ datasetDir # NoDir /\ LoopTo(s, "clear", datasetDir, loop[s].stop)
      BY <1>12, LoopMoves
    <2>2. loop' \in [Services -> Loop] /\ \A t \in Services : LoopAt(loop'[t])
      BY <1>0, <1>12, <2>1 DEF LoopTo, LoopAt, AfterFlush
    <2>3. Past'
      BY <1>12, <1>20 DEF FlushRead, sink, offline, service
    <2> QED
      BY <1>12, <1>2, <2>2, <2>3, LoopTyped DEF FlushRead, Typed, TypeOK, sink, offline
  <1>13. ASSUME NEW s \in Services, FlushClear(s) PROVE Typed'
    <2>1. LoopTo(s, AfterFlush(loop[s].stop), NoDir, loop[s].stop)
      BY <1>13, LoopMoves
    <2>2. loop' \in [Services -> Loop] /\ \A t \in Services : LoopAt(loop'[t])
      BY <1>0, <1>13, <2>1 DEF LoopTo, LoopAt, AfterFlush
    <2>3. jobs' \subseteq Job
      BY <1>0, <1>13 DEF FlushClear, LoopAt, Loop, Job, Typed, TypeOK
    <2>4. Past'
      BY <1>13, <1>20 DEF FlushClear, sink, offline, service
    <2> QED
      BY <1>13, <1>2, <2>2, <2>3, <2>4, LoopTyped DEF FlushClear, Typed, TypeOK, offline
  <1>14. ASSUME NEW s \in Services, Panic(s) PROVE Typed'
    <2>1. LoopTo(s, "select", NoDir, FALSE)
      BY <1>14, LoopMoves
    <2>2. loop' \in [Services -> Loop] /\ \A t \in Services : LoopAt(loop'[t])
      BY <1>0, <2>1 DEF LoopTo, LoopAt
    <2>3. Past'
      BY <1>14, <1>20 DEF Panic, sink, offline, service
    <2> QED
      BY <1>14, <1>1, <2>2, <2>3, LoopTyped DEF Panic, Typed, TypeOK, sink, offline
  <1>15. ASSUME NEW j \in jobs, Callback(j) PROVE Typed'
    <2>1. j \in Job
      BY DEF Typed, TypeOK
    <2>2. jobs' \subseteq Job
      <3>1. [j EXCEPT !.pc = "remove"] \in Job
        BY <2>1 DEF Job
      <3> QED
        BY <1>15, <3>1 DEF Callback, Typed, TypeOK
    <2>3. store' \in [Services -> [Logs -> 0..2]]
      <3>1. j.name \in Services
        BY <2>1 DEF Job
      <3>2. CASE store' = [store EXCEPT ![j.name] =
                         [l \in Logs |-> IF l \in dirs[j.dir].logs
                                         THEN Min({@[l] + 1, 2}) ELSE @[l]]]
        BY <3>1, <3>2, StoreAssign
      <3>3. CASE store' = store
        BY <3>3 DEF Typed, TypeOK
      <3> QED
        BY <1>15, <3>2, <3>3 DEF Callback
    <2>4. failed' \subseteq 1..last /\ faults' \in 0..setup.faults
      <3>1. dirs[j.dir].logs \subseteq 1..last
        BY <2>1 DEF Typed, Past, Job
      <3>2. failed' = failed \/ failed' = failed \cup dirs[j.dir].logs
        BY <1>15 DEF Callback
      <3>3. faults' = faults \/ Fault
        BY <1>15 DEF Callback
      <3> QED
        BY <1>0, <1>1, <3>1, <3>2, <3>3 DEF Typed, TypeOK
    <2>5. Past'
      <3>1. UNCHANGED <<dirs, last>>
        BY <1>15 DEF Callback, service
      <3>2. ASSUME NEW s \in Services, NEW l \in Logs, store'[s][l] > 0 PROVE l <= last
        <4>1. store'[s][l] = store[s][l] \/ l \in dirs[j.dir].logs
          <5>1. store \in [Services -> [Logs -> 0..2]]
            BY DEF Typed, TypeOK
          <5>2. CASE store' = [store EXCEPT ![j.name] =
                         [k \in Logs |-> IF k \in dirs[j.dir].logs
                                         THEN Min({@[k] + 1, 2}) ELSE @[k]]]
            BY <5>1, <5>2
          <5> QED
            BY <1>15, <5>2 DEF Callback
        <4>2. dirs[j.dir].logs \subseteq 1..last
          BY <2>1 DEF Typed, Past, Job
        <4>3. last \in Nat
          BY LogsContain DEF Typed, TypeOK
        <4> QED
          BY <3>2, <4>1, <4>2, <4>3 DEF Typed, Past
      <3> QED
        BY <3>1, <3>2 DEF Typed, Past
    <2> QED
      BY <1>15, <2>2, <2>3, <2>4, <2>5, LoopTyped DEF Callback, Typed, TypeOK, history
  <1>16. ASSUME NEW j \in jobs, RemoveDir(j) PROVE Typed'
    <2>1. j.dir \in Dirs
      BY DEF Typed, TypeOK, Job
    <2>2. dirs' \in [Dirs -> Dir] /\ jobs' \subseteq Job
      BY <1>16, <2>1, DirAssign DEF RemoveDir, Typed, TypeOK
    <2>3. Past'
      BY <1>16, <2>1 DEF RemoveDir, NoLogs, Past, Typed, TypeOK, offline, service
    <2> QED
      BY <1>16, <2>2, <2>3, LoopTyped DEF RemoveDir, Typed, TypeOK, offline, history
  <1>17. ASSUME BeginStop \/ EndStop \/ \E s \in Services : Stopped(s) PROVE Typed'
    <2>1. stopper' \in [pc: {"idle", "stopping", "done"}, left: SUBSET Services,
                        waits: SUBSET Services]
      <3>1. loggers \subseteq Services
        BY <1>0, LoggerAssumption DEF Typed, TypeOK
      <3> QED
        <4>1. CASE BeginStop
          BY <3>1, <4>1 DEF BeginStop
        <4>2. CASE EndStop
          BY <4>2 DEF EndStop, Typed, TypeOK
        <4>3. CASE \E s \in Services : Stopped(s)
          BY <4>3 DEF Stopped, Typed, TypeOK
        <4> QED
          BY <1>17, <4>1, <4>2, <4>3
    <2> QED
      BY <1>17, <2>1 DEF BeginStop, EndStop, Stopped, Typed, TypeOK, Past, memory, sink, offline, history
  <1>18. ASSUME NEW s \in Services, StopNext(s) PROVE Typed'
    <2>1. stopper' \in [pc: {"idle", "stopping", "done"}, left: SUBSET Services,
                        waits: SUBSET Services]
      BY <1>18 DEF StopNext, Typed, TypeOK
    <2>2. sig[s] \in 0..2 /\ Min({sig[s] + 1, 2}) \in 0..2
      <3>1. sig[s] \in 0..2
        BY DEF Typed, TypeOK
      <3>2. Min({sig[s] + 1, 2}) \in 1..2
        BY <3>1, CountToTwo
      <3> QED
        BY <3>1, <3>2
    <2>3. sig' \in [Services -> 0..2]
      BY <1>18, <2>2 DEF StopNext, Typed, TypeOK
    <2> QED
      BY <1>18, <2>1, <2>3 DEF StopNext, Typed, TypeOK, Past, sink, offline, history
  <1>19. CASE UNCHANGED vars
    BY <1>19 DEF vars, Typed, TypeOK, Past
  <1> QED
    BY <1>3, <1>4, <1>5, <1>6, <1>7, <1>8, <1>9, <1>10, <1>11, <1>12, <1>13, <1>14, <1>15,
       <1>16, <1>17, <1>18, <1>19, EmitTyped, TakeTyped DEF Next, Handler

\* The variables of the logging service keep their types: no channel exceeds its
\* capacity, and nothing is buffered that was not accepted (EmitLog, Append).
THEOREM TypeCorrect == Spec => []TypeOK
  <1>1. Typed => TypeOK
    BY DEF Typed
  <1> QED
    BY InitTyped, TypedStep, <1>1, PTL DEF Spec

-----------------------------------------------------------------------------
(* The sink *)

\* That two loggers have met in the sink is not forgotten, and a step that might
\* meet another logger there records it.
LEMMA OverlapKept ==
    ASSUME Typed, [Next]_vars, ~overlap'
    PROVE  /\ ~overlap
           /\ \A s \in Services : Handler(s) \/ WriteFails(s) =>
                \A t \in Services : t # s => ~InSink(t)
  <1>1. \A s \in Services : Overlapping(s) =>
          ~overlap /\ \A t \in Services : t # s => ~InSink(t)
    BY DEF Overlapping
  <1>2. \A s \in Services : Handler(s) \/ WriteFails(s) => Overlapping(s)
    BY DEF Handler, OpenDir, MakeDir, CreateFile, WriteTable, FlushRead, FlushClear, WriteFails
  <1>3. ASSUME NEW s \in Services,
               \/ GetOrCreateLogger(s) \/ EmitLog(s) \/ TakeLog(s) \/ WriteTick(s)
               \/ FlushTick(s) \/ TakeSignal(s) \/ Panic(s) \/ StopNext(s) \/ Stopped(s)
        PROVE  overlap' = overlap
    BY <1>3 DEF GetOrCreateLogger, EmitLog, TakeLog, WriteTick, FlushTick, TakeSignal, Panic,
                StopNext, Stopped, history
  <1>4. ASSUME NEW j \in jobs, Callback(j) \/ RemoveDir(j) PROVE overlap' = overlap
    BY <1>4 DEF Callback, RemoveDir, history
  <1>5. ASSUME BeginStop \/ EndStop \/ UNCHANGED vars PROVE overlap' = overlap
    BY <1>5 DEF BeginStop, EndStop, history, vars
  <1> QED
    BY <1>1, <1>2, <1>3, <1>4, <1>5 DEF Next

\* A logger leaves the sink or stays outside, or it is the only one there.
LEMMA AloneMoves ==
    ASSUME Typed, Alone, NEW s \in Services, NEW p, NEW d, NEW b, LoopTo(s, p, d, b),
           \/ /\ p \notin {"mkdir", "create", "table", "clear"}
              /\ datasetDir' = datasetDir
           \/ /\ \A t \in Services : t # s => ~InSink(t)
              /\ p = "mkdir" => datasetDir' = NoDir
              /\ p \in {"create", "table", "clear"} => d = datasetDir'
    PROVE  Alone'
  BY DEF Alone, InSink, LoopTo

\* A directory is in use, handed over or removed, whatever a step does to it.
LEMMA DirsKept ==
    ASSUME DirsOK, UNCHANGED sink
    PROVE  DirsOK'
  BY DEF DirsOK, sink

\* Loggers that take turns in the sink work on its directory, and no other
\* directory is lost.
LEMMA SinkStep == Typed /\ SinkInv /\ [Next]_vars => SinkInv'
  <1> SUFFICES ASSUME Typed, SinkInv, [Next]_vars, ~overlap' PROVE Alone' /\ DirsOK'
    BY DEF SinkInv
  <1>0. /\ Alone /\ DirsOK
        /\ \A s \in Services : Handler(s) \/ WriteFails(s) =>
             \A t \in Services : t # s => ~InSink(t)
    BY OverlapKept DEF SinkInv
  <1>1. /\ datasetDir \in Dirs \cup {NoDir} /\ dirs \in [Dirs -> Dir] /\ jobs \subseteq Job
        /\ \A s \in Services : loop[s] \in Loop /\ LoopAt(loop[s])
    BY DEF Typed, TypeOK
  <1>2. ASSUME UNCHANGED <<loop, sink>> PROVE Alone' /\ DirsOK'
    BY <1>0, <1>2, DirsKept DEF Alone, InSink, sink
  <1>3. ASSUME NEW s \in Services,
               GetOrCreateLogger(s) \/ EmitLog(s) \/ TakeLog(s) \/ StopNext(s) \/ Stopped(s)
        PROVE  Alone' /\ DirsOK'
    <2>1. UNCHANGED <<loop, sink>>
      BY <1>3 DEF GetOrCreateLogger, EmitLog, TakeLog, StopNext, Stopped
    <2> QED
      BY <1>2, <2>1
  <1>4. ASSUME BeginStop \/ EndStop \/ UNCHANGED vars PROVE Alone' /\ DirsOK'
    <2>1. UNCHANGED <<loop, sink>>
      BY <1>4 DEF BeginStop, EndStop, vars, sink
    <2> QED
      BY <1>2, <2>1
  <1>5. ASSUME NEW s \in Services, WriteTick(s) \/ TakeSignal(s) PROVE Alone' /\ DirsOK'
    <2>1. UNCHANGED sink /\ \E b \in BOOLEAN : WriteBatch(s, b)
      BY <1>5 DEF WriteTick, TakeSignal
    <2>2. PICK b \in BOOLEAN : LoopTo(s, "open", loop[s].dir, b) \/ LoopTo(s, AfterWrite(b), loop[s].dir, b)
      BY <2>1, LoopMoves
    <2>3. AfterWrite(b) \in {"flush", "select"}
      BY DEF AfterWrite
    <2>4. Alone'
      BY <1>0, <2>1, <2>2, <2>3, AloneMoves DEF sink
    <2> QED
      BY <1>0, <2>1, <2>4, DirsKept
  <1>6. ASSUME NEW s \in Services, FlushTick(s) \/ Panic(s) PROVE Alone' /\ DirsOK'
    <2>1. UNCHANGED sink
      BY <1>6 DEF FlushTick, Panic
    <2>2. LoopTo(s, "flush", loop[s].dir, loop[s].stop) \/ LoopTo(s, "select", NoDir, FALSE)
      BY <1>6, LoopMoves
    <2>3. Alone'
      BY <1>0, <2>1, <2>2, AloneMoves DEF sink
    <2> QED
      BY <1>0, <2>1, <2>3, DirsKept
  <1>7. ASSUME NEW s \in Services, OpenDir(s) PROVE Alone' /\ DirsOK'
    <2>1. UNCHANGED sink /\ \A t \in Services : t # s => ~InSink(t)
      BY <1>0, <1>7 DEF OpenDir, Handler
    <2>2. \/ datasetDir = NoDir /\ LoopTo(s, "mkdir", datasetDir, loop[s].stop)
          \/ datasetDir # NoDir /\ LoopTo(s, "create", datasetDir, loop[s].stop)
      BY <1>7, LoopMoves
    <2>3. Alone'
      BY <1>0, <2>1, <2>2, AloneMoves DEF sink
    <2> QED
      BY <1>0, <2>1, <2>3, DirsKept
  <1>8. ASSUME NEW s \in Services, MakeDir(s) PROVE Alone' /\ DirsOK'
    <2>1. PICK d \in Dirs :
            /\ Unused(d) /\ datasetDir' = d /\ dirs' = [dirs EXCEPT ![d].state = "live"]
            /\ LoopTo(s, "create", d, loop[s].stop)
      BY <1>8, LoopMoves
    <2>2. datasetDir = NoDir /\ jobs' = jobs /\ \A t \in Services : t # s => ~InSink(t)
      BY <1>0, <1>8 DEF MakeDir, Handler, Alone
    <2>3. Alone'
      BY <1>0, <2>1, <2>2, AloneMoves
    <2>4. \A e \in Dirs : /\ dirs'[e].logs = dirs[e].logs
                          /\ dirs'[e].state = IF e = d THEN "live" ELSE dirs[e].state
      BY <1>1, <2>1 DEF Dir
    <2>5. DirsOK'
      BY <1>0, <1>1, <2>1, <2>2, <2>4, LoggerAssumption DEF DirsOK, Unused
    <2> QED
      BY <2>3, <2>5
  <1>9. ASSUME NEW s \in Services, CreateFile(s) PROVE Alone' /\ DirsOK'
    <2>1. /\ UNCHANGED sink /\ loop[s].dir = datasetDir
          /\ \A t \in Services : t # s => ~InSink(t)
      BY <1>0, <1>9 DEF CreateFile, Handler, Alone
    <2>2. \/ LoopTo(s, "table", loop[s].dir, loop[s].stop)
          \/ LoopTo(s, AfterWrite(loop[s].stop), NoDir, loop[s].stop)
      BY <1>9, LoopMoves
    <2>3. AfterWrite(loop[s].stop) \in {"flush", "select"}
      BY DEF AfterWrite
    <2>4. Alone'
      BY <1>0, <2>1, <2>2, <2>3, AloneMoves DEF sink
    <2> QED
      BY <1>0, <2>1, <2>4, DirsKept
  <1>10. ASSUME NEW s \in Services, WriteTable(s) \/ WriteFails(s) PROVE Alone' /\ DirsOK'
    <2>1. /\ UNCHANGED <<datasetDir, jobs>>
          /\ \A t \in Services : t # s => ~InSink(t)
          /\ loop[s].pc = "table" => loop[s].dir = datasetDir /\ loop[s].dir \in Dirs
      BY <1>0, <1>1, <1>10 DEF WriteTable, WriteFails, Handler, Alone, LoopAt, Loop
    <2>2. LoopTo(s, AfterWrite(loop[s].stop), NoDir, loop[s].stop)
      BY <1>10, LoopMoves
    <2>3. AfterWrite(loop[s].stop) \in {"flush", "select"}
      BY DEF AfterWrite
    <2>4. Alone'
      BY <1>0, <2>1, <2>2, <2>3, AloneMoves
    <2>5. \A e \in Dirs : /\ dirs'[e].state = dirs[e].state
                          /\ dirs[e].state = "none" => dirs'[e].logs = dirs[e].logs
      BY <1>1, <1>10, <2>1 DEF WriteTable, WriteFails, Dir
    <2>6. DirsOK'
      BY <1>0, <1>1, <2>1, <2>5 DEF DirsOK
    <2> QED
      BY <2>4, <2>6
  <1>11. ASSUME NEW s \in Services, FlushRead(s) PROVE Alone' /\ DirsOK'
    <2>1. UNCHANGED sink /\ \A t \in Services : t # s => ~InSink(t)
      BY <1>0, <1>11 DEF FlushRead, Handler
    <2>2. \/ LoopTo(s, AfterFlush(loop[s].stop), loop[s].dir, loop[s].stop)
          \/ datasetDir # NoDir /\ LoopTo(s, "clear", datasetDir, loop[s].stop)
      BY <1>11, LoopMoves
    <2>3. AfterFlush(loop[s].stop) \in {"stopped", "select"}
      BY DEF AfterFlush
    <2>4. Alone'
      BY <1>0, <2>1, <2>2, <2>3, AloneMoves DEF sink
    <2> QED
      BY <1>0, <2>1, <2>4, DirsKept
  <1>12. ASSUME NEW s \in Services, FlushClear(s) PROVE Alone' /\ DirsOK'
    <2>1. /\ loop[s].dir = datasetDir /\ datasetDir \in Dirs
          /\ \A t \in Services : t # s => ~InSink(t)
          /\ datasetDir' = NoDir /\ dirs' = dirs
      BY <1>0, <1>1, <1>12 DEF FlushClear, Handler, Alone, LoopAt, Loop
    <2>2. LoopTo(s, AfterFlush(loop[s].stop), NoDir, loop[s].stop)
      BY <1>12, LoopMoves
    <2>3. AfterFlush(loop[s].stop) \in {"stopped", "select"}
      BY DEF AfterFlush
    <2>4. Alone'
      BY <1>0, <2>1, <2>2, <2>3, AloneMoves
    <2>5. PICK j : j.dir = datasetDir /\ jobs' = jobs \cup {j}
      BY <1>12, <2>1 DEF FlushClear
    <2>6. DirsOK'
      BY <1>0, <1>1, <2>1, <2>5, LoggerAssumption DEF DirsOK
    <2> QED
      BY <2>4, <2>6
  <1>13. ASSUME NEW j \in jobs, Callback(j) PROVE Alone' /\ DirsOK'
    <2>1. UNCHANGED <<loop, datasetDir, dirs>>
      BY <1>13 DEF Callback
    <2>2. PICK i : i.dir = j.dir /\ jobs' = (jobs \ {j}) \cup {i}
      BY <1>1, <1>13 DEF Callback, Job
    <2>3. DirsOK'
      BY <1>0, <1>1, <2>1, <2>2 DEF DirsOK
    <2> QED
      BY <1>0, <2>1, <2>3 DEF Alone, InSink
  <1>14. ASSUME NEW j \in jobs, RemoveDir(j) PROVE Alone' /\ DirsOK'
    <2>1. UNCHANGED <<loop, datasetDir>> /\ jobs' = jobs \ {j} /\ j.dir \in Dirs
      BY <1>1, <1>14 DEF RemoveDir, Job
    <2>2. /\ dirs'[j.dir].state = "none" /\ dirs'[j.dir].logs = {}
          /\ \A e \in Dirs : e # j.dir => dirs'[e] = dirs[e]
      BY <1>1, <1>14, <2>1 DEF RemoveDir, NoLogs
    <2>3. DirsOK'
      BY <1>0, <1>1, <2>1, <2>2 DEF DirsOK
    <2> QED
      BY <1>0, <2>1, <2>3 DEF Alone, InSink
  <1> QED
    BY <1>3, <1>4, <1>5, <1>6, <1>7, <1>8, <1>9, <1>10, <1>11, <1>12, <1>13, <1>14
       DEF Next, Handler

-----------------------------------------------------------------------------
(* Stopping *)

\* Until a first fault, a logger that stops leaves nothing behind.
LEMMA StopStep == Typed /\ SinkInv /\ SinkInv' /\ StopInv /\ [Next]_vars => StopInv'
  <1> SUFFICES ASSUME Typed, SinkInv, StopInv, [Next]_vars, faults' = 0
               PROVE  poison' = {} /\ \A s \in Services : StopAt(s)'
    BY DEF StopInv
  <1>0. /\ faults \in Nat /\ ~Fault /\ overlap \in BOOLEAN
        /\ logs \in [Services -> SUBSET (1..last)]
        /\ records \in [Services -> SUBSET (1..last)]
        /\ \A s \in Services : loop[s] \in Loop /\ LoopAt(loop[s])
    BY LogsContain DEF Typed, TypeOK, Fault
  <1>1. faults = 0
    BY <1>0 DEF Next, vars, GetOrCreateLogger, EmitLog, TakeLog, WriteTick, FlushTick, TakeSignal,
           Handler, OpenDir, MakeDir, CreateFile, WriteTable, FlushRead, FlushClear, WriteFails,
           Panic, StopNext, Stopped, Callback, RemoveDir, BeginStop, EndStop
  <1>2. poison = {} /\ \A s \in Services : StopAt(s)
    BY <1>1 DEF StopInv
  <1>3. ASSUME UNCHANGED <<poison, logs, records, loop>>, overlap' = overlap
        PROVE  poison' = {} /\ \A s \in Services : StopAt(s)'
    BY <1>2, <1>3 DEF StopAt
  <1>4. ASSUME NEW s \in Services, GetOrCreateLogger(s) \/ EmitLog(s) \/ StopNext(s) \/ Stopped(s)
        PROVE  poison' = {} /\ \A t \in Services : StopAt(t)'
    <2>1. UNCHANGED <<poison, logs, records, loop>> /\ overlap' = overlap
      BY <1>0, <1>4 DEF GetOrCreateLogger, EmitLog, StopNext, Stopped, memory, history
    <2> QED
      BY <1>3, <2>1
  <1>5. ASSUME BeginStop \/ EndStop \/ UNCHANGED vars
        PROVE  poison' = {} /\ \A t \in Services : StopAt(t)'
    <2>1. UNCHANGED <<poison, logs, records, loop>> /\ overlap' = overlap
      BY <1>5 DEF BeginStop, EndStop, memory, history, vars
    <2> QED
      BY <1>3, <2>1
  <1>6. ASSUME NEW j \in jobs, Callback(j) \/ RemoveDir(j)
        PROVE  poison' = {} /\ \A t \in Services : StopAt(t)'
    <2>1. UNCHANGED <<poison, logs, records, loop>> /\ overlap' = overlap
      BY <1>6 DEF Callback, RemoveDir, memory, history
    <2> QED
      BY <1>3, <2>1
  <1>7. ASSUME NEW s \in Services, TakeLog(s)
        PROVE  poison' = {} /\ \A t \in Services : StopAt(t)'
    <2>1. /\ UNCHANGED <<poison, loop, overlap>> /\ ~loop[s].stop
          /\ \A t \in Services : t # s => logs'[t] = logs[t] /\ records'[t] = records[t]
      BY <1>0, <1>7 DEF TakeLog, history, LoopAt
    <2> QED
      BY <1>2, <2>1 DEF StopAt
  <1>8. ASSUME NEW s \in Services, NEW b \in BOOLEAN, WriteBatch(s, b),
               UNCHANGED <<poison, overlap>>
        PROVE  poison' = {} /\ \A t \in Services : StopAt(t)'
    <2>1. /\ logs'[s] = {}
          /\ \A t \in Services : t # s => logs'[t] = logs[t] /\ records'[t] = records[t]
      BY <1>0, <1>2, <1>8 DEF WriteBatch, Convertible
    <2>2. \/ LoopTo(s, "open", loop[s].dir, b)
          \/ LoopTo(s, AfterWrite(b), loop[s].dir, b) /\ records'[s] = {}
      BY <1>2, <1>8, LoopMoves DEF Convertible
    <2>3. StopAt(s)'
      BY <2>1, <2>2 DEF StopAt, LoopTo
    <2>4. ASSUME NEW t \in Services, t # s PROVE StopAt(t)'
      BY <1>2, <1>8, <2>1, <2>2, <2>4 DEF StopAt, LoopTo
    <2> QED
      BY <1>2, <1>8, <2>3, <2>4
  <1>9. ASSUME NEW s \in Services, WriteTick(s) \/ TakeSignal(s)
        PROVE  poison' = {} /\ \A t \in Services : StopAt(t)'
    BY <1>8, <1>9 DEF WriteTick, TakeSignal, history
  <1>10. ASSUME NEW s \in Services, NEW p, NEW d, LoopTo(s, p, d, loop[s].stop),
                UNCHANGED <<poison, logs>>,
                \A t \in Services : t # s => records'[t] = records[t],
                overlap => overlap',
                ~overlap' /\ loop[s].stop /\ p \in {"flush", "clear", "stopped"} => records'[s] = {}
         PROVE  poison' = {} /\ \A t \in Services : StopAt(t)'
    BY <1>2, <1>10 DEF StopAt, LoopTo
  <1>11. ASSUME NEW s \in Services, FlushTick(s)
         PROVE  poison' = {} /\ \A t \in Services : StopAt(t)'
    <2>1. ~loop[s].stop /\ UNCHANGED <<poison, logs, records, overlap>>
      BY <1>0, <1>11 DEF FlushTick, memory, history, LoopAt
    <2>2. LoopTo(s, "flush", loop[s].dir, loop[s].stop)
      BY <1>11, LoopMoves
    <2> QED
      BY <1>10, <2>1, <2>2
  <1>12. ASSUME NEW s \in Services, OpenDir(s) \/ MakeDir(s)
         PROVE  poison' = {} /\ \A t \in Services : StopAt(t)'
    <2>1. UNCHANGED <<poison, logs, records>> /\ (overlap => overlap')
      BY <1>12 DEF OpenDir, MakeDir, memory, Overlapping
    <2>2. \E d : LoopTo(s, "mkdir", d, loop[s].stop) \/ LoopTo(s, "create", d, loop[s].stop)
      BY <1>12, LoopMoves
    <2> QED
      BY <1>10, <2>1, <2>2
  <1>13. ASSUME NEW s \in Services, CreateFile(s)
         PROVE  poison' = {} /\ \A t \in Services : StopAt(t)'
    <2>1. UNCHANGED <<poison, logs, records>> /\ (overlap => overlap') /\ loop[s].pc = "create"
      BY <1>13 DEF CreateFile, memory, Overlapping
    <2>2. \/ LoopTo(s, "table", loop[s].dir, loop[s].stop)
          \/ /\ dirs[loop[s].dir].state # "live"
             /\ LoopTo(s, AfterWrite(loop[s].stop), NoDir, loop[s].stop)
      BY <1>13, LoopMoves
    <2>3. ~overlap => dirs[loop[s].dir].state = "live"
      BY <1>0, <2>1 DEF SinkInv, Alone, DirsOK, LoopAt
    <2> QED
      BY <1>10, <2>1, <2>2, <2>3
  <1>14. ASSUME NEW s \in Services, WriteTable(s)
         PROVE  poison' = {} /\ \A t \in Services : StopAt(t)'
    <2>1. /\ UNCHANGED <<poison, logs>> /\ (overlap => overlap') /\ records'[s] = {}
          /\ \A t \in Services : t # s => records'[t] = records[t]
      BY <1>0, <1>14 DEF WriteTable, Overlapping
    <2>2. LoopTo(s, AfterWrite(loop[s].stop), NoDir, loop[s].stop)
      BY <1>14, LoopMoves
    <2> QED
      BY <1>10, <2>1, <2>2
  <1>15. ASSUME NEW s \in Services, FlushRead(s) \/ FlushClear(s)
         PROVE  poison' = {} /\ \A t \in Services : StopAt(t)'
    <2>1. /\ UNCHANGED <<poison, logs, records>> /\ (overlap => overlap')
          /\ loop[s].pc \in {"flush", "clear"}
      BY <1>15 DEF FlushRead, FlushClear, memory, Overlapping
    <2>2. PICK p, d : LoopTo(s, p, d, loop[s].stop)
      BY <1>15, LoopMoves
    <2>3. ~overlap /\ loop[s].stop => records[s] = {}
      BY <1>2, <2>1 DEF StopAt
    <2> QED
      BY <1>10, <2>1, <2>2, <2>3
  <1>16. ASSUME NEW s \in Services PROVE ~WriteFails(s) /\ ~Panic(s)
    BY <1>0 DEF WriteFails, Panic
  <1> QED
    BY <1>4, <1>5, <1>6, <1>7, <1>9, <1>11, <1>12, <1>13, <1>14, <1>15, <1>16 DEF Next, Handler

\* Nothing is poisoned, in the sink or stopped at first.
LEMMA InitStop == Init => SinkInv /\ StopInv
  <1> SUFFICES ASSUME Init PROVE SinkInv /\ StopInv
    OBVIOUS
  <1>1. SinkInv
    BY DEF Init, SinkInv, Alone, DirsOK, InSink, NoLogs
  <1>2. StopInv
    BY DEF Init, StopInv, StopAt
  <1> QED
    BY <1>1, <1>2

\* A logger that has stopped without a fault has nothing in its buffer: the
\* signal writes what there is before it flushes and stops (loggerLoop).
THEOREM StopLeavesNothing == Spec => []StopWritesBuffer
  <1>1. Typed /\ StopInv => StopWritesBuffer
    <2> SUFFICES ASSUME Typed, StopInv, NEW s \in Services, loop[s].pc = "stopped", faults = 0
                 PROVE  logs[s] = {} /\ (~overlap => records[s] = {})
      BY DEF StopWritesBuffer
    <2> QED
      BY DEF Typed, LoopAt, StopInv, StopAt
  <1>2. Spec => [](Typed /\ SinkInv /\ StopInv)
    BY InitTyped, TypedStep, InitStop, SinkStep, StopStep, PTL DEF Spec
  <1> QED
    BY <1>1, <1>2, PTL

-----------------------------------------------------------------------------
(* Where the logs are *)

Placed == Apart /\ Settled /\ Kept

\* What waits is in memory or in a pending directory.
LEMMA WaitingPlaces ==
    ASSUME NEW l
    PROVE  Waiting(l) <=> \/ \E s \in Services : l \in Memory(s)
                          \/ \E d \in Dirs : Pending(d) /\ l \in dirs[d].logs
  BY DEF Waiting, Memory, Pending

\* A service rearranges its memory.
LEMMA MemoryMoves ==
    ASSUME Placed, UNCHANGED <<last, datasetDir, dirs, jobs, store, failed>>,
           \A s \in Services : Memory(s)' = Memory(s),
           \A s \in Services : /\ ch'[s] \cap logs'[s] = {}
                               /\ (ch'[s] \cup logs'[s]) \cap records'[s] = {}
    PROVE  Placed'
  <1>1. \A d : Pending(d)' <=> Pending(d)
    BY DEF Pending
  <1>2. \A l : (Stored(l)' <=> Stored(l)) /\ (StoredOnce(l)' <=> StoredOnce(l))
    BY DEF Stored, StoredOnce
  <1>3. Apart'
    BY DEF Placed, Apart
  <1>4. Settled'
    BY <1>1, <1>2 DEF Placed, Settled
  <1>5. \A l : Waiting(l)' <=> Waiting(l)
    <2>1. \A l : Waiting(l)' <=> \/ \E s \in Services : l \in Memory(s)'
                                 \/ \E d \in Dirs : Pending(d)' /\ l \in dirs'[d].logs
      BY DEF Waiting, Memory, Pending
    <2> QED
      BY <1>1, <2>1, WaitingPlaces
  <1>6. Kept'
    BY <1>2, <1>5 DEF Placed, Kept
  <1> QED
    BY <1>3, <1>4, <1>6 DEF Placed

\* Directories that hold logs wait as before.
LEMMA DirsMove ==
    ASSUME Placed, UNCHANGED <<last, ch, logs, records, store, failed>>,
           \A d \in Dirs : /\ dirs'[d].logs = dirs[d].logs
                           /\ dirs[d].logs # {} => (Pending(d)' <=> Pending(d))
    PROVE  Placed'
  <1>1. \A s : Memory(s)' = Memory(s)
    BY DEF Memory
  <1>2. \A l : (Stored(l)' <=> Stored(l)) /\ (StoredOnce(l)' <=> StoredOnce(l))
    BY DEF Stored, StoredOnce
  <1>3. Apart'
    BY <1>1 DEF Placed, Apart
  <1>4. Settled'
    <2> SUFFICES ASSUME NEW l \in Logs, Stored(l)'
                 PROVE  /\ StoredOnce(l)'
                        /\ \A s \in Services : l \notin Memory(s)'
                        /\ \A d \in Dirs : Pending(d)' => l \notin dirs'[d].logs
      BY DEF Settled
    <2>1. /\ StoredOnce(l) /\ \A s \in Services : l \notin Memory(s)
          /\ \A d \in Dirs : Pending(d) => l \notin dirs[d].logs
      BY <1>2 DEF Placed, Settled
    <2>2. ASSUME NEW d \in Dirs, Pending(d)' PROVE l \notin dirs'[d].logs
      <3>1. CASE dirs[d].logs = {}
        BY <3>1
      <3>2. CASE dirs[d].logs # {}
        BY <2>1, <2>2, <3>2
      <3> QED
        BY <3>1, <3>2
    <2> QED
      BY <1>1, <1>2, <2>1, <2>2
  <1>5. \A l : Waiting(l) => Waiting(l)'
    <2>1. \A l : Waiting(l)' <=> \/ \E s \in Services : l \in Memory(s)'
                                 \/ \E d \in Dirs : Pending(d)' /\ l \in dirs'[d].logs
      BY DEF Waiting, Memory, Pending
    <2>2. \A l : \A d \in Dirs : Pending(d) /\ l \in dirs[d].logs => Pending(d)' /\ l \in dirs'[d].logs
      OBVIOUS
    <2> QED
      BY <1>1, <2>1, <2>2, WaitingPlaces
  <1>6. Kept'
    BY <1>2, <1>5 DEF Placed, Kept
  <1> QED
    BY <1>3, <1>4, <1>6 DEF Placed

\* A log is accepted.
LEMMA EmitPlaces ==
    ASSUME Typed, Placed, NEW s \in Services, EmitLog(s)
    PROVE  Placed'
  <1>10. PICK n : n = last + 1
    OBVIOUS
  <1>0. /\ last \in Nat /\ last' = n /\ 1..n = (1..last) \cup {n} /\ n \notin 1..last
        /\ ch \in [Services -> SUBSET (1..last)]
        /\ logs \in [Services -> SUBSET (1..last)]
        /\ records \in [Services -> SUBSET (1..last)]
    BY <1>10, LogsContain DEF EmitLog, Typed, TypeOK
  <1>1. UNCHANGED <<logs, records, datasetDir, dirs, jobs, store, failed>>
    BY DEF EmitLog, sink, offline
  <1>2. ch'[s] = ch[s] \cup {n} /\ \A t \in Services : t # s => ch'[t] = ch[t]
    BY <1>0, <1>10 DEF EmitLog
  <1>3. /\ Memory(s)' = Memory(s) \cup {n}
        /\ \A t \in Services : t # s => Memory(t)' = Memory(t)
    BY <1>1, <1>2 DEF Memory
  <1>4. /\ \A t \in Services : n \notin Memory(t)
        /\ \A d \in Dirs : n \notin dirs[d].logs
        /\ n \in Logs => ~Stored(n)
    <2>1. \A t \in Services : n \notin Memory(t)
      BY <1>0 DEF Memory
    <2>2. \A d \in Dirs : n \notin dirs[d].logs
      BY <1>0 DEF Typed, Past
    <2>3. n \in Logs => ~Stored(n)
      BY <1>0 DEF Typed, Past, Stored
    <2> QED
      BY <2>1, <2>2, <2>3
  <1>5. Apart'
    <2>1. \A t \in Services : /\ ch'[t] \cap logs'[t] = {}
                              /\ (ch'[t] \cup logs'[t]) \cap records'[t] = {}
      BY <1>1, <1>2, <1>4 DEF Placed, Apart, Memory
    <2>2. \A t, u \in Services : t # u => Memory(t)' \cap Memory(u)' = {}
      BY <1>3, <1>4 DEF Placed, Apart
    <2>3. \A t \in Services, d \in Dirs : Memory(t)' \cap dirs'[d].logs = {}
      BY <1>1, <1>3, <1>4 DEF Placed, Apart
    <2> QED
      BY <1>1, <2>1, <2>2, <2>3 DEF Placed, Apart
  <1>6. \A l : /\ Stored(l)' <=> Stored(l)
               /\ StoredOnce(l)' <=> StoredOnce(l)
    BY <1>1 DEF Stored, StoredOnce
  <1>7. \A d : Pending(d)' <=> Pending(d)
    BY <1>1 DEF Pending
  <1>8. Settled'
    BY <1>1, <1>3, <1>4, <1>6, <1>7 DEF Placed, Settled
  <1>9. Kept'
    <2>1. \A l : Waiting(l)' <=> \/ \E t \in Services : l \in Memory(t)'
                                 \/ \E d \in Dirs : Pending(d)' /\ l \in dirs'[d].logs
      BY DEF Waiting, Memory, Pending
    <2>2. \A l : Waiting(l) => Waiting(l)'
      BY <1>1, <1>3, <1>7, <2>1, WaitingPlaces
    <2>3. Waiting(n)'
      BY <1>3, <2>1
    <2> QED
      BY <1>0, <1>1, <1>6, <2>2, <2>3 DEF Placed, Kept
  <1> QED
    BY <1>5, <1>8, <1>9 DEF Placed

\* A log moves from the channel to the buffer, and a full buffer to the records.
LEMMA TakePlaces ==
    ASSUME Typed, Placed, NEW s \in Services, TakeLog(s)
    PROVE  Placed'
  <1>0. /\ ch \in [Services -> SUBSET (1..last)]
        /\ logs \in [Services -> SUBSET (1..last)]
        /\ records \in [Services -> SUBSET (1..last)]
        /\ last \in Nat
    BY LogsContain DEF Typed, TypeOK
  <1>1. PICK l : l = Min(ch[s])
    OBVIOUS
  <1>2. l \in ch[s]
    BY <1>0, <1>1, MinIn DEF TakeLog
  <1>3. /\ ch'[s] = ch[s] \ {l}
        /\ \/ logs'[s] = logs[s] \cup {l} /\ records'[s] = records[s]
           \/ logs'[s] = {} /\ records'[s] = records[s] \cup logs[s] \cup {l}
        /\ \A t \in Services : t # s =>
             ch'[t] = ch[t] /\ logs'[t] = logs[t] /\ records'[t] = records[t]
    BY <1>0, <1>1 DEF TakeLog
  <1>4. /\ ch[s] \cap logs[s] = {} /\ (ch[s] \cup logs[s]) \cap records[s] = {}
        /\ \A t \in Services : /\ ch[t] \cap logs[t] = {}
                               /\ (ch[t] \cup logs[t]) \cap records[t] = {}
    BY DEF Placed, Apart
  <1>5. ch'[s] \cap logs'[s] = {} /\ (ch'[s] \cup logs'[s]) \cap records'[s] = {}
    BY <1>2, <1>3, <1>4
  <1>6. ch'[s] \cup logs'[s] \cup records'[s] = ch[s] \cup logs[s] \cup records[s]
    BY <1>2, <1>3
  <1>7. UNCHANGED <<last, datasetDir, dirs, jobs, store, failed>>
    BY DEF TakeLog, sink, offline, service
  <1>8. \A t \in Services : Memory(t)' = Memory(t)
    BY <1>3, <1>6 DEF Memory
  <1>9. \A t \in Services : /\ ch'[t] \cap logs'[t] = {}
                            /\ (ch'[t] \cup logs'[t]) \cap records'[t] = {}
    BY <1>3, <1>4, <1>5
  <1> QED
    BY <1>7, <1>8, <1>9, MemoryMoves

\* Compact moves the buffer to the records.
LEMMA BatchPlaces ==
    ASSUME Typed, Placed, NEW s \in Services, NEW b \in BOOLEAN, WriteBatch(s, b),
           UNCHANGED <<ch, sink, offline, service>>
    PROVE  Placed'
  <1>0. /\ ch \in [Services -> SUBSET (1..last)]
        /\ logs \in [Services -> SUBSET (1..last)]
        /\ records \in [Services -> SUBSET (1..last)]
    BY DEF Typed, TypeOK
  <1>1. /\ \/ logs'[s] = {} /\ records'[s] = records[s] \cup logs[s]
           \/ logs'[s] = logs[s] /\ records'[s] = records[s]
        /\ \A t \in Services : t # s => logs'[t] = logs[t] /\ records'[t] = records[t]
    BY <1>0 DEF WriteBatch
  <1>2. \A t \in Services : /\ ch[t] \cap logs[t] = {}
                            /\ (ch[t] \cup logs[t]) \cap records[t] = {}
    BY DEF Placed, Apart
  <1>3. \A t \in Services : /\ ch'[t] \cap logs'[t] = {}
                            /\ (ch'[t] \cup logs'[t]) \cap records'[t] = {}
    BY <1>1, <1>2
  <1>4. \A t \in Services : Memory(t)' = Memory(t)
    BY <1>1 DEF Memory
  <1>5. UNCHANGED <<last, datasetDir, dirs, jobs, store, failed>>
    BY DEF sink, offline, service
  <1> QED
    BY <1>3, <1>4, <1>5, MemoryMoves

\* The records are written to the directory of the sink.
LEMMA TablePlaces ==
    ASSUME Typed, Placed, Alone, DirsOK, NEW s \in Services, WriteTable(s)
    PROVE  Placed'
  <1>0. /\ loop[s].dir = datasetDir /\ datasetDir \in Dirs
        /\ dirs \in [Dirs -> Dir] /\ records \in [Services -> SUBSET (1..last)]
        /\ dirs[datasetDir].state = "live"
    BY DEF WriteTable, Alone, DirsOK, Typed, TypeOK, LoopAt, Loop
  <1>1. PICK d \in Dirs : d = datasetDir
    BY <1>0
  <1>2. /\ dirs'[d].logs = dirs[d].logs \cup records[s]
        /\ \A e \in Dirs : e # d => dirs'[e].logs = dirs[e].logs
    BY <1>0, <1>1 DEF WriteTable, Dir
  <1>3. UNCHANGED <<last, ch, logs, datasetDir, jobs, store, failed>>
    BY DEF WriteTable, offline, service
  <1>4. records'[s] = {} /\ \A t \in Services : t # s => records'[t] = records[t]
    BY <1>0 DEF WriteTable
  <1>5. /\ Memory(s) = Memory(s)' \cup records[s] /\ Memory(s)' \cap records[s] = {}
        /\ \A t \in Services : t # s => Memory(t)' = Memory(t)
    BY <1>3, <1>4 DEF Memory, Placed, Apart
  <1>6. \A e : Pending(e)' <=> Pending(e)
    BY <1>3 DEF Pending
  <1>7. \A l : (Stored(l)' <=> Stored(l)) /\ (StoredOnce(l)' <=> StoredOnce(l))
    BY <1>3 DEF Stored, StoredOnce
  <1>8. Apart'
    <2>0. /\ \A t, u \in Services : t # u => Memory(t) \cap Memory(u) = {}
          /\ \A t \in Services, e \in Dirs : Memory(t) \cap dirs[e].logs = {}
          /\ \A e, f \in Dirs : e # f => dirs[e].logs \cap dirs[f].logs = {}
      BY DEF Placed, Apart
    <2>1. \A t \in Services : /\ ch'[t] \cap logs'[t] = {}
                              /\ (ch'[t] \cup logs'[t]) \cap records'[t] = {}
      BY <1>3, <1>4 DEF Placed, Apart
    <2>2. \A t, u \in Services : t # u => Memory(t)' \cap Memory(u)' = {}
      BY <1>5, <2>0
    <2>3. \A t \in Services : Memory(t)' \cap records[s] = {}
      BY <1>5, <2>0
    <2>4. \A t \in Services, e \in Dirs : Memory(t)' \cap dirs'[e].logs = {}
      BY <1>2, <1>5, <2>0, <2>3
    <2>5. \A e \in Dirs : records[s] \cap dirs[e].logs = {}
      BY <1>5, <2>0
    <2>6. \A e, f \in Dirs : e # f => dirs'[e].logs \cap dirs'[f].logs = {}
      BY <1>2, <2>0, <2>5
    <2> QED
      BY <2>1, <2>2, <2>4, <2>6 DEF Apart
  <1>9. Settled'
    <2> SUFFICES ASSUME NEW l \in Logs, Stored(l)'
                 PROVE  /\ StoredOnce(l)'
                        /\ \A t \in Services : l \notin Memory(t)'
                        /\ \A e \in Dirs : Pending(e)' => l \notin dirs'[e].logs
      BY DEF Settled
    <2>1. /\ StoredOnce(l) /\ \A t \in Services : l \notin Memory(t)
          /\ \A e \in Dirs : Pending(e) => l \notin dirs[e].logs
      BY <1>7 DEF Placed, Settled
    <2> QED
      BY <1>2, <1>5, <1>6, <1>7, <2>1
  <1>10. Kept'
    <2>1. \A l : Waiting(l)' <=> \/ \E t \in Services : l \in Memory(t)'
                                 \/ \E e \in Dirs : Pending(e)' /\ l \in dirs'[e].logs
      BY DEF Waiting, Memory, Pending
    <2>2. Pending(d)'
      BY <1>1, <1>3 DEF Pending
    <2>3. ASSUME NEW l, Waiting(l) PROVE Waiting(l)'
      <3>1. CASE \E t \in Services : l \in Memory(t)
        BY <1>2, <1>5, <2>1, <2>2, <3>1
      <3>2. CASE \E e \in Dirs : Pending(e) /\ l \in dirs[e].logs
        BY <1>2, <1>6, <2>1, <3>2
      <3> QED
        BY <2>3, <3>1, <3>2, WaitingPlaces
    <2> QED
      BY <1>3, <1>7, <2>3 DEF Placed, Kept
  <1> QED
    BY <1>8, <1>9, <1>10 DEF Placed

\* A job has its directory for itself, and the sink has another one.
LEMMA OwnDir ==
    ASSUME Typed, DirsOK, NEW j \in jobs
    PROVE  /\ j.dir \in Dirs /\ j.dir # datasetDir
           /\ \A i \in jobs : i.dir = j.dir => i = j
  BY LoggerAssumption DEF Typed, TypeOK, Job, DirsOK

\* The callback loads a directory, or fails.
LEMMA CallbackPlaces ==
    ASSUME Typed, Placed, DirsOK, NEW j \in jobs, Callback(j)
    PROVE  Placed'
  <1>0. /\ j.dir \in Dirs /\ j.dir # datasetDir /\ j.pc = "call" /\ j.name \in Services
        /\ \A i \in jobs : i.dir = j.dir => i = j
        /\ store \in [Services -> [Logs -> 0..2]]
    BY OwnDir DEF Callback, Typed, TypeOK, Job
  <1>1. UNCHANGED <<last, ch, logs, records, datasetDir, dirs>>
    BY DEF Callback, memory, service
  <1>2. PICK i : /\ i.dir = j.dir /\ i.pc = "remove"
                 /\ jobs' = (jobs \ {j}) \cup {i}
    BY DEF Callback, Typed, TypeOK, Job
  <1>3. \A d \in Dirs : Pending(d)' <=> Pending(d) /\ d # j.dir
    BY <1>0, <1>1, <1>2 DEF Pending
  <1>4. Pending(j.dir)
    BY <1>0 DEF Pending
  <1>5. PICK L : L = dirs[j.dir].logs
    OBVIOUS
  <1>6. /\ \A l \in Logs : l \in L => ~Stored(l)
        /\ \A s \in Services : Memory(s) \cap L = {}
        /\ \A d \in Dirs : d # j.dir => dirs[d].logs \cap L = {}
    BY <1>0, <1>4, <1>5 DEF Placed, Apart, Settled
  <1>7. \A s : Memory(s)' = Memory(s)
    BY <1>1 DEF Memory
  <1>8. Apart'
    BY <1>1, <1>7 DEF Placed, Apart
  <1>9. \/ /\ failed' = failed \cup L /\ store' = store
        \/ /\ failed' = failed
           /\ store' = [store EXCEPT ![j.name] =
                          [l \in Logs |-> IF l \in L THEN Min({@[l] + 1, 2}) ELSE @[l]]]
    BY <1>5 DEF Callback
  <1>10. /\ \A s \in Services, l \in Logs : l \notin L => store'[s][l] = store[s][l]
         /\ \/ failed' = failed \cup L /\ store' = store
            \/ /\ failed' = failed
               /\ \A l \in Logs : l \in L => /\ store'[j.name][l] = 1
                                             /\ \A t \in Services : t # j.name => store'[t][l] = 0
    <2>1. CASE failed' = failed \cup L /\ store' = store
      BY <2>1
    <2>2. CASE /\ failed' = failed
               /\ store' = [store EXCEPT ![j.name] =
                              [l \in Logs |-> IF l \in L THEN Min({@[l] + 1, 2}) ELSE @[l]]]
      <3>1. \A s \in Services, l \in Logs : l \notin L => store'[s][l] = store[s][l]
        BY <1>0, <2>2
      <3>2. ASSUME NEW l \in Logs, l \in L
            PROVE  /\ store'[j.name][l] = 1
                   /\ \A t \in Services : t # j.name => store'[t][l] = 0
        <4>1. \A t \in Services : store[t][l] = 0
          BY <1>0, <1>6, <3>2 DEF Stored
        <4>2. Min({0 + 1, 2}) = 1
          BY CountToTwo
        <4>3. store'[j.name][l] = Min({store[j.name][l] + 1, 2})
          BY <1>0, <2>2, <3>2
        <4>4. \A t \in Services : t # j.name => store'[t][l] = store[t][l]
          BY <1>0, <2>2
        <4> QED
          BY <1>0, <4>1, <4>2, <4>3, <4>4
      <3> QED
        BY <2>2, <3>1, <3>2
    <2> QED
      BY <1>9, <2>1, <2>2
  <1>11. \A l \in Logs : l \notin L => /\ Stored(l)' <=> Stored(l)
                                       /\ StoredOnce(l)' <=> StoredOnce(l)
    BY <1>10 DEF Stored, StoredOnce
  <1>12. \/ /\ failed' = failed \cup L
            /\ \A l \in Logs : l \in L => ~Stored(l)'
         \/ /\ failed' = failed
            /\ \A l \in Logs : l \in L => Stored(l)' /\ StoredOnce(l)'
    <2>1. CASE failed' = failed \cup L /\ store' = store
      BY <1>6, <2>1 DEF Stored
    <2>2. CASE /\ failed' = failed
               /\ \A l \in Logs : l \in L => /\ store'[j.name][l] = 1
                                             /\ \A t \in Services : t # j.name => store'[t][l] = 0
      <3>1. \A l \in Logs : l \in L => StoredOnce(l)'
        BY <1>0, <2>2 DEF StoredOnce
      <3>2. \A l \in Logs : l \in L => Stored(l)'
        BY <1>0, <2>2 DEF Stored
      <3> QED
        BY <2>2, <3>1, <3>2
    <2> QED
      BY <1>10, <2>1, <2>2
  <1>13. Settled'
    <2> SUFFICES ASSUME NEW l \in Logs, Stored(l)'
                 PROVE  /\ StoredOnce(l)'
                        /\ \A s \in Services : l \notin Memory(s)'
                        /\ \A d \in Dirs : Pending(d)' => l \notin dirs'[d].logs
      BY DEF Settled
    <2>1. CASE l \in L
      BY <1>1, <1>3, <1>6, <1>7, <1>12, <2>1
    <2>2. CASE l \notin L
      <3>1. /\ StoredOnce(l) /\ \A s \in Services : l \notin Memory(s)
            /\ \A d \in Dirs : Pending(d) => l \notin dirs[d].logs
        BY <1>11, <2>2 DEF Placed, Settled
      <3> QED
        BY <1>1, <1>3, <1>7, <1>11, <2>2, <3>1
    <2> QED
      BY <2>1, <2>2
  <1>14. Kept'
    <2>1. \A l : Waiting(l)' <=> \/ \E s \in Services : l \in Memory(s)'
                                 \/ \E d \in Dirs : Pending(d)' /\ l \in dirs'[d].logs
      BY DEF Waiting, Memory, Pending
    <2>2. \A l : Waiting(l) => Waiting(l)' \/ l \in L
      BY <1>1, <1>3, <1>5, <1>7, <2>1, WaitingPlaces
    <2>3. 1..last \subseteq Logs
      <3>1. 1..setup.logs \subseteq Logs /\ setup.logs \in Nat /\ last \in 0..setup.logs
        BY LogsContain DEF Typed, TypeOK
      <3> QED
        BY <3>1
    <2> SUFFICES ASSUME NEW l \in 1..last PROVE Waiting(l)' \/ Stored(l)' \/ l \in failed'
      BY <1>1 DEF Kept
    <2>4. Waiting(l) \/ Stored(l) \/ l \in failed
      BY DEF Placed, Kept
    <2> QED
      BY <1>11, <1>12, <2>2, <2>3, <2>4
  <1> QED
    BY <1>8, <1>13, <1>14 DEF Placed

\* A directory that was loaded is removed.
LEMMA RemovePlaces ==
    ASSUME Typed, Placed, DirsOK, NEW j \in jobs, RemoveDir(j)
    PROVE  Placed'
  <1>0. /\ j.dir \in Dirs /\ j.dir # datasetDir /\ j.pc = "remove"
        /\ \A i \in jobs : i.dir = j.dir => i = j
        /\ dirs \in [Dirs -> Dir]
    BY OwnDir DEF RemoveDir, Typed, TypeOK
  <1>1. UNCHANGED <<last, ch, logs, records, datasetDir, store, failed>> /\ jobs' = jobs \ {j}
    BY DEF RemoveDir, memory, service, offline
  <1>2. /\ dirs'[j.dir].logs = {} /\ \A d \in Dirs : d # j.dir => dirs'[d].logs = dirs[d].logs
    BY <1>0 DEF RemoveDir, NoLogs
  <1>3. \A d \in Dirs : Pending(d)' <=> Pending(d)
    BY <1>0, <1>1 DEF Pending
  <1>4. ~Pending(j.dir)
    BY <1>0 DEF Pending
  <1>5. \A s : Memory(s)' = Memory(s)
    BY <1>1 DEF Memory
  <1>6. \A l : (Stored(l)' <=> Stored(l)) /\ (StoredOnce(l)' <=> StoredOnce(l))
    BY <1>1 DEF Stored, StoredOnce
  <1>7. Apart'
    <2>1. \A d \in Dirs : dirs'[d].logs \subseteq dirs[d].logs
      BY <1>2
    <2>2. \A s \in Services : /\ ch'[s] \cap logs'[s] = {}
                              /\ (ch'[s] \cup logs'[s]) \cap records'[s] = {}
      BY <1>1 DEF Placed, Apart
    <2>3. /\ \A s, t \in Services : s # t => Memory(s)' \cap Memory(t)' = {}
          /\ \A s \in Services, d \in Dirs : Memory(s)' \cap dirs'[d].logs = {}
      BY <1>5, <2>1 DEF Placed, Apart
    <2>4. \A d, e \in Dirs : d # e => dirs'[d].logs \cap dirs'[e].logs = {}
      BY <2>1 DEF Placed, Apart
    <2> QED
      BY <2>2, <2>3, <2>4 DEF Apart
  <1>8. Settled'
    BY <1>2, <1>3, <1>4, <1>5, <1>6 DEF Placed, Settled
  <1>9. Kept'
    <2>1. \A l : Waiting(l)' <=> \/ \E s \in Services : l \in Memory(s)'
                                 \/ \E d \in Dirs : Pending(d)' /\ l \in dirs'[d].logs
      BY DEF Waiting, Memory, Pending
    <2>2. \A l : Waiting(l) => Waiting(l)'
      BY <1>2, <1>3, <1>4, <1>5, <2>1, WaitingPlaces
    <2> QED
      BY <1>1, <1>6, <2>2 DEF Placed, Kept
  <1> QED
    BY <1>7, <1>8, <1>9 DEF Placed

\* Every step keeps the logs in their places, as long as loggers do not meet.
LEMMA PlaceStep == Typed /\ SinkInv /\ PlaceInv /\ [Next]_vars => PlaceInv'
  <1> SUFFICES ASSUME Typed, SinkInv, PlaceInv, [Next]_vars, ~overlap' PROVE Placed'
    BY DEF PlaceInv, Placed
  <1>0. Placed /\ Alone /\ DirsOK
    BY OverlapKept DEF PlaceInv, SinkInv, Placed
  <1>1. ASSUME UNCHANGED <<last, ch, logs, records, datasetDir, dirs, jobs, store, failed>>
        PROVE  Placed'
    BY <1>0, <1>1, DirsMove DEF Pending
  <1>2. ASSUME NEW s \in Services,
               \/ GetOrCreateLogger(s) \/ FlushTick(s) \/ OpenDir(s) \/ CreateFile(s)
               \/ FlushRead(s) \/ Panic(s) \/ StopNext(s) \/ Stopped(s)
        PROVE  Placed'
    <2>1. UNCHANGED <<last, ch, logs, records, datasetDir, dirs, jobs, store, failed>>
      BY <1>2 DEF GetOrCreateLogger, FlushTick, OpenDir, CreateFile, FlushRead, Panic, StopNext,
                  Stopped, memory, sink, offline, service
    <2> QED
      BY <1>1, <2>1
  <1>3. ASSUME BeginStop \/ EndStop \/ UNCHANGED vars PROVE Placed'
    <2>1. UNCHANGED <<last, ch, logs, records, datasetDir, dirs, jobs, store, failed>>
      BY <1>3 DEF BeginStop, EndStop, vars, memory, sink, offline
    <2> QED
      BY <1>1, <2>1
  <1>4. ASSUME NEW s \in Services, WriteTick(s) \/ TakeSignal(s) PROVE Placed'
    BY <1>0, <1>4, BatchPlaces DEF WriteTick, TakeSignal
  <1>5. ASSUME NEW s \in Services, MakeDir(s) PROVE Placed'
    <2>1. PICK d \in Dirs :
            /\ Unused(d) /\ datasetDir' = d /\ dirs' = [dirs EXCEPT ![d].state = "live"]
      BY <1>5, LoopMoves
    <2>2. datasetDir = NoDir /\ dirs \in [Dirs -> Dir]
      BY <1>0, <1>5 DEF MakeDir, Alone, Typed, TypeOK
    <2>3. UNCHANGED <<last, ch, logs, records, jobs, store, failed>>
      BY <1>5 DEF MakeDir, memory, offline, service
    <2>4. dirs[d].logs = {} /\ \A e \in Dirs : dirs'[e].logs = dirs[e].logs
      BY <1>0, <2>1, <2>2 DEF DirsOK, Unused, Dir
    <2>5. \A e \in Dirs : e # d => (Pending(e)' <=> Pending(e))
      BY <2>1, <2>2, <2>3, LoggerAssumption DEF Pending
    <2> QED
      BY <1>0, <2>3, <2>4, <2>5, DirsMove
  <1>6. ASSUME NEW s \in Services, WriteFails(s) PROVE Placed'
    <2>1. UNCHANGED <<last, ch, logs, records, datasetDir, jobs, store, failed>>
      BY <1>6 DEF WriteFails, memory, offline, service
    <2>2. \A e \in Dirs : dirs'[e].logs = dirs[e].logs
      BY <1>6 DEF WriteFails, Typed, TypeOK, Dir
    <2>3. \A e \in Dirs : Pending(e)' <=> Pending(e)
      BY <2>1 DEF Pending
    <2> QED
      BY <1>0, <2>1, <2>2, <2>3, DirsMove
  <1>7. ASSUME NEW s \in Services, FlushClear(s) PROVE Placed'
    <2>1. UNCHANGED <<last, ch, logs, records, dirs, store, failed>> /\ datasetDir' = NoDir
      BY <1>7 DEF FlushClear, memory, offline, service
    <2>2. PICK j : j.dir = loop[s].dir /\ j.pc = "call" /\ jobs' = jobs \cup {j}
      BY <1>7 DEF FlushClear
    <2>3. loop[s].dir = datasetDir
      BY <1>0, <1>7 DEF FlushClear, Alone
    <2>4. \A e \in Dirs : Pending(e)' <=> Pending(e)
      BY <2>1, <2>2, <2>3, LoggerAssumption DEF Pending
    <2> QED
      BY <1>0, <2>1, <2>4, DirsMove
  <1> QED
    BY <1>0, <1>2, <1>3, <1>4, <1>5, <1>6, <1>7, EmitPlaces, TakePlaces, TablePlaces,
       CallbackPlaces, RemovePlaces DEF Next, Handler

\* Nothing is anywhere at first.
LEMMA InitPlaces == Init => PlaceInv
  <1> SUFFICES ASSUME Init PROVE Apart /\ Settled /\ Kept
    BY DEF PlaceInv
  <1>1. Apart
    BY DEF Init, Apart, Memory, NoLogs
  <1>2. Settled
    BY DEF Init, Settled, Stored
  <1>3. Kept
    BY DEF Init, Kept
  <1> QED
    BY <1>1, <1>2, <1>3

\* No log is lost and none is stored twice, whatever writes fail, directories
\* break, callbacks fail and handlers panic, as long as no two loggers were in
\* the shared sink at once (OfflineStoreSink.Write, Flush).
THEOREM LogsAreConserved == Spec => []Conserved
  <1>1. Typed /\ PlaceInv => Conserved
    <2> SUFFICES ASSUME Typed, PlaceInv, ~overlap, NEW l \in 1..last
                 PROVE  /\ Stored(l) => StoredOnce(l)
                        /\ Waiting(l) \/ Stored(l) \/ l \in failed
                        /\ ~(Waiting(l) /\ Stored(l))
      BY DEF Conserved
    <2>1. l \in Logs
      BY LogsContain DEF Typed, TypeOK
    <2> QED
      BY <2>1, WaitingPlaces DEF PlaceInv, Settled, Kept
  <1>2. Spec => [](Typed /\ SinkInv /\ PlaceInv)
    BY InitTyped, TypedStep, InitStop, SinkStep, InitPlaces, PlaceStep, PTL DEF Spec
  <1> QED
    BY <1>1, <1>2, PTL
=============================================================================
