---------------------- MODULE OfflineWriteBatcher_proofs ----------------------
(***************************************************************************)
(* Proofs about the offline write batcher, for any number of keys, feature *)
(* views and producer threads, any batch size and interval, and any number *)
(* of frames and failures.                                                 *)
(***************************************************************************)
EXTENDS OfflineWriteBatcher, SequenceTheorems, TLAPS

\* What a thread's program counter says of its local variables.
ThreadOK ==
    \A t \in Threads :
       /\ pc[t] \in {"push", "failed"} => held[t] # <<>>
       /\ held[t] # <<>> => pc[t] \in {"push", "failed", "dead"} /\ cur[t] \in Keys
       /\ pc[t] = "drain" => cur[t] \in Keys

\* The inductive invariant.
IInv == TypeOK /\ ThreadOK /\ InflightExclusive /\ Conservation

-------------------------------------------------------------------------------
(* How the frames of a key move between the three sequences. *)

\* Enqueue: a frame appended to the buffer is appended to the whole.
LEMMA AppendMoves ==
    ASSUME NEW d \in Seq(Frame), NEW h \in Seq(Frame), NEW b \in Seq(Frame), NEW f \in Frame
    PROVE  Append(d \o h \o b, f) = d \o h \o Append(b, f)
  <1>1. d \o h \in Seq(Frame)
    BY ConcatProperties
  <1>2. <<f>> \in Seq(Frame)
    OBVIOUS
  <1>3. Append(d \o h \o b, f) = (d \o h \o b) \o <<f>>
    BY <1>1, ConcatProperties, AppendIsConcat
  <1>4. Append(b, f) = b \o <<f>>
    BY AppendIsConcat
  <1>5. ((d \o h) \o b) \o <<f>> = (d \o h) \o (b \o <<f>>)
    BY <1>1, <1>2, ConcatAssociative
  <1> QED
    BY <1>3, <1>4, <1>5

\* Drain, Restore: what is in hand comes between what is delivered and what is
\* buffered, so it can go back to the head of the buffer.
LEMMA HandToBuffer ==
    ASSUME NEW d \in Seq(Frame), NEW h \in Seq(Frame), NEW b \in Seq(Frame)
    PROVE  /\ d \o h \o b = d \o <<>> \o (h \o b)
           /\ d \o <<>> \o h = d \o h \o <<>>
           /\ d \o h \o b = (d \o h) \o <<>> \o b
  <1>1. d \o h \in Seq(Frame) /\ h \o b \in Seq(Frame)
    BY ConcatProperties
  <1>2. d \o <<>> = d /\ (d \o h) \o <<>> = d \o h
    BY <1>1, ConcatEmptySeq
  <1>3. (d \o h) \o b = d \o (h \o b)
    BY ConcatAssociative
  <1> QED
    BY <1>2, <1>3

-------------------------------------------------------------------------------
(* Type correctness *)

\* The batcher starts in a state of the inductive invariant.
LEMMA InitIInv == Init => IInv
  <1> SUFFICES ASSUME Init PROVE IInv
    OBVIOUS
  <1>1. TypeOK
    <2>1. <<>> \in Seq(Frame)
      OBVIOUS
    <2>2. pc \in [Threads -> Labels] /\ cur \in [Threads -> Keys \cup {NoKey}]
      BY DEF Init, Labels
    <2>3. age \in [Keys -> {Never} \cup (0..Interval)] /\ waited \in 0..CheckInterval
      BY ConfigAssumption DEF Init, CheckInterval
    <2>4. written \in [Keys -> [Views -> Seq(Frame)]]
      BY <2>1 DEF Init
    <2> QED
      BY <2>1, <2>2, <2>3, <2>4 DEF Init, TypeOK
  <1>2. ThreadOK
    BY DEF Init, ThreadOK
  <1>3. InflightExclusive
    BY DEF Init, InflightExclusive, Holding
  <1>4. Conservation
    BY ConcatEmptySeq, EmptySeq DEF Init, Conservation, Holding
  <1> QED
    BY <1>1, <1>2, <1>3, <1>4 DEF IInv

\* No step, of any thread, takes a variable out of its type.
LEMMA TypeStep == TypeOK /\ ThreadOK /\ [Next]_vars => TypeOK'
  <1> SUFFICES ASSUME TypeOK, ThreadOK, [Next]_vars PROVE TypeOK'
    OBVIOUS
  <1> USE ThreadsAssumption, ConfigAssumption DEF TypeOK, Labels, Threads
  <1>0. <<>> \in Seq(Frame)
    OBVIOUS
  <1>1. ASSUME NEW t \in Producers, NEW k \in Keys, Enqueue(t, k) PROVE TypeOK'
    <2>1. PICK r \in RowCounts :
            LET f == [id |-> Len(accepted[k]) + 1, rows |-> r]
            IN  /\ buffers' = [buffers EXCEPT ![k] = Append(buffers[k], f)]
                /\ accepted' = [accepted EXCEPT ![k] = Append(accepted[k], f)]
                /\ \/ Goto(t, "drain") /\ cur' = [cur EXCEPT ![t] = k]
                   \/ UNCHANGED <<pc, cur>>
      BY <1>1 DEF Enqueue
    <2> DEFINE f == [id |-> Len(accepted[k]) + 1, rows |-> r]
    <2>2. f \in Frame
      BY <1>1 DEF Enqueue, Frame
    <2>3. Append(buffers[k], f) \in Seq(Frame) /\ Append(accepted[k], f) \in Seq(Frame)
      BY <2>2, AppendProperties
    <2>4. buffers' \in [Keys -> Seq(Frame)] /\ accepted' \in [Keys -> Seq(Frame)]
      BY <2>1, <2>3
    <2>5. \/ pc' = [pc EXCEPT ![t] = "drain"] /\ cur' = [cur EXCEPT ![t] = k]
          \/ pc' = pc /\ cur' = cur
      BY <1>1 DEF Enqueue, Goto
    <2>6. pc' \in [Threads -> Labels]
      <3>1. "drain" \in Labels /\ pc \in [Threads -> Labels]
        BY DEF Labels
      <3> QED
        BY <2>5, <3>1
    <2>7. cur' \in [Threads -> Keys \cup {NoKey}]
      BY <2>5
    <2> QED
      BY <1>1, <2>4, <2>6, <2>7 DEF Enqueue
  <1>2. CASE Shutdown
    BY <1>2 DEF Shutdown, Goto, hist
  <1>3. CASE FlushAll
    BY <1>3 DEF FlushAll, FlushAllKeys, Goto, shared
  <1>4. CASE Check
    BY <1>4 DEF Check, Due, AgeOnCheck, Goto, hist
  <1>5. CASE BgExit
    BY <1>5 DEF BgExit, Goto, shared, hist
  <1>6. CASE Exit
    BY <1>6 DEF Exit, shared, hist
  <1>7. CASE Tick
    BY <1>7 DEF Tick, local, CheckInterval, Never
  <1>8. ASSUME NEW t \in Threads, NextKey(t) PROVE TypeOK'
    <2>1. CASE work[t] = {} /\ Goto(t, Home(t)) /\ cur' = [cur EXCEPT ![t] = NoKey]
               /\ waited' = (IF t = Bg THEN 0 ELSE waited) /\ UNCHANGED work
      <3>1. Home(t) \in Labels
        BY DEF Home
      <3>2. waited' \in 0..CheckInterval
        BY <2>1 DEF CheckInterval
      <3> QED
        BY <1>8, <2>1, <3>1, <3>2 DEF NextKey, Goto, hist
    <2>2. ASSUME NEW k \in work[t], work' = [work EXCEPT ![t] = @ \ {k}],
                 cur' = [cur EXCEPT ![t] = k], Goto(t, "drain"), UNCHANGED waited
          PROVE  TypeOK'
      BY <1>8, <2>2 DEF NextKey, Goto, hist
    <2> QED
      BY <1>8, <2>1, <2>2 DEF NextKey
  <1>9. ASSUME NEW t \in Threads, Drain(t) PROVE TypeOK'
    <2>1. cur[t] \in Keys
      BY <1>9 DEF Drain, ThreadOK
    <2>2. CASE BusyOrEmpty(cur[t])
      BY <1>9, <2>2 DEF Drain, NothingDrained, Goto
    <2>3. CASE ~BusyOrEmpty(cur[t])
      <3>1. /\ held' = [held EXCEPT ![t] = buffers[cur[t]]]
            /\ buffers' = [buffers EXCEPT ![cur[t]] = <<>>]
            /\ inflight' = inflight \cup {cur[t]}
            /\ todo' = [todo EXCEPT ![t] = Views]
            /\ since' = [since EXCEPT ![cur[t]] = 0]
            /\ pc' = [pc EXCEPT ![t] = "push"]
        BY <1>9, <2>3 DEF Drain, Goto
      <3>2. buffers' \in [Keys -> Seq(Frame)] /\ held' \in [Threads -> Seq(Frame)]
        BY <1>0, <2>1, <3>1
      <3>3. inflight' \subseteq Keys /\ since' \in [Keys -> Nat]
        BY <2>1, <3>1
      <3>4. pc' \in [Threads -> Labels] /\ todo' \in [Threads -> SUBSET Views]
        BY <3>1
      <3> QED
        BY <1>9, <3>2, <3>3, <3>4 DEF Drain
    <2> QED
      BY <2>2, <2>3
  <1>10. ASSUME NEW t \in Threads, ConcatError(t) PROVE TypeOK'
    BY <1>0, <1>10 DEF ConcatError, Goto, shared
  <1>11. ASSUME NEW t \in Threads, PushView(t) PROVE TypeOK'
    <2>1. PICK v \in todo[t] :
            /\ written' = [written EXCEPT ![cur[t]][v] = @ \o held[t]]
            /\ todo' = [todo EXCEPT ![t] = ViewsLeft(t, v)]
      BY <1>11 DEF PushView
    <2>2. cur[t] \in Keys /\ v \in Views
      BY <1>11, <2>1 DEF PushView, ThreadOK
    <2>3. written[cur[t]][v] \o held[t] \in Seq(Frame)
      BY <2>2, ConcatProperties
    <2> QED
      BY <1>11, <2>1, <2>2, <2>3 DEF PushView, ViewsLeft, shared
  <1>12. ASSUME NEW t \in Threads, PushError(t) PROVE TypeOK'
    BY <1>12 DEF PushError, Goto, shared
  <1>13. ASSUME NEW t \in Threads, Restore(t) PROVE TypeOK'
    <2>1. cur[t] \in Keys
      BY <1>13 DEF Restore, ThreadOK
    <2>2. held[t] \o buffers[cur[t]] \in Seq(Frame)
      BY <2>1, ConcatProperties
    <2> QED
      BY <1>0, <1>13, <2>1, <2>2 DEF Restore, PutBack, Release, Goto, hist
  <1>14. ASSUME NEW t \in Threads, Complete(t) PROVE TypeOK'
    <2>1. cur[t] \in Keys
      BY <1>14 DEF Complete, ThreadOK
    <2>2. delivered[cur[t]] \o held[t] \in Seq(Frame)
      BY <2>1, ConcatProperties
    <2> QED
      BY <1>0, <1>14, <2>1, <2>2 DEF Complete, AfterFlush, Release, Goto
  <1>15. CASE UNCHANGED vars
    BY <1>15 DEF vars, shared, local, hist
  <1> QED
    BY <1>1, <1>2, <1>3, <1>4, <1>5, <1>6, <1>7, <1>8, <1>9, <1>10, <1>11,
       <1>12, <1>13, <1>14, <1>15 DEF Next, Flush

-------------------------------------------------------------------------------
(* Threads and the keys they hold *)

\* A thread holds frames exactly between its drain and the end of its flush.
LEMMA ThreadStep == TypeOK /\ ThreadOK /\ [Next]_vars => ThreadOK'
  <1> SUFFICES ASSUME TypeOK, ThreadOK, [Next]_vars PROVE ThreadOK'
    OBVIOUS
  <1> USE ThreadsAssumption DEF TypeOK, ThreadOK, Threads
  <1>1. ASSUME NEW t \in Producers, NEW k \in Keys, Enqueue(t, k) PROVE ThreadOK'
    <2>1. \/ pc' = [pc EXCEPT ![t] = "drain"] /\ cur' = [cur EXCEPT ![t] = k]
          \/ UNCHANGED <<pc, cur>>
      BY <1>1 DEF Enqueue, Goto
    <2>2. pc[t] = "idle" /\ held' = held
      BY <1>1 DEF Enqueue
    <2> QED
      BY <2>1, <2>2
  <1>2. CASE Shutdown
    BY <1>2 DEF Shutdown, Goto
  <1>3. CASE FlushAll
    BY <1>3 DEF FlushAll, Goto
  <1>4. CASE Check
    BY <1>4 DEF Check, Goto
  <1>5. CASE BgExit
    BY <1>5 DEF BgExit, Goto
  <1>6. CASE Exit
    BY <1>6 DEF Exit
  <1>7. CASE Tick
    BY <1>7 DEF Tick, local
  <1>8. ASSUME NEW t \in Threads, NextKey(t) PROVE ThreadOK'
    <2>1. pc[t] = "next" /\ held' = held
      BY <1>8 DEF NextKey
    <2>2. CASE pc' = [pc EXCEPT ![t] = Home(t)] /\ cur' = [cur EXCEPT ![t] = NoKey]
      BY <2>1, <2>2 DEF Home
    <2>3. ASSUME NEW k \in work[t], cur' = [cur EXCEPT ![t] = k],
                 pc' = [pc EXCEPT ![t] = "drain"]
          PROVE  ThreadOK'
      BY <2>1, <2>3
    <2> QED
      BY <1>8, <2>2, <2>3 DEF NextKey, Goto
  <1>9. ASSUME NEW t \in Threads, Drain(t) PROVE ThreadOK'
    BY <1>9 DEF Drain, BusyOrEmpty, NothingDrained, Goto
  <1>10. ASSUME NEW t \in Threads, ConcatError(t) PROVE ThreadOK'
    BY <1>10 DEF ConcatError, Goto
  <1>11. ASSUME NEW t \in Threads, PushView(t) PROVE ThreadOK'
    BY <1>11 DEF PushView
  <1>12. ASSUME NEW t \in Threads, PushError(t) PROVE ThreadOK'
    BY <1>12 DEF PushError, Goto
  <1>13. ASSUME NEW t \in Threads, Restore(t) PROVE ThreadOK'
    BY <1>13 DEF Restore, Goto
  <1>14. ASSUME NEW t \in Threads, Complete(t) PROVE ThreadOK'
    BY <1>14 DEF Complete, AfterFlush, Goto
  <1>15. CASE UNCHANGED vars
    BY <1>15 DEF vars, local
  <1> QED
    BY <1>1, <1>2, <1>3, <1>4, <1>5, <1>6, <1>7, <1>8, <1>9, <1>10, <1>11,
       <1>12, <1>13, <1>14, <1>15 DEF Next, Flush

\* The steps outside a flush, and the writes of one, leave every thread holding
\* what it held.
QuietStep ==
    /\ UNCHANGED <<inflight, held, delivered, lost>>
    /\ \A t \in Threads : held[t] # <<>> => cur'[t] = cur[t]
    /\ \/ UNCHANGED <<buffers, accepted>>
       \/ \E k \in Keys, f \in Frame :
            /\ buffers' = [buffers EXCEPT ![k] = Append(buffers[k], f)]
            /\ accepted' = [accepted EXCEPT ![k] = Append(accepted[k], f)]

\* Only a drain of a free key and the three ways a flush ends change who holds
\* what; every other step is quiet.
LEMMA NextCases ==
    ASSUME TypeOK, ThreadOK, [Next]_vars
    PROVE  \/ QuietStep
           \/ \E t \in Threads : Drain(t) /\ ~BusyOrEmpty(cur[t])
           \/ \E t \in Threads : ConcatError(t) \/ Restore(t) \/ Complete(t)
  <1> USE ThreadsAssumption DEF TypeOK, ThreadOK, Threads
  <1>1. ASSUME NEW t \in Producers, NEW k \in Keys, Enqueue(t, k) PROVE QuietStep
    <2>1. PICK r \in RowCounts :
            LET f == [id |-> Len(accepted[k]) + 1, rows |-> r]
            IN  /\ buffers' = [buffers EXCEPT ![k] = Append(buffers[k], f)]
                /\ accepted' = [accepted EXCEPT ![k] = Append(accepted[k], f)]
                /\ cur' = [cur EXCEPT ![t] = k] \/ UNCHANGED cur
      BY <1>1 DEF Enqueue
    <2> DEFINE f == [id |-> Len(accepted[k]) + 1, rows |-> r]
    <2>2. f \in Frame
      BY <1>1, ConfigAssumption DEF Enqueue, Frame
    <2>3. \A u \in Threads : held[u] # <<>> => cur'[u] = cur[u]
      BY <1>1, <2>1 DEF Enqueue
    <2> QED
      BY <1>1, <2>1, <2>2, <2>3 DEF Enqueue, QuietStep
  <1>2. Shutdown \/ BgExit \/ Exit => QuietStep
    BY DEF Shutdown, BgExit, Exit, shared, hist, QuietStep
  <1>3. FlushAll \/ Check \/ Tick => QuietStep
    BY DEF FlushAll, Check, Tick, shared, local, hist, QuietStep
  <1>4. ASSUME NEW t \in Threads, NextKey(t) PROVE QuietStep
    <2>1. \A u \in Threads : held[u] # <<>> => cur'[u] = cur[u]
      BY <1>4 DEF NextKey
    <2> QED
      BY <1>4, <2>1 DEF NextKey, hist, QuietStep
  <1>5. ASSUME NEW t \in Threads, PushView(t) \/ PushError(t) PROVE QuietStep
    BY <1>5 DEF PushView, PushError, shared, QuietStep
  <1>6. ASSUME NEW t \in Threads, Drain(t), BusyOrEmpty(cur[t]) PROVE QuietStep
    BY <1>6 DEF Drain, QuietStep
  <1>7. UNCHANGED vars => QuietStep
    BY DEF vars, shared, local, hist, QuietStep
  <1> QED
    BY <1>1, <1>2, <1>3, <1>4, <1>5, <1>6, <1>7 DEF Next, Flush

\* Quiet steps change nothing in who holds which key.
LEMMA QuietHolding ==
    ASSUME QuietStep
    PROVE  \A t \in Threads, k \in Keys : Holding(t, k)' <=> Holding(t, k)
  BY DEF QuietStep, Holding

\* What the drain of a free key does.
LEMMA DrainTakes ==
    ASSUME TypeOK, ThreadOK, NEW t \in Threads, Drain(t), ~BusyOrEmpty(cur[t])
    PROVE  /\ cur[t] \in Keys /\ cur[t] \notin inflight /\ held[t] = <<>>
           /\ buffers[cur[t]] # <<>>
           /\ held' = [held EXCEPT ![t] = buffers[cur[t]]]
           /\ buffers' = [buffers EXCEPT ![cur[t]] = <<>>]
           /\ inflight' = inflight \cup {cur[t]}
           /\ UNCHANGED <<cur, accepted, delivered, lost>>
  <1>1. cur[t] \in Keys /\ held[t] = <<>>
    BY DEF Drain, ThreadOK
  <1> QED
    BY <1>1 DEF Drain, BusyOrEmpty

\* A thread that ends its flush was holding its key.
LEMMA EndsHolding ==
    ASSUME TypeOK, ThreadOK, NEW t \in Threads,
           ConcatError(t) \/ Restore(t) \/ Complete(t)
    PROVE  /\ cur[t] \in Keys /\ Holding(t, cur[t]) /\ UNCHANGED <<cur, accepted>>
           /\ held' = [held EXCEPT ![t] = <<>>]
           /\ \A u \in Threads, k \in Keys : Holding(u, k)' <=> Holding(u, k) /\ u # t
  <1>1. held[t] # <<>> /\ cur[t] \in Keys
    BY DEF ConcatError, Restore, Complete, ThreadOK
  <1>2. held' = [held EXCEPT ![t] = <<>>] /\ UNCHANGED <<cur, accepted>>
    BY DEF ConcatError, Restore, Complete, hist
  <1>3. \A u \in Threads, k \in Keys : Holding(u, k)' <=> Holding(u, k) /\ u # t
    BY <1>2 DEF Holding, TypeOK
  <1> QED
    BY <1>1, <1>2, <1>3 DEF Holding

\* Every step keeps the flushes of a key exclusive.
LEMMA ExclusiveStep == IInv /\ [Next]_vars => InflightExclusive'
  <1> SUFFICES ASSUME IInv, [Next]_vars PROVE InflightExclusive'
    OBVIOUS
  <1>0. TypeOK /\ ThreadOK /\ InflightExclusive
    BY DEF IInv
  <1>1. CASE QuietStep
    BY <1>0, <1>1, QuietHolding DEF InflightExclusive, QuietStep
  <1>2. ASSUME NEW t \in Threads, Drain(t), ~BusyOrEmpty(cur[t])
        PROVE  InflightExclusive'
    <2>1. /\ cur[t] \in Keys /\ cur[t] \notin inflight /\ held[t] = <<>>
          /\ buffers[cur[t]] # <<>>
          /\ held' = [held EXCEPT ![t] = buffers[cur[t]]]
          /\ inflight' = inflight \cup {cur[t]}
          /\ UNCHANGED <<cur, lost>>
      BY <1>0, <1>2, DrainTakes
    <2>2. \A u \in Threads, k \in Keys :
             Holding(u, k)' <=> Holding(u, k) \/ (u = t /\ k = cur[t])
      BY <1>0, <2>1 DEF Holding, TypeOK
    <2>3. lost[cur[t]] = <<>> /\ \A u \in Threads : ~Holding(u, cur[t])
      BY <1>0, <2>1 DEF InflightExclusive
    <2> QED
      BY <1>0, <2>1, <2>2, <2>3 DEF InflightExclusive
  <1>3. ASSUME NEW t \in Threads, ConcatError(t) PROVE InflightExclusive'
    <2>1. /\ cur[t] \in Keys /\ Holding(t, cur[t]) /\ UNCHANGED cur
          /\ \A u \in Threads, k \in Keys : Holding(u, k)' <=> Holding(u, k) /\ u # t
      BY <1>0, <1>3, EndsHolding
    <2>2. lost' = [lost EXCEPT ![cur[t]] = held[t]] /\ inflight' = inflight
      BY <1>3 DEF ConcatError, shared
    <2>3. held[t] # <<>> /\ \A u \in Threads : Holding(u, cur[t]) => u = t
      BY <1>0, <2>1 DEF InflightExclusive, Holding
    <2>4. \A k \in Keys : Holding(t, k) => k = cur[t]
      BY DEF Holding
    <2> QED
      BY <1>0, <2>1, <2>2, <2>3, <2>4 DEF InflightExclusive, TypeOK
  <1>4. ASSUME NEW t \in Threads, Restore(t) \/ Complete(t) PROVE InflightExclusive'
    <2>1. /\ cur[t] \in Keys /\ Holding(t, cur[t]) /\ UNCHANGED cur
          /\ \A u \in Threads, k \in Keys : Holding(u, k)' <=> Holding(u, k) /\ u # t
      BY <1>0, <1>4, EndsHolding
    <2>2. lost' = lost /\ inflight' = inflight \ {cur[t]}
      BY <1>4 DEF Restore, Complete, Release, hist
    <2>3. lost[cur[t]] = <<>> /\ \A u \in Threads : Holding(u, cur[t]) => u = t
      BY <1>0, <2>1 DEF InflightExclusive
    <2>4. \A k \in Keys : Holding(t, k) => k = cur[t]
      BY DEF Holding
    <2> QED
      BY <1>0, <2>1, <2>2, <2>3, <2>4 DEF InflightExclusive
  <1> QED
    BY <1>0, <1>1, <1>2, <1>3, <1>4, NextCases

-------------------------------------------------------------------------------
(* Conservation of frames *)

\* Every step moves frames of a key only between neighbouring places.
LEMMA ConservationStep == IInv /\ [Next]_vars => Conservation'
  <1> SUFFICES ASSUME IInv, [Next]_vars, NEW k \in Keys
               PROVE  /\ \A u \in Threads : Holding(u, k)' =>
                            accepted'[k] = delivered'[k] \o held'[u] \o buffers'[k]
                      /\ (\A u \in Threads : ~Holding(u, k)') =>
                            accepted'[k] = delivered'[k] \o lost'[k] \o buffers'[k]
    BY DEF Conservation
  <1>0. TypeOK /\ ThreadOK /\ InflightExclusive /\ Conservation
    BY DEF IInv
  <1> DEFINE Goal == /\ \A u \in Threads : Holding(u, k)' =>
                           accepted'[k] = delivered'[k] \o held'[u] \o buffers'[k]
                     /\ (\A u \in Threads : ~Holding(u, k)') =>
                           accepted'[k] = delivered'[k] \o lost'[k] \o buffers'[k]
  <1>1. CASE QuietStep
    <2>1. \A u \in Threads : Holding(u, k)' <=> Holding(u, k)
      BY <1>1, QuietHolding
    <2>2. UNCHANGED <<held, delivered, lost>>
      BY <1>1 DEF QuietStep
    <2>3. CASE buffers'[k] = buffers[k] /\ accepted'[k] = accepted[k]
      BY <1>0, <2>1, <2>2, <2>3 DEF Conservation
    <2>4. ASSUME NEW f \in Frame, buffers'[k] = Append(buffers[k], f),
                 accepted'[k] = Append(accepted[k], f)
          PROVE  Goal
      <3>1. /\ delivered[k] \in Seq(Frame) /\ lost[k] \in Seq(Frame)
            /\ buffers[k] \in Seq(Frame) /\ \A u \in Threads : held[u] \in Seq(Frame)
        BY <1>0 DEF TypeOK
      <3>2. ASSUME NEW u \in Threads, Holding(u, k)'
            PROVE  accepted'[k] = delivered'[k] \o held'[u] \o buffers'[k]
        <4>1. accepted[k] = delivered[k] \o held[u] \o buffers[k]
          BY <1>0, <2>1, <3>2 DEF Conservation
        <4>2. held[u] \in Seq(Frame)
          BY <3>1
        <4>3. Append(delivered[k] \o held[u] \o buffers[k], f)
                = delivered[k] \o held[u] \o Append(buffers[k], f)
          BY <3>1, <4>2, AppendMoves, Zenon
        <4> QED
          BY <2>2, <2>4, <4>1, <4>3
      <3>3. ASSUME \A u \in Threads : ~Holding(u, k)'
            PROVE  accepted'[k] = delivered'[k] \o lost'[k] \o buffers'[k]
        <4>1. accepted[k] = delivered[k] \o lost[k] \o buffers[k]
          BY <1>0, <2>1, <3>3 DEF Conservation
        <4>2. lost[k] \in Seq(Frame)
          BY <3>1
        <4>3. Append(delivered[k] \o lost[k] \o buffers[k], f)
                = delivered[k] \o lost[k] \o Append(buffers[k], f)
          BY <3>1, <4>2, AppendMoves, Zenon
        <4> QED
          BY <2>2, <2>4, <4>1, <4>3
      <3> QED
        BY <3>2, <3>3
    <2> QED
      BY <1>0, <1>1, <2>3, <2>4 DEF QuietStep, TypeOK
  <1>2. ASSUME NEW t \in Threads, Drain(t), ~BusyOrEmpty(cur[t]) PROVE Goal
    <2>1. /\ cur[t] \in Keys /\ cur[t] \notin inflight /\ held[t] = <<>>
          /\ buffers[cur[t]] # <<>>
          /\ held' = [held EXCEPT ![t] = buffers[cur[t]]]
          /\ buffers' = [buffers EXCEPT ![cur[t]] = <<>>]
          /\ UNCHANGED <<cur, accepted, delivered, lost>>
      BY <1>0, <1>2, DrainTakes
    <2>2. CASE k = cur[t]
      <3>1. \A u \in Threads : ~Holding(u, k) /\ lost[k] = <<>>
        BY <1>0, <2>1, <2>2 DEF InflightExclusive
      <3>2. \A u \in Threads : Holding(u, k)' <=> u = t
        BY <1>0, <2>1, <2>2, <3>1 DEF Holding, TypeOK
      <3>3. accepted[k] = delivered[k] \o <<>> \o buffers[k]
        BY <1>0, <3>1 DEF Conservation
      <3>4. held'[t] = buffers[k] /\ buffers'[k] = <<>>
        BY <1>0, <2>1, <2>2 DEF TypeOK
      <3>5. delivered[k] \in Seq(Frame) /\ buffers[k] \in Seq(Frame)
        BY <1>0 DEF TypeOK
      <3>6. accepted[k] = delivered[k] \o buffers[k] \o <<>>
        BY <3>3, <3>5, HandToBuffer
      <3>7. accepted'[k] = delivered'[k] \o held'[t] \o buffers'[k]
        BY <2>1, <3>4, <3>6
      <3> QED
        BY <3>2, <3>7
    <2>3. CASE k # cur[t]
      <3>1. \A u \in Threads : Holding(u, k)' <=> Holding(u, k)
        BY <1>0, <2>1, <2>3 DEF Holding, TypeOK
      <3>2. \A u \in Threads : Holding(u, k) => held'[u] = held[u]
        BY <1>0, <2>1, <2>3 DEF Holding, TypeOK
      <3> QED
        BY <1>0, <2>1, <2>3, <3>1, <3>2 DEF Conservation, TypeOK
    <2> QED
      BY <2>2, <2>3
  <1>3. ASSUME NEW t \in Threads, ConcatError(t) \/ Restore(t) \/ Complete(t) PROVE Goal
    <2>1. /\ cur[t] \in Keys /\ Holding(t, cur[t]) /\ UNCHANGED <<cur, accepted>>
          /\ held' = [held EXCEPT ![t] = <<>>]
          /\ \A u \in Threads : Holding(u, k)' <=> Holding(u, k) /\ u # t
      BY <1>0, <1>3, EndsHolding
    <2>2. CASE k = cur[t]
      <3>1. accepted[k] = delivered[k] \o held[t] \o buffers[k] /\ lost[k] = <<>>
        BY <1>0, <2>1, <2>2 DEF Conservation, InflightExclusive
      <3>2. \A u \in Threads : ~Holding(u, k)'
        BY <1>0, <2>1, <2>2 DEF InflightExclusive
      <3>3. /\ delivered[k] \in Seq(Frame) /\ held[t] \in Seq(Frame)
            /\ buffers[k] \in Seq(Frame)
        BY <1>0 DEF TypeOK
      <3>4. CASE ConcatError(t)
        <4>1. lost'[k] = held[t] /\ delivered' = delivered /\ buffers' = buffers
          BY <1>0, <2>2, <3>4 DEF ConcatError, shared, TypeOK
        <4> QED
          BY <2>1, <3>1, <3>2, <4>1
      <3>5. CASE Restore(t)
        <4>1. /\ buffers'[k] = held[t] \o buffers[k]
              /\ delivered' = delivered /\ lost' = lost
          BY <1>0, <2>2, <3>5 DEF Restore, PutBack, hist, TypeOK
        <4>2. accepted[k] = delivered[k] \o <<>> \o (held[t] \o buffers[k])
          BY <3>1, <3>3, HandToBuffer
        <4> QED
          BY <2>1, <3>1, <3>2, <4>1, <4>2
      <3>6. CASE Complete(t)
        <4>1. /\ delivered'[k] = delivered[k] \o held[t]
              /\ buffers' = buffers /\ lost' = lost
          BY <1>0, <2>2, <3>6 DEF Complete, TypeOK
        <4>2. accepted[k] = (delivered[k] \o held[t]) \o <<>> \o buffers[k]
          BY <3>1, <3>3, HandToBuffer
        <4> QED
          BY <2>1, <3>1, <3>2, <4>1, <4>2
      <3> QED
        BY <1>3, <3>4, <3>5, <3>6
    <2>3. CASE k # cur[t]
      <3>1. ~Holding(t, k)
        BY <2>3 DEF Holding
      <3>2. \A u \in Threads : Holding(u, k) => held'[u] = held[u]
        BY <1>0, <2>1, <3>1 DEF TypeOK
      <3>3. buffers'[k] = buffers[k] /\ delivered'[k] = delivered[k] /\ lost'[k] = lost[k]
        BY <1>0, <1>3, <2>1, <2>3 DEF ConcatError, Restore, Complete, shared, hist, TypeOK
      <3> QED
        BY <1>0, <2>1, <3>1, <3>2, <3>3 DEF Conservation
    <2> QED
      BY <2>2, <2>3
  <1> QED
    BY <1>0, <1>1, <1>2, <1>3, NextCases

-------------------------------------------------------------------------------
(* The theorems *)

\* The inductive invariant holds throughout.
THEOREM InductiveInvariant == Spec => []IInv
  <1>1. IInv /\ [Next]_vars => IInv'
    BY TypeStep, ThreadStep, ExclusiveStep, ConservationStep DEF IInv
  <1> QED
    BY InitIInv, <1>1, PTL DEF Spec

\* Every variable of the batcher keeps its type.
THEOREM TypeCorrect == Spec => []TypeOK
  <1>1. IInv => TypeOK
    BY DEF IInv
  <1> QED
    BY InductiveInvariant, <1>1, PTL

\* At any time at most one thread flushes a key, and a key is in _inflight only
\* while a thread flushes it or after pd.concat failed on it.
THEOREM FlushesAreExclusive == Spec => []InflightExclusive
  <1>1. IInv => InflightExclusive
    BY DEF IInv
  <1> QED
    BY InductiveInvariant, <1>1, PTL

\* Whatever the interleaving of enqueue, size and time flushes, failures and
\* shutdown, the frames accepted for a key are those delivered, then those in
\* hand, then those buffered, in that order.
THEOREM FramesAreConserved == Spec => []Conservation
  <1>1. IInv => Conservation
    BY DEF IInv
  <1> QED
    BY InductiveInvariant, <1>1, PTL

-------------------------------------------------------------------------------
(* Refinement *)

\* A batch that completes extends what was delivered along what was accepted.
LEMMA PrefixGrows ==
    ASSUME NEW d \in Seq(Frame), NEW h \in Seq(Frame), NEW b \in Seq(Frame), h # <<>>
    PROVE  /\ Len(d \o h) \in (Len(d) + 1) .. Len(d \o h \o b)
           /\ d \o h = SubSeq(d \o h \o b, 1, Len(d \o h))
  <1>1. d \o h \in Seq(Frame) /\ Len(d \o h) = Len(d) + Len(h)
    BY ConcatProperties
  <1>2. Len(d \o h \o b) = Len(d \o h) + Len(b)
    BY <1>1, ConcatProperties
  <1>3. Len(h) \in Nat \ {0} /\ Len(d) \in Nat /\ Len(b) \in Nat
    BY LenProperties, EmptySeq
  <1>4. SubSeq((d \o h) \o b, 1, Len(d \o h)) = SubSeq(d \o h, 1, Len(d \o h))
    <2>1. 1 \in 1 .. Len(d \o h) /\ Len(d \o h) \in 1 .. Len(d \o h)
      BY <1>1, <1>3
    <2> QED
      BY <1>1, <2>1, SubSeqOfConcat1
  <1>5. SubSeq(d \o h, 1, Len(d \o h)) = d \o h
    BY <1>1, SubSeqFull
  <1> QED
    BY <1>1, <1>2, <1>3, <1>4, <1>5

\* Per key, frames reach the offline store in the order of acceptance, in
\* batches, none skipped and none delivered twice.
THEOREM BatcherImplementsDelivery == Spec => ImplementsDelivery
  <1>1. Init => Delivery!Init
    BY DEF Init, Delivery!Init
  <1>2. ASSUME IInv, [Next]_vars PROVE [Delivery!Next]_(Delivery!vars)
    <2>0. TypeOK /\ ThreadOK /\ InflightExclusive /\ Conservation
      BY <1>2 DEF IInv
    <2>1. CASE QuietStep
      BY <2>1 DEF QuietStep, Delivery!Next, Delivery!Accept, Delivery!vars
    <2>2. ASSUME NEW t \in Threads, Drain(t) PROVE UNCHANGED Delivery!vars
      BY <2>2 DEF Drain, Delivery!vars
    <2>3. ASSUME NEW t \in Threads, ConcatError(t) \/ Restore(t)
          PROVE  UNCHANGED Delivery!vars
      BY <2>3 DEF ConcatError, Restore, hist, Delivery!vars
    <2>4. ASSUME NEW t \in Threads, Complete(t) PROVE Delivery!Next
      <3>1. /\ cur[t] \in Keys /\ Holding(t, cur[t]) /\ UNCHANGED accepted
            /\ held[t] # <<>>
        BY <2>0, <2>4, EndsHolding DEF Holding
      <3> DEFINE k == cur[t]
                 d == delivered[k]
                 n == Len(d \o held[t])
      <3>2. accepted[k] = d \o held[t] \o buffers[k]
        BY <2>0, <3>1 DEF Conservation
      <3>3. d \in Seq(Frame) /\ held[t] \in Seq(Frame) /\ buffers[k] \in Seq(Frame)
        BY <2>0, <3>1 DEF TypeOK
      <3>4. /\ n \in (Len(d) + 1) .. Len(d \o held[t] \o buffers[k])
            /\ d \o held[t] = SubSeq(d \o held[t] \o buffers[k], 1, n)
        BY <3>1, <3>3, PrefixGrows, Zenon
      <3>5. delivered' = [delivered EXCEPT ![k] = SubSeq(accepted[k], 1, n)]
        BY <2>4, <3>2, <3>4 DEF Complete
      <3>6. n \in (Len(delivered[k]) + 1) .. Len(accepted[k])
        BY <3>2, <3>4
      <3> HIDE DEF n
      <3> QED
        BY <3>1, <3>5, <3>6 DEF Delivery!Next, Delivery!Deliver
    <2> QED
      BY <1>2, <2>0, <2>1, <2>2, <2>3, <2>4, NextCases
  <1> QED
    BY InductiveInvariant, <1>1, <1>2, PTL DEF Spec, ImplementsDelivery, Delivery!Spec
================================================================================
