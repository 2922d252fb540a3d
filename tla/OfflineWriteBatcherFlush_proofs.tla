-------------------- MODULE OfflineWriteBatcherFlush_proofs --------------------
(***************************************************************************)
(* Proofs about what the batcher's flushes achieve: the order in which the *)
(* batch sources see frames, that no full buffer is forgotten, that        *)
(* shutdown delivers what was accepted, and how long a frame may wait.     *)
(***************************************************************************)
EXTENDS OfflineWriteBatcher_proofs

-------------------------------------------------------------------------------
(* What the batch sources received *)

\* A thread in the middle of its push has written all it holds to the feature
\* views it is done with.
PushedOK ==
    \A t \in Threads : pc[t] = "push" =>
       \A v \in Views \ todo[t] : ToSet(held[t]) \subseteq ToSet(written[cur[t]][v])

\* Frames are numbered in the order enqueue accepted them.
Numbered == \A k \in Keys : \A i \in 1..Len(accepted[k]) : accepted[k][i].id = i

\* The inductive invariant for the order of writes.
OrderInv == IInv /\ PushedOK /\ AllViewsWritten /\ Numbered /\ ViewOrder

\* A batch source that receives a batch has what it had and the batch.
LEMMA ToSetConcat ==
    ASSUME NEW s \in Seq(Frame), NEW u \in Seq(Frame)
    PROVE  ToSet(s \o u) = ToSet(s) \cup ToSet(u)
  <1>1. Range(s \o u) = Range(s) \cup Range(u)
    BY RangeConcatenation
  <1> QED
    BY <1>1 DEF Range, ToSet

\* A thread that pushes after a step has just drained, has just written one
\* feature view, or was pushing the same frames before.
LEMMA PushingThread ==
    ASSUME TypeOK, ThreadOK, [Next]_vars, NEW u \in Threads, pc'[u] = "push"
    PROVE  \/ todo'[u] = Views
           \/ PushView(u)
           \/ /\ pc[u] = "push" /\ held'[u] = held[u]
              /\ cur'[u] = cur[u] /\ todo'[u] = todo[u]
  <1> DEFINE Same == /\ pc[u] = "push" /\ held'[u] = held[u]
                     /\ cur'[u] = cur[u] /\ todo'[u] = todo[u]
  <1> USE ThreadsAssumption DEF TypeOK, Threads
  <1>1. ASSUME NEW t \in Producers, NEW k \in Keys, Enqueue(t, k) PROVE Same
    <2>1. \/ pc' = [pc EXCEPT ![t] = "drain"] /\ cur' = [cur EXCEPT ![t] = k]
          \/ UNCHANGED <<pc, cur>>
      BY <1>1 DEF Enqueue, Goto
    <2>2. UNCHANGED <<held, todo>>
      BY <1>1 DEF Enqueue
    <2> QED
      BY <2>1, <2>2
  <1>2. Shutdown \/ FlushAll \/ Check \/ BgExit \/ Exit \/ Tick => Same
    BY DEF Shutdown, FlushAll, Check, BgExit, Exit, Tick, Goto, local
  <1>3. ASSUME NEW t \in Threads, NextKey(t) PROVE Same
    <2>1. /\ UNCHANGED <<held, todo>>
          /\ \E l \in {Home(t), "drain"}, c \in Keys \cup {NoKey} :
                pc' = [pc EXCEPT ![t] = l] /\ cur' = [cur EXCEPT ![t] = c]
      BY <1>3 DEF NextKey, Goto
    <2>2. Home(t) # "push"
      BY DEF Home
    <2> QED
      BY <2>1, <2>2
  <1>4. ASSUME NEW t \in Threads, Drain(t) PROVE todo'[u] = Views \/ Same
    BY <1>4 DEF Drain, NothingDrained, Goto
  <1>5. ASSUME NEW t \in Threads, ConcatError(t) \/ PushError(t) PROVE Same
    BY <1>5 DEF ConcatError, PushError, Goto
  <1>6. ASSUME NEW t \in Threads, Restore(t) \/ Complete(t) PROVE Same
    BY <1>6 DEF Restore, Complete, AfterFlush, Goto
  <1>7. ASSUME NEW t \in Threads, PushView(t) PROVE PushView(u) \/ Same
    BY <1>7 DEF PushView
  <1>8. UNCHANGED vars => Same
    BY DEF vars, local
  <1> QED
    BY <1>1, <1>2, <1>3, <1>4, <1>5, <1>6, <1>7, <1>8 DEF Next, Flush

\* What the write of one feature view does: its batch source receives all the
\* thread holds, the other batch sources receive nothing.
LEMMA PushViewWrites ==
    ASSUME TypeOK, ThreadOK, NEW t \in Threads, PushView(t)
    PROVE  /\ pc[t] = "push" /\ cur[t] \in Keys /\ Holding(t, cur[t])
           /\ UNCHANGED <<pc, cur, held, accepted, delivered>>
           /\ \E v \in Views :
                /\ todo' = [todo EXCEPT ![t] = @ \ {v}]
                /\ written'[cur[t]][v] = written[cur[t]][v] \o held[t]
                /\ \A k \in Keys, w \in Views :
                      k # cur[t] \/ w # v => written'[k][w] = written[k][w]
  <1>1. pc[t] = "push" /\ cur[t] \in Keys /\ Holding(t, cur[t])
    BY DEF PushView, ThreadOK, Holding
  <1>2. PICK v \in todo[t] : /\ written' = [written EXCEPT ![cur[t]][v] = @ \o held[t]]
                             /\ todo' = [todo EXCEPT ![t] = @ \ {v}]
    BY DEF PushView, ViewsLeft
  <1>3. v \in Views
    BY DEF TypeOK
  <1>4. \A k \in Keys : written[k] \in [Views -> Seq(Frame)]
    BY DEF TypeOK
  <1>5. written'[cur[t]][v] = written[cur[t]][v] \o held[t]
    BY <1>1, <1>2, <1>3, <1>4 DEF TypeOK
  <1>6. \A k \in Keys, w \in Views : k # cur[t] \/ w # v => written'[k][w] = written[k][w]
    BY <1>1, <1>2, <1>3, <1>4 DEF TypeOK
  <1> QED
    BY <1>1, <1>2, <1>3, <1>5, <1>6 DEF PushView

\* Only PushView writes.
LEMMA OthersWriteNothing ==
    ASSUME [Next]_vars, \A t \in Threads : ~PushView(t)
    PROVE  UNCHANGED written
  <1>1. \A t \in Producers, k \in Keys : Enqueue(t, k) => UNCHANGED written
    BY DEF Enqueue
  <1>2. Shutdown \/ FlushAll \/ Check \/ BgExit \/ Exit \/ Tick => UNCHANGED written
    BY DEF Shutdown, FlushAll, Check, BgExit, Exit, Tick, hist
  <1>3. \A t \in Threads : NextKey(t) \/ Drain(t) \/ ConcatError(t) => UNCHANGED written
    BY DEF NextKey, Drain, ConcatError, hist
  <1>4. \A t \in Threads : PushError(t) \/ Restore(t) \/ Complete(t) => UNCHANGED written
    BY DEF PushError, Restore, Complete, hist
  <1> QED
    BY <1>1, <1>2, <1>3, <1>4 DEF Next, Flush, vars, hist

\* A batch source never loses a frame.
LEMMA WrittenGrows ==
    ASSUME TypeOK, ThreadOK, [Next]_vars, NEW k \in Keys, NEW v \in Views
    PROVE  ToSet(written[k][v]) \subseteq ToSet(written'[k][v])
  <1>1. ASSUME NEW t \in Threads, PushView(t)
        PROVE  ToSet(written[k][v]) \subseteq ToSet(written'[k][v])
    <2>1. \/ written'[k][v] = written[k][v]
          \/ written'[k][v] = written[k][v] \o held[t]
      BY <1>1, PushViewWrites
    <2>2. written[k][v] \in Seq(Frame) /\ held[t] \in Seq(Frame)
      BY DEF TypeOK
    <2> QED
      BY <2>1, <2>2, ToSetConcat
  <1> QED
    BY <1>1, OthersWriteNothing

\* A push that is done with a feature view has written the whole batch to it.
LEMMA PushedStep == IInv /\ PushedOK /\ [Next]_vars => PushedOK'
  <1> SUFFICES ASSUME IInv, PushedOK, [Next]_vars,
                      NEW u \in Threads, pc'[u] = "push", NEW v \in Views \ todo'[u]
               PROVE  ToSet(held'[u]) \subseteq ToSet(written'[cur'[u]][v])
    BY DEF PushedOK
  <1>0. TypeOK /\ ThreadOK
    BY DEF IInv
  <1>1. CASE todo'[u] = Views
    BY <1>1
  <1>2. CASE PushView(u)
    <2>1. /\ pc[u] = "push" /\ cur[u] \in Keys /\ UNCHANGED <<cur, held>>
          /\ \E w \in Views : /\ todo' = [todo EXCEPT ![u] = @ \ {w}]
                              /\ written'[cur[u]][w] = written[cur[u]][w] \o held[u]
      BY <1>0, <1>2, PushViewWrites
    <2>2. PICK w \in Views : /\ todo' = [todo EXCEPT ![u] = @ \ {w}]
                             /\ written'[cur[u]][w] = written[cur[u]][w] \o held[u]
      BY <2>1
    <2>3. CASE v = w
      <3>1. written[cur[u]][v] \in Seq(Frame) /\ held[u] \in Seq(Frame)
        BY <1>0, <2>1 DEF TypeOK
      <3>2. ToSet(written[cur[u]][v] \o held[u]) = ToSet(written[cur[u]][v]) \cup ToSet(held[u])
        BY <3>1, ToSetConcat
      <3> QED
        BY <2>1, <2>2, <2>3, <3>2
    <2>4. CASE v # w
      <3>1. v \in Views \ todo[u]
        BY <1>0, <2>2, <2>4 DEF TypeOK
      <3>2. ToSet(held[u]) \subseteq ToSet(written[cur[u]][v])
        BY <2>1, <3>1 DEF PushedOK
      <3>3. ToSet(written[cur[u]][v]) \subseteq ToSet(written'[cur[u]][v])
        BY <1>0, <2>1, WrittenGrows
      <3> QED
        BY <2>1, <3>2, <3>3
    <2> QED
      BY <2>3, <2>4
  <1>3. CASE /\ pc[u] = "push" /\ held'[u] = held[u]
             /\ cur'[u] = cur[u] /\ todo'[u] = todo[u]
    <2>1. cur[u] \in Keys
      BY <1>0, <1>3 DEF ThreadOK
    <2>2. ToSet(held[u]) \subseteq ToSet(written[cur[u]][v])
      BY <1>3 DEF PushedOK
    <2>3. ToSet(written[cur[u]][v]) \subseteq ToSet(written'[cur[u]][v])
      BY <1>0, <2>1, WrittenGrows
    <2> QED
      BY <1>3, <2>2, <2>3
  <1> QED
    BY <1>0, <1>1, <1>2, <1>3, PushingThread

\* Only the completion of a flush delivers.
LEMMA OthersDeliverNothing ==
    ASSUME [Next]_vars, \A t \in Threads : ~Complete(t)
    PROVE  UNCHANGED delivered
  <1>1. \A t \in Producers, k \in Keys : Enqueue(t, k) => UNCHANGED delivered
    BY DEF Enqueue
  <1>2. Shutdown \/ FlushAll \/ Check \/ BgExit \/ Exit \/ Tick => UNCHANGED delivered
    BY DEF Shutdown, FlushAll, Check, BgExit, Exit, Tick, hist
  <1>3. \A t \in Threads : NextKey(t) \/ Drain(t) \/ ConcatError(t) => UNCHANGED delivered
    BY DEF NextKey, Drain, ConcatError, hist
  <1>4. \A t \in Threads : PushView(t) \/ PushError(t) \/ Restore(t) => UNCHANGED delivered
    BY DEF PushView, PushError, Restore, hist
  <1> QED
    BY <1>1, <1>2, <1>3, <1>4 DEF Next, Flush, vars, hist

\* A flush completes only when every feature view has its batch.
LEMMA AllViewsStep == IInv /\ PushedOK /\ AllViewsWritten /\ [Next]_vars => AllViewsWritten'
  <1> SUFFICES ASSUME IInv, PushedOK, AllViewsWritten, [Next]_vars,
                      NEW k \in Keys, NEW v \in Views
               PROVE  ToSet(delivered'[k]) \subseteq ToSet(written'[k][v])
    BY DEF AllViewsWritten
  <1>0. TypeOK /\ ThreadOK
    BY DEF IInv
  <1>1. ToSet(written[k][v]) \subseteq ToSet(written'[k][v])
    BY <1>0, WrittenGrows
  <1>2. ToSet(delivered[k]) \subseteq ToSet(written[k][v])
    BY DEF AllViewsWritten
  <1>3. ASSUME NEW t \in Threads, Complete(t)
        PROVE  ToSet(delivered'[k]) \subseteq ToSet(written'[k][v])
    <2>1. cur[t] \in Keys /\ pc[t] = "push" /\ todo[t] = {}
      BY <1>0, <1>3 DEF Complete, ThreadOK
    <2>2. CASE k = cur[t]
      <3>1. delivered'[k] = delivered[k] \o held[t]
        BY <1>0, <1>3, <2>2 DEF Complete, TypeOK
      <3>2. delivered[k] \in Seq(Frame) /\ held[t] \in Seq(Frame)
        BY <1>0 DEF TypeOK
      <3>3. ToSet(delivered'[k]) = ToSet(delivered[k]) \cup ToSet(held[t])
        BY <3>1, <3>2, ToSetConcat
      <3>4. ToSet(held[t]) \subseteq ToSet(written[k][v])
        BY <2>1, <2>2 DEF PushedOK
      <3> QED
        BY <1>1, <1>2, <3>3, <3>4
    <2>3. CASE k # cur[t]
      <3>1. delivered'[k] = delivered[k]
        BY <1>0, <1>3, <2>3 DEF Complete, TypeOK
      <3> QED
        BY <1>1, <1>2, <3>1
    <2> QED
      BY <2>2, <2>3
  <1> QED
    BY <1>1, <1>2, <1>3, OthersDeliverNothing

\* enqueue numbers frames consecutively, and nothing else changes what was accepted.
LEMMA NumberedStep == TypeOK /\ Numbered /\ [Next]_vars => Numbered'
  <1> SUFFICES ASSUME TypeOK, Numbered, [Next]_vars PROVE Numbered'
    OBVIOUS
  <1>1. ASSUME NEW t \in Producers, NEW k \in Keys, Enqueue(t, k) PROVE Numbered'
    <2>1. PICK r \in RowCounts :
            accepted' = [accepted EXCEPT ![k] = Append(@, [id |-> Len(accepted[k]) + 1, rows |-> r])]
      BY <1>1 DEF Enqueue
    <2> DEFINE f == [id |-> Len(accepted[k]) + 1, rows |-> r]
    <2>2. f \in Frame /\ accepted[k] \in Seq(Frame)
      <3>1. accepted[k] \in Seq(Frame) /\ Len(accepted[k]) < MaxFrames
        BY <1>1 DEF Enqueue, TypeOK
      <3>2. Len(accepted[k]) + 1 \in 1..MaxFrames
        BY <3>1, LenProperties, ConfigAssumption
      <3> QED
        BY <3>1, <3>2 DEF Frame
    <2>3. /\ Len(Append(accepted[k], f)) = Len(accepted[k]) + 1
          /\ \A i \in 1..Len(accepted[k]) : Append(accepted[k], f)[i] = accepted[k][i]
          /\ Append(accepted[k], f)[Len(accepted[k]) + 1] = f
          /\ Len(accepted[k]) \in Nat
      BY <2>2, AppendProperties, LenProperties
    <2>4. f.id = Len(accepted[k]) + 1
      OBVIOUS
    <2> HIDE DEF f
    <2>5. \A i \in 1..Len(Append(accepted[k], f)) : Append(accepted[k], f)[i].id = i
      BY <2>3, <2>4 DEF Numbered
    <2>6. accepted' = [accepted EXCEPT ![k] = Append(@, f)]
      BY <2>1 DEF f
    <2> QED
      BY <2>5, <2>6 DEF Numbered, TypeOK
  <1>2. Shutdown \/ FlushAll \/ Check \/ BgExit \/ Exit \/ Tick => UNCHANGED accepted
    BY DEF Shutdown, FlushAll, Check, BgExit, Exit, Tick, hist
  <1>3. \A t \in Threads : NextKey(t) \/ Drain(t) \/ ConcatError(t) => UNCHANGED accepted
    BY DEF NextKey, Drain, ConcatError, hist
  <1>4. \A t \in Threads : PushView(t) \/ PushError(t) \/ Restore(t) \/ Complete(t)
                           => UNCHANGED accepted
    BY DEF PushView, PushError, Restore, Complete, hist
  <1>5. UNCHANGED accepted => Numbered'
    BY DEF Numbered
  <1> QED
    BY <1>1, <1>2, <1>3, <1>4, <1>5 DEF Next, Flush, vars, hist

\* Frames numbered consecutively keep their numbers when they are cut in three.
LEMMA NumbersOfParts ==
    ASSUME NEW d \in Seq(Frame), NEW h \in Seq(Frame), NEW b \in Seq(Frame),
           \A i \in 1..Len(d \o h \o b) : (d \o h \o b)[i].id = i
    PROVE  /\ \A i \in 1..Len(d) : d[i].id = i
           /\ \A i \in 1..Len(h) : h[i].id = Len(d) + i
  <1>1. Len(d) \in Nat /\ Len(h) \in Nat /\ Len(b) \in Nat
    BY LenProperties
  <1>2. /\ d \o h \in Seq(Frame) /\ Len(d \o h) = Len(d) + Len(h)
        /\ \A i \in 1..(Len(d) + Len(h)) :
             (d \o h)[i] = IF i <= Len(d) THEN d[i] ELSE h[i - Len(d)]
    BY ConcatProperties
  <1> DEFINE dh == d \o h
  <1>3. /\ Len(dh \o b) = Len(dh) + Len(b)
        /\ \A i \in 1..(Len(dh) + Len(b)) :
             (dh \o b)[i] = IF i <= Len(dh) THEN dh[i] ELSE b[i - Len(dh)]
    BY <1>2, ConcatProperties
  <1>4. ASSUME NEW i \in 1..(Len(d) + Len(h)) PROVE dh[i].id = i
    <2>1. i \in 1..(Len(dh) + Len(b)) /\ i <= Len(dh)
      BY <1>1, <1>2
    <2>2. (dh \o b)[i] = dh[i] /\ i \in 1..Len(dh \o b)
      BY <1>3, <2>1
    <2> QED
      BY <2>2
  <1>5. ASSUME NEW i \in 1..Len(d) PROVE d[i].id = i
    <2>1. i \in 1..(Len(d) + Len(h)) /\ i <= Len(d)
      BY <1>1
    <2>2. dh[i] = d[i]
      BY <1>2, <2>1
    <2> QED
      BY <1>4, <2>1, <2>2
  <1>6. ASSUME NEW i \in 1..Len(h) PROVE h[i].id = Len(d) + i
    <2> DEFINE j == Len(d) + i
    <2>1. j \in 1..(Len(d) + Len(h)) /\ ~(j <= Len(d)) /\ j - Len(d) = i
      BY <1>1
    <2>2. dh[j] = h[j - Len(d)]
      BY <1>2, <2>1
    <2> QED
      BY <1>4, <2>1, <2>2
  <1> QED
    BY <1>5, <1>6

\* What a thread holds comes right after what was delivered of its key.
LEMMA HeldNumbers ==
    ASSUME IInv, Numbered, NEW t \in Threads, NEW k \in Keys, Holding(t, k)
    PROVE  /\ \A i \in 1..Len(delivered[k]) : delivered[k][i].id = i
           /\ \A i \in 1..Len(held[t]) : held[t][i].id = Len(delivered[k]) + i
  <1>1. accepted[k] = delivered[k] \o held[t] \o buffers[k]
    BY DEF IInv, Conservation
  <1>2. delivered[k] \in Seq(Frame) /\ held[t] \in Seq(Frame) /\ buffers[k] \in Seq(Frame)
    BY DEF IInv, TypeOK
  <1>3. \A i \in 1..Len(delivered[k] \o held[t] \o buffers[k]) :
           (delivered[k] \o held[t] \o buffers[k])[i].id = i
    BY <1>1 DEF Numbered
  <1> QED
    BY <1>2, <1>3, NumbersOfParts, Zenon

\* A batch is appended to a batch source that already has every frame before it.
LEMMA ViewOrderStep ==
    IInv /\ AllViewsWritten /\ Numbered /\ ViewOrder /\ [Next]_vars => ViewOrder'
  <1> SUFFICES ASSUME IInv, AllViewsWritten, Numbered, ViewOrder, [Next]_vars,
                      NEW k \in Keys, NEW v \in Views
               PROVE  LET w == written'[k][v] IN
                      \A i \in 1..Len(w) : \A n \in 1..(w[i].id - 1) :
                         \E j \in 1..(i - 1) : w[j].id = n
    BY DEF ViewOrder
  <1>0. TypeOK /\ ThreadOK
    BY DEF IInv
  <1> DEFINE w == written[k][v]
  <1>1. \A i \in 1..Len(w) : \A n \in 1..(w[i].id - 1) : \E j \in 1..(i - 1) : w[j].id = n
    BY DEF ViewOrder
  <1>2. CASE written'[k][v] = w
    BY <1>1, <1>2
  <1>3. ASSUME NEW t \in Threads, PushView(t), written'[k][v] # w
        PROVE  \A i \in 1..Len(written'[k][v]) : \A n \in 1..(written'[k][v][i].id - 1) :
                  \E j \in 1..(i - 1) : written'[k][v][j].id = n
    <2> DEFINE h == held[t]
               d == delivered[k]
    <2>1. k = cur[t] /\ Holding(t, k) /\ written'[k][v] = w \o h
      BY <1>0, <1>3, PushViewWrites
    <2>2. w \in Seq(Frame) /\ h \in Seq(Frame) /\ d \in Seq(Frame)
      BY <1>0 DEF TypeOK
    <2>3. /\ \A i \in 1..Len(d) : d[i].id = i
          /\ \A i \in 1..Len(h) : h[i].id = Len(d) + i
      BY <2>1, HeldNumbers
    <2>4. ToSet(d) \subseteq ToSet(w)
      BY DEF AllViewsWritten
    <2>5. /\ Len(w) \in Nat /\ Len(h) \in Nat /\ Len(d) \in Nat
          /\ DOMAIN w = 1..Len(w) /\ DOMAIN d = 1..Len(d)
      BY <2>2, LenProperties
    <2>6. /\ Len(w \o h) = Len(w) + Len(h)
          /\ \A i \in 1..(Len(w) + Len(h)) :
               (w \o h)[i] = IF i <= Len(w) THEN w[i] ELSE h[i - Len(w)]
      BY <2>2, ConcatProperties
    <2> HIDE DEF w, h, d
    <2> SUFFICES ASSUME NEW i \in 1..(Len(w) + Len(h)), NEW n \in 1..((w \o h)[i].id - 1)
                 PROVE  \E j \in 1..(i - 1) : (w \o h)[j].id = n
      BY <2>1, <2>6
    <2>7. CASE i <= Len(w)
      <3>1. i \in 1..Len(w) /\ (w \o h)[i] = w[i]
        BY <2>5, <2>6, <2>7
      <3>2. PICK j \in 1..(i - 1) : w[j].id = n
        BY <1>1, <3>1
      <3>3. j \in 1..(Len(w) + Len(h)) /\ j <= Len(w)
        BY <2>5, <3>1
      <3>4. (w \o h)[j] = w[j]
        BY <2>6, <3>3
      <3> QED
        BY <3>2, <3>4
    <2>8. CASE ~(i <= Len(w))
      <3> DEFINE m == i - Len(w)
      <3>1. m \in 1..Len(h) /\ (w \o h)[i] = h[m]
        BY <2>5, <2>6, <2>8
      <3>2. h[m].id = Len(d) + m
        BY <2>3, <3>1
      <3>3. n \in 1..(Len(d) + m - 1)
        BY <3>1, <3>2
      <3>4. CASE n <= Len(d)
        <4>1. n \in 1..Len(d) /\ d[n].id = n
          BY <2>3, <2>5, <3>3, <3>4
        <4>2. d[n] \in ToSet(w)
          BY <2>4, <2>5, <4>1 DEF ToSet
        <4>3. PICK j \in 1..Len(w) : w[j] = d[n]
          BY <2>5, <4>2 DEF ToSet
        <4>4. j \in 1..(i - 1) /\ j \in 1..(Len(w) + Len(h)) /\ j <= Len(w)
          BY <2>5, <2>8
        <4>5. (w \o h)[j] = w[j]
          BY <2>6, <4>4
        <4> QED
          BY <4>1, <4>3, <4>4, <4>5
      <3>5. CASE n > Len(d)
        <4> DEFINE p == n - Len(d)
                   j == Len(w) + p
        <4>1. p \in 1..Len(h) /\ j \in 1..(i - 1) /\ j \in 1..(Len(w) + Len(h))
              /\ ~(j <= Len(w)) /\ j - Len(w) = p
          BY <2>5, <3>1, <3>3, <3>5
        <4>2. (w \o h)[j] = h[p]
          BY <2>6, <4>1
        <4>3. h[p].id = Len(d) + p
          BY <2>3, <4>1
        <4>4. Len(d) + p = n
          BY <2>5
        <4> QED
          BY <4>1, <4>2, <4>3, <4>4
      <3> QED
        BY <2>5, <3>3, <3>4, <3>5
    <2> QED
      BY <2>7, <2>8
  <1> QED
    BY <1>2, <1>3, OthersWriteNothing

\* The order of writes is inductive.
THEOREM OrderInvariant == Spec => []OrderInv
  <1>1. Init => OrderInv
    <2> SUFFICES ASSUME Init PROVE OrderInv
      OBVIOUS
    <2>1. PushedOK
      BY ThreadsAssumption DEF Init, PushedOK, Threads
    <2>2. \A k \in Keys : delivered[k] = <<>> /\ accepted[k] = <<>>
      BY DEF Init
    <2>3. \A k \in Keys, v \in Views : written[k][v] = <<>>
      BY DEF Init
    <2>4. AllViewsWritten
      BY <2>2 DEF AllViewsWritten, ToSet
    <2>5. Numbered
      BY <2>2 DEF Numbered
    <2>6. ViewOrder
      BY <2>3 DEF ViewOrder
    <2> QED
      BY <2>1, <2>4, <2>5, <2>6, InitIInv DEF OrderInv
  <1>2. OrderInv /\ [Next]_vars => OrderInv'
    <2>1. IInv /\ [Next]_vars => IInv'
      BY TypeStep, ThreadStep, ExclusiveStep, ConservationStep DEF IInv
    <2>2. IInv => TypeOK
      BY DEF IInv
    <2> QED
      BY <2>1, <2>2, PushedStep, AllViewsStep, NumberedStep, ViewOrderStep DEF OrderInv
  <1> QED
    BY <1>1, <1>2, PTL DEF Spec

\* Whatever fails and is retried, and whichever thread flushes, no batch source
\* sees a frame before all the frames of its key accepted earlier.
THEOREM ViewsSeeOrder == Spec => []ViewOrder
  <1>1. OrderInv => ViewOrder
    BY DEF OrderInv
  <1> QED
    BY OrderInvariant, <1>1, PTL

\* A flush that completes has written its frames to every feature view's batch
\* source.
THEOREM DeliveredEverywhere == Spec => []AllViewsWritten
  <1>1. OrderInv => AllViewsWritten
    BY DEF OrderInv
  <1> QED
    BY OrderInvariant, <1>1, PTL
-------------------------------------------------------------------------------
(* No full buffer is forgotten *)

\* A thread puts frames back only after a push failed.
FailedOK == \A t \in Threads : pc[t] = "failed" => failures > 0

\* Thread t is about to flush key k or is flushing it (or died while it was).
Attends(t, k) == cur[t] = k /\ pc[t] \in {"drain", "push", "dead"}

\* Every full buffer is attended to.
FullOK ==
    \A k \in Keys : (failures = 0 /\ lost[k] = <<>> /\ ShouldFlush(buffers[k]))
                    => \E t \in Threads : Attends(t, k)

\* The inductive invariant for full buffers.
FullInv == IInv /\ FailedOK /\ FullOK

\* An empty buffer has no rows.
LEMMA RowsOfEmpty == Rows(<<>>) = 0
  <1> DEFINE G(f) == [s \in SUBSET {} |->
                        IF s = {} THEN 0 ELSE f[s \ {Max(s)}] + <<>>[Max(s)].rows]
             g == CHOOSE f : f = G(f)
  <1>1. DOMAIN <<>> = {}
    OBVIOUS
  <1>2. Rows(<<>>) = g[{}]
    BY <1>1 DEF Rows, FoldLeft, MapThenFoldSet
  <1>3. \E f : f = G(f)
    <2> WITNESS [s \in {{}} |-> 0]
    <2> QED
      OBVIOUS
  <1>4. g = G(g)
    BY <1>3
  <1> QED
    BY <1>2, <1>4

\* Only a failing push takes a thread to the except branch, and it counts.
LEMMA FailedStep == TypeOK /\ FailedOK /\ [Next]_vars => FailedOK'
  <1> SUFFICES ASSUME TypeOK, FailedOK, [Next]_vars PROVE FailedOK'
    OBVIOUS
  <1> USE ThreadsAssumption DEF TypeOK, FailedOK, Threads
  <1>1. ASSUME NEW t \in Producers, NEW k \in Keys, Enqueue(t, k) PROVE FailedOK'
    BY <1>1 DEF Enqueue, Goto
  <1>2. Shutdown \/ FlushAll \/ Check \/ BgExit \/ Exit \/ Tick => FailedOK'
    BY DEF Shutdown, FlushAll, Check, BgExit, Exit, Tick, Goto, hist, local
  <1>3. ASSUME NEW t \in Threads, NextKey(t) PROVE FailedOK'
    BY <1>3 DEF NextKey, Home, Goto, hist
  <1>4. ASSUME NEW t \in Threads, Drain(t) PROVE FailedOK'
    BY <1>4 DEF Drain, NothingDrained, Goto
  <1>5. ASSUME NEW t \in Threads, ConcatError(t) \/ PushView(t) PROVE FailedOK'
    BY <1>5 DEF ConcatError, PushView, Goto
  <1>6. ASSUME NEW t \in Threads, PushError(t) PROVE FailedOK'
    BY <1>6 DEF PushError
  <1>7. ASSUME NEW t \in Threads, Restore(t) \/ Complete(t) PROVE FailedOK'
    BY <1>7 DEF Restore, Complete, AfterFlush, Goto, hist
  <1>8. UNCHANGED vars => FailedOK'
    BY DEF vars, local, hist
  <1> QED
    BY <1>1, <1>2, <1>3, <1>4, <1>5, <1>6, <1>7, <1>8 DEF Next, Flush

\* A buffer that fills is flushed by the thread that filled it, or by the thread
\* in whose way it came, which looks again before it ends.
LEMMA FullStep ==
    ASSUME BatchSize > 0, FullInv, [Next]_vars
    PROVE  FullOK'
  <1> SUFFICES ASSUME NEW k \in Keys,
                      failures' = 0, lost'[k] = <<>>, ShouldFlush(buffers'[k])
               PROVE  \E t \in Threads : Attends(t, k)'
    BY DEF FullOK
  <1>0. TypeOK /\ ThreadOK /\ InflightExclusive /\ FailedOK /\ FullOK
    BY DEF FullInv, IInv
  <1> DEFINE Goal == \E t \in Threads : Attends(t, k)'
  <1> USE ThreadsAssumption DEF Threads
  <1>1. ASSUME NEW u \in Threads, \A t \in Threads \ {u} : cur'[t] = cur[t] /\ pc'[t] = pc[t],
               pc[u] \notin {"drain", "push", "dead"},
               UNCHANGED <<failures, lost>>, buffers'[k] = buffers[k]
        PROVE  Goal
    <2>1. PICK t \in Threads : Attends(t, k)
      BY <1>0, <1>1 DEF FullOK
    <2>2. t # u
      BY <1>1, <2>1 DEF Attends
    <2> QED
      BY <1>1, <2>1, <2>2 DEF Attends
  <1>2. ASSUME UNCHANGED <<pc, cur, failures, lost, buffers>> PROVE Goal
    BY <1>0, <1>2 DEF FullOK, Attends
  <1>3. ASSUME NEW u \in Producers, NEW c \in Keys, Enqueue(u, c) PROVE Goal
    <2>1. pc[u] = "idle" /\ UNCHANGED <<failures, lost>>
      BY <1>3 DEF Enqueue
    <2>2. PICK dfs : /\ buffers' = [buffers EXCEPT ![c] = dfs]
                     /\ IF ShouldFlush(dfs)
                        THEN Goto(u, "drain") /\ cur' = [cur EXCEPT ![u] = c]
                        ELSE UNCHANGED <<pc, cur>>
      BY <1>3 DEF Enqueue
    <2>3. CASE k = c
      <3>1. buffers'[k] = dfs
        BY <1>0, <2>2, <2>3 DEF TypeOK
      <3>2. pc' = [pc EXCEPT ![u] = "drain"] /\ cur' = [cur EXCEPT ![u] = c]
        BY <2>2, <3>1 DEF Goto
      <3> QED
        BY <1>0, <2>3, <3>2 DEF Attends, TypeOK
    <2>4. CASE k # c
      <3>1. buffers'[k] = buffers[k]
        BY <1>0, <2>2, <2>4 DEF TypeOK
      <3>2. \A t \in Threads \ {u} : cur'[t] = cur[t] /\ pc'[t] = pc[t]
        BY <1>0, <2>2 DEF Goto, TypeOK
      <3> QED
        BY <1>1, <2>1, <3>1, <3>2
    <2> QED
      BY <2>3, <2>4
  <1>4. CASE Shutdown
    BY <1>0, <1>1, <1>4 DEF Shutdown, Goto, hist, TypeOK
  <1>5. CASE FlushAll
    BY <1>0, <1>1, <1>5 DEF FlushAll, Goto, shared, TypeOK
  <1>6. CASE Check \/ BgExit
    BY <1>0, <1>1, <1>6 DEF Check, BgExit, Goto, shared, hist, TypeOK
  <1>7. CASE Exit
    <2>1. PICK t \in Threads : Attends(t, k)
      BY <1>0, <1>7 DEF Exit, FullOK, shared, hist
    <2> QED
      BY <1>7, <2>1 DEF Exit, Attends
  <1>8. CASE Tick
    BY <1>2, <1>8 DEF Tick, local
  <1>9. ASSUME NEW u \in Threads, NextKey(u) PROVE Goal
    <2>1. pc[u] = "next" /\ UNCHANGED <<failures, lost, buffers>>
      BY <1>9 DEF NextKey, hist
    <2>2. \A t \in Threads \ {u} : cur'[t] = cur[t] /\ pc'[t] = pc[t]
      BY <1>0, <1>9 DEF NextKey, Goto, TypeOK
    <2> QED
      BY <1>1, <2>1, <2>2
  <1>10. ASSUME NEW u \in Threads, Drain(u) PROVE Goal
    <2>0. cur[u] \in Keys /\ held[u] = <<>> /\ UNCHANGED <<cur, failures, lost>>
      BY <1>0, <1>10 DEF Drain, ThreadOK
    <2>1. CASE BusyOrEmpty(cur[u])
      <3>1. UNCHANGED buffers /\ pc' = [pc EXCEPT ![u] = "next"]
        BY <1>10, <2>1 DEF Drain, NothingDrained, Goto
      <3>2. PICK t \in Threads : Attends(t, k)
        BY <1>0, <2>0, <3>1 DEF FullOK
      <3>3. CASE t = u
        <4>1. k = cur[u] /\ buffers[k] # <<>>
          BY <3>1, <3>2, <3>3, RowsOfEmpty, ConfigAssumption DEF Attends, ShouldFlush
        <4>2. k \in inflight
          BY <2>1, <4>1 DEF BusyOrEmpty
        <4>3. PICK h \in Threads : Holding(h, k)
          BY <1>0, <2>0, <4>2 DEF InflightExclusive
        <4>4. h # u /\ cur[h] = k /\ pc[h] \in {"push", "dead"}
          BY <1>0, <2>0, <4>3 DEF Holding, ThreadOK, FailedOK
        <4> QED
          BY <1>0, <2>0, <3>1, <4>4 DEF Attends, TypeOK
      <3>4. CASE t # u
        BY <1>0, <2>0, <3>1, <3>2, <3>4 DEF Attends, TypeOK
      <3> QED
        BY <3>3, <3>4
    <2>2. CASE ~BusyOrEmpty(cur[u])
      <3>1. /\ pc' = [pc EXCEPT ![u] = "push"]
            /\ buffers' = [buffers EXCEPT ![cur[u]] = <<>>]
        BY <1>10, <2>2 DEF Drain, Goto
      <3>2. CASE k = cur[u]
        BY <1>0, <2>0, <3>1, <3>2 DEF Attends, TypeOK
      <3>3. CASE k # cur[u]
        <4>1. PICK t \in Threads : Attends(t, k)
          BY <1>0, <2>0, <3>1, <3>3 DEF FullOK, TypeOK
        <4> QED
          BY <1>0, <2>0, <3>1, <3>3, <4>1 DEF Attends, TypeOK
      <3> QED
        BY <3>2, <3>3
    <2> QED
      BY <2>1, <2>2
  <1>11. ASSUME NEW u \in Threads, ConcatError(u) \/ Complete(u) PROVE Goal
    <2>0. cur[u] \in Keys /\ held[u] # <<>> /\ UNCHANGED <<cur, failures, buffers>>
      BY <1>0, <1>11 DEF ConcatError, Complete, ThreadOK, shared
    <2>1. \A t \in Threads \ {u} : pc'[t] = pc[t]
      BY <1>0, <1>11 DEF ConcatError, Complete, Goto, TypeOK
    <2>2. CASE k = cur[u]
      <3>1. ~ConcatError(u)
        BY <1>0, <2>0, <2>2 DEF ConcatError, TypeOK
      <3>2. pc'[u] = "drain"
        BY <1>0, <1>11, <2>0, <2>2, <3>1 DEF Complete, AfterFlush, Goto, TypeOK
      <3> QED
        BY <2>0, <2>2, <3>2 DEF Attends
    <2>3. CASE k # cur[u]
      <3>1. lost'[k] = lost[k]
        BY <1>0, <1>11, <2>0, <2>3 DEF ConcatError, Complete, TypeOK
      <3>2. PICK t \in Threads : Attends(t, k)
        BY <1>0, <2>0, <3>1 DEF FullOK
      <3>3. t # u
        BY <2>3, <3>2 DEF Attends
      <3> QED
        BY <2>0, <2>1, <3>2, <3>3 DEF Attends
    <2> QED
      BY <2>2, <2>3
  <1>12. ASSUME NEW u \in Threads, PushView(u) PROVE Goal
    BY <1>2, <1>12 DEF PushView, shared
  <1>13. ASSUME NEW u \in Threads, PushError(u) \/ Restore(u) PROVE FALSE
    BY <1>0, <1>13 DEF PushError, Restore, FailedOK, TypeOK, hist
  <1>14. CASE UNCHANGED vars
    BY <1>2, <1>14 DEF vars, shared, local, hist
  <1> QED
    BY <1>3, <1>4, <1>5, <1>6, <1>7, <1>8, <1>9, <1>10, <1>11, <1>12, <1>13, <1>14
       DEF Next, Flush

\* With a positive batch size, a full buffer never lies unattended while no push
\* and no concat fails: the thread that found its key in flight relies on the
\* flusher's second look at pending_rows.
THEOREM FullBuffersAreFlushed ==
    ASSUME BatchSize > 0 PROVE Spec => []NoFullBufferAtRest
  <1>1. Init => FullInv
    <2> SUFFICES ASSUME Init PROVE FullInv
      OBVIOUS
    <2>1. FailedOK
      BY DEF Init, FailedOK
    <2>2. ASSUME NEW k \in Keys PROVE ~ShouldFlush(buffers[k])
      <3>1. buffers[k] = <<>>
        BY DEF Init
      <3>2. ~(0 >= BatchSize)
        BY ConfigAssumption
      <3> QED
        BY <3>1, <3>2, RowsOfEmpty DEF ShouldFlush
    <2> QED
      BY <2>1, <2>2, InitIInv DEF FullInv, FullOK
  <1>2. FullInv /\ [Next]_vars => FullInv'
    <2>1. IInv /\ [Next]_vars => IInv'
      BY TypeStep, ThreadStep, ExclusiveStep, ConservationStep DEF IInv
    <2>2. FullInv => IInv /\ TypeOK /\ FailedOK
      BY DEF FullInv, IInv
    <2> QED
      BY <2>1, <2>2, FailedStep, FullStep DEF FullInv
  <1>3. FullInv => NoFullBufferAtRest
    BY DEF FullInv, FullOK, NoFullBufferAtRest, Attends
  <1> QED
    BY <1>1, <1>2, <1>3, PTL DEF Spec
-------------------------------------------------------------------------------
(* Shutdown *)

\* Which threads run when: shutdown runs in Main alone once the requests are
\* done, and unless its join timed out the background thread has ended too.
StopOK ==
    /\ \A t \in Threads :
         /\ pc[t] \in {"join", "down", "exited", "dead"} => stop
         /\ pc[t] = "dead" <=> pc[Main] = "dead"
         /\ pc[t] \in {"wait", "exited"} => t = Bg
         /\ pc[t] \in {"join", "down"} => t = Main
         /\ pc[t] = "idle" => t # Bg
    /\ stop => /\ pc[Main] # "idle"
               /\ \A t \in Producers \ {Main} : pc[t] \in {"idle", "dead"}
               /\ pc[Main] # "join" /\ ~timedOut => pc[Bg] \in {"exited", "dead"}

\* Nothing went wrong so far, and shutdown is past its join.
CleanStop ==
    /\ stop /\ pc[Main] # "join" /\ ~timedOut /\ failures = 0
    /\ \A k \in Keys : lost[k] = <<>>

\* flush_all is done with key k, or has yet to reach it, or is flushing all of it.
Flushed(k) ==
    \/ delivered[k] = accepted[k]
    \/ pc[Main] \in {"next", "drain", "push"} /\ k \in work[Main]
    \/ pc[Main] = "drain" /\ cur[Main] = k
    \/ pc[Main] = "push" /\ cur[Main] = k /\ buffers[k] = <<>>

FlushedOK == CleanStop => \A k \in Keys : Flushed(k)

\* The inductive invariant for shutdown.
StopInv == IInv /\ FailedOK /\ StopOK /\ FlushedOK

\* The threads' part in a shutdown, step by step.
LEMMA StopStep == TypeOK /\ StopOK /\ [Next]_vars => StopOK'
  <1> SUFFICES ASSUME TypeOK, StopOK, [Next]_vars PROVE StopOK'
    OBVIOUS
  <1> USE ThreadsAssumption DEF TypeOK, StopOK, Threads
  <1>1. ASSUME NEW t \in Producers, NEW k \in Keys, Enqueue(t, k) PROVE StopOK'
    <2>1. /\ pc[t] = "idle" /\ ~stop /\ UNCHANGED <<stop, timedOut>>
          /\ UNCHANGED pc \/ pc' = [pc EXCEPT ![t] = "drain"]
      BY <1>1 DEF Enqueue, Goto
    <2> QED
      BY <2>1
  <1>2. CASE Shutdown
    BY <1>2 DEF Shutdown, Goto, hist
  <1>3. CASE FlushAll
    BY <1>3 DEF FlushAll, Goto, shared
  <1>4. CASE Check
    BY <1>4 DEF Check, Goto, hist
  <1>5. CASE BgExit
    BY <1>5 DEF BgExit, Goto, shared, hist
  <1>6. CASE Exit
    BY <1>6 DEF Exit, shared, hist
  <1>7. CASE Tick
    BY <1>7 DEF Tick, local
  <1>8. ASSUME NEW t \in Threads, NextKey(t) PROVE StopOK'
    <2>1. /\ pc[t] = "next" /\ UNCHANGED <<stop, timedOut>>
          /\ pc' = [pc EXCEPT ![t] = Home(t)] \/ pc' = [pc EXCEPT ![t] = "drain"]
      BY <1>8 DEF NextKey, Goto, hist
    <2> QED
      BY <2>1 DEF Home
  <1>9. ASSUME NEW t \in Threads, Flush(t) PROVE StopOK'
    <2>1. /\ pc[t] \in {"drain", "push", "failed"} /\ UNCHANGED <<stop, timedOut>>
          /\ UNCHANGED pc \/ \E l \in {"next", "drain", "push", "failed"} :
                                pc' = [pc EXCEPT ![t] = l]
      BY <1>9 DEF Flush, Drain, ConcatError, PushView, PushError, Restore, Complete,
                  NothingDrained, AfterFlush, Goto, shared, hist
    <2> QED
      BY <2>1
  <1>10. CASE UNCHANGED vars
    BY <1>10 DEF vars, shared, local, hist
  <1> QED
    BY <1>1, <1>2, <1>3, <1>4, <1>5, <1>6, <1>7, <1>8, <1>9, <1>10 DEF Next
\* A key of which nothing was accepted has nothing delivered.
LEMMA EmptyParts ==
    ASSUME NEW d \in Seq(Frame), NEW h \in Seq(Frame), NEW b \in Seq(Frame)
    PROVE  d \o h \o b = <<>> => d = <<>>
  <1>1. d \o h \in Seq(Frame)
    BY ConcatProperties
  <1>2. (d \o h) \o b = <<>> => d \o h = <<>>
    BY <1>1, ConcatEqualIffEmpty
  <1>3. d \o h = <<>> => d = <<>>
    BY ConcatEqualIffEmpty
  <1> QED
    BY <1>2, <1>3

\* A key of which everything is delivered has nothing in hand.
LEMMA NothingInHand ==
    ASSUME NEW d \in Seq(Frame), NEW h \in Seq(Frame), NEW b \in Seq(Frame)
    PROVE  d \o h \o b = d => h = <<>>
  <1>1. h \o b \in Seq(Frame)
    BY ConcatProperties
  <1>2. (d \o h) \o b = d \o (h \o b)
    BY ConcatAssociative
  <1>3. d \o (h \o b) = d => h \o b = <<>>
    BY <1>1, ConcatEqualIffEmpty
  <1>4. h \o b = <<>> => h = <<>>
    BY ConcatEqualIffEmpty
  <1> QED
    BY <1>2, <1>3, <1>4

\* After a clean join only Main has anything to do.
LEMMA OnlyMainRuns ==
    ASSUME StopInv, CleanStop, NEW t \in Threads,
           pc[t] \in {"wait", "next", "drain", "push", "failed"}
    PROVE  t = Main /\ pc[t] \in {"next", "drain", "push"}
  <1>1. pc[t] # "failed"
    BY DEF StopInv, FailedOK, CleanStop
  <1>2. t \notin Producers \ {Main} /\ t # Bg
    BY DEF StopInv, StopOK, CleanStop
  <1>3. pc[t] # "wait"
    BY <1>2 DEF StopInv, StopOK
  <1> QED
    BY <1>1, <1>2, <1>3 DEF Threads

\* A clean shutdown stays clean only if it was, or starts with flush_all.
LEMMA CleanBefore ==
    ASSUME StopInv, [Next]_vars, CleanStop', ~FlushAll
    PROVE  /\ CleanStop
           /\ \/ UNCHANGED vars \/ Exit \/ Tick
              \/ NextKey(Main) \/ Drain(Main) \/ PushView(Main) \/ Complete(Main)
  <1>0. TypeOK /\ ThreadOK /\ InflightExclusive /\ StopOK /\ FailedOK
    BY DEF StopInv, IInv
  <1> USE ThreadsAssumption DEF Threads
  <1>1. ASSUME NEW t \in Producers, NEW k \in Keys, Enqueue(t, k) PROVE FALSE
    BY <1>1 DEF Enqueue, CleanStop
  <1>2. ~Shutdown
    BY <1>0 DEF Shutdown, Goto, CleanStop, TypeOK
  <1>3. ASSUME NEW t \in Threads, ConcatError(t) PROVE FALSE
    <2>1. lost'[cur[t]] = held[t] /\ held[t] # <<>> /\ cur[t] \in Keys
      BY <1>0, <1>3 DEF ConcatError, TypeOK, ThreadOK
    <2> QED
      BY <2>1 DEF CleanStop
  <1>4. ASSUME NEW t \in Threads, PushError(t) \/ Restore(t) PROVE FALSE
    <2>1. failures' = 0 /\ failures \in Nat
      BY <1>0 DEF CleanStop, TypeOK
    <2>2. failures' = failures + 1 \/ (failures' = failures /\ pc[t] = "failed")
      BY <1>4 DEF PushError, Restore, hist
    <2>3. pc[t] = "failed" => failures > 0
      BY <1>0 DEF FailedOK
    <2> QED
      BY <2>1, <2>2, <2>3
  <1>5. CASE Check \/ BgExit
    <2>1. UNCHANGED <<stop, timedOut, failures, lost>> /\ pc'[Main] = pc[Main]
      BY <1>0, <1>5 DEF Check, BgExit, Goto, shared, hist, TypeOK
    <2>2. CleanStop /\ pc[Bg] = "wait"
      BY <1>5, <2>1 DEF CleanStop, Check, BgExit
    <2> QED
      BY <2>2, OnlyMainRuns
  <1>6. CASE UNCHANGED vars \/ Exit \/ Tick
    <2>1. UNCHANGED <<stop, timedOut, failures, lost>>
      BY <1>6 DEF Exit, Tick, vars, shared, local, hist
    <2>2. pc[Main] # "join"
      BY <1>6 DEF Exit, Tick, vars, local, CleanStop
    <2> QED
      BY <1>6, <2>1, <2>2 DEF CleanStop
  <1>7. ASSUME NEW t \in Threads, NextKey(t) \/ Drain(t) \/ PushView(t) \/ Complete(t)
        PROVE  CleanStop /\ t = Main
    <2>1. UNCHANGED <<stop, timedOut, failures, lost>>
      BY <1>7 DEF NextKey, Drain, PushView, Complete, shared, hist
    <2>2. pc[t] \in {"next", "drain", "push"} /\ (t # Main => pc'[Main] = pc[Main])
      BY <1>0, <1>7 DEF NextKey, Drain, PushView, Complete, Goto, TypeOK
    <2>3. CleanStop
      BY <2>1, <2>2 DEF CleanStop
    <2> QED
      BY <2>2, <2>3, OnlyMainRuns
  <1> QED
    BY <1>1, <1>2, <1>3, <1>4, <1>5, <1>6, <1>7 DEF Next, Flush

\* flush_all leaves no key behind.
LEMMA FlushedStep == StopInv /\ [Next]_vars => FlushedOK'
  <1> SUFFICES ASSUME StopInv, [Next]_vars, CleanStop', NEW k \in Keys
               PROVE  Flushed(k)'
    BY DEF FlushedOK
  <1>0. TypeOK /\ ThreadOK /\ InflightExclusive /\ Conservation /\ StopOK /\ FailedOK
    BY DEF StopInv, IInv
  <1>t. /\ delivered[k] \in Seq(Frame) /\ lost[k] \in Seq(Frame) /\ buffers[k] \in Seq(Frame)
        /\ accepted[k] \in Seq(Frame) /\ Main \in Threads
        /\ \A t \in Threads : held[t] \in Seq(Frame)
    BY <1>0, ThreadsAssumption DEF TypeOK, Threads
  <1>1. CASE FlushAll
    <2>1. /\ work' = [work EXCEPT ![Main] = FlushAllKeys]
          /\ pc' = [pc EXCEPT ![Main] = "next"] /\ UNCHANGED <<accepted, delivered>>
      BY <1>1 DEF FlushAll, Goto
    <2>2. CASE accepted[k] = <<>>
      <3>1. PICK h \in Seq(Frame) : accepted[k] = delivered[k] \o h \o buffers[k]
        BY <1>0, <1>t DEF Conservation
      <3>2. delivered[k] \o h \o buffers[k] = <<>> => delivered[k] = <<>>
        BY <1>t, EmptyParts, Zenon
      <3>3. delivered[k] = <<>>
        BY <2>2, <3>1, <3>2
      <3> QED
        BY <2>1, <2>2, <3>3 DEF Flushed
    <2>3. CASE accepted[k] # <<>>
      BY <1>0, <1>t, <2>1, <2>3 DEF Flushed, FlushAllKeys, TypeOK
    <2> QED
      BY <2>2, <2>3
  <1>2. CASE ~FlushAll
    <2>1. /\ CleanStop
          /\ \/ UNCHANGED vars \/ Exit \/ Tick
             \/ NextKey(Main) \/ Drain(Main) \/ PushView(Main) \/ Complete(Main)
      BY <1>2, CleanBefore
    <2>2. Flushed(k)
      BY <2>1 DEF StopInv, FlushedOK
    <2>3. CASE UNCHANGED vars \/ Tick
      BY <2>2, <2>3 DEF Flushed, Tick, vars, shared, local, hist
    <2>4. CASE Exit
      BY <2>2, <2>4 DEF Flushed, Exit, hist
    <2>5. CASE NextKey(Main)
      BY <1>0, <1>t, <2>2, <2>5 DEF Flushed, NextKey, Goto, hist, TypeOK
    <2>6. CASE PushView(Main)
      BY <2>2, <2>6 DEF Flushed, PushView, shared
    <2>7. CASE Drain(Main)
      <3>0. /\ pc[Main] = "drain" /\ cur[Main] \in Keys
            /\ UNCHANGED <<cur, work, delivered, accepted>>
        BY <1>0, <1>t, <2>7 DEF Drain, ThreadOK
      <3>1. \A t \in Threads, c \in Keys : ~Holding(t, c)
        <4> SUFFICES ASSUME NEW t \in Threads, held[t] # <<>> PROVE FALSE
          BY DEF Holding
        <4>1. pc[t] \in {"push", "failed", "dead"}
          BY <1>0 DEF ThreadOK
        <4>2. pc[t] # "dead"
          BY <1>0, <3>0 DEF StopOK
        <4> QED
          BY <2>1, <3>0, <4>1, <4>2, OnlyMainRuns
      <3>2. cur[Main] \notin inflight
        BY <1>0, <2>1, <3>0, <3>1 DEF InflightExclusive, CleanStop
      <3>3. CASE k = cur[Main] /\ buffers[k] = <<>>
        <4>1. accepted[k] = delivered[k] \o <<>> \o <<>>
          BY <1>0, <2>1, <3>1, <3>3 DEF Conservation, CleanStop
        <4>2. accepted[k] = delivered[k]
          BY <1>t, <4>1, ConcatEmptySeq
        <4> QED
          BY <3>0, <4>2 DEF Flushed
      <3>4. CASE k = cur[Main] /\ buffers[k] # <<>>
        <4>1. pc' = [pc EXCEPT ![Main] = "push"] /\ buffers' = [buffers EXCEPT ![k] = <<>>]
          BY <2>7, <3>2, <3>4 DEF Drain, BusyOrEmpty, Goto
        <4> QED
          BY <1>0, <1>t, <3>0, <3>4, <4>1 DEF Flushed, TypeOK
      <3>5. CASE k # cur[Main]
        <4>1. pc'[Main] \in {"next", "push"}
          BY <1>0, <1>t, <2>7 DEF Drain, NothingDrained, Goto, TypeOK
        <4> QED
          BY <2>2, <3>0, <3>5, <4>1 DEF Flushed
      <3> QED
        BY <3>3, <3>4, <3>5
    <2>8. CASE Complete(Main)
      <3>0. /\ pc[Main] = "push" /\ cur[Main] \in Keys /\ held[Main] # <<>>
            /\ UNCHANGED <<cur, work, accepted, buffers>>
            /\ delivered' = [delivered EXCEPT ![cur[Main]] = @ \o held[Main]]
        BY <1>0, <1>t, <2>8 DEF Complete, ThreadOK
      <3>1. pc'[Main] \in {"next", "drain"}
        BY <1>0, <1>t, <2>8 DEF Complete, AfterFlush, Goto, TypeOK
      <3>2. CASE k = cur[Main]
        <4>1. accepted[k] = delivered[k] \o held[Main] \o buffers[k]
          BY <1>0, <1>t, <3>0, <3>2 DEF Conservation, Holding
        <4>2. accepted[k] # delivered[k]
          <5>1. held[Main] \in Seq(Frame)
            BY <1>t
          <5>2. delivered[k] \o held[Main] \o buffers[k] = delivered[k] => held[Main] = <<>>
            BY <1>t, <5>1, NothingInHand, Zenon
          <5> QED
            BY <3>0, <4>1, <5>2
        <4>3. CASE buffers[k] = <<>>
          <5>1. accepted[k] = delivered[k] \o held[Main]
            <6>1. delivered[k] \o held[Main] \in Seq(Frame)
              BY <1>t, ConcatProperties
            <6> QED
              BY <4>1, <4>3, <6>1, ConcatEmptySeq
          <5>2. delivered'[k] = delivered[k] \o held[Main]
            BY <1>0, <3>0, <3>2 DEF TypeOK
          <5> QED
            BY <3>0, <5>1, <5>2 DEF Flushed
        <4> QED
          BY <2>2, <3>0, <3>1, <4>2, <4>3 DEF Flushed
      <3>3. CASE k # cur[Main]
        <4>1. delivered'[k] = delivered[k]
          BY <1>0, <3>0, <3>3 DEF TypeOK
        <4> QED
          BY <2>2, <3>0, <3>1, <3>3, <4>1 DEF Flushed
      <3> QED
        BY <3>2, <3>3
    <2> QED
      BY <2>1, <2>3, <2>4, <2>5, <2>6, <2>7, <2>8
  <1> QED
    BY <1>1, <1>2

\* shutdown delivers every accepted frame, provided its join did not time out
\* and neither a push nor a concat failed.
THEOREM ShutdownDelivers == Spec => []GracefulShutdown
  <1>1. Init => StopInv
    <2> SUFFICES ASSUME Init PROVE StopInv
      OBVIOUS
    <2>1. FailedOK /\ StopOK
      BY ThreadsAssumption DEF Init, FailedOK, StopOK, Threads
    <2>2. FlushedOK
      BY DEF Init, FlushedOK, CleanStop
    <2> QED
      BY <2>1, <2>2, InitIInv DEF StopInv
  <1>2. StopInv /\ [Next]_vars => StopInv'
    <2>1. IInv /\ [Next]_vars => IInv'
      BY TypeStep, ThreadStep, ExclusiveStep, ConservationStep DEF IInv
    <2>2. StopInv => IInv /\ TypeOK /\ FailedOK /\ StopOK
      BY DEF StopInv, IInv
    <2> QED
      BY <2>1, <2>2, FailedStep, StopStep, FlushedStep DEF StopInv
  <1>3. ASSUME StopInv PROVE GracefulShutdown
    <2> SUFFICES ASSUME pc[Main] \in {"down", "dead"}, ~timedOut, failures = 0,
                        \A k \in Keys : lost[k] = <<>>
                 PROVE  delivered = accepted
      BY DEF GracefulShutdown
    <2>1. CleanStop
      BY <1>3, ThreadsAssumption DEF StopInv, StopOK, CleanStop, Threads
    <2>2. \A k \in Keys : delivered[k] = accepted[k]
      BY <1>3, <2>1 DEF StopInv, FlushedOK, Flushed
    <2>3. delivered \in [Keys -> Seq(Frame)] /\ accepted \in [Keys -> Seq(Frame)]
      BY <1>3 DEF StopInv, IInv, TypeOK
    <2> QED
      BY <2>2, <2>3
  <1> QED
    BY <1>1, <1>2, <1>3, PTL DEF Spec
-------------------------------------------------------------------------------
(* How long a frame waits *)

\* No frame was dropped: true for ever if pd.concat cannot fail.
NoneLost == \A k \in Keys : lost[k] = <<>>

\* How long the oldest frame of key k may have waited, seen from the background
\* thread. While it waits: not longer than this wait if the key was flushed, or
\* first seen, since the wait began, else not longer than one interval more.
\* While it works: not longer than an interval, unless the key's flush is still
\* ahead of it in this round.
Timely(k) ==
    IF pc[Bg] = "wait"
    THEN /\ age[k] = Never \/ age[k] < waited => since[k] <= waited
         /\ since[k] <= Interval + waited
    ELSE /\ age[k] = Never => since[k] = 0
         /\ \/ since[k] <= Interval
            \/ /\ since[k] <= 2 * Interval
               /\ k \in work[Bg] \/ (cur[Bg] = k /\ pc[Bg] = "drain")

\* The waiting times of a server that runs and whose pushes do not fail.
TimelyOK ==
    (~stop /\ failures = 0) => \A k \in Keys :
       /\ k \in inflight \/ buffers[k] = <<>> => since[k] = 0
       /\ Timely(k)

\* The inductive invariant for waiting times.
TimeInv == IInv /\ FailedOK /\ StopOK /\ NoneLost /\ TimelyOK

\* Without failing concats nothing is dropped.
LEMMA NoneLostStep ==
    ASSUME ~ConcatMayFail, NoneLost, [Next]_vars PROVE NoneLost'
  <1>1. UNCHANGED lost
    <2>1. \A t \in Producers, k \in Keys : Enqueue(t, k) => UNCHANGED lost
      BY DEF Enqueue
    <2>2. Shutdown \/ FlushAll \/ Check \/ BgExit \/ Exit \/ Tick => UNCHANGED lost
      BY DEF Shutdown, FlushAll, Check, BgExit, Exit, Tick, hist
    <2>3. \A t \in Threads : NextKey(t) \/ Drain(t) \/ PushView(t) => UNCHANGED lost
      BY DEF NextKey, Drain, PushView, hist
    <2>4. \A t \in Threads : PushError(t) \/ Restore(t) \/ Complete(t) => UNCHANGED lost
      BY DEF PushError, Restore, Complete, hist
    <2>5. \A t \in Threads : ~ConcatError(t)
      BY DEF ConcatError
    <2> QED
      BY <2>1, <2>2, <2>3, <2>4, <2>5 DEF Next, Flush, vars, hist
  <1> QED
    BY <1>1 DEF NoneLost

\* The background thread looks at every key once per interval and flushes the
\* keys it finds due before it waits again.
LEMMA TimelyStep ==
    ASSUME Prompt, ~ConcatMayFail, TimeInv, [Next]_vars
    PROVE  TimelyOK'
  <1> SUFFICES ASSUME ~stop', failures' = 0, NEW k \in Keys
               PROVE  /\ k \in inflight' \/ buffers'[k] = <<>> => since'[k] = 0
                      /\ Timely(k)'
    BY DEF TimelyOK
  <1> DEFINE Goal == /\ k \in inflight' \/ buffers'[k] = <<>> => since'[k] = 0
                     /\ Timely(k)'
  <1>0. TypeOK /\ ThreadOK /\ InflightExclusive /\ StopOK /\ FailedOK /\ NoneLost /\ TimelyOK
    BY DEF TimeInv, IInv
  <1>t. /\ age[k] \in {Never} \cup (0..Interval) /\ since[k] \in Nat
        /\ waited \in 0..Interval /\ Interval \in Nat \ {0} /\ CheckInterval = Interval
        /\ Bg \in Threads /\ Producers \subseteq Threads /\ Never = -1
    BY <1>0, ConfigAssumption DEF TypeOK, CheckInterval, Threads, Never
  <1>u. /\ (~stop /\ failures = 0) =>
             /\ k \in inflight \/ buffers[k] = <<>> => since[k] = 0
             /\ Timely(k)
    BY <1>0 DEF TimelyOK
  <1>1. ASSUME NEW t \in Producers, NEW c \in Keys, Enqueue(t, c) PROVE Goal
    <2>1. /\ UNCHANGED <<stop, failures, inflight, age, waited, work>>
          /\ t # Bg
      BY <1>1, ThreadsAssumption DEF Enqueue
    <2>2. pc'[Bg] = pc[Bg] /\ cur'[Bg] = cur[Bg]
      BY <1>0, <1>1, <1>t, <2>1 DEF Enqueue, Goto, TypeOK
    <2>3. since'[k] = since[k] \/ (k = c /\ since'[k] = 0)
      BY <1>0, <1>1 DEF Enqueue, TypeOK
    <2>4. k # c => buffers'[k] = buffers[k]
      BY <1>0, <1>1 DEF Enqueue, TypeOK
    <2>5. k = c /\ buffers[k] = <<>> => since'[k] = 0
      BY <1>0, <1>1 DEF Enqueue, TypeOK
    <2>6. k = c => buffers'[k] # <<>>
      <3> SUFFICES ASSUME k = c PROVE buffers'[k] # <<>>
        OBVIOUS
      <3>1. PICK r \in RowCounts :
              buffers'[k] = Append(buffers[k], [id |-> Len(accepted[k]) + 1, rows |-> r])
        BY <1>0, <1>1 DEF Enqueue, TypeOK
      <3>2. buffers[k] \in Seq(Frame)
        BY <1>0 DEF TypeOK
      <3> QED
        BY <3>1, <3>2
    <2> QED
      BY <1>t, <1>u, <2>1, <2>2, <2>3, <2>4, <2>5, <2>6 DEF Timely
  <1>2. ~Shutdown /\ ~FlushAll /\ ~BgExit /\ ~Exit
    <2>1. ~Shutdown
      BY DEF Shutdown
    <2>2. FlushAll \/ BgExit \/ Exit => stop' = stop
      BY DEF FlushAll, BgExit, Exit, shared
    <2>3. pc[Main] \in {"join", "down"} => stop
      BY <1>0, ThreadsAssumption DEF StopOK, Threads
    <2> QED
      BY <2>1, <2>2, <2>3 DEF FlushAll, BgExit, Exit
  <1>3. CASE Check
    <2>1. /\ UNCHANGED <<stop, failures, inflight, buffers, waited, since, cur>>
          /\ pc[Bg] = "wait" /\ waited >= CheckInterval
      BY <1>3 DEF Check, hist
    <2>2. pc'[Bg] = "next"
      BY <1>0, <1>3, <1>t DEF Check, Goto, TypeOK
    <2>3. work'[Bg] = {c \in Keys : Due(c)} /\ age'[k] = AgeOnCheck(k)
      BY <1>0, <1>3, <1>t DEF Check, TypeOK
    <2>4. Timely(k) /\ (buffers[k] = <<>> => since[k] = 0)
      BY <1>u, <2>1
    <2>5. age'[k] = Never => since[k] = 0
      BY <1>t, <2>3, <2>4 DEF AgeOnCheck
    <2>6. since[k] <= Interval \/ (since[k] <= 2 * Interval /\ k \in work'[Bg])
      BY <1>t, <2>1, <2>3, <2>4 DEF Timely, Due
    <2> QED
      BY <1>u, <2>1, <2>2, <2>5, <2>6 DEF Timely
  <1>4. CASE Tick
    <2>1. UNCHANGED <<stop, failures, inflight, buffers, pc, cur, work>>
      BY <1>4 DEF Tick, local
    <2>2. \A t \in Threads : AtRest(t)
      BY <1>4 DEF Tick
    <2>3. pc[Bg] = "wait" /\ waited < CheckInterval
      BY <1>0, <1>t, <2>1, <2>2 DEF AtRest, StopOK
    <2>4. waited' = waited + 1
      BY <1>4, <2>3 DEF Tick
    <2>5. age'[k] = IF age[k] \in 0..(Interval - 1) THEN age[k] + 1 ELSE age[k]
      BY <1>4 DEF Tick
    <2>6. since'[k] = since[k] \/ (buffers[k] # <<>> /\ since'[k] = since[k] + 1)
      BY <1>4 DEF Tick
    <2>7. k \notin inflight
      <3>1. \A t \in Threads : ~Holding(t, k)
        BY <1>0, <2>1, <2>2 DEF AtRest, Holding, ThreadOK, StopOK
      <3> QED
        BY <1>0, <3>1 DEF InflightExclusive, NoneLost
    <2> QED
      BY <1>t, <1>u, <2>1, <2>3, <2>4, <2>5, <2>6, <2>7 DEF Timely
  <1>5. ASSUME NEW t \in Threads, NextKey(t) PROVE Goal
    <2>1. /\ pc[t] = "next"
          /\ UNCHANGED <<stop, failures, inflight, buffers, age, since>>
      BY <1>5 DEF NextKey, hist
    <2>2. CASE t # Bg
      <3>1. /\ pc'[Bg] = pc[Bg] /\ cur'[Bg] = cur[Bg] /\ work'[Bg] = work[Bg]
            /\ waited' = waited
        BY <1>0, <1>5, <1>t, <2>2 DEF NextKey, Goto, TypeOK
      <3> QED
        BY <1>u, <2>1, <3>1 DEF Timely
    <2>3. CASE t = Bg /\ work[Bg] = {}
      <3>1. pc'[Bg] = "wait" /\ waited' = 0
        BY <1>0, <1>5, <1>t, <2>3 DEF NextKey, Goto, Home, TypeOK
      <3> QED
        BY <1>t, <1>u, <2>1, <2>3, <3>1 DEF Timely
    <2>4. CASE t = Bg /\ work[Bg] # {}
      <3>1. PICK c \in work[Bg] : /\ work'[Bg] = work[Bg] \ {c}
                                  /\ cur'[Bg] = c /\ pc'[Bg] = "drain"
        BY <1>0, <1>5, <1>t, <2>4 DEF NextKey, Goto, TypeOK
      <3> QED
        BY <1>u, <2>1, <2>4, <3>1 DEF Timely
    <2> QED
      BY <2>2, <2>3, <2>4
  <1>6. ASSUME NEW t \in Threads, Drain(t) PROVE Goal
    <2>1. /\ pc[t] = "drain" /\ cur[t] \in Keys
          /\ UNCHANGED <<stop, failures, age, waited, cur, work>>
      BY <1>0, <1>6 DEF Drain, ThreadOK
    <2>2. /\ pc'[t] \in {"next", "push"}
          /\ \A u \in Threads \ {t} : pc'[u] = pc[u]
      BY <1>0, <1>6 DEF Drain, NothingDrained, Goto, TypeOK
    <2>3. CASE k = cur[t]
      <3>1. since'[k] = 0
        BY <1>0, <1>6, <1>u, <2>1, <2>3 DEF Drain, BusyOrEmpty, TypeOK
      <3> QED
        BY <1>t, <3>1, <2>1 DEF Timely
    <2>4. CASE k # cur[t]
      <3>1. since'[k] = since[k] /\ buffers'[k] = buffers[k] /\ (k \in inflight' <=> k \in inflight)
        BY <1>0, <1>6, <2>1, <2>4 DEF Drain, TypeOK
      <3>2. pc'[Bg] = "wait" <=> pc[Bg] = "wait"
        BY <1>t, <2>1, <2>2
      <3>3. ~(cur[Bg] = k /\ pc[Bg] = "drain") \/ pc'[Bg] = pc[Bg]
        BY <1>t, <2>2, <2>4
      <3> QED
        BY <1>u, <2>1, <3>1, <3>2, <3>3 DEF Timely
    <2> QED
      BY <2>3, <2>4
  <1>7. ASSUME NEW t \in Threads, Complete(t) PROVE Goal
    <2>1. /\ pc[t] = "push" /\ cur[t] \in Keys /\ cur[t] \in inflight
          /\ UNCHANGED <<stop, failures, waited, cur, work, since, buffers>>
      BY <1>0, <1>7 DEF Complete, ThreadOK, InflightExclusive, Holding
    <2>2. /\ pc'[t] \in {"next", "drain"} /\ inflight' = inflight \ {cur[t]}
          /\ \A u \in Threads \ {t} : pc'[u] = pc[u]
      BY <1>0, <1>7 DEF Complete, AfterFlush, Release, Goto, TypeOK
    <2>3. CASE k = cur[t]
      <3>1. since'[k] = 0
        BY <1>u, <2>1, <2>3
      <3> QED
        BY <1>t, <2>1, <3>1 DEF Timely
    <2>4. CASE k # cur[t]
      <3>1. age'[k] = age[k] /\ (k \in inflight' <=> k \in inflight)
        BY <1>0, <1>7, <2>2, <2>4 DEF Complete, TypeOK
      <3>2. pc'[Bg] = "wait" <=> pc[Bg] = "wait"
        BY <1>t, <2>1, <2>2
      <3>3. ~(cur[Bg] = k /\ pc[Bg] = "drain") \/ pc'[Bg] = pc[Bg]
        BY <1>t, <2>2, <2>4
      <3> QED
        BY <1>u, <2>1, <3>1, <3>2, <3>3 DEF Timely
    <2> QED
      BY <2>3, <2>4
  <1>8. ASSUME NEW t \in Threads, PushError(t) \/ Restore(t) PROVE FALSE
    <2>1. failures' = failures + 1 \/ (failures' = failures /\ pc[t] = "failed")
      BY <1>8 DEF PushError, Restore, hist
    <2>2. (pc[t] = "failed" => failures > 0) /\ failures \in Nat
      BY <1>0 DEF FailedOK, TypeOK
    <2> QED
      BY <2>1, <2>2
  <1>9. ASSUME NEW t \in Threads, PushView(t) PROVE Goal
    BY <1>9, <1>u DEF PushView, shared, Timely
  <1>10. \A t \in Threads : ~ConcatError(t)
    BY DEF ConcatError
  <1>11. CASE UNCHANGED vars
    BY <1>11, <1>u DEF vars, shared, local, hist, Timely
  <1> QED
    BY <1>1, <1>2, <1>3, <1>4, <1>5, <1>6, <1>7, <1>8, <1>9, <1>10, <1>11 DEF Next, Flush

\* If threads run promptly and neither pushes nor concats fail, no frame waits in
\* a buffer for longer than two intervals while the server runs: the second check
\* of _run after it arrived takes it at the latest.
THEOREM FramesWaitAtMostTwoIntervals ==
    ASSUME Prompt, ~ConcatMayFail PROVE Spec => []BufferedAtMostTwoIntervals
  <1>1. Init => TimeInv
    <2> SUFFICES ASSUME Init PROVE TimeInv
      OBVIOUS
    <2>1. FailedOK /\ StopOK
      BY ThreadsAssumption DEF Init, FailedOK, StopOK, Threads
    <2>2. NoneLost
      BY DEF Init, NoneLost
    <2>3. pc[Bg] = "wait" /\ waited = 0 /\ \A k \in Keys : since[k] = 0
      BY DEF Init, Threads
    <2>4. TimelyOK
      BY <2>3, ConfigAssumption DEF TimelyOK, Timely
    <2> QED
      BY <2>1, <2>2, <2>4, InitIInv DEF TimeInv
  <1>2. TimeInv /\ [Next]_vars => TimeInv'
    <2>1. IInv /\ [Next]_vars => IInv'
      BY TypeStep, ThreadStep, ExclusiveStep, ConservationStep DEF IInv
    <2>2. TimeInv => IInv /\ TypeOK /\ FailedOK /\ StopOK /\ NoneLost
      BY DEF TimeInv, IInv
    <2> QED
      BY <2>1, <2>2, FailedStep, StopStep, NoneLostStep, TimelyStep DEF TimeInv
  <1>3. ASSUME TimeInv PROVE BufferedAtMostTwoIntervals
    <2> SUFFICES ASSUME ~stop, failures = 0, NEW k \in Keys PROVE since[k] <= 2 * Interval
      BY DEF BufferedAtMostTwoIntervals
    <2>1. Timely(k)
      BY <1>3 DEF TimeInv, TimelyOK
    <2>2. since[k] \in Nat /\ waited \in 0..Interval /\ Interval \in Nat
      BY <1>3, ConfigAssumption DEF TimeInv, IInv, TypeOK, CheckInterval
    <2> QED
      BY <2>1, <2>2 DEF Timely
  <1> QED
    BY <1>1, <1>2, <1>3, PTL DEF Spec
================================================================================
