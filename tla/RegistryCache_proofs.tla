------------------------ MODULE RegistryCache_proofs ------------------------
(***************************************************************************)
(* Proofs about the caching registry, for any finite number of request     *)
(* threads, any set of writers and crews and any number of writes.         *)
(***************************************************************************)
EXTENDS RegistryCache, FiniteSetTheorems, TLAPS

\* Only requests remember a time.
OnlyReadersRemember == \A t \in Threads \ Readers : th[t].ts = None

\* The state has its type.
Typed == TypeOK /\ OnlyReadersRemember

-----------------------------------------------------------------------------
(* Times *)

\* A time that is remembered moves one place back, at least to place 1, and no
\* more times are remembered than there are requests and the resolution cache.
LEMMA OlderType ==
    ASSUME Typed, NEW time \in Remembered \cup {None}
    PROVE  Older(time) \in (Times \ {0}) \cup {None}
  <1>1. CASE time = None
    BY <1>1 DEF Older
  <1>2. CASE time # None
    <2> DEFINE S == {th[r].ts : r \in Readers}
               T == S \cup {res.tag}
               B == {x \in Remembered : x < time}
    <2>1. IsFiniteSet(Readers) /\ Cardinality(Readers) \in Nat
      BY CacheAssumption, FS_CardinalityType
    <2>2. IsFiniteSet(S) /\ Cardinality(S) <= Cardinality(Readers)
      <3>1. [r \in Readers |-> th[r].ts] \in Surjection(Readers, S)
        BY DEF Surjection
      <3> QED
        BY <2>1, <3>1, FS_Surjection
    <2>3. Cardinality(S) \in Nat
      BY <2>2, FS_CardinalityType
    <2>4. IsFiniteSet(T) /\ Cardinality(T) <= Cardinality(S) + 1
      <3>1. /\ IsFiniteSet(T)
            /\ Cardinality(T) = IF res.tag \in S THEN Cardinality(S) ELSE Cardinality(S) + 1
        BY <2>2, FS_AddElement, Zenon
      <3> QED
        BY <2>3, <3>1
    <2>5. time \in T \ {None} /\ Remembered = T \ {None}
      BY <1>2 DEF Remembered
    <2>6. /\ IsFiniteSet(T \ {time}) /\ Cardinality(T \ {time}) = Cardinality(T) - 1
          /\ Cardinality(T) \in Nat
      BY <2>4, <2>5, FS_RemoveElement, FS_CardinalityType
    <2>7. B \subseteq T \ {time}
      <3>1. T \ {None} \subseteq Nat
        BY DEF Typed, TypeOK, Thread, Times, Threads
      <3> QED
        BY <2>5, <3>1
    <2>8. IsFiniteSet(B) /\ Cardinality(B) <= Cardinality(T \ {time})
      BY <2>6, <2>7, FS_Subset
    <2>9. Cardinality(B) \in Nat
      BY <2>8, FS_CardinalityType
    <2>10. 1 + Cardinality(B) \in 1..(Cardinality(Readers) + 1)
      BY <2>1, <2>2, <2>3, <2>4, <2>6, <2>8, <2>9
    <2>11. Older(time) = 1 + Cardinality(B)
      BY <1>2 DEF Older
    <2> HIDE DEF B
    <2> QED
      BY <2>1, <2>10, <2>11 DEF Times
  <1> QED
    BY <1>1, <1>2

-----------------------------------------------------------------------------
(* Type correctness *)

\* The counts of writes that occur lie within the bound of the crew.
LEMMA VersionsContain ==
    ASSUME crew \in Crews
    PROVE  0 \in Versions /\ 0..crew.writes \subseteq Versions /\ Versions \subseteq Nat
  BY CacheAssumption DEF Versions

\* The process starts in a typed state.
LEMMA InitTyped == Init => Typed
  <1> SUFFICES ASSUME Init PROVE Typed
    OBVIOUS
  <1>1. Zero \in Protos
    BY VersionsContain DEF Init, Zero, Protos
  <1>2. Times \subseteq Nat /\ 0 \in Times
    BY CacheAssumption, FS_CardinalityType DEF Times
  <1>3. th \in [Threads -> Thread]
    BY <1>1 DEF Init, Thread, PCs
  <1>4. \A t \in Threads : th[t].pc \in {"armed", "none"} => t \in {Timer, Server}
    BY DEF Init
  <1>5. OnlyReadersRemember
    BY DEF Init, OnlyReadersRemember
  <1>6. vs \in Versions /\ fails \in 0..MaxFails
    BY VersionsContain, CacheAssumption DEF Init
  <1>7. res \in [tag : Times \cup {None}, entry : Entry \cup {None}]
    BY DEF Init
  <1> QED
    BY <1>1, <1>3, <1>4, <1>5, <1>6, <1>7 DEF Init, Typed, TypeOK

\* Where a thread goes on after its refresh.
LEMMA AfterRefreshType ==
    ASSUME Typed, NEW t \in Threads
    PROVE  /\ AfterRefresh(t) \in PCs \ Refreshing
           /\ AfterRefresh(t) \in {"armed", "none"} => t \in {Timer, Server}
           /\ t \in Readers => AfterRefresh(t) = th[t].ret
  <1>1. CASE t \in Readers \cup Writers
    <2>1. AfterRefresh(t) = th[t].ret
      BY <1>1, CacheAssumption DEF AfterRefresh
    <2>2. th[t].ret \in {"read1", "read2", "update", "idle"}
      BY DEF Typed, TypeOK, Thread
    <2> QED
      BY <2>1, <2>2 DEF PCs, Refreshing
  <1>3. CASE t = Timer
    <2>1. AfterRefresh(t) = "armed"
      BY <1>3, CacheAssumption DEF AfterRefresh
    <2> QED
      BY <1>3, <2>1, CacheAssumption DEF PCs, Refreshing
  <1>4. CASE t = Server
    <2>1. AfterRefresh(t) = "vs"
      BY <1>4, CacheAssumption DEF AfterRefresh
    <2> QED
      BY <1>4, <2>1, CacheAssumption DEF PCs, Refreshing
  <1> QED
    BY <1>1, <1>3, <1>4 DEF Threads

\* What a thread is after its refresh: nothing of it is left.
LEMMA ReturnedType ==
    ASSUME Typed, NEW t \in Threads
    PROVE  /\ Returned(t) \in [Threads -> Thread]
           /\ \A u \in Threads : u # t => Returned(t)[u] = th[u]
           /\ Returned(t)[t].pc = AfterRefresh(t) /\ Returned(t)[t].buf = Zero
           /\ Returned(t)[t].ts = th[t].ts /\ Returned(t)[t].answer = th[t].answer
           /\ Returned(t)[t].clean = th[t].clean
  <1>1. Zero \in Protos
    BY VersionsContain DEF Typed, TypeOK, Zero, Protos
  <1>2. AfterRefresh(t) \in PCs
    BY AfterRefreshType
  <1>3. th \in [Threads -> Thread] /\ th[t] \in Thread
    BY DEF Typed, TypeOK
  <1> DEFINE a == [th EXCEPT ![t].pc = AfterRefresh(t)]
             b == [a EXCEPT ![t].buf = Zero]
  <1>4. /\ a \in [Threads -> Thread] /\ \A u \in Threads : u # t => a[u] = th[u]
        /\ a[t].pc = AfterRefresh(t) /\ a[t].ts = th[t].ts
        /\ a[t].answer = th[t].answer /\ a[t].clean = th[t].clean
    BY <1>2, <1>3 DEF Thread
  <1>5. /\ b \in [Threads -> Thread] /\ \A u \in Threads : u # t => b[u] = a[u]
        /\ b[t].pc = a[t].pc /\ b[t].ts = a[t].ts /\ b[t].buf = Zero
        /\ b[t].answer = a[t].answer /\ b[t].clean = a[t].clean
    <2> HIDE DEF a
    <2> QED
      BY <1>1, <1>4 DEF Thread
  <1>6. Returned(t) = [b EXCEPT ![t].ret = "read1"]
    BY DEF Returned
  <1> HIDE DEF a, b
  <1> QED
    BY <1>4, <1>5, <1>6 DEF Thread

\* A step that moves one thread only, and keeps its fields in their types.
Moves(t) ==
    /\ th' \in [Threads -> Thread]
    /\ \A u \in Threads : u # t => th'[u] = th[u]
    /\ th'[t].pc \in {"armed", "none"} => t \in {Timer, Server}
    /\ t \notin Readers => th'[t].ts = th[t].ts

\* Such a step keeps the state typed if it keeps the rest of it typed.
LEMMA MovesTyped ==
    ASSUME Typed, NEW t \in Threads, Moves(t),
           crew' \in Crews, db' \in Protos, cached' \in Protos, expired' \in BOOLEAN,
           lock' \in Readers \cup {Free},
           res' \in [tag : Times \cup {None}, entry : Entry \cup {None}],
           shutting' \in BOOLEAN, vs' \in Versions, fails' \in 0..MaxFails,
           covered' \in Protos, excused' \in BOOLEAN
    PROVE  Typed'
  <1>1. \A u \in Threads : th'[u].pc \in {"armed", "none"} => u \in {Timer, Server}
    BY DEF Typed, TypeOK, Moves
  <1>2. \A u \in Threads \ Readers : th'[u].ts = None
    BY DEF Typed, OnlyReadersRemember, Moves
  <1>3. th' \in [Threads -> Thread]
    BY DEF Moves
  <1> QED
    BY <1>1, <1>2, <1>3 DEF Typed, TypeOK, OnlyReadersRemember, Versions

\* Going to another place is such a move.
LEMMA GotoMoves ==
    ASSUME Typed, NEW t \in Threads, NEW pc \in PCs, Goto(t, pc),
           pc \in {"armed", "none"} => t \in {Timer, Server}
    PROVE  /\ Moves(t) /\ th'[t].pc = pc
           /\ th'[t].ts = th[t].ts /\ th'[t].buf = th[t].buf /\ th'[t].ret = th[t].ret
           /\ th'[t].clean = th[t].clean /\ th'[t].answer = th[t].answer
  BY DEF Goto, Moves, Typed, TypeOK, Thread

\* What one table's read does to the reading thread.
LEMMA ReadMoves ==
    ASSUME Typed, NEW t \in Threads, ReadEntities(t) \/ ReadViews(t)
    PROVE  /\ Moves(t) /\ th[t].pc \in Refreshing /\ th'[t].pc \in Refreshing \ {"stamp"}
           /\ th'[t].ts = th[t].ts /\ th'[t].ret = th[t].ret
           /\ th'[t].clean = th[t].clean /\ th'[t].answer = th[t].answer
           /\ UNCHANGED <<crew, db, cached, expired, lock, res, shutting, vs, fails, covered, excused>>
           /\ \/ /\ th[t].pc = "proto1" /\ th'[t].pc = "proto2"
                 /\ th'[t].buf["entities"] = db["entities"]
                 /\ th'[t].buf["views"] = th[t].buf["views"]
              \/ /\ th[t].pc = "proto2" /\ th'[t].pc = "assign"
                 /\ th'[t].buf["views"] = db["views"]
                 /\ th'[t].buf["entities"] = th[t].buf["entities"]
  <1>0. /\ th[t] \in Thread /\ th \in [Threads -> Thread] /\ db \in Protos
        /\ th[t].buf \in Protos
    BY DEF Typed, TypeOK, Thread
  <1>1. CASE ReadEntities(t)
    <2> DEFINE b == [th[t].buf EXCEPT !["entities"] = db["entities"]]
    <2>1. b \in Protos /\ b["entities"] = db["entities"] /\ b["views"] = th[t].buf["views"]
      BY <1>0 DEF Protos, Tables
    <2>2. th' = [th EXCEPT ![t] = [th[t] EXCEPT !.pc = "proto2", !.buf = b]]
      BY <1>0, <1>1 DEF ReadEntities, Thread
    <2> HIDE DEF b
    <2>3. /\ Moves(t) /\ th'[t].pc = "proto2" /\ th'[t].buf = b
          /\ th'[t].ts = th[t].ts /\ th'[t].ret = th[t].ret
          /\ th'[t].clean = th[t].clean /\ th'[t].answer = th[t].answer
      BY <1>0, <2>1, <2>2 DEF Moves, Thread, PCs, Refreshing
    <2> QED
      BY <1>1, <2>1, <2>3 DEF ReadEntities, Refreshing
  <1>2. CASE ReadViews(t)
    <2> DEFINE b == [th[t].buf EXCEPT !["views"] = db["views"]]
    <2>1. b \in Protos /\ b["views"] = db["views"] /\ b["entities"] = th[t].buf["entities"]
      BY <1>0 DEF Protos, Tables
    <2>2. th' = [th EXCEPT ![t] = [th[t] EXCEPT !.pc = "assign", !.buf = b]]
      BY <1>0, <1>2 DEF ReadViews, Thread
    <2> HIDE DEF b
    <2>3. /\ Moves(t) /\ th'[t].pc = "assign" /\ th'[t].buf = b
          /\ th'[t].ts = th[t].ts /\ th'[t].ret = th[t].ret
          /\ th'[t].clean = th[t].clean /\ th'[t].answer = th[t].answer
      BY <1>0, <2>1, <2>2 DEF Moves, Thread, PCs, Refreshing
    <2> QED
      BY <1>2, <2>1, <2>3 DEF ReadViews, Refreshing
  <1> QED
    BY <1>1, <1>2

\* What a failing read does.
LEMMA FailMoves ==
    ASSUME Typed, NEW t \in Threads, ReadFails(t)
    PROVE  /\ Moves(t) /\ th[t].pc \in {"proto1", "proto2"}
           /\ th'[t].ts = th[t].ts /\ th'[t].clean = th[t].clean
           /\ th'[t].answer = th[t].answer
           /\ excused' = (excused \/ t \in Writers)
           /\ UNCHANGED <<crew, db, cached, expired, res, shutting, vs, covered>>
           /\ fails < MaxFails /\ fails' = fails + 1
           /\ \/ /\ th'[t].pc = AfterRefresh(t) /\ th'[t].buf = Zero
                 /\ lock' = IF lock = t THEN Free ELSE lock
              \/ /\ th'[t].pc = "assign" /\ th'[t].buf = th[t].buf
                 /\ th'[t].ret = th[t].ret /\ lock' = lock
  <1>1. CASE ReleaseLock(t) /\ th' = Returned(t)
    BY <1>1, AfterRefreshType, ReturnedType DEF ReadFails, ReleaseLock, Moves
  <1>2. CASE Goto(t, "assign") /\ UNCHANGED lock
    <2>1. "assign" \in PCs
      BY DEF PCs, Refreshing
    <2> QED
      BY <1>2, <2>1, GotoMoves DEF ReadFails
  <1> QED
    BY <1>1, <1>2 DEF ReadFails

\* What the stamp does: the refresh is over, and no remembered time is current.
LEMMA StampMoves ==
    ASSUME Typed, NEW t \in Threads, Stamp(t)
    PROVE  /\ th[t].pc = "stamp" /\ th' \in [Threads -> Thread]
           /\ th'[t].pc = AfterRefresh(t) /\ th'[t].buf = Zero
           /\ \A u \in Threads : u # t => /\ th'[u].pc = th[u].pc /\ th'[u].buf = th[u].buf
                                          /\ th'[u].ret = th[u].ret
           /\ \A u \in Threads : /\ th'[u].ts # 0
                                 /\ th'[u].ts = Older(th[u].ts)
                                 /\ th'[u].answer = th[u].answer
                                 /\ th'[u].clean = th[u].clean
           /\ res' \in [tag : (Times \cup {None}) \ {0}, entry : Entry \cup {None}]
           /\ lock' = IF lock = t THEN Free ELSE lock
           /\ expired' = FALSE
           /\ UNCHANGED <<crew, db, cached, shutting, vs, fails, covered, excused>>
  <1> DEFINE R == Returned(t)
  <1>1. /\ R \in [Threads -> Thread] /\ \A u \in Threads : u # t => R[u] = th[u]
        /\ R[t].pc = AfterRefresh(t) /\ R[t].buf = Zero
        /\ R[t].ts = th[t].ts /\ R[t].answer = th[t].answer /\ R[t].clean = th[t].clean
    BY ReturnedType
  <1> HIDE DEF R
  <1>2. th' = [u \in Threads |-> [R[u] EXCEPT !.ts = Older(R[u].ts)]]
    BY DEF Stamp, StampTime, R
  <1>3. \A u \in Threads : R[u].ts = th[u].ts /\ R[u].ts \in Remembered \cup {None}
    <2>1. \A u \in Threads : R[u].ts = th[u].ts
      BY <1>1
    <2>2. \A u \in Threads : th[u].ts \in Remembered \cup {None}
      BY DEF Typed, OnlyReadersRemember, Remembered
    <2> QED
      BY <2>1, <2>2
  <1>4. \A u \in Threads : Older(R[u].ts) \in (Times \ {0}) \cup {None}
    BY <1>3, OlderType
  <1>5. None # 0
    BY CacheAssumption
  <1>6. th' \in [Threads -> Thread]
    BY <1>1, <1>2, <1>4 DEF Thread
  <1>7. \A u \in Threads : /\ th'[u].ts = Older(th[u].ts) /\ th'[u].pc = R[u].pc
                           /\ th'[u].buf = R[u].buf /\ th'[u].answer = R[u].answer
                           /\ th'[u].clean = R[u].clean /\ th'[u].ret = R[u].ret
    BY <1>1, <1>2, <1>3 DEF Thread
  <1>8. res.tag \in Remembered \cup {None} /\ res.tag \in Times \cup {None}
    BY DEF Remembered, Typed, TypeOK
  <1>9. Older(res.tag) \in (Times \cup {None}) \ {0}
    BY <1>5, <1>8, OlderType
  <1>10. res' = [res EXCEPT !.tag = Older(res.tag)]
    BY DEF Stamp, StampTime
  <1>11. res' \in [tag : (Times \cup {None}) \ {0}, entry : Entry \cup {None}]
    BY <1>9, <1>10 DEF Typed, TypeOK
  <1>12. \A u \in Threads : th'[u].ts # 0
    BY <1>3, <1>4, <1>5, <1>7
  <1> QED
    BY <1>1, <1>6, <1>7, <1>11, <1>12 DEF Stamp, StampTime, ReleaseLock

\* What each step of a request does to the requesting thread.
LEMMA RequestMoves ==
    ASSUME Typed, NEW r \in Readers, Request(r)
    PROVE  /\ Moves(r) /\ th[r].pc \notin Refreshing
           /\ th'[r].buf = th[r].buf
           /\ UNCHANGED <<crew, db, cached, expired, shutting, vs, fails, covered, excused>>
           /\ \/ /\ th'[r].pc \in {"valid", "lookup", "get1"} /\ UNCHANGED <<lock, res>>
              \/ /\ th[r].pc = "lookup" /\ UNCHANGED lock
                 /\ \/ th'[r].pc = "get1" /\ res' = [tag |-> th[r].ts, entry |-> None]
                    \/ th'[r].pc \in {"idle", "get1"} /\ UNCHANGED res
              \/ /\ UNCHANGED <<lock, res>>
                 /\ th'[r].ts = th[r].ts /\ th'[r].answer = th[r].answer
                 /\ \/ th[r].pc = "get1" /\ th'[r].pc \in {"acquire1", "read1"}
                    \/ th[r].pc = "get2" /\ th'[r].pc \in {"acquire2", "read2"}
              \/ /\ th[r].pc \in {"acquire1", "acquire2"} /\ UNCHANGED res
                 /\ th'[r].ts = th[r].ts /\ th'[r].answer = th[r].answer
                 /\ \/ /\ lock = Free /\ lock' = r /\ th'[r].pc = "proto1"
                       /\ th'[r].ret = ReadOf(th[r].pc)
                    \/ th'[r].pc = ReadOf(th[r].pc) /\ UNCHANGED lock
              \/ /\ th[r].pc = "read1" /\ th'[r].pc = "get2" /\ UNCHANGED <<lock, res>>
                 /\ th'[r].ts = th[r].ts /\ th'[r].answer["views"] = cached["views"]
              \/ /\ th[r].pc = "read2" /\ th'[r].pc = "after" /\ UNCHANGED <<lock, res>>
                 /\ th'[r].ts = th[r].ts
                 /\ th'[r].answer["views"] = th[r].answer["views"]
                 /\ th'[r].answer["entities"] = cached["entities"]
              \/ /\ th[r].pc = "after" /\ th'[r].pc = "put" /\ UNCHANGED <<lock, res>>
                 /\ th'[r].answer = th[r].answer /\ th'[r].clean = (th[r].ts = 0)
              \/ /\ th[r].pc = "put" /\ th'[r].pc = "idle" /\ UNCHANGED lock
                 /\ res' = [tag |-> th[r].ts,
                            entry |-> [ctx |-> th[r].answer, clean |-> th[r].clean]]
  <1>0. /\ r \in Threads /\ th \in [Threads -> Thread] /\ th[r] \in Thread
        /\ th[r].answer \in Protos /\ cached \in Protos /\ 0 \in Times
    <2>1. 0 \in Times
      BY CacheAssumption, FS_CardinalityType DEF Times
    <2> QED
      BY <2>1 DEF Typed, TypeOK, Thread, Threads
  <1>1. CASE Start(r)
    BY <1>0, <1>1 DEF Start, Moves, Thread, PCs, Refreshing
  <1>2. CASE CheckValid(r)
    <2>1. PICK pc \in {"get1", "lookup"} : Goto(r, pc)
      BY <1>2 DEF CheckValid
    <2>2. pc \in PCs /\ pc \notin {"armed", "none"}
      BY DEF PCs
    <2>3. Moves(r) /\ th'[r].pc = pc /\ th'[r].buf = th[r].buf
      BY <1>0, <2>1, <2>2, GotoMoves
    <2> QED
      BY <1>2, <2>3 DEF CheckValid, Refreshing
  <1>3. CASE Lookup(r)
    <2>1. CASE Goto(r, "get1")
      <3>1. "get1" \in PCs
        BY DEF PCs
      <3>2. Moves(r) /\ th'[r].pc = "get1" /\ th'[r].buf = th[r].buf
        BY <1>0, <2>1, <3>1, GotoMoves
      <3> QED
        BY <1>3, <3>2 DEF Lookup, Refreshing
    <2>2. CASE /\ th' = [th EXCEPT ![r].pc = "idle", ![r].ts = None,
                                   ![r].answer = res.entry.ctx]
               /\ res.entry # None /\ UNCHANGED res
      <3>1. res.entry.ctx \in Protos
        BY <2>2 DEF Typed, TypeOK, Entry
      <3>2. th' = [th EXCEPT ![r] = [th[r] EXCEPT !.pc = "idle", !.ts = None,
                                                  !.answer = res.entry.ctx]]
        BY <1>0, <2>2 DEF Thread
      <3>3. Moves(r) /\ th'[r].pc = "idle" /\ th'[r].buf = th[r].buf
        BY <1>0, <3>1, <3>2 DEF Moves, Thread, PCs
      <3> QED
        BY <1>3, <2>2, <3>3 DEF Lookup, Refreshing
    <2> QED
      BY <1>3, <2>1, <2>2 DEF Lookup
  <1>9. CASE Ensure(r)
    <2>1. PICK pc \in {"acquire1", "read1", "acquire2", "read2"} :
             /\ Goto(r, pc)
             /\ \/ th[r].pc = "get1" /\ pc \in {"acquire1", "read1"}
                \/ th[r].pc = "get2" /\ pc \in {"acquire2", "read2"}
      BY <1>9 DEF Ensure
    <2>2. pc \in PCs /\ pc \notin {"armed", "none"}
      BY DEF PCs
    <2>3. /\ Moves(r) /\ th'[r].pc = pc /\ th'[r].buf = th[r].buf
          /\ th'[r].ts = th[r].ts /\ th'[r].answer = th[r].answer
      BY <1>0, <2>1, <2>2, GotoMoves
    <2> QED
      BY <1>9, <2>1, <2>3 DEF Ensure, Refreshing
  <1>4. CASE Acquire(r)
    <2>1. CASE lock' = r /\ lock = Free
               /\ th' = [th EXCEPT ![r].pc = "proto1", ![r].ret = ReadOf(th[r].pc)]
      <3>1. ReadOf(th[r].pc) \in {"read1", "read2"}
        BY DEF ReadOf
      <3>2. /\ Moves(r) /\ th'[r].pc = "proto1" /\ th'[r].ret = ReadOf(th[r].pc)
            /\ th'[r].buf = th[r].buf /\ th'[r].ts = th[r].ts
            /\ th'[r].answer = th[r].answer
        BY <1>0, <2>1, <3>1 DEF Moves, Thread, PCs, Refreshing
      <3> QED
        BY <1>4, <2>1, <3>2 DEF Acquire, Refreshing
    <2>2. CASE Goto(r, ReadOf(th[r].pc)) /\ UNCHANGED lock
      <3>1. ReadOf(th[r].pc) \in PCs /\ ReadOf(th[r].pc) \notin {"armed", "none"}
        BY DEF ReadOf, PCs
      <3>2. /\ Moves(r) /\ th'[r].pc = ReadOf(th[r].pc) /\ th'[r].buf = th[r].buf
            /\ th'[r].ts = th[r].ts /\ th'[r].answer = th[r].answer
        BY <1>0, <2>2, <3>1, GotoMoves
      <3> QED
        BY <1>4, <2>2, <3>2 DEF Acquire, Refreshing
    <2> QED
      BY <1>4, <2>1, <2>2 DEF Acquire
  <1>5. CASE ReadCached(r)
    <2>1. CASE /\ th[r].pc = "read1"
               /\ th' = [th EXCEPT ![r].pc = "get2", ![r].answer["views"] = cached["views"]]
      <3> DEFINE a == [th[r].answer EXCEPT !["views"] = cached["views"]]
      <3>1. a \in Protos /\ a["views"] = cached["views"]
        BY <1>0 DEF Protos, Tables
      <3>2. th' = [th EXCEPT ![r] = [th[r] EXCEPT !.pc = "get2", !.answer = a]]
        BY <1>0, <2>1 DEF Thread
      <3> HIDE DEF a
      <3>3. /\ Moves(r) /\ th'[r].pc = "get2" /\ th'[r].buf = th[r].buf
            /\ th'[r].ts = th[r].ts /\ th'[r].answer = a
        BY <1>0, <3>1, <3>2 DEF Moves, Thread, PCs
      <3> QED
        BY <1>5, <2>1, <3>1, <3>3 DEF ReadCached, Refreshing
    <2>2. CASE /\ th[r].pc = "read2"
               /\ th' = [th EXCEPT ![r].pc = "after",
                                   ![r].answer["entities"] = cached["entities"]]
      <3> DEFINE a == [th[r].answer EXCEPT !["entities"] = cached["entities"]]
      <3>1. /\ a \in Protos /\ a["entities"] = cached["entities"]
            /\ a["views"] = th[r].answer["views"]
        BY <1>0 DEF Protos, Tables
      <3>2. th' = [th EXCEPT ![r] = [th[r] EXCEPT !.pc = "after", !.answer = a]]
        BY <1>0, <2>2 DEF Thread
      <3> HIDE DEF a
      <3>3. /\ Moves(r) /\ th'[r].pc = "after" /\ th'[r].buf = th[r].buf
            /\ th'[r].ts = th[r].ts /\ th'[r].answer = a
        BY <1>0, <3>1, <3>2 DEF Moves, Thread, PCs
      <3> QED
        BY <1>5, <2>2, <3>1, <3>3 DEF ReadCached, Refreshing
    <2> QED
      BY <1>5, <2>1, <2>2 DEF ReadCached
  <1>6. CASE TimeAfter(r)
    <2>1. (th[r].ts = 0) \in BOOLEAN
      OBVIOUS
    <2>2. /\ Moves(r) /\ th'[r].pc = "put" /\ th'[r].buf = th[r].buf
          /\ th'[r].answer = th[r].answer /\ th'[r].clean = (th[r].ts = 0)
      BY <1>0, <1>6, <2>1 DEF TimeAfter, Moves, Thread, PCs
    <2> QED
      BY <1>6, <2>2 DEF TimeAfter, Refreshing
  <1>7. CASE Put(r)
    <2>1. Moves(r) /\ th'[r].pc = "idle" /\ th'[r].buf = th[r].buf
      BY <1>0, <1>7 DEF Put, Moves, Thread, PCs
    <2> QED
      BY <1>7, <2>1 DEF Put, Refreshing
  <1> QED
    BY <1>1, <1>2, <1>3, <1>4, <1>5, <1>6, <1>7, <1>9 DEF Request

\* What the assignment of a new proto does.
LEMMA AssignMoves ==
    ASSUME Typed, NEW t \in Threads, Assign(t)
    PROVE  /\ Moves(t) /\ th[t].pc = "assign" /\ th'[t].pc = "stamp"
           /\ th'[t].buf = th[t].buf /\ cached' = th[t].buf /\ cached' \in Protos
           /\ excused' = (excused \/ \E tb \in Tables : th[t].buf[tb] < cached[tb])
           /\ UNCHANGED <<crew, db, expired, lock, res, shutting, vs, fails, covered>>
  <1>1. "stamp" \in PCs /\ th[t].buf \in Protos
    BY DEF PCs, Refreshing, Typed, TypeOK, Thread
  <1>2. Moves(t) /\ th'[t].pc = "stamp" /\ th'[t].buf = th[t].buf
    BY <1>1, GotoMoves DEF Assign
  <1> QED
    BY <1>1, <1>2 DEF Assign

\* What a commit leaves: one table has one write more.
LEMMA CommitType ==
    ASSUME Typed, NEW tb \in Tables, Commit(tb), crew' = crew
    PROVE  /\ db' \in Protos /\ db'[tb] = db[tb] + 1
           /\ \A x \in Tables : x # tb => db'[x] = db[x]
  <1>1. /\ db["entities"] \in Nat /\ db["views"] \in Nat /\ crew.writes \in Nat
        /\ db \in Protos /\ crew \in Crews
    BY VersionsContain, CacheAssumption DEF Typed, TypeOK, Protos, Tables
  <1>2. db[tb] + 1 \in 0..crew.writes
    BY <1>1 DEF Commit, Tables
  <1>3. db[tb] + 1 \in Versions
    BY <1>1, <1>2, VersionsContain
  <1> QED
    BY <1>1, <1>3 DEF Commit, Protos

\* What a write of this process does: in mode "sync" its refresh begins.
LEMMA WriteMoves ==
    ASSUME Typed, NEW w \in Writers, NEW tb \in Tables, Write(w, tb)
    PROVE  /\ Moves(w) /\ th[w].pc = "idle" /\ th'[w].buf = th[w].buf
           /\ \/ crew.mode = "sync" /\ th'[w].pc = "proto1" /\ covered' = db'
              \/ /\ crew.mode # "sync" /\ th'[w].pc \in {"idle", "update"}
                 /\ covered' = covered
           /\ db' \in Protos /\ \A x \in Tables : db'[x] = db[x] \/ db'[x] = db[x] + 1
           /\ UNCHANGED <<crew, cached, expired, lock, res, shutting, vs, fails, excused>>
  <1>1. /\ w \in Threads /\ th \in [Threads -> Thread] /\ th[w] \in Thread
        /\ AfterWrite(tb) \in {"update", "idle"} /\ {"update", "idle", "proto1"} \subseteq PCs
    BY DEF Typed, TypeOK, Threads, AfterWrite, PCs, Refreshing
  <1>2. db' \in Protos /\ \A x \in Tables : db'[x] = db[x] \/ db'[x] = db[x] + 1
    BY CommitType DEF Write
  <1>3. CASE crew.mode = "sync"
    <2>1. /\ th' = [th EXCEPT ![w].pc = "proto1", ![w].ret = AfterWrite(tb)]
          /\ covered' = db'
      BY <1>3 DEF Write
    <2>2. Moves(w) /\ th'[w].pc = "proto1" /\ th'[w].buf = th[w].buf
      BY <1>1, <2>1 DEF Moves, Thread
    <2> QED
      BY <1>2, <1>3, <2>1, <2>2 DEF Write
  <1>4. CASE crew.mode # "sync"
    <2>1. Goto(w, AfterWrite(tb)) /\ covered' = covered
      BY <1>4 DEF Write
    <2>2. Moves(w) /\ th'[w].pc = AfterWrite(tb) /\ th'[w].buf = th[w].buf
      BY <1>1, <2>1, GotoMoves
    <2> QED
      BY <1>1, <1>2, <1>4, <2>1, <2>2 DEF Write
  <1> QED
    BY <1>3, <1>4

\* What the writes without a refresh do.
LEMMA SilentMoves ==
    ASSUME Typed, NEW w \in Writers, Update(w) \/ DeleteProject(w)
    PROVE  /\ Moves(w) /\ th'[w].buf = th[w].buf
           /\ th[w].pc \in {"idle", "update"} /\ th'[w].pc = "idle"
           /\ db' \in Protos /\ \A x \in Tables : db'[x] = db[x] \/ db'[x] = db[x] + 1
           /\ UNCHANGED <<crew, cached, expired, lock, res, shutting, vs, fails, covered,
                          excused>>
  <1>1. /\ w \in Threads /\ th \in [Threads -> Thread] /\ "idle" \in PCs
        /\ "views" \in Tables /\ db \in Protos
    BY DEF Typed, TypeOK, Threads, PCs, Tables
  <1>2. CASE Update(w)
    <2>1. Moves(w) /\ th'[w].pc = "idle" /\ th'[w].buf = th[w].buf
      BY <1>1, <1>2, GotoMoves DEF Update
    <2>2. db' \in Protos /\ \A x \in Tables : db'[x] = db[x] \/ db'[x] = db[x] + 1
      BY <1>1, <1>2, CommitType DEF Update
    <2> QED
      BY <1>2, <2>1, <2>2 DEF Update
  <1>3. CASE DeleteProject(w)
    <2>1. Moves(w)
      BY <1>1, <1>3 DEF DeleteProject, Moves, Typed, TypeOK
    <2>2. /\ db["entities"] \in Nat /\ db["views"] \in Nat /\ crew.writes \in Nat
          /\ crew \in Crews
      BY VersionsContain, CacheAssumption DEF Typed, TypeOK, Protos, Tables
    <2>3. \A x \in Tables : db[x] + 1 \in 0..crew.writes
      BY <1>3, <2>2 DEF DeleteProject, Tables
    <2>4. \A x \in Tables : db[x] + 1 \in Versions
      BY <2>2, <2>3, VersionsContain
    <2>5. db' \in Protos /\ \A x \in Tables : db'[x] = db[x] + 1
      BY <1>3, <2>4 DEF DeleteProject, Protos
    <2> QED
      BY <1>3, <2>1, <2>5 DEF DeleteProject
  <1> QED
    BY <1>2, <1>3

\* What a timer does, or stop_refresh to it: it begins a refresh, indexes the
\* vector stores, or is armed or cancelled.
LEMMA TimerMoves ==
    ASSUME Typed, TimerFires \/ ServerFires \/ IndexVectorStores \/ StopRefresh
    PROVE  \E t \in {Timer, Server} :
              /\ Moves(t) /\ th'[t].buf = th[t].buf
              /\ th[t].pc \in {"armed", "vs"} \/ th' = th
              /\ th'[t].pc \in {"armed", "none", "proto1"} \/ th' = th
              /\ shutting' \in BOOLEAN /\ vs' \in Versions /\ fails' \in 0..MaxFails
              /\ UNCHANGED <<crew, db, cached, expired, lock, res, covered, excused>>
  <1>0. /\ Timer \in Threads /\ Server \in Threads /\ {"armed", "none", "proto1"} \subseteq PCs
        /\ shutting \in BOOLEAN /\ vs \in Versions /\ fails \in 0..MaxFails /\ MaxFails \in Nat
        /\ db["views"] \in Versions
    BY CacheAssumption DEF Threads, PCs, Refreshing, Typed, TypeOK, Protos, Tables
  <1>1. CASE TimerFires
    <2>1. Moves(Timer) /\ th'[Timer].pc = "proto1" /\ th'[Timer].buf = th[Timer].buf
      BY <1>0, <1>1, GotoMoves DEF TimerFires
    <2> QED
      BY <1>0, <1>1, <2>1 DEF TimerFires
  <1>2. CASE ServerFires
    <2>1. PICK pc \in {"none", "proto1"} : Goto(Server, pc)
      BY <1>2 DEF ServerFires
    <2>2. Moves(Server) /\ th'[Server].pc = pc /\ th'[Server].buf = th[Server].buf
      BY <1>0, <2>1, GotoMoves
    <2> QED
      BY <1>0, <1>2, <2>2 DEF ServerFires
  <1>3. CASE IndexVectorStores
    <2>1. PICK pc \in {"none", "armed"} : Goto(Server, pc)
      BY <1>3 DEF IndexVectorStores
    <2>2. Moves(Server) /\ th'[Server].pc = pc /\ th'[Server].buf = th[Server].buf
      BY <1>0, <2>1, GotoMoves
    <2>3. vs' \in Versions /\ fails' \in 0..MaxFails
      BY <1>0, <1>3 DEF IndexVectorStores
    <2> QED
      BY <1>0, <1>3, <2>2, <2>3 DEF IndexVectorStores
  <1>4. CASE StopRefresh
    <2>1. CASE th[Server].pc = "armed" /\ Goto(Server, "none")
      <3>1. Moves(Server) /\ th'[Server].pc = "none" /\ th'[Server].buf = th[Server].buf
        BY <1>0, <2>1, GotoMoves
      <3> QED
        BY <1>0, <1>4, <2>1, <3>1 DEF StopRefresh
    <2>2. CASE th' = th
      <3>1. Moves(Server)
        BY <1>0, <2>2 DEF Moves, Typed, TypeOK
      <3> QED
        BY <1>0, <1>4, <2>2, <3>1 DEF StopRefresh
    <2> QED
      BY <1>4, <2>1, <2>2 DEF StopRefresh
  <1> QED
    BY <1>1, <1>2, <1>3, <1>4

\* The steps of Next, in the groups the lemmas above describe.
LEMMA NextGroups ==
    ASSUME [Next]_vars
    PROVE  \/ \E t \in Threads : ReadEntities(t) \/ ReadViews(t)
           \/ \E t \in Threads : ReadFails(t)
           \/ \E t \in Threads : Assign(t)
           \/ \E t \in Threads : Stamp(t)
           \/ \E r \in Readers : Request(r)
           \/ \E w \in Writers, tb \in Tables : Write(w, tb)
           \/ \E w \in Writers : Update(w) \/ DeleteProject(w)
           \/ \E tb \in Tables : ForeignWrite(tb)
           \/ TimerFires \/ ServerFires \/ IndexVectorStores \/ StopRefresh
           \/ Expire \/ UNCHANGED vars
  BY DEF Next, Refresh

\* Every step keeps the state typed.
LEMMA TypedStep == Typed /\ [Next]_vars => Typed'
  <1> SUFFICES ASSUME Typed, [Next]_vars PROVE Typed'
    OBVIOUS
  <1>0. /\ crew \in Crews /\ db \in Protos /\ cached \in Protos /\ expired \in BOOLEAN
        /\ lock \in Readers \cup {Free} /\ Readers \subseteq Threads /\ Writers \subseteq Threads
        /\ {Timer, Server} \subseteq Threads
        /\ res \in [tag : Times \cup {None}, entry : Entry \cup {None}]
        /\ shutting \in BOOLEAN /\ vs \in Versions /\ fails \in 0..MaxFails
        /\ covered \in Protos /\ excused \in BOOLEAN /\ MaxFails \in Nat /\ th \in [Threads -> Thread]
    BY CacheAssumption DEF Typed, TypeOK, Threads
  <1>1. ASSUME NEW t \in Threads, ReadEntities(t) \/ ReadViews(t) PROVE Typed'
    BY <1>0, <1>1, ReadMoves, MovesTyped
  <1>2. ASSUME NEW t \in Threads, ReadFails(t) PROVE Typed'
    <2>1. fails' \in 0..MaxFails
      <3>1. fails < MaxFails /\ fails' = fails + 1
        BY <1>2, FailMoves
      <3> QED
        BY <1>0, <3>1
    <2>2. lock' \in Readers \cup {Free}
      <3>1. lock' \in {lock, Free}
        BY <1>2, FailMoves
      <3> QED
        BY <1>0, <3>1
    <2>3. excused' \in BOOLEAN
      BY <1>2, FailMoves
    <2> QED
      BY <1>0, <1>2, <2>1, <2>2, <2>3, FailMoves, MovesTyped
  <1>3. ASSUME NEW t \in Threads, Assign(t) PROVE Typed'
    <2>1. excused' \in BOOLEAN
      BY <1>0, <1>3, AssignMoves
    <2> QED
      BY <1>0, <1>3, <2>1, AssignMoves, MovesTyped
  <1>4. ASSUME NEW t \in Threads, Stamp(t) PROVE Typed'
    <2>1. /\ th' \in [Threads -> Thread]
          /\ res' \in [tag : Times \cup {None}, entry : Entry \cup {None}]
          /\ lock' \in Readers \cup {Free} /\ expired' \in BOOLEAN
          /\ UNCHANGED <<crew, db, cached, shutting, vs, fails, covered, excused>>
      BY <1>0, <1>4, StampMoves
    <2>2. \A u \in Threads : th'[u].pc \in {"armed", "none"} => u \in {Timer, Server}
      <3>1. th'[t].pc \in {"armed", "none"} => t \in {Timer, Server}
        BY <1>4, StampMoves, AfterRefreshType
      <3>2. \A u \in Threads : u # t => th'[u].pc = th[u].pc
        BY <1>4, StampMoves
      <3> QED
        BY <3>1, <3>2 DEF Typed, TypeOK
    <2>3. \A u \in Threads \ Readers : th'[u].ts = None
      <3>1. \A u \in Threads : th'[u].ts = Older(th[u].ts)
        BY <1>4, StampMoves
      <3> QED
        BY <3>1 DEF Typed, OnlyReadersRemember, Older
    <2> QED
      BY <1>0, <2>1, <2>2, <2>3 DEF Typed, TypeOK, OnlyReadersRemember
  <1>5. ASSUME NEW r \in Readers, Request(r) PROVE Typed'
    <2>1. r \in Threads /\ Moves(r)
          /\ UNCHANGED <<crew, db, cached, expired, shutting, vs, fails, covered, excused>>
      BY <1>0, <1>5, RequestMoves
    <2>2. \/ UNCHANGED res
          \/ res' = [tag |-> th[r].ts, entry |-> None]
          \/ res' = [tag |-> th[r].ts,
                     entry |-> [ctx |-> th[r].answer, clean |-> th[r].clean]]
      BY <1>5, RequestMoves
    <2>3. th[r].ts \in Times \cup {None} /\ [ctx |-> th[r].answer, clean |-> th[r].clean] \in Entry
      BY <1>0 DEF Thread, Entry
    <2>4. res' \in [tag : Times \cup {None}, entry : Entry \cup {None}]
      BY <1>0, <2>2, <2>3
    <2>5. lock' = lock \/ lock' = r
      BY <1>5, RequestMoves
    <2> QED
      BY <1>0, <2>1, <2>4, <2>5, MovesTyped
  <1>6. ASSUME NEW w \in Writers, NEW tb \in Tables, Write(w, tb) PROVE Typed'
    <2>1. covered' \in Protos
      BY <1>0, <1>6, WriteMoves
    <2> QED
      BY <1>0, <1>6, <2>1, WriteMoves, MovesTyped
  <1>10. ASSUME NEW w \in Writers, Update(w) \/ DeleteProject(w) PROVE Typed'
    BY <1>0, <1>10, SilentMoves, MovesTyped
  <1>7. ASSUME NEW tb \in Tables, ForeignWrite(tb) PROVE Typed'
    <2>1. db' \in Protos
      BY <1>7, CommitType DEF ForeignWrite
    <2> QED
      BY <1>0, <1>7, <2>1 DEF ForeignWrite, Typed, TypeOK, OnlyReadersRemember
  <1>8. CASE TimerFires \/ ServerFires \/ IndexVectorStores \/ StopRefresh
    BY <1>0, <1>8, TimerMoves, MovesTyped
  <1>9. CASE Expire \/ UNCHANGED vars
    BY <1>0, <1>9 DEF Expire, vars, Typed, TypeOK, OnlyReadersRemember
  <1> QED
    BY <1>1, <1>2, <1>3, <1>4, <1>5, <1>6, <1>7, <1>8, <1>9, <1>10, NextGroups

\* The state of the process has its type throughout; in particular no more
\* times are ever told apart than requests, resolution cache and registry hold.
THEOREM TypeCorrect == Spec => []TypeOK
  <1>1. Typed => TypeOK
    BY DEF Typed
  <1> QED
    BY InitTyped, TypedStep, <1>1, PTL DEF Spec

-----------------------------------------------------------------------------
(* One expiry refresh at a time *)

\* The lock goes with the refresh of the reader that took it.
LEMMA LockStep == Typed /\ OneExpiryRefresh /\ [Next]_vars => OneExpiryRefresh'
  <1> SUFFICES ASSUME Typed, OneExpiryRefresh, [Next]_vars, NEW r \in Readers
               PROVE  lock' = r <=> th'[r].pc \in Refreshing
    BY DEF OneExpiryRefresh
  <1>0. /\ r \in Threads /\ r # Free /\ r # Timer /\ r # Server /\ r \notin Writers
        /\ lock = r <=> th[r].pc \in Refreshing
    BY CacheAssumption DEF OneExpiryRefresh, Threads
  <1>1. ASSUME NEW t \in Threads, ReadEntities(t) \/ ReadViews(t)
        PROVE  lock' = r <=> th'[r].pc \in Refreshing
    BY <1>0, <1>1, ReadMoves DEF Moves
  <1>2. ASSUME NEW t \in Threads, ReadFails(t)
        PROVE  lock' = r <=> th'[r].pc \in Refreshing
    <2>1. /\ th[t].pc \in Refreshing
          /\ r # t => th'[r] = th[r]
          /\ \/ /\ th'[t].pc \notin Refreshing /\ lock' = IF lock = t THEN Free ELSE lock
             \/ th'[t].pc \in Refreshing /\ lock' = lock
      BY <1>0, <1>2, FailMoves, AfterRefreshType DEF Moves, Refreshing
    <2> QED
      BY <1>0, <2>1
  <1>3. ASSUME NEW t \in Threads, Assign(t)
        PROVE  lock' = r <=> th'[r].pc \in Refreshing
    <2>1. /\ th[t].pc \in Refreshing /\ th'[t].pc \in Refreshing /\ lock' = lock
          /\ r # t => th'[r] = th[r]
      BY <1>0, <1>3, AssignMoves DEF Moves, Refreshing
    <2> QED
      BY <1>0, <2>1
  <1>4. ASSUME NEW t \in Threads, Stamp(t)
        PROVE  lock' = r <=> th'[r].pc \in Refreshing
    <2>1. /\ th[t].pc \in Refreshing /\ th'[t].pc \notin Refreshing
          /\ r # t => th'[r].pc = th[r].pc
          /\ lock' = IF lock = t THEN Free ELSE lock
      BY <1>0, <1>4, StampMoves, AfterRefreshType DEF Refreshing
    <2> QED
      BY <1>0, <2>1
  <1>5. ASSUME NEW q \in Readers, Request(q)
        PROVE  lock' = r <=> th'[r].pc \in Refreshing
    <2>1. /\ th[q].pc \notin Refreshing
          /\ r # q => th'[r] = th[r]
          /\ \/ lock' = lock /\ th'[q].pc \notin Refreshing
             \/ lock = Free /\ lock' = q /\ th'[q].pc \in Refreshing
      BY <1>0, <1>5, RequestMoves DEF Moves, Refreshing, ReadOf
    <2> QED
      BY <1>0, <2>1
  <1>6. ASSUME NEW w \in Writers, NEW tb \in Tables, Write(w, tb)
        PROVE  lock' = r <=> th'[r].pc \in Refreshing
    BY <1>0, <1>6, WriteMoves DEF Moves
  <1>9. ASSUME NEW w \in Writers, Update(w) \/ DeleteProject(w)
        PROVE  lock' = r <=> th'[r].pc \in Refreshing
    BY <1>0, <1>9, SilentMoves DEF Moves
  <1>7. CASE TimerFires \/ ServerFires \/ IndexVectorStores \/ StopRefresh
    BY <1>0, <1>7, TimerMoves DEF Moves
  <1>8. CASE (\E tb \in Tables : ForeignWrite(tb)) \/ Expire \/ UNCHANGED vars
    BY <1>0, <1>8 DEF ForeignWrite, Expire, vars
  <1> QED
    BY <1>1, <1>2, <1>3, <1>4, <1>5, <1>6, <1>7, <1>8, <1>9, NextGroups

\* However many requests find the registry expired, and however late they try
\* the lock, one of them at a time downloads it, and the lock is free again after
\* its refresh has ended, successfully or not.
THEOREM ExpiryRefreshIsExclusive == Spec => []OneExpiryRefresh
  <1>1. Init => OneExpiryRefresh
    BY CacheAssumption DEF Init, OneExpiryRefresh, Threads, Refreshing
  <1> QED
    BY InitTyped, TypedStep, LockStep, <1>1, PTL DEF Spec

-----------------------------------------------------------------------------
(* Entries of the resolution cache *)

\* Nobody stands between assigning a new proto and stamping its time.
NoStamp == \A t \in Threads : th[t].pc # "stamp"

\* Request r, which has seen no other time since it began, has resolved part of
\* its answer, or all of it, from the cached proto.
ResolvedFrom(r) ==
    th[r].ts = 0 =>
       /\ th[r].pc = "put" /\ th[r].clean => th[r].answer = cached
       /\ th[r].pc = "after" => th[r].answer = cached
       /\ th[r].pc \in {"get2", "acquire2", "read2"} \/ (th[r].pc \in Refreshing /\ th[r].ret = "read2")
          => th[r].answer["views"] = cached["views"]

\* The inductive invariant for entries.
EntryInv == /\ EntryOfItsProto
            /\ NoStamp => \A r \in Readers : ResolvedFrom(r)

\* A proto is assigned before its time is stamped, so whatever was resolved
\* while a refresh assigns is outdated by its stamp.
LEMMA EntryStep == Typed /\ EntryInv /\ [Next]_vars => EntryInv'
  <1> SUFFICES ASSUME Typed, EntryInv, [Next]_vars PROVE EntryInv'
    OBVIOUS
  <1> DEFINE EntryOK == res.entry # None /\ res.entry.clean /\ res.tag = 0
                        => res.entry.ctx = cached
  <1>0. /\ NoStamp => EntryOK /\ \A r \in Readers : ResolvedFrom(r)
        /\ Readers \subseteq Threads
    BY DEF EntryInv, EntryOfItsProto, NoStamp, Threads
  <1> SUFFICES ASSUME NoStamp' PROVE EntryOK' /\ \A r \in Readers : ResolvedFrom(r)'
    BY DEF EntryInv, EntryOfItsProto, NoStamp
  <1>1. ASSUME NoStamp, UNCHANGED <<cached, res>>,
               \A r \in Readers : /\ th'[r].pc = th[r].pc /\ th'[r].ts = th[r].ts
                                  /\ th'[r].answer = th[r].answer
                                  /\ th'[r].clean = th[r].clean /\ th'[r].ret = th[r].ret
        PROVE  EntryOK' /\ \A r \in Readers : ResolvedFrom(r)'
    BY <1>0, <1>1 DEF ResolvedFrom
  <1>2. ASSUME NEW t \in Threads, ReadEntities(t) \/ ReadViews(t)
        PROVE  EntryOK' /\ \A r \in Readers : ResolvedFrom(r)'
    <2>1. /\ th[t].pc \in Refreshing \ {"stamp"} /\ th'[t].pc \in Refreshing \ {"stamp"}
          /\ \A u \in Threads : u # t => th'[u] = th[u]
          /\ th'[t].ts = th[t].ts /\ th'[t].ret = th[t].ret
          /\ th'[t].clean = th[t].clean /\ th'[t].answer = th[t].answer
          /\ UNCHANGED <<cached, res>>
      BY <1>2, ReadMoves DEF Moves, Refreshing
    <2>2. NoStamp
      BY <2>1 DEF NoStamp
    <2> QED
      BY <1>0, <2>1, <2>2 DEF ResolvedFrom, Refreshing
  <1>3. ASSUME NEW t \in Threads, ReadFails(t)
        PROVE  EntryOK' /\ \A r \in Readers : ResolvedFrom(r)'
    <2>1. /\ th[t].pc \in {"proto1", "proto2"}
          /\ \A u \in Threads : u # t => th'[u] = th[u]
          /\ th'[t].ts = th[t].ts /\ th'[t].answer = th[t].answer
          /\ UNCHANGED <<cached, res>>
          /\ \/ th'[t].pc = AfterRefresh(t)
             \/ th'[t].pc = "assign" /\ th'[t].ret = th[t].ret
      BY <1>3, FailMoves DEF Moves
    <2>2. NoStamp
      BY <2>1 DEF NoStamp
    <2>3. /\ t \in Readers => AfterRefresh(t) = th[t].ret
          /\ th[t].ret \in {"read1", "read2", "update", "idle"}
      BY AfterRefreshType DEF Typed, TypeOK, Thread
    <2>4. \A r \in Readers : r # t => ResolvedFrom(r)'
      BY <1>0, <2>1, <2>2 DEF ResolvedFrom
    <2>5. t \in Readers => ResolvedFrom(t)'
      BY <1>0, <2>1, <2>2, <2>3 DEF ResolvedFrom, Refreshing
    <2> QED
      BY <1>0, <2>1, <2>2, <2>4, <2>5
  <1>4. ASSUME NEW t \in Threads, Assign(t) PROVE FALSE
    BY <1>4, AssignMoves DEF NoStamp
  <1>5. ASSUME NEW t \in Threads, Stamp(t)
        PROVE  EntryOK' /\ \A r \in Readers : ResolvedFrom(r)'
    <2>1. /\ \A u \in Threads : th'[u].ts # 0
          /\ res' \in [tag : (Times \cup {None}) \ {0}, entry : Entry \cup {None}]
      BY <1>5, StampMoves
    <2> QED
      BY <1>0, <2>1 DEF ResolvedFrom
  <1>6. ASSUME NEW q \in Readers, Request(q)
        PROVE  EntryOK' /\ \A r \in Readers : ResolvedFrom(r)'
    <2>1. /\ th[q].pc \notin Refreshing /\ \A u \in Threads : u # q => th'[u] = th[u]
          /\ UNCHANGED cached
      BY <1>6, RequestMoves DEF Moves
    <2>2. NoStamp
      BY <2>1 DEF NoStamp, Refreshing
    <2>3. /\ th[q].answer \in [Tables -> Versions] /\ th'[q].answer \in [Tables -> Versions]
          /\ cached \in [Tables -> Versions] /\ Tables = {"entities", "views"}
      BY <1>0, <1>6, RequestMoves DEF Typed, TypeOK, Thread, Protos, Moves, Tables
    <2>4. \A r \in Readers : r # q => ResolvedFrom(r)'
      BY <1>0, <2>1, <2>2 DEF ResolvedFrom
    <2>5. CASE /\ th[q].pc = "put" /\ th'[q].pc = "idle"
               /\ res' = [tag |-> th[q].ts,
                          entry |-> [ctx |-> th[q].answer, clean |-> th[q].clean]]
      <3>1. EntryOK'
        BY <1>0, <2>1, <2>2, <2>5 DEF ResolvedFrom
      <3>2. ResolvedFrom(q)'
        BY <2>5 DEF ResolvedFrom, Refreshing
      <3> QED
        BY <2>4, <3>1, <3>2
    <2>6. CASE th[q].pc = "lookup" /\ th'[q].pc \in {"idle", "get1"}
      <3>1. UNCHANGED res \/ res' = [tag |-> th[q].ts, entry |-> None]
        BY <1>6, <2>6, RequestMoves
      <3>2. EntryOK'
        BY <1>0, <2>1, <2>2, <3>1
      <3>3. ResolvedFrom(q)'
        BY <2>6 DEF ResolvedFrom, Refreshing
      <3> QED
        BY <2>4, <3>2, <3>3
    <2>7. CASE UNCHANGED res /\ th'[q].pc \in {"valid", "lookup", "get1"}
      <3>1. ResolvedFrom(q)'
        BY <2>7 DEF ResolvedFrom, Refreshing
      <3> QED
        BY <1>0, <2>1, <2>2, <2>4, <2>7, <3>1
    <2>12. CASE /\ UNCHANGED res
                /\ th'[q].ts = th[q].ts /\ th'[q].answer = th[q].answer
                /\ \/ th[q].pc = "get1" /\ th'[q].pc \in {"acquire1", "read1"}
                   \/ th[q].pc = "get2" /\ th'[q].pc \in {"acquire2", "read2"}
      <3>1. ResolvedFrom(q)'
        BY <1>0, <2>1, <2>2, <2>12 DEF ResolvedFrom, Refreshing
      <3> QED
        BY <1>0, <2>1, <2>2, <2>4, <2>12, <3>1
    <2>8. CASE /\ th[q].pc \in {"acquire1", "acquire2"} /\ UNCHANGED res
               /\ th'[q].ts = th[q].ts /\ th'[q].answer = th[q].answer
               /\ \/ th'[q].pc = "proto1" /\ th'[q].ret = ReadOf(th[q].pc)
                  \/ th'[q].pc = ReadOf(th[q].pc)
      <3>1. ResolvedFrom(q)'
        BY <1>0, <2>1, <2>2, <2>8 DEF ResolvedFrom, Refreshing, ReadOf
      <3> QED
        BY <1>0, <2>1, <2>2, <2>4, <2>8, <3>1
    <2>9. CASE /\ th[q].pc = "read1" /\ th'[q].pc = "get2" /\ UNCHANGED res
               /\ th'[q].answer["views"] = cached["views"]
      <3>1. ResolvedFrom(q)'
        BY <2>1, <2>9 DEF ResolvedFrom, Refreshing
      <3> QED
        BY <1>0, <2>1, <2>2, <2>4, <2>9, <3>1
    <2>10. CASE /\ th[q].pc = "read2" /\ th'[q].pc = "after" /\ UNCHANGED res
                /\ th'[q].ts = th[q].ts
                /\ th'[q].answer["views"] = th[q].answer["views"]
                /\ th'[q].answer["entities"] = cached["entities"]
      <3>1. th[q].ts = 0 => th'[q].answer = cached
        BY <1>0, <2>2, <2>3, <2>10 DEF ResolvedFrom
      <3>2. ResolvedFrom(q)'
        BY <2>1, <2>10, <3>1 DEF ResolvedFrom, Refreshing
      <3> QED
        BY <1>0, <2>1, <2>2, <2>4, <2>10, <3>2
    <2>11. CASE /\ th[q].pc = "after" /\ th'[q].pc = "put" /\ UNCHANGED res
                /\ th'[q].answer = th[q].answer /\ th'[q].clean = (th[q].ts = 0)
      <3>1. th'[q].clean => th'[q].answer = cached
        BY <1>0, <2>2, <2>11 DEF ResolvedFrom
      <3>2. ResolvedFrom(q)'
        BY <2>1, <2>11, <3>1 DEF ResolvedFrom, Refreshing
      <3> QED
        BY <1>0, <2>1, <2>2, <2>4, <2>11, <3>2
    <2> QED
      BY <1>6, <2>5, <2>6, <2>7, <2>8, <2>9, <2>10, <2>11, <2>12, RequestMoves
  <1>7. ASSUME NEW w \in Writers, NEW tb \in Tables, Write(w, tb)
        PROVE  EntryOK' /\ \A r \in Readers : ResolvedFrom(r)'
    <2>1. /\ th[w].pc = "idle" /\ \A u \in Threads : u # w => th'[u] = th[u]
          /\ UNCHANGED <<cached, res>> /\ w \notin Readers
      BY <1>7, WriteMoves, CacheAssumption DEF Moves
    <2>2. NoStamp
      BY <2>1 DEF NoStamp
    <2> QED
      BY <1>0, <1>1, <2>1, <2>2
  <1>10. ASSUME NEW w \in Writers, Update(w) \/ DeleteProject(w)
         PROVE  EntryOK' /\ \A r \in Readers : ResolvedFrom(r)'
    <2>1. /\ th[w].pc \in {"idle", "update"} /\ \A u \in Threads : u # w => th'[u] = th[u]
          /\ UNCHANGED <<cached, res>> /\ w \notin Readers
      BY <1>10, SilentMoves, CacheAssumption DEF Moves
    <2>2. NoStamp
      BY <2>1 DEF NoStamp
    <2> QED
      BY <1>0, <1>1, <2>1, <2>2
  <1>8. CASE TimerFires \/ ServerFires \/ IndexVectorStores \/ StopRefresh
    <2>1. PICK t \in {Timer, Server} :
             /\ \A u \in Threads : u # t => th'[u] = th[u]
             /\ th[t].pc \in {"armed", "vs"} \/ th' = th
             /\ UNCHANGED <<cached, res>>
      BY <1>8, TimerMoves DEF Moves
    <2>2. NoStamp /\ t \notin Readers
      BY <2>1, CacheAssumption DEF NoStamp
    <2> QED
      BY <1>0, <1>1, <2>1, <2>2
  <1>9. CASE (\E tb \in Tables : ForeignWrite(tb)) \/ Expire \/ UNCHANGED vars
    <2>1. UNCHANGED <<th, cached, res>>
      BY <1>9 DEF ForeignWrite, Expire, vars
    <2> QED
      BY <1>1, <2>1 DEF NoStamp
  <1> QED
    BY <1>2, <1>3, <1>4, <1>5, <1>6, <1>7, <1>8, <1>9, <1>10, NextGroups

\* A clean entry of the resolution cache that carries the time of the cached
\* proto says what that proto says, whichever requests and refreshes overtook
\* one another.
THEOREM EntriesMatchTheirProto == Spec => []EntryOfItsProto
  <1>1. Init => EntryInv
    <2> SUFFICES ASSUME Init PROVE EntryInv
      OBVIOUS
    <2>1. \A r \in Readers : th[r].ts = None
      BY DEF Init, Threads
    <2>2. None # 0
      BY CacheAssumption
    <2> QED
      BY <2>1, <2>2 DEF Init, EntryInv, EntryOfItsProto, ResolvedFrom
  <1>2. EntryInv => EntryOfItsProto
    BY DEF EntryInv
  <1> QED
    BY InitTyped, TypedStep, EntryStep, <1>1, <1>2, PTL DEF Spec

-----------------------------------------------------------------------------
(* Immediate consistency of mode "sync" *)

\* No commit that a refresh follows is newer than the database.
CoveredInDb == \A tb \in Tables : covered[tb] <= db[tb]

\* Writer w is in a refresh that will bring what is covered of table tb.
Brings(w, tb) ==
    \/ th[w].pc = "proto1"
    \/ th[w].pc = "proto2" /\ (tb = "views" \/ th[w].buf[tb] >= covered[tb])
    \/ th[w].pc = "assign" /\ th[w].buf[tb] >= covered[tb]

\* The cache has what is covered of every table, or a writer will bring it.
Follows ==
    (crew.mode = "sync" /\ ~excused) =>
       \A tb \in Tables : \/ cached[tb] >= covered[tb]
                          \/ \E w \in Writers : Brings(w, tb)

\* The inductive invariant for mode "sync".
SyncInv == CoveredInDb /\ Follows

\* The counts in a typed state are natural numbers.
LEMMA Counts ==
    ASSUME Typed, NEW tb \in Tables
    PROVE  /\ db[tb] \in Nat /\ cached[tb] \in Nat /\ covered[tb] \in Nat
           /\ \A t \in Threads : th[t].buf[tb] \in Nat
  BY VersionsContain DEF Typed, TypeOK, Thread, Protos

\* The database only grows.
LEMMA CoveredStep == Typed /\ CoveredInDb /\ [Next]_vars => CoveredInDb'
  <1> SUFFICES ASSUME Typed, CoveredInDb, [Next]_vars, NEW x \in Tables
               PROVE  covered'[x] <= db'[x]
    BY DEF CoveredInDb
  <1>0. db[x] \in Nat /\ covered[x] \in Nat /\ covered[x] <= db[x]
    BY Counts DEF CoveredInDb
  <1>1. ASSUME NEW t \in Threads, ReadEntities(t) \/ ReadViews(t) \/ ReadFails(t)
                                  \/ Assign(t) \/ Stamp(t)
        PROVE  covered'[x] <= db'[x]
    BY <1>0, <1>1 DEF ReadEntities, ReadViews, ReadFails, Assign, Stamp
  <1>2. ASSUME NEW r \in Readers, Request(r) PROVE covered'[x] <= db'[x]
    BY <1>0, <1>2, RequestMoves
  <1>3. ASSUME NEW w \in Writers, NEW tb \in Tables, Write(w, tb)
        PROVE  covered'[x] <= db'[x]
    <2>1. covered' = db' \/ covered' = covered
      BY <1>3, WriteMoves
    <2>2. db'[x] = db[x] \/ db'[x] = db[x] + 1
      BY <1>3, WriteMoves
    <2> QED
      BY <1>0, <2>1, <2>2
  <1>4. ASSUME NEW w \in Writers, Update(w) \/ DeleteProject(w)
        PROVE  covered'[x] <= db'[x]
    <2>1. covered' = covered /\ (db'[x] = db[x] \/ db'[x] = db[x] + 1)
      BY <1>4, SilentMoves
    <2> QED
      BY <1>0, <2>1
  <1>5. ASSUME NEW tb \in Tables, ForeignWrite(tb) PROVE covered'[x] <= db'[x]
    <2>1. covered' = covered /\ (db'[x] = db[x] \/ db'[x] = db[x] + 1)
      BY <1>5, CommitType DEF ForeignWrite
    <2> QED
      BY <1>0, <2>1
  <1>6. CASE TimerFires \/ ServerFires \/ IndexVectorStores \/ StopRefresh
    BY <1>0, <1>6, TimerMoves
  <1>7. CASE Expire \/ UNCHANGED vars
    BY <1>0, <1>7 DEF Expire, vars
  <1> QED
    BY <1>1, <1>2, <1>3, <1>4, <1>5, <1>6, <1>7, NextGroups

\* A write that a refresh follows is brought by its own refresh, which reads the
\* tables after the commit and can only be overtaken by one that brings as much.
LEMMA FollowsStep == Typed /\ SyncInv /\ [Next]_vars => Follows'
  <1> SUFFICES ASSUME Typed, SyncInv, [Next]_vars, crew'.mode = "sync", ~excused',
                      NEW x \in Tables
               PROVE  \/ cached'[x] >= covered'[x]
                      \/ \E w \in Writers : Brings(w, x)'
    BY DEF Follows
  <1> DEFINE Goal == \/ cached'[x] >= covered'[x]
                     \/ \E w \in Writers : Brings(w, x)'
  <1>0. /\ db[x] \in Nat /\ cached[x] \in Nat /\ covered[x] \in Nat
        /\ x \in {"entities", "views"} /\ covered[x] <= db[x]
        /\ \A t \in Threads : th[t].buf[x] \in Nat
        /\ Readers \subseteq Threads /\ Writers \subseteq Threads
        /\ Writers \cap Readers = {} /\ Writers \cap {Timer, Server} = {}
    BY Counts, CacheAssumption DEF SyncInv, CoveredInDb, Tables, Threads
  <1>u. crew' = crew /\ ~excused =>
           cached[x] >= covered[x] \/ \E w \in Writers : Brings(w, x)
    BY DEF SyncInv, Follows
  \* A step that disturbs no writer.
  <1>1. ASSUME \A w \in Writers : th'[w].pc = th[w].pc /\ th'[w].buf = th[w].buf,
               UNCHANGED <<crew, cached, covered>>, ~excused
        PROVE  Goal
    <2>1. \A w \in Writers : Brings(w, x) => Brings(w, x)'
      BY <1>1 DEF Brings
    <2> QED
      BY <1>1, <1>u, <2>1
  <1>2. ASSUME NEW u \in Threads, ReadEntities(u) \/ ReadViews(u) PROVE Goal
    <2>1. /\ UNCHANGED <<crew, db, cached, covered, excused>>
          /\ \A t \in Threads : t # u => th'[t] = th[t]
          /\ \/ /\ th[u].pc = "proto1" /\ th'[u].pc = "proto2"
                /\ th'[u].buf["entities"] = db["entities"]
             \/ /\ th[u].pc = "proto2" /\ th'[u].pc = "assign"
                /\ th'[u].buf["views"] = db["views"]
                /\ th'[u].buf["entities"] = th[u].buf["entities"]
      BY <1>2, ReadMoves DEF Moves
    <2>2. \A w \in Writers : Brings(w, x) => Brings(w, x)'
      BY <1>0, <2>1 DEF Brings
    <2> QED
      BY <1>u, <2>1, <2>2
  <1>3. ASSUME NEW u \in Threads, ReadFails(u) PROVE Goal
    <2>1. /\ u \notin Writers /\ ~excused /\ UNCHANGED <<crew, cached, covered>>
          /\ \A t \in Threads : t # u => th'[t] = th[t]
      BY <1>3, FailMoves DEF Moves
    <2> QED
      BY <1>0, <1>1, <2>1
  <1>4. ASSUME NEW u \in Threads, Assign(u) PROVE Goal
    <2>1. /\ UNCHANGED <<crew, covered>> /\ cached' = th[u].buf /\ th[u].pc = "assign"
          /\ ~excused /\ ~(th[u].buf[x] < cached[x])
          /\ \A t \in Threads : t # u => th'[t] = th[t]
      BY <1>4, AssignMoves DEF Moves
    <2>2. CASE cached[x] >= covered[x]
      BY <1>0, <2>1, <2>2
    <2>3. ASSUME NEW w \in Writers, Brings(w, x), w # u PROVE Goal
      BY <1>0, <2>1, <2>3 DEF Brings
    <2>4. CASE Brings(u, x)
      BY <1>0, <2>1, <2>4 DEF Brings
    <2> QED
      BY <1>u, <2>1, <2>2, <2>3, <2>4
  <1>5. ASSUME NEW u \in Threads, Stamp(u) PROVE Goal
    <2>1. /\ UNCHANGED <<crew, cached, covered, excused>> /\ th[u].pc = "stamp"
          /\ \A t \in Threads : t # u => th'[t].pc = th[t].pc /\ th'[t].buf = th[t].buf
      BY <1>5, StampMoves
    <2>2. \A w \in Writers : Brings(w, x) => Brings(w, x)'
      BY <1>0, <2>1 DEF Brings
    <2> QED
      BY <1>u, <2>1, <2>2
  <1>6. ASSUME NEW r \in Readers, Request(r) PROVE Goal
    <2>1. /\ UNCHANGED <<crew, cached, covered, excused>>
          /\ \A t \in Threads : t # r => th'[t] = th[t]
      BY <1>6, RequestMoves DEF Moves
    <2> QED
      BY <1>0, <1>1, <2>1
  <1>7. ASSUME NEW w \in Writers, NEW tb \in Tables, Write(w, tb) PROVE Goal
    <2>1. th'[w].pc = "proto1"
      BY <1>7, WriteMoves
    <2> QED
      BY <2>1 DEF Brings
  <1>8. ASSUME NEW w \in Writers, Update(w) \/ DeleteProject(w) PROVE Goal
    <2>1. /\ UNCHANGED <<crew, cached, covered, excused>> /\ th[w].pc \in {"idle", "update"}
          /\ \A t \in Threads : t # w => th'[t] = th[t]
      BY <1>8, SilentMoves DEF Moves
    <2>2. \A v \in Writers : Brings(v, x) => Brings(v, x)'
      BY <1>0, <2>1 DEF Brings
    <2> QED
      BY <1>u, <2>1, <2>2
  <1>9. CASE TimerFires \/ ServerFires \/ IndexVectorStores \/ StopRefresh
    <2>1. PICK t \in {Timer, Server} :
             /\ \A v \in Threads : v # t => th'[v] = th[v]
             /\ UNCHANGED <<crew, cached, covered, excused>>
      BY <1>9, TimerMoves DEF Moves
    <2> QED
      BY <1>0, <1>1, <2>1
  <1>10. CASE (\E tb \in Tables : ForeignWrite(tb)) \/ Expire \/ UNCHANGED vars
    BY <1>1, <1>10 DEF ForeignWrite, Expire, vars
  <1> QED
    BY <1>2, <1>3, <1>4, <1>5, <1>6, <1>7, <1>8, <1>9, <1>10, NextGroups

\* In mode "sync" a write that is followed by a refresh is in the cache when that
\* refresh has returned, with everything committed before it, and stays there in
\* spite of what requests and timers download, unless the writer's refresh failed
\* or a proto older than the cached one was assigned.
THEOREM SyncIsImmediate == Spec => []SyncImmediate
  <1>1. Init => SyncInv
    <2> SUFFICES ASSUME Init PROVE SyncInv
      OBVIOUS
    <2>1. \A tb \in Tables : cached[tb] = 0 /\ db[tb] = 0 /\ covered[tb] = 0
      BY DEF Init, Zero
    <2> QED
      BY <2>1 DEF SyncInv, CoveredInDb, Follows
  <1>2. Typed /\ SyncInv /\ [Next]_vars => SyncInv'
    BY CoveredStep, FollowsStep DEF SyncInv
  <1>3. ASSUME Typed, SyncInv PROVE SyncImmediate
    <2> SUFFICES ASSUME crew.mode = "sync", ~excused,
                        \A w \in Writers : th[w].pc \notin Refreshing
                 PROVE  \A tb \in Tables : cached[tb] >= covered[tb]
      BY DEF SyncImmediate
    <2>1. \A w \in Writers, tb \in Tables : ~Brings(w, tb)
      BY DEF Brings, Refreshing
    <2> QED
      BY <1>3, <2>1 DEF SyncInv, Follows
  <1> QED
    BY InitTyped, TypedStep, <1>1, <1>2, <1>3, PTL DEF Spec
=============================================================================
