--------------------- MODULE SqlFeatureViewVersions_proofs ---------------------
(***************************************************************************)
(* Proofs about the feature view versions of the SQL registry, for any     *)
(* number of clients, definitions, operations, versions and retries.       *)
(***************************************************************************)
EXTENDS SqlFeatureViewVersions, FiniteSetTheorems, TLAPS

Running(c) == ~AtRest(c)

\* The labels of the latest path that follow the write of the active row.
LatestLabels == {"readOld", "readNew", "nextVersion", "saveOld", "saveNext", "promote", "saveFirst"}

\* What a client's program counter says of its local variables.
LocalOK(c) ==
    /\ Running(c) => obj[c] \in Row /\ tries[c] < MaxRetries
    /\ pc[c] \in {"getSnapshot", "pinCheck", "forward"} => obj[c].ver \in Versions
    /\ pc[c] = "forward" => obj[c].cvn = obj[c].ver
    /\ pc[c] = "pinCheck" => seen[c] \in Row
    /\ pc[c] \in LatestLabels => obj[c].ver = Latest
    /\ pc[c] \in {"nextVersion", "saveOld", "saveNext"} => old[c] # NoRow

ClientOK == \A c \in Clients : LocalOK(c)

\* A step of client c.
StepOf(c) ==
    \/ StartApply(c) \/ ApplyStep(c)
    \/ DeleteFeatureView(c) \/ DeleteProject(c) \/ Crash(c)

-------------------------------------------------------------------------------
(* The largest recorded version *)

\* A non-empty set of version numbers has a largest element: the one above which
\* there are fewest others.
LEMMA MaxExists ==
    ASSUME NEW n \in Nat, NEW S, S \subseteq 0..n, S # {}
    PROVE  Max(S) \in S /\ \A y \in S : y <= Max(S)
  <1> DEFINE Above(x) == {y \in S : y > x}
             T == {Above(x) : x \in S}
             R == StrictSubsetOrdering(S)
  <1>0. IsFiniteSet(0..n)
    BY FS_Interval
  <1>1. IsFiniteSet(S)
    BY <1>0, FS_Subset
  <1>2. \A x \in S : Above(x) \in SUBSET S /\ IsFiniteSet(Above(x))
    BY <1>1, FS_Subset
  <1>3. T \subseteq FiniteSubsetsOf(S) /\ T # {}
    BY <1>2 DEF FiniteSubsetsOf
  <1>4. IsWellFoundedOn(R, FiniteSubsetsOf(S))
    BY FS_StrictSubsetOrderingWellFounded
  <1> HIDE DEF R, T
  <1>5. PICK a \in T : \A b \in T : ~(<<b, a>> \in R)
    BY <1>3, <1>4, WFMin
  <1>6. PICK x \in S : a = Above(x)
    BY <1>5 DEF T
  <1>7. ASSUME NEW y \in S, y > x PROVE FALSE
    <2>1. x \in Int /\ y \in Int /\ S \subseteq Int
      OBVIOUS
    <2>2. Above(y) \subseteq Above(x) /\ y \in Above(x) /\ y \notin Above(y)
      <3>1. \A z \in S : z > y => z > x
        BY <1>7, <2>1
      <3>2. ~(y > y)
        BY <2>1
      <3> QED
        BY <1>7, <3>1, <3>2
    <2>3. <<Above(y), Above(x)>> \in R
      BY <2>2, <1>2 DEF R, StrictSubsetOrdering
    <2>4. Above(y) \in T
      BY DEF T
    <2> QED
      BY <1>5, <1>6, <2>3, <2>4
  <1>8. \A y \in S : x >= y
    BY <1>7
  <1>9. Max(S) \in S /\ \A y \in S : Max(S) >= y
    BY <1>8 DEF Max
  <1> QED
    BY <1>9

\* The next version number is 0, or one more than a recorded version.
LEMMA NextVersionFollows ==
    /\ NextVersionNumber \in 0..(MaxVersion + 1)
    /\ NextVersionNumber > 0 => NextVersionNumber - 1 \in Recorded
  <1>1. Recorded \subseteq 0..MaxVersion /\ MaxVersion \in Nat
    BY BoundsAssumption DEF Recorded, Versions
  <1>2. CASE Recorded = {}
    BY <1>1, <1>2 DEF NextVersionNumber
  <1>3. CASE Recorded # {}
    <2>1. Max(Recorded) \in Recorded
      BY <1>1, <1>3, MaxExists
    <2>2. NextVersionNumber = Max(Recorded) + 1
      BY <1>3 DEF NextVersionNumber
    <2>3. Max(Recorded) \in 0..MaxVersion
      BY <1>1, <2>1
    <2>4. (Max(Recorded) + 1) - 1 = Max(Recorded) /\ Max(Recorded) + 1 \in 0..(MaxVersion + 1)
      BY <1>1, <2>3
    <2> QED
      BY <2>1, <2>2, <2>4
  <1> QED
    BY <1>2, <1>3

-------------------------------------------------------------------------------
(* Type correctness *)

\* A step keeps the types of the variables.
LEMMA TypeStep == TypeOK /\ ClientOK /\ [Next]_vars => TypeOK'
  <1> SUFFICES ASSUME TypeOK, ClientOK, [Next]_vars PROVE TypeOK'
    OBVIOUS
  <1> USE BoundsAssumption DEF TypeOK, Goto, Versions
  <1>1. ASSUME NEW c \in Clients, StartApply(c) PROVE TypeOK'
    <2>1. PICK s \in Schemas, m \in Metas, v \in {Latest} \cup PinVersions, np \in NoPromotes :
            /\ obj' = [obj EXCEPT ![c] = [schema |-> s, meta |-> m, ver |-> v, cvn |-> None]]
            /\ noPromote' = [noPromote EXCEPT ![c] = np]
            /\ pc' = [pc EXCEPT ![c] = IF v = Latest THEN "readOld" ELSE "getSnapshot"]
      BY <1>1 DEF StartApply
    <2>2. [schema |-> s, meta |-> m, ver |-> v, cvn |-> None] \in Row
      BY DEF Row
    <2>3. obj' \in [Clients -> Row \cup {NoRow}]
      BY <2>1, <2>2
    <2>4. pc' \in [Clients -> Labels] /\ noPromote' \in [Clients -> BOOLEAN]
      BY <2>1 DEF Labels
    <2>5. /\ old' \in [Clients -> Row \cup {NoRow}] /\ seen' \in [Clients -> Row \cup {NoRow}]
          /\ nextVer' \in [Clients -> 0..(MaxVersion + 1)] /\ tries' \in [Clients -> 0..MaxRetries]
          /\ ops' \in 0..MaxOps
      BY <1>1 DEF StartApply
    <2> QED
      BY <1>1, <2>3, <2>4, <2>5 DEF StartApply
  <1>2. ASSUME NEW c \in Clients, GetSnapshot(c) PROVE TypeOK'
    <2>1. obj[c] \in Row /\ obj[c].ver \in Versions
      BY <1>2 DEF GetSnapshot, ClientOK, LocalOK, Running, AtRest, Ended
    <2>2. [obj[c] EXCEPT !.cvn = obj[c].ver] \in Row
      BY <2>1 DEF Row
    <2>3. history[obj[c].ver] \in Row \cup {NoRow}
      BY <2>1
    <2>4. \/ /\ pc' = [pc EXCEPT ![c] = "pinCheck"] /\ obj' = obj
             /\ seen' = [seen EXCEPT ![c] = history[obj[c].ver]]
          \/ /\ pc' = [pc EXCEPT ![c] = "forward"] /\ seen' = seen
             /\ obj' = [obj EXCEPT ![c] = [obj[c] EXCEPT !.cvn = obj[c].ver]]
      BY <1>2 DEF GetSnapshot
    <2>5. pc' \in [Clients -> Labels]
      BY <2>4 DEF Labels
    <2>6. seen' \in [Clients -> Row \cup {NoRow}] /\ obj' \in [Clients -> Row \cup {NoRow}]
      BY <2>2, <2>3, <2>4
    <2> QED
      BY <1>2, <2>5, <2>6 DEF GetSnapshot
  <1>3. ASSUME NEW c \in Clients, PinCheck(c) PROVE TypeOK'
    <2>1. seen[c] \in Row /\ obj[c].ver \in Versions
      BY <1>3 DEF PinCheck, ClientOK, LocalOK
    <2>2. Restored(c) \in Row
      BY <2>1 DEF Restored, Row
    <2>3. \/ pc' = [pc EXCEPT ![c] = "pinConflict"] /\ obj' = obj
          \/ pc' = [pc EXCEPT ![c] = "select"] /\ obj' = [obj EXCEPT ![c] = Restored(c)]
      BY <1>3 DEF PinCheck
    <2>4. pc' \in [Clients -> Labels]
      BY <2>3 DEF Labels, Ended
    <2>5. obj' \in [Clients -> Row \cup {NoRow}]
      BY <2>2, <2>3
    <2> QED
      BY <1>3, <2>4, <2>5 DEF PinCheck
  <1>4. ASSUME NEW c \in Clients, SaveForward(c) PROVE TypeOK'
    <2>1. obj[c] \in Row /\ obj[c].ver \in Versions
      BY <1>4 DEF SaveForward, ClientOK, LocalOK, Running, AtRest, Ended
    <2>2. pc' \in [Clients -> Labels]
      <3>1. \/ pc' = [pc EXCEPT ![c] = "select"] 
            \/ pc' = [pc EXCEPT ![c] = "versionConflict"]
        BY <1>4 DEF SaveForward
      <3> QED
        BY <3>1 DEF Labels, Ended
    <2>3. history' \in [Versions -> Row \cup {NoRow}] /\ forward' \in BOOLEAN
      BY <1>4, <2>1 DEF SaveForward, Save
    <2> QED
      BY <1>4, <2>2, <2>3 DEF SaveForward, local
  <1>5. ASSUME NEW c \in Clients, ReadOld(c) PROVE TypeOK'
    BY <1>5 DEF ReadOld, Labels
  <1>6. ASSUME NEW c \in Clients, Select(c) PROVE TypeOK'
    BY <1>6 DEF Select, Labels
  <1>7. ASSUME NEW c \in Clients, Write(c) PROVE TypeOK'
    <2>1. Written(c) \in Row \cup {NoRow}
      BY DEF Written
    <2> QED
      BY <1>7, <2>1 DEF Write, Labels, Ended, local
  <1>8. ASSUME NEW c \in Clients, ReadNew(c) PROVE TypeOK'
    BY <1>8 DEF ReadNew, Labels, Ended, local
  <1>9. ASSUME NEW c \in Clients, GetNextVersion(c) PROVE TypeOK'
    BY <1>9, NextVersionFollows DEF GetNextVersion, Labels
  <1>10. ASSUME NEW c \in Clients, SaveOld(c) PROVE TypeOK'
    <2>1. pc' \in [Clients -> Labels]
      BY <1>10 DEF SaveOld, Labels, Ended
    <2>2. history' \in [Versions -> Row \cup {NoRow}]
      BY <1>10 DEF SaveOld, Save
    <2>3. nextVer' \in [Clients -> 0..(MaxVersion + 1)]
      <3>1. nextVer' = [nextVer EXCEPT ![c] = 1] \/ nextVer' = nextVer
        BY <1>10 DEF SaveOld
      <3>2. 1 \in 0..(MaxVersion + 1)
        OBVIOUS
      <3> QED
        BY <3>1, <3>2
    <2> QED
      BY <1>10, <2>1, <2>2, <2>3 DEF SaveOld
  <1>11. ASSUME NEW c \in Clients, SaveNext(c) PROVE TypeOK'
    <2> DEFINE row == [obj[c] EXCEPT !.cvn = nextVer[c]]
    <2>0. pc[c] = "saveNext" /\ nextVer[c] <= MaxVersion
      BY <1>11 DEF SaveNext
    <2>1. obj[c] \in Row /\ tries[c] < MaxRetries
      BY <2>0 DEF ClientOK, LocalOK, Running, AtRest, Ended
    <2>2. row \in Row
      <3>1. nextVer[c] \in Versions
        BY <2>0
      <3> QED
        BY <2>1, <3>1 DEF Row
    <2>3. CASE Recordable(nextVer[c])
      <3>1. /\ history' = [history EXCEPT ![nextVer[c]] = row]
            /\ obj' = [obj EXCEPT ![c] = row]
            /\ pc' = [pc EXCEPT ![c] = IF noPromote[c] THEN "done" ELSE "promote"]
            /\ UNCHANGED <<active, noPromote, old, seen, nextVer, tries, ops, deleted, forward>>
        BY <1>11, <2>3 DEF SaveNext, Save
      <3>2. history' \in [Versions -> Row \cup {NoRow}] /\ obj' \in [Clients -> Row \cup {NoRow}]
        BY <2>2, <3>1
      <3>3. pc' \in [Clients -> Labels]
        BY <3>1 DEF Labels, Ended
      <3> QED
        BY <3>1, <3>2, <3>3
    <2>4. CASE ~Recordable(nextVer[c])
      <3>1. tries[c] + 1 \in 0..MaxRetries /\ AfterConflict(tries[c]) \in Labels
        BY <2>1 DEF AfterConflict, Labels, Ended
      <3> QED
        BY <1>11, <2>4, <3>1 DEF SaveNext
    <2> QED
      BY <2>3, <2>4
  <1>12. ASSUME NEW c \in Clients, SaveFirst(c) PROVE TypeOK'
    <2> DEFINE row == [obj[c] EXCEPT !.cvn = 0]
    <2>0. pc[c] = "saveFirst" /\ 0 \in Versions
      BY <1>12 DEF SaveFirst
    <2>1. obj[c] \in Row
      BY <2>0 DEF ClientOK, LocalOK, Running, AtRest, Ended
    <2>2. row \in Row
      BY <2>0, <2>1 DEF Row
    <2>3. history' \in [Versions -> Row \cup {NoRow}] /\ obj' \in [Clients -> Row \cup {NoRow}]
      BY <1>12, <2>2 DEF SaveFirst, Save
    <2>4. pc' \in [Clients -> Labels]
      BY <1>12 DEF SaveFirst, Labels, Ended
    <2> QED
      BY <1>12, <2>3, <2>4 DEF SaveFirst
  <1>13. ASSUME NEW c \in Clients, Promote(c) PROVE TypeOK'
    <2>1. pc' \in [Clients -> Labels]
      BY <1>13 DEF Promote, Labels, Ended
    <2>2. active' \in Row \cup {NoRow}
      BY <1>13 DEF Promote
    <2> QED
      BY <1>13, <2>1, <2>2 DEF Promote, local
  <1>14. ASSUME NEW c \in Clients, DeleteFeatureView(c) PROVE TypeOK'
    <2>1. pc' \in [Clients -> Labels]
      BY <1>14 DEF DeleteFeatureView, Labels, Ended
    <2>2. history' \in [Versions -> Row \cup {NoRow}] /\ active' \in Row \cup {NoRow}
      BY <1>14 DEF DeleteFeatureView, HistoryAfterDelete
    <2>3. obj' \in [Clients -> Row \cup {NoRow}] /\ ops' \in 0..MaxOps
      BY <1>14 DEF DeleteFeatureView
    <2>4. deleted' \subseteq {"view", "project"}
      BY <1>14 DEF DeleteFeatureView
    <2> QED
      BY <1>14, <2>1, <2>2, <2>3, <2>4 DEF DeleteFeatureView
  <1>15. ASSUME NEW c \in Clients, DeleteProject(c) PROVE TypeOK'
    BY <1>15 DEF DeleteProject, Labels, Ended
  <1>16. ASSUME NEW c \in Clients, Crash(c) PROVE TypeOK'
    BY <1>16 DEF Crash, Labels, Ended, local
  <1>17. CASE UNCHANGED vars
    BY <1>17 DEF vars, local
  <1> QED
    BY <1>1, <1>2, <1>3, <1>4, <1>5, <1>6, <1>7, <1>8, <1>9, <1>10, <1>11, <1>12,
       <1>13, <1>14, <1>15, <1>16, <1>17 DEF Next, ApplyStep

-------------------------------------------------------------------------------
(* The local variables of the clients *)

\* A step of one client leaves the local variables of the others alone.
LEMMA LocalFrame ==
    ASSUME TypeOK, NEW c \in Clients, NEW d \in Clients, c # d, StepOf(c)
    PROVE  /\ pc'[d] = pc[d] /\ obj'[d] = obj[d] /\ seen'[d] = seen[d]
           /\ old'[d] = old[d]
           /\ tries'[d] = tries[d] /\ nextVer'[d] = nextVer[d]
  <1> USE DEF TypeOK, Goto
  <1>1. CASE StartApply(c)
    BY <1>1 DEF StartApply
  <1>2. CASE GetSnapshot(c) \/ PinCheck(c) \/ SaveForward(c)
    BY <1>2 DEF GetSnapshot, PinCheck, SaveForward, local
  <1>3. CASE ReadOld(c) \/ Select(c) \/ Write(c) \/ ReadNew(c)
    BY <1>3 DEF ReadOld, Select, Write, ReadNew, local
  <1>4. CASE GetNextVersion(c) \/ SaveOld(c)
    BY <1>4 DEF GetNextVersion, SaveOld
  <1>5. CASE SaveNext(c)
    BY <1>5 DEF SaveNext
  <1>6. CASE SaveFirst(c) \/ Promote(c)
    BY <1>6 DEF SaveFirst, Promote, local
  <1>7. CASE DeleteFeatureView(c) \/ DeleteProject(c) \/ Crash(c)
    BY <1>7 DEF DeleteFeatureView, DeleteProject, Crash, local
  <1> QED
    BY <1>1, <1>2, <1>3, <1>4, <1>5, <1>6, <1>7 DEF StepOf, ApplyStep

\* A step keeps what the program counters say of the local variables.
LEMMA ClientStep == TypeOK /\ ClientOK /\ [Next]_vars => ClientOK'
  <1> SUFFICES ASSUME TypeOK, ClientOK, [Next]_vars PROVE ClientOK'
    OBVIOUS
  <1>1. CASE UNCHANGED vars
    BY <1>1 DEF vars, local, ClientOK, LocalOK, Running, AtRest
  <1>2. ASSUME NEW c \in Clients, StepOf(c) PROVE ClientOK'
    <2>1. ASSUME NEW d \in Clients, d # c PROVE LocalOK(d)'
      BY <1>2, <2>1, LocalFrame DEF ClientOK, LocalOK, Running, AtRest
    <2>2. LocalOK(c)'
      <3> USE BoundsAssumption DEF TypeOK, Goto, LocalOK, Running, AtRest, Ended, LatestLabels
      <3>0. LocalOK(c)
        BY DEF ClientOK
      <3>1. CASE StartApply(c)
        <4>1. PICK s \in Schemas, m \in Metas, v \in {Latest} \cup PinVersions, np \in NoPromotes :
                /\ obj' = [obj EXCEPT ![c] = [schema |-> s, meta |-> m, ver |-> v, cvn |-> None]]
                /\ noPromote' = [noPromote EXCEPT ![c] = np]
                /\ pc' = [pc EXCEPT ![c] = IF v = Latest THEN "readOld" ELSE "getSnapshot"]
          BY <3>1 DEF StartApply
        <4>2. v \in {Latest} \cup Versions
          BY DEF Versions
        <4>3. obj'[c] = [schema |-> s, meta |-> m, ver |-> v, cvn |-> None]
          BY <4>1
        <4>4. obj'[c] \in Row /\ obj'[c].ver = v
          BY <4>2, <4>3 DEF Row
        <4>5. tries'[c] = 0 /\ pc'[c] = IF v = Latest THEN "readOld" ELSE "getSnapshot"
          BY <3>1, <4>1 DEF StartApply
        <4> QED
          BY <4>2, <4>4, <4>5
      <3>2. CASE GetSnapshot(c)
        <4>1. /\ obj[c] \in Row /\ obj[c].ver \in Versions /\ tries'[c] = tries[c]
              /\ tries[c] < MaxRetries
          BY <3>0, <3>2 DEF GetSnapshot
        <4>2. CASE history[obj[c].ver] # NoRow
          BY <3>2, <4>1, <4>2 DEF GetSnapshot
        <4>3. CASE history[obj[c].ver] = NoRow
          <5>1. pc'[c] = "forward" /\ obj'[c] = [obj[c] EXCEPT !.cvn = obj[c].ver]
            BY <3>2, <4>3 DEF GetSnapshot
          <5>2. obj'[c] \in Row /\ obj'[c].ver = obj[c].ver /\ obj'[c].cvn = obj[c].ver
            BY <4>1, <5>1 DEF Row
          <5> QED
            BY <4>1, <5>1, <5>2
        <4> QED
          BY <4>2, <4>3
      <3>3. CASE PinCheck(c)
        <4>1. /\ seen[c] \in Row /\ obj[c].ver \in Versions /\ tries'[c] = tries[c]
              /\ tries[c] < MaxRetries
          BY <3>0, <3>3 DEF PinCheck
        <4>2. Restored(c) \in Row
          BY <4>1 DEF Restored, Row
        <4>3. \/ pc'[c] = "pinConflict"
              \/ pc'[c] = "select" /\ obj'[c] = Restored(c)
          BY <3>3 DEF PinCheck
        <4> QED
          BY <4>1, <4>2, <4>3
      <3>4. CASE SaveForward(c)
        BY <3>0, <3>4 DEF SaveForward, local
      <3>5. CASE ReadOld(c) \/ Select(c) \/ Write(c) \/ ReadNew(c)
        BY <3>0, <3>5 DEF ReadOld, Select, Write, ReadNew, local
      <3>6. CASE GetNextVersion(c) \/ SaveOld(c)
        BY <3>0, <3>6 DEF GetNextVersion, SaveOld
      <3>7. CASE SaveNext(c)
        <4>1. obj[c] \in Row /\ obj[c].ver = Latest /\ tries[c] < MaxRetries /\ tries[c] \in Nat
          BY <3>0, <3>7 DEF SaveNext
        <4>2. CASE Recordable(nextVer[c])
          <5>1. nextVer[c] \in Versions
            BY <3>7 DEF SaveNext, Versions
          <5>2. obj'[c] = [obj[c] EXCEPT !.cvn = nextVer[c]]
            BY <3>7, <4>2 DEF SaveNext
          <5>3. obj'[c] \in Row /\ obj'[c].ver = Latest
            BY <4>1, <5>1, <5>2 DEF Row
          <5>4. pc'[c] \in {"done", "promote"} /\ tries'[c] = tries[c]
            BY <3>7, <4>2 DEF SaveNext
          <5> QED
            BY <4>1, <5>3, <5>4
        <4>3. CASE ~Recordable(nextVer[c])
          <5>1. pc'[c] = AfterConflict(tries[c]) /\ tries'[c] = tries[c] + 1 /\ obj'[c] = obj[c]
            BY <3>7, <4>3 DEF SaveNext
          <5>0. old'[c] = old[c] /\ old[c] # NoRow
            BY <3>0, <3>7 DEF SaveNext
          <5>2. tries[c] + 1 = MaxRetries \/ tries[c] + 1 < MaxRetries
            BY <4>1
          <5> QED
            BY <4>1, <5>0, <5>1, <5>2 DEF AfterConflict
        <4> QED
          BY <4>2, <4>3
      <3>8. CASE SaveFirst(c)
        <4>1. obj[c] \in Row /\ obj[c].ver = Latest /\ tries'[c] = tries[c] /\ tries[c] < MaxRetries
          BY <3>0, <3>8 DEF SaveFirst
        <4>2. \/ pc'[c] = "integrityError"
              \/ pc'[c] = "promote" /\ obj'[c] = [obj[c] EXCEPT !.cvn = 0]
          BY <3>8 DEF SaveFirst
        <4>3. [obj[c] EXCEPT !.cvn = 0] \in Row /\ [obj[c] EXCEPT !.cvn = 0].ver = Latest
          <5>1. 0 \in Versions
            BY DEF Versions
          <5> QED
            BY <4>1, <5>1 DEF Row
        <4> QED
          BY <4>1, <4>2, <4>3
      <3>9. CASE Promote(c)
        BY <3>9 DEF Promote
      <3>10. CASE DeleteFeatureView(c) \/ DeleteProject(c) \/ Crash(c)
        BY <3>10 DEF DeleteFeatureView, DeleteProject, Crash
      <3> QED
        BY <1>2, <3>1, <3>2, <3>3, <3>4, <3>5, <3>6, <3>7, <3>8, <3>9, <3>10
        DEF StepOf, ApplyStep
    <2> QED
      BY <2>1, <2>2 DEF ClientOK
  <1> QED
    BY <1>1, <1>2 DEF Next, StepOf

-------------------------------------------------------------------------------
(* The history *)

\* No recorded version changes.
Kept == \A n \in Recorded : history'[n] = history[n] /\ history'[n] # NoRow

\* A step keeps the history, or deletes the feature view with all of it. An INSERT
\* only fills a number that is free, and deletions and forward declarations stay known.
LEMMA HistoryStep ==
    ASSUME TypeOK, ClientOK, NEW c \in Clients, StepOf(c)
    PROVE  /\ \/ Kept
              \/ /\ active # NoRow /\ active' = NoRow /\ "view" \in deleted'
                 /\ \A n \in Versions : history'[n] = NoRow
           /\ deleted \subseteq deleted'
           /\ forward => forward'
  <1> USE DEF TypeOK
  <1>0. history' = history => Kept
    BY DEF Kept, Recorded
  <1>1. ASSUME NEW n \in Versions, NEW row \in Row, Recordable(n), Save(n, row) PROVE Kept
    BY <1>1 DEF Kept, Recorded, Recordable, Save
  <1>2. CASE StartApply(c)
    BY <1>0, <1>2 DEF StartApply
  <1>3. CASE GetSnapshot(c) \/ PinCheck(c)
    BY <1>0, <1>3 DEF GetSnapshot, PinCheck
  <1>4. CASE SaveForward(c)
    <2>1. obj[c] \in Row /\ obj[c].ver \in Versions
      BY <1>4 DEF SaveForward, ClientOK, LocalOK, Running, AtRest, Ended
    <2> QED
      BY <1>0, <1>1, <1>4, <2>1 DEF SaveForward
  <1>5. CASE ReadOld(c) \/ Select(c) \/ Write(c) \/ ReadNew(c)
    BY <1>0, <1>5 DEF ReadOld, Select, Write, ReadNew
  <1>6. CASE GetNextVersion(c)
    BY <1>0, <1>6 DEF GetNextVersion
  <1>7. CASE SaveOld(c)
    <2>1. CASE Recordable(0)
      <3>1. history' = [history EXCEPT ![0] = old[c]] /\ UNCHANGED <<deleted, forward>>
        BY <1>7, <2>1 DEF SaveOld, Save
      <3>2. Kept
        BY <2>1, <3>1 DEF Kept, Recorded, Recordable
      <3> QED
        BY <3>1, <3>2
    <2>2. CASE ~Recordable(0)
      BY <1>0, <1>7, <2>2 DEF SaveOld
    <2> QED
      BY <2>1, <2>2
  <1>8. CASE SaveNext(c)
    <2>1. UNCHANGED <<deleted, forward>>
      BY <1>8 DEF SaveNext
    <2>2. CASE Recordable(nextVer[c])
      <3>1. history' = [history EXCEPT ![nextVer[c]] = [obj[c] EXCEPT !.cvn = nextVer[c]]]
        BY <1>8, <2>2 DEF SaveNext, Save
      <3>2. Kept
        BY <2>2, <3>1 DEF Kept, Recorded, Recordable
      <3> QED
        BY <2>1, <3>2
    <2>3. CASE ~Recordable(nextVer[c])
      BY <1>0, <1>8, <2>1, <2>3 DEF SaveNext
    <2> QED
      BY <2>2, <2>3
  <1>9. CASE SaveFirst(c)
    <2>1. UNCHANGED <<deleted, forward>>
      BY <1>9 DEF SaveFirst
    <2>2. CASE Recordable(0)
      <3>1. history' = [history EXCEPT ![0] = [obj[c] EXCEPT !.cvn = 0]]
        BY <1>9, <2>2 DEF SaveFirst, Save
      <3>2. Kept
        BY <2>2, <3>1 DEF Kept, Recorded, Recordable
      <3> QED
        BY <2>1, <3>2
    <2>3. CASE ~Recordable(0)
      BY <1>0, <1>9, <2>1, <2>3 DEF SaveFirst
    <2> QED
      BY <2>2, <2>3
  <1>10. CASE Promote(c)
    BY <1>0, <1>10 DEF Promote
  <1>11. CASE DeleteFeatureView(c)
    BY <1>0, <1>11 DEF DeleteFeatureView, HistoryAfterDelete
  <1>12. CASE DeleteProject(c) \/ Crash(c)
    BY <1>0, <1>12 DEF DeleteProject, Crash
  <1> QED
    BY <1>2, <1>3, <1>4, <1>5, <1>6, <1>7, <1>8, <1>9, <1>10, <1>11, <1>12
    DEF StepOf, ApplyStep

-------------------------------------------------------------------------------
(* Pins *)

\* The definition r is the snapshot n.
IsSnapshot(r, n) ==
    /\ history[n] # NoRow
    /\ r.schema = history[n].schema /\ r.meta = history[n].meta

\* What a client that pins or declares a version has in hand is that version: from
\* the read of the snapshot to the write of the active row.
PinOK(c) ==
    /\ pc[c] = "pinCheck" => IsSnapshot(seen[c], obj[c].ver)
    /\ (pc[c] \in {"select", "write"} /\ obj[c].ver # Latest)
       => IsSnapshot(obj[c], obj[c].ver) /\ obj[c].cvn = obj[c].ver

PinInv == "view" \notin deleted => PinnedIsSnapshot /\ \A c \in Clients : PinOK(c)

\* A step that keeps the history keeps the snapshots.
LEMMA SnapshotKept ==
    ASSUME TypeOK, Kept, NEW r, NEW n \in Versions, IsSnapshot(r, n)
    PROVE  /\ history'[n] # NoRow
           /\ r.schema = history'[n].schema /\ r.meta = history'[n].meta
  BY DEF Kept, Recorded, IsSnapshot

\* A step keeps the pins.
LEMMA PinStep == TypeOK /\ ClientOK /\ PinInv /\ [Next]_vars => PinInv'
  <1> SUFFICES ASSUME TypeOK, ClientOK, PinInv, [Next]_vars PROVE PinInv'
    OBVIOUS
  <1>1. CASE UNCHANGED vars
    BY <1>1 DEF vars, local, PinInv, PinnedIsSnapshot, PinOK, IsSnapshot
  <1>2. ASSUME NEW c \in Clients, StepOf(c) PROVE PinInv'
    <2> SUFFICES ASSUME "view" \notin deleted'
                 PROVE  PinnedIsSnapshot' /\ \A d \in Clients : PinOK(d)'
      BY DEF PinInv
    <2>1. Kept /\ "view" \notin deleted
      BY <1>2, HistoryStep
    <2>2. PinnedIsSnapshot /\ \A d \in Clients : PinOK(d)
      BY <2>1 DEF PinInv
    <2>3. ASSUME NEW d \in Clients, d # c PROVE PinOK(d)'
      <3>1. pc'[d] = pc[d] /\ obj'[d] = obj[d] /\ seen'[d] = seen[d]
        BY <1>2, <2>3, LocalFrame
      <3>2. ASSUME pc[d] = "pinCheck" PROVE IsSnapshot(seen[d], obj[d].ver)'
        <4>1. obj[d].ver \in Versions
          BY <3>2 DEF ClientOK, LocalOK
        <4>2. IsSnapshot(seen[d], obj[d].ver)
          BY <2>2, <3>2 DEF PinOK
        <4>3. /\ history'[obj[d].ver] # NoRow
              /\ seen[d].schema = history'[obj[d].ver].schema /\ seen[d].meta = history'[obj[d].ver].meta
          BY <2>1, <4>1, <4>2, SnapshotKept
        <4> QED
          BY <3>1, <4>3 DEF IsSnapshot
      <3>3. ASSUME pc[d] \in {"select", "write"}, obj[d].ver # Latest
            PROVE  (IsSnapshot(obj[d], obj[d].ver) /\ obj[d].cvn = obj[d].ver)'
        <4>1. obj[d].ver \in Versions
          BY <3>3 DEF ClientOK, LocalOK, Running, AtRest, Ended, Row
        <4>2. IsSnapshot(obj[d], obj[d].ver) /\ obj[d].cvn = obj[d].ver
          BY <2>2, <3>3 DEF PinOK
        <4>3. /\ history'[obj[d].ver] # NoRow
              /\ obj[d].schema = history'[obj[d].ver].schema /\ obj[d].meta = history'[obj[d].ver].meta
          BY <2>1, <4>1, <4>2, SnapshotKept
        <4> QED
          BY <3>1, <4>2, <4>3 DEF IsSnapshot
      <3> QED
        BY <3>1, <3>2, <3>3 DEF PinOK
    <2>4. PinOK(c)'
      <3> USE DEF TypeOK, Goto
      <3>1. CASE StartApply(c)
        <4>1. pc'[c] \in {"readOld", "getSnapshot"}
          BY <3>1 DEF StartApply
        <4> QED
          BY <4>1 DEF PinOK
      <3>2. CASE GetSnapshot(c)
        <4>1. CASE history[obj[c].ver] # NoRow
          <5>1. pc'[c] = "pinCheck" /\ seen'[c] = history[obj[c].ver] /\ obj' = obj /\ history' = history
            BY <3>2, <4>1 DEF GetSnapshot
          <5> QED
            BY <4>1, <5>1 DEF PinOK, IsSnapshot
        <4>2. CASE history[obj[c].ver] = NoRow
          BY <3>2, <4>2 DEF GetSnapshot, PinOK
        <4> QED
          BY <4>1, <4>2
      <3>3. CASE PinCheck(c)
        <4>1. seen[c] \in Row /\ IsSnapshot(seen[c], obj[c].ver)
          BY <2>2, <3>3 DEF PinCheck, PinOK, ClientOK, LocalOK
        <4>2. /\ Restored(c).ver = obj[c].ver /\ Restored(c).cvn = obj[c].ver
              /\ Restored(c).schema = seen[c].schema /\ Restored(c).meta = seen[c].meta
          BY <4>1 DEF Restored, Row
        <4>3. /\ history' = history
              /\ \/ pc'[c] = "pinConflict"
                 \/ pc'[c] = "select" /\ obj'[c] = Restored(c)
          BY <3>3 DEF PinCheck
        <4> QED
          BY <4>1, <4>2, <4>3 DEF PinOK, IsSnapshot
      <3>4. CASE SaveForward(c)
        <4>1. obj[c] \in Row /\ obj[c].ver \in Versions /\ obj[c].cvn = obj[c].ver
          BY <3>4 DEF SaveForward, ClientOK, LocalOK, Running, AtRest, Ended
        <4>2. CASE Recordable(obj[c].ver)
          <5>1. /\ history' = [history EXCEPT ![obj[c].ver] = obj[c]]
                /\ pc'[c] = "select" /\ obj' = obj
            BY <3>4, <4>2 DEF SaveForward, Save, local
          <5>2. history'[obj[c].ver] = obj[c] /\ obj[c] # NoRow
            BY <4>1, <5>1, NoRowAssumption
          <5> QED
            BY <4>1, <5>1, <5>2 DEF PinOK, IsSnapshot
        <4>3. CASE ~Recordable(obj[c].ver)
          BY <3>4, <4>3 DEF SaveForward, PinOK
        <4> QED
          BY <4>2, <4>3
      <3>5. CASE ReadOld(c)
        <4>1. obj'[c] = obj[c] /\ obj[c].ver = Latest /\ pc'[c] = "select"
          BY <3>5 DEF ReadOld, ClientOK, LocalOK, LatestLabels
        <4> QED
          BY <4>1 DEF PinOK
      <3>6. CASE Select(c)
        <4>1. pc[c] = "select" /\ pc'[c] = "write" /\ obj' = obj /\ history' = history
          BY <3>6 DEF Select
        <4> QED
          BY <2>2, <4>1 DEF PinOK, IsSnapshot
      <3>7. CASE Write(c) \/ ReadNew(c)
        BY <3>7 DEF Write, ReadNew, PinOK
      <3>8. CASE GetNextVersion(c) \/ SaveOld(c)
        BY <3>8 DEF GetNextVersion, SaveOld, PinOK
      <3>9. CASE SaveNext(c)
        <4>1. pc'[c] \in {"done", "promote", "versionConflict", "nextVersion"}
          BY <3>9 DEF SaveNext, AfterConflict
        <4> QED
          BY <4>1 DEF PinOK
      <3>10. CASE SaveFirst(c) \/ Promote(c)
        BY <3>10 DEF SaveFirst, Promote, PinOK
      <3>11. CASE DeleteFeatureView(c) \/ DeleteProject(c) \/ Crash(c)
        BY <3>11 DEF DeleteFeatureView, DeleteProject, Crash, PinOK
      <3> QED
        BY <1>2, <3>1, <3>2, <3>3, <3>4, <3>5, <3>6, <3>7, <3>8, <3>9, <3>10, <3>11
        DEF StepOf, ApplyStep
    <2>5. PinnedIsSnapshot'
      <3>1. CASE active' = active
        <4> SUFFICES ASSUME active # NoRow, active.ver # Latest
                     PROVE  /\ history'[active.ver] # NoRow
                            /\ active.schema = history'[active.ver].schema
                            /\ active.meta = history'[active.ver].meta
                            /\ active.cvn = active.ver
          BY <3>1 DEF PinnedIsSnapshot
        <4>1. active.ver \in Versions
          BY DEF TypeOK, Row
        <4>2. IsSnapshot(active, active.ver) /\ active.cvn = active.ver
          BY <2>1, <2>2 DEF PinnedIsSnapshot, IsSnapshot
        <4> QED
          BY <2>1, <4>1, <4>2, SnapshotKept
      <3>2. CASE active' = NoRow
        BY <3>2 DEF PinnedIsSnapshot
      <3>3. CASE Write(c) /\ active' = obj[c]
        <4>1. pc[c] = "write" /\ history' = history
          BY <3>3 DEF Write
        <4> QED
          BY <2>2, <3>3, <4>1 DEF PinOK, IsSnapshot, PinnedIsSnapshot
      <3>4. CASE Promote(c) /\ active' = obj[c]
        <4>1. obj[c].ver = Latest
          BY <3>4 DEF Promote, ClientOK, LocalOK, LatestLabels
        <4> QED
          BY <3>4, <4>1 DEF PinnedIsSnapshot
      <3>5. \/ active' = active \/ active' = NoRow
            \/ Write(c) /\ active' = obj[c]
            \/ Promote(c) /\ active' = obj[c]
        <4>1. CASE Write(c)
          BY <4>1 DEF Write, Written
        <4>2. CASE Promote(c)
          BY <4>2 DEF Promote
        <4>3. CASE ~Write(c) /\ ~Promote(c)
          BY <1>2, <4>3 DEF StepOf, ApplyStep, StartApply, GetSnapshot, PinCheck, SaveForward,
             ReadOld, Select, ReadNew, GetNextVersion, SaveOld, SaveNext, SaveFirst,
             DeleteFeatureView, DeleteProject, Crash
        <4> QED
          BY <4>1, <4>2, <4>3
      <3> QED
        BY <3>1, <3>2, <3>3, <3>4, <3>5
    <2> QED
      BY <2>3, <2>4, <2>5
  <1> QED
    BY <1>1, <1>2 DEF Next, StepOf

-------------------------------------------------------------------------------
(* Version numbers *)

\* A number that a client is about to claim is 0 or follows a recorded version.
NextOK(c) == (pc[c] = "saveNext" /\ nextVer[c] > 0) => nextVer[c] - 1 \in Recorded

NumberInv ==
    ("view" \notin deleted /\ ~forward)
    => ContiguousVersions /\ \A c \in Clients : NextOK(c)

\* A step keeps the version numbers contiguous.
LEMMA NumberStep == TypeOK /\ ClientOK /\ NumberInv /\ [Next]_vars => NumberInv'
  <1> SUFFICES ASSUME TypeOK, ClientOK, NumberInv, [Next]_vars PROVE NumberInv'
    OBVIOUS
  <1>1. CASE UNCHANGED vars
    BY <1>1 DEF vars, local, NumberInv, ContiguousVersions, NextOK, Recorded
  <1>2. ASSUME NEW c \in Clients, StepOf(c) PROVE NumberInv'
    <2> SUFFICES ASSUME "view" \notin deleted', ~forward'
                 PROVE  ContiguousVersions' /\ \A d \in Clients : NextOK(d)'
      BY DEF NumberInv
    <2>1. Kept /\ "view" \notin deleted /\ ~forward
      BY <1>2, HistoryStep
    <2>2. ContiguousVersions /\ \A d \in Clients : NextOK(d)
      BY <2>1 DEF NumberInv
    <2>3. Recorded \subseteq Recorded'
      BY <2>1 DEF Kept, Recorded
    <2>4. ASSUME NEW d \in Clients, d # c PROVE NextOK(d)'
      BY <1>2, <2>2, <2>3, <2>4, LocalFrame DEF NextOK
    <2> USE BoundsAssumption DEF TypeOK, Goto, Versions
    <2>5. ASSUME Recorded' = Recorded, pc'[c] # "saveNext"
          PROVE  ContiguousVersions' /\ NextOK(c)'
      BY <2>1, <2>2, <2>5 DEF ContiguousVersions, NextOK
    <2>6. ASSUME NEW n \in Versions, Recorded' = Recorded \cup {n},
                 n > 0 => n - 1 \in Recorded
          PROVE  ContiguousVersions'
      BY <2>1, <2>2, <2>6 DEF ContiguousVersions
    <2>7. ContiguousVersions' /\ NextOK(c)'
      <3>1. CASE StartApply(c)
        <4>1. pc'[c] \in {"readOld", "getSnapshot"} /\ history' = history
          BY <3>1 DEF StartApply
        <4> QED
          BY <2>5, <4>1 DEF Recorded
      <3>2. CASE GetSnapshot(c) \/ PinCheck(c)
        BY <2>5, <3>2 DEF GetSnapshot, PinCheck, Recorded
      <3>3. CASE SaveForward(c)
        BY <2>5, <3>3 DEF SaveForward, Recorded
      <3>4. CASE ReadOld(c) \/ Select(c)
        BY <2>5, <3>4 DEF ReadOld, Select, Recorded
      <3>5. CASE Write(c) \/ ReadNew(c)
        BY <2>5, <3>5 DEF Write, ReadNew, Recorded
      <3>6. CASE GetNextVersion(c)
        <4>1. Recorded' = Recorded
          BY <3>6 DEF GetNextVersion, Recorded
        <4>2. nextVer'[c] = NextVersionNumber
          BY <3>6 DEF GetNextVersion
        <4>3. NextOK(c)'
          BY <4>1, <4>2, NextVersionFollows DEF NextOK
        <4> QED
          BY <2>1, <2>2, <4>1, <4>3 DEF ContiguousVersions
      <3>7. CASE SaveOld(c)
        <4>1. CASE Recordable(0) /\ old[c] # NoRow
          <5>1. history' = [history EXCEPT ![0] = old[c]] /\ nextVer'[c] = 1
            BY <3>7, <4>1 DEF SaveOld, Save
          <5>2. Recorded' = Recorded \cup {0}
            BY <4>1, <5>1 DEF Recorded
          <5>3. ContiguousVersions'
            BY <2>6, <5>2
          <5>4. NextOK(c)'
            BY <5>1, <5>2 DEF NextOK
          <5> QED
            BY <5>3, <5>4
        <4>2. CASE ~Recordable(0)
          BY <2>5, <3>7, <4>2 DEF SaveOld, Recorded
        <4>3. old[c] # NoRow
          BY <3>7 DEF SaveOld, ClientOK, LocalOK
        <4> QED
          BY <4>1, <4>2, <4>3
      <3>8. CASE SaveNext(c)
        <4>1. CASE Recordable(nextVer[c])
          <5>0. pc[c] = "saveNext" /\ nextVer[c] <= MaxVersion
            BY <3>8 DEF SaveNext
          <5>1. /\ obj[c] \in Row /\ nextVer[c] \in Versions
                /\ nextVer[c] > 0 => nextVer[c] - 1 \in Recorded
            <6>1. obj[c] \in Row
              BY <5>0 DEF ClientOK, LocalOK, Running, AtRest, Ended
            <6>2. nextVer[c] > 0 => nextVer[c] - 1 \in Recorded
              BY <2>2, <5>0 DEF NextOK
            <6>3. nextVer[c] \in Versions
              BY <5>0
            <6> QED
              BY <6>1, <6>2, <6>3
          <5>2. [obj[c] EXCEPT !.cvn = nextVer[c]] \in Row
            BY <5>1 DEF Row
          <5>3. history' = [history EXCEPT ![nextVer[c]] = [obj[c] EXCEPT !.cvn = nextVer[c]]]
            BY <3>8, <4>1 DEF SaveNext, Save
          <5>4. Recorded' = Recorded \cup {nextVer[c]}
            BY <5>1, <5>2, <5>3, NoRowAssumption DEF Recorded
          <5>5. pc'[c] \in {"done", "promote"}
            BY <3>8, <4>1 DEF SaveNext
          <5>6. ContiguousVersions'
            BY <2>6, <5>1, <5>4
          <5> QED
            BY <5>5, <5>6 DEF NextOK
        <4>2. CASE ~Recordable(nextVer[c])
          <5>1. history' = history /\ pc'[c] \in {"versionConflict", "nextVersion"}
            BY <3>8, <4>2 DEF SaveNext, AfterConflict
          <5> QED
            BY <2>5, <5>1 DEF Recorded
        <4> QED
          BY <4>1, <4>2
      <3>9. CASE SaveFirst(c)
        <4>1. CASE Recordable(0)
          <5>0. pc[c] = "saveFirst" /\ 0 \in Versions
            BY <3>9 DEF SaveFirst
          <5>1. obj[c] \in Row
            BY <5>0 DEF ClientOK, LocalOK, Running, AtRest, Ended
          <5>2. [obj[c] EXCEPT !.cvn = 0] \in Row
            BY <5>0, <5>1 DEF Row
          <5>3. history' = [history EXCEPT ![0] = [obj[c] EXCEPT !.cvn = 0]]
            BY <3>9, <4>1 DEF SaveFirst, Save
          <5>4. Recorded' = Recorded \cup {0}
            BY <5>0, <5>2, <5>3, NoRowAssumption DEF Recorded
          <5>5. pc'[c] = "promote"
            BY <3>9, <4>1 DEF SaveFirst
          <5>6. ContiguousVersions'
            BY <2>6, <5>0, <5>4
          <5> QED
            BY <5>5, <5>6 DEF NextOK
        <4>2. CASE ~Recordable(0)
          BY <2>5, <3>9, <4>2 DEF SaveFirst, Recorded
        <4> QED
          BY <4>1, <4>2
      <3>10. CASE Promote(c)
        BY <2>5, <3>10 DEF Promote, Recorded
      <3>11. CASE DeleteFeatureView(c)
        <4>1. history' = history /\ pc'[c] # "saveNext"
          BY <3>11 DEF DeleteFeatureView
        <4> QED
          BY <2>5, <4>1 DEF Recorded
      <3>12. CASE DeleteProject(c) \/ Crash(c)
        BY <2>5, <3>12 DEF DeleteProject, Crash, Recorded
      <3> QED
        BY <1>2, <3>1, <3>2, <3>3, <3>4, <3>5, <3>6, <3>7, <3>8, <3>9, <3>10, <3>11, <3>12
        DEF StepOf, ApplyStep
    <2> QED
      BY <2>4, <2>7
  <1> QED
    BY <1>1, <1>2 DEF Next, StepOf

-------------------------------------------------------------------------------
(* The theorems *)

\* The inductive invariant.
IInv == TypeOK /\ ClientOK /\ PinInv /\ NumberInv

\* The registry starts empty, in a state of the inductive invariant.
LEMMA InitIInv == Init => IInv
  <1> SUFFICES ASSUME Init PROVE IInv
    OBVIOUS
  <1> USE BoundsAssumption DEF Init
  <1>1. TypeOK
    <2>1. pc \in [Clients -> Labels]
      BY DEF Labels
    <2>2. history \in [Versions -> Row \cup {NoRow}] /\ active \in Row \cup {NoRow}
      OBVIOUS
    <2>3. nextVer \in [Clients -> 0..(MaxVersion + 1)] /\ tries \in [Clients -> 0..MaxRetries]
      OBVIOUS
    <2>4. /\ obj \in [Clients -> Row \cup {NoRow}] /\ old \in [Clients -> Row \cup {NoRow}]
          /\ seen \in [Clients -> Row \cup {NoRow}]
      OBVIOUS
    <2>5. noPromote \in [Clients -> BOOLEAN] /\ forward \in BOOLEAN
      OBVIOUS
    <2>6. ops \in 0..MaxOps /\ deleted \subseteq {"view", "project"}
      OBVIOUS
    <2> QED
      BY ONLY <2>1, <2>2, <2>3, <2>4, <2>5, <2>6 DEF TypeOK
  <1>2. ClientOK
    BY DEF ClientOK, LocalOK, Running, AtRest, LatestLabels
  <1>3. PinInv
    BY DEF PinInv, PinnedIsSnapshot, PinOK
  <1>4. NumberInv
    BY DEF NumberInv, ContiguousVersions, NextOK, Recorded
  <1> QED
    BY <1>1, <1>2, <1>3, <1>4 DEF IInv

\* Every reachable state satisfies the inductive invariant.
THEOREM InductiveInvariant == Spec => []IInv
  <1>1. Init => IInv
    BY InitIInv
  <1>2. IInv /\ [Next]_vars => IInv'
    BY TypeStep, ClientStep, PinStep, NumberStep DEF IInv
  <1> QED
    BY <1>1, <1>2, PTL DEF Spec

\* The variables of the registry and of its clients keep their types.
THEOREM TypeCorrect == Spec => []TypeOK
  <1>1. IInv => TypeOK
    BY DEF IInv
  <1> QED
    BY <1>1, InductiveInvariant, PTL

\* feature_view_version_history is append-only: whatever calls race, retry, fail or
\* crash, a recorded version changes only when delete_feature_view removes them all.
THEOREM HistoryIsAppendOnly == Spec => HistoryAppendOnly
  <1> DEFINE A == \/ \A n \in Recorded : history'[n] = history[n]
                  \/ active # NoRow /\ active' = NoRow /\ \A n \in Versions : history'[n] = NoRow
  <1>1. IInv /\ [Next]_vars => [A]_vars
    <2> SUFFICES ASSUME IInv, [Next]_vars PROVE [A]_vars
      OBVIOUS
    <2>1. CASE UNCHANGED vars
      BY <2>1
    <2>2. ASSUME NEW c \in Clients, StepOf(c) PROVE A
      BY <2>2, HistoryStep DEF IInv, Kept
    <2> QED
      BY <2>1, <2>2 DEF Next, StepOf
  <1> QED
    BY <1>1, InductiveInvariant, PTL DEF Spec, HistoryAppendOnly

\* As long as delete_feature_view has not run, an active row that is pinned to a
\* version is that version's snapshot, although reading the snapshot, checking the
\* active row and writing it are three steps.
THEOREM PinsAreSnapshots == Spec => []PinnedIsSnapshot
  <1>1. IInv => PinnedIsSnapshot
    BY DEF IInv, PinInv, PinnedIsSnapshot
  <1> QED
    BY <1>1, InductiveInvariant, PTL

\* Without forward declarations and delete_feature_view, racing applies number the
\* versions without gaps.
THEOREM VersionsAreContiguous == Spec => []ContiguousVersions
  <1>1. IInv => ContiguousVersions
    BY DEF IInv, NumberInv, ContiguousVersions
  <1> QED
    BY <1>1, InductiveInvariant, PTL

-------------------------------------------------------------------------------
(* A single client *)

\* One client that does not crash: every sequence of calls, one after the other.
Sequential == ~MayCrash /\ \E c : Clients = {c}

RecordedSchema(x) == \E n \in Versions : history[n] # NoRow /\ history[n].schema = x

\* The number of the active row is that of its schema.
Numbered ==
    active # NoRow /\ active.cvn # None =>
       history[active.cvn] # NoRow /\ history[active.cvn].schema = active.schema

NoneRecorded == \A n \in Versions : history[n] = NoRow

\* What holds between two calls.
Orderly ==
    /\ active # NoRow => RecordedSchema(active.schema)
    /\ Numbered
    /\ active = NoRow => NoneRecorded

\* The object of a pin or declaration is the recorded version.
ObjRecorded(c) ==
    /\ obj[c].ver \in Versions /\ obj[c].cvn = obj[c].ver
    /\ history[obj[c].ver] # NoRow /\ history[obj[c].ver].schema = obj[c].schema

\* ... and inside a call.
SeqAt(c) ==
    /\ AtRest(c) \/ pc[c] \in {"getSnapshot", "pinCheck", "forward", "readOld"} => Orderly
    /\ pc[c] \in {"readOld", "readNew"} => obj[c].cvn = None
    /\ pc[c] = "pinCheck" => seen[c] = history[obj[c].ver]
    /\ pc[c] = "forward" => history[obj[c].ver] = NoRow
    /\ pc[c] \in {"select", "write"} =>
         /\ IF obj[c].ver = Latest THEN Orderly /\ old[c] = active /\ obj[c].cvn = None
            ELSE Numbered /\ ObjRecorded(c)
         /\ active # NoRow => RecordedSchema(active.schema)
    /\ pc[c] = "write" => seen[c] = active
    /\ pc[c] \in {"readNew", "nextVersion", "saveNext", "saveFirst"} =>
         active # NoRow /\ active.schema = obj[c].schema /\ Numbered
    /\ pc[c] = "readNew" =>
         IF old[c] = NoRow THEN NoneRecorded ELSE RecordedSchema(old[c].schema)
    /\ pc[c] = "nextVersion" => ~NoneRecorded
    /\ pc[c] = "saveFirst" => NoneRecorded
    /\ pc[c] = "saveNext" => nextVer[c] \in Versions /\ history[nextVer[c]] = NoRow
    /\ pc[c] = "promote" =>
         /\ active # NoRow
         /\ obj[c].cvn \in Versions /\ history[obj[c].cvn] # NoRow
         /\ history[obj[c].cvn].schema = obj[c].schema
    /\ pc[c] # "saveOld"

SeqInv == "project" \notin deleted => \A c \in Clients : SeqAt(c)

\* _get_next_version_number returns a number above every recorded one.
LEMMA NextVersionFree ==
    ASSUME TypeOK
    PROVE  /\ NextVersionNumber \in Versions => history[NextVersionNumber] = NoRow
           /\ ~NoneRecorded => NextVersionNumber > 0
  <1>1. Recorded \subseteq 0..MaxVersion /\ MaxVersion \in Nat
    BY BoundsAssumption DEF Recorded, Versions
  <1>2. CASE Recorded = {}
    <2>1. NoneRecorded
      BY <1>2 DEF Recorded, NoneRecorded
    <2> QED
      BY <2>1 DEF NoneRecorded
  <1>3. CASE Recorded # {}
    <2>1. Max(Recorded) \in Recorded /\ \A y \in Recorded : y <= Max(Recorded)
      BY <1>1, <1>3, MaxExists
    <2>2. NextVersionNumber = Max(Recorded) + 1
      BY <1>3 DEF NextVersionNumber
    <2>3. Max(Recorded) \in 0..MaxVersion
      BY <1>1, <2>1
    <2>4. NextVersionNumber > 0 /\ NextVersionNumber \notin Recorded
      BY <1>1, <2>1, <2>2, <2>3
    <2> QED
      BY <2>4 DEF Recorded
  <1> QED
    BY <1>2, <1>3

\* Recording a version under a free number keeps what is recorded.
LEMMA RecordingKeeps ==
    ASSUME TypeOK, NEW n \in Versions, NEW row \in Row, history[n] = NoRow, Save(n, row)
    PROVE  /\ \A x : RecordedSchema(x) => RecordedSchema(x)'
           /\ active' = active /\ Numbered => Numbered'
           /\ history'[n] = row /\ row # NoRow
           /\ RecordedSchema(row.schema)'
  <1>1. history' = [history EXCEPT ![n] = row] /\ row # NoRow
    BY NoRowAssumption DEF Save
  <1>2. history'[n] = row /\ \A m \in Versions : m # n => history'[m] = history[m]
    BY <1>1 DEF TypeOK
  <1>3. \A m \in Versions : history[m] # NoRow => history'[m] = history[m]
    BY <1>2
  <1>4. ASSUME NEW x, RecordedSchema(x) PROVE RecordedSchema(x)'
    BY <1>3, <1>4 DEF RecordedSchema
  <1>5. ASSUME active' = active, Numbered PROVE Numbered'
    <2>1. active # NoRow /\ active.cvn # None => active.cvn \in Versions
      BY DEF TypeOK, Row
    <2> QED
      BY <1>3, <1>5, <2>1 DEF Numbered
  <1>6. RecordedSchema(row.schema)'
    BY <1>1, <1>2 DEF RecordedSchema
  <1> QED
    BY <1>1, <1>2, <1>4, <1>5, <1>6

\* A step that leaves the table and the history alone keeps what is said of them.
LEMMA RegistryFrame ==
    ASSUME active' = active, history' = history
    PROVE  /\ Orderly' <=> Orderly
           /\ Numbered' <=> Numbered
           /\ NoneRecorded' <=> NoneRecorded
           /\ \A x : RecordedSchema(x)' <=> RecordedSchema(x)
  BY DEF Orderly, Numbered, NoneRecorded, RecordedSchema

\* A step of the only client keeps what holds at its label.
LEMMA SeqClientStep ==
    ASSUME TypeOK, ClientOK, ~MayCrash, NEW c \in Clients, SeqAt(c), StepOf(c),
           "project" \notin deleted'
    PROVE  SeqAt(c)'
  <1> USE DEF TypeOK, Goto
  <1>0. LocalOK(c) /\ (Running(c) => obj[c] \in Row)
    BY DEF ClientOK, LocalOK
  <1>1. CASE StartApply(c)
    <2>1. /\ AtRest(c) /\ active' = active /\ history' = history
          /\ pc'[c] \in {"readOld", "getSnapshot"} /\ obj'[c].cvn = None
      BY <1>1 DEF StartApply
    <2>2. Orderly'
      BY <2>1, RegistryFrame DEF SeqAt
    <2> QED
      BY <2>1, <2>2 DEF SeqAt, AtRest, Ended
  <1>2. CASE GetSnapshot(c)
    <2>1. pc[c] = "getSnapshot" /\ active' = active /\ history' = history
      BY <1>2 DEF GetSnapshot
    <2>2. obj[c] \in Row /\ obj[c].ver \in Versions
      BY <1>0, <2>1 DEF LocalOK, Running, AtRest, Ended
    <2>3. Orderly'
      BY <2>1, RegistryFrame DEF SeqAt
    <2>4. CASE history[obj[c].ver] # NoRow
      <3>1. pc'[c] = "pinCheck" /\ seen'[c] = history[obj[c].ver] /\ obj' = obj
        BY <1>2, <2>4 DEF GetSnapshot
      <3> QED
        BY <2>1, <2>3, <3>1 DEF SeqAt, AtRest, Ended
    <2>5. CASE history[obj[c].ver] = NoRow
      <3>1. pc'[c] = "forward" /\ obj'[c] = [obj[c] EXCEPT !.cvn = obj[c].ver]
        BY <1>2, <2>5 DEF GetSnapshot
      <3>2. obj'[c].ver = obj[c].ver
        BY <2>2, <3>1 DEF Row
      <3> QED
        BY <2>1, <2>3, <2>5, <3>1, <3>2 DEF SeqAt, AtRest, Ended
    <2> QED
      BY <2>4, <2>5
  <1>3. CASE PinCheck(c)
    <2>1. pc[c] = "pinCheck" /\ active' = active /\ history' = history
      BY <1>3 DEF PinCheck
    <2>2. /\ obj[c] \in Row /\ obj[c].ver \in Versions /\ seen[c] \in Row
          /\ seen[c] = history[obj[c].ver] /\ Orderly
      BY <1>0, <2>1 DEF LocalOK, Running, AtRest, Ended, SeqAt
    <2>3. Orderly'
      BY <2>1, <2>2, RegistryFrame
    <2>4. CASE pc'[c] = "pinConflict"
      BY <2>3, <2>4 DEF SeqAt, AtRest, Ended
    <2>5. CASE pc'[c] = "select" /\ obj'[c] = Restored(c)
      <3>1. /\ obj'[c].ver = obj[c].ver /\ obj'[c].cvn = obj[c].ver
            /\ obj'[c].schema = seen[c].schema
        BY <2>2, <2>5 DEF Restored, Row
      <3>2. ObjRecorded(c)'
        BY <2>1, <2>2, <3>1, NoRowAssumption DEF ObjRecorded
      <3>3. obj'[c].ver # Latest
        BY <2>2, <3>1, BoundsAssumption DEF Latest, Versions
      <3>4. Numbered' /\ (active # NoRow => RecordedSchema(active.schema))'
        BY <2>3 DEF Orderly
      <3> QED
        BY <2>5, <3>2, <3>3, <3>4 DEF SeqAt, AtRest, Ended
    <2> QED
      BY <1>3, <2>4, <2>5 DEF PinCheck
  <1>4. CASE SaveForward(c)
    <2>1. pc[c] = "forward" /\ active' = active /\ obj' = obj
      BY <1>4 DEF SaveForward, local
    <2>2. /\ obj[c] \in Row /\ obj[c].ver \in Versions /\ obj[c].cvn = obj[c].ver
          /\ history[obj[c].ver] = NoRow /\ Orderly
      BY <1>0, <2>1 DEF LocalOK, Running, AtRest, Ended, SeqAt
    <2>3. pc'[c] = "select" /\ Save(obj[c].ver, obj[c])
      BY <1>4, <2>2 DEF SaveForward, Recordable
    <2>4. /\ \A x : RecordedSchema(x) => RecordedSchema(x)'
          /\ Numbered' /\ history'[obj[c].ver] = obj[c] /\ obj[c] # NoRow
      BY <2>1, <2>2, <2>3, RecordingKeeps DEF Orderly
    <2>5. ObjRecorded(c)'
      BY <2>1, <2>2, <2>4 DEF ObjRecorded
    <2>6. obj'[c].ver # Latest
      BY <2>1, <2>2, BoundsAssumption DEF Latest, Versions
    <2>7. (active # NoRow => RecordedSchema(active.schema))'
      <3>1. active # NoRow => RecordedSchema(active.schema)
        BY <2>2 DEF Orderly
      <3> QED
        BY <2>1, <2>4, <3>1 DEF RecordedSchema
    <2> QED
      BY <2>3, <2>4, <2>5, <2>6, <2>7 DEF SeqAt, AtRest, Ended
  <1>5. CASE ReadOld(c)
    <2>1. /\ pc[c] = "readOld" /\ pc'[c] = "select" /\ active' = active /\ history' = history
          /\ obj' = obj /\ old'[c] = active
      BY <1>5 DEF ReadOld
    <2>2. obj[c].ver = Latest /\ obj[c].cvn = None /\ Orderly
      BY <1>0, <2>1 DEF LocalOK, LatestLabels, SeqAt
    <2>3. Orderly'
      BY <2>1, <2>2, RegistryFrame
    <2>4. (active # NoRow => RecordedSchema(active.schema))'
      BY <2>3 DEF Orderly
    <2> QED
      BY <2>1, <2>2, <2>3, <2>4 DEF SeqAt, AtRest, Ended
  <1>6. CASE Select(c)
    <2>1. /\ pc[c] = "select" /\ pc'[c] = "write" /\ active' = active /\ history' = history
          /\ obj' = obj /\ old' = old /\ seen'[c] = active
      BY <1>6 DEF Select
    <2>2. /\ IF obj[c].ver = Latest THEN Orderly /\ old[c] = active /\ obj[c].cvn = None
             ELSE Numbered /\ ObjRecorded(c)
          /\ active # NoRow => RecordedSchema(active.schema)
      BY <2>1 DEF SeqAt
    <2>3. ObjRecorded(c)' <=> ObjRecorded(c)
      BY <2>1 DEF ObjRecorded
    <2>4. /\ Orderly' <=> Orderly
          /\ Numbered' <=> Numbered
          /\ (active # NoRow => RecordedSchema(active.schema))'
             <=> (active # NoRow => RecordedSchema(active.schema))
      BY <2>1 DEF Orderly, Numbered, NoneRecorded, RecordedSchema
    <2> QED
      BY <2>1, <2>2, <2>3, <2>4 DEF SeqAt, AtRest, Ended
  <1>7. CASE Write(c)
    <2>1. /\ pc[c] = "write" /\ active' = Written(c) /\ history' = history
          /\ obj' = obj /\ old' = old
      BY <1>7 DEF Write, local
    <2>2. /\ IF obj[c].ver = Latest THEN Orderly /\ old[c] = active /\ obj[c].cvn = None
             ELSE Numbered /\ ObjRecorded(c)
          /\ active # NoRow => RecordedSchema(active.schema)
          /\ seen[c] = active /\ obj[c] \in Row /\ obj[c] # NoRow
      BY <1>0, <2>1, NoRowAssumption DEF SeqAt, Running, AtRest, Ended
    <2>3. /\ active' # NoRow /\ active'.schema = obj[c].schema
          /\ active' = obj[c] \/ (active' = active /\ active # NoRow)
      BY <2>1, <2>2 DEF Written, Same
    <2>4. CASE obj[c].ver = Latest
      <3>1. pc'[c] = "readNew"
        BY <1>7, <2>4 DEF Write
      <3>2. Orderly /\ old[c] = active /\ obj[c].cvn = None
        BY <2>2, <2>4
      <3>3. Numbered'
        BY <2>1, <2>3, <3>2 DEF Orderly, Numbered
      <3>4. (IF old[c] = NoRow THEN NoneRecorded ELSE RecordedSchema(old[c].schema))'
        BY <2>1, <3>2 DEF Orderly, NoneRecorded, RecordedSchema
      <3> QED
        BY <2>1, <2>3, <3>1, <3>2, <3>3, <3>4 DEF SeqAt, AtRest, Ended
    <2>5. CASE obj[c].ver # Latest
      <3>1. pc'[c] = "done"
        BY <1>7, <2>5 DEF Write
      <3>2. Numbered /\ ObjRecorded(c)
        BY <2>2, <2>5
      <3>3. RecordedSchema(obj[c].schema)
        BY <3>2 DEF ObjRecorded, RecordedSchema
      <3>4. RecordedSchema(active.schema)'
        BY <2>1, <2>3, <3>3 DEF RecordedSchema
      <3>5. Numbered'
        BY <2>1, <2>3, <3>2 DEF Numbered, ObjRecorded
      <3>6. Orderly'
        BY <2>3, <3>4, <3>5 DEF Orderly
      <3> QED
        BY <3>1, <3>6 DEF SeqAt, AtRest, Ended
    <2> QED
      BY <2>4, <2>5
  <1>8. CASE ReadNew(c)
    <2>1. /\ pc[c] = "readNew" /\ active' = active /\ history' = history
          /\ obj' = obj /\ old' = old
      BY <1>8 DEF ReadNew, local
    <2>2. /\ active # NoRow /\ active.schema = obj[c].schema /\ Numbered
          /\ IF old[c] = NoRow THEN NoneRecorded ELSE RecordedSchema(old[c].schema)
      BY <2>1 DEF SeqAt
    <2>3. Numbered'
      BY <2>1, <2>2, RegistryFrame
    <2>4. CASE old[c] = NoRow
      <3>1. pc'[c] = "saveFirst"
        BY <1>8, <2>2, <2>4 DEF ReadNew
      <3>2. NoneRecorded'
        BY <2>1, <2>2, <2>4, RegistryFrame
      <3> QED
        BY <2>1, <2>2, <2>3, <3>1, <3>2 DEF SeqAt, AtRest, Ended
    <2>5. CASE old[c] # NoRow /\ SchemaChanged(active, old[c])
      <3>1. pc'[c] = "nextVersion"
        BY <1>8, <2>2, <2>5 DEF ReadNew
      <3>2. ~NoneRecorded'
        BY <2>1, <2>2, <2>5 DEF NoneRecorded, RecordedSchema
      <3> QED
        BY <2>1, <2>2, <2>3, <3>1, <3>2 DEF SeqAt, AtRest, Ended
    <2>6. CASE old[c] # NoRow /\ ~SchemaChanged(active, old[c])
      <3>1. pc'[c] = "done"
        BY <1>8, <2>2, <2>6 DEF ReadNew
      <3>2. RecordedSchema(active.schema)'
        BY <2>1, <2>2, <2>6 DEF SchemaChanged, RecordedSchema
      <3>3. Orderly'
        BY <2>1, <2>2, <2>3, <3>2 DEF Orderly
      <3> QED
        BY <3>1, <3>3 DEF SeqAt, AtRest, Ended
    <2> QED
      BY <2>4, <2>5, <2>6
  <1>9. CASE GetNextVersion(c)
    <2>1. /\ pc[c] = "nextVersion" /\ active' = active /\ history' = history /\ obj' = obj
          /\ NextVersionNumber <= MaxVersion /\ nextVer'[c] = NextVersionNumber
      BY <1>9, NextVersionFollows DEF GetNextVersion
    <2>2. active # NoRow /\ active.schema = obj[c].schema /\ Numbered /\ ~NoneRecorded
      BY <2>1 DEF SeqAt
    <2>3. NextVersionNumber > 0 /\ NextVersionNumber \in Versions
      BY <2>1, <2>2, NextVersionFree, NextVersionFollows, BoundsAssumption DEF Versions
    <2>4. history[NextVersionNumber] = NoRow
      BY <2>3, NextVersionFree
    <2>5. pc'[c] = "saveNext"
      BY <1>9, <2>3 DEF GetNextVersion
    <2>6. Numbered'
      BY <2>1, <2>2, RegistryFrame
    <2>7. nextVer'[c] \in Versions /\ history'[nextVer'[c]] = NoRow
      BY <2>1, <2>3, <2>4
    <2> QED
      BY <2>1, <2>2, <2>5, <2>6, <2>7 DEF SeqAt, AtRest, Ended
  <1>10. CASE SaveOld(c)
    BY <1>10 DEF SaveOld, SeqAt
  <1>11. CASE SaveNext(c)
    <2>1. pc[c] = "saveNext" /\ active' = active
      BY <1>11 DEF SaveNext
    <2>2. /\ active # NoRow /\ active.schema = obj[c].schema /\ Numbered
          /\ nextVer[c] \in Versions /\ history[nextVer[c]] = NoRow /\ obj[c] \in Row
      BY <1>0, <2>1 DEF SeqAt, Running, AtRest, Ended
    <2>3. PICK row : row = [obj[c] EXCEPT !.cvn = nextVer[c]]
      OBVIOUS
    <2>4. Save(nextVer[c], row) /\ obj'[c] = row /\ pc'[c] \in {"done", "promote"}
      BY <1>11, <2>2, <2>3 DEF SaveNext, Recordable
    <2>5. row \in Row /\ row.schema = obj[c].schema /\ row.cvn = nextVer[c]
      BY <2>2, <2>3 DEF Row
    <2>6. /\ history'[nextVer[c]] = row /\ row # NoRow /\ Numbered'
          /\ RecordedSchema(row.schema)'
      BY <2>1, <2>2, <2>4, <2>5, RecordingKeeps
    <2>7. CASE pc'[c] = "promote"
      BY <2>1, <2>2, <2>4, <2>5, <2>6, <2>7 DEF SeqAt, AtRest, Ended
    <2>8. CASE pc'[c] = "done"
      <3>1. RecordedSchema(active.schema)'
        BY <2>1, <2>2, <2>5, <2>6 DEF RecordedSchema
      <3>2. Orderly'
        BY <2>1, <2>2, <2>6, <3>1 DEF Orderly
      <3> QED
        BY <2>8, <3>2 DEF SeqAt, AtRest, Ended
    <2> QED
      BY <2>4, <2>7, <2>8
  <1>12. CASE SaveFirst(c)
    <2> DEFINE row == [obj[c] EXCEPT !.cvn = 0]
    <2>0. 0 \in Versions
      BY BoundsAssumption DEF Versions
    <2>1. pc[c] = "saveFirst" /\ active' = active
      BY <1>12 DEF SaveFirst
    <2>2. active # NoRow /\ history[0] = NoRow /\ obj[c] \in Row
      BY <1>0, <2>0, <2>1 DEF SeqAt, NoneRecorded, Running, AtRest, Ended
    <2>3. Save(0, row) /\ obj'[c] = row /\ pc'[c] = "promote"
      BY <1>12, <2>2 DEF SaveFirst, Recordable
    <2>4. row \in Row /\ row.schema = obj[c].schema /\ row.cvn = 0
      BY <2>0, <2>2 DEF Row
    <2> HIDE DEF row
    <2>5. history'[0] = row /\ row # NoRow
      BY <2>0, <2>2, <2>3, <2>4, RecordingKeeps
    <2> QED
      BY <2>0, <2>1, <2>2, <2>3, <2>4, <2>5 DEF SeqAt, AtRest, Ended
  <1>13. CASE Promote(c)
    <2>1. /\ pc[c] = "promote" /\ pc'[c] = "done" /\ history' = history
          /\ active' = IF active = NoRow THEN NoRow ELSE obj[c]
      BY <1>13 DEF Promote
    <2>2. /\ active # NoRow /\ obj[c] \in Row /\ obj[c] # NoRow
          /\ obj[c].cvn \in Versions /\ history[obj[c].cvn] # NoRow
          /\ history[obj[c].cvn].schema = obj[c].schema
      BY <1>0, <2>1, NoRowAssumption DEF SeqAt, Running, AtRest, Ended
    <2>3. active' = obj[c]
      BY <2>1, <2>2
    <2>4. Numbered' /\ RecordedSchema(active.schema)'
      BY <2>1, <2>2, <2>3 DEF Numbered, RecordedSchema
    <2>5. Orderly'
      BY <2>2, <2>3, <2>4 DEF Orderly
    <2> QED
      BY <2>1, <2>5 DEF SeqAt, AtRest, Ended
  <1>14. CASE DeleteFeatureView(c)
    <2>1. Orderly /\ pc'[c] \in {"notFound", "done"}
      BY <1>14 DEF DeleteFeatureView, SeqAt
    <2>2. CASE active = NoRow
      <3>1. active' = active /\ history' = history
        BY <1>14, <2>2 DEF DeleteFeatureView
      <3>2. Orderly'
        BY <2>1, <3>1, RegistryFrame
      <3> QED
        BY <2>1, <3>2 DEF SeqAt, AtRest, Ended
    <2>3. CASE active # NoRow
      <3>1. active' = NoRow /\ history' = [n \in Versions |-> NoRow]
        BY <1>14, <2>3 DEF DeleteFeatureView, HistoryAfterDelete
      <3>2. Orderly'
        BY <3>1 DEF Orderly, Numbered, NoneRecorded
      <3> QED
        BY <2>1, <3>2 DEF SeqAt, AtRest, Ended
    <2> QED
      BY <2>2, <2>3
  <1>15. CASE DeleteProject(c)
    BY <1>15 DEF DeleteProject
  <1>16. CASE Crash(c)
    BY <1>16 DEF Crash
  <1> QED
    BY <1>1, <1>2, <1>3, <1>4, <1>5, <1>6, <1>7, <1>8, <1>9, <1>10, <1>11, <1>12,
       <1>13, <1>14, <1>15, <1>16 DEF StepOf, ApplyStep

\* A step keeps what a single client sees.
LEMMA SeqStep ==
    ASSUME Sequential, TypeOK, ClientOK, SeqInv, [Next]_vars
    PROVE  SeqInv'
  <1>1. CASE UNCHANGED vars
    BY <1>1 DEF vars, local, SeqInv, SeqAt, AtRest, ObjRecorded, Orderly, Numbered,
       NoneRecorded, RecordedSchema
  <1>2. ASSUME NEW c \in Clients, StepOf(c) PROVE SeqInv'
    <2> SUFFICES ASSUME "project" \notin deleted', NEW d \in Clients PROVE SeqAt(d)'
      BY DEF SeqInv
    <2>1. "project" \notin deleted
      <3>1. deleted \subseteq deleted'
        BY <1>2 DEF StepOf, ApplyStep, StartApply, GetSnapshot, PinCheck, SaveForward,
           ReadOld, Select, Write, ReadNew, GetNextVersion, SaveOld, SaveNext, SaveFirst,
           Promote, DeleteFeatureView, DeleteProject, Crash
      <3> QED
        BY <3>1
    <2>2. SeqAt(c) /\ ~MayCrash /\ d = c
      BY <2>1 DEF SeqInv, Sequential
    <2>3. SeqAt(c)'
      BY <1>2, <2>2, SeqClientStep
    <2> QED
      BY <2>2, <2>3
  <1> QED
    BY <1>1, <1>2 DEF Next, StepOf

\* With one client, every reachable state satisfies SeqInv.
LEMMA SequentialInvariant == ASSUME Sequential PROVE Spec => []SeqInv
  <1>1. Init => SeqInv
    BY DEF Init, SeqInv, SeqAt, AtRest, Orderly, Numbered, NoneRecorded, RecordedSchema
  <1>2. IInv /\ SeqInv /\ [Next]_vars => SeqInv'
    BY SeqStep DEF IInv
  <1> QED
    BY <1>1, <1>2, InductiveInvariant, PTL DEF Spec

\* Between two calls of the only client the registry is orderly.
LEMMA QuietIsOrderly ==
    ASSUME Sequential, SeqInv, Quiet, "project" \notin deleted
    PROVE  Orderly
  <1>1. PICK c \in Clients : TRUE
    BY DEF Sequential
  <1> QED
    BY <1>1 DEF SeqInv, SeqAt, Quiet

\* However one client chains applies, pins, forward declarations, no_promote applies
\* and deletions of the view, between two calls the active definition is a recorded
\* version: no path of apply_feature_view changes the row without recording it.
THEOREM ActiveIsAVersion == ASSUME Sequential PROVE Spec => []ActiveIsRecorded
  <1>1. SeqInv => ActiveIsRecorded
    BY QuietIsOrderly DEF ActiveIsRecorded, Orderly, RecordedSchema, Recorded
  <1> QED
    BY <1>1, SequentialInvariant, PTL

\* ... the version number of the active row, if it has one, is that of its schema:
\* in-place changes, no_promote applies and pins never leave it with the number of
\* another definition.
THEOREM NumbersAreOfTheirSchema == ASSUME Sequential PROVE Spec => []NumberIsOfSchema
  <1>1. SeqInv => NumberIsOfSchema
    BY QuietIsOrderly DEF NumberIsOfSchema, Orderly, Numbered, SchemaChanged
  <1> QED
    BY <1>1, SequentialInvariant, PTL

\* ... and a feature view that does not exist has no versions, so that the first
\* apply after a deletion can record v0.
THEOREM NothingIsOrphaned == ASSUME Sequential PROVE Spec => []NoOrphanVersions
  <1>1. SeqInv => NoOrphanVersions
    BY QuietIsOrderly DEF NoOrphanVersions, Orderly, NoneRecorded, Recorded
  <1> QED
    BY <1>1, SequentialInvariant, PTL

-------------------------------------------------------------------------------
(* Giving up *)

\* The call of c may still record a version other than the first.
MayClaim(c) ==
    \/ pc[c] \in {"readOld", "getSnapshot", "forward"}
    \/ pc[c] \in {"select", "write", "readNew", "nextVersion", "saveOld", "saveNext"}
       /\ old[c] # NoRow

Claimants == {c \in Clients : MayClaim(c)}
InCall == {c \in Clients : Running(c)}

\* The number that c is about to record has been taken since c read it.
Lost(c) == \/ pc[c] = "saveNext" /\ nextVer[c] \in Recorded
           \/ pc[c] = "saveOld" /\ 1 \in Recorded

\* c is about to take number 0 again: a deletion of the view has freed it.
Reopened(c) ==
    /\ tries[c] > 0
    /\ \/ pc[c] = "nextVersion" /\ Recorded = {}
       \/ pc[c] = "saveNext" /\ nextVer[c] = 0 /\ 0 \notin Recorded

\* The operations that the retries of c are paid with.
Spent(c) == tries[c] + (IF Lost(c) THEN 1 ELSE 0) + (IF Reopened(c) THEN 1 ELSE 0)

\* c has read the old row and has not recorded its number.
Late(c) ==
    /\ old[c] # NoRow
    /\ pc[c] \in {"select", "write", "readNew", "nextVersion", "saveOld", "saveNext",
                  "versionConflict"}

\* The feature view exists or existed.
Existed == active # NoRow \/ deleted # {}

\* What the program counter of c says of its retries.
RetryOK(c) ==
    /\ pc[c] \in {"getSnapshot", "pinCheck", "forward"} => old[c] = NoRow
    /\ pc[c] \in {"readOld", "select", "write", "readNew"} => tries[c] = 0
    /\ pc[c] \in {"getSnapshot", "pinCheck", "forward"} => tries[c] = 0
    /\ pc[c] = "saveNext" /\ nextVer[c] = 0 => tries[c] > 0
    /\ pc[c] = "versionConflict" /\ obj[c] # NoRow /\ obj[c].ver = Latest
         => old[c] # NoRow /\ tries[c] = MaxRetries

\* Every retry is paid with an operation of its own: besides c itself, the call that
\* created the row and the calls that may still record a number, at least Spent(c)
\* operations were started.
PaidFor(c) == Late(c) => ops >= 2 + Cardinality(Claimants \ {c}) + Spent(c)

RetryInv ==
    /\ IsFiniteSet(InCall)
    /\ ops >= Cardinality(InCall)
    /\ Existed => ops >= 1 + Cardinality(Claimants)
    /\ \A c \in Clients : old[c] # NoRow => Existed
    /\ \A c \in Clients : RetryOK(c)
    /\ \A c \in Clients : PaidFor(c)

\* A call that may record a number is running.
LEMMA ClaimantsRun ==
    ASSUME NEW c \in Clients, MayClaim(c)
    PROVE  Running(c)
  BY DEF MayClaim, Running, AtRest, Ended

\* A step keeps what the program counters say of the retries.
LEMMA RetryOKStep ==
    ASSUME TypeOK, ClientOK, NEW c \in Clients, RetryOK(c), StepOf(c)
    PROVE  RetryOK(c)'
  <1> USE BoundsAssumption DEF TypeOK, Goto, RetryOK
  <1>0. LocalOK(c)
    BY DEF ClientOK
  <1>1. CASE StartApply(c)
    <2>1. pc'[c] \in {"readOld", "getSnapshot"} /\ old'[c] = NoRow /\ tries'[c] = 0
      BY <1>1 DEF StartApply
    <2> QED
      BY <2>1
  <1>2. CASE GetSnapshot(c)
    <2>1. pc[c] = "getSnapshot" /\ pc'[c] \in {"pinCheck", "forward"} /\ old' = old /\ tries' = tries
      BY <1>2 DEF GetSnapshot
    <2> QED
      BY <2>1
  <1>3. CASE PinCheck(c)
    <2>1. pc[c] = "pinCheck" /\ pc'[c] \in {"pinConflict", "select"} /\ tries' = tries
      BY <1>3 DEF PinCheck
    <2> QED
      BY <2>1
  <1>4. CASE SaveForward(c)
    <2>1. /\ pc[c] = "forward" /\ pc'[c] \in {"select", "versionConflict"}
          /\ tries' = tries /\ obj' = obj
      BY <1>4 DEF SaveForward, local
    <2>2. obj'[c].ver # Latest
      BY <1>0, <2>1 DEF LocalOK, Versions, Latest
    <2> QED
      BY <2>1, <2>2
  <1>5. CASE ReadOld(c)
    <2>1. pc[c] = "readOld" /\ pc'[c] = "select" /\ tries' = tries
      BY <1>5 DEF ReadOld
    <2> QED
      BY <2>1
  <1>6. CASE Select(c)
    <2>1. pc[c] = "select" /\ pc'[c] = "write" /\ tries' = tries
      BY <1>6 DEF Select
    <2> QED
      BY <2>1
  <1>7. CASE Write(c)
    <2>1. pc[c] = "write" /\ pc'[c] \in {"readNew", "done"} /\ tries' = tries
      BY <1>7 DEF Write, local
    <2> QED
      BY <2>1
  <1>8. CASE ReadNew(c)
    <2>1. pc'[c] \in {"done", "saveFirst", "nextVersion"}
      BY <1>8 DEF ReadNew
    <2> QED
      BY <2>1
  <1>9. CASE GetNextVersion(c)
    <2>1. /\ nextVer'[c] = NextVersionNumber /\ tries' = tries
          /\ pc'[c] = IF NextVersionNumber = 0 /\ tries[c] = 0 THEN "saveOld" ELSE "saveNext"
      BY <1>9, NextVersionFollows DEF GetNextVersion
    <2> QED
      BY <2>1
  <1>10. CASE SaveOld(c)
    <2>1. pc'[c] = "integrityError" \/ (pc'[c] = "saveNext" /\ nextVer'[c] = 1)
      BY <1>10 DEF SaveOld
    <2> QED
      BY <2>1
  <1>11. CASE SaveNext(c)
    <2>1. CASE Recordable(nextVer[c])
      <3>1. pc'[c] \in {"done", "promote"}
        BY <1>11, <2>1 DEF SaveNext
      <3> QED
        BY <3>1
    <2>2. CASE ~Recordable(nextVer[c])
      <3>1. pc[c] = "saveNext" /\ old' = old /\ pc'[c] = AfterConflict(tries[c])
        BY <1>11, <2>2 DEF SaveNext
      <3>2. tries[c] < MaxRetries /\ old[c] # NoRow
        BY <1>0, <3>1 DEF LocalOK, Running, AtRest, Ended
      <3>3. tries'[c] = tries[c] + 1
        BY <1>11, <2>2, <3>2 DEF SaveNext
      <3> QED
        BY <3>1, <3>2, <3>3 DEF AfterConflict
    <2> QED
      BY <2>1, <2>2
  <1>12. CASE SaveFirst(c)
    <2>1. pc'[c] \in {"promote", "integrityError"}
      BY <1>12 DEF SaveFirst
    <2> QED
      BY <2>1
  <1>13. CASE Promote(c) \/ DeleteFeatureView(c) \/ DeleteProject(c) \/ Crash(c)
    <2>1. pc'[c] \in {"done", "notFound", "crashed"}
      BY <1>13 DEF Promote, DeleteFeatureView, DeleteProject, Crash
    <2> QED
      BY <2>1
  <1> QED
    BY <1>1, <1>2, <1>3, <1>4, <1>5, <1>6, <1>7, <1>8, <1>9, <1>10, <1>11, <1>12, <1>13
       DEF StepOf, ApplyStep

\* Only the start of an apply makes a client one that may record a number.
LEMMA ClaimStep ==
    ASSUME TypeOK, ClientOK, NEW c \in Clients, RetryOK(c), StepOf(c)
    PROVE  \/ ops' = ops + 1
           \/ ops' = ops /\ Running(c) /\ (MayClaim(c)' => MayClaim(c))
  <1> USE DEF TypeOK, Goto, MayClaim, Running, AtRest, Ended
  <1>1. CASE StartApply(c) \/ DeleteFeatureView(c) \/ DeleteProject(c)
    BY <1>1 DEF StartApply, DeleteFeatureView, DeleteProject
  <1>2. CASE GetSnapshot(c)
    BY <1>2 DEF GetSnapshot
  <1>3. CASE PinCheck(c)
    <2>1. pc[c] = "pinCheck" /\ pc'[c] \in {"pinConflict", "select"} /\ ops' = ops /\ old' = old
      BY <1>3 DEF PinCheck
    <2> QED
      BY <2>1 DEF RetryOK
  <1>4. CASE SaveForward(c)
    BY <1>4 DEF SaveForward, local
  <1>5. CASE ReadOld(c) \/ Select(c)
    BY <1>5 DEF ReadOld, Select
  <1>6. CASE Write(c) \/ ReadNew(c)
    BY <1>6 DEF Write, ReadNew, local
  <1>7. CASE GetNextVersion(c) \/ SaveOld(c)
    BY <1>7 DEF GetNextVersion, SaveOld
  <1>8. CASE SaveNext(c)
    <2>1. /\ pc[c] = "saveNext" /\ ops' = ops
          /\ pc'[c] \in {"done", "promote", "versionConflict", "nextVersion"}
      BY <1>8 DEF SaveNext, AfterConflict
    <2>2. old[c] # NoRow
      BY <2>1 DEF ClientOK, LocalOK
    <2> QED
      BY <2>1, <2>2
  <1>9. CASE SaveFirst(c) \/ Promote(c) \/ Crash(c)
    BY <1>9 DEF SaveFirst, Promote, Crash, local
  <1> QED
    BY <1>1, <1>2, <1>3, <1>4, <1>5, <1>6, <1>7, <1>8, <1>9 DEF StepOf, ApplyStep

\* A step records at most one version. If that is not number 0, the call that
\* recorded it records no other; a deletion that empties the history is an operation.
LEMMA StepRecords ==
    ASSUME TypeOK, ClientOK, NEW c \in Clients, RetryOK(c), StepOf(c)
    PROVE  \/ Recorded' = Recorded
           \/ Recorded' = {} /\ ops' = ops + 1 /\ ~MayClaim(c)'
           \/ \E n \in Nat :
                /\ n \notin Recorded /\ Recorded' = Recorded \cup {n}
                /\ ops' = ops
                /\ n = 0 \/ (MayClaim(c) /\ ~MayClaim(c)')
  <1> USE DEF TypeOK, Goto
  <1>0. ASSUME NEW n \in Versions, NEW row \in Row, Recordable(n), Save(n, row)
        PROVE  n \in Nat /\ n \notin Recorded /\ Recorded' = Recorded \cup {n}
    <2>1. n \in Nat /\ n \notin Recorded
      BY <1>0, BoundsAssumption DEF Versions, Recordable, Recorded
    <2>2. history'[n] # NoRow /\ \A m \in Versions : m # n => history'[m] = history[m]
      BY <1>0, NoRowAssumption DEF Save
    <2>3. Recorded' = Recorded \cup {n}
      BY <2>2 DEF Recorded
    <2> QED
      BY <2>1, <2>3
  <1>1. LocalOK(c) /\ 0 \in Versions
    BY BoundsAssumption DEF ClientOK, Versions
  <1>2. CASE history' = history
    BY <1>2 DEF Recorded
  <1>3. CASE SaveForward(c) /\ history' # history
    <2>1. /\ pc[c] = "forward" /\ pc'[c] = "select" /\ old' = old /\ ops' = ops
          /\ Recordable(obj[c].ver) /\ Save(obj[c].ver, obj[c])
      BY <1>3 DEF SaveForward, local
    <2>2. obj[c] \in Row /\ obj[c].ver \in Versions
      BY <1>1, <2>1 DEF LocalOK, Running, AtRest, Ended
    <2>3. MayClaim(c) /\ ~MayClaim(c)'
      BY <2>1 DEF MayClaim, RetryOK
    <2> QED
      BY <1>0, <2>1, <2>2, <2>3
  <1>4. CASE SaveOld(c) /\ history' # history
    <2>1. pc[c] = "saveOld" /\ ops' = ops /\ Recordable(0) /\ Save(0, old[c])
      BY <1>4 DEF SaveOld
    <2>2. old[c] \in Row
      BY <1>1, <2>1 DEF LocalOK
    <2> QED
      BY <1>0, <1>1, <2>1, <2>2
  <1>5. CASE SaveNext(c) /\ history' # history
    <2>1. PICK row : row = [obj[c] EXCEPT !.cvn = nextVer[c]]
      OBVIOUS
    <2>2. /\ pc[c] = "saveNext" /\ pc'[c] \in {"done", "promote"} /\ ops' = ops
          /\ Recordable(nextVer[c]) /\ Save(nextVer[c], row) /\ nextVer[c] <= MaxVersion
      BY <1>5, <2>1 DEF SaveNext
    <2>3. obj[c] \in Row /\ nextVer[c] \in Versions /\ old[c] # NoRow
      BY <1>1, <2>2, BoundsAssumption DEF LocalOK, Running, AtRest, Ended, Versions
    <2>4. row \in Row
      BY <2>1, <2>3 DEF Row
    <2>5. MayClaim(c) /\ ~MayClaim(c)'
      BY <2>2, <2>3 DEF MayClaim
    <2> QED
      BY <1>0, <2>2, <2>3, <2>4, <2>5
  <1>6. CASE SaveFirst(c) /\ history' # history
    <2>1. PICK row : row = [obj[c] EXCEPT !.cvn = 0]
      OBVIOUS
    <2>2. pc[c] = "saveFirst" /\ ops' = ops /\ Recordable(0) /\ Save(0, row)
      BY <1>6, <2>1 DEF SaveFirst
    <2>3. obj[c] \in Row
      BY <1>1, <2>2 DEF LocalOK, Running, AtRest, Ended
    <2>4. row \in Row
      BY <1>1, <2>1, <2>3 DEF Row
    <2> QED
      BY <1>0, <1>1, <2>2, <2>4
  <1>7. CASE DeleteFeatureView(c) /\ history' # history
    <2>1. history' = [n \in Versions |-> NoRow] /\ ops' = ops + 1 /\ pc'[c] = "done"
      BY <1>7 DEF DeleteFeatureView, HistoryAfterDelete
    <2>2. Recorded' = {}
      BY <2>1 DEF Recorded
    <2> QED
      BY <2>1, <2>2 DEF MayClaim
  <1>8. \/ SaveForward(c) \/ SaveOld(c) \/ SaveNext(c) \/ SaveFirst(c) \/ DeleteFeatureView(c)
        \/ history' = history
    BY DEF StepOf, ApplyStep, StartApply, GetSnapshot, PinCheck, ReadOld, Select, Write, ReadNew,
       GetNextVersion, Promote, DeleteProject, Crash
  <1> QED
    BY <1>2, <1>3, <1>4, <1>5, <1>6, <1>7, <1>8

\* A deletion costs a waiting call at most one retry more, as does the recording of
\* one version; the first version costs it none.
LEMMA SpentByOthers ==
    ASSUME TypeOK, NEW c \in Clients, RetryOK(c),
           pc'[c] = pc[c], tries'[c] = tries[c], nextVer'[c] = nextVer[c]
    PROVE  /\ Spent(c) \in Nat
           /\ Recorded' = Recorded => Spent(c)' = Spent(c)
           /\ Recorded' = {} => Spent(c)' <= Spent(c) + 1
           /\ \A n \in Nat : n \notin Recorded /\ Recorded' = Recorded \cup {n}
                => /\ Spent(c)' <= Spent(c) + 1
                   /\ n = 0 => Spent(c)' <= Spent(c)
  <1>0. tries[c] \in Nat /\ nextVer[c] \in Nat
    BY BoundsAssumption DEF TypeOK
  <1>1. Spent(c) \in Nat
    BY <1>0 DEF Spent
  <1>2. ASSUME Recorded' = Recorded PROVE Spent(c)' = Spent(c)
    BY <1>2 DEF Spent, Lost, Reopened
  <1>3. ASSUME Recorded' = {} PROVE Spent(c)' <= Spent(c) + 1
    <2>1. ~Lost(c)'
      BY <1>3 DEF Lost
    <2> QED
      BY <1>0, <2>1 DEF Spent
  <1>4. ASSUME NEW n \in Nat, n \notin Recorded, Recorded' = Recorded \cup {n}
        PROVE  Spent(c)' <= Spent(c) + 1 /\ (n = 0 => Spent(c)' <= Spent(c))
    <2>1. Reopened(c)' => Reopened(c)
      BY <1>4 DEF Reopened
    <2>2. n = 0 /\ Lost(c)' => Lost(c) \/ (Reopened(c) /\ ~Reopened(c)')
      BY <1>0, <1>4 DEF Lost, Reopened, RetryOK
    <2> QED
      BY <1>0, <2>1, <2>2 DEF Spent
  <1> QED
    BY <1>1, <1>2, <1>3, <1>4

\* How a step of d changes the set of the running calls and of those that may record
\* a number.
LEMMA ClaimantsStep ==
    ASSUME TypeOK, ClientOK, NEW d \in Clients, RetryOK(d), StepOf(d)
    PROVE  /\ Claimants' \subseteq Claimants \cup {d}
           /\ InCall' \subseteq InCall \cup {d}
           /\ ~MayClaim(d)' => Claimants' \subseteq Claimants \ {d}
           /\ \/ ops' = ops + 1
              \/ ops' = ops /\ Claimants' \subseteq Claimants /\ InCall' \subseteq InCall
  <1>1. ASSUME NEW e \in Clients, e # d
        PROVE  (MayClaim(e)' <=> MayClaim(e)) /\ (Running(e)' <=> Running(e))
    <2>1. pc'[e] = pc[e] /\ old'[e] = old[e]
      BY <1>1, LocalFrame
    <2> QED
      BY <2>1 DEF MayClaim, Running, AtRest
  <1>2. Claimants' \subseteq Claimants \cup {d} /\ InCall' \subseteq InCall \cup {d}
    BY <1>1 DEF Claimants, InCall
  <1>3. ~MayClaim(d)' => Claimants' \subseteq Claimants \ {d}
    BY <1>1 DEF Claimants
  <1>4. ASSUME ops' = ops, Running(d), MayClaim(d)' => MayClaim(d)
        PROVE  Claimants' \subseteq Claimants /\ InCall' \subseteq InCall
    BY <1>1, <1>4 DEF Claimants, InCall
  <1> QED
    BY <1>2, <1>3, <1>4, ClaimStep

\* The calls that may record a number are finitely many.
LEMMA ClaimantsFinite ==
    ASSUME IsFiniteSet(InCall)
    PROVE  IsFiniteSet(Claimants) /\ Claimants \subseteq InCall
  <1>1. Claimants \subseteq InCall
    BY ClaimantsRun DEF Claimants, InCall
  <1> QED
    BY <1>1, FS_Subset

\* A retry that a step of another client makes necessary is paid for by that step.
LEMMA PaidByOthers ==
    ASSUME TypeOK, ClientOK, RetryInv, NEW c \in Clients, NEW d \in Clients, c # d, StepOf(d)
    PROVE  PaidFor(c)'
  <1> SUFFICES ASSUME Late(c)'
               PROVE  (ops >= 2 + Cardinality(Claimants \ {c}) + Spent(c))'
    BY DEF PaidFor
  <1> DEFINE S == Claimants \ {c}
             T == Claimants' \ {c}
  <1>0. RetryOK(c) /\ RetryOK(d) /\ IsFiniteSet(Claimants) /\ ops \in Int
    BY ClaimantsFinite DEF RetryInv, TypeOK
  <1>1. /\ pc'[c] = pc[c] /\ old'[c] = old[c] /\ tries'[c] = tries[c]
        /\ nextVer'[c] = nextVer[c]
    BY LocalFrame
  <1>2. Late(c)
    BY <1>1 DEF Late
  <1>3. ops >= 2 + Cardinality(S) + Spent(c)
    BY <1>2 DEF RetryInv, PaidFor
  <1>4. /\ Spent(c) \in Nat
        /\ Recorded' = Recorded => Spent(c)' = Spent(c)
        /\ Recorded' = {} => Spent(c)' <= Spent(c) + 1
        /\ \A n \in Nat : n \notin Recorded /\ Recorded' = Recorded \cup {n}
             => /\ Spent(c)' <= Spent(c) + 1
                /\ n = 0 => Spent(c)' <= Spent(c)
    BY <1>0, <1>1, SpentByOthers
  <1>5. Spent(c)' \in Nat
    <2>1. tries'[c] \in Nat
      BY <1>1, BoundsAssumption DEF TypeOK
    <2> QED
      BY <2>1 DEF Spent
  <1>6. /\ Claimants' \subseteq Claimants \cup {d}
        /\ ~MayClaim(d)' => Claimants' \subseteq Claimants \ {d}
        /\ \/ ops' = ops + 1
           \/ ops' = ops /\ Claimants' \subseteq Claimants
    BY <1>0, ClaimantsStep
  <1>7. IsFiniteSet(S) /\ Cardinality(S) \in Nat
    BY <1>0, FS_Subset, FS_CardinalityType
  <1>8. IsFiniteSet(T) /\ Cardinality(T) \in Nat /\ Cardinality(T) <= Cardinality(S) + 1
    <2>1. T \subseteq S \cup {d}
      BY <1>6
    <2>2. IsFiniteSet(S \cup {d}) /\ Cardinality(S \cup {d}) \in Nat
      BY <1>7, FS_AddElement, FS_CardinalityType
    <2>3. Cardinality(S \cup {d}) <= Cardinality(S) + 1
      BY <1>7, FS_AddElement
    <2>4. IsFiniteSet(T) /\ Cardinality(T) <= Cardinality(S \cup {d})
      BY <2>1, <2>2, FS_Subset
    <2>5. Cardinality(T) \in Nat
      BY <2>4, FS_CardinalityType
    <2> HIDE DEF S, T
    <2> QED
      BY <1>7, <2>2, <2>3, <2>4, <2>5
  <1>9. Claimants' \subseteq Claimants => Cardinality(T) <= Cardinality(S)
    <2>1. Claimants' \subseteq Claimants => T \subseteq S
      OBVIOUS
    <2> QED
      BY <1>7, <2>1, FS_Subset
  <1>10. MayClaim(d) /\ ~MayClaim(d)' => Cardinality(T) <= Cardinality(S) - 1
    <2> SUFFICES ASSUME MayClaim(d), ~MayClaim(d)' PROVE Cardinality(T) <= Cardinality(S) - 1
      OBVIOUS
    <2>1. d \in S /\ T \subseteq S \ {d}
      BY <1>6 DEF Claimants
    <2>2. IsFiniteSet(S \ {d}) /\ Cardinality(S \ {d}) = Cardinality(S) - 1
      BY <1>7, <2>1, FS_RemoveElement
    <2>3. Cardinality(T) <= Cardinality(S \ {d})
      BY <2>1, <2>2, FS_Subset
    <2> QED
      BY <2>2, <2>3
  <1>11. ~MayClaim(d)' => Cardinality(T) <= Cardinality(S)
    <2>1. ~MayClaim(d)' => Claimants' \subseteq Claimants
      BY <1>6
    <2> QED
      BY <1>9, <2>1
  <1> HIDE DEF S, T
  <1>12. ops' >= 2 + Cardinality(T) + Spent(c)'
    <2>1. CASE Recorded' = Recorded
      BY <1>0, <1>3, <1>4, <1>5, <1>6, <1>7, <1>8, <1>9, <2>1
    <2>2. CASE Recorded' = {} /\ ops' = ops + 1 /\ ~MayClaim(d)'
      BY <1>0, <1>3, <1>4, <1>5, <1>7, <1>8, <1>11, <2>2
    <2>3. ASSUME NEW n \in Nat, n \notin Recorded, Recorded' = Recorded \cup {n}, ops' = ops,
                 n = 0 \/ (MayClaim(d) /\ ~MayClaim(d)')
          PROVE  ops' >= 2 + Cardinality(T) + Spent(c)'
      <3>1. Claimants' \subseteq Claimants
        BY <1>0, <1>6, <2>3
      <3>2. Spent(c)' <= Spent(c) + 1 /\ (n = 0 => Spent(c)' <= Spent(c))
        BY <1>4, <2>3
      <3>3. CASE n = 0
        BY <1>0, <1>3, <1>4, <1>5, <1>7, <1>8, <1>9, <2>3, <3>1, <3>2, <3>3
      <3>4. CASE MayClaim(d) /\ ~MayClaim(d)'
        BY <1>0, <1>3, <1>4, <1>5, <1>7, <1>8, <1>10, <2>3, <3>2, <3>4
      <3> QED
        BY <2>3, <3>3, <3>4
    <2> QED
      BY <1>0, <2>1, <2>2, <2>3, StepRecords
  <1> QED
    BY <1>12 DEF T

\* A call's own step makes it pay no more than it has.
LEMMA PaidByItself ==
    ASSUME TypeOK, ClientOK, RetryInv, NEW c \in Clients, StepOf(c), Late(c)'
    PROVE  /\ ops' = ops /\ Claimants' \subseteq Claimants
           /\ \/ Late(c) /\ Spent(c)' <= Spent(c)
              \/ MayClaim(c) /\ Existed /\ Spent(c)' = 0
  <1> USE DEF TypeOK, Goto
  <1>0. RetryOK(c) /\ LocalOK(c) /\ tries[c] \in Nat
    BY BoundsAssumption DEF RetryInv, ClientOK
  <1>1. /\ pc'[c] \in {"select", "write", "readNew", "nextVersion", "saveOld", "saveNext",
                       "versionConflict"}
        /\ old'[c] # NoRow
    BY DEF Late
  <1>2. ASSUME ops' = ops PROVE Claimants' \subseteq Claimants
    BY <1>0, <1>2, ClaimantsStep
  <1>3. CASE StartApply(c) \/ DeleteFeatureView(c) \/ DeleteProject(c) \/ Crash(c)
    <2>1. pc'[c] \in {"readOld", "getSnapshot", "done", "notFound", "crashed"}
      BY <1>3 DEF StartApply, DeleteFeatureView, DeleteProject, Crash
    <2> QED
      BY <1>1, <2>1
  <1>4. CASE GetSnapshot(c) \/ PinCheck(c) \/ SaveForward(c)
    <2>1. pc[c] \in {"getSnapshot", "pinCheck", "forward"} /\ old' = old
      BY <1>4 DEF GetSnapshot, PinCheck, SaveForward, local
    <2> QED
      BY <1>0, <1>1, <2>1 DEF RetryOK
  <1>5. CASE ReadOld(c)
    <2>1. /\ pc[c] = "readOld" /\ pc'[c] = "select" /\ ops' = ops /\ tries' = tries
          /\ old'[c] = active
      BY <1>5 DEF ReadOld
    <2>2. MayClaim(c) /\ Existed
      BY <1>1, <2>1 DEF MayClaim, Existed
    <2>3. Spent(c)' = 0
      BY <1>0, <2>1 DEF Spent, Lost, Reopened, RetryOK
    <2> QED
      BY <1>2, <2>1, <2>2, <2>3
  <1>6. CASE Select(c) \/ Write(c) \/ ReadNew(c)
    <2>1. /\ pc[c] \in {"select", "write", "readNew"} /\ ops' = ops /\ tries' = tries /\ old' = old
          /\ pc'[c] \in {"write", "readNew", "nextVersion", "saveFirst", "done"}
      BY <1>6 DEF Select, Write, ReadNew, local
    <2>2. Late(c)
      BY <1>1, <2>1 DEF Late
    <2>3. Spent(c)' = 0 /\ Spent(c) = 0
      BY <1>0, <2>1 DEF Spent, Lost, Reopened, RetryOK
    <2> QED
      BY <1>2, <2>1, <2>2, <2>3
  <1>7. CASE GetNextVersion(c)
    <2>1. /\ pc[c] = "nextVersion" /\ ops' = ops /\ tries' = tries /\ old' = old
          /\ history' = history /\ nextVer'[c] = NextVersionNumber
          /\ NextVersionNumber <= MaxVersion
          /\ pc'[c] = IF NextVersionNumber = 0 /\ tries[c] = 0 THEN "saveOld" ELSE "saveNext"
      BY <1>7, NextVersionFollows DEF GetNextVersion
    <2>2. Late(c)
      BY <1>1, <2>1 DEF Late
    <2>3. Recorded' = Recorded
      BY <2>1 DEF Recorded
    <2>4. NextVersionNumber = 0 => Recorded = {}
      <3>1. NextVersionNumber = 0 => NoneRecorded
        BY NextVersionFree
      <3> QED
        BY <3>1 DEF NoneRecorded, Recorded
    <2>5. NextVersionNumber \notin Recorded
      BY NextVersionFree DEF Recorded
    <2>6. ~Lost(c)'
      BY <2>1, <2>3, <2>4, <2>5 DEF Lost
    <2>7. Reopened(c)' => Reopened(c)
      BY <2>1, <2>3, <2>4 DEF Reopened
    <2>8. Spent(c)' <= Spent(c)
      BY <1>0, <2>1, <2>6, <2>7 DEF Spent
    <2> QED
      BY <1>2, <2>1, <2>2, <2>8
  <1>8. CASE SaveOld(c)
    <2>1. /\ pc[c] = "saveOld" /\ pc'[c] = "saveNext" /\ nextVer'[c] = 1 /\ Save(0, old[c])
          /\ ops' = ops /\ tries' = tries /\ old' = old
      BY <1>1, <1>8 DEF SaveOld
    <2>2. Late(c)
      BY <1>1, <2>1 DEF Late
    <2>3. 1 \in Recorded' => 1 \in Recorded
      BY <2>1 DEF Save, Recorded
    <2>4. Lost(c)' => Lost(c)
      BY <2>1, <2>3 DEF Lost
    <2>5. ~Reopened(c)'
      BY <2>1 DEF Reopened
    <2>6. Spent(c)' <= Spent(c)
      BY <1>0, <2>1, <2>4, <2>5 DEF Spent
    <2> QED
      BY <1>2, <2>1, <2>2, <2>6
  <1>9. CASE SaveNext(c)
    <2>1. /\ pc[c] = "saveNext" /\ ~Recordable(nextVer[c]) /\ nextVer[c] <= MaxVersion
          /\ ops' = ops /\ old' = old /\ history' = history
      BY <1>1, <1>9 DEF SaveNext
    <2>2. tries'[c] = tries[c] + 1 /\ pc'[c] \in {"nextVersion", "versionConflict"}
      <3>1. tries' = [tries EXCEPT ![c] = @ + 1] /\ pc' = [pc EXCEPT ![c] = AfterConflict(tries[c])]
        BY <1>9, <2>1 DEF SaveNext
      <3> QED
        BY <1>0, <3>1 DEF AfterConflict
    <2>3. Late(c)
      BY <1>1, <2>1 DEF Late
    <2>4. nextVer[c] \in Recorded /\ Recorded' = Recorded
      BY <2>1, BoundsAssumption DEF Recordable, Recorded, Versions
    <2>5. Lost(c) /\ ~Lost(c)' /\ ~Reopened(c)'
      BY <2>1, <2>2, <2>4 DEF Lost, Reopened
    <2>6. Spent(c)' <= Spent(c)
      BY <1>0, <2>2, <2>5 DEF Spent
    <2> QED
      BY <1>2, <2>1, <2>3, <2>6
  <1>10. CASE SaveFirst(c) \/ Promote(c)
    <2>1. pc'[c] \in {"promote", "integrityError", "done"}
      BY <1>10 DEF SaveFirst, Promote
    <2> QED
      BY <1>1, <2>1
  <1> QED
    BY <1>3, <1>4, <1>5, <1>6, <1>7, <1>8, <1>9, <1>10 DEF StepOf, ApplyStep

\* A step of the call itself leaves its retries paid for.
LEMMA PaidByOwnStep ==
    ASSUME TypeOK, ClientOK, RetryInv, NEW c \in Clients, StepOf(c)
    PROVE  PaidFor(c)'
  <1> SUFFICES ASSUME Late(c)'
               PROVE  (ops >= 2 + Cardinality(Claimants \ {c}) + Spent(c))'
    BY DEF PaidFor
  <1> DEFINE S == Claimants \ {c}
             T == Claimants' \ {c}
  <1>1. /\ ops' = ops /\ Claimants' \subseteq Claimants
        /\ \/ Late(c) /\ Spent(c)' <= Spent(c)
           \/ MayClaim(c) /\ Existed /\ Spent(c)' = 0
    BY PaidByItself
  <1>2. IsFiniteSet(Claimants) /\ ops \in Int
    BY ClaimantsFinite DEF RetryInv, TypeOK
  <1>3. IsFiniteSet(S) /\ Cardinality(S) \in Nat /\ Cardinality(Claimants) \in Nat
    BY <1>2, FS_Subset, FS_CardinalityType
  <1>4. Cardinality(T) \in Nat /\ Cardinality(T) <= Cardinality(S)
    <2>1. T \subseteq S
      BY <1>1
    <2> QED
      BY <1>3, <2>1, FS_Subset, FS_CardinalityType
  <1>5. MayClaim(c) => Cardinality(S) = Cardinality(Claimants) - 1
    <2>1. MayClaim(c) => c \in Claimants
      BY DEF Claimants
    <2> QED
      BY <1>2, <2>1, FS_RemoveElement
  <1>6. Spent(c) \in Nat /\ Spent(c)' \in Nat
    <2>1. tries[c] \in Nat
      BY BoundsAssumption DEF TypeOK
    <2>2. tries'[c] \in Nat
      <3>1. TypeOK'
        BY TypeStep DEF Next, StepOf
      <3> QED
        BY <3>1, BoundsAssumption DEF TypeOK
    <2> QED
      BY <2>1, <2>2 DEF Spent
  <1>7. Late(c) => ops >= 2 + Cardinality(S) + Spent(c)
    BY DEF RetryInv, PaidFor
  <1>8. Existed => ops >= 1 + Cardinality(Claimants)
    BY DEF RetryInv
  <1> HIDE DEF S, T
  <1>9. ops' >= 2 + Cardinality(T) + Spent(c)'
    BY <1>1, <1>2, <1>3, <1>4, <1>5, <1>6, <1>7, <1>8
  <1> QED
    BY <1>9 DEF T

\* The row of a feature view that exists or existed is there or was deleted, also
\* after the next step.
LEMMA ExistedStep ==
    ASSUME TypeOK, ClientOK, NEW c \in Clients, StepOf(c)
    PROVE  Existed => Existed'
  <1> USE DEF TypeOK, Existed
  <1>1. CASE Write(c)
    <2>1. pc[c] = "write" /\ active' = Written(c) /\ deleted' = deleted
      BY <1>1 DEF Write
    <2>2. obj[c] # NoRow
      BY <2>1, NoRowAssumption DEF ClientOK, LocalOK, Running, AtRest, Ended
    <2> QED
      BY <1>1, <2>1, <2>2 DEF Written
  <1>2. CASE Promote(c)
    <2>1. /\ pc[c] = "promote" /\ deleted' = deleted
          /\ active' = IF active = NoRow THEN NoRow ELSE obj[c]
      BY <1>2 DEF Promote
    <2>2. obj[c] # NoRow
      BY <2>1, NoRowAssumption DEF ClientOK, LocalOK, Running, AtRest, Ended
    <2> QED
      BY <2>1, <2>2
  <1>3. CASE DeleteFeatureView(c)
    BY <1>3 DEF DeleteFeatureView
  <1>4. CASE DeleteProject(c)
    BY <1>4 DEF DeleteProject
  <1>5. CASE active' = active /\ deleted' = deleted
    BY <1>5
  <1> QED
    BY <1>1, <1>2, <1>3, <1>4, <1>5
       DEF StepOf, ApplyStep, StartApply, GetSnapshot, PinCheck, SaveForward, ReadOld, Select,
           ReadNew, GetNextVersion, SaveOld, SaveNext, SaveFirst, Crash

\* The call that creates the row is none of those that may record a number.
LEMMA CreatorStep ==
    ASSUME TypeOK, ClientOK, RetryInv, NEW d \in Clients, StepOf(d)
    PROVE  /\ IsFiniteSet(InCall)' /\ (ops >= Cardinality(InCall))'
           /\ (Existed => ops >= 1 + Cardinality(Claimants))'
  <1>0. RetryOK(d) /\ IsFiniteSet(InCall) /\ ops >= Cardinality(InCall) /\ ops \in Int
    BY DEF RetryInv, TypeOK
  <1>1. /\ Claimants' \subseteq Claimants \cup {d}
        /\ InCall' \subseteq InCall \cup {d}
        /\ \/ ops' = ops + 1
           \/ ops' = ops /\ Claimants' \subseteq Claimants /\ InCall' \subseteq InCall
    BY <1>0, ClaimantsStep
  <1>2. IsFiniteSet(Claimants) /\ Claimants \subseteq InCall
    BY <1>0, ClaimantsFinite
  <1>3. /\ Cardinality(InCall) \in Nat /\ Cardinality(Claimants) \in Nat
        /\ Cardinality(Claimants) <= Cardinality(InCall)
    BY <1>0, <1>2, FS_Subset, FS_CardinalityType
  <1>4. /\ IsFiniteSet(InCall \cup {d}) /\ Cardinality(InCall \cup {d}) <= Cardinality(InCall) + 1
        /\ Cardinality(InCall \cup {d}) \in Nat
    <2>1. IsFiniteSet(InCall \cup {d}) /\ Cardinality(InCall \cup {d}) \in Nat
      BY <1>0, FS_AddElement, FS_CardinalityType
    <2>2. Cardinality(InCall \cup {d}) <= Cardinality(InCall) + 1
      <3>1. Cardinality(InCall \cup {d})
              = IF d \in InCall THEN Cardinality(InCall) ELSE Cardinality(InCall) + 1
        BY <1>0, FS_AddElement
      <3> QED
        BY <1>3, <3>1
    <2> QED
      BY <2>1, <2>2
  <1>5. /\ IsFiniteSet(Claimants \cup {d})
        /\ Cardinality(Claimants \cup {d}) <= Cardinality(Claimants) + 1
        /\ Cardinality(Claimants \cup {d}) \in Nat
    <2>1. IsFiniteSet(Claimants \cup {d}) /\ Cardinality(Claimants \cup {d}) \in Nat
      BY <1>2, FS_AddElement, FS_CardinalityType
    <2>2. Cardinality(Claimants \cup {d}) <= Cardinality(Claimants) + 1
      BY <1>2, <1>3, FS_AddElement
    <2> QED
      BY <2>1, <2>2
  <1>6. /\ IsFiniteSet(InCall') /\ Cardinality(InCall') \in Nat
        /\ Cardinality(InCall') <= Cardinality(InCall \cup {d})
        /\ InCall' \subseteq InCall => Cardinality(InCall') <= Cardinality(InCall)
    BY <1>0, <1>1, <1>4, FS_Subset, FS_CardinalityType
  <1>7. /\ Cardinality(Claimants') \in Nat
        /\ Cardinality(Claimants') <= Cardinality(Claimants \cup {d})
        /\ Claimants' \subseteq Claimants => Cardinality(Claimants') <= Cardinality(Claimants)
    BY <1>1, <1>2, <1>5, FS_Subset, FS_CardinalityType
  <1>8. ops' >= Cardinality(InCall')
    BY <1>0, <1>1, <1>3, <1>4, <1>6
  <1>9. ASSUME Existed' PROVE ops' >= 1 + Cardinality(Claimants')
    <2>1. CASE Existed
      <3>1. ops >= 1 + Cardinality(Claimants)
        BY <2>1 DEF RetryInv
      <3> QED
        BY <1>0, <1>1, <1>3, <1>5, <1>7, <3>1
    <2>2. CASE ~Existed /\ Write(d)
      <3>1. pc[d] = "write" /\ ops' = ops
        BY <2>2 DEF Write
      <3>2. old[d] = NoRow
        BY <2>2 DEF RetryInv
      <3>3. d \in InCall /\ d \notin Claimants
        BY <3>1, <3>2 DEF InCall, Running, AtRest, Ended, Claimants, MayClaim
      <3>4. IsFiniteSet(InCall \ {d}) /\ Cardinality(InCall \ {d}) = Cardinality(InCall) - 1
        BY <1>0, <3>3, FS_RemoveElement
      <3>5. Cardinality(Claimants) <= Cardinality(InCall \ {d})
        BY <1>2, <3>3, <3>4, FS_Subset
      <3>6. Cardinality(Claimants') <= Cardinality(Claimants)
        BY <1>0, <1>1, <1>7, <3>1
      <3> QED
        BY <1>0, <1>3, <1>7, <3>1, <3>4, <3>5, <3>6
    <2>3. CASE ~Existed /\ ~Write(d)
      <3>1. DeleteProject(d)
        BY <1>9, <2>3 DEF Existed, StepOf, ApplyStep, StartApply, GetSnapshot, PinCheck,
           SaveForward, ReadOld, Select, ReadNew, GetNextVersion, SaveOld, SaveNext, SaveFirst,
           Promote, DeleteFeatureView, Crash
      <3>2. ops' = ops + 1 /\ pc'[d] = "done"
        BY <3>1 DEF DeleteProject, Goto, TypeOK
      <3>3. ~MayClaim(d)'
        BY <3>2 DEF MayClaim
      <3>4. Claimants' \subseteq Claimants
        BY <1>0, <3>3, ClaimantsStep
      <3> QED
        BY <1>0, <1>3, <1>7, <3>2, <3>4
    <2> QED
      BY <2>1, <2>2, <2>3
  <1> QED
    BY <1>6, <1>8, <1>9

\* A step keeps the retries paid for.
LEMMA RetryStep == TypeOK /\ ClientOK /\ RetryInv /\ [Next]_vars => RetryInv'
  <1> SUFFICES ASSUME TypeOK, ClientOK, RetryInv, [Next]_vars PROVE RetryInv'
    OBVIOUS
  <1>1. CASE UNCHANGED vars
    <2>1. Claimants' = Claimants /\ InCall' = InCall /\ Recorded' = Recorded
      BY <1>1 DEF vars, local, Claimants, MayClaim, InCall, Running, AtRest, Recorded
    <2>2. ASSUME NEW c \in Clients PROVE RetryOK(c)' /\ PaidFor(c)'
      <3>1. RetryOK(c) /\ PaidFor(c)
        BY DEF RetryInv
      <3>2. Spent(c)' = Spent(c) /\ (Late(c)' <=> Late(c))
        BY <1>1, <2>1 DEF vars, local, Spent, Lost, Reopened, Late
      <3> QED
        BY <1>1, <2>1, <3>1, <3>2 DEF vars, local, RetryOK, PaidFor
    <2>3. (Existed' <=> Existed) /\ ops' = ops /\ old' = old
      BY <1>1 DEF vars, local, Existed
    <2> QED
      BY <2>1, <2>2, <2>3 DEF RetryInv
  <1>2. ASSUME NEW d \in Clients, StepOf(d) PROVE RetryInv'
    <2>1. ASSUME NEW c \in Clients PROVE RetryOK(c)'
      <3>1. RetryOK(c)
        BY DEF RetryInv
      <3>2. CASE c = d
        BY <1>2, <3>1, <3>2, RetryOKStep
      <3>3. CASE c # d
        BY <1>2, <3>1, <3>3, LocalFrame DEF RetryOK
      <3> QED
        BY <3>2, <3>3
    <2>2. ASSUME NEW c \in Clients PROVE PaidFor(c)'
      BY <1>2, PaidByOthers, PaidByOwnStep
    <2>3. ASSUME NEW c \in Clients, old'[c] # NoRow PROVE Existed'
      <3>1. old[c] # NoRow \/ active # NoRow
        <4>1. old'[c] \in {old[c], active, NoRow}
          <5>1. CASE c # d
            BY <1>2, <5>1, LocalFrame
          <5>2. CASE c = d
            BY <1>2, <5>2 DEF TypeOK, StepOf, ApplyStep, StartApply, GetSnapshot, PinCheck,
               SaveForward, ReadOld, Select, Write, ReadNew, GetNextVersion, SaveOld, SaveNext,
               SaveFirst, Promote, DeleteFeatureView, DeleteProject, Crash, local
          <5> QED
            BY <5>1, <5>2
        <4> QED
          BY <2>3, <4>1
      <3>2. Existed
        BY <3>1 DEF RetryInv, Existed
      <3> QED
        BY <1>2, <3>2, ExistedStep
    <2>4. /\ IsFiniteSet(InCall)' /\ (ops >= Cardinality(InCall))'
          /\ (Existed => ops >= 1 + Cardinality(Claimants))'
      BY <1>2, CreatorStep
    <2> QED
      BY <2>1, <2>2, <2>3, <2>4 DEF RetryInv
  <1> QED
    BY <1>1, <1>2 DEF Next, StepOf

\* Initially nothing runs and nothing is owed.
LEMMA InitRetryInv == Init => RetryInv
  <1> SUFFICES ASSUME Init PROVE RetryInv
    OBVIOUS
  <1>1. InCall = {}
    BY DEF Init, InCall, Running, AtRest
  <1>2. IsFiniteSet(InCall) /\ ops >= Cardinality(InCall)
    BY <1>1, FS_EmptySet DEF Init
  <1>3. ~Existed
    BY DEF Init, Existed
  <1>4. ASSUME NEW c \in Clients PROVE old[c] = NoRow /\ RetryOK(c) /\ PaidFor(c)
    BY DEF Init, RetryOK, PaidFor, Late
  <1> QED
    BY <1>2, <1>3, <1>4 DEF RetryInv

\* A latest apply raises ConcurrentVersionConflict only under contention as long as
\* its retries: it has lost max_retries numbers, and for each of them an operation
\* was started besides its own and the one that created the row, whatever the number
\* of clients, their interleaving, deletions and crashes.
THEOREM GivingUpIsContention == Spec => []RetriesSuffice
  <1>1. IInv /\ RetryInv /\ [Next]_vars => RetryInv'
    BY RetryStep DEF IInv
  <1>2. IInv /\ RetryInv => RetriesSuffice
    <2> SUFFICES ASSUME IInv, RetryInv, NEW c \in Clients,
                        pc[c] = "versionConflict", obj[c] # NoRow, obj[c].ver = Latest
                 PROVE  ops >= MaxRetries + 2
      BY DEF RetriesSuffice
    <2>1. old[c] # NoRow /\ tries[c] = MaxRetries
      BY DEF RetryInv, RetryOK
    <2>2. ops >= 2 + Cardinality(Claimants \ {c}) + Spent(c)
      BY <2>1 DEF RetryInv, PaidFor, Late
    <2>3. Spent(c) = MaxRetries /\ MaxRetries \in Nat
      BY <2>1, BoundsAssumption DEF Spent, Lost, Reopened
    <2>4. Cardinality(Claimants \ {c}) \in Nat
      BY ClaimantsFinite, FS_Subset, FS_CardinalityType DEF RetryInv
    <2>5. ops \in Int
      BY DEF IInv, TypeOK
    <2> QED
      BY <2>2, <2>3, <2>4, <2>5
  <1> QED
    BY <1>1, <1>2, InitRetryInv, InductiveInvariant, PTL DEF Spec

-------------------------------------------------------------------------------
(* The length of a call *)

Attempts(c) == MaxRetries - tries[c]

\* How many steps the call of c may still take: three for each number that it may
\* still try to record, and those before and after.
StepsLeft(c) ==
    CASE pc[c] = "getSnapshot" -> 3 * Attempts(c) + 6
      [] pc[c] \in {"readOld", "pinCheck", "forward"} -> 3 * Attempts(c) + 5
      [] pc[c] = "select" -> 3 * Attempts(c) + 4
      [] pc[c] = "write" -> 3 * Attempts(c) + 3
      [] pc[c] = "readNew" -> 3 * Attempts(c) + 2
      [] pc[c] = "nextVersion" -> 3 * Attempts(c) + 1
      [] pc[c] = "saveOld" -> 3 * Attempts(c)
      [] pc[c] = "saveNext" -> 3 * Attempts(c) - 1
      [] pc[c] = "saveFirst" -> 2
      [] pc[c] = "promote" -> 1
      [] OTHER -> 0

\* Every step of a running call is one fewer that it has left, and the steps of the
\* others never give it more to do.
CallsAdvance ==
    \A c \in Clients : Running(c) =>
      /\ StepsLeft(c) \in 1..(3 * MaxRetries + 6)
      /\ StepOf(c) => StepsLeft(c)' < StepsLeft(c)
      /\ \A d \in Clients \ {c} : StepOf(d) => StepsLeft(c)' = StepsLeft(c)

\* The bound on the steps that are left.
LEMMA StepsLeftBound ==
    ASSUME TypeOK, ClientOK, NEW c \in Clients, Running(c)
    PROVE  StepsLeft(c) \in 1..(3 * MaxRetries + 6)
  <1>1. Attempts(c) \in 1..MaxRetries
    <2>1. tries[c] \in 0..MaxRetries /\ tries[c] < MaxRetries
      BY DEF TypeOK, ClientOK, LocalOK
    <2> QED
      BY <2>1, BoundsAssumption DEF Attempts
  <1>2. pc[c] \in Labels \ ({"idle"} \cup Ended)
    BY DEF TypeOK, Running, AtRest
  <1> QED
    BY <1>1, <1>2, BoundsAssumption DEF Labels, StepsLeft

\* A step of a running call brings it nearer to its end.
LEMMA StepsLeftDecrease ==
    ASSUME TypeOK, ClientOK, NEW c \in Clients, Running(c), StepOf(c)
    PROVE  StepsLeft(c)' < StepsLeft(c)
  <1> USE DEF TypeOK, Goto
  <1>0. LocalOK(c) /\ tries[c] \in 0..MaxRetries /\ tries[c] < MaxRetries /\ MaxRetries \in Nat
    BY BoundsAssumption DEF ClientOK, LocalOK
  <1>1. Attempts(c) \in Nat /\ Attempts(c) >= 1
    BY <1>0 DEF Attempts
  <1>2. ASSUME tries' = tries PROVE Attempts(c)' = Attempts(c)
    BY <1>2 DEF Attempts
  <1>3. CASE GetSnapshot(c)
    <2>1. pc[c] = "getSnapshot" /\ pc'[c] \in {"pinCheck", "forward"} /\ tries' = tries
      BY <1>3 DEF GetSnapshot
    <2> QED
      BY <1>1, <1>2, <2>1 DEF StepsLeft
  <1>4. CASE PinCheck(c)
    <2>1. pc[c] = "pinCheck" /\ pc'[c] \in {"pinConflict", "select"} /\ tries' = tries
      BY <1>4 DEF PinCheck
    <2> QED
      BY <1>1, <1>2, <2>1 DEF StepsLeft
  <1>5. CASE SaveForward(c)
    <2>1. pc[c] = "forward" /\ pc'[c] \in {"versionConflict", "select"} /\ tries' = tries
      BY <1>5 DEF SaveForward, local
    <2> QED
      BY <1>1, <1>2, <2>1 DEF StepsLeft
  <1>6. CASE ReadOld(c)
    <2>1. pc[c] = "readOld" /\ pc'[c] = "select" /\ tries' = tries
      BY <1>6 DEF ReadOld
    <2> QED
      BY <1>1, <1>2, <2>1 DEF StepsLeft
  <1>7. CASE Select(c)
    <2>1. pc[c] = "select" /\ pc'[c] = "write" /\ tries' = tries
      BY <1>7 DEF Select
    <2> QED
      BY <1>1, <1>2, <2>1 DEF StepsLeft
  <1>8. CASE Write(c)
    <2>1. pc[c] = "write" /\ pc'[c] \in {"readNew", "done"} /\ tries' = tries
      BY <1>8 DEF Write, local
    <2> QED
      BY <1>1, <1>2, <2>1 DEF StepsLeft
  <1>9. CASE ReadNew(c)
    <2>1. pc[c] = "readNew" /\ pc'[c] \in {"done", "saveFirst", "nextVersion"} /\ tries' = tries
      BY <1>9 DEF ReadNew, local
    <2> QED
      BY <1>1, <1>2, <2>1 DEF StepsLeft
  <1>10. CASE GetNextVersion(c)
    <2>1. pc[c] = "nextVersion" /\ pc'[c] \in {"saveOld", "saveNext"} /\ tries' = tries
      BY <1>10 DEF GetNextVersion
    <2> QED
      BY <1>1, <1>2, <2>1 DEF StepsLeft
  <1>11. CASE SaveOld(c)
    <2>1. pc[c] = "saveOld" /\ pc'[c] \in {"integrityError", "saveNext"} /\ tries' = tries
      BY <1>11 DEF SaveOld
    <2> QED
      BY <1>1, <1>2, <2>1 DEF StepsLeft
  <1>12. CASE SaveNext(c)
    <2>0. pc[c] = "saveNext"
      BY <1>12 DEF SaveNext
    <2>1. CASE Recordable(nextVer[c])
      <3>1. pc'[c] \in {"done", "promote"}
        BY <1>12, <2>1 DEF SaveNext
      <3> QED
        BY <1>1, <2>0, <3>1 DEF StepsLeft
    <2>2. CASE ~Recordable(nextVer[c])
      <3>1. tries' = [tries EXCEPT ![c] = @ + 1] /\ pc'[c] = AfterConflict(tries[c])
        BY <1>12, <2>2 DEF SaveNext
      <3>2. tries'[c] = tries[c] + 1 /\ pc'[c] \in {"versionConflict", "nextVersion"}
        BY <1>0, <3>1 DEF AfterConflict
      <3>3. Attempts(c)' = Attempts(c) - 1
        BY <1>0, <3>2 DEF Attempts
      <3> QED
        BY <1>1, <2>0, <3>2, <3>3 DEF StepsLeft
    <2> QED
      BY <2>1, <2>2
  <1>13. CASE SaveFirst(c)
    <2>1. pc[c] = "saveFirst" /\ pc'[c] \in {"integrityError", "promote"}
      BY <1>13 DEF SaveFirst
    <2> QED
      BY <2>1 DEF StepsLeft
  <1>14. CASE Promote(c) \/ Crash(c)
    <2>1. pc'[c] \in {"done", "crashed"}
      BY <1>14 DEF Promote, Crash
    <2>2. StepsLeft(c)' = 0
      BY <2>1 DEF StepsLeft
    <2>3. StepsLeft(c) \in 1..(3 * MaxRetries + 6)
      BY StepsLeftBound
    <2> QED
      BY <1>0, <2>2, <2>3
  <1>15. CASE StartApply(c) \/ DeleteFeatureView(c) \/ DeleteProject(c)
    BY <1>15 DEF StartApply, DeleteFeatureView, DeleteProject, Running
  <1> QED
    BY <1>3, <1>4, <1>5, <1>6, <1>7, <1>8, <1>9, <1>10, <1>11, <1>12, <1>13, <1>14, <1>15
       DEF StepOf, ApplyStep

\* An apply never loops: however the others interleave, win its numbers and delete the
\* view, it is over after at most 3 * max_retries + 6 statements of its own.
THEOREM AppliesAreBounded == Spec => [][CallsAdvance]_vars
  <1>1. IInv => CallsAdvance
    <2> SUFFICES ASSUME IInv, NEW c \in Clients, Running(c)
                 PROVE  /\ StepsLeft(c) \in 1..(3 * MaxRetries + 6)
                        /\ StepOf(c) => StepsLeft(c)' < StepsLeft(c)
                        /\ \A d \in Clients \ {c} : StepOf(d) => StepsLeft(c)' = StepsLeft(c)
      BY DEF CallsAdvance
    <2>0. TypeOK /\ ClientOK
      BY DEF IInv
    <2>1. StepsLeft(c) \in 1..(3 * MaxRetries + 6)
      BY <2>0, StepsLeftBound
    <2>2. StepOf(c) => StepsLeft(c)' < StepsLeft(c)
      BY <2>0, StepsLeftDecrease
    <2>3. ASSUME NEW d \in Clients \ {c}, StepOf(d) PROVE StepsLeft(c)' = StepsLeft(c)
      <3>1. pc'[c] = pc[c] /\ tries'[c] = tries[c]
        BY <2>0, <2>3, LocalFrame
      <3> QED
        BY <3>1 DEF StepsLeft, Attempts
    <2> QED
      BY <2>1, <2>2, <2>3
  <1> QED
    BY <1>1, InductiveInvariant, PTL
===============================================================================
