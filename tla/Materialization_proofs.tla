------------------------ MODULE Materialization_proofs ------------------------
(***************************************************************************)
(* Proofs about Materialization: types, that what the registry records has *)
(* been written to the online store, that reservations exclude one another,*)
(* and that no call leaves a view MATERIALIZING behind.                    *)
(*                                                                         *)
(* ControlInv is about the control of a call: the lists of views it visits *)
(* are not empty where it takes their head. DataInv adds that every copy   *)
(* of a view, in the registry or in a call, is backed by what was written, *)
(* and that every start date is the end of data without a gap. HeldInv     *)
(* says who holds which view, and OwedInv who will release it.             *)
(*                                                                         *)
(* Each operation is first reduced to the label it continues at and the    *)
(* local variables it continues with (the Moves lemmas); the invariants    *)
(* are proved from those.                                                  *)
(***************************************************************************)
EXTENDS Materialization, WellFoundedInduction, TLAPS

-------------------------------------------------------------------------------
(* The inductive invariants *)

\* The local variables of a call.
JobType ==
    [mode : {"sync", "async", "force"}, views : Seq(Views), from : Int, end : 0..MaxTime,
     todo : Seq(Views), objs : [Views -> Row], start : [Views -> 0..MaxTime],
     prev : [Views -> States \ {"MATERIALIZING"}],
     current : Seq(Views), later : Seq(Views), good : Seq(Views), stuck : Seq(Views),
     purpose : {"force", "reserve", "reset"}, failing : BOOLEAN]

Typed ==
    /\ TypeOK
    /\ job \in [Workers -> JobType]

\* Where a call visits the first of the views it has still to visit.
Listing == {"check", "stuck", "get", "put", "fetch", "rollback", "record", "recordPut"}

\* What holds of the local variables j of a call that is at label l.
ControlAt(l, j) ==
    /\ l \notin Ended => j.views # <<>> /\ j.from \in Starts \cup {Incremental}
    /\ l \in Listing => j.todo # <<>>
    /\ l \in {"record", "recordPut"} => j.good = j.todo

ControlInv == Typed /\ \A w \in Workers : ControlAt(pc[w], job[w])

\* A copy of a view is sound when W, what has been delivered of the view, has all its
\* intervals, and has something if its state says so.
StateBacked(s, W) == "AVAILABLE_ONLINE" \notin UserStates /\ s = "AVAILABLE_ONLINE" => W # {}
Sound(o, W) == ToSet(o.intervals) \subseteq W /\ StateBacked(o.state, W)

\* W has everything before t.
Reached(t, W) == \A x \in 0..(t - 1) : \E i \in W : i[1] <= x /\ x < i[2]

\* Every job ends where its data, and all before it, has been delivered.
Gapless(W) == Starts \subseteq {0} => \A i \in W : Reached(i[2], W)

\* The copies of a call are sound, its start dates leave no gap, and what it is about to
\* record has been delivered.
JobSound(l, j, wr) ==
    /\ \A v \in Views : /\ Sound(j.objs[v], wr[v])
                        /\ StateBacked(j.prev[v], wr[v])
                        /\ Starts \subseteq {0} => Reached(j.start[v], wr[v])
    /\ l \in {"rollback", "record", "recordPut"} =>
         \A v \in ToSet(j.good) : <<j.start[v], j.end>> \in wr[v]

\* Every row of r is sound.
AllSound(r, wr) == \A v \in Views : Sound(r[v], wr[v])

\* So is what is in the file, on its way to the file, or in a user's hands.
DiskSound(wr) ==
    /\ AllSound(file, wr)
    /\ \A t \in Threads : AllSound(msg[t], wr)
    /\ \A e \in edit : Sound(e.row, wr[e.view])

\* An engine that waits for its jobs leaves none unfinished.
Agree == waits => accepted = written

DataInv ==
    /\ ControlInv
    /\ AllSound(rows, Delivered) /\ DiskSound(Delivered)
    /\ \A v \in Views : Gapless(Delivered[v])
    /\ \A w \in Workers : JobSound(pc[w], job[w], Delivered)

\* The views that a call at l with j has reserved and not yet given back.
HeldAt(l, j) ==
    CASE l = "fetch" -> ToSet(j.views)
      [] l = "transition" -> ToSet(j.current) \cup ToSet(j.later)
      [] l = "record" -> ToSet(j.todo) \cup ToSet(j.later)
      [] l = "stuck" -> ToSet(j.stuck) \cup ToSet(j.todo)
      [] l \in {"get", "put"} ->
           IF j.purpose = "reset" THEN ToSet(j.todo) ELSE ToSet(j.views) \ ToSet(j.todo)
      [] OTHER -> {}

\* The views that it has found free, and has not reserved yet.
ClaimedAt(l, j) ==
    CASE l = "check" -> ToSet(j.views) \ ToSet(j.todo)
      [] l \in {"get", "put"} /\ j.purpose = "reserve" -> ToSet(j.todo)
      [] OTHER -> {}

\* Two lists without repetitions that share no view.
Apart(s, t) == IsInjective(s) /\ IsInjective(t) /\ ToSet(s) \cap ToSet(t) = {}

\* The copies of the views in S say MATERIALIZING.
Marked(j, S) == \A v \in S : j.objs[v].state = "MATERIALIZING"

\* A call that is reserving runs on the event loop.
Reserving(l, j) == l = "check" \/ (l \in {"get", "put"} /\ j.purpose = "reserve")

\* What holds of an asynchronous call while no job has failed.
HandlerAt(l, j) ==
    /\ l \notin Ended => j.mode = "async" /\ IsInjective(j.views)
    /\ l \in {"check", "fetch"} => j.purpose = "reserve"
    /\ l = "stuck" => j.purpose = "reset" /\ Apart(j.stuck, j.todo)
    /\ l \in {"get", "put"} => /\ j.purpose \in {"reserve", "reset"}
                               /\ IsInjective(j.todo)
    /\ l = "fetch" => Marked(j, ToSet(j.views) \ ToSet(j.todo))
    /\ l = "transition" => /\ Apart(j.current, j.later)
                           /\ Marked(j, ToSet(j.current) \cup ToSet(j.later))
                           /\ ToSet(j.todo) \subseteq ToSet(j.current)
    /\ l = "record" => /\ Apart(j.todo, j.later) /\ ~j.failing
                       /\ Marked(j, ToSet(j.later))
    /\ l \notin {"rollback", "recordPut"}

\* A view that a call holds is MATERIALIZING, and no other call holds or claims it.
HeldOK ==
    /\ \A w \in Workers : /\ HandlerAt(pc[w], job[w])
                          /\ Reserving(pc[w], job[w]) => loop = w
    /\ \A w \in Workers : \A v \in HeldAt(pc[w], job[w]) : rows[v].state = "MATERIALIZING"
    /\ \A w, u \in Workers :
         /\ w # u => HeldAt(pc[w], job[w]) \cap HeldAt(pc[u], job[u]) = {}
         /\ ClaimedAt(pc[w], job[w]) \cap HeldAt(pc[u], job[u]) = {}

HeldInv == (backend = "file" /\ failures = 0 /\ ~raced) => HeldOK

-------------------------------------------------------------------------------
(* Numbers and sequences *)

\* Every nonempty set of natural numbers has a least element: the induction of the
\* proofs below is that a least counterexample does not exist.
LEMMA LeastExists ==
    ASSUME NEW S \in SUBSET Nat, S # {}
    PROVE  \E x \in S : \A y \in S : x <= y
<1>1. PICK x \in S : \A y \in S : <<y, x>> \notin OpToRel(<, Nat)
  BY WFMin, NatLessThanWellFounded, Zenon
<1>2. \A y \in S : ~(y < x)
  BY <1>1, Zenon DEF OpToRel
<1> QED
  BY <1>2

\* A bounded set of natural numbers has a maximum.
LEMMA MaxExists ==
    ASSUME NEW n \in Nat, NEW S \in SUBSET (0..n), S # {}
    PROVE  Max(S) \in S
<1> DEFINE T == {n - x : x \in S}
<1>1. T \in SUBSET Nat /\ T # {}
  <2>1. \A x \in S : x \in 0..n /\ n - x \in Nat
    OBVIOUS
  <2> QED
    BY <2>1
<1>2. PICK t \in T : \A y \in T : t <= y
  BY <1>1, LeastExists
<1>3. PICK x \in S : t = n - x
  BY <1>2
<1>4. \A y \in S : x >= y
  <2> SUFFICES ASSUME NEW y \in S PROVE x >= y
    OBVIOUS
  <2>1. n - y \in T
    OBVIOUS
  <2>2. n - x <= n - y
    BY <1>2, <1>3, <2>1
  <2> QED
    BY <2>2
<1> QED
  BY <1>4 DEF Max

\* The recursive function of Among exists, and so it is what its definition says.
LEMMA AmongFunction ==
    ASSUME NEW V, NEW list \in Seq(V), NEW S
    PROVE  \E f : /\ f = [i \in 0..Len(list) |->
                           IF i = 0 THEN <<>>
                           ELSE IF list[i] \in S THEN Append(f[i - 1], list[i]) ELSE f[i - 1]]
                  /\ Among(list, S) = f[Len(list)]
<1> DEFINE Body(f, i) == IF i = 0 THEN <<>>
                         ELSE IF list[i] \in S THEN Append(f[i - 1], list[i]) ELSE f[i - 1]
           Ok(n) == \E f : f = [i \in 0..n |-> Body(f, i)]
           Bad == {n \in 0..Len(list) : ~Ok(n)}
<1>1. Ok(Len(list))
  <2>0. Len(list) \in Nat
    OBVIOUS
  <2> SUFFICES ASSUME Bad # {} PROVE FALSE
    <3> HIDE DEF Ok
    <3> QED
      BY <2>0
  <2>1. PICK m \in Bad : \A y \in Bad : m <= y
    <3> HIDE DEF Ok
    <3>1. Bad \in SUBSET Nat
      BY <2>0
    <3> HIDE DEF Bad
    <3> QED
      BY <3>1, LeastExists
  <2>2. m # 0
    <3>1. [i \in 0..0 |-> <<>>] = [i \in 0..0 |-> Body([i_1 \in 0..0 |-> <<>>], i)]
      OBVIOUS
    <3>2. Ok(0)
      BY <3>1
    <3> QED
      BY <2>1, <3>2
  <2>3. m \in Nat /\ m - 1 \in 0..Len(list) /\ m - 1 \notin Bad
    <3> HIDE DEF Ok
    <3>1. m \in 0..Len(list) /\ m # 0
      BY <2>1, <2>2
    <3>2. m - 1 \in 0..Len(list) /\ ~(m <= m - 1)
      BY <3>1, <2>0
    <3> QED
      BY <3>1, <3>2, <2>1
  <2>4. Ok(m - 1)
    BY <2>3
  <2>5. PICK f : f = [i \in 0..(m - 1) |-> Body(f, i)]
    BY <2>4
  <2> DEFINE g == [i \in 0..m |-> IF i < m THEN f[i] ELSE Body(f, m)]
  <2>6. g = [i \in 0..m |-> Body(g, i)]
    <3>1. ASSUME NEW i \in 0..m PROVE g[i] = Body(g, i)
      <4>1. CASE i < m
        <5>1. i \in 0..(m - 1)
          BY <4>1, <2>3
        <5>2. f[i] = Body(f, i)
          BY <2>5, <5>1
        <5>3. g[i] = f[i] /\ (i # 0 => g[i - 1] = f[i - 1])
          BY <4>1, <2>3
        <5> QED
          BY <5>2, <5>3
      <4>2. CASE i = m
        <5>1. g[i] = Body(f, m) /\ g[m - 1] = f[m - 1]
          BY <4>2, <2>2, <2>3
        <5> QED
          BY <4>2, <5>1
      <4> QED
        BY <4>1, <4>2, <2>3
    <3> HIDE DEF Body
    <3> QED
      BY <3>1
  <2>7. Ok(m)
    BY <2>6
  <2> QED
    BY <2>1, <2>7
<1> DEFINE up == CHOOSE f : f = [i \in 0..Len(list) |-> Body(f, i)]
<1>2. up = [i \in 0..Len(list) |-> Body(up, i)]
  BY <1>1
<1>3. Among(list, S) = up[Len(list)]
  BY DEF Among
<1> HIDE DEF up
<1> QED
  BY <1>2, <1>3

\* Among keeps the views of the list that are in the set, and the whole list when all
\* of them are.
LEMMA AmongFacts ==
    ASSUME NEW V, NEW list \in Seq(V), NEW S
    PROVE  /\ Among(list, S) \in Seq(V)
           /\ ToSet(Among(list, S)) = ToSet(list) \cap S
           /\ ToSet(list) \subseteq S => Among(list, S) = list
<1> DEFINE Ok(s, n) == /\ s \in Seq(V)
                       /\ \A x : (\E i \in 1..Len(s) : s[i] = x)
                                   <=> (x \in S /\ \E i \in 1..n : list[i] = x)
                       /\ (\A i \in 1..n : list[i] \in S)
                             => Len(s) = n /\ \A i \in 1..n : s[i] = list[i]
<1>0. Len(list) \in Nat /\ \A i \in 1..Len(list) : list[i] \in V
  OBVIOUS
<1>1. PICK f : /\ f = [i \in 0..Len(list) |->
                        IF i = 0 THEN <<>>
                        ELSE IF list[i] \in S THEN Append(f[i - 1], list[i]) ELSE f[i - 1]]
               /\ Among(list, S) = f[Len(list)]
  BY AmongFunction
<1>2. f[0] = <<>>
  BY <1>0, <1>1
<1>3. \A i \in 1..Len(list) :
        f[i] = IF list[i] \in S THEN Append(f[i - 1], list[i]) ELSE f[i - 1]
  <2> DEFINE Body(i) == IF i = 0 THEN <<>>
                        ELSE IF list[i] \in S THEN Append(f[i - 1], list[i]) ELSE f[i - 1]
  <2>1. f = [i \in 0..Len(list) |-> Body(i)]
    BY <1>1
  <2>2. ASSUME NEW i \in 1..Len(list) PROVE f[i] = Body(i) /\ i # 0
    <3>1. i \in 0..Len(list) /\ i # 0
      BY <1>0
    <3> HIDE DEF Body
    <3> QED
      BY <2>1, <3>1
  <2> QED
    BY <2>2
<1> DEFINE Bad == {n \in 0..Len(list) : ~Ok(f[n], n)}
<1>4. Bad = {}
  <2> SUFFICES ASSUME Bad # {} PROVE FALSE
    OBVIOUS
  <2>1. PICK m \in Bad : \A y \in Bad : m <= y
    <3> HIDE DEF Ok
    <3>1. Bad \in SUBSET Nat
      BY <1>0
    <3> HIDE DEF Bad
    <3> QED
      BY <3>1, LeastExists
  <2>2. m # 0
    <3>1. Ok(f[0], 0)
      BY <1>2
    <3> HIDE DEF Ok
    <3> QED
      BY <2>1, <3>1
  <2>3. m \in 1..Len(list) /\ m - 1 \in Nat /\ Ok(f[m - 1], m - 1)
    <3> HIDE DEF Ok
    <3>1. m \in 0..Len(list) /\ m # 0
      BY <2>1, <2>2
    <3>2. m - 1 \in 0..Len(list) /\ ~(m <= m - 1)
      BY <3>1, <1>0
    <3> QED
      BY <3>1, <3>2, <2>1
  <2> DEFINE s == f[m - 1]
  <2>4. list[m] \in V /\ 1..m = 1..(m - 1) \cup {m}
    BY <1>0, <2>3
  <2>5. CASE list[m] \in S
    <3>1. f[m] = Append(s, list[m])
      BY <1>3, <2>3, <2>5
    <3> DEFINE x0 == list[m]
               t == Append(s, x0)
    <3>s. s \in Seq(V) /\ x0 \in V
      BY <2>3, <2>4
    <3> HIDE DEF s, x0
    <3>2. /\ t \in Seq(V) /\ Len(s) \in Nat /\ Len(t) = Len(s) + 1 /\ t[Len(s) + 1] = x0
          /\ \A i \in 1..Len(s) : t[i] = s[i]
          /\ 1..Len(t) = 1..Len(s) \cup {Len(s) + 1}
      BY <3>s
    <3> HIDE DEF t
    <3>3. \A x : (\E i \in 1..Len(t) : t[i] = x) <=> (\E i \in 1..Len(s) : s[i] = x) \/ x = x0
      BY <3>2
    <3>4. \A x : (\E i \in 1..Len(t) : t[i] = x)
                   <=> (x \in S /\ \E i \in 1..m : list[i] = x)
      BY <2>3, <2>4, <2>5, <3>3 DEF s, x0
    <3>5. (\A i \in 1..m : list[i] \in S) => Len(t) = m /\ \A i \in 1..m : t[i] = list[i]
      BY <2>3, <2>4, <3>2 DEF s, x0
    <3>6. Ok(f[m], m)
      BY <3>1, <3>2, <3>4, <3>5 DEF s, x0, t
    <3> HIDE DEF Ok
    <3> QED
      BY <3>6, <2>1
  <2>6. CASE list[m] \notin S
    <3>1. f[m] = f[m - 1]
      BY <1>3, <2>3, <2>6
    <3>2. Ok(f[m], m)
      BY <2>3, <2>4, <2>6, <3>1
    <3> HIDE DEF Ok
    <3> QED
      BY <3>2, <2>1
  <2> QED
    BY <2>5, <2>6
<1>5. Ok(Among(list, S), Len(list))
  <2> HIDE DEF Ok
  <2> QED
    BY <1>0, <1>1, <1>4
<1> DEFINE r == Among(list, S)
<1>6. r \in Seq(V) /\ Len(r) \in Nat /\ DOMAIN r = 1..Len(r) /\ DOMAIN list = 1..Len(list)
  BY <1>5
<1> HIDE DEF r
<1>7. ToSet(r) = ToSet(list) \cap S
  <2>1. \A x : x \in ToSet(r) <=> x \in ToSet(list) \cap S
    BY <1>5, <1>6 DEF ToSet, r
  <2> QED
    BY <2>1
<1>8. ASSUME ToSet(list) \subseteq S PROVE r = list
  <2>1. \A i \in 1..Len(list) : list[i] \in S
    BY <1>6, <1>8 DEF ToSet
  <2>2. Len(r) = Len(list) /\ \A i \in 1..Len(list) : r[i] = list[i]
    BY <1>5, <2>1 DEF r
  <2> QED
    BY <1>6, <2>2
<1> QED
  BY <1>6, <1>7, <1>8 DEF r

\* The head and the tail of a list.
LEMMA ListFacts ==
    ASSUME NEW V, NEW s \in Seq(V)
    PROVE  /\ ToSet(s) \subseteq V /\ ToSet(<<>>) = {} /\ (ToSet(s) = {} => s = <<>>)
           /\ s # <<>> => /\ Head(s) \in V /\ Tail(s) \in Seq(V) /\ Len(s) \in Nat \ {0}
                          /\ ToSet(s) = {Head(s)} \cup ToSet(Tail(s))
                          /\ ToSet(<<Head(s)>>) = {Head(s)} /\ <<Head(s)>> \in Seq(V)
                          /\ Len(s) = 1 <=> Tail(s) = <<>>
                          /\ Len(s) > 1 <=> Tail(s) # <<>>
           /\ s # <<>> /\ IsInjective(s) => IsInjective(Tail(s)) /\ Head(s) \notin ToSet(Tail(s))
<1>1. ToSet(s) \subseteq V /\ ToSet(<<>>) = {} /\ (ToSet(s) = {} => s = <<>>)
  BY DEF ToSet
<1>2. ASSUME s # <<>>
      PROVE  /\ Head(s) \in V /\ Tail(s) \in Seq(V) /\ Len(s) \in Nat \ {0}
             /\ Len(s) = 1 <=> Tail(s) = <<>>
             /\ Len(s) > 1 <=> Tail(s) # <<>>
             /\ ToSet(<<Head(s)>>) = {Head(s)} /\ <<Head(s)>> \in Seq(V)
  <2>1. Head(s) \in V /\ Tail(s) \in Seq(V) /\ Len(s) \in Nat \ {0}
    BY <1>2
  <2>2. Len(Tail(s)) = Len(s) - 1
    BY <1>2
  <2>3. (Len(Tail(s)) = 0) <=> (Tail(s) = <<>>)
    <3>1. ASSUME NEW t \in Seq(V) PROVE (Len(t) = 0) <=> (t = <<>>)
      OBVIOUS
    <3> QED
      BY <2>1, <3>1
  <2>4. ToSet(<<Head(s)>>) = {Head(s)} /\ <<Head(s)>> \in Seq(V)
    BY <2>1 DEF ToSet
  <2> QED
    BY <2>1, <2>2, <2>3, <2>4
<1>3. ASSUME s # <<>>
      PROVE  /\ DOMAIN Tail(s) = 1..(Len(s) - 1) /\ DOMAIN s = 1..Len(s)
             /\ \A i \in 1..(Len(s) - 1) : Tail(s)[i] = s[i + 1]
             /\ Head(s) = s[1]
  BY <1>2, <1>3
<1>4. ASSUME s # <<>> PROVE ToSet(s) = {Head(s)} \cup ToSet(Tail(s))
  <2>1. ASSUME NEW x \in ToSet(s) PROVE x \in {Head(s)} \cup ToSet(Tail(s))
    <3>1. PICK i \in 1..Len(s) : x = s[i]
      BY <1>3, <1>4, <2>1 DEF ToSet
    <3>2. CASE i = 1
      BY <3>1, <3>2, <1>3, <1>4
    <3>3. CASE i # 1
      <4>1. i - 1 \in 1..(Len(s) - 1) /\ Tail(s)[i - 1] = s[i]
        BY <1>2, <1>3, <1>4, <3>1, <3>3
      <4> QED
        BY <4>1, <1>3, <1>4, <3>1 DEF ToSet
    <3> QED
      BY <3>2, <3>3
  <2>2. ASSUME NEW x \in {Head(s)} \cup ToSet(Tail(s)) PROVE x \in ToSet(s)
    <3>1. CASE x = Head(s)
      BY <1>2, <1>3, <1>4, <3>1 DEF ToSet
    <3>2. CASE x \in ToSet(Tail(s))
      <4>1. PICK i \in 1..(Len(s) - 1) : x = Tail(s)[i]
        BY <1>3, <1>4, <3>2 DEF ToSet
      <4>2. i + 1 \in 1..Len(s) /\ x = s[i + 1]
        BY <1>2, <1>3, <1>4, <4>1
      <4> QED
        BY <4>2, <1>3, <1>4 DEF ToSet
    <3> QED
      BY <2>2, <3>1, <3>2
  <2> QED
    BY <2>1, <2>2
<1>5. ASSUME s # <<>>, IsInjective(s)
      PROVE  IsInjective(Tail(s)) /\ Head(s) \notin ToSet(Tail(s))
  <2>1. \A i, k \in 1..Len(s) : s[i] = s[k] => i = k
    BY <1>3, <1>5 DEF IsInjective
  <2>2. Len(s) \in Nat
    OBVIOUS
  <2>3. IsInjective(Tail(s))
    <3>1. \A i, k \in 1..(Len(s) - 1) : Tail(s)[i] = Tail(s)[k] => i = k
      <4> SUFFICES ASSUME NEW i \in 1..(Len(s) - 1), NEW k \in 1..(Len(s) - 1),
                          Tail(s)[i] = Tail(s)[k]
                   PROVE  i = k
        OBVIOUS
      <4>1. i + 1 \in 1..Len(s) /\ k + 1 \in 1..Len(s) /\ s[i + 1] = s[k + 1]
        BY <1>3, <1>5, <2>2
      <4>2. i + 1 = k + 1
        BY <2>1, <4>1
      <4> QED
        BY <4>2
    <3> QED
      BY <3>1, <1>3, <1>5 DEF IsInjective
  <2>4. ASSUME Head(s) \in ToSet(Tail(s)) PROVE FALSE
    <3>1. PICK i \in 1..(Len(s) - 1) : Head(s) = Tail(s)[i]
      BY <1>3, <1>5, <2>4 DEF ToSet
    <3>2. i + 1 \in 1..Len(s) /\ 1 \in 1..Len(s) /\ s[1] = s[i + 1]
      BY <1>3, <1>5, <2>2, <3>1
    <3>3. 1 = i + 1
      BY <2>1, <3>2
    <3> QED
      BY <3>3
  <2> QED
    BY <2>3, <2>4
<1> QED
  BY <1>1, <1>2, <1>4, <1>5

\* The same, for the lists of views.
LEMMA HeadFacts ==
    ASSUME NEW V, NEW s \in Seq(V), s # <<>>
    PROVE  /\ ToSet(s) = {Head(s)} \cup ToSet(Tail(s)) /\ Head(s) \in V /\ Tail(s) \in Seq(V)
           /\ IsInjective(s) => IsInjective(Tail(s)) /\ Head(s) \notin ToSet(Tail(s))
<1>0. Head(s) \in V /\ Tail(s) \in Seq(V)
  OBVIOUS
<1>1. ToSet(s) = {Head(s)} \cup ToSet(Tail(s))
  BY ListFacts
<1>2. ASSUME IsInjective(s) PROVE IsInjective(Tail(s)) /\ Head(s) \notin ToSet(Tail(s))
  BY <1>2, ListFacts
<1> QED
  BY <1>0, <1>1, <1>2

-------------------------------------------------------------------------------
(* What the steps of a worker do *)

\* Worker w goes on at l with k.
Moves(w, l, k) == k \in JobType /\ l \in Labels /\ ControlAt(l, k) /\ Continue(w, l, k)

Called(j, k) == k.mode = j.mode /\ k.views = j.views /\ k.from = j.from /\ k.end = j.end
Same(j, k) == Called(j, k) /\ k.objs = j.objs /\ k.start = j.start /\ k.prev = j.prev

\* What Settle does, after the views in bad failed and those in good succeeded.
Settled(j, bad, good, raising, l, k) ==
    \/ /\ l = "rollback" /\ bad # <<>>
       /\ k.todo = bad /\ k.good = good /\ k.later = j.later /\ k.failing = raising
    \/ /\ l = "record" /\ bad = <<>> /\ good # <<>>
       /\ k.todo = good /\ k.good = good /\ k.later = j.later /\ k.failing = raising
    \/ /\ l = AfterRaise(j) /\ l \in {"failed", "stuck"} /\ raising /\ bad = <<>> /\ good = <<>>
       /\ k.todo = j.views /\ k.stuck = <<>> /\ k.purpose = "reset"
    \/ /\ l = "transition" /\ ~raising /\ bad = <<>> /\ good = <<>> /\ j.later # <<>>
       /\ k.todo = First(j.later) /\ k.current = First(j.later)
       /\ k.later = IF batch THEN <<>> ELSE Tail(j.later)
    \/ l = "done" /\ ~raising /\ bad = <<>> /\ good = <<>> /\ j.later = <<>>

\* The first views of a list, and the rest of it, make up the list.
LEMMA FirstFacts ==
    ASSUME NEW s \in Seq(Views), s # <<>>, batch \in BOOLEAN
    PROVE  /\ First(s) \in Seq(Views) /\ First(s) # <<>>
           /\ (IF batch THEN <<>> ELSE Tail(s)) \in Seq(Views)
           /\ ToSet(First(s)) \cup ToSet(IF batch THEN <<>> ELSE Tail(s)) = ToSet(s)
           /\ IsInjective(s) => Apart(First(s), IF batch THEN <<>> ELSE Tail(s))
<1>0. \A x : IsInjective(<<x>>) /\ <<x>> # <<>>
  BY DEF IsInjective
<1>1. CASE batch
  <2>1. First(s) = s /\ (IF batch THEN <<>> ELSE Tail(s)) = <<>>
    BY <1>1 DEF First
  <2>2. IsInjective(<<>>) /\ <<>> \in Seq(Views)
    BY DEF IsInjective
  <2>3. ToSet(<<>>) = {}
    BY ListFacts
  <2> QED
    BY <2>1, <2>2, <2>3 DEF Apart
<1>2. CASE ~batch
  <2>1. First(s) = <<Head(s)>> /\ (IF batch THEN <<>> ELSE Tail(s)) = Tail(s)
    BY <1>2 DEF First
  <2> HIDE DEF First
  <2>2. /\ Tail(s) \in Seq(Views) /\ <<Head(s)>> \in Seq(Views)
        /\ ToSet(s) = {Head(s)} \cup ToSet(Tail(s)) /\ ToSet(<<Head(s)>>) = {Head(s)}
        /\ IsInjective(s) => IsInjective(Tail(s)) /\ Head(s) \notin ToSet(Tail(s))
    BY ListFacts
  <2>3. IsInjective(<<Head(s)>>) /\ <<Head(s)>> # <<>>
    BY <1>0
  <2>4. IsInjective(s) => Apart(<<Head(s)>>, Tail(s))
    BY <2>2, <2>3 DEF Apart
  <2> QED
    BY <2>1, <2>2, <2>3, <2>4
<1> QED
  BY <1>1, <1>2

\* What an exception leaves of a call's local variables.
LEMMA RaisedFacts ==
    ASSUME NEW j \in JobType
    PROVE  /\ Raised(j) \in JobType /\ Same(j, Raised(j))
           /\ Raised(j).todo = j.views /\ Raised(j).stuck = <<>> /\ Raised(j).purpose = "reset"
<1>0. <<>> \in Seq(Views)
  OBVIOUS
<1>1. PICK e \in Seq(Views) : e = <<>>
  BY <1>0, Zenon
<1>2. Raised(j) = [j EXCEPT !.todo = j.views, !.stuck = e, !.purpose = "reset"]
  BY <1>1, Zenon DEF Raised
<1> DEFINE k == [j EXCEPT !.todo = j.views, !.stuck = e, !.purpose = "reset"]
<1>3. k \in JobType /\ Same(j, k) /\ k.todo = j.views /\ k.stuck = e /\ k.purpose = "reset"
  BY DEF JobType, Same, Called
<1> HIDE DEF k
<1> QED
  BY <1>1, <1>2, <1>3 DEF k

\* Settle goes on, ends the call, or leaves it with an exception.
LEMMA SettleMoves ==
    ASSUME NEW w \in Workers, NEW j \in JobType, NEW bad \in Seq(Views),
           NEW good \in Seq(Views), NEW raising \in BOOLEAN, batch \in BOOLEAN,
           j.views # <<>>, j.from \in Starts \cup {Incremental},
           Settle(w, j, bad, good, raising)
    PROVE  \E l, k : Moves(w, l, k) /\ Same(j, k) /\ Settled(j, bad, good, raising, l, k)
<1> DEFINE k0 == [j EXCEPT !.good = good, !.failing = raising]
<1>1. CASE bad # <<>>
  <2> DEFINE k == [k0 EXCEPT !.todo = bad]
  <2>1. Continue(w, "rollback", k)
    BY <1>1 DEF Settle
  <2>2. /\ k \in JobType /\ Same(j, k) /\ k.todo = bad /\ k.good = good
        /\ k.later = j.later /\ k.failing = raising
    BY DEF JobType, Same, Called
  <2> HIDE DEF k
  <2>3. Moves(w, "rollback", k)
    BY <1>1, <2>1, <2>2 DEF Moves, ControlAt, Labels, Same, Called
  <2> QED
    BY <1>1, <2>2, <2>3 DEF Settled
<1>2. CASE bad = <<>> /\ good # <<>>
  <2> DEFINE k == [k0 EXCEPT !.todo = good]
  <2>1. Continue(w, "record", k)
    BY <1>2 DEF Settle
  <2>2. /\ k \in JobType /\ Same(j, k) /\ k.todo = good /\ k.good = good
        /\ k.later = j.later /\ k.failing = raising
    BY DEF JobType, Same, Called
  <2> HIDE DEF k
  <2>3. Moves(w, "record", k)
    BY <1>2, <2>1, <2>2 DEF Moves, ControlAt, Labels, Same, Called
  <2> QED
    BY <1>2, <2>2, <2>3 DEF Settled
<1>3. CASE bad = <<>> /\ good = <<>> /\ raising
  <2> DEFINE k == Raised(k0)
             l == AfterRaise(k0)
  <2>1. Continue(w, l, k)
    BY <1>3 DEF Settle
  <2>2. /\ k \in JobType /\ Same(j, k)
        /\ k.todo = j.views /\ k.stuck = <<>> /\ k.purpose = "reset"
    <3>1. k0 \in JobType /\ Same(j, k0)
      BY DEF JobType, Same, Called
    <3> HIDE DEF k0
    <3>2. /\ k \in JobType /\ Same(k0, k)
          /\ k.todo = k0.views /\ k.stuck = <<>> /\ k.purpose = "reset"
      BY <3>1, RaisedFacts
    <3> HIDE DEF k
    <3> QED
      BY <3>1, <3>2 DEF Same, Called
  <2>3. l = AfterRaise(j) /\ l \in {"failed", "stuck"}
    <3>1. k0.mode = j.mode
      BY DEF JobType
    <3> QED
      BY <3>1 DEF AfterRaise
  <2> HIDE DEF k, l
  <2>4. Moves(w, l, k)
    BY <1>3, <2>1, <2>2, <2>3 DEF Moves, ControlAt, Labels, Listing, Ended, Same, Called
  <2> QED
    BY <1>3, <2>2, <2>3, <2>4 DEF Settled
<1>4. CASE bad = <<>> /\ good = <<>> /\ ~raising /\ j.later # <<>>
  <2> DEFINE k == Batched(k0, j.later)
  <2>1. Continue(w, "transition", k)
    BY <1>4 DEF Settle
  <2>2. /\ First(j.later) \in Seq(Views) /\ j.later \in Seq(Views)
        /\ (IF batch THEN <<>> ELSE Tail(j.later)) \in Seq(Views)
    BY <1>4, FirstFacts DEF JobType
  <2> HIDE DEF First
  <2>3. /\ k \in JobType /\ Same(j, k) /\ k.todo = First(j.later)
        /\ k.current = First(j.later) /\ k.later = IF batch THEN <<>> ELSE Tail(j.later)
    BY <2>2 DEF JobType, Same, Called, Batched
  <2> HIDE DEF k
  <2>4. Moves(w, "transition", k)
    BY <2>1, <2>3 DEF Moves, ControlAt, Labels, Listing, Ended, Same, Called
  <2> QED
    BY <1>4, <2>3, <2>4 DEF Settled
<1>5. CASE bad = <<>> /\ good = <<>> /\ ~raising /\ j.later = <<>>
  <2>1. Continue(w, "done", k0)
    BY <1>5 DEF Settle
  <2>2. k0 \in JobType /\ Same(j, k0)
    BY DEF JobType, Same, Called
  <2> HIDE DEF k0
  <2>3. Moves(w, "done", k0)
    BY <2>1, <2>2 DEF Moves, ControlAt, Labels, Listing, Ended
  <2> QED
    BY <1>5, <2>2, <2>3 DEF Settled
<1> QED
  BY <1>1, <1>2, <1>3, <1>4, <1>5

\* The local variables of a worker, and the view it is at.
LEMMA JobFacts ==
    ASSUME ControlInv, NEW w \in Workers
    PROVE  /\ job[w] \in JobType /\ ControlAt(pc[w], job[w]) /\ pc[w] \in Labels
           /\ batch \in BOOLEAN /\ rows \in [Views -> Row] /\ backend \in {"file", "sql"}
           /\ Current \in [Views -> Row]
           /\ pc[w] \in Listing => /\ job[w].todo \in Seq(Views) /\ job[w].todo # <<>>
                                   /\ Head(job[w].todo) \in Views
                                   /\ Tail(job[w].todo) \in Seq(Views)
<1>1. /\ job[w] \in JobType /\ ControlAt(pc[w], job[w]) /\ pc[w] \in Labels
      /\ batch \in BOOLEAN /\ rows \in [Views -> Row] /\ backend \in {"file", "sql"}
      /\ Current \in [Views -> Row]
  BY DEF ControlInv, Typed, TypeOK, Current
<1>2. pc[w] \in Listing => job[w].todo \in Seq(Views) /\ job[w].todo # <<>>
  BY <1>1 DEF ControlAt, JobType
<1> QED
  BY <1>1, <1>2, ListFacts

\* A view found free is followed by the next one, or by the reservation of all.
LEMMA CheckMoves ==
    ASSUME ControlInv, NEW w \in Workers, NEW j \in JobType, j = job[w], Check(w)
    PROVE  \E l, k :
             /\ Moves(w, l, k) /\ Same(j, k)
             /\ \/ l = "rejected" /\ LeaveLoop(w)
                \/ /\ l \in {"check", "get"} /\ k.purpose = j.purpose
                   /\ Current[Head(j.todo)].state # "MATERIALIZING" /\ UNCHANGED loop
                   /\ l = "check" => k.todo = Tail(j.todo)
                   /\ l = "get" => Tail(j.todo) = <<>> /\ k.todo = j.views
<1>1. /\ pc[w] = "check" /\ ControlAt("check", j) /\ j.todo \in Seq(Views) /\ j.todo # <<>>
      /\ Tail(j.todo) \in Seq(Views) /\ j.views \in Seq(Views)
  BY JobFacts DEF Check, Listing, JobType
<1>2. Len(j.todo) > 1 <=> Tail(j.todo) # <<>>
  BY <1>1, ListFacts
<1>3. j.views # <<>> /\ j.from \in Starts \cup {Incremental}
  BY <1>1 DEF ControlAt, Ended
<1>4. CASE Conflict(Head(j.todo))
  <2>1. Continue(w, "rejected", j) /\ LeaveLoop(w)
    BY <1>4 DEF Check
  <2>2. Moves(w, "rejected", j)
    BY <2>1 DEF Moves, Labels, Ended, ControlAt, Listing
  <2> QED
    BY <2>1, <2>2 DEF Same, Called
<1>5. CASE ~Conflict(Head(j.todo)) /\ Tail(j.todo) # <<>>
  <2> DEFINE k == [j EXCEPT !.todo = Tail(j.todo)]
  <2>1. Continue(w, "check", k) /\ UNCHANGED loop
    BY <1>2, <1>5 DEF Check
  <2>2. k \in JobType /\ Same(j, k) /\ k.todo = Tail(j.todo) /\ k.purpose = j.purpose
    BY <1>1 DEF JobType, Same, Called
  <2> HIDE DEF k
  <2>3. Moves(w, "check", k)
    BY <2>1, <2>2, <1>3, <1>5 DEF Moves, Labels, Ended, ControlAt, Same, Called
  <2> QED
    BY <1>5, <2>1, <2>2, <2>3 DEF Conflict
<1>6. CASE ~Conflict(Head(j.todo)) /\ Tail(j.todo) = <<>>
  <2> DEFINE k == [j EXCEPT !.todo = j.views]
  <2>1. Continue(w, "get", k) /\ UNCHANGED loop
    BY <1>2, <1>6 DEF Check
  <2>2. k \in JobType /\ Same(j, k) /\ k.todo = j.views /\ k.purpose = j.purpose
    BY <1>1 DEF JobType, Same, Called
  <2> HIDE DEF k
  <2>3. Moves(w, "get", k)
    BY <2>1, <2>2, <1>3, <1>6 DEF Moves, Labels, Ended, ControlAt, Same, Called
  <2> QED
    BY <1>6, <2>1, <2>2, <2>3 DEF Conflict
<1> QED
  BY <1>4, <1>5, <1>6

\* The views found MATERIALIZING are reset once all have been looked at.
LEMMA CollectMoves ==
    ASSUME ControlInv, NEW w \in Workers, NEW j \in JobType, j = job[w], CollectStuck(w)
    PROVE  \E l, k, found :
             /\ Moves(w, l, k) /\ Same(j, k)
             /\ found = IF Current[Head(j.todo)].state = "MATERIALIZING"
                        THEN Append(j.stuck, Head(j.todo)) ELSE j.stuck
             /\ \/ l = "stuck" /\ k.stuck = found /\ k.todo = Tail(j.todo) /\ k.purpose = j.purpose
                \/ /\ l = "get" /\ k.todo = found /\ k.purpose = j.purpose
                   /\ Tail(j.todo) = <<>>
                \/ /\ l = AfterReset(j) /\ l \in {"failed", "get"} /\ found = <<>>
                   /\ Tail(j.todo) = <<>> /\ k.todo = j.views /\ k.purpose = "reserve"
<1>1. /\ pc[w] = "stuck" /\ ControlAt("stuck", j) /\ j.todo \in Seq(Views) /\ j.todo # <<>>
      /\ Tail(j.todo) \in Seq(Views) /\ j.views \in Seq(Views) /\ j.stuck \in Seq(Views)
      /\ Head(j.todo) \in Views
  BY JobFacts DEF CollectStuck, Listing, JobType
<1>2. Len(j.todo) = 1 <=> Tail(j.todo) = <<>>
  BY <1>1, ListFacts
<1>3. j.views # <<>> /\ j.from \in Starts \cup {Incremental}
  BY <1>1 DEF ControlAt, Ended
<1> DEFINE found == IF Current[Head(j.todo)].state = "MATERIALIZING"
                    THEN Append(j.stuck, Head(j.todo)) ELSE j.stuck
<1>4. found \in Seq(Views)
  BY <1>1
<1>5. /\ Tail(j.todo) # <<>> =>
           Continue(w, "stuck", [j EXCEPT !.stuck = found, !.todo = Tail(j.todo)])
      /\ Tail(j.todo) = <<>> /\ found # <<>> =>
           Continue(w, "get", [j EXCEPT !.stuck = found, !.todo = found])
      /\ Tail(j.todo) = <<>> /\ found = <<>> =>
           Continue(w, AfterReset(j), [j EXCEPT !.todo = j.views, !.purpose = "reserve"])
  BY <1>2 DEF CollectStuck
<1>f. found = IF Current[Head(j.todo)].state = "MATERIALIZING"
              THEN Append(j.stuck, Head(j.todo)) ELSE j.stuck
  OBVIOUS
<1> HIDE DEF found
<1>6. CASE Tail(j.todo) # <<>>
  <2> DEFINE k == [j EXCEPT !.stuck = found, !.todo = Tail(j.todo)]
  <2>1. Continue(w, "stuck", k)
    BY <1>5, <1>6
  <2>2. k \in JobType /\ Same(j, k) /\ k.stuck = found /\ k.todo = Tail(j.todo) /\ k.purpose = j.purpose
    BY <1>1, <1>4 DEF JobType, Same, Called
  <2> HIDE DEF k
  <2>3. Moves(w, "stuck", k)
    BY <2>1, <2>2, <1>3, <1>6 DEF Moves, Labels, Ended, ControlAt, Same, Called
  <2> QED
    BY <1>f, <2>2, <2>3
<1>7. CASE Tail(j.todo) = <<>> /\ found # <<>>
  <2> DEFINE k == [j EXCEPT !.stuck = found, !.todo = found]
  <2>1. Continue(w, "get", k)
    BY <1>5, <1>7
  <2>2. k \in JobType /\ Same(j, k) /\ k.todo = found /\ k.purpose = j.purpose
    BY <1>1, <1>4 DEF JobType, Same, Called
  <2> HIDE DEF k
  <2>3. Moves(w, "get", k)
    BY <2>1, <2>2, <1>3, <1>7 DEF Moves, Labels, Ended, ControlAt, Same, Called
  <2> QED
    BY <1>f, <1>7, <2>2, <2>3
<1>8. CASE Tail(j.todo) = <<>> /\ found = <<>>
  <2> DEFINE k == [j EXCEPT !.todo = j.views, !.purpose = "reserve"]
             l == AfterReset(j)
  <2>1. Continue(w, l, k)
    BY <1>5, <1>8
  <2>2. k \in JobType /\ Same(j, k) /\ k.todo = j.views /\ k.purpose = "reserve"
    BY <1>1 DEF JobType, Same, Called
  <2>3. l = AfterReset(j) /\ l \in {"failed", "get"}
    BY DEF AfterReset
  <2> HIDE DEF k, l
  <2>4. Moves(w, l, k)
    BY <2>1, <2>2, <2>3, <1>3 DEF Moves, Labels, Ended, ControlAt, Listing, Same, Called
  <2> QED
    BY <1>f, <1>8, <2>2, <2>3, <2>4
<1> QED
  BY <1>6, <1>7, <1>8

\* One copy of a view replaced.
Replaced(j, k, v, o) == Called(j, k) /\ k.start = j.start /\ k.objs = [j.objs EXCEPT ![v] = o]

\* A view is read before it is written in its new state.
LEMMA GetMoves ==
    ASSUME ControlInv, NEW w \in Workers, NEW j \in JobType, j = job[w], GetView(w)
    PROVE  \E k : /\ Moves(w, "put", k) /\ Replaced(j, k, Head(j.todo), Current[Head(j.todo)])
                  /\ k.prev = j.prev /\ k.todo = j.todo /\ k.purpose = j.purpose
<1>1. /\ pc[w] = "get" /\ ControlAt("get", j) /\ j.todo \in Seq(Views) /\ j.todo # <<>>
      /\ Head(j.todo) \in Views /\ Current \in [Views -> Row]
  BY JobFacts DEF GetView, Listing, JobType
<1> DEFINE v == Head(j.todo)
           k == [j EXCEPT !.objs[v] = Current[v]]
<1>2. Continue(w, "put", k)
  BY DEF GetView
<1>3. v \in Views /\ Current[v] \in Row
  BY <1>1
<1> HIDE DEF v
<1>4. k \in JobType /\ Replaced(j, k, v, Current[v])
  BY <1>3 DEF JobType, Replaced, Called
<1>5. k.prev = j.prev /\ k.todo = j.todo /\ k.purpose = j.purpose
  BY <1>3 DEF JobType
<1> HIDE DEF k
<1>6. Moves(w, "put", k)
  BY <1>1, <1>2, <1>4, <1>5 DEF Moves, Labels, Ended, ControlAt, Listing, Replaced, Called
<1> QED
  BY <1>4, <1>5, <1>6 DEF v

\* A write starts from the copy as it is or as it is in the file.
LEMMA BaseIsRows ==
    ASSUME ControlInv, NEW base \in Bases
    PROVE  base \in [Views -> Row]
<1>1. rows \in [Views -> Row] /\ Current \in [Views -> Row]
  BY DEF ControlInv, Typed, TypeOK, Current
<1> QED
  BY <1>1 DEF Bases

\* Rows stay rows.
LEMMA AppliedIsRow ==
    ASSUME NEW o \in Row, NEW row \in Row
    PROVE  Completed(o, row) \in Row /\ Applied(o, row) \in Row
<1>1. Completed(o, row) \in Row
  BY DEF Completed, Row
<1> HIDE DEF Completed
<1> QED
  BY <1>1 DEF Applied, Row

\* The last view written, a reservation goes to the executor, and a reset to its end
\* or to the reservation.
LEMMA PutMoves ==
    ASSUME ControlInv, NEW w \in Workers, NEW j \in JobType, j = job[w], PutView(w)
    PROVE  \E l, k, o : \E base \in Bases :
             /\ Moves(w, l, k) /\ k.prev = j.prev
             /\ o = [j.objs[Head(j.todo)] EXCEPT !.state = Target(j)] /\ o \in Row
             /\ Replaced(j, k, Head(j.todo), Completed(o, base[Head(j.todo)]))
             /\ Store(w, base, Head(j.todo), Applied(o, base[Head(j.todo)]))
             /\ \/ /\ l = "get" /\ k.todo = Tail(j.todo) /\ k.purpose = j.purpose
                   /\ UNCHANGED loop
                \/ /\ l = "fetch" /\ j.purpose = "reserve" /\ k.purpose = "reserve"
                   /\ k.todo = j.views /\ Tail(j.todo) = <<>> /\ LeaveLoop(w)
                \/ l = "failed" /\ j.purpose = "reset" /\ Tail(j.todo) = <<>> /\ UNCHANGED loop
                \/ l = "get" /\ j.purpose = "force" /\ k.purpose = "reserve" /\ k.todo = j.views
<1>1. /\ pc[w] = "put" /\ ControlAt("put", j) /\ j.todo \in Seq(Views) /\ j.todo # <<>>
      /\ Head(j.todo) \in Views /\ Tail(j.todo) \in Seq(Views)
      /\ j.views \in Seq(Views) /\ j.objs \in [Views -> Row]
      /\ j.purpose \in {"force", "reserve", "reset"}
  BY JobFacts DEF PutView, Listing, JobType
<1>2. Len(j.todo) = 1 <=> Tail(j.todo) = <<>>
  BY <1>1, ListFacts
<1>3. j.views # <<>> /\ j.from \in Starts \cup {Incremental}
  BY <1>1 DEF ControlAt, Ended
<1>b. PICK base \in Bases :
        /\ Store(w, base, Head(j.todo),
                 Applied([j.objs[Head(j.todo)] EXCEPT !.state = Target(j)], base[Head(j.todo)]))
        /\ Continue(w, IF ~(Len(j.todo) = 1) THEN "get"
                       ELSE IF j.purpose = "reserve" THEN "fetch" ELSE AfterReset(j),
                    [(IF ~(Len(j.todo) = 1) THEN [j EXCEPT !.todo = Tail(j.todo)]
                      ELSE [j EXCEPT !.todo = j.views, !.purpose = "reserve"])
                     EXCEPT !.objs[Head(j.todo)] =
                       Completed([j.objs[Head(j.todo)] EXCEPT !.state = Target(j)],
                                 base[Head(j.todo)])])
  BY DEF PutView, Put
<1>t. base \in [Views -> Row]
  BY BaseIsRows
<1> DEFINE v == Head(j.todo)
           o == [j.objs[v] EXCEPT !.state = Target(j)]
           done == Tail(j.todo) = <<>>
           l == IF ~done THEN "get" ELSE IF j.purpose = "reserve" THEN "fetch" ELSE AfterReset(j)
           k0 == IF ~done THEN [j EXCEPT !.todo = Tail(j.todo)]
                 ELSE [j EXCEPT !.todo = j.views, !.purpose = "reserve"]
           c == Completed(o, base[v])
           k == [k0 EXCEPT !.objs[v] = c]
<1>4. /\ Store(w, base, v, Applied(o, base[v]))
      /\ Continue(w, l, k)
      /\ IF done /\ j.purpose = "reserve" THEN LeaveLoop(w) ELSE UNCHANGED loop
  BY <1>1, <1>2, <1>b DEF PutView
<1>5. o \in Row
  <2>1. Target(j) \in States
    BY DEF Target, States
  <2> HIDE DEF Target
  <2> QED
    BY <1>1, <2>1 DEF Row
<1>6. c \in Row /\ v \in Views
  BY <1>1, <1>5, <1>t, AppliedIsRow
<1>7. /\ k0 \in JobType /\ Same(j, k0)
      /\ ~done => k0.todo = Tail(j.todo) /\ k0.purpose = j.purpose
      /\ done => k0.todo = j.views /\ k0.purpose = "reserve"
  BY <1>1 DEF JobType, Same, Called
<1>o. o = [j.objs[Head(j.todo)] EXCEPT !.state = Target(j)] /\ c = Completed(o, base[v])
  OBVIOUS
<1> HIDE DEF o, c, k0
<1>8. k \in JobType /\ Replaced(k0, k, v, c) /\ k.prev = k0.prev /\ k.todo = k0.todo /\ k.purpose = k0.purpose
  <2> HIDE DEF v
  <2> QED
    BY <1>6, <1>7 DEF JobType, Replaced, Called
<1> HIDE DEF k
<1>9. k \in JobType /\ Replaced(j, k, v, c) /\ k.prev = j.prev
  BY <1>7, <1>8 DEF Replaced, Same, Called
<1>10. CASE ~done
  <2>1. Moves(w, "get", k)
    BY <1>3, <1>4, <1>7, <1>8, <1>9, <1>10 DEF Moves, Labels, Ended, ControlAt, Listing, Replaced, Called
  <2> QED
    BY <1>4, <1>5, <1>7, <1>8, <1>9, <1>10, <1>o, <2>1
<1>11. CASE done /\ j.purpose = "reserve"
  <2>1. Moves(w, "fetch", k)
    BY <1>3, <1>4, <1>7, <1>8, <1>9, <1>11 DEF Moves, Labels, Ended, ControlAt, Listing, Replaced, Called
  <2> QED
    BY <1>4, <1>5, <1>7, <1>8, <1>9, <1>11, <1>o, <2>1
<1>12. CASE done /\ j.purpose = "reset"
  <2>1. Moves(w, "failed", k)
    BY <1>4, <1>9, <1>12 DEF Moves, Labels, Ended, ControlAt, Listing, AfterReset
  <2> QED
    BY <1>4, <1>5, <1>9, <1>12, <1>o, <2>1
<1>13. CASE done /\ j.purpose = "force"
  <2>1. Moves(w, "get", k)
    BY <1>3, <1>4, <1>7, <1>8, <1>9, <1>13
       DEF Moves, Labels, Ended, ControlAt, Listing, AfterReset, Replaced, Called
  <2> QED
    BY <1>4, <1>5, <1>7, <1>8, <1>9, <1>13, <1>o, <2>1
<1> QED
  BY <1>1, <1>10, <1>11, <1>12, <1>13

\* The watermark is the end of an interval, or the beginning of the data.
LEMMA MostRecentFacts ==
    ASSUME NEW s \in Seq(Interval)
    PROVE  /\ MostRecentEnd(s) \in 0..MaxTime
           /\ s = <<>> => MostRecentEnd(s) = 0
           /\ s # <<>> => \E i \in ToSet(s) : MostRecentEnd(s) = i[2]
<1>0. MaxTime \in Nat
  BY BoundsAssumption
<1>1. CASE s = <<>>
  BY <1>0, <1>1 DEF MostRecentEnd
<1>2. CASE s # <<>>
  <2> DEFINE S == {s[i][2] : i \in 1..Len(s)}
  <2>1. Len(s) \in Nat \ {0} /\ DOMAIN s = 1..Len(s) /\ \A i \in 1..Len(s) : s[i] \in Interval
    BY <1>2
  <2>2. \A i \in 1..Len(s) : s[i][2] \in 0..MaxTime
    BY <2>1 DEF Interval
  <2>3. S \in SUBSET (0..MaxTime) /\ S # {}
    <3>1. 1 \in 1..Len(s)
      BY <2>1
    <3> QED
      BY <2>2, <3>1
  <2>4. Max(S) \in S
    <3> HIDE DEF S
    <3> QED
      BY <1>0, <2>3, MaxExists
  <2>5. MostRecentEnd(s) = Max(S)
    BY <1>2 DEF MostRecentEnd
  <2>6. PICK i \in 1..Len(s) : Max(S) = s[i][2]
    <3> DEFINE m == Max(S)
    <3>1. m \in S
      BY <2>4
    <3> HIDE DEF m
    <3>2. \E i \in 1..Len(s) : m = s[i][2]
      BY <3>1
    <3> QED
      BY <3>2 DEF m
  <2>7. s[i] \in ToSet(s)
    BY <2>1, <2>6 DEF ToSet
  <2> QED
    BY <1>2, <2>2, <2>5, <2>6, <2>7
<1> QED
  BY <1>1, <1>2

\* A view is read with its start date; the last one is followed by the transitions.
LEMMA FetchMoves ==
    ASSUME ControlInv, NEW w \in Workers, NEW j \in JobType, j = job[w], Fetch(w)
    PROVE  \E l, k :
             /\ Moves(w, l, k) /\ Called(j, k) /\ k.prev = j.prev
             /\ \/ /\ l = AfterRaise(j) /\ Same(j, k)
                   /\ k.todo = j.views /\ k.stuck = <<>> /\ k.purpose = "reset"
                \/ /\ k.objs = [j.objs EXCEPT ![Head(j.todo)] = Current[Head(j.todo)]]
                   /\ k.start = [j.start EXCEPT ![Head(j.todo)] = StartDate(j, Current[Head(j.todo)])]
                   /\ \/ l = "fetch" /\ k.todo = Tail(j.todo) /\ k.purpose = j.purpose
                      \/ /\ l = "transition" /\ Tail(j.todo) = <<>>
                         /\ k.todo = First(j.views) /\ k.current = First(j.views)
                         /\ k.later = IF batch THEN <<>> ELSE Tail(j.views)
<1>1. /\ pc[w] = "fetch" /\ ControlAt("fetch", j) /\ j.todo \in Seq(Views) /\ j.todo # <<>>
      /\ Head(j.todo) \in Views /\ Tail(j.todo) \in Seq(Views) /\ Current \in [Views -> Row]
      /\ j.views \in Seq(Views) /\ batch \in BOOLEAN
  BY JobFacts DEF Fetch, Listing, JobType
<1>2. Len(j.todo) = 1 <=> Tail(j.todo) = <<>>
  BY <1>1, ListFacts
<1>3. j.views # <<>> /\ j.from \in Starts \cup {Incremental}
  BY <1>1 DEF ControlAt, Ended
<1> DEFINE v == Head(j.todo)
           s == StartDate(j, Current[v])
           f == [j EXCEPT !.objs[v] = Current[v], !.start[v] = s]
<1>4. v \in Views /\ Current[v] \in Row
  BY <1>1
<1>5. s \in 0..MaxTime
  <2>1. Current[v].intervals \in Seq(Interval)
    BY <1>4 DEF Row
  <2>2. MostRecentEnd(Current[v].intervals) \in 0..MaxTime
    BY <2>1, MostRecentFacts
  <2> QED
    BY <1>3, <2>2, InputsAssumption DEF StartDate
<1>6. /\ NoStartTime(j, v) => Continue(w, AfterRaise(j), Raised(j))
      /\ ~NoStartTime(j, v) /\ Tail(j.todo) = <<>> =>
            Continue(w, "transition", Batched(f, j.views))
      /\ ~NoStartTime(j, v) /\ Tail(j.todo) # <<>> =>
            Continue(w, "fetch", [f EXCEPT !.todo = Tail(f.todo)])
  BY <1>2 DEF Fetch
<1> HIDE DEF v, s
<1>7. /\ f \in JobType /\ Called(j, f) /\ f.prev = j.prev /\ f.todo = j.todo
      /\ f.purpose = j.purpose
      /\ f.objs = [j.objs EXCEPT ![v] = Current[v]] /\ f.start = [j.start EXCEPT ![v] = s]
  BY <1>4, <1>5 DEF JobType, Called
<1> HIDE DEF f
<1>8. CASE NoStartTime(j, v)
  <2> DEFINE l == AfterRaise(j)
             k == Raised(j)
  <2>1. /\ k \in JobType /\ Same(j, k)
        /\ k.todo = j.views /\ k.stuck = <<>> /\ k.purpose = "reset"
    BY RaisedFacts
  <2>2. Continue(w, l, k)
    BY <1>6, <1>8
  <2>3. l \in {"failed", "stuck"}
    BY DEF AfterRaise
  <2>l. l = AfterRaise(j)
    OBVIOUS
  <2> HIDE DEF k, l
  <2>4. Moves(w, l, k)
    BY <1>3, <2>1, <2>2, <2>3 DEF Moves, Labels, Ended, Listing, ControlAt, Same, Called
  <2>5. Called(j, k) /\ k.prev = j.prev
    BY <2>1 DEF Same
  <2> QED
    BY <2>1, <2>4, <2>5, <2>l
<1>9. CASE ~NoStartTime(j, v) /\ Tail(j.todo) = <<>>
  <2> DEFINE k == Batched(f, j.views)
             a == First(j.views)
             b == IF batch THEN <<>> ELSE Tail(j.views)
  <2>1. Continue(w, "transition", k)
    BY <1>6, <1>9
  <2>2. a \in Seq(Views) /\ b \in Seq(Views)
    BY <1>1, <1>3, FirstFacts
  <2>3. k = [f EXCEPT !.todo = a, !.current = a, !.later = b]
    BY DEF Batched
  <2> HIDE DEF k, a, b
  <2>4. /\ k \in JobType /\ Called(f, k) /\ k.prev = f.prev /\ k.todo = a /\ k.current = a
        /\ k.later = b /\ k.objs = f.objs /\ k.start = f.start
    BY <1>7, <2>2, <2>3 DEF JobType, Called
  <2>5. Called(j, k) /\ k.prev = j.prev
    BY <1>7, <2>4 DEF Called
  <2>6. Moves(w, "transition", k)
    BY <1>3, <2>1, <2>4, <2>5 DEF Moves, Labels, Ended, Listing, ControlAt, Called
  <2> QED
    BY <1>7, <1>9, <2>4, <2>5, <2>6 DEF a, b, v, s
<1>10. CASE ~NoStartTime(j, v) /\ Tail(j.todo) # <<>>
  <2> DEFINE k == [f EXCEPT !.todo = Tail(f.todo)]
  <2>1. Continue(w, "fetch", k)
    BY <1>6, <1>10
  <2>4. /\ k \in JobType /\ Called(f, k) /\ k.prev = f.prev /\ k.todo = Tail(j.todo)
        /\ k.purpose = f.purpose /\ k.objs = f.objs /\ k.start = f.start
    BY <1>1, <1>7 DEF JobType, Called
  <2> HIDE DEF k
  <2>5. Called(j, k) /\ k.prev = j.prev
    BY <1>7, <2>4 DEF Called
  <2>6. Moves(w, "fetch", k)
    BY <1>3, <1>10, <2>1, <2>4, <2>5 DEF Moves, Labels, Ended, Listing, ControlAt, Called
  <2> QED
    BY <1>7, <1>10, <2>4, <2>5, <2>6 DEF v, s
<1> QED
  BY <1>8, <1>9, <1>10

\* The state a view can be given back to.
Returned(j, k, p) ==
    /\ k.prev = [j.prev EXCEPT ![Head(j.todo)] = p]
    /\ p = "AVAILABLE_ONLINE" => j.objs[Head(j.todo)].state = "AVAILABLE_ONLINE"

\* What becomes of the lists of the call, by the state of its copy of the view.
TransitionCases(w, j, l, k, p, o, base) ==
    LET v == Head(j.todo)
        st == j.objs[v].state
        goesOn == /\ l = "transition"
                  /\ k.todo = Tail(j.todo) /\ k.current = j.current /\ k.later = j.later
    IN
    \/ /\ st \in {"MATERIALIZING", "UNSPECIFIED"} /\ p = Fallback(st)
       /\ goesOn /\ UNCHANGED registry /\ k.objs = j.objs
    \/ /\ st \in {"GENERATED", "AVAILABLE_ONLINE"} /\ p = st
       /\ goesOn /\ Store(w, base, v, Applied(o, base[v]))
       /\ k.objs = [j.objs EXCEPT ![v] = Completed(o, base[v])]
    \/ /\ st = "CREATED" /\ p = st
       /\ Settled(j, Before(j), <<>>, TRUE, l, k) /\ UNCHANGED registry /\ k.objs = j.objs

TransitionEffect(w, j, l, k, p, o, base) ==
    /\ Moves(w, l, k) /\ Called(j, k) /\ k.start = j.start /\ Returned(j, k, p)
    /\ o \in Row /\ o = [j.objs[Head(j.todo)] EXCEPT !.state = "MATERIALIZING"]
    /\ \/ UNCHANGED registry /\ k.objs = j.objs
       \/ /\ Store(w, base, Head(j.todo), Applied(o, base[Head(j.todo)]))
          /\ k.objs = [j.objs EXCEPT ![Head(j.todo)] = Completed(o, base[Head(j.todo)])]
    /\ l \in {"transition", "rollback", "failed", "stuck"}
    /\ l = "rollback" => k.good = <<>>
    /\ j.objs[Head(j.todo)].state = "MATERIALIZING" =>
         /\ l = "transition" /\ UNCHANGED registry /\ k.objs = j.objs
         /\ k.todo = Tail(j.todo) /\ k.current = j.current /\ k.later = j.later
    /\ TransitionCases(w, j, l, k, p, o, base)

\* A view that is already MATERIALIZING is left alone; another one is written, or ends
\* the call.
LEMMA TransitionMoves ==
    ASSUME ControlInv, NEW w \in Workers, NEW j \in JobType, j = job[w], Transition(w)
    PROVE  \E l, k, p, o : \E base \in Bases : TransitionEffect(w, j, l, k, p, o, base)
<1>1. /\ pc[w] = "transition" /\ ControlAt("transition", j) /\ j.todo \in Seq(Views) /\ j.todo # <<>>
      /\ batch \in BOOLEAN /\ j.current \in Seq(Views)
      /\ j.objs \in [Views -> Row] /\ j.prev \in [Views -> States \ {"MATERIALIZING"}]
  BY JobFacts DEF Transition, JobType
<1>2. Head(j.todo) \in Views /\ Tail(j.todo) \in Seq(Views) /\ j.objs[Head(j.todo)] \in Row
  BY <1>1, ListFacts
<1>3. j.views # <<>> /\ j.from \in Starts \cup {Incremental}
  BY <1>1 DEF ControlAt, Ended
<1> DEFINE v == Head(j.todo)
           st == j.objs[v].state
           n(p) == [j EXCEPT !.prev[v] = p, !.todo = Tail(j.todo)]
           o == [j.objs[v] EXCEPT !.state = "MATERIALIZING"]
<1>4. \/ st \in {"MATERIALIZING", "UNSPECIFIED"} /\ Continue(w, "transition", n(Fallback(st)))
         /\ UNCHANGED registry
      \/ "MATERIALIZING" \in ValidTransitions[st] /\ Put(w, v, o, "transition", n(st))
      \/ st = "CREATED" /\ Settle(w, n(st), Before(j), <<>>, TRUE) /\ UNCHANGED registry
  BY DEF Transition
<1>b. rows \in Bases
  BY DEF Bases
<1>5. st \in States /\ o \in Row
  BY <1>2 DEF Row, States
<1>o. o = [j.objs[Head(j.todo)] EXCEPT !.state = "MATERIALIZING"]
  OBVIOUS
<1>v. v \in Views /\ v = Head(j.todo) /\ st = j.objs[v].state
  BY <1>2
<1>6. ASSUME NEW p \in States \ {"MATERIALIZING"}
      PROVE  /\ n(p) \in JobType /\ Called(j, n(p)) /\ n(p).start = j.start /\ n(p).objs = j.objs
             /\ n(p).prev = [j.prev EXCEPT ![v] = p]
             /\ n(p).todo = Tail(j.todo) /\ n(p).current = j.current /\ n(p).later = j.later
  <2> HIDE DEF v
  <2> QED
    BY <1>1, <1>2, <1>v DEF JobType, Called
<1> HIDE DEF v, st, o
<1>7. CASE st \in {"MATERIALIZING", "UNSPECIFIED"} /\ Continue(w, "transition", n(Fallback(st))) /\ UNCHANGED registry
  <2> DEFINE p == Fallback(st)
             k == n(p)
  <2>1. p \in States \ {"MATERIALIZING"} /\ p # "AVAILABLE_ONLINE"
    BY <1>7 DEF Fallback, States
  <2>2. Continue(w, "transition", k) /\ UNCHANGED registry
    BY <1>7
  <2> HIDE DEF p
  <2>3. /\ k \in JobType /\ Called(j, k) /\ k.start = j.start /\ k.objs = j.objs
        /\ k.prev = [j.prev EXCEPT ![v] = p]
        /\ k.todo = Tail(j.todo) /\ k.current = j.current /\ k.later = j.later
    BY <1>6, <2>1
  <2> HIDE DEF k, n
  <2>4. Moves(w, "transition", k)
    BY <1>3, <2>2, <2>3 DEF Moves, Labels, Ended, Listing, ControlAt, Called
  <2>5. Returned(j, k, p)
    BY <2>1, <2>3, <1>v DEF Returned
  <2>6. TransitionCases(w, j, "transition", k, p, o, rows)
    BY <1>7, <1>v, <2>2, <2>3 DEF TransitionCases, p
  <2> QED
    BY <1>5, <1>b, <1>o, <2>2, <2>3, <2>4, <2>5, <2>6 DEF TransitionEffect
<1>8. CASE "MATERIALIZING" \in ValidTransitions[st] /\ Put(w, v, o, "transition", n(st))
  <2>1. st \in {"GENERATED", "AVAILABLE_ONLINE"}
    <3>1. st # "UNSPECIFIED" /\ st # "CREATED" /\ st # "MATERIALIZING"
      BY <1>8 DEF ValidTransitions
    <3> QED
      BY <1>5, <3>1 DEF States
  <2>b. PICK base \in Bases : /\ Store(w, base, v, Applied(o, base[v]))
                              /\ Continue(w, "transition",
                                          [n(st) EXCEPT !.objs[v] = Completed(o, base[v])])
    BY <1>8 DEF Put
  <2> DEFINE b == n(st)
             c == Completed(o, base[v])
             k == [b EXCEPT !.objs[v] = c]
  <2>2. /\ Continue(w, "transition", k)
        /\ Store(w, base, v, Applied(o, base[v]))
    BY <2>b
  <2>3. c \in Row
    <3>1. base[v] \in Row
      BY <1>v, BaseIsRows
    <3> QED
      BY <1>5, <3>1, AppliedIsRow
  <2>4. /\ b \in JobType /\ Called(j, b) /\ b.start = j.start /\ b.objs = j.objs
        /\ b.prev = [j.prev EXCEPT ![v] = st]
        /\ b.todo = Tail(j.todo) /\ b.current = j.current /\ b.later = j.later
    BY <1>6, <2>1 DEF States
  <2>c. c = Completed(o, base[v])
    OBVIOUS
  <2> HIDE DEF b, n, c
  <2>5. /\ k \in JobType /\ Called(b, k) /\ k.start = b.start /\ k.prev = b.prev
        /\ k.objs = [b.objs EXCEPT ![v] = c]
        /\ k.todo = b.todo /\ k.current = b.current /\ k.later = b.later
    BY <1>v, <2>3, <2>4 DEF JobType, Called
  <2> HIDE DEF k
  <2>6. Called(j, k) /\ k.start = j.start /\ Returned(j, k, st)
    BY <2>1, <2>4, <2>5, <1>v DEF Called, Returned
  <2>7. Moves(w, "transition", k)
    BY <1>3, <2>2, <2>5, <2>6 DEF Moves, Labels, Ended, Listing, ControlAt, Called
  <2>8. k.objs = [j.objs EXCEPT ![v] = Completed(o, base[v])] /\ st # "MATERIALIZING"
    BY <2>1, <2>4, <2>5, <2>c
  <2>9. TransitionCases(w, j, "transition", k, st, o, base)
    BY <1>v, <2>1, <2>2, <2>4, <2>5, <2>8 DEF TransitionCases
  <2> QED
    BY <1>5, <1>o, <1>v, <2>2, <2>6, <2>7, <2>8, <2>9 DEF TransitionEffect
<1>9. CASE st = "CREATED" /\ Settle(w, n(st), Before(j), <<>>, TRUE) /\ UNCHANGED registry
  <2> DEFINE b == n(st)
             bad == Before(j)
  <2>1. Before(j) \in Seq(Views) /\ <<>> \in Seq(Views) /\ TRUE \in BOOLEAN
    BY <1>1, AmongFacts DEF Before
  <2>2. /\ b \in JobType /\ Called(j, b) /\ b.start = j.start /\ b.objs = j.objs
        /\ b.prev = [j.prev EXCEPT ![v] = st] /\ b.later = j.later /\ b.views # <<>>
        /\ b.from \in Starts \cup {Incremental}
    <3>1. st \in States \ {"MATERIALIZING"}
      BY <1>9 DEF States
    <3> QED
      BY <1>3, <1>6, <3>1 DEF Called
  <2>3. Settle(w, b, bad, <<>>, TRUE) /\ UNCHANGED registry
    BY <1>9
  <2> HIDE DEF b, n, bad
  <2>4. PICK l, k : Moves(w, l, k) /\ Same(b, k) /\ Settled(b, bad, <<>>, TRUE, l, k)
    <3>1. bad \in Seq(Views)
      BY <2>1 DEF bad
    <3> QED
      BY <1>1, <2>1, <2>2, <2>3, <3>1, SettleMoves
  <2>5. l \in {"transition", "rollback", "failed", "stuck"} /\ (l = "rollback" => k.good = <<>>)
    BY <2>4 DEF Settled
  <2>6. Called(j, k) /\ k.start = j.start /\ k.objs = j.objs /\ Returned(j, k, st)
    BY <1>9, <1>v, <2>2, <2>4 DEF Same, Called, Returned
  <2>7. st # "MATERIALIZING"
    BY <1>9
  <2>8. Settled(j, Before(j), <<>>, TRUE, l, k)
    BY <2>2, <2>4 DEF Settled, AfterRaise, Called, bad
  <2>9. TransitionCases(w, j, l, k, st, o, rows)
    BY <1>9, <1>v, <2>3, <2>6, <2>8 DEF TransitionCases
  <2> QED
    BY <1>5, <1>b, <1>o, <1>v, <2>3, <2>4, <2>5, <2>6, <2>7, <2>9 DEF TransitionEffect
<1> QED
  BY <1>4, <1>7, <1>8, <1>9

EngineEffect(w, j, l, k, bad, raising, failed) ==
    /\ Moves(w, l, k) /\ Same(j, k)
    /\ bad \in SUBSET ToSet(j.current) /\ (raising => bad # {})
    /\ raising \in BOOLEAN /\ failed \in Seq(Views)
    /\ bad # {} => failures < MaxFailures
    /\ failures' = IF bad = {} THEN failures ELSE failures + 1
    /\ Delivered' = [v \in Views |-> IF v \in ToSet(j.current) \ bad
                                     THEN Delivered[v] \cup {<<j.start[v], j.end>>}
                                     ELSE Delivered[v]]
    /\ accepted' \in [Views -> SUBSET Interval] /\ written' \in [Views -> SUBSET Interval]
    /\ Settled(j, failed, Among(j.current, Views \ bad), raising, l, k)
    /\ ToSet(Among(j.current, Views \ bad)) = ToSet(j.current) \ bad /\ ToSet(failed) = bad
    /\ bad = {} => failed = <<>> /\ Among(j.current, Views \ bad) = j.current

\* The engine writes the views that do not fail, and the call is settled.
LEMMA EngineMoves ==
    ASSUME ControlInv, NEW w \in Workers, NEW j \in JobType, j = job[w], RunEngine(w)
    PROVE  \E l, k, bad, raising, failed : EngineEffect(w, j, l, k, bad, raising, failed)
<1>1. /\ pc[w] = "transition" /\ ControlAt("transition", j) /\ j.current \in Seq(Views)
      /\ batch \in BOOLEAN
  BY JobFacts DEF RunEngine, JobType
<1>2. j.views # <<>> /\ j.from \in Starts \cup {Incremental}
  BY <1>1 DEF ControlAt, Ended
<1>3. PICK bad \in SUBSET ToSet(j.current), late \in SUBSET ToSet(j.current),
           raising \in BOOLEAN :
        /\ bad # {} => failures < MaxFailures
        /\ raising => bad # {}
        /\ waits => late = {}
        /\ failures' = IF bad = {} THEN failures ELSE failures + 1
        /\ accepted' = With(accepted, ToSet(j.current) \ bad, j)
        /\ written' = With(written, ToSet(j.current) \ (bad \cup late), j)
        /\ Settle(w, j, Among(j.current, bad), Succeeded(j, bad), raising)
  BY DEF RunEngine
<1>w. UNCHANGED waits /\ waits \in BOOLEAN /\ accepted \in [Views -> SUBSET Interval]
      /\ written \in [Views -> SUBSET Interval]
  BY DEF RunEngine, fixed, ControlInv, Typed, TypeOK
<1>i. \A v \in Views : <<j.start[v], j.end>> \in Interval
  BY DEF JobType, Interval
<1>a. /\ accepted' \in [Views -> SUBSET Interval] /\ written' \in [Views -> SUBSET Interval]
  BY <1>3, <1>w, <1>i DEF With
<1>d. Delivered' = [v \in Views |-> IF v \in ToSet(j.current) \ bad
                                   THEN Delivered[v] \cup {<<j.start[v], j.end>>}
                                   ELSE Delivered[v]]
  <2>1. Delivered = (IF waits THEN written ELSE accepted)
        /\ Delivered' = (IF waits THEN written' ELSE accepted')
    BY <1>w DEF Delivered
  <2>2. Delivered' = With(Delivered, ToSet(j.current) \ bad, j)
    <3>1. CASE waits
      <4>1. ToSet(j.current) \ (bad \cup late) = ToSet(j.current) \ bad
        BY <1>3, <3>1
      <4> QED
        BY <1>3, <2>1, <3>1, <4>1
    <3>2. CASE ~waits
      BY <1>3, <2>1, <3>2
    <3> QED
      BY <3>1, <3>2
  <2> QED
    BY <2>2, Zenon DEF With
<1> DEFINE failed == Among(j.current, bad)
           good == Among(j.current, Views \ bad)
<1>4. /\ failed \in Seq(Views) /\ good \in Seq(Views) /\ ToSet(failed) = ToSet(j.current) \cap bad
      /\ ToSet(good) = ToSet(j.current) \cap (Views \ bad)
      /\ ToSet(j.current) \subseteq Views \ bad => good = j.current
  BY <1>1, AmongFacts
<1>5. ToSet(j.current) \subseteq Views
  BY <1>1, ListFacts
<1>6. /\ ToSet(good) = ToSet(j.current) \ bad /\ (bad = {} => good = j.current)
      /\ ToSet(failed) = bad
  BY <1>4, <1>5
<1>7. bad = {} => failed = <<>>
  <2> HIDE DEF failed
  <2>1. ToSet(failed) = {} => failed = <<>>
    BY <1>4, ListFacts
  <2> QED
    BY <1>4, <2>1
<1>8. PICK l, k : Moves(w, l, k) /\ Same(j, k) /\ Settled(j, failed, good, raising, l, k)
  <2>1. Settle(w, j, failed, good, raising)
    BY <1>3 DEF Succeeded
  <2> HIDE DEF failed, good
  <2> QED
    BY <1>1, <1>2, <1>4, <2>1, SettleMoves
<1>9. raising \in BOOLEAN /\ failed \in Seq(Views)
  BY <1>4
<1> HIDE DEF failed
<1> QED
  BY <1>3, <1>6, <1>7, <1>8, <1>9, <1>a, <1>d DEF EngineEffect

\* A failed view gets its previous state back, unless it had none.
LEMMA RollbackMoves ==
    ASSUME ControlInv, NEW w \in Workers, NEW j \in JobType, j = job[w], Rollback(w)
    PROVE  \E l, k, o : \E base \in Bases :
             /\ Moves(w, l, k) /\ k.prev = j.prev /\ o \in Row
             /\ o.intervals = j.objs[Head(j.todo)].intervals /\ o.state = j.prev[Head(j.todo)]
             /\ Replaced(j, k, Head(j.todo), Completed(o, base[Head(j.todo)]))
             /\ j.prev[Head(j.todo)] = "UNSPECIFIED" => UNCHANGED registry
             /\ j.prev[Head(j.todo)] # "UNSPECIFIED" =>
                  Store(w, base, Head(j.todo), Applied(o, base[Head(j.todo)]))
             /\ Settled(j, Tail(j.todo), j.good, j.failing, l, k)
             /\ l \in {"rollback", "record"} => k.good = j.good
             /\ l # "recordPut"
<1>1. /\ pc[w] = "rollback" /\ ControlAt("rollback", j) /\ Head(j.todo) \in Views
      /\ batch \in BOOLEAN /\ Tail(j.todo) \in Seq(Views)
      /\ j.objs \in [Views -> Row] /\ j.prev \in [Views -> States \ {"MATERIALIZING"}]
      /\ j.good \in Seq(Views) /\ j.failing \in BOOLEAN
  BY JobFacts DEF Rollback, JobType, Listing
<1>2. j.views # <<>> /\ j.from \in Starts \cup {Incremental}
  BY <1>1 DEF ControlAt, Ended
<1> DEFINE v == Head(j.todo)
           o == [j.objs[v] EXCEPT !.state = j.prev[v]]
<1>b. PICK base \in Bases :
        /\ IF j.prev[v] = "UNSPECIFIED" THEN UNCHANGED registry
           ELSE Store(w, base, v, Applied(o, base[v]))
        /\ Settle(w, [j EXCEPT !.objs[v] = Completed(o, base[v])], Tail(j.todo), j.good, j.failing)
  BY DEF Rollback, PreviousState
<1> DEFINE c == Completed(o, base[v])
           b == [j EXCEPT !.objs[v] = c]
<1>3. /\ IF j.prev[v] = "UNSPECIFIED" THEN UNCHANGED registry
         ELSE Store(w, base, v, Applied(o, base[v]))
      /\ Settle(w, b, Tail(j.todo), j.good, j.failing)
  BY <1>b
<1>4. o \in Row /\ o.intervals = j.objs[v].intervals /\ o.state = j.prev[v]
  <2>1. j.prev[v] \in States /\ j.objs[v] \in Row
    BY <1>1
  <2> HIDE DEF v
  <2> QED
    BY <2>1 DEF Row
<1> HIDE DEF o
<1>5. c \in Row /\ v \in Views
  <2>1. base[v] \in Row /\ v \in Views
    BY <1>1, BaseIsRows
  <2> HIDE DEF v
  <2> QED
    BY <1>4, <2>1, AppliedIsRow
<1>c. c = Completed(o, base[v]) /\ v = Head(j.todo)
  OBVIOUS
<1> HIDE DEF v, c
<1>6. b \in JobType /\ Replaced(j, b, v, c) /\ b.prev = j.prev /\ b.later = j.later
  BY <1>5 DEF JobType, Replaced, Called
<1> HIDE DEF b
<1>7. b.views # <<>> /\ b.from \in Starts \cup {Incremental}
  BY <1>2, <1>6 DEF Replaced, Called
<1>8. PICK l, k : /\ Moves(w, l, k) /\ Same(b, k)
                  /\ Settled(b, Tail(j.todo), j.good, j.failing, l, k)
  <2> DEFINE t == Tail(j.todo)
             g == j.good
             r == j.failing
  <2>1. t \in Seq(Views) /\ g \in Seq(Views) /\ r \in BOOLEAN /\ Settle(w, b, t, g, r)
    BY <1>1, <1>3
  <2> HIDE DEF t, g, r
  <2>2. \E l, k : Moves(w, l, k) /\ Same(b, k) /\ Settled(b, t, g, r, l, k)
    BY <1>1, <1>6, <1>7, <2>1, SettleMoves
  <2> QED
    BY <2>2 DEF t, g, r
<1>9. Replaced(j, k, v, c) /\ k.prev = j.prev
  BY <1>6, <1>8 DEF Same, Replaced, Called
<1>10. (l \in {"rollback", "record"} => k.good = j.good) /\ l # "recordPut"
  BY <1>8 DEF Settled
<1>11. Settled(j, Tail(j.todo), j.good, j.failing, l, k)
  BY <1>6, <1>8 DEF Settled, AfterRaise, Replaced, Called
<1> QED
  BY <1>3, <1>4, <1>8, <1>9, <1>10, <1>11, <1>c

\* The SQL registry reads the row before it records.
LEMMA RecordMoves ==
    ASSUME ControlInv, NEW w \in Workers, NEW j \in JobType, j = job[w], Record(w)
    PROVE  \E k : /\ Moves(w, "recordPut", k)
                  /\ Replaced(j, k, Head(j.todo), rows[Head(j.todo)])
                  /\ k.prev = j.prev /\ k.good = j.good
<1>1. /\ pc[w] = "record" /\ ControlAt("record", j) /\ j.todo # <<>>
      /\ Head(j.todo) \in Views /\ rows \in [Views -> Row]
  BY JobFacts DEF Record, Listing, JobType
<1> DEFINE v == Head(j.todo)
           k == [j EXCEPT !.objs[v] = rows[v]]
<1>2. Continue(w, "recordPut", k)
  BY DEF Record
<1>3. v \in Views /\ rows[v] \in Row
  BY <1>1
<1> HIDE DEF v
<1>4. k \in JobType /\ Replaced(j, k, v, rows[v]) /\ k.prev = j.prev
  BY <1>3 DEF JobType, Replaced, Called
<1>5. k.todo = j.todo /\ k.good = j.good
  BY <1>3 DEF JobType
<1> HIDE DEF k
<1>6. Moves(w, "recordPut", k)
  BY <1>1, <1>2, <1>4, <1>5 DEF Moves, Labels, Ended, ControlAt, Listing, Replaced, Called
<1> QED
  BY <1>4, <1>5, <1>6 DEF v

\* What was written of a view is recorded, and the call goes on with the next one.
LEMMA RecordPutMoves ==
    ASSUME ControlInv, NEW w \in Workers, NEW j \in JobType, j = job[w], RecordPut(w)
    PROVE  \E l, k, o : \E seen, base \in Bases :
             /\ Moves(w, l, k) /\ Same(j, k) /\ o \in Row
             /\ o = Recorded(IF backend = "sql" THEN j.objs[Head(j.todo)] ELSE seen[Head(j.todo)],
                             j, Head(j.todo))
             /\ Store(w, base, Head(j.todo),
                      IF backend = "sql" THEN Applied(o, base[Head(j.todo)]) ELSE o)
             /\ Settled(j, <<>>, Tail(j.todo), j.failing, l, k)
<1>1. /\ pc[w] \in {"record", "recordPut"} /\ ControlAt(pc[w], j) /\ Head(j.todo) \in Views
      /\ batch \in BOOLEAN /\ Tail(j.todo) \in Seq(Views)
      /\ j.objs \in [Views -> Row] /\ j.start \in [Views -> 0..MaxTime] /\ j.end \in 0..MaxTime
      /\ j.failing \in BOOLEAN /\ <<>> \in Seq(Views)
  BY JobFacts DEF RecordPut, JobType, Listing
<1>2. j.views # <<>> /\ j.from \in Starts \cup {Incremental}
  BY <1>1 DEF ControlAt, Ended
<1> DEFINE v == Head(j.todo)
<1>b. PICK seen \in Bases, base \in Bases :
        Store(w, base, v, IF backend = "sql" THEN Applied(Recorded(j.objs[v], j, v), base[v])
                          ELSE Recorded(seen[v], j, v))
  BY DEF RecordPut
<1>t. seen \in [Views -> Row]
  BY BaseIsRows
<1> DEFINE from == IF backend = "sql" THEN j.objs[v] ELSE seen[v]
           o == Recorded(from, j, v)
<1>3. /\ Store(w, base, v, IF backend = "sql" THEN Applied(o, base[v]) ELSE o)
      /\ Settle(w, j, <<>>, Tail(j.todo), j.failing)
  <2>1. Settle(w, j, <<>>, Tail(j.todo), j.failing)
    BY DEF RecordPut
  <2>2. CASE backend = "sql"
    BY <1>b, <2>1, <2>2
  <2>3. CASE backend # "sql"
    BY <1>b, <2>1, <2>3
  <2> QED
    BY <2>2, <2>3
<1>4. o \in Row
  <2>1. from \in Row /\ v \in Views /\ j.start[v] \in 0..MaxTime
    BY <1>1, <1>t
  <2>2. <<j.start[v], j.end>> \in Interval
    BY <1>1, <2>1 DEF Interval
  <2>3. from.intervals \in Seq(Interval)
    BY <2>1 DEF Row
  <2> HIDE DEF from, v
  <2>4. Append(from.intervals, <<j.start[v], j.end>>) \in Seq(Interval)
    BY <2>2, <2>3
  <2> QED
    BY <2>4 DEF Recorded, Row, States
<1>5. PICK l, k : Moves(w, l, k) /\ Same(j, k) /\ Settled(j, <<>>, Tail(j.todo), j.failing, l, k)
  <2> DEFINE e == <<>>
             t == Tail(j.todo)
             r == j.failing
  <2>1. e \in Seq(Views) /\ t \in Seq(Views) /\ r \in BOOLEAN /\ Settle(w, j, e, t, r)
    BY <1>1, <1>3
  <2> HIDE DEF e, t, r
  <2>2. \E l, k : Moves(w, l, k) /\ Same(j, k) /\ Settled(j, e, t, r, l, k)
    BY <1>1, <1>2, <2>1, SettleMoves
  <2> QED
    BY <2>2 DEF e, t, r
<1> QED
  BY <1>3, <1>4, <1>5

\* A call begins with the views it names.
LEMMA StartMoves ==
    ASSUME ControlInv, NEW w \in Workers, Start(w)
    PROVE  \E l, k : \E m \in Modes, list \in ViewLists :
             /\ Moves(w, l, k) /\ l \in {"fetch", "check", "stuck"}
             /\ k.mode = m /\ k.views = list /\ k.todo = list
             /\ k.objs = [v \in Views |-> NewRow] /\ k.start = [v \in Views |-> 0]
             /\ k.prev = [v \in Views |-> "UNSPECIFIED"]
             /\ m = "async" => l = "check" /\ k.purpose = "reserve"
             /\ m = "sync" <=> l = "fetch"
             /\ l = "stuck" => k.stuck = <<>> /\ k.purpose = "force"
             /\ IF m # "sync" /\ OneServer THEN loop = Nobody /\ loop' = w ELSE UNCHANGED loop
<1>1. PICK m \in Modes, list \in ViewLists, s \in Starts \cup {Incremental}, e \in 1..MaxTime :
        /\ IF m # "sync" /\ OneServer THEN loop = Nobody /\ loop' = w ELSE UNCHANGED loop
        /\ Continue(w, CASE m = "sync" -> "fetch" [] m = "async" -> "check" [] m = "force" -> "stuck",
                    NewJob(m, list, s, e))
  BY DEF Start, LoopIsFree
<1> DEFINE l == CASE m = "sync" -> "fetch" [] m = "async" -> "check" [] m = "force" -> "stuck"
           k == NewJob(m, list, s, e)
<1>2. m \in {"sync", "async", "force"} /\ list \in Seq(Views) /\ list # <<>> /\ MaxTime \in Nat
  BY BoundsAssumption
<1>3. /\ l \in {"fetch", "check", "stuck"} /\ (m = "async" => l = "check")
      /\ (m = "sync" <=> l = "fetch") /\ (l = "stuck" => m = "force")
  BY <1>2
<1>4. s \in Int /\ e \in 0..MaxTime
  BY <1>2, InputsAssumption DEF Incremental
<1>5. [v \in Views |-> NewRow] \in [Views -> Row]
  BY DEF NewRow, Row, States
<1>6. k \in JobType
  <2>1. <<>> \in Seq(Views) /\ 0 \in 0..MaxTime
    BY <1>2
  <2> HIDE DEF NewRow
  <2> QED
    BY <1>2, <1>4, <1>5, <2>1 DEF NewJob, JobType, States
<1>7. /\ k.mode = m /\ k.views = list /\ k.todo = list /\ k.from = s
      /\ k.objs = [v \in Views |-> NewRow] /\ k.start = [v \in Views |-> 0]
      /\ k.prev = [v \in Views |-> "UNSPECIFIED"]
      /\ m = "async" => k.purpose = "reserve"
      /\ k.stuck = <<>> /\ (m = "force" => k.purpose = "force")
  BY DEF NewJob
<1>8. Continue(w, l, k)
  BY <1>1
<1> HIDE DEF l, k
<1>9. Moves(w, l, k)
  BY <1>2, <1>3, <1>6, <1>7, <1>8 DEF Moves, Labels, Ended, Listing, ControlAt
<1> QED
  BY <1>1, <1>3, <1>7, <1>9

-------------------------------------------------------------------------------
(* Types and control *)

\* A worker without a call.
LEMMA NoJobFacts ==
    /\ NoJob \in JobType
    /\ \A l \in Ended : ControlAt(l, NoJob)
    /\ NoJob.objs = [v \in Views |-> NewRow] /\ NoJob.start = [v \in Views |-> 0]
    /\ NoJob.prev = [v \in Views |-> "UNSPECIFIED"]
<1>1. MaxTime \in Nat /\ 0 \in 0..MaxTime /\ <<>> \in Seq(Views)
  BY BoundsAssumption
<1>2. NewRow \in Row
  BY DEF NewRow, Row, States
<1>3. NoJob \in JobType
  <2> HIDE DEF NewRow
  <2> QED
    BY <1>1, <1>2 DEF NoJob, NewJob, JobType, States
<1>4. \A l \in Ended : ControlAt(l, NoJob)
  BY DEF ControlAt, Ended, Listing
<1>5. /\ NoJob.objs = [v \in Views |-> NewRow] /\ NoJob.start = [v \in Views |-> 0]
      /\ NoJob.prev = [v \in Views |-> "UNSPECIFIED"]
  BY DEF NoJob, NewJob
<1> QED
  BY <1>3, <1>4, <1>5

\* One worker moves, the others stay.
LEMMA MoveEffect ==
    ASSUME ControlInv, NEW w \in Workers, NEW l, NEW k, Moves(w, l, k)
    PROVE  /\ pc'[w] = l /\ job'[w] = IF l \in Ended THEN NoJob ELSE k
           /\ \A u \in Workers \ {w} : pc'[u] = pc[u] /\ job'[u] = job[u]
           /\ job' \in [Workers -> JobType] /\ pc' \in [Workers -> Labels]
           /\ \A u \in Workers : ControlAt(pc'[u], job'[u])
<1>1. pc \in [Workers -> Labels] /\ job \in [Workers -> JobType]
  BY DEF ControlInv, Typed, TypeOK
<1>2. k \in JobType /\ l \in Labels /\ ControlAt(l, k) /\ NoJob \in JobType
      /\ (l \in Ended => ControlAt(l, NoJob))
  BY NoJobFacts DEF Moves
<1> DEFINE n == IF l \in Ended THEN NoJob ELSE k
<1>3. pc' = [pc EXCEPT ![w] = l] /\ job' = [job EXCEPT ![w] = n]
  BY DEF Moves, Continue
<1>4. n \in JobType /\ ControlAt(l, n)
  BY <1>2
<1>n. n = IF l \in Ended THEN NoJob ELSE k
  OBVIOUS
<1> HIDE DEF n
<1>5. /\ pc'[w] = l /\ job'[w] = n
      /\ \A u \in Workers \ {w} : pc'[u] = pc[u] /\ job'[u] = job[u]
      /\ job' \in [Workers -> JobType] /\ pc' \in [Workers -> Labels]
  BY <1>1, <1>2, <1>3, <1>4
<1>6. \A u \in Workers : ControlAt(pc'[u], job'[u])
  <2> SUFFICES ASSUME NEW u \in Workers PROVE ControlAt(pc'[u], job'[u])
    OBVIOUS
  <2>1. CASE u = w
    BY <1>4, <1>5, <2>1
  <2>2. CASE u # w
    <3>1. ControlAt(pc[u], job[u])
      BY DEF ControlInv
    <3> QED
      BY <1>5, <2>2, <3>1
  <2> QED
    BY <2>1, <2>2
<1> QED
  BY <1>5, <1>6, <1>n

\* The registry operations keep the types of what they change.
RegistryTyped ==
    /\ rows \in [Views -> Row] /\ raced \in BOOLEAN
    /\ io \in [Threads -> {"none", "open", "write"}]

LEMMA ReadEffect ==
    ASSUME ControlInv, Read
    PROVE  /\ RegistryTyped' /\ rows' = Current /\ UNCHANGED <<file, io, msg>>
<1>1. Current \in [Views -> Row] /\ io \in [Threads -> {"none", "open", "write"}] /\ raced \in BOOLEAN
  BY DEF ControlInv, Typed, TypeOK, Current
<1> QED
  BY <1>1 DEF Read, RegistryTyped

LEMMA StoreEffect ==
    ASSUME ControlInv, NEW t \in Threads, NEW base \in Bases, NEW v \in Views, NEW row \in Row,
           Store(t, base, v, row)
    PROVE  /\ RegistryTyped' /\ rows' = [base EXCEPT ![v] = row] /\ UNCHANGED <<file, msg>>
<1>1. /\ base \in [Views -> Row] /\ io \in [Threads -> {"none", "open", "write"}]
      /\ raced \in BOOLEAN
  BY BaseIsRows DEF ControlInv, Typed, TypeOK
<1>2. rows' \in [Views -> Row]
  BY <1>1 DEF Store
<1>3. io' \in [Threads -> {"none", "open", "write"}]
  BY <1>1 DEF Store
<1>4. raced' \in BOOLEAN
  BY <1>1 DEF Store
<1> QED
  BY <1>2, <1>3, <1>4 DEF Store, RegistryTyped

\* ControlInv after a move, when the other variables keep their types.
LEMMA MoveControl ==
    ASSUME ControlInv, NEW w \in Workers, NEW l, NEW k, Moves(w, l, k),
           UNCHANGED <<fixed, file, msg, edit>>, RegistryTyped',
           loop' \in Workers \cup {Nobody}, written' \in [Views -> SUBSET Interval],
           accepted' \in [Views -> SUBSET Interval], calls' \in Nat, failures' \in 0..MaxFailures
    PROVE  ControlInv'
<1>1. /\ job' \in [Workers -> JobType] /\ pc' \in [Workers -> Labels]
      /\ \A u \in Workers : ControlAt(pc'[u], job'[u])
  BY MoveEffect
<1>2. /\ backend' \in {"file", "sql"} /\ batch' \in BOOLEAN /\ waits' \in BOOLEAN
      /\ file' \in [Views -> Row] /\ msg' \in [Threads -> [Views -> Row]]
      /\ edit' \subseteq [view : Views, row : Row]
  BY DEF ControlInv, Typed, TypeOK, fixed
<1>3. ASSUME NEW u \in Workers
      PROVE  /\ job'[u].mode \in {"sync", "async", "force"} /\ job'[u].end \in 0..MaxTime
             /\ job'[u].objs \in [Views -> Row] /\ job'[u].start \in [Views -> 0..MaxTime]
             /\ job'[u].prev \in [Views -> States \ {"MATERIALIZING"}]
  <2>1. job'[u] \in JobType
    BY <1>1
  <2> QED
    BY <2>1 DEF JobType
<1>4. TypeOK'
  BY <1>1, <1>2, <1>3 DEF TypeOK, RegistryTyped
<1> QED
  BY <1>1, <1>4 DEF ControlInv, Typed

\* A worker's step in its call preserves ControlInv.
LEMMA CallControl ==
    ASSUME ControlInv, NEW w \in Workers, Start(w) \/ Call(w)
    PROVE  ControlInv'
<1>0. /\ loop \in Workers \cup {Nobody} /\ rows \in [Views -> Row] /\ calls \in Nat
      /\ written \in [Views -> SUBSET Interval] /\ accepted \in [Views -> SUBSET Interval]
      /\ failures \in 0..MaxFailures /\ MaxFailures \in Nat
      /\ RegistryTyped
  BY BoundsAssumption DEF ControlInv, Typed, TypeOK, RegistryTyped
<1>j. PICK j \in JobType : j = job[w]
  BY JobFacts
<1>v. pc[w] \in Listing => Head(j.todo) \in Views
  BY JobFacts, <1>j
<1>r. ASSUME NEW base \in Bases, NEW v \in Views, NEW o \in Row
      PROVE  base[v] \in Row /\ Applied(o, base[v]) \in Row
  <2>1. base[v] \in Row
    BY BaseIsRows
  <2> QED
    BY <2>1, AppliedIsRow
<1>t. w \in Threads
  BY DEF Threads
<1>u. UNCHANGED registry => RegistryTyped' /\ UNCHANGED <<file, msg>>
  BY <1>0 DEF registry, RegistryTyped
<1>1. CASE Start(w)
  <2>1. PICK l, k : Moves(w, l, k) /\ loop' \in {w, loop}
    BY <1>1, StartMoves
  <2>2. calls' \in Nat /\ UNCHANGED <<fixed, registry, edit, accepted, written, failures>>
    BY <1>0, <1>1 DEF Start, data
  <2> QED
    BY <1>0, <1>u, <2>1, <2>2, MoveControl
<1>2. CASE Check(w)
  <2>1. PICK l, k : Moves(w, l, k) /\ (LeaveLoop(w) \/ UNCHANGED loop)
    BY <1>2, <1>j, CheckMoves
  <2>2. Read /\ UNCHANGED <<fixed, edit, accepted, written, calls, failures>>
    BY <1>2 DEF Check, data
  <2>3. loop' \in Workers \cup {Nobody}
    BY <1>0, <2>1 DEF LeaveLoop
  <2> QED
    BY <1>0, <2>1, <2>2, <2>3, ReadEffect, MoveControl
<1>3. CASE CollectStuck(w)
  <2>1. PICK l, k : Moves(w, l, k)
    BY <1>3, <1>j, CollectMoves
  <2>2. Read /\ UNCHANGED <<fixed, edit, loop, accepted, written, calls, failures>>
    BY <1>3 DEF CollectStuck, data
  <2> QED
    BY <1>0, <2>1, <2>2, ReadEffect, MoveControl
<1>4. CASE GetView(w)
  <2>1. PICK k : Moves(w, "put", k)
    BY <1>4, <1>j, GetMoves
  <2>2. Read /\ UNCHANGED <<fixed, edit, loop, accepted, written, calls, failures>>
    BY <1>4 DEF GetView, data
  <2> QED
    BY <1>0, <2>1, <2>2, ReadEffect, MoveControl
<1>5. CASE PutView(w)
  <2>0. Head(j.todo) \in Views
    BY <1>5, <1>v DEF PutView, Listing
  <2>1. PICK l, k, o, base :
          /\ base \in Bases /\ Moves(w, l, k) /\ o \in Row
          /\ Store(w, base, Head(j.todo), Applied(o, base[Head(j.todo)]))
    BY <1>5, <1>j, PutMoves
  <2>2. /\ UNCHANGED <<fixed, edit, accepted, written, calls, failures>>
        /\ LeaveLoop(w) \/ UNCHANGED loop
    BY <1>5 DEF PutView, data
  <2>3. loop' \in Workers \cup {Nobody}
    BY <1>0, <2>2 DEF LeaveLoop
  <2>4. RegistryTyped' /\ UNCHANGED <<file, msg>>
    BY <1>r, <1>t, <2>0, <2>1, StoreEffect
  <2> QED
    BY <1>0, <2>1, <2>2, <2>3, <2>4, MoveControl
<1>6. CASE Fetch(w)
  <2>1. PICK l, k : Moves(w, l, k)
    BY <1>6, <1>j, FetchMoves
  <2>2. Read /\ UNCHANGED <<fixed, edit, loop, accepted, written, calls, failures>>
    BY <1>6 DEF Fetch, data
  <2> QED
    BY <1>0, <2>1, <2>2, ReadEffect, MoveControl
<1>7. CASE Transition(w)
  <2>0. Head(j.todo) \in Views
    <3>1. j.todo \in Seq(Views) /\ j.todo # <<>>
      BY <1>7, <1>j DEF Transition, JobType
    <3> QED
      BY <3>1, ListFacts
  <2>1. PICK l, k, o, base :
          /\ base \in Bases /\ Moves(w, l, k) /\ o \in Row
          /\ \/ UNCHANGED registry
             \/ Store(w, base, Head(j.todo), Applied(o, base[Head(j.todo)]))
    <3>1. PICK l, k, p, o, base : base \in Bases /\ TransitionEffect(w, j, l, k, p, o, base)
      BY <1>7, <1>j, TransitionMoves
    <3> QED
      BY <3>1 DEF TransitionEffect
  <2>2. UNCHANGED <<fixed, edit, loop, accepted, written, calls, failures>>
    BY <1>7 DEF Transition, data
  <2>4. RegistryTyped' /\ UNCHANGED <<file, msg>>
    BY <1>r, <1>t, <1>u, <2>0, <2>1, StoreEffect
  <2> QED
    BY <1>0, <2>1, <2>2, <2>4, MoveControl
<1>8. CASE RunEngine(w)
  <2>e. PICK l, k, bad, raising, failed : EngineEffect(w, j, l, k, bad, raising, failed)
    BY <1>8, <1>j, EngineMoves
  <2>1. /\ Moves(w, l, k)
        /\ bad # {} => failures < MaxFailures
        /\ failures' = IF bad = {} THEN failures ELSE failures + 1
        /\ accepted' \in [Views -> SUBSET Interval] /\ written' \in [Views -> SUBSET Interval]
    BY <2>e DEF EngineEffect
  <2>2. UNCHANGED <<fixed, registry, edit, loop, calls>>
    BY <1>8 DEF RunEngine
  <2>3. failures' \in 0..MaxFailures
    BY <1>0, <2>1
  <2> QED
    BY <1>0, <1>u, <2>1, <2>2, <2>3, MoveControl
<1>9. CASE Rollback(w)
  <2>0. Head(j.todo) \in Views
    BY <1>9, <1>v DEF Rollback, Listing
  <2>1. PICK l, k, o, base :
          /\ base \in Bases /\ Moves(w, l, k) /\ o \in Row
          /\ \/ UNCHANGED registry
             \/ Store(w, base, Head(j.todo), Applied(o, base[Head(j.todo)]))
    BY <1>9, <1>j, RollbackMoves
  <2>2. UNCHANGED <<fixed, edit, loop, accepted, written, calls, failures>>
    BY <1>9 DEF Rollback, data
  <2>4. RegistryTyped' /\ UNCHANGED <<file, msg>>
    BY <1>r, <1>t, <1>u, <2>0, <2>1, StoreEffect
  <2> QED
    BY <1>0, <2>1, <2>2, <2>4, MoveControl
<1>10. CASE Record(w)
  <2>1. PICK k : Moves(w, "recordPut", k)
    BY <1>10, <1>j, RecordMoves
  <2>2. UNCHANGED <<fixed, registry, edit, loop, accepted, written, calls, failures>>
    BY <1>10 DEF Record, data
  <2> QED
    BY <1>0, <1>u, <2>1, <2>2, MoveControl
<1>11. CASE RecordPut(w)
  <2>0. Head(j.todo) \in Views
    BY <1>11, <1>v DEF RecordPut, Listing
  <2>1. PICK l, k, o, base :
          /\ base \in Bases /\ Moves(w, l, k) /\ o \in Row
          /\ Store(w, base, Head(j.todo),
                   IF backend = "sql" THEN Applied(o, base[Head(j.todo)]) ELSE o)
    BY <1>11, <1>j, RecordPutMoves
  <2>2. UNCHANGED <<fixed, edit, loop, accepted, written, calls, failures>>
    BY <1>11 DEF RecordPut, data
  <2>3. (IF backend = "sql" THEN Applied(o, base[Head(j.todo)]) ELSE o) \in Row
    BY <1>r, <2>0, <2>1
  <2>4. RegistryTyped' /\ UNCHANGED <<file, msg>>
    BY <1>t, <2>0, <2>1, <2>3, StoreEffect
  <2> QED
    BY <1>0, <2>1, <2>2, <2>4, MoveControl
<1> QED
  BY <1>1, <1>2, <1>3, <1>4, <1>5, <1>6, <1>7, <1>8, <1>9, <1>10, <1>11 DEF Call

\* Commits, readers, users and jobs that end late leave the calls alone.
Aside ==
    \/ \E t \in Threads : OpenFile(t) \/ WriteFile(t)
    \/ \E v \in Views, s \in States : SetFeatureViewState(v, s)
    \/ ApplyState \/ ThreadReads
    \/ \E v \in Views : \E i \in accepted[v] : JobEnds(v, i)

\* What each kind of step is.
LEMMA NextCases ==
    ASSUME Next
    PROVE  \/ \E w \in Workers : Start(w) \/ (io[w] = "none" /\ Call(w))
           \/ Aside
           \/ \E dying \in SUBSET Workers : /\ Crash(dying)
                                            /\ backend = "file" => dying = Workers
<1>1. ASSUME NEW w \in Workers, OpenFile(w) \/ WriteFile(w) PROVE Aside
  BY <1>1 DEF Aside, Threads
<1>2. ASSUME OpenFile(User) \/ WriteFile(User) PROVE Aside
  BY <1>2 DEF Aside, Threads
<1>3. ASSUME NEW v \in Views, NEW s \in States, SetFeatureViewState(v, s) PROVE Aside
  BY <1>3 DEF Aside
<1>4. ASSUME ApplyState \/ ThreadReads PROVE Aside
  BY <1>4 DEF Aside
<1>5. ASSUME NEW v \in Views, NEW i \in accepted[v], JobEnds(v, i) PROVE Aside
  BY <1>5 DEF Aside
<1>6. ASSUME NEW dying \in Dying, Crash(dying)
      PROVE  dying \in SUBSET Workers /\ (backend = "file" => dying = Workers)
  BY DEF Dying, ServerJobs
<1> QED
  BY <1>1, <1>2, <1>3, <1>4, <1>5, <1>6 DEF Next, Step

\* ... and keep the types of the rest.
LEMMA AsideControl ==
    ASSUME ControlInv, Aside
    PROVE  /\ ControlInv' /\ UNCHANGED <<fixed, loop, pc, job, accepted, failures>>
<1>0. TypeOK /\ job \in [Workers -> JobType] /\ \A u \in Workers : ControlAt(pc[u], job[u])
  BY DEF ControlInv, Typed
<1>1. ASSUME UNCHANGED <<fixed, loop, pc, job, accepted, failures>>, RegistryTyped',
             file' \in [Views -> Row], msg' \in [Threads -> [Views -> Row]],
             edit' \subseteq [view : Views, row : Row],
             written' \in [Views -> SUBSET Interval], calls' \in Nat
      PROVE  ControlInv'
  <2>1. TypeOK'
    BY <1>0, <1>1 DEF TypeOK, RegistryTyped, fixed
  <2> QED
    BY <1>0, <1>1, <2>1 DEF ControlInv, Typed
<1>2. /\ RegistryTyped /\ file \in [Views -> Row] /\ msg \in [Threads -> [Views -> Row]]
      /\ edit \subseteq [view : Views, row : Row] /\ calls \in Nat
      /\ accepted \in [Views -> SUBSET Interval] /\ written \in [Views -> SUBSET Interval]
  BY <1>0 DEF TypeOK, RegistryTyped
<1>3. NewRows \in [Views -> Row]
  BY DEF NewRows, NewRow, Row, States
<1>4. CASE \E t \in Threads : OpenFile(t)
  <2>1. PICK t \in Threads : OpenFile(t)
    BY <1>4
  <2>2. /\ msg' \in [Threads -> [Views -> Row]] /\ RegistryTyped'
        /\ UNCHANGED <<fixed, loop, pc, job, accepted, written, failures, file, edit, calls>>
    BY <1>2, <2>1 DEF OpenFile, RegistryTyped, data
  <2> QED
    BY <1>1, <1>2, <2>2
<1>5. CASE \E t \in Threads : WriteFile(t)
  <2>1. PICK t \in Threads : WriteFile(t)
    BY <1>5
  <2>2. /\ file' \in [Views -> Row] /\ msg' \in [Threads -> [Views -> Row]] /\ RegistryTyped'
        /\ UNCHANGED <<fixed, loop, pc, job, accepted, written, failures, edit, calls>>
    BY <1>2, <1>3, <2>1 DEF WriteFile, RegistryTyped, data
  <2> QED
    BY <1>1, <1>2, <2>2
<1>6. CASE \E v \in Views, s \in States : SetFeatureViewState(v, s)
  <2>1. PICK v \in Views, s \in States : SetFeatureViewState(v, s)
    BY <1>6
  <2>2. Read /\ UNCHANGED <<fixed, loop, pc, job, accepted, written, failures>> /\ calls' \in Nat
    BY <1>2, <2>1 DEF SetFeatureViewState, data
  <2>3. edit' \subseteq [view : Views, row : Row]
    <3>1. Current[v] \in Row
      BY <1>2 DEF Current, RegistryTyped
    <3>2. [Current[v] EXCEPT !.state = s] \in Row
      BY <3>1 DEF Row
    <3> QED
      BY <2>1, <3>2 DEF SetFeatureViewState
  <2> QED
    BY <1>1, <1>2, <2>2, <2>3, ReadEffect
<1>7. CASE ApplyState
  <2>1. PICK e \in edit, base \in Bases : Store(User, base, e.view, Applied(e.row, base[e.view]))
    BY <1>7 DEF ApplyState
  <2>2. e.view \in Views /\ e.row \in Row
    BY <1>2
  <2>3. Applied(e.row, base[e.view]) \in Row
    BY <2>2, BaseIsRows, AppliedIsRow
  <2>4. RegistryTyped' /\ UNCHANGED <<file, msg>>
    <3>1. User \in Threads
      BY DEF Threads
    <3> QED
      BY <2>1, <2>2, <2>3, <3>1, StoreEffect
  <2>5. UNCHANGED <<fixed, loop, pc, job, accepted, written, calls, failures>> /\ edit' = {}
    BY <1>7 DEF ApplyState, data
  <2> QED
    BY <1>1, <1>2, <2>4, <2>5
<1>8. CASE ThreadReads
  <2>1. Read /\ UNCHANGED <<fixed, loop, pc, job, accepted, written, failures, edit, calls>>
    BY <1>8 DEF ThreadReads, data
  <2> QED
    BY <1>1, <1>2, <2>1, ReadEffect
<1>9. CASE \E v \in Views : \E i \in accepted[v] : JobEnds(v, i)
  <2>1. PICK v \in Views : \E i \in accepted[v] : JobEnds(v, i)
    BY <1>9
  <2>2. PICK i \in accepted[v] : JobEnds(v, i)
    BY <2>1
  <2>3. written' \in [Views -> SUBSET Interval]
    BY <1>2, <2>2 DEF JobEnds
  <2>4. UNCHANGED <<fixed, loop, pc, job, accepted, failures, edit, calls, file, msg>>
        /\ RegistryTyped'
    BY <1>2, <2>2 DEF JobEnds, registry, RegistryTyped
  <2> QED
    BY <1>1, <1>2, <2>3, <2>4
<1> QED
  BY <1>4, <1>5, <1>6, <1>7, <1>8, <1>9 DEF Aside

\* A crash ends calls, and takes the event loop along.
LEMMA CrashEffect ==
    ASSUME ControlInv, NEW dying \in SUBSET Workers, Crash(dying)
    PROVE  /\ \A u \in Workers : \/ pc'[u] \in Ended /\ job'[u] = NoJob
                                 \/ pc'[u] = pc[u] /\ job'[u] = job[u] /\ u \notin dying
           /\ loop' = IF loop \in dying THEN Nobody ELSE loop
           /\ UNCHANGED <<fixed, file, raced, accepted, written, calls, failures>>
           /\ rows' = Current /\ edit' \subseteq edit
           /\ io' = [t \in Threads |-> "none"] /\ msg' = [t \in Threads |-> NewRows]
           /\ job' \in [Workers -> JobType] /\ pc' \in [Workers -> Labels]
<1>1. pc \in [Workers -> Labels] /\ job \in [Workers -> JobType] /\ NoJob \in JobType
  BY NoJobFacts DEF ControlInv, Typed, TypeOK
<1>2. /\ pc' = [u \in Workers |-> IF u \in dying /\ ~AtRest(u) THEN "crashed" ELSE pc[u]]
      /\ job' = [u \in Workers |-> IF u \in dying THEN NoJob ELSE job[u]]
      /\ loop' = IF loop \in dying THEN Nobody ELSE loop
      /\ UNCHANGED <<fixed, file, raced, accepted, written, calls, failures>>
      /\ rows' = Current /\ edit' \subseteq edit
      /\ io' = [t \in Threads |-> "none"] /\ msg' = [t \in Threads |-> NewRows]
  BY DEF Crash, data
<1>3. "crashed" \in Labels /\ "crashed" \in Ended
  BY DEF Labels, Ended
<1>4. ASSUME NEW u \in Workers
      PROVE  \/ pc'[u] \in Ended /\ job'[u] = NoJob
             \/ pc'[u] = pc[u] /\ job'[u] = job[u] /\ u \notin dying
  BY <1>2, <1>3 DEF AtRest
<1>5. job' \in [Workers -> JobType] /\ pc' \in [Workers -> Labels]
  BY <1>1, <1>2, <1>3
<1> QED
  BY <1>2, <1>4, <1>5

\* Every step preserves ControlInv.
LEMMA NextControl ==
    ASSUME ControlInv, [Next]_vars
    PROVE  ControlInv'
<1>1. ASSUME NEW w \in Workers, Start(w) \/ Call(w) PROVE ControlInv'
  BY <1>1, CallControl
<1>2. ASSUME Aside PROVE ControlInv'
  BY <1>2, AsideControl
<1>3. ASSUME NEW dying \in SUBSET Workers, Crash(dying) PROVE ControlInv'
  <2>1. /\ \A u \in Workers : \/ pc'[u] \in Ended /\ job'[u] = NoJob
                              \/ pc'[u] = pc[u] /\ job'[u] = job[u]
        /\ loop' = IF loop \in dying THEN Nobody ELSE loop
        /\ UNCHANGED <<fixed, file, raced, accepted, written, calls, failures>>
        /\ rows' = Current /\ edit' \subseteq edit
        /\ io' = [t \in Threads |-> "none"] /\ msg' = [t \in Threads |-> NewRows]
        /\ job' \in [Workers -> JobType] /\ pc' \in [Workers -> Labels]
    BY <1>3, CrashEffect
  <2>2. ASSUME NEW u \in Workers PROVE ControlAt(pc'[u], job'[u])
    BY <2>1, NoJobFacts DEF ControlInv
  <2>3. ASSUME NEW u \in Workers
        PROVE  /\ job'[u].mode \in {"sync", "async", "force"} /\ job'[u].end \in 0..MaxTime
               /\ job'[u].objs \in [Views -> Row] /\ job'[u].start \in [Views -> 0..MaxTime]
               /\ job'[u].prev \in [Views -> States \ {"MATERIALIZING"}]
    <3>1. job'[u] \in JobType
      BY <2>1
    <3> QED
      BY <3>1 DEF JobType
  <2>r. /\ rows' \in [Views -> Row] /\ io' \in [Threads -> {"none", "open", "write"}]
        /\ msg' \in [Threads -> [Views -> Row]]
    <3>1. NewRows \in [Views -> Row]
      BY DEF NewRows, NewRow, Row, States
    <3> QED
      BY <2>1, <3>1 DEF ControlInv, Typed, TypeOK, Current
  <2>4. TypeOK'
    BY <2>1, <2>3, <2>r DEF ControlInv, Typed, TypeOK, fixed
  <2> QED
    BY <2>1, <2>2, <2>4 DEF ControlInv, Typed
<1>4. ASSUME UNCHANGED vars PROVE ControlInv'
  <2>1. TypeOK'
    BY <1>4 DEF ControlInv, Typed, TypeOK, vars, fixed, registry, data
  <2> QED
    BY <1>4, <2>1 DEF ControlInv, Typed, vars
<1> QED
  BY <1>1, <1>2, <1>3, <1>4, NextCases

\* The initial states satisfy ControlInv.
LEMMA InitControl == Init => ControlInv
<1> SUFFICES ASSUME Init PROVE ControlInv
  OBVIOUS
<1>1. NoJob \in JobType /\ ControlAt("idle", NoJob)
  BY NoJobFacts DEF Ended
<1>2. NewRow \in Row
  BY DEF NewRow, Row, States
<1>3. /\ rows \in [Views -> Row] /\ loop \in Workers \cup {Nobody} /\ pc \in [Workers -> Labels]
      /\ job \in [Workers -> JobType] /\ backend \in {"file", "sql"} /\ batch \in BOOLEAN
      /\ waits \in BOOLEAN /\ file \in [Views -> Row] /\ raced \in BOOLEAN
      /\ io \in [Threads -> {"none", "open", "write"}] /\ msg \in [Threads -> [Views -> Row]]
      /\ edit \subseteq [view : Views, row : Row]
      /\ accepted \in [Views -> SUBSET Interval] /\ written \in [Views -> SUBSET Interval]
      /\ calls \in Nat /\ failures \in 0..MaxFailures
  <2>1. /\ rows \in [Views -> Row] /\ file \in [Views -> Row] /\ msg \in [Threads -> [Views -> Row]]
    BY <1>2 DEF Init, NewRows
  <2>2. /\ loop \in Workers \cup {Nobody} /\ pc \in [Workers -> Labels]
        /\ job \in [Workers -> JobType] /\ backend \in {"file", "sql"}
        /\ raced \in BOOLEAN /\ io \in [Threads -> {"none", "open", "write"}]
        /\ edit \subseteq [view : Views, row : Row]
        /\ accepted \in [Views -> SUBSET Interval] /\ written \in [Views -> SUBSET Interval]
        /\ calls \in Nat /\ failures \in 0..MaxFailures
    <3>1. loop \in Workers \cup {Nobody} /\ raced \in BOOLEAN /\ backend \in {"file", "sql"}
      BY BoundsAssumption DEF Init
    <3>2. pc \in [Workers -> Labels]
      BY DEF Init, Labels, Ended
    <3>3. job \in [Workers -> JobType]
      BY <1>1 DEF Init
    <3>4. io \in [Threads -> {"none", "open", "write"}] /\ edit \subseteq [view : Views, row : Row]
      BY DEF Init
    <3>5. accepted \in [Views -> SUBSET Interval] /\ written \in [Views -> SUBSET Interval]
      BY DEF Init
    <3>6. calls \in Nat /\ failures \in 0..MaxFailures
      BY BoundsAssumption DEF Init
    <3> QED
      BY <3>1, <3>2, <3>3, <3>4, <3>5, <3>6
  <2>3. batch \in BOOLEAN /\ waits \in BOOLEAN
    BY Zenon DEF Init
  <2> QED
    BY <2>1, <2>2, <2>3
<1>4. ASSUME NEW u \in Workers
      PROVE  /\ job[u].mode \in {"sync", "async", "force"} /\ job[u].end \in 0..MaxTime
             /\ job[u].objs \in [Views -> Row] /\ job[u].start \in [Views -> 0..MaxTime]
             /\ job[u].prev \in [Views -> States \ {"MATERIALIZING"}]
  <2>1. job[u] \in JobType
    BY <1>3
  <2> QED
    BY <2>1 DEF JobType
<1>5. TypeOK
  BY <1>3, <1>4 DEF TypeOK
<1>6. ASSUME NEW u \in Workers PROVE ControlAt(pc[u], job[u])
  BY <1>1 DEF Init
<1> QED
  BY <1>3, <1>5, <1>6 DEF ControlInv, Typed

\* Every variable keeps its type: a call never looks at the head of an empty list of
\* views, and rolls back to a state other than MATERIALIZING.
THEOREM TypeCorrect == Spec => []TypeOK
<1>1. Spec => []ControlInv
  BY InitControl, NextControl, PTL DEF Spec
<1>2. ControlInv => TypeOK
  BY DEF ControlInv, Typed
<1> QED
  BY <1>1, <1>2, PTL

-------------------------------------------------------------------------------
(* What is recorded has been written *)

\* What has been written stays written.
LEMMA SoundGrows ==
    ASSUME NEW W, NEW X, W \subseteq X
    PROVE  /\ \A o : Sound(o, W) => Sound(o, X)
           /\ \A s : StateBacked(s, W) => StateBacked(s, X)
           /\ \A t : Reached(t, W) => Reached(t, X)
<1>1. \A s : StateBacked(s, W) => StateBacked(s, X)
  BY DEF StateBacked
<1>2. \A o : Sound(o, W) => Sound(o, X)
  BY <1>1 DEF Sound
<1>3. \A t : Reached(t, W) => Reached(t, X)
  BY DEF Reached
<1> QED
  BY <1>1, <1>2, <1>3

\* The registry makes sound rows of a sound copy and a sound row.
LEMMA AppliedIsSound ==
    ASSUME NEW W, NEW o \in Row, NEW row \in Row, Sound(o, W), Sound(row, W)
    PROVE  Sound(Completed(o, row), W) /\ Sound(Applied(o, row), W)
<1>1. Sound(Completed(o, row), W)
  <2>1. CASE Completed(o, row) = o
    BY <2>1
  <2>2. CASE Completed(o, row) = [o EXCEPT !.intervals = row.intervals]
    <3>1. /\ [o EXCEPT !.intervals = row.intervals].intervals = row.intervals
          /\ [o EXCEPT !.intervals = row.intervals].state = o.state
      BY DEF Row
    <3> QED
      BY <2>2, <3>1 DEF Sound
  <2> QED
    BY <2>1, <2>2 DEF Completed
<1>2. Sound(Applied(o, row), W)
  <2>1. CASE Applied(o, row) = row \/ Applied(o, row) = Completed(o, row)
    BY <1>1, <2>1
  <2>2. CASE Applied(o, row) = [row EXCEPT !.state = o.state]
    <3>1. /\ [row EXCEPT !.state = o.state].intervals = row.intervals
          /\ [row EXCEPT !.state = o.state].state = o.state
      BY DEF Row
    <3> QED
      BY <2>2, <3>1 DEF Sound
  <2> QED
    BY <2>1, <2>2 DEF Applied
<1> QED
  BY <1>1, <1>2

\* A call without a job, and a new one, have nothing to be wrong about.
LEMMA NewIsSound ==
    ASSUME NEW k, NEW l, NEW wr, l \notin {"rollback", "record", "recordPut"},
           k.objs = [v \in Views |-> NewRow], k.start = [v \in Views |-> 0],
           k.prev = [v \in Views |-> "UNSPECIFIED"]
    PROVE  JobSound(l, k, wr)
<1>1. \A W : StateBacked("UNSPECIFIED", W)
  BY DEF StateBacked
<1>2. \A W : Sound(NewRow, W)
  <2>1. ToSet(<<>>) = {}
    BY DEF ToSet
  <2>2. NewRow.intervals = <<>> /\ NewRow.state = "UNSPECIFIED"
    BY DEF NewRow
  <2> QED
    BY <1>1, <2>1, <2>2 DEF Sound
<1>3. \A W : Reached(0, W)
  BY DEF Reached
<1> QED
  BY <1>1, <1>2, <1>3 DEF JobSound

GoodWritten(l, k, wr) ==
    l \in {"rollback", "record", "recordPut"} =>
      \A v \in ToSet(k.good) : <<k.start[v], k.end>> \in wr[v]

\* A call that keeps its copies keeps them sound.
LEMMA SameIsSound ==
    ASSUME NEW j, NEW k, NEW m, NEW l, NEW wr, JobSound(m, j, wr), Same(j, k),
           GoodWritten(l, k, wr)
    PROVE  JobSound(l, k, wr)
BY DEF JobSound, Same, GoodWritten

\* So does one that replaces a copy by a sound one.
LEMMA ReplacedIsSound ==
    ASSUME NEW j \in JobType, NEW k, NEW m, NEW l, NEW wr, JobSound(m, j, wr),
           NEW v \in Views, NEW o, Replaced(j, k, v, o), k.prev = j.prev, Sound(o, wr[v]),
           GoodWritten(l, k, wr)
    PROVE  JobSound(l, k, wr)
<1>1. j.objs \in [Views -> Row]
  BY DEF JobType
<1>2. k.objs[v] = o /\ \A u \in Views \ {v} : k.objs[u] = j.objs[u]
  BY <1>1 DEF Replaced
<1>3. \A u \in Views : Sound(k.objs[u], wr[u])
  BY <1>2 DEF JobSound
<1> QED
  BY <1>3 DEF JobSound, Replaced, GoodWritten

\* What is on its way to the file stays sound.
LEMMA DiskGrows ==
    ASSUME DataInv, UNCHANGED <<file, msg>>, edit' \subseteq edit,
           \A v \in Views : Delivered[v] \subseteq Delivered'[v]
    PROVE  DiskSound(Delivered)'
<1>1. DiskSound(Delivered) /\ edit \subseteq [view : Views, row : Row]
  BY DEF DataInv, ControlInv, Typed, TypeOK
<1>2. ASSUME NEW r, AllSound(r, Delivered) PROVE AllSound(r, Delivered')
  BY <1>2, SoundGrows DEF AllSound
<1>3. ASSUME NEW e \in edit' PROVE Sound(e.row, Delivered'[e.view])
  <2>1. e.view \in Views /\ Sound(e.row, Delivered[e.view])
    BY <1>1 DEF DiskSound
  <2> QED
    BY <2>1, SoundGrows
<1>4. AllSound(file', Delivered') /\ \A t \in Threads : AllSound(msg'[t], Delivered')
  BY <1>1, <1>2 DEF DiskSound
<1> QED
  BY <1>3, <1>4 DEF DiskSound

\* DataInv after a move.
LEMMA MoveData ==
    ASSUME DataInv, ControlInv', NEW w \in Workers, NEW l, NEW k, Moves(w, l, k),
           UNCHANGED <<file, msg, edit>>,
           \A v \in Views : Delivered[v] \subseteq Delivered'[v],
           \A v \in Views : Sound(rows'[v], Delivered'[v]) /\ Gapless(Delivered'[v]),
           JobSound(l, k, Delivered')
    PROVE  DataInv'
<1>1. /\ pc'[w] = l /\ job'[w] = IF l \in Ended THEN NoJob ELSE k
      /\ \A u \in Workers \ {w} : pc'[u] = pc[u] /\ job'[u] = job[u]
  BY MoveEffect DEF DataInv
<1>2. ASSUME NEW u \in Workers PROVE JobSound(pc'[u], job'[u], Delivered')
  <2>1. CASE u = w /\ l \in Ended
    <3>1. JobSound(l, NoJob, Delivered')
      BY <2>1, NewIsSound, NoJobFacts DEF Ended
    <3> QED
      BY <1>1, <2>1, <3>1
  <2>2. CASE u = w /\ l \notin Ended
    BY <1>1, <2>2
  <2>3. CASE u # w
    <3>1. JobSound(pc[u], job[u], Delivered)
      BY DEF DataInv
    <3>2. JobSound(pc[u], job[u], Delivered')
      <4>1. ASSUME NEW v \in Views
            PROVE  /\ Sound(job[u].objs[v], Delivered'[v])
                   /\ StateBacked(job[u].prev[v], Delivered'[v])
                   /\ Starts \subseteq {0} => Reached(job[u].start[v], Delivered'[v])
        <5>1. /\ Sound(job[u].objs[v], Delivered[v]) /\ StateBacked(job[u].prev[v], Delivered[v])
              /\ Starts \subseteq {0} => Reached(job[u].start[v], Delivered[v])
          BY <3>1 DEF JobSound
        <5> QED
          BY <5>1, SoundGrows
      <4>2. ToSet(job[u].good) \subseteq Views
        <5>1. job[u].good \in Seq(Views)
          BY JobFacts DEF DataInv, JobType
        <5> QED
          BY <5>1, ListFacts
      <4> QED
        BY <3>1, <4>1, <4>2 DEF JobSound
    <3> QED
      BY <1>1, <2>3, <3>2
  <2> QED
    BY <2>1, <2>2, <2>3
<1>3. DiskSound(Delivered)' /\ AllSound(rows', Delivered')
  BY DiskGrows DEF AllSound
<1> QED
  BY <1>2, <1>3 DEF DataInv

\* DataInv after a move that writes no data.
LEMMA QuietData ==
    ASSUME DataInv, ControlInv', NEW w \in Workers, NEW l, NEW k, Moves(w, l, k),
           UNCHANGED <<file, msg, edit>>,
           UNCHANGED Delivered, \A v \in Views : Sound(rows'[v], Delivered[v]),
           JobSound(l, k, Delivered)
    PROVE  DataInv'
<1>1. \A v \in Views : Gapless(Delivered[v])
  BY DEF DataInv
<1>2. \A v \in Views : Sound(rows'[v], Delivered'[v]) /\ Gapless(Delivered'[v])
  BY <1>1
<1>3. JobSound(l, k, Delivered')
  BY DEF JobSound
<1> QED
  BY <1>2, <1>3, MoveData

\* The row that a write starts from is sound.
LEMMA BaseIsSound ==
    ASSUME DataInv, NEW base \in Bases
    PROVE  /\ base \in [Views -> Row]
           /\ \A v \in Views : base[v] \in Row /\ Sound(base[v], Delivered[v])
<1>1. base \in [Views -> Row]
  BY BaseIsRows DEF DataInv
<1>2. AllSound(rows, Delivered) /\ AllSound(Current, Delivered)
  BY DEF DataInv, DiskSound, Current
<1> QED
  BY <1>1, <1>2 DEF Bases, AllSound

LEMMA CurrentIsSound ==
    ASSUME DataInv
    PROVE  /\ Current \in [Views -> Row]
           /\ \A v \in Views : Current[v] \in Row /\ Sound(Current[v], Delivered[v])
  BY BaseIsSound DEF Bases

\* Rows after one of them has been applied.
LEMMA RowsSound ==
    ASSUME DataInv, NEW base \in Bases, NEW v \in Views, NEW o \in Row, Sound(o, Delivered[v]),
           rows' = [base EXCEPT ![v] = Applied(o, base[v])]
    PROVE  \A u \in Views : Sound(rows'[u], Delivered[u])
<1>1. base \in [Views -> Row] /\ base[v] \in Row /\ \A u \in Views : Sound(base[u], Delivered[u])
  BY BaseIsSound
<1>2. Sound(Applied(o, base[v]), Delivered[v])
  BY <1>1, AppliedIsSound
<1>3. rows'[v] = Applied(o, base[v]) /\ \A u \in Views \ {v} : rows'[u] = base[u]
  BY <1>1
<1> QED
  BY <1>1, <1>2, <1>3

\* What a call keeps of the view it has applied.
LEMMA CompletedIsSound ==
    ASSUME DataInv, NEW base \in Bases, NEW v \in Views, NEW o \in Row, Sound(o, Delivered[v])
    PROVE  Sound(Completed(o, base[v]), Delivered[v])
<1>1. base[v] \in Row /\ Sound(base[v], Delivered[v])
  BY BaseIsSound
<1> QED
  BY <1>1, AppliedIsSound

\* A read and a write change nothing else that DataInv is about.
LEMMA RegistryData ==
    ASSUME DataInv
    PROVE  /\ Read => /\ \A v \in Views : Sound(rows'[v], Delivered[v])
                      /\ UNCHANGED <<file, msg>>
           /\ \A t, base, v, row : Store(t, base, v, row) =>
                rows' = [base EXCEPT ![v] = row] /\ UNCHANGED <<file, msg>>
           /\ UNCHANGED registry => /\ \A v \in Views : Sound(rows'[v], Delivered[v])
                                    /\ UNCHANGED <<file, msg>>
           /\ UNCHANGED <<fixed, data>> => UNCHANGED Delivered
<1>1. \A v \in Views : Sound(rows[v], Delivered[v]) /\ Sound(Current[v], Delivered[v])
  BY CurrentIsSound DEF DataInv, AllSound
<1>2. UNCHANGED <<fixed, data>> => UNCHANGED Delivered
  BY DEF fixed, data, Delivered
<1> QED
  BY <1>1, <1>2 DEF Read, Store, registry

\* An incremental call starts where everything before has been delivered.
LEMMA StartIsReached ==
    ASSUME DataInv, NEW j, NEW v \in Views, j.from \in Starts \cup {Incremental}
    PROVE  Starts \subseteq {0} => Reached(StartDate(j, Current[v]), Delivered[v])
<1> SUFFICES ASSUME Starts \subseteq {0} PROVE Reached(StartDate(j, Current[v]), Delivered[v])
  OBVIOUS
<1>1. \A W : Reached(0, W)
  BY DEF Reached
<1>r. Current[v] \in Row /\ Sound(Current[v], Delivered[v])
  BY CurrentIsSound
<1>2. Current[v].intervals \in Seq(Interval)
  BY <1>r DEF Row
<1>3. Reached(MostRecentEnd(Current[v].intervals), Delivered[v])
  <2>1. CASE Current[v].intervals = <<>>
    BY <1>1, <1>2, <2>1, MostRecentFacts
  <2>2. CASE Current[v].intervals # <<>>
    <3>1. PICK i \in ToSet(Current[v].intervals) : MostRecentEnd(Current[v].intervals) = i[2]
      BY <1>2, <2>2, MostRecentFacts
    <3>2. i \in Delivered[v] /\ Gapless(Delivered[v])
      BY <1>r, <3>1 DEF DataInv, Sound
    <3> QED
      BY <3>1, <3>2 DEF Gapless
  <2> QED
    BY <2>1, <2>2
<1>4. CASE j.from = Incremental
  BY <1>3, <1>4 DEF StartDate
<1>5. CASE j.from # Incremental
  <2>1. j.from = 0
    BY <1>5
  <2> QED
    BY <1>1, <1>5, <2>1 DEF StartDate
<1> QED
  BY <1>4, <1>5

\* What a job has written leaves no gap if it started at the end of the data before it.
LEMMA GapCloses ==
    ASSUME NEW W \in SUBSET Interval, NEW s \in 0..MaxTime, NEW e \in 0..MaxTime,
           Starts \subseteq {0} => Reached(s, W), Gapless(W)
    PROVE  Gapless(W \cup {<<s, e>>})
<1> SUFFICES ASSUME Starts \subseteq {0}, NEW i \in W \cup {<<s, e>>},
                    NEW x \in 0..(i[2] - 1)
             PROVE  \E n \in W \cup {<<s, e>>} : n[1] <= x /\ x < n[2]
  BY DEF Gapless, Reached
<1>0. MaxTime \in Nat
  BY BoundsAssumption
<1>1. CASE i \in W
  BY <1>1 DEF Gapless, Reached
<1>2. CASE i = <<s, e>>
  <2>1. x \in 0..(e - 1) /\ x \in Nat
    BY <1>2
  <2>2. CASE x < s
    <3>1. x \in 0..(s - 1)
      BY <1>0, <2>1, <2>2
    <3> QED
      BY <3>1 DEF Reached
  <2>3. CASE ~(x < s)
    <3> DEFINE n == <<s, e>>
    <3>1. n[1] = s /\ n[2] = e /\ n \in W \cup {<<s, e>>}
      OBVIOUS
    <3>2. s <= x /\ x < e
      BY <1>0, <2>1, <2>3
    <3> HIDE DEF n
    <3> QED
      BY <3>1, <3>2
  <2> QED
    BY <2>2, <2>3
<1> QED
  BY <1>1, <1>2

\* The run of the engine preserves DataInv.
LEMMA EngineData ==
    ASSUME DataInv, ControlInv', NEW w \in Workers, RunEngine(w)
    PROVE  DataInv'
<1>c. ControlInv
  BY DEF DataInv
<1>j. PICK j \in JobType : j = job[w] /\ ControlAt(pc[w], j)
  BY <1>c, JobFacts
<1>s. JobSound(pc[w], j, Delivered) /\ Delivered \in [Views -> SUBSET Interval]
      /\ rows \in [Views -> Row] /\ \A v \in Views : Sound(rows[v], Delivered[v])
  <2>1. Delivered \in [Views -> SUBSET Interval]
    BY DEF DataInv, ControlInv, Typed, TypeOK, Delivered
  <2> QED
    BY <1>j, <2>1 DEF DataInv, ControlInv, Typed, TypeOK, AllSound
<1>e. PICK l, k, bad, raising, failed : EngineEffect(w, j, l, k, bad, raising, failed)
  BY <1>c, <1>j, EngineMoves
<1> DEFINE good == Among(j.current, Views \ bad)
<1>1. /\ Moves(w, l, k) /\ Same(j, k) /\ Settled(j, failed, good, raising, l, k)
      /\ ToSet(good) = ToSet(j.current) \ bad
      /\ Delivered' = [v \in Views |-> IF v \in ToSet(j.current) \ bad
                                     THEN Delivered[v] \cup {<<j.start[v], j.end>>}
                                     ELSE Delivered[v]]
  BY <1>e DEF EngineEffect
<1> HIDE DEF good
<1>2. UNCHANGED <<rows, file, msg, edit>>
  BY DEF RunEngine, registry
<1>3. \A v \in Views : Delivered[v] \subseteq Delivered'[v]
  BY <1>1
<1>4. ASSUME NEW v \in Views PROVE Sound(rows'[v], Delivered'[v]) /\ Gapless(Delivered'[v])
  <2>1. Sound(rows'[v], Delivered'[v])
    BY <1>s, <1>2, <1>3, SoundGrows
  <2>2. Gapless(Delivered[v]) /\ (Starts \subseteq {0} => Reached(j.start[v], Delivered[v]))
    BY <1>s DEF DataInv, JobSound
  <2>3. j.start[v] \in 0..MaxTime /\ j.end \in 0..MaxTime /\ Delivered[v] \in SUBSET Interval
    BY <1>s DEF JobType
  <2>4. Gapless(Delivered[v] \cup {<<j.start[v], j.end>>})
    BY <2>2, <2>3, GapCloses
  <2>5. Delivered'[v] = Delivered[v] \cup {<<j.start[v], j.end>>} \/ Delivered'[v] = Delivered[v]
    BY <1>1
  <2>6. Gapless(Delivered'[v])
    BY <2>2, <2>4, <2>5
  <2> QED
    BY <2>1, <2>6
<1>5. JobSound(pc[w], j, Delivered')
  <2>1. ASSUME NEW v \in Views
        PROVE  /\ Sound(j.objs[v], Delivered'[v]) /\ StateBacked(j.prev[v], Delivered'[v])
               /\ Starts \subseteq {0} => Reached(j.start[v], Delivered'[v])
    BY <1>s, <1>3, SoundGrows DEF JobSound
  <2>2. pc[w] = "transition"
    BY DEF RunEngine
  <2> QED
    BY <2>1, <2>2 DEF JobSound
<1>6. GoodWritten(l, k, Delivered')
  <2>1. ASSUME l \in {"rollback", "record", "recordPut"} PROVE k.good = good
    BY <1>1, <2>1 DEF Settled
  <2>2. ASSUME NEW v \in ToSet(good) PROVE <<j.start[v], j.end>> \in Delivered'[v]
    <3>1. j.current \in Seq(Views) /\ ToSet(j.current) \subseteq Views
      BY ListFacts DEF JobType
    <3> QED
      BY <1>1, <3>1
  <2> QED
    BY <1>1, <2>1, <2>2 DEF GoodWritten, Same, Called
<1>7. JobSound(l, k, Delivered')
  BY <1>1, <1>5, <1>6, SameIsSound
<1> QED
  BY <1>1, <1>2, <1>3, <1>4, <1>7, MoveData

\* The registry operations of the handlers preserve DataInv.
LEMMA HandlerData ==
    ASSUME DataInv, ControlInv', NEW w \in Workers,
           Start(w) \/ Check(w) \/ CollectStuck(w) \/ GetView(w) \/ PutView(w)
    PROVE  DataInv'
<1>c. ControlInv
  BY DEF DataInv
<1>j. PICK j \in JobType : j = job[w] /\ ControlAt(pc[w], j)
  BY <1>c, JobFacts
<1>s. /\ JobSound(pc[w], j, Delivered)
      /\ Current \in [Views -> Row] /\ \A v \in Views : Sound(Current[v], Delivered[v])
  BY <1>j, CurrentIsSound DEF DataInv
<1>v. pc[w] \in Listing => Head(j.todo) \in Views /\ Current[Head(j.todo)] \in Row
  BY <1>c, JobFacts, <1>j
<1>g. \A l, k : l \notin {"rollback", "record", "recordPut"} => GoodWritten(l, k, Delivered)
  BY DEF GoodWritten
<1>1. CASE Start(w)
  <2>1. PICK l, k : /\ Moves(w, l, k) /\ l \in {"fetch", "check", "stuck"}
                    /\ k.objs = [v \in Views |-> NewRow] /\ k.start = [v \in Views |-> 0]
                    /\ k.prev = [v \in Views |-> "UNSPECIFIED"]
    BY <1>c, <1>1, StartMoves
  <2>2. /\ UNCHANGED <<Delivered, file, msg, edit>>
        /\ \A u \in Views : Sound(rows'[u], Delivered[u])
    BY <1>1, RegistryData DEF Start
  <2>3. JobSound(l, k, Delivered)
    BY <2>1, NewIsSound
  <2> QED
    BY <1>s, <2>1, <2>2, <2>3, QuietData
<1>2. CASE Check(w)
  <2>1. PICK l, k : Moves(w, l, k) /\ Same(j, k) /\ l \in {"rejected", "check", "get"}
    BY <1>c, <1>2, <1>j, CheckMoves
  <2>2. /\ UNCHANGED <<Delivered, file, msg, edit>>
        /\ \A u \in Views : Sound(rows'[u], Delivered[u])
    BY <1>2, RegistryData DEF Check
  <2>3. JobSound(l, k, Delivered)
    BY <1>s, <1>g, <2>1, SameIsSound
  <2> QED
    BY <1>s, <2>1, <2>2, <2>3, QuietData
<1>3. CASE CollectStuck(w)
  <2>1. PICK l, k : Moves(w, l, k) /\ Same(j, k) /\ l \in {"stuck", "get", "failed"}
    BY <1>c, <1>3, <1>j, CollectMoves
  <2>2. /\ UNCHANGED <<Delivered, file, msg, edit>>
        /\ \A u \in Views : Sound(rows'[u], Delivered[u])
    BY <1>3, RegistryData DEF CollectStuck
  <2>3. JobSound(l, k, Delivered)
    BY <1>s, <1>g, <2>1, SameIsSound
  <2> QED
    BY <1>s, <2>1, <2>2, <2>3, QuietData
<1>4. CASE GetView(w)
  <2>1. PICK k : /\ Moves(w, "put", k) /\ Replaced(j, k, Head(j.todo), Current[Head(j.todo)])
                 /\ k.prev = j.prev
    BY <1>c, <1>4, <1>j, GetMoves
  <2>2. /\ UNCHANGED <<Delivered, file, msg, edit>>
        /\ \A u \in Views : Sound(rows'[u], Delivered[u])
        /\ Head(j.todo) \in Views
    BY <1>4, <1>v, RegistryData DEF GetView, Listing
  <2>3. JobSound("put", k, Delivered)
    <3>1. Sound(Current[Head(j.todo)], Delivered[Head(j.todo)]) /\ GoodWritten("put", k, Delivered)
      BY <1>s, <1>g, <2>2
    <3> QED
      BY <1>s, <2>1, <2>2, <3>1, ReplacedIsSound
  <2> QED
    BY <1>s, <2>1, <2>2, <2>3, QuietData
<1>5. CASE PutView(w)
  <2> DEFINE v == Head(j.todo)
  <2>1. PICK l, k, o, base :
          /\ base \in Bases
          /\ Moves(w, l, k) /\ k.prev = j.prev /\ o \in Row
          /\ o = [j.objs[v] EXCEPT !.state = Target(j)]
          /\ Replaced(j, k, v, Completed(o, base[v]))
          /\ Store(w, base, v, Applied(o, base[v]))
          /\ l \in {"get", "fetch", "failed"}
    BY <1>c, <1>5, <1>j, PutMoves
  <2>2. /\ UNCHANGED <<Delivered, file, msg, edit>> /\ v \in Views
        /\ rows' = [base EXCEPT ![v] = Applied(o, base[v])]
    BY <1>5, <1>v, <2>1, RegistryData DEF PutView, Listing
  <2> HIDE DEF v
  <2>3. Sound(o, Delivered[v])
    <3>1. j.objs[v] \in Row /\ Sound(j.objs[v], Delivered[v])
      BY <1>s, <2>2 DEF JobSound, JobType
    <3>2. o.intervals = j.objs[v].intervals /\ o.state = Target(j)
      BY <2>1, <3>1 DEF Row
    <3>3. o.state # "AVAILABLE_ONLINE"
      BY <3>2 DEF Target
    <3> QED
      BY <3>1, <3>2, <3>3 DEF Sound, StateBacked
  <2>4. /\ \A u \in Views : Sound(rows'[u], Delivered[u])
        /\ Sound(Completed(o, base[v]), Delivered[v])
    BY <2>1, <2>2, <2>3, RowsSound, CompletedIsSound
  <2>5. JobSound(l, k, Delivered)
    <3>1. GoodWritten(l, k, Delivered)
      BY <1>g, <2>1
    <3> QED
      BY <1>s, <2>1, <2>2, <2>4, <3>1, ReplacedIsSound
  <2> QED
    BY <2>1, <2>2, <2>4, <2>5, QuietData
<1> QED
  BY <1>1, <1>2, <1>3, <1>4, <1>5

\* The steps of materialize other than the run of the engine preserve DataInv.
LEMMA StoreData ==
    ASSUME DataInv, ControlInv', NEW w \in Workers,
           Fetch(w) \/ Transition(w) \/ Rollback(w) \/ Record(w) \/ RecordPut(w)
    PROVE  DataInv'
<1>c. ControlInv
  BY DEF DataInv
<1>j. PICK j \in JobType : j = job[w] /\ ControlAt(pc[w], j)
  BY <1>c, JobFacts
<1>s. /\ JobSound(pc[w], j, Delivered)
      /\ Current \in [Views -> Row] /\ \A v \in Views : Sound(Current[v], Delivered[v])
  BY <1>j, CurrentIsSound DEF DataInv
<1>t. /\ j.objs \in [Views -> Row] /\ j.prev \in [Views -> States \ {"MATERIALIZING"}]
      /\ j.start \in [Views -> 0..MaxTime] /\ j.todo \in Seq(Views)
  BY DEF JobType
<1> DEFINE v == Head(j.todo)
<1>v. pc[w] \in Listing => v \in Views /\ Current[v] \in Row /\ j.todo # <<>>
  BY <1>c, JobFacts, <1>j
<1>g. \A l, k : l \notin {"rollback", "record", "recordPut"} => GoodWritten(l, k, Delivered)
  BY DEF GoodWritten
<1>1. CASE Fetch(w)
  <2>1. PICK l, k :
          /\ Moves(w, l, k) /\ Called(j, k) /\ k.prev = j.prev
          /\ \/ l = AfterRaise(j) /\ Same(j, k)
             \/ /\ k.objs = [j.objs EXCEPT ![v] = Current[v]]
                /\ k.start = [j.start EXCEPT ![v] = StartDate(j, Current[v])]
                /\ l \in {"fetch", "transition"}
    BY <1>c, <1>1, <1>j, FetchMoves
  <2>2. /\ UNCHANGED <<Delivered, file, msg, edit>>
        /\ \A u \in Views : Sound(rows'[u], Delivered[u])
        /\ v \in Views
    BY <1>1, <1>v, RegistryData DEF Fetch, Listing
  <2>3. l \notin {"rollback", "record", "recordPut"}
    BY <2>1 DEF AfterRaise
  <2> HIDE DEF v
  <2>4. JobSound(l, k, Delivered)
    <3>1. CASE Same(j, k)
      BY <1>s, <1>g, <2>3, <3>1, SameIsSound
    <3>2. CASE /\ k.objs = [j.objs EXCEPT ![v] = Current[v]]
               /\ k.start = [j.start EXCEPT ![v] = StartDate(j, Current[v])]
      <4>1. Starts \subseteq {0} => Reached(StartDate(j, Current[v]), Delivered[v])
        <5>1. j.from \in Starts \cup {Incremental}
          BY <1>1, <1>j DEF Fetch, ControlAt, Ended
        <5> QED
          BY <2>2, <5>1, StartIsReached
      <4>2. /\ k.objs[v] = Current[v] /\ k.start[v] = StartDate(j, Current[v])
            /\ \A u \in Views \ {v} : k.objs[u] = j.objs[u] /\ k.start[u] = j.start[u]
        BY <1>t, <2>2, <3>2
      <4> QED
        BY <1>s, <2>1, <2>3, <4>1, <4>2 DEF JobSound
    <3> QED
      BY <2>1, <3>1, <3>2
  <2> QED
    BY <1>s, <2>1, <2>2, <2>4, QuietData
<1>2. CASE Transition(w)
  <2>1. PICK l, k, p, o, base : base \in Bases /\ TransitionEffect(w, j, l, k, p, o, base)
    BY <1>c, <1>2, <1>j, TransitionMoves
  <2>2. /\ UNCHANGED <<Delivered, edit>> /\ v \in Views
    BY <1>2, <1>j, <1>t, ListFacts, RegistryData DEF Transition
  <2>f. UNCHANGED <<file, msg>>
    BY <2>1, RegistryData DEF TransitionEffect
  <2>3. /\ Moves(w, l, k) /\ Called(j, k) /\ k.start = j.start
        /\ k.prev = [j.prev EXCEPT ![v] = p]
        /\ p = "AVAILABLE_ONLINE" => j.objs[v].state = "AVAILABLE_ONLINE"
        /\ o \in Row /\ o = [j.objs[v] EXCEPT !.state = "MATERIALIZING"]
        /\ \/ (\A u \in Views : Sound(rows'[u], Delivered[u])) /\ k.objs = j.objs
           \/ /\ rows' = [base EXCEPT ![v] = Applied(o, base[v])]
              /\ k.objs = [j.objs EXCEPT ![v] = Completed(o, base[v])]
        /\ l \in {"transition", "rollback", "failed", "stuck"}
        /\ l = "rollback" => k.good = <<>>
    BY <2>1, RegistryData DEF TransitionEffect, Returned
  <2> HIDE DEF v
  <2>4. Sound(o, Delivered[v])
    <3>1. j.objs[v] \in Row /\ Sound(j.objs[v], Delivered[v])
      BY <1>s, <1>t, <2>2 DEF JobSound
    <3>2. o.intervals = j.objs[v].intervals /\ o.state = "MATERIALIZING"
      BY <2>3, <3>1 DEF Row
    <3> QED
      BY <3>1, <3>2 DEF Sound, StateBacked
  <2>5. /\ \A u \in Views : Sound(rows'[u], Delivered[u])
        /\ \A u \in Views : Sound(k.objs[u], Delivered[u])
    <3>1. CASE (\A u \in Views : Sound(rows'[u], Delivered[u])) /\ k.objs = j.objs
      BY <1>s, <3>1 DEF JobSound
    <3>2. CASE /\ rows' = [base EXCEPT ![v] = Applied(o, base[v])]
               /\ k.objs = [j.objs EXCEPT ![v] = Completed(o, base[v])]
      <4>1. /\ \A u \in Views : Sound(rows'[u], Delivered[u])
            /\ Sound(Completed(o, base[v]), Delivered[v])
        BY <2>1, <2>2, <2>3, <2>4, <3>2, RowsSound, CompletedIsSound
      <4>2. k.objs[v] = Completed(o, base[v]) /\ \A u \in Views \ {v} : k.objs[u] = j.objs[u]
        BY <1>t, <2>2, <3>2
      <4> QED
        BY <1>s, <4>1, <4>2 DEF JobSound
    <3> QED
      BY <2>3, <3>1, <3>2
  <2>6. \A u \in Views : StateBacked(k.prev[u], Delivered[u])
    <3>1. k.prev[v] = p /\ \A u \in Views \ {v} : k.prev[u] = j.prev[u]
      BY <1>t, <2>2, <2>3
    <3>2. Sound(j.objs[v], Delivered[v])
      BY <1>s, <2>2 DEF JobSound
    <3>3. StateBacked(p, Delivered[v])
      BY <2>3, <3>2 DEF Sound, StateBacked
    <3> QED
      BY <1>s, <3>1, <3>3 DEF JobSound
  <2>7. JobSound(l, k, Delivered)
    <3>1. ToSet(<<>>) = {}
      BY DEF ToSet
    <3>2. l \in {"rollback", "record", "recordPut"} => ToSet(k.good) = {}
      BY <2>3, <3>1
    <3> QED
      BY <1>s, <2>3, <2>5, <2>6, <3>2 DEF JobSound
  <2> QED
    BY <2>2, <2>f, <2>3, <2>5, <2>7, QuietData
<1>3. CASE Rollback(w)
  <2>1. PICK l, k, o, base :
          /\ base \in Bases
          /\ Moves(w, l, k) /\ k.prev = j.prev /\ o \in Row
          /\ o.intervals = j.objs[v].intervals /\ o.state = j.prev[v]
          /\ Replaced(j, k, v, Completed(o, base[v]))
          /\ UNCHANGED registry \/ Store(w, base, v, Applied(o, base[v]))
          /\ l \in {"rollback", "record"} => k.good = j.good
          /\ l # "recordPut"
    BY <1>c, <1>3, <1>j, RollbackMoves
  <2>2. /\ UNCHANGED <<Delivered, file, msg, edit>> /\ v \in Views /\ pc[w] = "rollback"
        /\ \/ \A u \in Views : Sound(rows'[u], Delivered[u])
           \/ rows' = [base EXCEPT ![v] = Applied(o, base[v])]
    BY <1>3, <1>v, <2>1, RegistryData DEF Rollback, Listing
  <2> HIDE DEF v
  <2>3. Sound(o, Delivered[v])
    BY <1>s, <2>1, <2>2 DEF Sound, JobSound
  <2>4. \A u \in Views : Sound(rows'[u], Delivered[u])
    BY <1>s, <2>1, <2>2, <2>3, RowsSound
  <2>5. Sound(Completed(o, base[v]), Delivered[v])
    BY <2>1, <2>2, <2>3, CompletedIsSound
  <2>6. GoodWritten(l, k, Delivered)
    <3>1. \A u \in ToSet(j.good) : <<j.start[u], j.end>> \in Delivered[u]
      BY <1>s, <2>2 DEF JobSound
    <3> QED
      BY <2>1, <3>1 DEF GoodWritten, Replaced, Called
  <2>7. JobSound(l, k, Delivered)
    BY <1>s, <2>1, <2>2, <2>5, <2>6, ReplacedIsSound
  <2> QED
    BY <2>1, <2>2, <2>4, <2>7, QuietData
<1>4. CASE Record(w)
  <2>1. PICK k : /\ Moves(w, "recordPut", k) /\ Replaced(j, k, v, rows[v])
                 /\ k.prev = j.prev /\ k.good = j.good
    BY <1>c, <1>4, <1>j, RecordMoves
  <2>2. /\ UNCHANGED <<Delivered, file, msg, edit>>
        /\ \A u \in Views : Sound(rows'[u], Delivered[u])
        /\ v \in Views /\ pc[w] = "record" /\ UNCHANGED rows
    BY <1>4, <1>v, RegistryData DEF Record, Listing, registry
  <2>3. GoodWritten("recordPut", k, Delivered)
    <3>1. \A u \in ToSet(j.good) : <<j.start[u], j.end>> \in Delivered[u]
      BY <1>s, <2>2 DEF JobSound
    <3> QED
      BY <2>1, <3>1 DEF GoodWritten, Replaced, Called
  <2>4. JobSound("recordPut", k, Delivered)
    <3>1. Sound(rows[v], Delivered[v])
      BY <1>s, <2>2
    <3> HIDE DEF v
    <3> QED
      BY <1>s, <2>1, <2>2, <2>3, <3>1, ReplacedIsSound
  <2> QED
    BY <1>s, <2>1, <2>2, <2>4, QuietData
<1>5. CASE RecordPut(w)
  <2>1. PICK l, k, o, seen, base :
          /\ seen \in Bases /\ base \in Bases
          /\ Moves(w, l, k) /\ Same(j, k) /\ o \in Row
          /\ o = Recorded(IF backend = "sql" THEN j.objs[v] ELSE seen[v], j, v)
          /\ Store(w, base, v, IF backend = "sql" THEN Applied(o, base[v]) ELSE o)
          /\ Settled(j, <<>>, Tail(j.todo), j.failing, l, k)
    BY <1>c, <1>5, <1>j, RecordPutMoves
  <2> DEFINE row == IF backend = "sql" THEN j.objs[v] ELSE seen[v]
  <2>2. /\ UNCHANGED <<Delivered, file, msg, edit>>
        /\ rows' = [base EXCEPT ![v] = IF backend = "sql" THEN Applied(o, base[v]) ELSE o]
        /\ v \in Views /\ pc[w] \in {"record", "recordPut"}
        /\ j.todo # <<>> /\ j.good = j.todo
    BY <1>5, <1>j, <1>v, <2>1, RegistryData DEF RecordPut, Listing, ControlAt
  <2>3. ToSet(j.todo) = {v} \cup ToSet(Tail(j.todo))
    <3>1. ASSUME NEW s \in Seq(Views), s # <<>>
          PROVE  ToSet(s) = {Head(s)} \cup ToSet(Tail(s))
      BY <3>1, ListFacts
    <3> QED
      BY <1>t, <2>2, <3>1
  <2>4. \A u \in ToSet(j.todo) : <<j.start[u], j.end>> \in Delivered[u]
    BY <1>s, <2>2 DEF JobSound
  <2>5. row \in Row /\ Sound(row, Delivered[v]) /\ o = Recorded(row, j, v)
    BY <1>s, <1>t, <2>1, <2>2, BaseIsSound DEF JobSound
  <2> HIDE DEF v, row
  <2>6. Sound(o, Delivered[v])
    <3>1. o.state = "AVAILABLE_ONLINE" /\ o.intervals = Append(row.intervals, <<j.start[v], j.end>>)
      BY <2>5 DEF Recorded
    <3>2. <<j.start[v], j.end>> \in Delivered[v]
      BY <2>3, <2>4
    <3>3. row.intervals \in Seq(Interval) /\ ToSet(row.intervals) \subseteq Delivered[v]
      BY <2>5 DEF Row, Sound
    <3> DEFINE e == <<j.start[v], j.end>>
               s == row.intervals
    <3>4. e \in Interval
      BY <1>t, <2>2 DEF Interval, JobType
    <3>e. e \in Delivered[v] /\ s \in Seq(Interval) /\ ToSet(s) \subseteq Delivered[v]
          /\ o.intervals = Append(s, e)
      BY <3>1, <3>2, <3>3
    <3> HIDE DEF e, s
    <3>5. ToSet(Append(s, e)) \subseteq ToSet(s) \cup {e}
      BY <3>4, <3>e DEF ToSet
    <3> QED
      BY <3>1, <3>5, <3>e DEF Sound, StateBacked
  <2>7. \A u \in Views : Sound(rows'[u], Delivered[u])
    <3>1. CASE backend = "sql"
      BY <2>1, <2>2, <2>6, <3>1, RowsSound
    <3>2. CASE backend # "sql"
      <4>0. base \in [Views -> Row] /\ \A u \in Views : Sound(base[u], Delivered[u])
        BY <2>1, BaseIsSound
      <4>1. rows'[v] = o /\ \A u \in Views \ {v} : rows'[u] = base[u]
        BY <2>2, <3>2, <4>0
      <4> QED
        BY <2>6, <4>0, <4>1
    <3> QED
      BY <3>1, <3>2
  <2>8. GoodWritten(l, k, Delivered)
    <3>1. ASSUME l \in {"rollback", "record", "recordPut"} PROVE k.good = Tail(j.todo)
      BY <2>1, <3>1 DEF Settled
    <3> QED
      BY <2>1, <2>3, <2>4, <3>1 DEF GoodWritten, Same, Called
  <2>9. JobSound(l, k, Delivered)
    BY <1>s, <2>1, <2>8, SameIsSound
  <2> QED
    BY <2>1, <2>2, <2>7, <2>9, QuietData
<1> QED
  BY <1>1, <1>2, <1>3, <1>4, <1>5

\* Only the engine accepts jobs, and when it waits it writes what it accepts.
LEMMA NextAgree ==
    ASSUME Agree, [Next]_vars
    PROVE  Agree'
<1>q. ASSUME UNCHANGED <<fixed, data>> PROVE Agree'
  BY <1>q DEF Agree, fixed, data
<1>1. ASSUME NEW w \in Workers, Start(w) \/ Call(w) PROVE Agree'
  <2>1. CASE RunEngine(w)
    <3> DEFINE j == job[w]
    <3>1. PICK bad \in SUBSET ToSet(j.current), late \in SUBSET ToSet(j.current) :
            /\ waits => late = {}
            /\ accepted' = With(accepted, ToSet(j.current) \ bad, j)
            /\ written' = With(written, ToSet(j.current) \ (bad \cup late), j)
      BY <2>1 DEF RunEngine
    <3>2. UNCHANGED waits
      BY <2>1 DEF RunEngine, fixed
    <3>3. ASSUME waits PROVE accepted' = written'
      <4>1. late = {} /\ accepted = written /\ bad \cup late = bad
        BY <3>1, <3>3 DEF Agree
      <4> QED
        BY <3>1, <4>1
    <3> QED
      BY <3>2, <3>3 DEF Agree
  <2>2. CASE ~RunEngine(w)
    <3>1. UNCHANGED <<fixed, data>>
      BY <1>1, <2>2 DEF Call, Start, Check, CollectStuck, GetView, PutView, Fetch, Transition,
                        Rollback, Record, RecordPut
    <3> QED
      BY <1>q, <3>1
  <2> QED
    BY <2>1, <2>2
<1>2. ASSUME Aside PROVE Agree'
  <2>1. ASSUME NEW v \in Views, NEW i \in accepted[v], JobEnds(v, i) PROVE Agree'
    BY <2>1 DEF JobEnds, Agree, fixed
  <2>2. ASSUME NEW t \in Threads, OpenFile(t) \/ WriteFile(t) PROVE Agree'
    BY <1>q, <2>2 DEF OpenFile, WriteFile
  <2>3. ASSUME NEW v \in Views, NEW x \in States, SetFeatureViewState(v, x) PROVE Agree'
    BY <1>q, <2>3 DEF SetFeatureViewState
  <2>4. ASSUME ApplyState \/ ThreadReads PROVE Agree'
    BY <1>q, <2>4 DEF ApplyState, ThreadReads
  <2> QED
    BY <1>2, <2>1, <2>2, <2>3, <2>4 DEF Aside
<1>3. ASSUME NEW dying \in SUBSET Workers, Crash(dying) PROVE Agree'
  BY <1>q, <1>3 DEF Crash
<1>4. ASSUME UNCHANGED vars PROVE Agree'
  BY <1>q, <1>4 DEF vars
<1> QED
  BY <1>1, <1>2, <1>3, <1>4, NextCases

\* Commits, readers, users and jobs that end late preserve DataInv too.
LEMMA AsideData ==
    ASSUME DataInv, Agree, Aside
    PROVE  DataInv'
<1>c. ControlInv /\ ControlInv' /\ UNCHANGED <<fixed, pc, job, accepted>>
  BY AsideControl DEF DataInv
<1>0. /\ DiskSound(Delivered) /\ AllSound(rows, Delivered) /\ User \in Threads
      /\ msg \in [Threads -> [Views -> Row]] /\ edit \subseteq [view : Views, row : Row]
  BY DEF DataInv, ControlInv, Typed, TypeOK, Threads
<1>1. ASSUME \A v \in Views : Delivered[v] \subseteq Delivered'[v] /\ Gapless(Delivered'[v]),
             AllSound(rows', Delivered'), DiskSound(Delivered)'
      PROVE  DataInv'
  <2>1. ASSUME NEW u \in Workers PROVE JobSound(pc'[u], job'[u], Delivered')
    <3>1. JobSound(pc[u], job[u], Delivered) /\ ToSet(job[u].good) \subseteq Views
      <4>1. job[u].good \in Seq(Views)
        BY <1>c, JobFacts DEF JobType
      <4> QED
        BY <4>1, ListFacts DEF DataInv
    <3>2. ASSUME NEW v \in Views
          PROVE  /\ Sound(job[u].objs[v], Delivered'[v])
                 /\ StateBacked(job[u].prev[v], Delivered'[v])
                 /\ Starts \subseteq {0} => Reached(job[u].start[v], Delivered'[v])
      <4>1. /\ Sound(job[u].objs[v], Delivered[v]) /\ StateBacked(job[u].prev[v], Delivered[v])
            /\ Starts \subseteq {0} => Reached(job[u].start[v], Delivered[v])
        BY <3>1 DEF JobSound
      <4> QED
        BY <1>1, <4>1, SoundGrows
    <3>3. JobSound(pc[u], job[u], Delivered')
      BY <1>1, <3>1, <3>2 DEF JobSound
    <3> QED
      BY <1>c, <3>3
  <2> QED
    BY <1>c, <1>1, <2>1 DEF DataInv
<1>2. ASSUME UNCHANGED Delivered, AllSound(rows', Delivered), DiskSound(Delivered)' PROVE DataInv'
  <2>1. \A v \in Views : Delivered[v] \subseteq Delivered'[v] /\ Gapless(Delivered'[v])
    BY <1>2 DEF DataInv
  <2> QED
    BY <1>1, <1>2, <2>1
<1>n. AllSound(NewRows, Delivered)
  <2>1. NewRow.intervals = <<>> /\ NewRow.state = "UNSPECIFIED" /\ ToSet(<<>>) = {}
    BY DEF NewRow, ToSet
  <2> QED
    BY <2>1 DEF AllSound, NewRows, Sound, StateBacked
<1>4. CASE \E t \in Threads : OpenFile(t)
  <2>1. PICK t \in Threads : OpenFile(t)
    BY <1>4
  <2>2. UNCHANGED <<Delivered, rows, file, edit>> /\ msg' = [msg EXCEPT ![t] = rows]
    BY <2>1, RegistryData DEF OpenFile
  <2>3. DiskSound(Delivered)'
    BY <1>0, <2>2 DEF DiskSound
  <2> QED
    BY <1>0, <1>2, <2>2, <2>3
<1>5. CASE \E t \in Threads : WriteFile(t)
  <2>1. PICK t \in Threads : WriteFile(t)
    BY <1>5
  <2>2. UNCHANGED <<Delivered, rows, edit>> /\ file' = msg[t] /\ msg' = [msg EXCEPT ![t] = NewRows]
    BY <2>1, RegistryData DEF WriteFile
  <2>3. DiskSound(Delivered)'
    BY <1>0, <1>n, <2>2 DEF DiskSound
  <2> QED
    BY <1>0, <1>2, <2>2, <2>3
<1>6. CASE \E v \in Views, s \in States : SetFeatureViewState(v, s)
  <2>1. PICK v \in Views, s \in States : SetFeatureViewState(v, s)
    BY <1>6
  <2> DEFINE o == [Current[v] EXCEPT !.state = s]
  <2>2. /\ UNCHANGED <<Delivered, file, msg>> /\ AllSound(rows', Delivered)
        /\ s \in UserStates /\ edit' = {[view |-> v, row |-> o]}
    BY <2>1, RegistryData DEF SetFeatureViewState, AllSound
  <2>3. Sound(o, Delivered[v])
    <3>1. Current[v] \in Row /\ Sound(Current[v], Delivered[v])
      BY CurrentIsSound
    <3>2. o.intervals = Current[v].intervals /\ o.state = s
      BY <3>1 DEF Row
    <3> QED
      BY <2>2, <3>1, <3>2 DEF Sound, StateBacked
  <2> HIDE DEF o
  <2>4. DiskSound(Delivered)'
    BY <1>0, <2>2, <2>3 DEF DiskSound
  <2> QED
    BY <1>2, <2>2, <2>4
<1>7. CASE ApplyState
  <2>1. PICK e \in edit, base \in Bases : Store(User, base, e.view, Applied(e.row, base[e.view]))
    BY <1>7 DEF ApplyState
  <2>2. e.view \in Views /\ e.row \in Row /\ Sound(e.row, Delivered[e.view])
    BY <1>0 DEF DiskSound
  <2>3. /\ UNCHANGED <<Delivered, file, msg>> /\ edit' = {}
        /\ rows' = [base EXCEPT ![e.view] = Applied(e.row, base[e.view])]
    BY <1>7, <2>1, RegistryData DEF ApplyState
  <2>4. AllSound(rows', Delivered)
    BY <2>2, <2>3, RowsSound DEF AllSound
  <2>5. DiskSound(Delivered)'
    BY <1>0, <2>3 DEF DiskSound
  <2> QED
    BY <1>2, <2>3, <2>4, <2>5
<1>8. CASE ThreadReads
  <2>1. UNCHANGED <<Delivered, file, msg, edit>> /\ AllSound(rows', Delivered)
    BY <1>8, RegistryData DEF ThreadReads, AllSound
  <2>2. DiskSound(Delivered)'
    BY <1>0, <2>1 DEF DiskSound
  <2> QED
    BY <1>2, <2>1, <2>2
<1>9. CASE \E v \in Views : \E i \in accepted[v] : JobEnds(v, i)
  <2>1. PICK v \in Views : \E i \in accepted[v] : JobEnds(v, i)
    BY <1>9
  <2>2. PICK i \in accepted[v] : JobEnds(v, i)
    BY <2>1
  <2>3. /\ i \in accepted[v] \ written[v] /\ written' = [written EXCEPT ![v] = @ \cup {i}]
        /\ UNCHANGED <<waits, accepted, rows, file, msg, edit>>
    BY <2>2 DEF JobEnds, fixed, registry
  <2>4. ~waits
    BY <2>3 DEF Agree
  <2>5. UNCHANGED Delivered
    BY <2>3, <2>4 DEF Delivered
  <2>6. DiskSound(Delivered)'
    BY <1>0, <2>3, <2>5 DEF DiskSound
  <2> QED
    BY <1>0, <1>2, <2>3, <2>5, <2>6
<1> QED
  BY <1>4, <1>5, <1>6, <1>7, <1>8, <1>9 DEF Aside

\* Every step preserves DataInv.
LEMMA NextData ==
    ASSUME DataInv, Agree, [Next]_vars
    PROVE  DataInv'
<1>c. ControlInv /\ ControlInv'
  BY NextControl DEF DataInv
<1>1. ASSUME NEW w \in Workers, Start(w) \/ Call(w) PROVE DataInv'
  BY <1>c, <1>1, HandlerData, EngineData, StoreData DEF Call
<1>2. ASSUME Aside PROVE DataInv'
  BY <1>2, AsideData
<1>3. ASSUME NEW dying \in SUBSET Workers, Crash(dying) PROVE DataInv'
  <2>1. /\ \A u \in Workers : \/ pc'[u] \in Ended /\ job'[u] = NoJob
                              \/ pc'[u] = pc[u] /\ job'[u] = job[u]
        /\ rows' = Current /\ UNCHANGED <<fixed, file, accepted, written>> /\ edit' \subseteq edit
        /\ msg' = [t \in Threads |-> NewRows]
    BY <1>c, <1>3, CrashEffect
  <2>d. UNCHANGED Delivered
    BY <2>1 DEF Delivered, fixed
  <2>2. ASSUME NEW u \in Workers PROVE JobSound(pc'[u], job'[u], Delivered')
    <3>1. CASE pc'[u] \in Ended /\ job'[u] = NoJob
      <4>1. ASSUME NEW l \in Ended PROVE JobSound(l, NoJob, Delivered)
        BY NewIsSound, NoJobFacts DEF Ended
      <4> QED
        BY <2>d, <3>1, <4>1
    <3>2. CASE pc'[u] = pc[u] /\ job'[u] = job[u]
      BY <2>d, <3>2 DEF DataInv
    <3> QED
      BY <2>1, <3>1, <3>2
  <2>3. AllSound(rows', Delivered')
    BY <2>1, <2>d, CurrentIsSound DEF AllSound
  <2>n. AllSound(NewRows, Delivered)
    <3>1. NewRow.intervals = <<>> /\ NewRow.state = "UNSPECIFIED" /\ ToSet(<<>>) = {}
      BY DEF NewRow, ToSet
    <3> QED
      BY <3>1 DEF AllSound, NewRows, Sound, StateBacked
  <2>4. DiskSound(Delivered)'
    BY <2>1, <2>d, <2>n DEF DataInv, DiskSound
  <2>5. \A v \in Views : Gapless(Delivered'[v])
    BY <2>d DEF DataInv
  <2> QED
    BY <1>c, <2>2, <2>3, <2>4, <2>5 DEF DataInv
<1>4. ASSUME UNCHANGED vars PROVE DataInv'
  <2>1. UNCHANGED <<rows, file, msg, edit, pc, job>> /\ UNCHANGED Delivered
    BY <1>4 DEF vars, fixed, registry, data, Delivered
  <2>2. DiskSound(Delivered)'
    BY <2>1 DEF DataInv, DiskSound
  <2> QED
    BY <1>c, <2>1, <2>2 DEF DataInv
<1> QED
  BY <1>1, <1>2, <1>3, <1>4, NextCases

\* The initial states satisfy DataInv.
LEMMA InitData == Init => DataInv
<1> SUFFICES ASSUME Init PROVE DataInv
  OBVIOUS
<1>1. ControlInv
  BY InitControl
<1>2. /\ \A v \in Views : Gapless(Delivered[v])
      /\ AllSound(rows, Delivered) /\ DiskSound(Delivered)
  <2>1. /\ rows = NewRows /\ file = NewRows /\ msg = [t \in Threads |-> NewRows] /\ edit = {}
        /\ \A v \in Views : Delivered[v] = {} /\ accepted[v] = written[v]
    BY DEF Init, Delivered
  <2>2. NewRow.intervals = <<>> /\ NewRow.state = "UNSPECIFIED" /\ ToSet(<<>>) = {}
    BY DEF NewRow, ToSet
  <2>3. AllSound(NewRows, Delivered)
    BY <2>1, <2>2 DEF AllSound, NewRows, Sound, StateBacked
  <2>4. DiskSound(Delivered)
    BY <2>1, <2>3 DEF DiskSound
  <2> QED
    BY <2>1, <2>3, <2>4 DEF Gapless
<1>3. ASSUME NEW u \in Workers PROVE JobSound(pc[u], job[u], Delivered)
  <2>1. pc[u] = "idle" /\ job[u] = NoJob
    BY DEF Init
  <2>2. JobSound("idle", NoJob, Delivered)
    BY NewIsSound, NoJobFacts
  <2> QED
    BY <2>1, <2>2
<1> QED
  BY <1>1, <1>2, <1>3 DEF DataInv

\* DataInv holds in every reachable state.
LEMMA DataInvariant == Spec => []DataInv
<1>1. Init => Agree
  BY DEF Init, Agree
<1>2. DataInv /\ Agree /\ [Next]_vars => DataInv' /\ Agree'
  BY NextData, NextAgree
<1> QED
  BY <1>1, <1>2, InitData, PTL DEF Spec

\* The registry holds an interval only if the engine wrote its data, or accepted the job
\* if it is one that does not wait, whichever calls overlap, fail, roll back or crash, and
\* whatever the threads of a process do to its copy of the file.
THEOREM IntervalsAreWritten == Spec => []RecordedIsWritten
<1>1. DataInv => RecordedIsWritten
  BY DEF DataInv, DiskSound, AllSound, RecordedIsWritten, Sound
<1> QED
  BY <1>1, DataInvariant, PTL

\* A view is AVAILABLE_ONLINE only after data of it was written (or, with an engine that
\* does not wait, a job for it accepted), unless users set that state by hand, which
\* set_feature_view_state allows them to.
THEOREM AvailableIsBacked ==
    ASSUME "AVAILABLE_ONLINE" \notin UserStates
    PROVE  Spec => []AvailableHasData
<1>1. DataInv => AvailableHasData
  BY CurrentIsSound DEF AvailableHasData, Sound, StateBacked
<1> QED
  BY <1>1, DataInvariant, PTL

\* All data before the watermark of materialize_incremental has been written (or, with an
\* engine that does not wait, is in the hands of jobs that were accepted), when explicit
\* start dates reach back to the beginning of the data: a later one leaves a gap that the
\* caller asked for.
THEOREM NothingIsSkipped ==
    ASSUME Starts \subseteq {0}
    PROVE  Spec => []WatermarkCovered
<1>1. ASSUME DataInv PROVE WatermarkCovered
  <2> SUFFICES ASSUME NEW v \in Views
               PROVE  Reached(MostRecentEnd(Current[v].intervals), Delivered[v])
    BY DEF WatermarkCovered, Reached
  <2>1. PICK j : j = [from |-> Incremental]
    OBVIOUS
  <2>2. j.from = Incremental
    BY <2>1
  <2>3. Reached(StartDate(j, Current[v]), Delivered[v])
    BY <1>1, <2>2, StartIsReached
  <2> QED
    BY <2>2, <2>3 DEF StartDate
<1> QED
  BY <1>1, DataInvariant, PTL

-------------------------------------------------------------------------------
(* The file and the copy of it agree while no thread races with another *)

\* At most one thread has a change that is not in the file; what it writes is the copy.
SyncOK ==
    /\ \A t, u \in Threads : io[t] # "none" /\ io[u] # "none" => t = u
    /\ ~Pending => file = rows
    /\ \A t \in Threads : io[t] = "write" => msg[t] = rows

SyncInv == (backend = "file" /\ ~raced) => SyncOK

\* A user writes a state that users may set.
EditInv == \A e \in edit : e.row.state \in UserStates

\* A step that does not race.
Calm == SyncOK /\ backend = "file" /\ ~raced'

\* It finds the copy up to date, whether it reloads it or not.
LEMMA Steady ==
    ASSUME ControlInv, Calm
    PROVE  /\ Read => Current = rows /\ UNCHANGED rows
           /\ \A t, base, v, row : base \in Bases /\ Store(t, base, v, row) =>
                Bases = {rows} /\ base = rows /\ rows' = [rows EXCEPT ![v] = row]
<1>0. raced \in BOOLEAN /\ raced' = FALSE
  BY DEF ControlInv, Typed, TypeOK, Calm
<1>1. ASSUME ~Pending PROVE Current = rows /\ Bases = {rows}
  BY <1>1 DEF Calm, SyncOK, Current, Bases
<1>2. ASSUME Read PROVE Current = rows /\ UNCHANGED rows
  <2>1. ~Pending /\ rows' = Current
    BY <1>2 DEF Calm, Read
  <2> QED
    BY <1>1, <2>1
<1>3. ASSUME NEW t, NEW base, NEW v, NEW row, base \in Bases, Store(t, base, v, row)
      PROVE  Bases = {rows} /\ base = rows /\ rows' = [rows EXCEPT ![v] = row]
  <2>1. ~Pending /\ rows' = [base EXCEPT ![v] = row]
    BY <1>3 DEF Calm, Store
  <2>2. Bases = {rows}
    BY <1>1, <2>1
  <2>3. base = rows
    BY <1>3, <2>2
  <2> QED
    BY <2>1, <2>2, <2>3
<1> QED
  BY <1>2, <1>3

\* What a step of a call or of a user does to the registry.
RegistryStep ==
    \/ UNCHANGED registry
    \/ Read
    \/ \E t \in Threads, base \in Bases : \E v, row : Store(t, base, v, row)

LEMMA CallRegistry ==
    ASSUME NEW w \in Workers, Start(w) \/ Call(w)
    PROVE  RegistryStep /\ UNCHANGED <<fixed, edit>>
<1>t. w \in Threads
  BY DEF Threads
<1>1. CASE Start(w) \/ RunEngine(w) \/ Record(w)
  BY <1>1 DEF Start, RunEngine, Record, RegistryStep
<1>2. CASE Check(w) \/ CollectStuck(w) \/ GetView(w) \/ Fetch(w)
  BY <1>2 DEF Check, CollectStuck, GetView, Fetch, RegistryStep
<1>3. CASE PutView(w)
  <2>1. UNCHANGED <<fixed, edit>>
    BY <1>3 DEF PutView
  <2>2. \E base \in Bases : \E v, row : Store(w, base, v, row)
    BY <1>3 DEF PutView, Put
  <2> QED
    BY <1>t, <2>1, <2>2 DEF RegistryStep
<1>4. CASE Transition(w)
  <2>1. UNCHANGED <<fixed, edit>>
    BY <1>4 DEF Transition
  <2>2. UNCHANGED registry \/ \E base \in Bases : \E v, row : Store(w, base, v, row)
    BY <1>4 DEF Transition, Put
  <2> QED
    BY <1>t, <2>1, <2>2 DEF RegistryStep
<1>5. CASE Rollback(w)
  <2>1. UNCHANGED <<fixed, edit>>
    BY <1>5 DEF Rollback
  <2>2. UNCHANGED registry \/ \E base \in Bases : \E v, row : Store(w, base, v, row)
    BY <1>5 DEF Rollback
  <2> QED
    BY <1>t, <2>1, <2>2 DEF RegistryStep
<1>6. CASE RecordPut(w)
  <2>1. UNCHANGED <<fixed, edit>>
    BY <1>6 DEF RecordPut
  <2>2. \E base \in Bases : \E v, row : Store(w, base, v, row)
    BY <1>6 DEF RecordPut
  <2> QED
    BY <1>t, <2>1, <2>2 DEF RegistryStep
<1> QED
  BY <1>1, <1>2, <1>3, <1>4, <1>5, <1>6 DEF Call

LEMMA RegistrySync ==
    ASSUME ControlInv, SyncInv, UNCHANGED fixed, RegistryStep
    PROVE  SyncInv' /\ (~raced' => ~raced)
<1>0. raced \in BOOLEAN /\ io \in [Threads -> {"none", "open", "write"}] /\ UNCHANGED backend
  BY DEF ControlInv, Typed, TypeOK, fixed
<1>1. ~raced' => ~raced
  BY <1>0 DEF RegistryStep, registry, Read, Store
<1> SUFFICES ASSUME backend = "file", ~raced' PROVE SyncOK'
  BY <1>0, <1>1 DEF SyncInv
<1>2. SyncOK
  BY <1>0, <1>1 DEF SyncInv
<1>3. CASE UNCHANGED registry
  BY <1>2, <1>3 DEF SyncOK, Pending, registry
<1>4. CASE Read
  <2>1. ~Pending /\ rows' = file /\ UNCHANGED <<file, io, msg>>
    BY <1>4 DEF Read, Current
  <2> QED
    BY <1>2, <2>1 DEF SyncOK, Pending
<1>5. CASE \E t \in Threads, base \in Bases : \E v, row : Store(t, base, v, row)
  <2>1. PICK t \in Threads : \E base \in Bases : \E v, row : Store(t, base, v, row)
    BY <1>5
  <2>2. ~Pending /\ io' = [io EXCEPT ![t] = "open"]
    BY <2>1 DEF Store
  <2>3. io'[t] = "open" /\ \A u \in Threads \ {t} : io'[u] = "none"
    BY <1>0, <2>2 DEF Pending
  <2> QED
    BY <2>3 DEF SyncOK, Pending
<1> QED
  BY <1>3, <1>4, <1>5 DEF RegistryStep

\* What commits, readers and users do to the rows when nobody races.
LEMMA AsideRows ==
    ASSUME ControlInv, Calm, EditInv, Aside
    PROVE  \/ UNCHANGED rows
           \/ \E v \in Views, o \in Row : /\ o.state \in UserStates
                                         /\ rows' = [rows EXCEPT ![v] = Applied(o, rows[v])]
<1>1. CASE \/ \E t \in Threads : OpenFile(t) \/ WriteFile(t)
           \/ \E v \in Views : \E i \in accepted[v] : JobEnds(v, i)
  BY <1>1 DEF OpenFile, WriteFile, JobEnds, registry
<1>2. CASE ThreadReads \/ \E v \in Views, x \in States : SetFeatureViewState(v, x)
  BY <1>2, Steady DEF ThreadReads, SetFeatureViewState
<1>3. CASE ApplyState
  <2>1. PICK e \in edit, base \in Bases : Store(User, base, e.view, Applied(e.row, base[e.view]))
    BY <1>3 DEF ApplyState
  <2>2. base = rows /\ rows' = [rows EXCEPT ![e.view] = Applied(e.row, base[e.view])]
    BY <2>1, Steady
  <2>3. e.view \in Views /\ e.row \in Row /\ e.row.state \in UserStates
    BY DEF ControlInv, Typed, TypeOK, EditInv
  <2> QED
    BY <2>2, <2>3
<1> QED
  BY <1>1, <1>2, <1>3 DEF Aside

\* Every step keeps the file and its copy in agreement until threads race.
LEMMA NextSync ==
    ASSUME ControlInv, SyncInv, EditInv, [Next]_vars
    PROVE  SyncInv' /\ EditInv' /\ (~raced' => ~raced) /\ UNCHANGED fixed
<1>0. /\ raced \in BOOLEAN /\ io \in [Threads -> {"none", "open", "write"}]
      /\ msg \in [Threads -> [Views -> Row]] /\ User \in Threads
  BY DEF ControlInv, Typed, TypeOK, Threads
<1>1. ASSUME NEW w \in Workers, Start(w) \/ Call(w)
      PROVE  SyncInv' /\ EditInv' /\ (~raced' => ~raced) /\ UNCHANGED fixed
  BY <1>1, CallRegistry, RegistrySync DEF EditInv
<1>2. ASSUME NEW t \in Threads, OpenFile(t)
      PROVE  SyncInv' /\ EditInv' /\ (~raced' => ~raced) /\ UNCHANGED fixed
  <2>1. /\ UNCHANGED <<fixed, edit, rows, file, raced>> /\ io[t] = "open"
        /\ msg' = [msg EXCEPT ![t] = rows] /\ io' = [io EXCEPT ![t] = "write"]
    BY <1>2 DEF OpenFile
  <2>2. /\ io'[t] = "write" /\ msg'[t] = rows
        /\ \A u \in Threads \ {t} : io'[u] = io[u] /\ msg'[u] = msg[u]
    BY <1>0, <2>1
  <2>3. SyncOK => SyncOK'
    BY <2>1, <2>2 DEF SyncOK, Pending
  <2> QED
    BY <2>1, <2>3 DEF SyncInv, EditInv, fixed
<1>3. ASSUME NEW t \in Threads, WriteFile(t)
      PROVE  SyncInv' /\ EditInv' /\ (~raced' => ~raced) /\ UNCHANGED fixed
  <2>1. /\ UNCHANGED <<fixed, edit, rows, raced>> /\ io[t] = "write" /\ file' = msg[t]
        /\ io' = [io EXCEPT ![t] = "none"]
    BY <1>3 DEF WriteFile
  <2>2. io'[t] = "none" /\ \A u \in Threads \ {t} : io'[u] = io[u]
    BY <1>0, <2>1
  <2>3. SyncOK => SyncOK'
    <3> SUFFICES ASSUME SyncOK PROVE SyncOK'
      OBVIOUS
    <3>1. file' = rows' /\ \A u \in Threads : io'[u] = "none"
      BY <2>1, <2>2 DEF SyncOK
    <3> QED
      BY <3>1 DEF SyncOK, Pending
  <2> QED
    BY <2>1, <2>3 DEF SyncInv, EditInv, fixed
<1>4. ASSUME NEW v \in Views, NEW x \in States, SetFeatureViewState(v, x)
      PROVE  SyncInv' /\ EditInv' /\ (~raced' => ~raced) /\ UNCHANGED fixed
  <2>1. /\ Read /\ UNCHANGED fixed /\ x \in UserStates
        /\ edit' = {[view |-> v, row |-> [Current[v] EXCEPT !.state = x]]}
    BY <1>4 DEF SetFeatureViewState
  <2>2. SyncInv' /\ (~raced' => ~raced)
    BY <2>1, RegistrySync DEF RegistryStep
  <2>3. [Current[v] EXCEPT !.state = x].state = x
    <3>1. Current[v] \in Row
      BY DEF ControlInv, Typed, TypeOK, Current
    <3> QED
      BY <3>1 DEF Row
  <2>4. \A e \in edit' : e.row.state = x
    <3> SUFFICES ASSUME NEW e \in edit' PROVE e.row.state = x
      OBVIOUS
    <3>1. e = [view |-> v, row |-> [Current[v] EXCEPT !.state = x]]
      BY <2>1
    <3>2. e.row = [Current[v] EXCEPT !.state = x]
      BY <3>1
    <3> QED
      BY <2>3, <3>2
  <2>5. EditInv'
    BY <2>1, <2>4 DEF EditInv
  <2> QED
    BY <2>1, <2>2, <2>5
<1>5. ASSUME ApplyState PROVE SyncInv' /\ EditInv' /\ (~raced' => ~raced) /\ UNCHANGED fixed
  <2>1. UNCHANGED fixed /\ edit' = {}
    BY <1>5 DEF ApplyState
  <2>2. RegistryStep
    BY <1>0, <1>5 DEF ApplyState, RegistryStep
  <2> QED
    BY <2>1, <2>2, RegistrySync DEF EditInv
<1>6. ASSUME ThreadReads PROVE SyncInv' /\ EditInv' /\ (~raced' => ~raced) /\ UNCHANGED fixed
  BY <1>6, RegistrySync DEF ThreadReads, RegistryStep, EditInv
<1>7. ASSUME NEW v \in Views, NEW i \in accepted[v], JobEnds(v, i)
      PROVE  SyncInv' /\ EditInv' /\ (~raced' => ~raced) /\ UNCHANGED fixed
  BY <1>7, RegistrySync DEF JobEnds, RegistryStep, EditInv
<1>8. ASSUME NEW dying \in SUBSET Workers, Crash(dying)
      PROVE  SyncInv' /\ EditInv' /\ (~raced' => ~raced) /\ UNCHANGED fixed
  <2>1. /\ UNCHANGED <<fixed, file, raced>> /\ rows' = Current /\ edit' \subseteq edit
        /\ io' = [t \in Threads |-> "none"]
    BY <1>8, CrashEffect
  <2>2. backend = "file" => SyncOK'
    BY <2>1 DEF SyncOK, Pending, Current
  <2> QED
    BY <2>1, <2>2 DEF SyncInv, EditInv, fixed
<1>9. ASSUME UNCHANGED vars PROVE SyncInv' /\ EditInv' /\ (~raced' => ~raced) /\ UNCHANGED fixed
  BY <1>9, RegistrySync DEF vars, RegistryStep, EditInv
<1> QED
  BY <1>1, <1>2, <1>3, <1>4, <1>5, <1>6, <1>7, <1>8, <1>9, NextCases DEF Aside

\* The writes of a call, when nobody races.
LEMMA PutSteady ==
    ASSUME ControlInv, Calm, NEW w \in Workers, NEW j \in JobType, j = job[w], PutView(w)
    PROVE  \E l, k, o :
             /\ Moves(w, l, k) /\ k.prev = j.prev
             /\ o = [j.objs[Head(j.todo)] EXCEPT !.state = Target(j)] /\ o \in Row
             /\ Replaced(j, k, Head(j.todo), Completed(o, rows[Head(j.todo)]))
             /\ rows' = [rows EXCEPT ![Head(j.todo)] = Applied(o, rows[Head(j.todo)])]
             /\ \/ /\ l = "get" /\ k.todo = Tail(j.todo) /\ k.purpose = j.purpose
                   /\ UNCHANGED loop
                \/ /\ l = "fetch" /\ j.purpose = "reserve" /\ k.purpose = "reserve"
                   /\ k.todo = j.views /\ Tail(j.todo) = <<>> /\ LeaveLoop(w)
                \/ l = "failed" /\ j.purpose = "reset" /\ Tail(j.todo) = <<>> /\ UNCHANGED loop
                \/ l = "get" /\ j.purpose = "force" /\ k.purpose = "reserve" /\ k.todo = j.views
<1>1. PICK l, k, o, base :
        /\ base \in Bases
        /\ Moves(w, l, k) /\ k.prev = j.prev
        /\ o = [j.objs[Head(j.todo)] EXCEPT !.state = Target(j)] /\ o \in Row
        /\ Replaced(j, k, Head(j.todo), Completed(o, base[Head(j.todo)]))
        /\ Store(w, base, Head(j.todo), Applied(o, base[Head(j.todo)]))
        /\ \/ /\ l = "get" /\ k.todo = Tail(j.todo) /\ k.purpose = j.purpose
              /\ UNCHANGED loop
           \/ /\ l = "fetch" /\ j.purpose = "reserve" /\ k.purpose = "reserve"
              /\ k.todo = j.views /\ Tail(j.todo) = <<>> /\ LeaveLoop(w)
           \/ l = "failed" /\ j.purpose = "reset" /\ Tail(j.todo) = <<>> /\ UNCHANGED loop
           \/ l = "get" /\ j.purpose = "force" /\ k.purpose = "reserve" /\ k.todo = j.views
  BY PutMoves
<1>2. base = rows /\ rows' = [rows EXCEPT ![Head(j.todo)] = Applied(o, base[Head(j.todo)])]
  BY <1>1, Steady
<1> QED
  BY <1>1, <1>2

LEMMA RollbackSteady ==
    ASSUME ControlInv, Calm, NEW w \in Workers, NEW j \in JobType, j = job[w], Rollback(w)
    PROVE  \E l, k, o :
             /\ Moves(w, l, k) /\ k.prev = j.prev /\ o \in Row /\ o.state = j.prev[Head(j.todo)]
             /\ Replaced(j, k, Head(j.todo), o)
             /\ j.prev[Head(j.todo)] = "UNSPECIFIED" => UNCHANGED rows
             /\ j.prev[Head(j.todo)] # "UNSPECIFIED" =>
                  rows' = [rows EXCEPT ![Head(j.todo)] = Applied(o, rows[Head(j.todo)])]
             /\ Settled(j, Tail(j.todo), j.good, j.failing, l, k)
<1>1. PICK l, k, o, base :
        /\ base \in Bases
        /\ Moves(w, l, k) /\ k.prev = j.prev /\ o \in Row /\ o.state = j.prev[Head(j.todo)]
        /\ Replaced(j, k, Head(j.todo), Completed(o, base[Head(j.todo)]))
        /\ j.prev[Head(j.todo)] = "UNSPECIFIED" => UNCHANGED registry
        /\ j.prev[Head(j.todo)] # "UNSPECIFIED" =>
             Store(w, base, Head(j.todo), Applied(o, base[Head(j.todo)]))
        /\ Settled(j, Tail(j.todo), j.good, j.failing, l, k)
  BY RollbackMoves
<1>2. Completed(o, base[Head(j.todo)]) = o
  BY DEF Completed, Calm
<1>3. ASSUME j.prev[Head(j.todo)] # "UNSPECIFIED"
      PROVE  rows' = [rows EXCEPT ![Head(j.todo)] = Applied(o, rows[Head(j.todo)])]
  <2>1. base = rows /\ rows' = [rows EXCEPT ![Head(j.todo)] = Applied(o, base[Head(j.todo)])]
    BY <1>1, <1>3, Steady
  <2> QED
    BY <2>1
<1>4. j.prev[Head(j.todo)] = "UNSPECIFIED" => UNCHANGED rows
  BY <1>1 DEF registry
<1> QED
  BY <1>1, <1>2, <1>3, <1>4

LEMMA RecordSteady ==
    ASSUME ControlInv, Calm, NEW w \in Workers, NEW j \in JobType, j = job[w], RecordPut(w)
    PROVE  \E l, k, o :
             /\ Moves(w, l, k) /\ Same(j, k) /\ o \in Row /\ o.state = "AVAILABLE_ONLINE"
             /\ rows' = [rows EXCEPT ![Head(j.todo)] = o]
             /\ Settled(j, <<>>, Tail(j.todo), j.failing, l, k)
<1>1. PICK l, k, o, seen, base :
        /\ seen \in Bases /\ base \in Bases
        /\ Moves(w, l, k) /\ Same(j, k) /\ o \in Row
        /\ o = Recorded(IF backend = "sql" THEN j.objs[Head(j.todo)] ELSE seen[Head(j.todo)],
                        j, Head(j.todo))
        /\ Store(w, base, Head(j.todo),
                 IF backend = "sql" THEN Applied(o, base[Head(j.todo)]) ELSE o)
        /\ Settled(j, <<>>, Tail(j.todo), j.failing, l, k)
  BY RecordPutMoves
<1>2. o.state = "AVAILABLE_ONLINE" /\ backend = "file"
  BY <1>1 DEF Recorded, Calm
<1>3. Store(w, base, Head(j.todo), o)
  BY <1>1, <1>2
<1>4. rows' = [rows EXCEPT ![Head(j.todo)] = o]
  BY <1>1, <1>3, Steady
<1> QED
  BY <1>1, <1>2, <1>4

-------------------------------------------------------------------------------
(* Reservations exclude one another *)

\* Asynchronous requests only, to one server, and nobody takes a view out of
\* MATERIALIZING by hand.
Reservations ==
    /\ Modes \subseteq {"async"} /\ OneServer
    /\ UserStates \subseteq {"MATERIALIZING"}

\* The cases of HeldAt and ClaimedAt.
LEMMA HeldFacts ==
    ASSUME NEW j
    PROVE  /\ \A l \in Ended : HeldAt(l, j) = {} /\ ClaimedAt(l, j) = {} /\ ~Reserving(l, j)
           /\ HeldAt("check", j) = {} /\ ClaimedAt("check", j) = ToSet(j.views) \ ToSet(j.todo)
           /\ HeldAt("fetch", j) = ToSet(j.views) /\ ClaimedAt("fetch", j) = {}
           /\ HeldAt("transition", j) = ToSet(j.current) \cup ToSet(j.later)
           /\ ClaimedAt("transition", j) = {}
           /\ HeldAt("record", j) = ToSet(j.todo) \cup ToSet(j.later) /\ ClaimedAt("record", j) = {}
           /\ HeldAt("stuck", j) = ToSet(j.stuck) \cup ToSet(j.todo) /\ ClaimedAt("stuck", j) = {}
           /\ \A l \in {"get", "put"} :
                /\ j.purpose = "reset" => HeldAt(l, j) = ToSet(j.todo) /\ ClaimedAt(l, j) = {}
                /\ j.purpose = "reserve" => /\ HeldAt(l, j) = ToSet(j.views) \ ToSet(j.todo)
                                            /\ ClaimedAt(l, j) = ToSet(j.todo)
           /\ \A l : ClaimedAt(l, j) # {} => Reserving(l, j)
<1>1. \A l \in Ended : HeldAt(l, j) = {} /\ ClaimedAt(l, j) = {} /\ ~Reserving(l, j)
  BY DEF Ended, HeldAt, ClaimedAt, Reserving
<1>2. /\ HeldAt("check", j) = {} /\ ClaimedAt("check", j) = ToSet(j.views) \ ToSet(j.todo)
      /\ HeldAt("fetch", j) = ToSet(j.views) /\ ClaimedAt("fetch", j) = {}
  BY DEF HeldAt, ClaimedAt
<1>3. /\ HeldAt("transition", j) = ToSet(j.current) \cup ToSet(j.later)
      /\ ClaimedAt("transition", j) = {}
      /\ HeldAt("record", j) = ToSet(j.todo) \cup ToSet(j.later) /\ ClaimedAt("record", j) = {}
      /\ HeldAt("stuck", j) = ToSet(j.stuck) \cup ToSet(j.todo) /\ ClaimedAt("stuck", j) = {}
  BY DEF HeldAt, ClaimedAt
<1>4. ASSUME NEW l \in {"get", "put"}
      PROVE  /\ j.purpose = "reset" => HeldAt(l, j) = ToSet(j.todo) /\ ClaimedAt(l, j) = {}
             /\ j.purpose = "reserve" => /\ HeldAt(l, j) = ToSet(j.views) \ ToSet(j.todo)
                                         /\ ClaimedAt(l, j) = ToSet(j.todo)
  BY DEF HeldAt, ClaimedAt
<1>5. \A l : ClaimedAt(l, j) # {} => Reserving(l, j)
  BY DEF ClaimedAt, Reserving
<1> QED
  BY <1>1, <1>2, <1>3, <1>4, <1>5

\* HeldOK after a move: a worker holds only what it held or had claimed, and leaves
\* alone what others hold.
LEMMA MoveHeld ==
    ASSUME ControlInv, HeldOK, NEW w \in Workers, NEW j, j = job[w], NEW l, NEW k,
           Moves(w, l, k), l \notin Ended => HandlerAt(l, k), Reserving(l, k) => loop' = w,
           \A u \in Workers \ {w} : loop = u => loop' = u,
           HeldAt(l, k) \subseteq HeldAt(pc[w], j) \cup ClaimedAt(pc[w], j),
           \A u \in Workers \ {w} : ClaimedAt(l, k) \cap HeldAt(pc[u], job[u]) = {},
           ClaimedAt(l, k) \cap HeldAt(l, k) = {},
           \A v \in HeldAt(l, k) : rows'[v].state = "MATERIALIZING",
           \A u \in Workers \ {w} : \A v \in HeldAt(pc[u], job[u]) :
             rows'[v].state = "MATERIALIZING"
    PROVE  HeldOK'
<1> DEFINE n == IF l \in Ended THEN NoJob ELSE k
<1>1. /\ pc'[w] = l /\ job'[w] = n
      /\ \A u \in Workers \ {w} : pc'[u] = pc[u] /\ job'[u] = job[u]
  BY MoveEffect
<1>2. /\ HandlerAt(l, n) /\ (Reserving(l, n) => loop' = w)
      /\ l \in Ended => HeldAt(l, n) = {} /\ ClaimedAt(l, n) = {}
      /\ l \notin Ended => n = k
  <2>1. CASE l \in Ended
    <3>1. HandlerAt(l, n)
      BY <2>1 DEF HandlerAt, Ended
    <3> HIDE DEF n
    <3> QED
      BY <2>1, <3>1, HeldFacts
  <2>2. CASE l \notin Ended
    BY <2>2
  <2> QED
    BY <2>1, <2>2
<1> HIDE DEF n
<1>3. /\ HeldAt(l, n) \subseteq HeldAt(pc[w], j) \cup ClaimedAt(pc[w], j)
      /\ \A u \in Workers \ {w} : ClaimedAt(l, n) \cap HeldAt(pc[u], job[u]) = {}
      /\ ClaimedAt(l, n) \cap HeldAt(l, n) = {}
      /\ \A v \in HeldAt(l, n) : rows'[v].state = "MATERIALIZING"
  BY <1>2
<1>4. ASSUME NEW u \in Workers
      PROVE  /\ HandlerAt(pc'[u], job'[u]) /\ (Reserving(pc'[u], job'[u]) => loop' = u)
             /\ \A v \in HeldAt(pc'[u], job'[u]) : rows'[v].state = "MATERIALIZING"
  <2>1. CASE u = w
    BY <1>1, <1>2, <1>3, <2>1
  <2>2. CASE u # w
    <3>1. HandlerAt(pc[u], job[u]) /\ (Reserving(pc[u], job[u]) => loop = u)
      BY DEF HeldOK
    <3> QED
      BY <1>1, <2>2, <3>1
  <2> QED
    BY <2>1, <2>2
<1>5. ASSUME NEW u \in Workers \ {w}
      PROVE  /\ HeldAt(l, n) \cap HeldAt(pc[u], job[u]) = {}
             /\ ClaimedAt(pc[u], job[u]) \cap HeldAt(l, n) = {}
  <2>1. /\ HeldAt(pc[w], j) \cap HeldAt(pc[u], job[u]) = {}
        /\ ClaimedAt(pc[w], j) \cap HeldAt(pc[u], job[u]) = {}
        /\ ClaimedAt(pc[u], job[u]) \cap HeldAt(pc[w], j) = {}
    BY DEF HeldOK
  <2>2. ClaimedAt(pc[u], job[u]) = {} \/ ClaimedAt(pc[w], j) = {}
    <3>1. /\ Reserving(pc[u], job[u]) => loop = u
          /\ Reserving(pc[w], job[w]) => loop = w
      BY DEF HeldOK
    <3> QED
      BY <3>1, HeldFacts
  <2> QED
    BY <1>3, <2>1, <2>2
<1>6. ASSUME NEW u \in Workers, NEW x \in Workers
      PROVE  /\ u # x => HeldAt(pc'[u], job'[u]) \cap HeldAt(pc'[x], job'[x]) = {}
             /\ ClaimedAt(pc'[u], job'[u]) \cap HeldAt(pc'[x], job'[x]) = {}
  <2>1. CASE u = w /\ x = w
    BY <1>1, <1>3, <2>1
  <2>2. CASE u = w /\ x # w
    BY <1>1, <1>3, <1>5, <2>2
  <2>3. CASE u # w /\ x = w
    BY <1>1, <1>3, <1>5, <2>3
  <2>4. CASE u # w /\ x # w
    <3>1. /\ u # x => HeldAt(pc[u], job[u]) \cap HeldAt(pc[x], job[x]) = {}
          /\ ClaimedAt(pc[u], job[u]) \cap HeldAt(pc[x], job[x]) = {}
      BY DEF HeldOK
    <3> QED
      BY <1>1, <2>4, <3>1
  <2> QED
    BY <2>1, <2>2, <2>3, <2>4
<1>7. /\ \A u \in Workers : HandlerAt(pc'[u], job'[u]) /\ (Reserving(pc'[u], job'[u]) => loop' = u)
      /\ \A u \in Workers : \A v \in HeldAt(pc'[u], job'[u]) : rows'[v].state = "MATERIALIZING"
      /\ \A u, x \in Workers :
           /\ u # x => HeldAt(pc'[u], job'[u]) \cap HeldAt(pc'[x], job'[x]) = {}
           /\ ClaimedAt(pc'[u], job'[u]) \cap HeldAt(pc'[x], job'[x]) = {}
  BY <1>4, <1>6
<1> QED
  BY <1>7 DEF HeldOK

\* HeldOK after a move that leaves the rows alone.
LEMMA QuietHeld ==
    ASSUME ControlInv, HeldOK, NEW w \in Workers, NEW j, j = job[w], NEW l, NEW k,
           Moves(w, l, k), l \notin Ended => HandlerAt(l, k), Reserving(l, k) => loop' = w,
           \A u \in Workers \ {w} : loop = u => loop' = u,
           HeldAt(l, k) \subseteq HeldAt(pc[w], j),
           \A u \in Workers \ {w} : ClaimedAt(l, k) \cap HeldAt(pc[u], job[u]) = {},
           ClaimedAt(l, k) \cap HeldAt(l, k) = {}, UNCHANGED rows
    PROVE  HeldOK'
<1>1. \A u \in Workers : \A v \in HeldAt(pc[u], job[u]) : rows'[v].state = "MATERIALIZING"
  BY DEF HeldOK
<1>2. \A v \in HeldAt(l, k) : rows'[v].state = "MATERIALIZING"
  BY <1>1
<1> QED
  BY <1>1, <1>2, MoveHeld

\* The steps of the handlers before a reservation preserve HeldOK.
LEMMA ReserveHeld ==
    ASSUME Reservations, ControlInv, HeldOK, Calm, backend = "file", NEW w \in Workers,
           Start(w) \/ Check(w) \/ CollectStuck(w) \/ GetView(w)
    PROVE  HeldOK'
<1>j. PICK j \in JobType : j = job[w] /\ ControlAt(pc[w], j)
  BY JobFacts
<1>h. /\ HandlerAt(pc[w], j) /\ (Reserving(pc[w], j) => loop = w)
      /\ \A v \in HeldAt(pc[w], j) : rows[v].state = "MATERIALIZING"
      /\ \A u \in Workers : ClaimedAt(pc[w], j) \cap HeldAt(pc[u], job[u]) = {}
      /\ \A u \in Workers : \A v \in HeldAt(pc[u], job[u]) : rows[v].state = "MATERIALIZING"
  BY <1>j DEF HeldOK
<1>t. /\ j.todo \in Seq(Views) /\ j.views \in Seq(Views) /\ j.stuck \in Seq(Views)
      /\ j.objs \in [Views -> Row]
  BY DEF JobType
<1>1. CASE Start(w)
  <2>1. PICK l, k : \E m \in Modes, list \in ViewLists :
          /\ Moves(w, l, k)
          /\ k.mode = m /\ k.views = list /\ k.todo = list
          /\ m = "async" => l = "check" /\ k.purpose = "reserve"
          /\ IF m # "sync" /\ OneServer THEN loop = Nobody /\ loop' = w ELSE UNCHANGED loop
    BY <1>1, StartMoves
  <2>2. /\ Moves(w, "check", k) /\ l = "check" /\ k.mode = "async" /\ k.purpose = "reserve"
        /\ k.todo = k.views /\ IsInjective(k.views) /\ loop = Nobody /\ loop' = w
    BY <2>1, BoundsAssumption DEF Reservations
  <2>3. UNCHANGED rows /\ \A u \in Workers : loop # u
    BY <1>1, <2>2, BoundsAssumption DEF Start, registry
  <2>4. HandlerAt("check", k)
    BY <2>2 DEF HandlerAt
  <2>5. HeldAt("check", k) = {} /\ ClaimedAt("check", k) = {}
    BY <2>2, HeldFacts
  <2> QED
    BY <1>j, <2>2, <2>3, <2>4, <2>5, QuietHeld
<1>2. CASE Check(w)
  <2>0. Current = rows /\ UNCHANGED rows
    BY <1>2, Steady DEF Check
  <2>1. PICK l, k :
             /\ Moves(w, l, k) /\ Same(j, k)
             /\ \/ l = "rejected" /\ LeaveLoop(w)
                \/ /\ l \in {"check", "get"} /\ k.purpose = j.purpose
                   /\ rows[Head(j.todo)].state # "MATERIALIZING" /\ UNCHANGED loop
                   /\ l = "check" => k.todo = Tail(j.todo)
                   /\ l = "get" => Tail(j.todo) = <<>> /\ k.todo = j.views
    BY <1>2, <1>j, <2>0, CheckMoves
  <2>2. pc[w] = "check" /\ UNCHANGED rows /\ j.todo # <<>>
    BY <1>2, <1>j, <2>0 DEF Check, ControlAt, Listing
  <2>3. /\ j.mode = "async" /\ IsInjective(j.views) /\ j.purpose = "reserve" /\ loop = w
    BY <1>h, <2>2 DEF HandlerAt, Ended, Reserving
  <2>4. CASE l = "rejected"
    <3>1. l \in Ended /\ LeaveLoop(w)
      BY <2>1, <2>4 DEF Ended
    <3>2. HeldAt(l, k) = {} /\ ClaimedAt(l, k) = {} /\ ~Reserving(l, k)
      BY <3>1, HeldFacts
    <3>3. \A u \in Workers \ {w} : loop = u => loop' = u
      BY <2>3
    <3> QED
      BY <1>j, <2>1, <2>2, <3>1, <3>2, <3>3, QuietHeld
  <2>5. CASE l \in {"check", "get"}
    <3>1. /\ k.purpose = "reserve" /\ k.mode = "async" /\ k.views = j.views /\ UNCHANGED loop
          /\ rows[Head(j.todo)].state # "MATERIALIZING"
          /\ l = "check" => k.todo = Tail(j.todo)
          /\ l = "get" => Tail(j.todo) = <<>> /\ k.todo = j.views
      BY <2>1, <2>3, <2>5 DEF Same, Called
    <3>2. HandlerAt(l, k)
      BY <2>3, <2>5, <3>1 DEF HandlerAt
    <3>3. HeldAt(l, k) = {}
      BY <2>5, <3>1, HeldFacts
    <3>4. ClaimedAt(l, k) \subseteq (ToSet(j.views) \ ToSet(j.todo)) \cup {Head(j.todo)}
      <4>1. ToSet(j.todo) = {Head(j.todo)} \cup ToSet(Tail(j.todo))
        BY <1>t, HeadFacts, <2>2
      <4>2. ToSet(<<>>) = {}
        BY DEF ToSet
      <4>3. CASE l = "check"
        <5>1. ClaimedAt(l, k) = ToSet(k.views) \ ToSet(k.todo)
          BY <4>3, HeldFacts
        <5> QED
          BY <3>1, <4>1, <4>3, <5>1
      <4>4. CASE l = "get"
        <5>1. ClaimedAt(l, k) = ToSet(j.views)
          BY <3>1, <4>4, HeldFacts
        <5>2. ToSet(Tail(j.todo)) = {}
          BY <3>1, <4>2, <4>4
        <5> QED
          BY <4>1, <5>1, <5>2
      <4> QED
        BY <2>5, <4>3, <4>4
    <3>5. ClaimedAt(pc[w], j) = ToSet(j.views) \ ToSet(j.todo)
      BY <2>2, HeldFacts
    <3>6. \A u \in Workers \ {w} : ClaimedAt(l, k) \cap HeldAt(pc[u], job[u]) = {}
      BY <1>h, <3>1, <3>4, <3>5
    <3> QED
      BY <1>j, <2>1, <2>2, <2>3, <3>1, <3>2, <3>3, <3>6, QuietHeld
  <2> QED
    BY <2>1, <2>4, <2>5
<1>3. CASE CollectStuck(w)
  <2>0. Current = rows /\ UNCHANGED rows
    BY <1>3, Steady DEF CollectStuck
  <2>p. PICK l, k, found :
             /\ Moves(w, l, k) /\ Same(j, k)
             /\ found = IF Current[Head(j.todo)].state = "MATERIALIZING"
                        THEN Append(j.stuck, Head(j.todo)) ELSE j.stuck
             /\ \/ l = "stuck" /\ k.stuck = found /\ k.todo = Tail(j.todo) /\ k.purpose = j.purpose
                \/ /\ l = "get" /\ k.todo = found /\ k.purpose = j.purpose
                   /\ Tail(j.todo) = <<>>
                \/ /\ l = AfterReset(j) /\ l \in {"failed", "get"} /\ found = <<>>
                   /\ Tail(j.todo) = <<>> /\ k.todo = j.views /\ k.purpose = "reserve"
    BY <1>3, <1>j, CollectMoves
  <2>1. /\ Moves(w, l, k) /\ Same(j, k)
        /\ found = IF rows[Head(j.todo)].state = "MATERIALIZING"
                   THEN Append(j.stuck, Head(j.todo)) ELSE j.stuck
        /\ \/ l = "stuck" /\ k.stuck = found /\ k.todo = Tail(j.todo) /\ k.purpose = j.purpose
           \/ /\ l = "get" /\ k.todo = found /\ k.purpose = j.purpose
              /\ Tail(j.todo) = <<>>
           \/ /\ l = AfterReset(j) /\ l \in {"failed", "get"} /\ found = <<>>
              /\ Tail(j.todo) = <<>> /\ k.todo = j.views /\ k.purpose = "reserve"
    BY <2>0, <2>p
  <2>2. pc[w] = "stuck" /\ UNCHANGED <<rows, loop>> /\ j.todo # <<>>
    BY <1>3, <1>j, <2>0 DEF CollectStuck, ControlAt, Listing
  <2>3. /\ j.mode = "async" /\ IsInjective(j.views) /\ j.purpose = "reset"
        /\ Apart(j.stuck, j.todo)
    BY <1>h, <2>2 DEF HandlerAt, Ended
  <2> DEFINE v == Head(j.todo)
  <2>4. /\ ToSet(j.todo) = {v} \cup ToSet(Tail(j.todo)) /\ v \in Views
        /\ IsInjective(Tail(j.todo)) /\ v \notin ToSet(Tail(j.todo))
        /\ Tail(j.todo) \in Seq(Views)
    BY <1>t, HeadFacts, <2>2, <2>3 DEF Apart
  <2>5. HeldAt(pc[w], j) = ToSet(j.stuck) \cup ToSet(j.todo)
    BY <2>2, HeldFacts
  <2>6. rows[v].state = "MATERIALIZING"
    BY <1>h, <2>4, <2>5
  <2> HIDE DEF v
  <2>7. found = Append(j.stuck, v)
    BY <2>1, <2>6 DEF v
  <2>8. /\ found # <<>> /\ ToSet(found) = ToSet(j.stuck) \cup {v} /\ IsInjective(found)
    <3> DEFINE s == j.stuck
    <3>1. s \in Seq(Views) /\ v \notin ToSet(s) /\ IsInjective(s) /\ found = Append(s, v)
      BY <1>t, <2>3, <2>4, <2>7 DEF Apart
    <3> HIDE DEF s
    <3>2. /\ Len(s) \in Nat /\ DOMAIN s = 1..Len(s) /\ DOMAIN found = 1..(Len(s) + 1)
          /\ found[Len(s) + 1] = v /\ \A i \in 1..Len(s) : found[i] = s[i]
          /\ 1..(Len(s) + 1) = 1..Len(s) \cup {Len(s) + 1} /\ found # <<>>
      BY <2>4, <3>1
    <3>3. ToSet(found) = ToSet(s) \cup {v}
      <4>1. ASSUME NEW x \in ToSet(found) PROVE x \in ToSet(s) \cup {v}
        BY <3>2 DEF ToSet
      <4>2. ASSUME NEW x \in ToSet(s) \cup {v} PROVE x \in ToSet(found)
        BY <3>2 DEF ToSet
      <4> QED
        BY <4>1, <4>2
    <3>4. IsInjective(found)
      <4>1. \A i \in 1..Len(s) : found[i] # v
        BY <3>1, <3>2 DEF ToSet
      <4>2. \A a, b \in 1..Len(s) : found[a] = found[b] => a = b
        BY <3>1, <3>2 DEF IsInjective
      <4> QED
        BY <3>2, <4>1, <4>2 DEF IsInjective
    <3> QED
      BY <3>2, <3>3, <3>4 DEF s
  <2>9. CASE l = "stuck" /\ k.stuck = found /\ k.todo = Tail(j.todo) /\ k.purpose = j.purpose
    <3>1. k.mode = "async" /\ k.views = j.views
      BY <2>1, <2>3 DEF Same, Called
    <3>2. Apart(k.stuck, k.todo)
      BY <2>3, <2>4, <2>8, <2>9 DEF Apart
    <3>3. HandlerAt(l, k) /\ ~Reserving(l, k)
      BY <2>3, <2>9, <3>1, <3>2 DEF HandlerAt, Reserving
    <3>4. HeldAt(l, k) = ToSet(j.stuck) \cup ToSet(j.todo) /\ ClaimedAt(l, k) = {}
      <4>1. HeldAt(l, k) = ToSet(found) \cup ToSet(Tail(j.todo)) /\ ClaimedAt(l, k) = {}
        BY <2>9, HeldFacts
      <4> QED
        BY <2>4, <2>8, <4>1
    <3> QED
      BY <1>j, <2>1, <2>2, <2>5, <3>3, <3>4, QuietHeld
  <2>10. CASE l = "get" /\ k.todo = found /\ k.purpose = j.purpose
    <3>1. k.mode = "async" /\ k.views = j.views
      BY <2>1, <2>3 DEF Same, Called
    <3>2. HandlerAt(l, k) /\ ~Reserving(l, k)
      BY <2>3, <2>8, <2>10, <3>1 DEF HandlerAt, Reserving
    <3>3. HeldAt(l, k) \subseteq ToSet(j.stuck) \cup ToSet(j.todo) /\ ClaimedAt(l, k) = {}
      <4>1. HeldAt(l, k) = ToSet(found) /\ ClaimedAt(l, k) = {}
        BY <2>3, <2>10, HeldFacts
      <4> QED
        BY <2>4, <2>8, <4>1
    <3> QED
      BY <1>j, <2>1, <2>2, <2>5, <3>2, <3>3, QuietHeld
  <2> QED
    BY <2>1, <2>8, <2>9, <2>10
<1>4. CASE GetView(w)
  <2>0. Current = rows /\ UNCHANGED rows
    BY <1>4, Steady DEF GetView
  <2>1. PICK k : /\ Moves(w, "put", k) /\ Replaced(j, k, Head(j.todo), rows[Head(j.todo)])
                 /\ k.todo = j.todo /\ k.purpose = j.purpose
    BY <1>4, <1>j, <2>0, GetMoves
  <2>2. pc[w] = "get" /\ UNCHANGED <<rows, loop>>
    BY <1>4, <2>0 DEF GetView
  <2>3. k.mode = j.mode /\ k.views = j.views
    BY <2>1 DEF Replaced, Called
  <2>4. HandlerAt("put", k) /\ (Reserving("put", k) => loop = w)
        /\ j.purpose \in {"reserve", "reset"}
    BY <1>h, <2>1, <2>2, <2>3 DEF HandlerAt, Reserving, Ended
  <2>5. HeldAt("put", k) = HeldAt(pc[w], j) /\ ClaimedAt("put", k) = ClaimedAt(pc[w], j)
    <3>1. /\ k.purpose = "reset" => HeldAt("put", k) = ToSet(k.todo) /\ ClaimedAt("put", k) = {}
          /\ k.purpose = "reserve" => /\ HeldAt("put", k) = ToSet(k.views) \ ToSet(k.todo)
                                      /\ ClaimedAt("put", k) = ToSet(k.todo)
      BY HeldFacts
    <3>2. /\ j.purpose = "reset" => HeldAt("get", j) = ToSet(j.todo) /\ ClaimedAt("get", j) = {}
          /\ j.purpose = "reserve" => /\ HeldAt("get", j) = ToSet(j.views) \ ToSet(j.todo)
                                      /\ ClaimedAt("get", j) = ToSet(j.todo)
      BY HeldFacts
    <3> QED
      BY <2>1, <2>2, <2>3, <2>4, <3>1, <3>2
  <2>6. ClaimedAt(pc[w], j) \cap HeldAt(pc[w], j) = {}
    BY <1>h, <1>j
  <2> QED
    BY <1>h, <1>j, <2>1, <2>2, <2>4, <2>5, <2>6, QuietHeld
<1> QED
  BY <1>1, <1>2, <1>3, <1>4

\* What writing a view's new state does in the file registry.
LEMMA FileApplies ==
    ASSUME NEW o \in Row, NEW row \in Row, backend = "file", o.state # "UNSPECIFIED"
    PROVE  Applied(o, row).state = o.state
BY DEF Applied, Row

\* The write of a reservation, or of a reset, preserves HeldOK.
LEMMA PutHeld ==
    ASSUME ControlInv, HeldOK, Calm, backend = "file", NEW w \in Workers, PutView(w)
    PROVE  HeldOK'
<1>j. PICK j \in JobType : j = job[w] /\ ControlAt(pc[w], j)
  BY JobFacts
<1>h. /\ HandlerAt(pc[w], j) /\ (Reserving(pc[w], j) => loop = w)
      /\ \A u \in Workers : \A x \in HeldAt(pc[u], job[u]) : rows[x].state = "MATERIALIZING"
      /\ \A u \in Workers : /\ ClaimedAt(pc[w], j) \cap HeldAt(pc[u], job[u]) = {}
                            /\ u # w => HeldAt(pc[w], j) \cap HeldAt(pc[u], job[u]) = {}
  BY <1>j DEF HeldOK
<1> DEFINE v == Head(j.todo)
<1>1. PICK l, k, o :
         /\ Moves(w, l, k)
         /\ o = [j.objs[v] EXCEPT !.state = Target(j)] /\ o \in Row
         /\ Replaced(j, k, v, Completed(o, rows[v]))
         /\ rows' = [rows EXCEPT ![v] = Applied(o, rows[v])]
         /\ \/ l = "get" /\ k.todo = Tail(j.todo) /\ k.purpose = j.purpose /\ UNCHANGED loop
            \/ /\ l = "fetch" /\ j.purpose = "reserve" /\ k.purpose = "reserve"
               /\ k.todo = j.views /\ Tail(j.todo) = <<>> /\ LeaveLoop(w)
            \/ l = "failed" /\ j.purpose = "reset" /\ UNCHANGED loop
            \/ l = "get" /\ j.purpose = "force"
  BY <1>j, PutSteady
<1>2. /\ pc[w] = "put" /\ j.todo # <<>> /\ j.todo \in Seq(Views) /\ rows \in [Views -> Row]
      /\ j.objs \in [Views -> Row]
  BY <1>j, JobFacts DEF PutView, ControlAt, Listing, JobType
<1>3. /\ v \in Views /\ ToSet(j.todo) = {v} \cup ToSet(Tail(j.todo))
      /\ IsInjective(j.todo) => IsInjective(Tail(j.todo)) /\ v \notin ToSet(Tail(j.todo))
  BY <1>2, HeadFacts
<1>4. /\ j.mode = "async" /\ IsInjective(j.views) /\ j.purpose \in {"reserve", "reset"}
      /\ IsInjective(j.todo) /\ (j.purpose = "reserve" => loop = w)
  BY <1>h, <1>2 DEF HandlerAt, Reserving, Ended
<1>5. k.mode = "async" /\ k.views = j.views
  BY <1>1, <1>4 DEF Replaced, Called
<1>6. /\ rows'[v].state = Target(j) /\ \A x \in Views \ {v} : rows'[x] = rows[x]
  <2>1. o.state = Target(j) /\ o.state # "UNSPECIFIED" /\ rows[v] \in Row
    <3>1. j.objs[v] \in Row
      BY <1>2, <1>3
    <3>2. o.state = Target(j)
      BY <1>1, <3>1 DEF Row
    <3> QED
      BY <1>2, <1>3, <3>2 DEF Target
  <2>2. Applied(o, rows[v]).state = Target(j)
    BY <1>1, <2>1, FileApplies
  <2> QED
    BY <1>1, <1>2, <1>3, <2>2
<1>u. \A u \in Workers : HeldAt(pc[u], job[u]) \subseteq Views
  <2> SUFFICES ASSUME NEW u \in Workers PROVE HeldAt(pc[u], job[u]) \subseteq Views
    OBVIOUS
  <2>1. job[u] \in JobType
    BY JobFacts
  <2>2. \A s \in Seq(Views) : ToSet(s) \subseteq Views
    BY ListFacts
  <2>3. /\ ToSet(job[u].views) \subseteq Views /\ ToSet(job[u].current) \subseteq Views
        /\ ToSet(job[u].later) \subseteq Views /\ ToSet(job[u].todo) \subseteq Views
        /\ ToSet(job[u].stuck) \subseteq Views
    BY <2>1, <2>2 DEF JobType
  <2> QED
    BY <2>3 DEF HeldAt
<1>7. v \in HeldAt(pc[w], j) \cup ClaimedAt(pc[w], j)
  BY <1>2, <1>3, <1>4, HeldFacts
<1> HIDE DEF v
<1>8. \A u \in Workers \ {w} : \A x \in HeldAt(pc[u], job[u]) : rows'[x].state = "MATERIALIZING"
  BY <1>h, <1>6, <1>7, <1>u
<1>9. CASE j.purpose = "reserve"
  <2>1. /\ HeldAt(pc[w], j) = ToSet(j.views) \ ToSet(j.todo) /\ ClaimedAt(pc[w], j) = ToSet(j.todo)
        /\ rows'[v].state = "MATERIALIZING" /\ loop = w
    BY <1>2, <1>4, <1>6, <1>9, HeldFacts DEF Target
  <2>2. \A x \in (ToSet(j.views) \ ToSet(j.todo)) \cup {v} : rows'[x].state = "MATERIALIZING"
    <3>1. ASSUME NEW x \in ToSet(j.views) \ ToSet(j.todo) PROVE rows'[x].state = "MATERIALIZING"
      <4>1. x \in HeldAt(pc[w], job[w]) /\ x # v
        BY <1>3, <1>j, <2>1
      <4> QED
        BY <1>h, <1>6, <1>u, <4>1
    <3> QED
      BY <2>1, <3>1
  <2>3. CASE l = "get"
    <3>1. k.todo = Tail(j.todo) /\ k.purpose = "reserve" /\ UNCHANGED loop
      BY <1>1, <1>9, <2>3
    <3>2. /\ HeldAt(l, k) = ToSet(j.views) \ ToSet(Tail(j.todo))
          /\ ClaimedAt(l, k) = ToSet(Tail(j.todo))
      BY <1>5, <2>3, <3>1, HeldFacts
    <3>3. HandlerAt(l, k)
      BY <1>3, <1>4, <1>5, <2>3, <3>1 DEF HandlerAt
    <3>4. HeldAt(l, k) \subseteq (ToSet(j.views) \ ToSet(j.todo)) \cup {v}
      BY <1>3, <3>2
    <3>5. /\ HeldAt(l, k) \subseteq HeldAt(pc[w], j) \cup ClaimedAt(pc[w], j)
          /\ ClaimedAt(l, k) \subseteq ClaimedAt(pc[w], j)
          /\ ClaimedAt(l, k) \cap HeldAt(l, k) = {}
      BY <1>3, <2>1, <3>2
    <3>6. \A x \in HeldAt(l, k) : rows'[x].state = "MATERIALIZING"
      BY <2>2, <3>4
    <3>7. \A u \in Workers \ {w} : ClaimedAt(l, k) \cap HeldAt(pc[u], job[u]) = {}
      BY <1>h, <3>5
    <3> QED
      BY <1>1, <1>j, <1>8, <2>1, <3>1, <3>3, <3>5, <3>6, <3>7, MoveHeld
  <2>4. CASE l = "fetch"
    <3>1. k.todo = j.views /\ k.purpose = "reserve" /\ Tail(j.todo) = <<>> /\ LeaveLoop(w)
      BY <1>1, <1>9, <2>4
    <3>2. HeldAt(l, k) = ToSet(j.views) /\ ClaimedAt(l, k) = {} /\ ~Reserving(l, k)
      BY <1>5, <2>4, HeldFacts DEF Reserving
    <3>3. ToSet(j.todo) = {v}
      <4>1. ToSet(<<>>) = {}
        BY DEF ToSet
      <4> QED
        BY <1>3, <3>1, <4>1
    <3>4. HandlerAt(l, k)
      BY <1>4, <1>5, <2>4, <3>1 DEF HandlerAt, Marked
    <3>5. \A x \in HeldAt(l, k) : rows'[x].state = "MATERIALIZING"
      BY <2>2, <3>2, <3>3
    <3>6. HeldAt(l, k) \subseteq HeldAt(pc[w], j) \cup ClaimedAt(pc[w], j)
      BY <2>1, <3>2
    <3>7. \A u \in Workers \ {w} : loop = u => loop' = u
      BY <2>1
    <3> QED
      BY <1>1, <1>j, <1>8, <3>2, <3>4, <3>5, <3>6, <3>7, MoveHeld
  <2> QED
    BY <1>1, <1>9, <2>3, <2>4
<1>10. CASE j.purpose = "reset"
  <2>1. HeldAt(pc[w], j) = ToSet(j.todo)
    BY <1>2, <1>10, HeldFacts
  <2>2. CASE l = "get"
    <3>1. k.todo = Tail(j.todo) /\ k.purpose = "reset" /\ UNCHANGED loop
      BY <1>1, <1>10, <2>2
    <3>2. /\ HeldAt(l, k) = ToSet(Tail(j.todo)) /\ ClaimedAt(l, k) = {} /\ ~Reserving(l, k)
      BY <2>2, <3>1, HeldFacts DEF Reserving
    <3>3. HandlerAt(l, k)
      BY <1>3, <1>4, <1>5, <2>2, <3>1 DEF HandlerAt
    <3>4. HeldAt(l, k) \subseteq HeldAt(pc[w], j)
      BY <1>3, <2>1, <3>2
    <3>5. ASSUME NEW x \in HeldAt(l, k) PROVE rows'[x].state = "MATERIALIZING"
      <4>1. x \in HeldAt(pc[w], job[w]) /\ x # v
        BY <1>3, <1>4, <1>j, <3>2, <3>4, <3>5
      <4> QED
        BY <1>h, <1>6, <1>u, <4>1
    <3> QED
      BY <1>1, <1>j, <1>8, <3>1, <3>2, <3>3, <3>4, <3>5, MoveHeld
  <2>3. CASE l = "failed"
    <3>1. l \in Ended /\ UNCHANGED loop
      BY <1>1, <2>3 DEF Ended
    <3>2. HeldAt(l, k) = {} /\ ClaimedAt(l, k) = {} /\ ~Reserving(l, k)
      BY <3>1, HeldFacts
    <3> QED
      BY <1>1, <1>j, <1>8, <3>1, <3>2, MoveHeld
  <2> QED
    BY <1>1, <1>10, <2>2, <2>3
<1> QED
  BY <1>4, <1>9, <1>10

\* The steps of materialize preserve HeldOK while the engine does not fail.
LEMMA StoreHeld ==
    ASSUME ControlInv, HeldOK, Calm, backend = "file", failures = 0, failures' = 0, NEW w \in Workers,
           Fetch(w) \/ Transition(w) \/ RunEngine(w) \/ Rollback(w) \/ Record(w) \/ RecordPut(w)
    PROVE  HeldOK'
<1>j. PICK j \in JobType : j = job[w] /\ ControlAt(pc[w], j)
  BY JobFacts
<1>h. /\ HandlerAt(pc[w], j)
      /\ \A u \in Workers : \A x \in HeldAt(pc[u], job[u]) : rows[x].state = "MATERIALIZING"
      /\ \A u \in Workers \ {w} : HeldAt(pc[w], j) \cap HeldAt(pc[u], job[u]) = {}
  BY <1>j DEF HeldOK
<1>t. /\ j.todo \in Seq(Views) /\ j.views \in Seq(Views) /\ j.current \in Seq(Views)
      /\ j.later \in Seq(Views) /\ j.objs \in [Views -> Row]
      /\ rows \in [Views -> Row] /\ batch \in BOOLEAN
  BY JobFacts DEF JobType
<1> DEFINE v == Head(j.todo)
<1>e. ToSet(<<>>) = {}
  BY DEF ToSet
<1>1. CASE Fetch(w)
  <2>0. Current = rows /\ UNCHANGED rows
    BY <1>1, Steady DEF Fetch
  <2>1. PICK l, k :
             /\ Moves(w, l, k) /\ Called(j, k) /\ k.prev = j.prev
             /\ \/ /\ l = AfterRaise(j) /\ Same(j, k)
                   /\ k.todo = j.views /\ k.stuck = <<>> /\ k.purpose = "reset"
                \/ /\ k.objs = [j.objs EXCEPT ![v] = rows[v]]
                   /\ k.start = [j.start EXCEPT ![v] = StartDate(j, rows[v])]
                   /\ \/ l = "fetch" /\ k.todo = Tail(j.todo) /\ k.purpose = j.purpose
                      \/ /\ l = "transition" /\ Tail(j.todo) = <<>>
                         /\ k.todo = First(j.views) /\ k.current = First(j.views)
                         /\ k.later = IF batch THEN <<>> ELSE Tail(j.views)
    BY <1>1, <1>j, <2>0, FetchMoves
  <2>2. pc[w] = "fetch" /\ UNCHANGED <<rows, loop>> /\ j.todo # <<>> /\ j.views # <<>>
    BY <1>1, <1>j, <2>0 DEF Fetch, ControlAt, Listing, Ended
  <2>3. /\ j.mode = "async" /\ IsInjective(j.views) /\ j.purpose = "reserve"
        /\ Marked(j, ToSet(j.views) \ ToSet(j.todo))
    BY <1>h, <2>2 DEF HandlerAt, Ended
  <2>4. HeldAt(pc[w], j) = ToSet(j.views)
    BY <2>2, HeldFacts
  <2>5. k.mode = "async" /\ k.views = j.views
    BY <2>1, <2>3 DEF Called
  <2>6. CASE l = AfterRaise(j) /\ k.todo = j.views /\ k.stuck = <<>> /\ k.purpose = "reset"
    <3>1. l = "stuck"
      BY <2>3, <2>6 DEF AfterRaise
    <3>2. Apart(k.stuck, k.todo)
      BY <1>e, <2>3, <2>6 DEF Apart, IsInjective
    <3>3. HandlerAt(l, k) /\ ~Reserving(l, k)
      BY <2>3, <2>5, <2>6, <3>1, <3>2 DEF HandlerAt, Reserving
    <3>4. HeldAt(l, k) \subseteq HeldAt(pc[w], j) /\ ClaimedAt(l, k) = {}
      <4>1. HeldAt(l, k) = ToSet(k.stuck) \cup ToSet(k.todo) /\ ClaimedAt(l, k) = {}
        BY <3>1, HeldFacts
      <4> QED
        BY <1>e, <2>4, <2>6, <4>1
    <3> QED
      BY <1>j, <2>1, <2>2, <3>3, <3>4, QuietHeld
  <2>7. CASE k.objs = [j.objs EXCEPT ![v] = rows[v]]
    <3>1. /\ v \in Views /\ ToSet(j.todo) = {v} \cup ToSet(Tail(j.todo))
      BY <1>t, <2>2, HeadFacts
    <3>2. Marked(k, ToSet(j.views) \ ToSet(Tail(j.todo)))
      <4> SUFFICES ASSUME NEW x \in ToSet(j.views) \ ToSet(Tail(j.todo))
                   PROVE  k.objs[x].state = "MATERIALIZING"
        BY DEF Marked
      <4>1. x \in Views
        <5>1. ToSet(j.views) \subseteq Views
          BY <1>t, ListFacts
        <5> QED
          BY <5>1
      <4>2. CASE x = v
        <5>1. k.objs[x] = rows[x]
          BY <1>t, <2>7, <4>1, <4>2
        <5>2. rows[x].state = "MATERIALIZING"
          BY <1>h, <1>j, <2>4
        <5> QED
          BY <5>1, <5>2
      <4>3. CASE x # v
        <5>1. k.objs[x] = j.objs[x]
          BY <1>t, <2>7, <4>1, <4>3
        <5>2. x \in ToSet(j.views) \ ToSet(j.todo)
          BY <3>1, <4>3
        <5> QED
          BY <2>3, <5>1, <5>2 DEF Marked
      <4> QED
        BY <4>2, <4>3
    <3> HIDE DEF v
    <3>3. CASE l = "fetch" /\ k.todo = Tail(j.todo) /\ k.purpose = j.purpose
      <4>1. HandlerAt(l, k) /\ ~Reserving(l, k)
        BY <2>3, <2>5, <3>2, <3>3 DEF HandlerAt, Reserving
      <4>2. HeldAt(l, k) = HeldAt(pc[w], j) /\ ClaimedAt(l, k) = {}
        BY <2>4, <2>5, <3>3, HeldFacts
      <4> QED
        BY <1>j, <2>1, <2>2, <4>1, <4>2, QuietHeld
    <3>4. CASE /\ l = "transition" /\ Tail(j.todo) = <<>>
               /\ k.todo = First(j.views) /\ k.current = First(j.views)
               /\ k.later = IF batch THEN <<>> ELSE Tail(j.views)
      <4>1. ToSet(k.current) \cup ToSet(k.later) = ToSet(j.views) /\ Apart(k.current, k.later)
        BY <1>t, <2>2, <2>3, <3>4, FirstFacts
      <4>2. Marked(k, ToSet(k.current) \cup ToSet(k.later))
        BY <1>e, <3>2, <3>4, <4>1
      <4>3. HandlerAt(l, k) /\ ~Reserving(l, k)
        BY <2>3, <2>5, <3>4, <4>1, <4>2 DEF HandlerAt, Reserving
      <4>4. HeldAt(l, k) = HeldAt(pc[w], j) /\ ClaimedAt(l, k) = {}
        BY <2>4, <3>4, <4>1, HeldFacts
      <4> QED
        BY <1>j, <2>1, <2>2, <4>3, <4>4, QuietHeld
    <3> QED
      BY <2>1, <2>6, <3>3, <3>4
  <2> QED
    BY <2>1, <2>6, <2>7
<1>2. CASE Transition(w)
  <2>1. PICK l, k, p, o, base : TransitionEffect(w, j, l, k, p, o, base)
    BY <1>2, <1>j, TransitionMoves
  <2>2. pc[w] = "transition" /\ UNCHANGED loop /\ j.todo # <<>>
    BY <1>2, <1>j DEF Transition
  <2>3. /\ j.mode = "async" /\ IsInjective(j.views) /\ Apart(j.current, j.later)
        /\ Marked(j, ToSet(j.current) \cup ToSet(j.later))
        /\ ToSet(j.todo) \subseteq ToSet(j.current)
    BY <1>h, <2>2 DEF HandlerAt, Ended
  <2>4. ToSet(j.todo) = {v} \cup ToSet(Tail(j.todo))
    BY <1>t, <2>2, HeadFacts
  <2>5. j.objs[v].state = "MATERIALIZING"
    BY <2>3, <2>4 DEF Marked
  <2>6. /\ Moves(w, l, k) /\ Called(j, k)
        /\ l = "transition" /\ UNCHANGED rows /\ k.objs = j.objs
        /\ k.todo = Tail(j.todo) /\ k.current = j.current /\ k.later = j.later
    BY <2>1, <2>5 DEF TransitionEffect, registry
  <2>7. HandlerAt(l, k) /\ ~Reserving(l, k)
    <3>1. k.mode = "async" /\ k.views = j.views
      BY <2>3, <2>6 DEF Called
    <3>2. Marked(k, ToSet(k.current) \cup ToSet(k.later)) /\ ToSet(k.todo) \subseteq ToSet(k.current)
      BY <2>3, <2>4, <2>6 DEF Marked
    <3> HIDE DEF v
    <3> QED
      BY <2>3, <2>6, <3>1, <3>2 DEF HandlerAt, Reserving
  <2>8. HeldAt(l, k) = HeldAt(pc[w], j) /\ ClaimedAt(l, k) = {}
    BY <2>2, <2>6, HeldFacts
  <2> QED
    BY <1>j, <2>2, <2>6, <2>7, <2>8, QuietHeld
<1>3. CASE RunEngine(w)
  <2>1. PICK l, k, bad, raising, failed : EngineEffect(w, j, l, k, bad, raising, failed)
    BY <1>3, <1>j, EngineMoves
  <2>2. pc[w] = "transition" /\ UNCHANGED <<rows, loop>>
    BY <1>3 DEF RunEngine, registry
  <2>3. /\ j.mode = "async" /\ IsInjective(j.views) /\ Apart(j.current, j.later)
        /\ Marked(j, ToSet(j.current) \cup ToSet(j.later))
    BY <1>h, <2>2 DEF HandlerAt, Ended
  <2>4. bad = {}
    BY <2>1 DEF EngineEffect
  <2>5. Moves(w, l, k) /\ Same(j, k) /\ ~raising /\ Settled(j, <<>>, j.current, raising, l, k)
    BY <2>1, <2>4 DEF EngineEffect
  <2>6. k.mode = "async" /\ k.views = j.views /\ k.objs = j.objs
    BY <2>3, <2>5 DEF Same, Called
  <2>7. HeldAt(pc[w], j) = ToSet(j.current) \cup ToSet(j.later)
    BY <2>2, HeldFacts
  <2>8. CASE l = "record"
    <3>1. k.todo = j.current /\ k.later = j.later /\ ~k.failing
      BY <2>5, <2>8 DEF Settled
    <3>2. Marked(k, ToSet(k.later))
      BY <2>3, <2>6, <3>1 DEF Marked
    <3>3. HandlerAt(l, k) /\ ~Reserving(l, k)
      BY <2>3, <2>6, <2>8, <3>1, <3>2 DEF HandlerAt, Reserving
    <3>4. HeldAt(l, k) = HeldAt(pc[w], j) /\ ClaimedAt(l, k) = {}
      BY <2>7, <2>8, <3>1, HeldFacts
    <3> QED
      BY <1>j, <2>2, <2>5, <3>3, <3>4, QuietHeld
  <2>9. CASE l = "transition"
    <3>1. /\ k.todo = First(j.later) /\ k.current = First(j.later) /\ j.later # <<>>
          /\ k.later = IF batch THEN <<>> ELSE Tail(j.later)
      BY <2>5, <2>9 DEF Settled
    <3>2. ToSet(k.current) \cup ToSet(k.later) = ToSet(j.later) /\ Apart(k.current, k.later)
      BY <1>t, <2>3, <3>1, FirstFacts DEF Apart
    <3>3. Marked(k, ToSet(k.current) \cup ToSet(k.later))
      BY <2>3, <2>6, <3>2 DEF Marked
    <3>4. HandlerAt(l, k) /\ ~Reserving(l, k)
      BY <2>3, <2>6, <2>9, <3>1, <3>2, <3>3 DEF HandlerAt, Reserving
    <3>5. HeldAt(l, k) \subseteq HeldAt(pc[w], j) /\ ClaimedAt(l, k) = {}
      BY <2>7, <2>9, <3>2, HeldFacts
    <3> QED
      BY <1>j, <2>2, <2>5, <3>4, <3>5, QuietHeld
  <2>10. CASE l = "done"
    <3>1. l \in Ended
      BY <2>10 DEF Ended
    <3>2. HeldAt(l, k) = {} /\ ClaimedAt(l, k) = {} /\ ~Reserving(l, k)
      BY <3>1, HeldFacts
    <3> QED
      BY <1>j, <2>2, <2>5, <3>1, <3>2, QuietHeld
  <2> QED
    BY <2>5, <2>8, <2>9, <2>10 DEF Settled
<1>4. CASE Rollback(w)
  <2>1. pc[w] = "rollback"
    BY <1>4 DEF Rollback
  <2> QED
    BY <1>h, <2>1 DEF HandlerAt
<1>5. CASE Record(w)
  BY <1>5 DEF Record
<1>6. CASE RecordPut(w)
  <2>1. PICK l, k, o :
          /\ Moves(w, l, k) /\ Same(j, k) /\ o \in Row
          /\ rows' = [rows EXCEPT ![v] = o]
          /\ Settled(j, <<>>, Tail(j.todo), j.failing, l, k)
    BY <1>6, <1>j, RecordSteady
  <2>2. pc[w] = "record" /\ UNCHANGED loop /\ j.todo # <<>>
    BY <1>6, <1>j DEF RecordPut, ControlAt, Listing
  <2>3. /\ j.mode = "async" /\ IsInjective(j.views) /\ Apart(j.todo, j.later) /\ ~j.failing
        /\ Marked(j, ToSet(j.later))
    BY <1>h, <2>2 DEF HandlerAt, Ended
  <2>4. /\ v \in Views /\ ToSet(j.todo) = {v} \cup ToSet(Tail(j.todo))
        /\ IsInjective(Tail(j.todo)) /\ v \notin ToSet(Tail(j.todo))
    BY <1>t, <2>2, <2>3, HeadFacts DEF Apart
  <2>5. k.mode = "async" /\ k.views = j.views /\ k.objs = j.objs
    BY <2>1, <2>3 DEF Same, Called
  <2>6. HeldAt(pc[w], j) = ToSet(j.todo) \cup ToSet(j.later)
    BY <2>2, HeldFacts
  <2> HIDE DEF v
  <2>7. \A x : x # v => rows'[x] = rows[x]
    <3>1. rows' = [rows EXCEPT ![v] = o]
      BY <2>1
    <3> QED
      BY <1>t, <2>4, <3>1
  <2>8. \A u \in Workers \ {w} : \A x \in HeldAt(pc[u], job[u]) : rows'[x].state = "MATERIALIZING"
    BY <1>h, <2>4, <2>6, <2>7
  <2>9. ASSUME NEW x \in ToSet(Tail(j.todo)) \cup ToSet(j.later)
        PROVE  rows'[x].state = "MATERIALIZING"
    <3>1. x # v /\ x \in HeldAt(pc[w], job[w])
      BY <1>j, <2>3, <2>4, <2>6 DEF Apart
    <3> QED
      BY <1>h, <2>7, <3>1
  <2>10. CASE l = "record"
    <3>1. k.todo = Tail(j.todo) /\ k.later = j.later /\ ~k.failing
      BY <2>1, <2>3, <2>10 DEF Settled
    <3>2. Marked(k, ToSet(k.later)) /\ Apart(k.todo, k.later)
      BY <2>3, <2>4, <2>5, <3>1 DEF Marked, Apart
    <3>3. HandlerAt(l, k) /\ ~Reserving(l, k)
      BY <2>3, <2>5, <2>10, <3>1, <3>2 DEF HandlerAt, Reserving
    <3>4. HeldAt(l, k) = ToSet(Tail(j.todo)) \cup ToSet(j.later) /\ ClaimedAt(l, k) = {}
      BY <2>10, <3>1, HeldFacts
    <3>5. HeldAt(l, k) \subseteq HeldAt(pc[w], j) /\ \A x \in HeldAt(l, k) : rows'[x].state = "MATERIALIZING"
      BY <2>4, <2>6, <2>9, <3>4
    <3> QED
      BY <1>j, <2>1, <2>2, <2>8, <3>3, <3>4, <3>5, MoveHeld
  <2>11. CASE l = "transition"
    <3>1. /\ k.todo = First(j.later) /\ k.current = First(j.later) /\ j.later # <<>>
          /\ k.later = IF batch THEN <<>> ELSE Tail(j.later)
      BY <2>1, <2>11 DEF Settled
    <3>2. ToSet(k.current) \cup ToSet(k.later) = ToSet(j.later) /\ Apart(k.current, k.later)
      BY <1>t, <2>3, <3>1, FirstFacts DEF Apart
    <3>3. Marked(k, ToSet(k.current) \cup ToSet(k.later))
      BY <2>3, <2>5, <3>2 DEF Marked
    <3>4. HandlerAt(l, k) /\ ~Reserving(l, k)
      BY <2>3, <2>5, <2>11, <3>1, <3>2, <3>3 DEF HandlerAt, Reserving
    <3>5. HeldAt(l, k) = ToSet(j.later) /\ ClaimedAt(l, k) = {}
      BY <2>11, <3>2, HeldFacts
    <3>6. HeldAt(l, k) \subseteq HeldAt(pc[w], j) /\ \A x \in HeldAt(l, k) : rows'[x].state = "MATERIALIZING"
      BY <2>6, <2>9, <3>5
    <3> QED
      BY <1>j, <2>1, <2>2, <2>8, <3>4, <3>5, <3>6, MoveHeld
  <2>12. CASE l = "done"
    <3>1. l \in Ended
      BY <2>12 DEF Ended
    <3>2. HeldAt(l, k) = {} /\ ClaimedAt(l, k) = {} /\ ~Reserving(l, k)
      BY <3>1, HeldFacts
    <3> QED
      BY <1>j, <2>1, <2>2, <2>8, <3>1, <3>2, MoveHeld
  <2>13. l \in {"record", "transition", "done"}
    BY <2>1, <2>3 DEF Settled
  <2> QED
    BY <2>10, <2>11, <2>12, <2>13
<1> QED
  BY <1>1, <1>2, <1>3, <1>4, <1>5, <1>6

\* Every step preserves HeldInv.
LEMMA NextHeld ==
    ASSUME Reservations, ControlInv, SyncInv, EditInv, HeldInv, [Next]_vars
    PROVE  HeldInv'
<1>r. (~raced' => ~raced) /\ UNCHANGED fixed
  BY NextSync
<1> SUFFICES ASSUME backend' = "file", failures' = 0, ~raced' PROVE HeldOK'
  BY DEF HeldInv
<1>0. failures \in Nat
  BY BoundsAssumption DEF ControlInv, Typed, TypeOK
<1>c. Calm /\ backend = "file" /\ ~raced
  BY <1>r DEF Calm, SyncInv, fixed
<1>1. ASSUME NEW w \in Workers, Start(w) \/ Call(w) PROVE HeldOK'
  <2>2. failures = 0
    <3>1. CASE RunEngine(w)
      <4>1. failures' = failures \/ failures' = failures + 1
        BY <3>1 DEF RunEngine
      <4> QED
        BY <1>0, <4>1
    <3>2. CASE ~RunEngine(w)
      BY <1>1, <3>2 DEF Start, Call, Check, CollectStuck, GetView, PutView, Fetch, Transition,
                        Rollback, Record, RecordPut
    <3> QED
      BY <3>1, <3>2
  <2>3. HeldOK
    BY <1>c, <2>2 DEF HeldInv
  <2> QED
    BY <1>c, <1>1, <2>2, <2>3, ReserveHeld, PutHeld, StoreHeld DEF Call
<1>2. ASSUME Aside PROVE HeldOK'
  <2>1. UNCHANGED <<loop, pc, job, failures>>
    BY <1>2, AsideControl
  <2>2. HeldOK
    BY <1>c, <2>1 DEF HeldInv
  <2>4. \A u \in Workers : \A x \in HeldAt(pc[u], job[u]) : rows'[x].state = "MATERIALIZING"
    <3>1. CASE UNCHANGED rows
      BY <2>2, <3>1 DEF HeldOK
    <3>2. CASE \E v \in Views, o \in Row : /\ o.state \in UserStates
                                          /\ rows' = [rows EXCEPT ![v] = Applied(o, rows[v])]
      <4>1. PICK v \in Views, o \in Row : /\ o.state \in UserStates
                                          /\ rows' = [rows EXCEPT ![v] = Applied(o, rows[v])]
        BY <3>2
      <4>2. rows \in [Views -> Row] /\ rows[v] \in Row /\ o.state = "MATERIALIZING"
        BY <4>1 DEF ControlInv, Typed, TypeOK, Reservations
      <4>3. Applied(o, rows[v]).state = "MATERIALIZING"
        BY <1>c, <4>2, FileApplies
      <4>4. rows'[v].state = "MATERIALIZING" /\ \A x : x # v => rows'[x] = rows[x]
        BY <4>1, <4>2, <4>3
      <4> QED
        BY <2>2, <4>4 DEF HeldOK
    <3> QED
      BY <1>c, <1>2, <3>1, <3>2, AsideRows
  <2> QED
    BY <2>1, <2>2, <2>4 DEF HeldOK
<1>3. ASSUME Crash(Workers) PROVE HeldOK'
  <2>1. \A u \in Workers : pc'[u] \in Ended /\ job'[u] = NoJob
    BY <1>3, CrashEffect
  <2>3. ASSUME NEW l \in Ended
        PROVE  /\ HandlerAt(l, NoJob) /\ ~Reserving(l, NoJob)
               /\ HeldAt(l, NoJob) = {} /\ ClaimedAt(l, NoJob) = {}
    <3>1. HandlerAt(l, NoJob)
      BY DEF HandlerAt, Ended
    <3> QED
      BY <3>1, HeldFacts
  <2>4. ASSUME NEW u \in Workers
        PROVE  /\ HandlerAt(pc'[u], job'[u]) /\ ~Reserving(pc'[u], job'[u])
               /\ HeldAt(pc'[u], job'[u]) = {} /\ ClaimedAt(pc'[u], job'[u]) = {}
    BY <2>1, <2>3
  <2> QED
    BY <2>4 DEF HeldOK
<1>4. ASSUME UNCHANGED vars PROVE HeldOK'
  <2>1. HeldOK /\ UNCHANGED <<pc, job, rows, loop>>
    BY <1>4, <1>c DEF HeldInv, vars, registry
  <2> QED
    BY <2>1 DEF HeldOK
<1> QED
  BY <1>c, <1>1, <1>2, <1>3, <1>4, NextCases

\* The initial states satisfy HeldInv.
LEMMA InitHeld == Init => HeldInv
<1> SUFFICES ASSUME Init PROVE HeldOK
  BY DEF HeldInv
<1>1. \A u \in Workers : pc[u] = "idle" /\ job[u] = NoJob
  BY DEF Init
<1>2. /\ HandlerAt("idle", NoJob) /\ ~Reserving("idle", NoJob)
      /\ HeldAt("idle", NoJob) = {} /\ ClaimedAt("idle", NoJob) = {}
  <2>1. HandlerAt("idle", NoJob)
    BY DEF HandlerAt, Ended
  <2>2. "idle" \in Ended
    BY DEF Ended
  <2> QED
    BY <2>1, <2>2, HeldFacts
<1> QED
  BY <1>1, <1>2 DEF HeldOK

\* The initial states have the file and its copy in agreement.
LEMMA InitSync == Init => SyncInv /\ EditInv
  BY DEF Init, SyncInv, SyncOK, EditInv, Pending

\* With the file registry and one server, no two asynchronous jobs materialize a view
\* at the same time, as long as no job has failed and no thread has used the registry in
\* the middle of another one's change: the check for a conflict and the reservation are
\* one uninterrupted run of the event loop, and a job gives a view back only after its
\* last step on it.
THEOREM ReservationsExclude ==
    ASSUME Reservations
    PROVE  Spec => []ExclusiveWhileNothingFails
<1>1. Spec => [](ControlInv /\ HeldInv)
  <2> DEFINE All == ControlInv /\ SyncInv /\ EditInv /\ HeldInv
  <2>1. All /\ [Next]_vars => All'
    BY NextControl, NextSync, NextHeld
  <2>2. Init => All
    BY InitControl, InitSync, InitHeld
  <2> QED
    BY <2>1, <2>2, PTL DEF Spec
<1>2. ASSUME ControlInv, HeldInv PROVE ExclusiveWhileNothingFails
  <2> SUFFICES ASSUME backend = "file", failures = 0, ~raced, NEW w \in Workers, NEW u \in Workers,
                      NEW v \in Views, Working(w, v), Working(u, v)
               PROVE  w = u
    BY DEF ExclusiveWhileNothingFails, Exclusive
  <2>1. HeldOK
    BY <1>2 DEF HeldInv
  <2>2. ASSUME NEW x \in Workers, Working(x, v) PROVE v \in HeldAt(pc[x], job[x])
    <3>1. job[x].current \in Seq(Views) /\ job[x].later \in Seq(Views)
      BY <1>2, JobFacts DEF JobType
    <3>2. CASE pc[x] = "fetch" /\ v \in ToSet(job[x].views)
      BY <3>2, HeldFacts
    <3>3. CASE pc[x] = "transition" /\ v \in ToSet(job[x].current \o job[x].later)
      <4>1. ASSUME NEW s \in Seq(Views), NEW t \in Seq(Views)
            PROVE  ToSet(s \o t) \subseteq ToSet(s) \cup ToSet(t)
        <5> SUFFICES ASSUME NEW i \in DOMAIN (s \o t)
                     PROVE  (s \o t)[i] \in ToSet(s) \cup ToSet(t)
          BY DEF ToSet
        <5>1. CASE i <= Len(s)
          <6>1. i \in DOMAIN s /\ (s \o t)[i] = s[i]
            BY <5>1
          <6> QED
            BY <6>1 DEF ToSet
        <5>2. CASE ~(i <= Len(s))
          <6>1. i - Len(s) \in DOMAIN t /\ (s \o t)[i] = t[i - Len(s)]
            BY <5>2
          <6> QED
            BY <6>1 DEF ToSet
        <5> QED
          BY <5>1, <5>2
      <4>2. v \in ToSet(job[x].current) \cup ToSet(job[x].later)
        BY <3>1, <3>3, <4>1
      <4> QED
        BY <3>3, <4>2, HeldFacts
    <3> QED
      BY <2>2, <3>2, <3>3 DEF Working
  <2>3. v \in HeldAt(pc[w], job[w]) \cap HeldAt(pc[u], job[u])
    BY <2>2
  <2> QED
    BY <2>1, <2>3 DEF HeldOK
<1> QED
  BY <1>1, <1>2, PTL

-------------------------------------------------------------------------------
(* A view is MATERIALIZING only while a call has still to end that *)

\* No process dies, and nobody sets MATERIALIZING by hand.
Undisturbed == ~MayCrash /\ "MATERIALIZING" \notin UserStates

Async(j) == j.mode # "sync"

\* The copies of the views in S have a state.
Copied(j, S) == \A v \in S : j.objs[v].state # "UNSPECIFIED"

\* The views in S that a rollback writes.
Undone(j, S) == {v \in S : j.prev[v] # "UNSPECIFIED"}

\* The views that a call at l with j takes out of MATERIALIZING before it ends.  An
\* asynchronous call that raises looks at all its views; others undo what they did.
OwedAt(l, j) ==
    CASE l = "stuck" /\ j.purpose = "reset" -> ToSet(j.stuck) \cup ToSet(j.todo)
      [] l \in {"get", "put"} /\ j.purpose = "reset" -> ToSet(j.todo)
      [] l \in {"get", "put"} /\ j.purpose = "reserve" -> ToSet(j.views) \ ToSet(j.todo)
      [] l = "fetch" /\ Async(j) -> ToSet(j.views)
      [] l = "transition" /\ Async(j) -> ToSet(j.current) \cup ToSet(j.later)
      [] l = "transition" /\ ~Async(j) -> Undone(j, ToSet(j.current) \ ToSet(j.todo))
      [] l \in {"rollback", "record"} ->
           Undone(j, ToSet(j.todo)) \cup ToSet(j.good)
           \cup (IF ~Async(j) THEN {} ELSE IF j.failing THEN ToSet(j.views) ELSE ToSet(j.later))
      [] OTHER -> {}

\* A call that has reserved views and has not read them all again.
Fresh(l, j) == (l \in {"get", "put"} /\ j.purpose = "reserve") \/ (l = "fetch" /\ Async(j))

\* What holds of the local variables j of a call that is at label l: an asynchronous
\* call, having reserved its views, has a state to give back to each of them.
CallAt(l, j) ==
    /\ l \notin Ended => IsInjective(j.views)
    /\ l \in {"check", "stuck", "get", "put"} => Async(j)
    /\ l \in {"get", "put"} => /\ ToSet(j.todo) \subseteq ToSet(j.views)
                               /\ j.purpose = "reserve" => IsInjective(j.todo)
    /\ l = "stuck" => /\ ToSet(j.stuck) \cup ToSet(j.todo) \subseteq ToSet(j.views)
                      /\ j.purpose # "reserve"
    /\ l = "fetch" /\ Async(j) => Copied(j, ToSet(j.views) \ ToSet(j.todo))
    /\ l \in {"transition", "rollback", "record"} =>
         /\ IsInjective(j.later) /\ ToSet(j.later) \subseteq ToSet(j.views)
         /\ Async(j) => Copied(j, ToSet(j.views))
    /\ l = "transition" =>
         /\ IsInjective(j.todo) /\ ToSet(j.todo) \subseteq ToSet(j.current)
         /\ ToSet(j.current) \subseteq ToSet(j.views)
         /\ Async(j) => \A v \in ToSet(j.current) \ ToSet(j.todo) : j.prev[v] # "UNSPECIFIED"
    /\ l \in {"rollback", "record"} => ToSet(j.todo) \cup ToSet(j.good) \subseteq ToSet(j.views)
    /\ l = "rollback" /\ Async(j) => \A v \in ToSet(j.todo) : j.prev[v] # "UNSPECIFIED"

OwedOK ==
    /\ \A w \in Workers : CallAt(pc[w], job[w])
    /\ \A w \in Workers : Fresh(pc[w], job[w]) =>
         \A v \in OwedAt(pc[w], job[w]) : rows[v].state # "UNSPECIFIED"
    /\ \A v \in Views : rows[v].state = "MATERIALIZING" =>
         \E w \in Workers : v \in OwedAt(pc[w], job[w])

OwedInv == (backend = "file" /\ ~raced) => OwedOK

\* The cases of OwedAt.
LEMMA OwedFacts ==
    ASSUME NEW j
    PROVE  /\ \A l \in Ended \cup {"check"} : OwedAt(l, j) = {} /\ ~Fresh(l, j)
           /\ ~Fresh("stuck", j) /\ ~Fresh("transition", j) /\ ~Fresh("rollback", j)
           /\ ~Fresh("record", j)
           /\ OwedAt("stuck", j) = IF j.purpose = "reset" THEN ToSet(j.stuck) \cup ToSet(j.todo)
                                   ELSE {}
           /\ \A l \in {"get", "put"} :
                /\ j.purpose = "reset" => OwedAt(l, j) = ToSet(j.todo) /\ ~Fresh(l, j)
                /\ j.purpose = "reserve" => OwedAt(l, j) = ToSet(j.views) \ ToSet(j.todo)
                /\ j.purpose = "force" => OwedAt(l, j) = {} /\ ~Fresh(l, j)
           /\ OwedAt("fetch", j) = IF Async(j) THEN ToSet(j.views) ELSE {}
           /\ Async(j) => OwedAt("transition", j) = ToSet(j.current) \cup ToSet(j.later)
           /\ ~Async(j) => OwedAt("transition", j) = Undone(j, ToSet(j.current) \ ToSet(j.todo))
           /\ \A l \in {"rollback", "record"} :
                OwedAt(l, j) = Undone(j, ToSet(j.todo)) \cup ToSet(j.good)
                               \cup (IF ~Async(j) THEN {}
                                     ELSE IF j.failing THEN ToSet(j.views) ELSE ToSet(j.later))
<1>1. \A l \in Ended \cup {"check"} : OwedAt(l, j) = {} /\ ~Fresh(l, j)
  BY DEF Ended, OwedAt, Fresh
<1>2. /\ ~Fresh("stuck", j) /\ ~Fresh("transition", j) /\ ~Fresh("rollback", j)
      /\ ~Fresh("record", j)
  BY DEF Fresh
<1>3. OwedAt("stuck", j) = IF j.purpose = "reset" THEN ToSet(j.stuck) \cup ToSet(j.todo) ELSE {}
  BY DEF OwedAt
<1>4. ASSUME NEW l \in {"get", "put"}
      PROVE  /\ j.purpose = "reset" => OwedAt(l, j) = ToSet(j.todo) /\ ~Fresh(l, j)
             /\ j.purpose = "reserve" => OwedAt(l, j) = ToSet(j.views) \ ToSet(j.todo)
             /\ j.purpose = "force" => OwedAt(l, j) = {} /\ ~Fresh(l, j)
  BY DEF OwedAt, Fresh
<1>5. OwedAt("fetch", j) = IF Async(j) THEN ToSet(j.views) ELSE {}
  BY DEF OwedAt
<1>6. /\ Async(j) => OwedAt("transition", j) = ToSet(j.current) \cup ToSet(j.later)
      /\ ~Async(j) => OwedAt("transition", j) = Undone(j, ToSet(j.current) \ ToSet(j.todo))
  BY DEF OwedAt
<1>7. ASSUME NEW l \in {"rollback", "record"}
      PROVE  OwedAt(l, j) = Undone(j, ToSet(j.todo)) \cup ToSet(j.good)
                            \cup (IF ~Async(j) THEN {}
                                  ELSE IF j.failing THEN ToSet(j.views) ELSE ToSet(j.later))
  BY DEF OwedAt
<1> QED
  BY <1>1, <1>2, <1>3, <1>4, <1>5, <1>6, <1>7

\* A call owes only views that it names.
LEMMA OwedIsNamed ==
    ASSUME NEW j \in JobType, NEW l, CallAt(l, j)
    PROVE  OwedAt(l, j) \subseteq ToSet(j.views) /\ ToSet(j.views) \subseteq Views
<1>1. ToSet(j.views) \subseteq Views
  <2>1. j.views \in Seq(Views)
    BY DEF JobType
  <2> QED
    BY <2>1, ListFacts
<1>2. OwedAt(l, j) \subseteq ToSet(j.views)
  BY DEF OwedAt, CallAt, Undone
<1> QED
  BY <1>1, <1>2

\* OwedOK after a move: no view loses its state, and a view that is MATERIALIZING is
\* owed by the worker that moved, or it was before and not by that worker.
LEMMA MoveOwed ==
    ASSUME ControlInv, OwedOK, NEW w \in Workers, NEW j, j = job[w], NEW l, NEW k,
           Moves(w, l, k), l \notin Ended => CallAt(l, k),
           \A v \in Views : rows[v].state # "UNSPECIFIED" => rows'[v].state # "UNSPECIFIED",
           Fresh(l, k) => \A v \in OwedAt(l, k) : rows'[v].state # "UNSPECIFIED",
           \A v \in Views : rows'[v].state = "MATERIALIZING" =>
             \/ v \in OwedAt(l, k)
             \/ rows[v].state = "MATERIALIZING" /\ v \notin OwedAt(pc[w], j)
    PROVE  OwedOK'
<1> DEFINE n == IF l \in Ended THEN NoJob ELSE k
<1>1. /\ pc'[w] = l /\ job'[w] = n
      /\ \A u \in Workers \ {w} : pc'[u] = pc[u] /\ job'[u] = job[u]
  BY MoveEffect
<1>2. CallAt(l, n) /\ OwedAt(l, n) = OwedAt(l, k) /\ (Fresh(l, n) => Fresh(l, k))
  <2>1. CASE l \in Ended
    <3>1. CallAt(l, n)
      BY <2>1 DEF CallAt, Ended
    <3> HIDE DEF n
    <3> QED
      BY <2>1, <3>1, OwedFacts
  <2>2. CASE l \notin Ended
    BY <2>2
  <2> QED
    BY <2>1, <2>2
<1> HIDE DEF n
<1>3. ASSUME NEW u \in Workers
      PROVE  /\ CallAt(pc'[u], job'[u])
             /\ Fresh(pc'[u], job'[u]) =>
                  \A v \in OwedAt(pc'[u], job'[u]) : rows'[v].state # "UNSPECIFIED"
  <2>1. CASE u = w
    BY <1>1, <1>2, <2>1
  <2>2. CASE u # w
    <3>1. /\ CallAt(pc[u], job[u]) /\ job[u] \in JobType
          /\ Fresh(pc[u], job[u]) =>
               \A v \in OwedAt(pc[u], job[u]) : rows[v].state # "UNSPECIFIED"
      BY JobFacts DEF OwedOK
    <3>2. OwedAt(pc[u], job[u]) \subseteq Views
      BY <3>1, OwedIsNamed
    <3> QED
      BY <1>1, <2>2, <3>1, <3>2
  <2> QED
    BY <2>1, <2>2
<1>4. ASSUME NEW v \in Views, rows'[v].state = "MATERIALIZING"
      PROVE  \E u \in Workers : v \in OwedAt(pc'[u], job'[u])
  <2>1. CASE v \in OwedAt(l, k)
    BY <1>1, <1>2, <2>1
  <2>2. CASE rows[v].state = "MATERIALIZING" /\ v \notin OwedAt(pc[w], j)
    <3>1. PICK u \in Workers : v \in OwedAt(pc[u], job[u])
      BY <2>2 DEF OwedOK
    <3> QED
      BY <1>1, <2>2, <3>1
  <2> QED
    BY <1>4, <2>1, <2>2
<1> QED
  BY <1>3, <1>4 DEF OwedOK

\* OwedOK after a move that leaves the rows alone.
LEMMA QuietOwed ==
    ASSUME ControlInv, OwedOK, NEW w \in Workers, NEW j, j = job[w], NEW l, NEW k,
           Moves(w, l, k), l \notin Ended => CallAt(l, k), UNCHANGED rows,
           Fresh(l, k) => \A v \in OwedAt(l, k) : rows[v].state # "UNSPECIFIED",
           \A v \in OwedAt(pc[w], j) : rows[v].state = "MATERIALIZING" => v \in OwedAt(l, k)
    PROVE  OwedOK'
<1>1. \A v \in Views : rows[v].state # "UNSPECIFIED" => rows'[v].state # "UNSPECIFIED"
  OBVIOUS
<1>2. Fresh(l, k) => \A v \in OwedAt(l, k) : rows'[v].state # "UNSPECIFIED"
  OBVIOUS
<1>3. \A v \in Views : rows'[v].state = "MATERIALIZING" =>
        \/ v \in OwedAt(l, k)
        \/ rows[v].state = "MATERIALIZING" /\ v \notin OwedAt(pc[w], j)
  OBVIOUS
<1> QED
  BY <1>1, <1>2, <1>3, MoveOwed

\* OwedOK after a move that gives view v the state st.
LEMMA WriteOwed ==
    ASSUME ControlInv, OwedOK, NEW w \in Workers, NEW j, j = job[w], NEW l, NEW k,
           Moves(w, l, k), l \notin Ended => CallAt(l, k), NEW v \in Views, NEW st,
           st # "UNSPECIFIED", rows'[v].state = st, \A x \in Views \ {v} : rows'[x] = rows[x],
           OwedAt(l, k) \subseteq Views,
           Fresh(l, k) => \A x \in OwedAt(l, k) \ {v} : rows[x].state # "UNSPECIFIED",
           OwedAt(pc[w], j) \ {v} \subseteq OwedAt(l, k),
           st = "MATERIALIZING" => v \in OwedAt(l, k)
    PROVE  OwedOK'
<1>1. \A x \in Views : rows[x].state # "UNSPECIFIED" => rows'[x].state # "UNSPECIFIED"
  OBVIOUS
<1>2. Fresh(l, k) => \A x \in OwedAt(l, k) : rows'[x].state # "UNSPECIFIED"
  OBVIOUS
<1>3. \A x \in Views : rows'[x].state = "MATERIALIZING" =>
        \/ x \in OwedAt(l, k)
        \/ rows[x].state = "MATERIALIZING" /\ x \notin OwedAt(pc[w], j)
  OBVIOUS
<1> QED
  BY <1>1, <1>2, <1>3, MoveOwed

\* The rows after a write of one view in the file registry.
LEMMA FileWrites ==
    ASSUME ControlInv, backend = "file", NEW v \in Views, NEW o \in Row,
           o.state # "UNSPECIFIED", rows' = [rows EXCEPT ![v] = Applied(o, rows[v])]
    PROVE  rows'[v].state = o.state /\ \A x \in Views \ {v} : rows'[x] = rows[x]
<1>1. rows \in [Views -> Row] /\ rows[v] \in Row
  BY DEF ControlInv, Typed, TypeOK
<1>2. Applied(o, rows[v]).state = o.state
  BY <1>1, FileApplies
<1> QED
  BY <1>1, <1>2

\* What Settle leaves owed, when good is to be recorded and bad to be rolled back.
LEMMA SettledOwed ==
    ASSUME NEW j \in JobType, NEW k \in JobType, NEW bad \in Seq(Views), NEW good \in Seq(Views),
           NEW raising \in BOOLEAN, NEW l, Settled(j, bad, good, raising, l, k), Called(j, k),
           batch \in BOOLEAN, IsInjective(j.views), IsInjective(j.later),
           ToSet(j.later) \subseteq ToSet(j.views),
           ToSet(bad) \cup ToSet(good) \subseteq ToSet(j.views),
           Async(j) => Copied(k, ToSet(j.views)),
           Async(j) => \A v \in ToSet(bad) : k.prev[v] # "UNSPECIFIED"
    PROVE  /\ l \notin Ended => CallAt(l, k)
           /\ ~Fresh(l, k)
           /\ Undone(k, ToSet(bad)) \cup ToSet(good) \subseteq OwedAt(l, k)
           /\ Async(j) => (IF raising THEN ToSet(j.views) ELSE ToSet(j.later)) \subseteq OwedAt(l, k)
<1>0. k.views = j.views /\ (Async(k) <=> Async(j))
  BY DEF Called, Async
<1>e. ToSet(<<>>) = {} /\ IsInjective(<<>>)
  BY DEF ToSet, IsInjective
<1>1. CASE l = "rollback"
  <2>1. k.todo = bad /\ k.good = good /\ k.later = j.later /\ k.failing = raising
    BY <1>1 DEF Settled, AfterRaise
  <2>2. CallAt("rollback", k)
    BY <1>0, <2>1 DEF CallAt
  <2>3. ~Fresh("rollback", k)
        /\ OwedAt("rollback", k) = Undone(k, ToSet(bad)) \cup ToSet(good)
              \cup (IF ~Async(k) THEN {} ELSE IF raising THEN ToSet(j.views) ELSE ToSet(j.later))
    BY <1>0, <2>1, OwedFacts
  <2> QED
    BY <1>0, <1>1, <2>2, <2>3
<1>2. CASE l = "record"
  <2>1. bad = <<>> /\ k.todo = good /\ k.good = good /\ k.later = j.later /\ k.failing = raising
    BY <1>2 DEF Settled, AfterRaise
  <2>2. CallAt("record", k)
    BY <1>0, <2>1 DEF CallAt
  <2>3. ~Fresh("record", k)
        /\ OwedAt("record", k) = Undone(k, ToSet(good)) \cup ToSet(good)
              \cup (IF ~Async(k) THEN {} ELSE IF raising THEN ToSet(j.views) ELSE ToSet(j.later))
    BY <1>0, <2>1, OwedFacts
  <2>4. Undone(k, ToSet(bad)) = {}
    BY <1>e, <2>1 DEF Undone
  <2> QED
    BY <1>0, <1>2, <2>2, <2>3, <2>4
<1>3. CASE l \in {"failed", "stuck"}
  <2>1. /\ l = AfterRaise(j) /\ raising /\ bad = <<>> /\ good = <<>>
        /\ k.todo = j.views /\ k.stuck = <<>> /\ k.purpose = "reset"
    BY <1>3 DEF Settled
  <2>2. Undone(k, ToSet(bad)) = {} /\ ToSet(good) = {}
    BY <1>e, <2>1 DEF Undone
  <2>3. CASE l = "failed"
    <3>1. ~Async(j) /\ l \in Ended
      BY <2>1, <2>3 DEF AfterRaise, Async, Ended
    <3> QED
      BY <2>2, <3>1, OwedFacts
  <2>4. CASE l = "stuck"
    <3>1. Async(j)
      BY <2>1, <2>4 DEF AfterRaise, Async
    <3>2. CallAt("stuck", k)
      BY <1>0, <1>e, <2>1, <3>1 DEF CallAt
    <3>3. ~Fresh("stuck", k) /\ OwedAt("stuck", k) = ToSet(k.stuck) \cup ToSet(k.todo)
      BY <2>1, OwedFacts
    <3> QED
      BY <2>1, <2>2, <2>4, <3>2, <3>3
  <2> QED
    BY <1>3, <2>3, <2>4
<1>4. CASE l = "transition"
  <2>1. /\ ~raising /\ bad = <<>> /\ good = <<>> /\ j.later # <<>>
        /\ k.todo = First(j.later) /\ k.current = First(j.later)
        /\ k.later = IF batch THEN <<>> ELSE Tail(j.later)
    BY <1>4 DEF Settled, AfterRaise
  <2>2. Undone(k, ToSet(bad)) = {} /\ ToSet(good) = {}
    BY <1>e, <2>1 DEF Undone
  <2>3. /\ ToSet(k.current) \cup ToSet(k.later) = ToSet(j.later)
        /\ IsInjective(k.current) /\ IsInjective(k.later)
    <3>1. j.later \in Seq(Views)
      BY DEF JobType
    <3> QED
      BY <2>1, <3>1, FirstFacts DEF Apart
  <2>4. CallAt("transition", k)
    BY <1>0, <2>1, <2>3 DEF CallAt
  <2>5. ~Fresh("transition", k) /\ (Async(j) => OwedAt("transition", k) = ToSet(j.later))
    BY <1>0, <2>3, OwedFacts
  <2> QED
    BY <1>4, <2>1, <2>2, <2>4, <2>5
<1>5. CASE l = "done"
  <2>1. ~raising /\ bad = <<>> /\ good = <<>> /\ j.later = <<>>
    BY <1>5 DEF Settled, AfterRaise
  <2>2. Undone(k, ToSet(bad)) = {} /\ ToSet(good) = {} /\ ToSet(j.later) = {}
    BY <1>e, <2>1 DEF Undone
  <2>3. l \in Ended
    BY <1>5 DEF Ended
  <2> QED
    BY <2>1, <2>2, <2>3, OwedFacts
<1> QED
  BY <1>1, <1>2, <1>3, <1>4, <1>5 DEF Settled

\* The steps of the handlers that write nothing preserve OwedOK.
LEMMA RequestOwed ==
    ASSUME ControlInv, OwedOK, Calm, NEW w \in Workers,
           Start(w) \/ Check(w) \/ CollectStuck(w) \/ GetView(w)
    PROVE  OwedOK'
<1>j. PICK j \in JobType : j = job[w] /\ ControlAt(pc[w], j)
  BY JobFacts
<1>h. /\ CallAt(pc[w], j)
      /\ Fresh(pc[w], j) => \A x \in OwedAt(pc[w], j) : rows[x].state # "UNSPECIFIED"
  BY <1>j DEF OwedOK
<1>t. /\ j.todo \in Seq(Views) /\ j.views \in Seq(Views) /\ j.stuck \in Seq(Views)
      /\ j.purpose \in {"force", "reserve", "reset"}
  BY DEF JobType
<1>e. ToSet(<<>>) = {}
  BY DEF ToSet
<1>1. CASE Start(w)
  <2>1. PICK l, k : \E m \in Modes, list \in ViewLists :
             /\ Moves(w, l, k) /\ l \in {"fetch", "check", "stuck"}
             /\ k.mode = m /\ k.views = list /\ k.todo = list
             /\ m = "sync" <=> l = "fetch"
             /\ l = "stuck" => k.stuck = <<>> /\ k.purpose = "force"
    BY <1>1, StartMoves
  <2>2. /\ Moves(w, l, k) /\ l \in {"fetch", "check", "stuck"} /\ k.todo = k.views
        /\ IsInjective(k.views) /\ (Async(k) <=> l # "fetch")
        /\ l = "stuck" => k.stuck = <<>> /\ k.purpose = "force"
    BY <2>1, BoundsAssumption DEF Async
  <2>3. CallAt(l, k)
    BY <1>e, <2>2 DEF CallAt
  <2>4. OwedAt(l, k) = {} /\ ~Fresh(l, k)
    BY <2>2, OwedFacts DEF Fresh
  <2>5. OwedAt(pc[w], j) = {} /\ UNCHANGED rows
    <3>1. pc[w] \in Ended /\ UNCHANGED rows
      BY <1>1 DEF Start, AtRest, registry
    <3> QED
      BY <3>1, OwedFacts
  <2> QED
    BY <1>j, <2>2, <2>3, <2>4, <2>5, QuietOwed
<1>2. CASE Check(w)
  <2>0. Current = rows /\ UNCHANGED rows
    BY <1>2, Steady DEF Check
  <2>1. PICK l, k :
             /\ Moves(w, l, k) /\ Same(j, k)
             /\ \/ l = "rejected" /\ LeaveLoop(w)
                \/ /\ l \in {"check", "get"} /\ k.purpose = j.purpose
                   /\ rows[Head(j.todo)].state # "MATERIALIZING" /\ UNCHANGED loop
                   /\ l = "check" => k.todo = Tail(j.todo)
                   /\ l = "get" => Tail(j.todo) = <<>> /\ k.todo = j.views
    BY <1>2, <1>j, <2>0, CheckMoves
  <2>2. pc[w] = "check" /\ UNCHANGED rows
    BY <1>2, <2>0 DEF Check
  <2>3. IsInjective(j.views) /\ Async(j)
    BY <1>h, <2>2 DEF CallAt, Ended
  <2>4. IsInjective(k.views) /\ Async(k) /\ k.views = j.views /\ k.purpose \in {"force", "reserve", "reset"}
    BY <2>1, <2>3 DEF Same, Called, Async, Moves, JobType
  <2>5. l \notin Ended => CallAt(l, k)
    BY <2>1, <2>4 DEF CallAt, Ended
  <2>6. OwedAt(pc[w], j) = {}
    BY <2>2, OwedFacts
  <2>7. Fresh(l, k) => OwedAt(l, k) = {}
    <3>1. CASE l = "get"
      <4>1. ToSet(k.views) \ ToSet(k.todo) = {}
        BY <2>1, <2>4, <3>1
      <4> QED
        BY <2>4, <3>1, <4>1, OwedFacts
    <3>2. CASE l # "get"
      <4>1. l \in Ended \cup {"check"}
        BY <2>1, <3>2 DEF Ended
      <4> QED
        BY <4>1, OwedFacts
    <3> QED
      BY <3>1, <3>2
  <2> QED
    BY <1>j, <2>1, <2>2, <2>5, <2>6, <2>7, QuietOwed
<1>3. CASE CollectStuck(w)
  <2>0. Current = rows /\ UNCHANGED rows
    BY <1>3, Steady DEF CollectStuck
  <2> DEFINE v == Head(j.todo)
  <2>p. PICK l, k, found :
             /\ Moves(w, l, k) /\ Same(j, k)
             /\ found = IF Current[Head(j.todo)].state = "MATERIALIZING"
                        THEN Append(j.stuck, Head(j.todo)) ELSE j.stuck
             /\ \/ l = "stuck" /\ k.stuck = found /\ k.todo = Tail(j.todo) /\ k.purpose = j.purpose
                \/ /\ l = "get" /\ k.todo = found /\ k.purpose = j.purpose
                   /\ Tail(j.todo) = <<>>
                \/ /\ l = AfterReset(j) /\ l \in {"failed", "get"} /\ found = <<>>
                   /\ Tail(j.todo) = <<>> /\ k.todo = j.views /\ k.purpose = "reserve"
    BY <1>3, <1>j, CollectMoves
  <2>1. /\ Moves(w, l, k) /\ Same(j, k)
        /\ found = IF rows[Head(j.todo)].state = "MATERIALIZING"
                   THEN Append(j.stuck, Head(j.todo)) ELSE j.stuck
        /\ \/ l = "stuck" /\ k.stuck = found /\ k.todo = Tail(j.todo) /\ k.purpose = j.purpose
           \/ /\ l = "get" /\ k.todo = found /\ k.purpose = j.purpose
              /\ Tail(j.todo) = <<>>
           \/ /\ l = AfterReset(j) /\ l \in {"failed", "get"} /\ found = <<>>
              /\ Tail(j.todo) = <<>> /\ k.todo = j.views /\ k.purpose = "reserve"
    BY <2>0, <2>p
  <2>2. pc[w] = "stuck" /\ UNCHANGED rows /\ j.todo # <<>>
    BY <1>3, <1>j, <2>0 DEF CollectStuck, ControlAt, Listing
  <2>3. /\ IsInjective(j.views) /\ Async(j) /\ j.purpose \in {"force", "reset"}
        /\ ToSet(j.stuck) \cup ToSet(j.todo) \subseteq ToSet(j.views)
    BY <1>h, <1>t, <2>2 DEF CallAt, Ended
  <2>4. IsInjective(k.views) /\ Async(k) /\ k.views = j.views
    BY <2>1, <2>3 DEF Same, Called, Async
  <2>5. ToSet(j.todo) = {v} \cup ToSet(Tail(j.todo)) /\ v \in Views
    BY <1>t, <2>2, HeadFacts
  <2>f. /\ ToSet(found) \subseteq ToSet(j.views)
        /\ ToSet(j.stuck) \subseteq ToSet(found)
        /\ rows[v].state = "MATERIALIZING" => v \in ToSet(found)
    <3>1. CASE rows[v].state = "MATERIALIZING"
      <4>1. found = Append(j.stuck, v)
        BY <2>1, <3>1
      <4>2. ToSet(found) = ToSet(j.stuck) \cup {v}
        <5> HIDE DEF v
        <5>1. /\ DOMAIN Append(j.stuck, v) = 1..(Len(j.stuck) + 1) /\ Len(j.stuck) \in Nat
              /\ DOMAIN j.stuck = 1..Len(j.stuck)
              /\ \A i \in 1..Len(j.stuck) : Append(j.stuck, v)[i] = j.stuck[i]
              /\ Append(j.stuck, v)[Len(j.stuck) + 1] = v
          BY <1>t, <2>5
        <5>2. \A i \in 1..(Len(j.stuck) + 1) : i \in 1..Len(j.stuck) \/ i = Len(j.stuck) + 1
          BY <5>1
        <5>3. \A i \in 1..Len(j.stuck) : i \in 1..(Len(j.stuck) + 1)
          BY <5>1
        <5>4. Len(j.stuck) + 1 \in 1..(Len(j.stuck) + 1)
          BY <5>1
        <5> QED
          BY <4>1, <5>1, <5>2, <5>3, <5>4 DEF ToSet
      <4> QED
        BY <2>3, <2>5, <4>2
    <3>2. CASE rows[v].state # "MATERIALIZING"
      BY <2>1, <2>3, <3>2
    <3> QED
      BY <3>1, <3>2
  <2>6. \A x \in OwedAt(pc[w], j) : x \in ToSet(j.stuck) \cup ToSet(j.todo)
    BY <2>2, OwedFacts
  <2>7. CASE l = "stuck" /\ k.stuck = found /\ k.todo = Tail(j.todo) /\ k.purpose = j.purpose
    <3>1. CallAt(l, k) /\ ~Fresh(l, k)
      BY <2>3, <2>4, <2>5, <2>7, <2>f DEF CallAt, Fresh
    <3>2. OwedAt(l, k) = IF j.purpose = "reset" THEN ToSet(found) \cup ToSet(Tail(j.todo)) ELSE {}
      BY <2>7, OwedFacts
    <3>3. ASSUME NEW x \in OwedAt(pc[w], j), rows[x].state = "MATERIALIZING" PROVE x \in OwedAt(l, k)
      <4>1. j.purpose = "reset"
        BY <2>2, <3>3, OwedFacts
      <4> QED
        BY <2>5, <2>6, <2>f, <3>2, <3>3, <4>1
    <3> QED
      BY <1>j, <2>1, <2>2, <3>1, <3>3, QuietOwed
  <2>8. CASE l = "get" /\ k.todo = found /\ k.purpose = j.purpose /\ Tail(j.todo) = <<>>
    <3>1. CallAt(l, k) /\ ~Fresh(l, k)
      BY <2>3, <2>4, <2>8, <2>f DEF CallAt, Fresh
    <3>2. j.purpose = "reset" => OwedAt(l, k) = ToSet(found)
      BY <2>8, OwedFacts
    <3>3. ASSUME NEW x \in OwedAt(pc[w], j), rows[x].state = "MATERIALIZING" PROVE x \in OwedAt(l, k)
      <4>1. j.purpose = "reset"
        BY <2>2, <3>3, OwedFacts
      <4> QED
        BY <1>e, <2>5, <2>6, <2>8, <2>f, <3>2, <3>3, <4>1
    <3> QED
      BY <1>j, <2>1, <2>2, <3>1, <3>3, QuietOwed
  <2>9. CASE /\ l \in {"failed", "get"} /\ found = <<>>
             /\ Tail(j.todo) = <<>> /\ k.todo = j.views /\ k.purpose = "reserve"
    <3>1. l \notin Ended => CallAt(l, k)
      BY <2>3, <2>4, <2>9 DEF CallAt, Ended
    <3>2. OwedAt(l, k) = {}
      <4>1. CASE l = "get"
        <5>1. OwedAt(l, k) = ToSet(k.views) \ ToSet(k.todo)
          BY <2>9, <4>1, OwedFacts
        <5> QED
          BY <2>4, <2>9, <5>1
      <4>2. CASE l = "failed"
        BY <4>2, OwedFacts DEF Ended
      <4> QED
        BY <2>9, <4>1, <4>2
    <3>3. ASSUME NEW x \in OwedAt(pc[w], j), rows[x].state = "MATERIALIZING" PROVE FALSE
      BY <1>e, <2>5, <2>6, <2>9, <2>f, <3>3
    <3> QED
      BY <1>j, <2>1, <2>2, <3>1, <3>2, <3>3, QuietOwed
  <2> QED
    BY <2>1, <2>7, <2>8, <2>9
<1>4. CASE GetView(w)
  <2>0. Current = rows /\ UNCHANGED rows
    BY <1>4, Steady DEF GetView
  <2>1. PICK k : /\ Moves(w, "put", k) /\ Replaced(j, k, Head(j.todo), rows[Head(j.todo)])
                 /\ k.todo = j.todo /\ k.purpose = j.purpose
    BY <1>4, <1>j, <2>0, GetMoves
  <2>2. pc[w] = "get" /\ UNCHANGED rows
    BY <1>4, <2>0 DEF GetView
  <2>3. k.views = j.views /\ (Async(k) <=> Async(j))
    BY <2>1 DEF Replaced, Called, Async
  <2>4. CallAt("put", k)
    BY <1>h, <2>1, <2>2, <2>3 DEF CallAt, Ended
  <2>5. OwedAt("put", k) = OwedAt(pc[w], j) /\ (Fresh("put", k) => Fresh(pc[w], j))
    <3>1. OwedAt("put", k) = OwedAt(pc[w], j)
      BY <1>t, <2>1, <2>2, <2>3, OwedFacts
    <3> QED
      BY <2>1, <2>2, <3>1 DEF Fresh
  <2> QED
    BY <1>h, <1>j, <2>1, <2>2, <2>4, <2>5, QuietOwed
<1> QED
  BY <1>1, <1>2, <1>3, <1>4

\* The write of a reservation, or of a reset, preserves OwedOK.
LEMMA PutOwed ==
    ASSUME ControlInv, OwedOK, Calm, backend = "file", NEW w \in Workers, PutView(w)
    PROVE  OwedOK'
<1>j. PICK j \in JobType : j = job[w] /\ ControlAt(pc[w], j)
  BY JobFacts
<1>h. /\ CallAt(pc[w], j)
      /\ Fresh(pc[w], j) => \A x \in OwedAt(pc[w], j) : rows[x].state # "UNSPECIFIED"
  BY <1>j DEF OwedOK
<1>t. /\ j.todo \in Seq(Views) /\ j.views \in Seq(Views) /\ j.objs \in [Views -> Row]
      /\ j.purpose \in {"force", "reserve", "reset"}
  BY DEF JobType
<1>e. ToSet(<<>>) = {}
  BY DEF ToSet
<1> DEFINE v == Head(j.todo)
<1>1. PICK l, k, o :
         /\ Moves(w, l, k)
         /\ o = [j.objs[v] EXCEPT !.state = Target(j)] /\ o \in Row
         /\ Replaced(j, k, v, Completed(o, rows[v]))
         /\ rows' = [rows EXCEPT ![v] = Applied(o, rows[v])]
         /\ \/ l = "get" /\ k.todo = Tail(j.todo) /\ k.purpose = j.purpose /\ UNCHANGED loop
            \/ /\ l = "fetch" /\ j.purpose = "reserve" /\ k.purpose = "reserve"
               /\ k.todo = j.views /\ Tail(j.todo) = <<>> /\ LeaveLoop(w)
            \/ l = "failed" /\ j.purpose = "reset" /\ Tail(j.todo) = <<>> /\ UNCHANGED loop
            \/ l = "get" /\ j.purpose = "force" /\ k.purpose = "reserve" /\ k.todo = j.views
  BY <1>j, PutSteady
<1>2. pc[w] = "put" /\ j.todo # <<>>
  BY <1>j DEF PutView, ControlAt, Listing
<1>3. /\ v \in Views /\ ToSet(j.todo) = {v} \cup ToSet(Tail(j.todo))
      /\ IsInjective(j.todo) => IsInjective(Tail(j.todo)) /\ v \notin ToSet(Tail(j.todo))
  BY <1>t, <1>2, HeadFacts
<1>4. /\ IsInjective(j.views) /\ Async(j) /\ ToSet(j.todo) \subseteq ToSet(j.views)
      /\ j.purpose = "reserve" => IsInjective(j.todo)
  BY <1>h, <1>2 DEF CallAt, Ended
<1>5. k.views = j.views /\ Async(k) /\ k \in JobType
  BY <1>1, <1>4 DEF Replaced, Called, Async, Moves
<1>6. /\ Target(j) # "UNSPECIFIED" /\ rows'[v].state = Target(j)
      /\ \A x \in Views \ {v} : rows'[x] = rows[x]
  <2>1. j.objs[v] \in Row
    BY <1>t, <1>3
  <2>2. o.state = Target(j) /\ o.state # "UNSPECIFIED"
    BY <1>1, <2>1 DEF Row, Target
  <2> HIDE DEF v
  <2> QED
    BY <1>1, <1>3, <2>2, FileWrites
<1> HIDE DEF v
<1>7. ASSUME l \notin Ended => CallAt(l, k),
             Fresh(l, k) => \A x \in OwedAt(l, k) \ {v} : rows[x].state # "UNSPECIFIED",
             OwedAt(pc[w], j) \ {v} \subseteq OwedAt(l, k),
             Target(j) = "MATERIALIZING" => v \in OwedAt(l, k)
      PROVE  OwedOK'
  <2>1. OwedAt(l, k) \subseteq Views
    <3>1. CASE l \in Ended
      BY <3>1, OwedFacts
    <3>2. CASE l \notin Ended
      BY <1>5, <1>7, <3>2, OwedIsNamed
    <3> QED
      BY <3>1, <3>2
  <2> QED
    BY <1>1, <1>3, <1>6, <1>7, <1>j, <2>1, WriteOwed
<1>8. CASE j.purpose = "reserve"
  <2>1. /\ OwedAt(pc[w], j) = ToSet(j.views) \ ToSet(j.todo)
        /\ \A x \in ToSet(j.views) \ ToSet(j.todo) : rows[x].state # "UNSPECIFIED"
    <3>1. OwedAt(pc[w], j) = ToSet(j.views) \ ToSet(j.todo)
      BY <1>2, <1>8, OwedFacts
    <3>2. Fresh(pc[w], j)
      BY <1>2, <1>8 DEF Fresh
    <3> QED
      BY <1>h, <3>1, <3>2
  <2>2. CASE l = "get"
    <3>1. k.todo = Tail(j.todo) /\ k.purpose = "reserve"
      BY <1>1, <1>8, <2>2
    <3>2. CallAt(l, k)
      BY <1>3, <1>4, <1>5, <1>8, <2>2, <3>1 DEF CallAt
    <3>3. OwedAt(l, k) = ToSet(j.views) \ ToSet(Tail(j.todo))
      BY <1>5, <2>2, <3>1, OwedFacts
    <3> QED
      BY <1>3, <1>4, <1>7, <1>8, <2>1, <3>2, <3>3
  <2>3. CASE l = "fetch"
    <3>1. k.todo = j.views /\ Tail(j.todo) = <<>>
      BY <1>1, <2>3
    <3>2. CallAt(l, k)
      BY <1>4, <1>5, <2>3, <3>1 DEF CallAt, Copied
    <3>3. OwedAt(l, k) = ToSet(j.views)
      BY <1>5, <2>3, OwedFacts
    <3> QED
      BY <1>e, <1>3, <1>4, <1>7, <2>1, <3>1, <3>2, <3>3
  <2> QED
    BY <1>1, <1>8, <2>2, <2>3
<1>9. CASE j.purpose = "reset"
  <2>1. OwedAt(pc[w], j) = ToSet(j.todo) /\ Target(j) # "MATERIALIZING"
    BY <1>2, <1>9, OwedFacts DEF Target
  <2>2. CASE l = "get"
    <3>1. k.todo = Tail(j.todo) /\ k.purpose = "reset"
      BY <1>1, <1>9, <2>2
    <3>2. CallAt(l, k) /\ ~Fresh(l, k)
      BY <1>3, <1>4, <1>5, <2>2, <3>1 DEF CallAt, Fresh
    <3>3. OwedAt(l, k) = ToSet(Tail(j.todo))
      BY <2>2, <3>1, OwedFacts
    <3> QED
      BY <1>3, <1>7, <2>1, <3>2, <3>3
  <2>3. CASE l = "failed"
    <3>1. Tail(j.todo) = <<>> /\ l \in Ended
      BY <1>1, <2>3 DEF Ended
    <3>2. ~Fresh(l, k)
      BY <3>1, OwedFacts
    <3> QED
      BY <1>e, <1>3, <1>7, <2>1, <3>1, <3>2
  <2> QED
    BY <1>1, <1>9, <2>2, <2>3
<1>10. CASE j.purpose = "force"
  <2>1. OwedAt(pc[w], j) = {} /\ Target(j) # "MATERIALIZING"
    BY <1>2, <1>10, OwedFacts DEF Target
  <2>2. CASE k.purpose = "force" /\ k.todo = Tail(j.todo)
    <3>1. l = "get"
      BY <1>1, <1>10
    <3>2. CallAt(l, k) /\ ~Fresh(l, k)
      BY <1>3, <1>4, <1>5, <2>2, <3>1 DEF CallAt, Fresh
    <3> QED
      BY <1>7, <2>1, <3>2
  <2>3. CASE k.purpose = "reserve" /\ k.todo = j.views
    <3>1. l = "get"
      BY <1>1, <1>10
    <3>2. CallAt(l, k)
      BY <1>4, <1>5, <2>3, <3>1 DEF CallAt
    <3>3. OwedAt(l, k) = {}
      <4>1. OwedAt(l, k) = ToSet(k.views) \ ToSet(k.todo)
        BY <2>3, <3>1, OwedFacts
      <4> QED
        BY <1>5, <2>3, <4>1
    <3> QED
      BY <1>7, <2>1, <3>2, <3>3
  <2> QED
    BY <1>1, <1>10, <2>2, <2>3
<1> QED
  BY <1>t, <1>8, <1>9, <1>10

\* Reading the views and asking for their transition preserves OwedOK.
LEMMA FetchOwed ==
    ASSUME ControlInv, OwedOK, Calm, NEW w \in Workers, Fetch(w)
    PROVE  OwedOK'
<1>j. PICK j \in JobType : j = job[w] /\ ControlAt(pc[w], j)
  BY JobFacts
<1>h. /\ CallAt(pc[w], j)
      /\ Fresh(pc[w], j) => \A x \in OwedAt(pc[w], j) : rows[x].state # "UNSPECIFIED"
  BY <1>j DEF OwedOK
<1>t. /\ j.todo \in Seq(Views) /\ j.views \in Seq(Views) /\ j.objs \in [Views -> Row]
      /\ batch \in BOOLEAN
  BY JobFacts DEF JobType
<1>e. ToSet(<<>>) = {}
  BY DEF ToSet
<1> DEFINE v == Head(j.todo)
<1>0. Current = rows /\ UNCHANGED rows
  BY Steady DEF Fetch
<1>1. PICK l, k :
           /\ Moves(w, l, k) /\ Called(j, k) /\ k.prev = j.prev
           /\ \/ /\ l = AfterRaise(j) /\ Same(j, k)
                 /\ k.todo = j.views /\ k.stuck = <<>> /\ k.purpose = "reset"
              \/ /\ k.objs = [j.objs EXCEPT ![v] = rows[v]]
                 /\ k.start = [j.start EXCEPT ![v] = StartDate(j, rows[v])]
                 /\ \/ l = "fetch" /\ k.todo = Tail(j.todo) /\ k.purpose = j.purpose
                    \/ /\ l = "transition" /\ Tail(j.todo) = <<>>
                       /\ k.todo = First(j.views) /\ k.current = First(j.views)
                       /\ k.later = IF batch THEN <<>> ELSE Tail(j.views)
  BY <1>0, <1>j, FetchMoves
<1>2. pc[w] = "fetch" /\ UNCHANGED rows /\ j.todo # <<>> /\ j.views # <<>>
  BY <1>0, <1>j DEF Fetch, ControlAt, Listing, Ended
<1>3. IsInjective(j.views) /\ (Async(j) => Copied(j, ToSet(j.views) \ ToSet(j.todo)))
  BY <1>h, <1>2 DEF CallAt, Ended
<1>4. k.views = j.views /\ (Async(k) <=> Async(j))
  BY <1>1 DEF Called, Async
<1>5. /\ OwedAt(pc[w], j) = IF Async(j) THEN ToSet(j.views) ELSE {}
      /\ Async(j) => \A x \in ToSet(j.views) : rows[x].state # "UNSPECIFIED"
  <2>1. OwedAt(pc[w], j) = IF Async(j) THEN ToSet(j.views) ELSE {}
    BY <1>2, OwedFacts
  <2>2. Async(j) => Fresh(pc[w], j)
    BY <1>2 DEF Fresh
  <2> QED
    BY <1>h, <2>1, <2>2
<1>6. CASE l = AfterRaise(j) /\ k.todo = j.views /\ k.stuck = <<>> /\ k.purpose = "reset"
  <2>1. CASE Async(j)
    <3>1. l = "stuck"
      BY <1>6, <2>1 DEF AfterRaise, Async
    <3>2. CallAt(l, k) /\ ~Fresh(l, k)
      BY <1>3, <1>4, <1>6, <1>e, <2>1, <3>1 DEF CallAt, Fresh
    <3>3. OwedAt(l, k) = ToSet(j.views)
      <4>1. OwedAt(l, k) = ToSet(k.stuck) \cup ToSet(k.todo)
        BY <1>6, <3>1, OwedFacts
      <4> QED
        BY <1>6, <1>e, <4>1
    <3> QED
      BY <1>1, <1>2, <1>5, <1>j, <3>2, <3>3, QuietOwed
  <2>2. CASE ~Async(j)
    <3>1. l \in Ended
      BY <1>6, <2>2 DEF AfterRaise, Async, Ended
    <3>2. ~Fresh(l, k)
      BY <3>1, OwedFacts
    <3> QED
      BY <1>1, <1>2, <1>5, <1>j, <2>2, <3>1, <3>2, QuietOwed
  <2> QED
    BY <2>1, <2>2
<1>7. CASE k.objs = [j.objs EXCEPT ![v] = rows[v]]
  <2>1. v \in Views /\ ToSet(j.todo) = {v} \cup ToSet(Tail(j.todo)) /\ ToSet(j.views) \subseteq Views
    BY <1>t, <1>2, HeadFacts, ListFacts
  <2>2. ASSUME Async(j) PROVE Copied(k, ToSet(j.views) \ ToSet(Tail(j.todo)))
    <3> SUFFICES ASSUME NEW x \in ToSet(j.views) \ ToSet(Tail(j.todo))
                 PROVE  k.objs[x].state # "UNSPECIFIED"
      BY DEF Copied
    <3>1. CASE x = v
      <4>1. k.objs[x] = rows[x]
        BY <1>t, <1>7, <2>1, <3>1
      <4> QED
        BY <1>5, <2>2, <4>1
    <3>2. CASE x # v
      <4>1. k.objs[x] = j.objs[x] /\ x \in ToSet(j.views) \ ToSet(j.todo)
        BY <1>t, <1>7, <2>1, <3>2
      <4> QED
        BY <1>3, <2>2, <4>1 DEF Copied
    <3> QED
      BY <3>1, <3>2
  <2> HIDE DEF v
  <2>3. CASE l = "fetch" /\ k.todo = Tail(j.todo)
    <3>1. CallAt(l, k)
      BY <1>3, <1>4, <2>2, <2>3 DEF CallAt
    <3>2. OwedAt(l, k) = OwedAt(pc[w], j)
      BY <1>4, <1>5, <2>3, OwedFacts
    <3>3. Fresh(l, k) => Fresh(pc[w], j)
      BY <1>2, <1>4, <2>3 DEF Fresh
    <3> QED
      BY <1>1, <1>2, <1>h, <1>j, <3>1, <3>2, <3>3, QuietOwed
  <2>4. CASE /\ l = "transition" /\ Tail(j.todo) = <<>>
             /\ k.todo = First(j.views) /\ k.current = First(j.views)
             /\ k.later = IF batch THEN <<>> ELSE Tail(j.views)
    <3>1. ToSet(k.current) \cup ToSet(k.later) = ToSet(j.views) /\ Apart(k.current, k.later)
      BY <1>t, <1>2, <1>3, <2>4, FirstFacts
    <3>2. Async(j) => Copied(k, ToSet(j.views))
      BY <1>e, <2>2, <2>4
    <3>3. CallAt(l, k) /\ ~Fresh(l, k)
      BY <1>3, <1>4, <2>4, <3>1, <3>2 DEF CallAt, Apart, Fresh
    <3>4. Async(j) => OwedAt(l, k) = ToSet(j.views)
      BY <1>4, <2>4, <3>1, OwedFacts
    <3> QED
      BY <1>1, <1>2, <1>5, <1>j, <3>3, <3>4, QuietOwed
  <2> QED
    BY <1>1, <1>6, <2>3, <2>4
<1> QED
  BY <1>1, <1>6, <1>7

\* The transition of one view preserves OwedOK.
LEMMA TransitionOwed ==
    ASSUME ControlInv, OwedOK, Calm, backend = "file", NEW w \in Workers, Transition(w)
    PROVE  OwedOK'
<1>j. PICK j \in JobType : j = job[w] /\ ControlAt(pc[w], j)
  BY JobFacts
<1>h. CallAt(pc[w], j)
  BY <1>j DEF OwedOK
<1>t. /\ j.todo \in Seq(Views) /\ j.views \in Seq(Views) /\ j.objs \in [Views -> Row]
      /\ j.current \in Seq(Views) /\ j.later \in Seq(Views) /\ batch \in BOOLEAN
      /\ j.prev \in [Views -> States \ {"MATERIALIZING"}]
  BY JobFacts DEF JobType
<1> DEFINE v == Head(j.todo)
           st == j.objs[v].state
<1>1. PICK l, k, p, o, base : base \in Bases /\ TransitionEffect(w, j, l, k, p, o, base)
  BY <1>j, TransitionMoves
<1>2. pc[w] = "transition" /\ j.todo # <<>>
  BY <1>j DEF Transition
<1>3. /\ IsInjective(j.views) /\ IsInjective(j.later) /\ ToSet(j.later) \subseteq ToSet(j.views)
      /\ IsInjective(j.todo) /\ ToSet(j.todo) \subseteq ToSet(j.current)
      /\ ToSet(j.current) \subseteq ToSet(j.views)
      /\ Async(j) => /\ Copied(j, ToSet(j.views))
                     /\ \A x \in ToSet(j.current) \ ToSet(j.todo) : j.prev[x] # "UNSPECIFIED"
  BY <1>h, <1>2 DEF CallAt, Ended
<1>4. /\ v \in Views /\ ToSet(j.todo) = {v} \cup ToSet(Tail(j.todo))
      /\ IsInjective(Tail(j.todo)) /\ v \notin ToSet(Tail(j.todo))
      /\ ToSet(j.views) \subseteq Views
  BY <1>t, <1>2, <1>3, HeadFacts, ListFacts
<1>5. /\ Moves(w, l, k) /\ Called(j, k) /\ k \in JobType
      /\ k.prev = [j.prev EXCEPT ![v] = p] /\ TransitionCases(w, j, l, k, p, o, base)
      /\ o \in Row /\ o = [j.objs[v] EXCEPT !.state = "MATERIALIZING"]
  BY <1>1 DEF TransitionEffect, Returned, Moves
<1>6. k.views = j.views /\ (Async(k) <=> Async(j))
  BY <1>5 DEF Called, Async
<1>7. k.prev[v] = p /\ \A x \in Views \ {v} : k.prev[x] = j.prev[x]
  BY <1>t, <1>4, <1>5
<1>8. Async(j) => st # "UNSPECIFIED"
  BY <1>3, <1>4 DEF Copied
<1>v. v \in ToSet(j.views) /\ ToSet(j.current) \subseteq Views
  BY <1>3, <1>4
<1>s. o.state = "MATERIALIZING" /\ j.objs[v] \in Row
  BY <1>t, <1>4, <1>5 DEF Row
<1>c. \/ /\ st \in {"MATERIALIZING", "UNSPECIFIED"} /\ p = Fallback(st) /\ l = "transition"
         /\ k.todo = Tail(j.todo) /\ k.current = j.current /\ k.later = j.later
         /\ UNCHANGED rows /\ k.objs = j.objs
      \/ /\ st \in {"GENERATED", "AVAILABLE_ONLINE"} /\ p = st /\ l = "transition"
         /\ k.todo = Tail(j.todo) /\ k.current = j.current /\ k.later = j.later
         /\ rows' = [rows EXCEPT ![v] = Applied(o, rows[v])]
         /\ k.objs = [j.objs EXCEPT ![v] = Completed(o, rows[v])]
      \/ /\ st = "CREATED" /\ p = st
         /\ Settled(j, Before(j), <<>>, TRUE, l, k) /\ UNCHANGED rows /\ k.objs = j.objs
  <2>1. \/ /\ st \in {"MATERIALIZING", "UNSPECIFIED"} /\ p = Fallback(st) /\ l = "transition"
           /\ k.todo = Tail(j.todo) /\ k.current = j.current /\ k.later = j.later
           /\ UNCHANGED registry /\ k.objs = j.objs
        \/ /\ st \in {"GENERATED", "AVAILABLE_ONLINE"} /\ p = st /\ l = "transition"
           /\ k.todo = Tail(j.todo) /\ k.current = j.current /\ k.later = j.later
           /\ Store(w, base, v, Applied(o, base[v]))
           /\ k.objs = [j.objs EXCEPT ![v] = Completed(o, base[v])]
        \/ /\ st = "CREATED" /\ p = st
           /\ Settled(j, Before(j), <<>>, TRUE, l, k) /\ UNCHANGED registry /\ k.objs = j.objs
    BY <1>5 DEF TransitionCases
  <2> HIDE DEF v, st
  <2>2. UNCHANGED registry => UNCHANGED rows
    BY DEF registry
  <2>3. Store(w, base, v, Applied(o, base[v])) =>
          base = rows /\ rows' = [rows EXCEPT ![v] = Applied(o, base[v])]
    BY <1>1, Steady
  <2> QED
    BY <2>1, <2>2, <2>3
<1> HIDE DEF v, st
<1>9. ASSUME k.todo = Tail(j.todo), k.current = j.current, k.later = j.later,
             Async(j) => Copied(k, ToSet(j.views)), Async(j) => p # "UNSPECIFIED"
      PROVE  /\ CallAt("transition", k) /\ ~Fresh("transition", k)
             /\ OwedAt(pc[w], j) \subseteq OwedAt("transition", k)
             /\ p # "UNSPECIFIED" => v \in OwedAt("transition", k)
  <2>1. Async(j) => \A x \in ToSet(k.current) \ ToSet(k.todo) : k.prev[x] # "UNSPECIFIED"
    BY <1>3, <1>4, <1>7, <1>9, <1>v
  <2>2. CallAt("transition", k)
    BY <1>3, <1>4, <1>6, <1>9, <2>1 DEF CallAt
  <2>3. CASE Async(j)
    <3>1. /\ OwedAt(pc[w], j) = ToSet(j.current) \cup ToSet(j.later)
          /\ OwedAt("transition", k) = ToSet(k.current) \cup ToSet(k.later)
      BY <1>2, <1>6, <2>3, OwedFacts
    <3> QED
      BY <1>3, <1>4, <1>9, <2>2, <3>1, OwedFacts
  <2>4. CASE ~Async(j)
    <3>1. /\ OwedAt(pc[w], j) = Undone(j, ToSet(j.current) \ ToSet(j.todo))
          /\ OwedAt("transition", k) = Undone(k, ToSet(k.current) \ ToSet(k.todo))
      BY <1>2, <1>6, <2>4, OwedFacts
    <3>2. ~Fresh("transition", k)
      BY OwedFacts
    <3>3. OwedAt(pc[w], j) \subseteq OwedAt("transition", k)
      BY <1>4, <1>7, <1>9, <1>v, <3>1 DEF Undone
    <3>4. p # "UNSPECIFIED" => v \in OwedAt("transition", k)
      BY <1>3, <1>4, <1>7, <1>9, <3>1 DEF Undone
    <3> QED
      BY <2>2, <3>2, <3>3, <3>4
  <2> QED
    BY <2>3, <2>4
<1>10. CASE /\ st \in {"MATERIALIZING", "UNSPECIFIED"} /\ p = Fallback(st) /\ l = "transition"
            /\ k.todo = Tail(j.todo) /\ k.current = j.current /\ k.later = j.later
            /\ UNCHANGED rows /\ k.objs = j.objs
  <2>1. Async(j) => p # "UNSPECIFIED"
    BY <1>8, <1>10 DEF Fallback
  <2>2. Async(j) => Copied(k, ToSet(j.views))
    BY <1>3, <1>10 DEF Copied
  <2>3. /\ CallAt("transition", k) /\ ~Fresh("transition", k)
        /\ OwedAt(pc[w], j) \subseteq OwedAt("transition", k)
    BY <1>9, <1>10, <2>1, <2>2
  <2> QED
    BY <1>5, <1>10, <1>j, <2>3, QuietOwed
<1>11. CASE /\ st \in {"GENERATED", "AVAILABLE_ONLINE"} /\ p = st /\ l = "transition"
            /\ k.todo = Tail(j.todo) /\ k.current = j.current /\ k.later = j.later
            /\ rows' = [rows EXCEPT ![v] = Applied(o, rows[v])]
            /\ k.objs = [j.objs EXCEPT ![v] = Completed(o, rows[v])]
  <2>1. p # "UNSPECIFIED"
    BY <1>11
  <2>2. Async(j) => Copied(k, ToSet(j.views))
    <3> SUFFICES ASSUME Async(j), NEW x \in ToSet(j.views) PROVE k.objs[x].state # "UNSPECIFIED"
      BY DEF Copied
    <3>1. CASE x = v
      <4>1. Completed(o, rows[v]) = o
        BY DEF Completed
      <4>2. k.objs[x] = o
        BY <1>t, <1>4, <1>11, <3>1, <4>1
      <4> QED
        BY <1>s, <4>2
    <3>2. CASE x # v
      <4>1. k.objs[x] = j.objs[x]
        BY <1>t, <1>4, <1>11, <3>2
      <4> QED
        BY <1>3, <4>1 DEF Copied
    <3> QED
      BY <3>1, <3>2
  <2>3. /\ CallAt("transition", k) /\ ~Fresh("transition", k)
        /\ OwedAt(pc[w], j) \subseteq OwedAt("transition", k) /\ v \in OwedAt("transition", k)
    BY <1>9, <1>11, <2>1, <2>2
  <2>4. rows'[v].state = "MATERIALIZING" /\ \A x \in Views \ {v} : rows'[x] = rows[x]
    BY <1>4, <1>5, <1>11, <1>s, FileWrites
  <2>5. OwedAt("transition", k) \subseteq Views
    BY <1>5, <2>3, OwedIsNamed
  <2> QED
    BY <1>4, <1>5, <1>11, <1>j, <2>3, <2>4, <2>5, WriteOwed
<1>12. CASE /\ st = "CREATED" /\ p = st
            /\ Settled(j, Before(j), <<>>, TRUE, l, k) /\ UNCHANGED rows /\ k.objs = j.objs
  <2> DEFINE bad == Before(j)
             good == <<>>
  <2>1. bad \in Seq(Views) /\ ToSet(bad) = ToSet(j.current) \ ToSet(j.todo)
    <3>1. bad \in Seq(Views) /\ ToSet(bad) = ToSet(j.current) \cap (Views \ ToSet(j.todo))
      BY <1>t, AmongFacts DEF Before
    <3> QED
      BY <1>v, <3>1
  <2>2. good \in Seq(Views) /\ ToSet(good) = {} /\ TRUE \in BOOLEAN
    BY DEF ToSet
  <2>3. Settled(j, bad, good, TRUE, l, k)
    BY <1>12
  <2>4. Async(j) => Copied(k, ToSet(j.views))
    BY <1>3, <1>12 DEF Copied
  <2>5. \A x \in ToSet(bad) : k.prev[x] = j.prev[x]
    BY <1>4, <1>7, <1>v, <2>1
  <2> HIDE DEF bad, good
  <2>6. Async(j) => \A x \in ToSet(bad) : k.prev[x] # "UNSPECIFIED"
    BY <1>3, <2>1, <2>5
  <2>7. ToSet(bad) \cup ToSet(good) \subseteq ToSet(j.views)
    BY <1>3, <2>1, <2>2
  <2>8. /\ l \notin Ended => CallAt(l, k)
        /\ ~Fresh(l, k)
        /\ Undone(k, ToSet(bad)) \cup ToSet(good) \subseteq OwedAt(l, k)
        /\ Async(j) => ToSet(j.views) \subseteq OwedAt(l, k)
    BY <1>3, <1>5, <1>t, <2>1, <2>2, <2>3, <2>4, <2>6, <2>7, SettledOwed
  <2>9. OwedAt(pc[w], j) \subseteq OwedAt(l, k)
    <3>1. CASE Async(j)
      <4>1. OwedAt(pc[w], j) = ToSet(j.current) \cup ToSet(j.later)
        BY <1>2, <3>1, OwedFacts
      <4> QED
        BY <1>3, <2>8, <3>1, <4>1
    <3>2. CASE ~Async(j)
      <4>1. OwedAt(pc[w], j) = Undone(j, ToSet(bad))
        BY <1>2, <2>1, <3>2, OwedFacts
      <4>2. Undone(j, ToSet(bad)) \subseteq Undone(k, ToSet(bad))
        BY <2>5 DEF Undone
      <4> QED
        BY <2>8, <4>1, <4>2
    <3> QED
      BY <3>1, <3>2
  <2> QED
    BY <1>5, <1>12, <1>j, <2>8, <2>9, QuietOwed
<1> QED
  BY <1>c, <1>10, <1>11, <1>12

\* A run of the engine preserves OwedOK.
LEMMA EngineOwed ==
    ASSUME ControlInv, OwedOK, NEW w \in Workers, RunEngine(w)
    PROVE  OwedOK'
<1>j. PICK j \in JobType : j = job[w] /\ ControlAt(pc[w], j)
  BY JobFacts
<1>h. CallAt(pc[w], j)
  BY <1>j DEF OwedOK
<1>t. /\ j.current \in Seq(Views) /\ j.later \in Seq(Views) /\ batch \in BOOLEAN
  BY JobFacts DEF JobType
<1>1. PICK l, k, bad, raising, failed :
             EngineEffect(w, j, l, k, bad, raising, failed)
  BY <1>j, EngineMoves
<1>2. pc[w] = "transition" /\ j.todo = <<>> /\ UNCHANGED rows
  BY <1>j DEF RunEngine, registry
<1>e. ToSet(j.todo) = {}
  BY <1>2 DEF ToSet
<1>3. /\ IsInjective(j.views) /\ IsInjective(j.later) /\ ToSet(j.later) \subseteq ToSet(j.views)
      /\ ToSet(j.current) \subseteq ToSet(j.views)
      /\ Async(j) => /\ Copied(j, ToSet(j.views))
                     /\ \A x \in ToSet(j.current) : j.prev[x] # "UNSPECIFIED"
  BY <1>e, <1>h, <1>2 DEF CallAt, Ended
<1> DEFINE good == Among(j.current, Views \ bad)
<1>4. /\ Moves(w, l, k) /\ k \in JobType /\ Called(j, k) /\ k.objs = j.objs /\ k.prev = j.prev
      /\ Settled(j, failed, good, raising, l, k)
      /\ ToSet(good) = ToSet(j.current) \ bad /\ ToSet(failed) = bad
      /\ bad \subseteq ToSet(j.current)
  BY <1>1 DEF EngineEffect, Same, Moves
<1>5. good \in Seq(Views) /\ failed \in Seq(Views) /\ raising \in BOOLEAN
  <2>1. good \in Seq(Views)
    BY <1>t, AmongFacts
  <2> QED
    BY <1>1, <2>1 DEF EngineEffect
<1> HIDE DEF good
<1>6. /\ Async(j) => Copied(k, ToSet(j.views))
      /\ Async(j) => \A x \in ToSet(failed) : k.prev[x] # "UNSPECIFIED"
      /\ ToSet(failed) \cup ToSet(good) \subseteq ToSet(j.views)
  BY <1>3, <1>4 DEF Copied
<1>7. /\ l \notin Ended => CallAt(l, k)
      /\ ~Fresh(l, k)
      /\ Undone(k, ToSet(failed)) \cup ToSet(good) \subseteq OwedAt(l, k)
      /\ Async(j) => (IF raising THEN ToSet(j.views) ELSE ToSet(j.later)) \subseteq OwedAt(l, k)
  BY <1>3, <1>4, <1>5, <1>6, <1>t, SettledOwed
<1>8. Undone(j, ToSet(j.current)) \subseteq OwedAt(l, k)
  <2>1. Undone(j, ToSet(j.current)) \subseteq Undone(k, ToSet(failed)) \cup ToSet(good)
    BY <1>4 DEF Undone
  <2> QED
    BY <1>7, <2>1
<1>9. OwedAt(pc[w], j) \subseteq OwedAt(l, k)
  <2>1. CASE Async(j)
    <3>1. OwedAt(pc[w], j) = ToSet(j.current) \cup ToSet(j.later)
      BY <1>2, <2>1, OwedFacts
    <3>2. Undone(j, ToSet(j.current)) = ToSet(j.current)
      BY <1>3, <2>1 DEF Undone
    <3>3. ToSet(j.later) \subseteq OwedAt(l, k)
      BY <1>3, <1>7, <2>1
    <3> QED
      BY <1>8, <3>1, <3>2, <3>3
  <2>2. CASE ~Async(j)
    <3>1. OwedAt(pc[w], j) = Undone(j, ToSet(j.current) \ ToSet(j.todo))
      BY <1>2, <2>2, OwedFacts
    <3> QED
      BY <1>8, <1>e, <3>1 DEF Undone
  <2> QED
    BY <2>1, <2>2
<1> QED
  BY <1>2, <1>4, <1>7, <1>9, <1>j, QuietOwed

\* The rollback of one view preserves OwedOK.
LEMMA RollbackOwed ==
    ASSUME ControlInv, OwedOK, Calm, backend = "file", NEW w \in Workers, Rollback(w)
    PROVE  OwedOK'
<1>j. PICK j \in JobType : j = job[w] /\ ControlAt(pc[w], j)
  BY JobFacts
<1>h. CallAt(pc[w], j)
  BY <1>j DEF OwedOK
<1>t. /\ j.todo \in Seq(Views) /\ j.views \in Seq(Views) /\ j.objs \in [Views -> Row]
      /\ j.good \in Seq(Views) /\ j.later \in Seq(Views) /\ batch \in BOOLEAN
      /\ j.failing \in BOOLEAN /\ j.prev \in [Views -> States \ {"MATERIALIZING"}]
  BY JobFacts DEF JobType
<1> DEFINE v == Head(j.todo)
<1>1. PICK l, k, o :
             /\ Moves(w, l, k) /\ k.prev = j.prev /\ o \in Row /\ o.state = j.prev[v]
             /\ Replaced(j, k, v, o)
             /\ j.prev[v] = "UNSPECIFIED" => UNCHANGED rows
             /\ j.prev[v] # "UNSPECIFIED" => rows' = [rows EXCEPT ![v] = Applied(o, rows[v])]
             /\ Settled(j, Tail(j.todo), j.good, j.failing, l, k)
  BY <1>j, RollbackSteady
<1>2. pc[w] = "rollback" /\ j.todo # <<>>
  BY <1>j DEF Rollback, ControlAt, Listing
<1>3. /\ IsInjective(j.views) /\ IsInjective(j.later) /\ ToSet(j.later) \subseteq ToSet(j.views)
      /\ ToSet(j.todo) \cup ToSet(j.good) \subseteq ToSet(j.views)
      /\ Async(j) => /\ Copied(j, ToSet(j.views))
                     /\ \A x \in ToSet(j.todo) : j.prev[x] # "UNSPECIFIED"
  BY <1>h, <1>2 DEF CallAt, Ended
<1>4. /\ v \in Views /\ ToSet(j.todo) = {v} \cup ToSet(Tail(j.todo)) /\ Tail(j.todo) \in Seq(Views)
      /\ ToSet(j.views) \subseteq Views
  <2>1. ToSet(j.views) \subseteq Views
    BY <1>t, ListFacts
  <2> QED
    BY <1>t, <1>2, <2>1, HeadFacts
<1> HIDE DEF v
<1>5. /\ Called(j, k) /\ k \in JobType /\ k.views = j.views /\ (Async(k) <=> Async(j))
      /\ k.objs = [j.objs EXCEPT ![v] = o]
  BY <1>1 DEF Replaced, Called, Moves, Async
<1>6. Async(j) => Copied(k, ToSet(j.views))
  <2> SUFFICES ASSUME Async(j), NEW x \in ToSet(j.views) PROVE k.objs[x].state # "UNSPECIFIED"
    BY DEF Copied
  <2>1. CASE x = v
    <3>2. k.objs[x] = o
      BY <1>t, <1>4, <1>5, <2>1
    <3> QED
      BY <1>1, <1>3, <1>4, <3>2
  <2>2. CASE x # v
    <3>1. k.objs[x] = j.objs[x]
      BY <1>t, <1>4, <1>5, <2>2
    <3> QED
      BY <1>3, <3>1 DEF Copied
  <2> QED
    BY <2>1, <2>2
<1> DEFINE bad == Tail(j.todo)
           good == j.good
           raising == j.failing
<1>7. /\ l \notin Ended => CallAt(l, k)
      /\ ~Fresh(l, k)
      /\ Undone(k, ToSet(bad)) \cup ToSet(good) \subseteq OwedAt(l, k)
      /\ Async(j) => (IF raising THEN ToSet(j.views) ELSE ToSet(j.later)) \subseteq OwedAt(l, k)
  <2>1. /\ bad \in Seq(Views) /\ good \in Seq(Views) /\ raising \in BOOLEAN
        /\ Settled(j, bad, good, raising, l, k)
        /\ ToSet(bad) \cup ToSet(good) \subseteq ToSet(j.views)
        /\ Async(j) => \A x \in ToSet(bad) : k.prev[x] # "UNSPECIFIED"
    BY <1>t, <1>1, <1>3, <1>4
  <2> HIDE DEF bad, good, raising
  <2> QED
    BY <1>3, <1>5, <1>6, <1>t, <2>1, SettledOwed
<1>8. OwedAt(pc[w], j) \ Undone(j, {v}) \subseteq OwedAt(l, k)
  <2>1. OwedAt(pc[w], j) = Undone(j, ToSet(j.todo)) \cup ToSet(j.good)
          \cup (IF ~Async(j) THEN {} ELSE IF j.failing THEN ToSet(j.views) ELSE ToSet(j.later))
    BY <1>2, OwedFacts
  <2>2. Undone(j, ToSet(j.todo)) \ Undone(j, {v}) \subseteq Undone(k, ToSet(bad))
    BY <1>1, <1>4 DEF Undone
  <2> QED
    BY <1>7, <2>1, <2>2
<1>9. CASE j.prev[v] = "UNSPECIFIED"
  <2>1. Undone(j, {v}) = {}
    BY <1>9 DEF Undone
  <2> QED
    BY <1>1, <1>7, <1>8, <1>9, <1>j, <2>1, QuietOwed
<1>10. CASE j.prev[v] # "UNSPECIFIED"
  <2>1. Undone(j, {v}) \subseteq {v}
    BY DEF Undone
  <2>2. /\ rows'[v].state = j.prev[v] /\ \A x \in Views \ {v} : rows'[x] = rows[x]
    BY <1>1, <1>4, <1>10, FileWrites
  <2>3. j.prev[v] # "MATERIALIZING"
    BY <1>t, <1>4
  <2>4. OwedAt(l, k) \subseteq Views
    <3>1. CASE l \in Ended
      BY <3>1, OwedFacts
    <3>2. CASE l \notin Ended
      BY <1>5, <1>7, <3>2, OwedIsNamed
    <3> QED
      BY <3>1, <3>2
  <2>5. OwedAt(pc[w], j) \ {v} \subseteq OwedAt(l, k)
    BY <1>8, <2>1
  <2> DEFINE st == j.prev[v]
  <2>6. st # "UNSPECIFIED" /\ st # "MATERIALIZING" /\ rows'[v].state = st
    BY <1>10, <2>2, <2>3
  <2> HIDE DEF st
  <2> QED
    BY <1>1, <1>4, <1>7, <1>j, <2>2, <2>4, <2>5, <2>6, WriteOwed
<1> QED
  BY <1>9, <1>10

\* Recording the interval of one view preserves OwedOK.
LEMMA RecordOwed ==
    ASSUME ControlInv, OwedOK, Calm, backend = "file", NEW w \in Workers, RecordPut(w)
    PROVE  OwedOK'
<1>j. PICK j \in JobType : j = job[w] /\ ControlAt(pc[w], j)
  BY JobFacts
<1>h. CallAt(pc[w], j)
  BY <1>j DEF OwedOK
<1>t. /\ j.todo \in Seq(Views) /\ j.views \in Seq(Views) /\ j.later \in Seq(Views)
      /\ batch \in BOOLEAN /\ j.failing \in BOOLEAN /\ rows \in [Views -> Row]
  BY JobFacts DEF JobType
<1> DEFINE v == Head(j.todo)
<1>1. PICK l, k, o :
             /\ Moves(w, l, k) /\ Same(j, k) /\ o \in Row
             /\ o.state = "AVAILABLE_ONLINE" /\ rows' = [rows EXCEPT ![v] = o]
             /\ Settled(j, <<>>, Tail(j.todo), j.failing, l, k)
  BY <1>j, RecordSteady
<1>2. pc[w] = "record" /\ j.todo # <<>> /\ j.good = j.todo
  BY <1>j DEF RecordPut, ControlAt, Listing
<1>3. /\ IsInjective(j.views) /\ IsInjective(j.later) /\ ToSet(j.later) \subseteq ToSet(j.views)
      /\ ToSet(j.todo) \subseteq ToSet(j.views) /\ (Async(j) => Copied(j, ToSet(j.views)))
  BY <1>h, <1>2 DEF CallAt, Ended
<1>4. v \in Views /\ ToSet(j.todo) = {v} \cup ToSet(Tail(j.todo)) /\ Tail(j.todo) \in Seq(Views)
  BY <1>t, <1>2, HeadFacts
<1> HIDE DEF v
<1>5. Called(j, k) /\ k \in JobType /\ k.objs = j.objs
  BY <1>1 DEF Same, Moves
<1>6. rows'[v].state = "AVAILABLE_ONLINE" /\ \A x \in Views \ {v} : rows'[x] = rows[x]
  BY <1>t, <1>1, <1>4
<1> DEFINE bad == <<>>
           good == Tail(j.todo)
           raising == j.failing
<1>e. ToSet(bad) = {}
  BY DEF ToSet
<1>7. /\ l \notin Ended => CallAt(l, k)
      /\ ~Fresh(l, k)
      /\ Undone(k, ToSet(bad)) \cup ToSet(good) \subseteq OwedAt(l, k)
      /\ Async(j) => (IF raising THEN ToSet(j.views) ELSE ToSet(j.later)) \subseteq OwedAt(l, k)
  <2>1. /\ bad \in Seq(Views) /\ good \in Seq(Views) /\ raising \in BOOLEAN
        /\ Settled(j, bad, good, raising, l, k)
        /\ ToSet(bad) \cup ToSet(good) \subseteq ToSet(j.views)
        /\ Async(j) => \A x \in ToSet(bad) : k.prev[x] # "UNSPECIFIED"
    BY <1>e, <1>t, <1>1, <1>3, <1>4
  <2>2. Async(j) => Copied(k, ToSet(j.views))
    BY <1>3, <1>5 DEF Copied
  <2> HIDE DEF bad, good, raising
  <2> QED
    BY <1>3, <1>5, <1>t, <2>1, <2>2, SettledOwed
<1>8. OwedAt(pc[w], j) \ {v} \subseteq OwedAt(l, k)
  <2>1. OwedAt(pc[w], j) = Undone(j, ToSet(j.todo)) \cup ToSet(j.good)
          \cup (IF ~Async(j) THEN {} ELSE IF j.failing THEN ToSet(j.views) ELSE ToSet(j.later))
    BY <1>2, OwedFacts
  <2>2. Undone(j, ToSet(j.todo)) \cup ToSet(j.good) \subseteq {v} \cup ToSet(good)
    BY <1>2, <1>4 DEF Undone
  <2> QED
    BY <1>7, <2>1, <2>2
<1>9. OwedAt(l, k) \subseteq Views
  <2>1. CASE l \in Ended
    BY <2>1, OwedFacts
  <2>2. CASE l \notin Ended
    BY <1>5, <1>7, <2>2, OwedIsNamed
  <2> QED
    BY <2>1, <2>2
<1> QED
  BY <1>1, <1>4, <1>6, <1>7, <1>8, <1>9, <1>j, WriteOwed

\* Every step preserves OwedInv.
LEMMA NextOwed ==
    ASSUME Undisturbed, ControlInv, SyncInv, EditInv, OwedInv, [Next]_vars
    PROVE  OwedInv'
<1>r. (~raced' => ~raced) /\ UNCHANGED fixed
  BY NextSync
<1> SUFFICES ASSUME backend' = "file", ~raced' PROVE OwedOK'
  BY DEF OwedInv
<1>c. Calm /\ backend = "file" /\ OwedOK
  BY <1>r DEF Calm, SyncInv, OwedInv, fixed
<1>1. ASSUME NEW w \in Workers, Start(w) \/ Call(w) PROVE OwedOK'
  <2>3. ~Record(w)
    BY <1>c DEF Record
  <2> QED
    BY <1>1, <1>c, <2>3, RequestOwed, PutOwed, FetchOwed, TransitionOwed, EngineOwed,
       RollbackOwed, RecordOwed DEF Call
<1>2. ASSUME Aside PROVE OwedOK'
  <2>1. UNCHANGED <<pc, job>>
    BY <1>2, AsideControl
  <2>4. \A x \in Views : /\ rows[x].state # "UNSPECIFIED" => rows'[x].state # "UNSPECIFIED"
                         /\ rows'[x].state = "MATERIALIZING" => rows[x].state = "MATERIALIZING"
    <3>1. CASE UNCHANGED rows
      BY <3>1
    <3>2. CASE \E v \in Views, o \in Row : /\ o.state \in UserStates
                                          /\ rows' = [rows EXCEPT ![v] = Applied(o, rows[v])]
      <4>1. PICK v \in Views, o \in Row : /\ o.state \in UserStates
                                          /\ rows' = [rows EXCEPT ![v] = Applied(o, rows[v])]
        BY <3>2
      <4>2. rows \in [Views -> Row] /\ rows[v] \in Row /\ o.state # "MATERIALIZING"
        BY <4>1 DEF ControlInv, Typed, TypeOK, Undisturbed
      <4>3. CASE o.state = "UNSPECIFIED"
        <5>1. Applied(o, rows[v]) = rows[v]
          BY <1>c, <4>3 DEF Applied
        <5> QED
          BY <4>1, <4>2, <5>1
      <4>4. CASE o.state # "UNSPECIFIED"
        <5>1. rows'[v].state = o.state /\ \A x \in Views \ {v} : rows'[x] = rows[x]
          BY <1>c, <4>1, <4>4, FileWrites
        <5> QED
          BY <4>2, <4>4, <5>1
      <4> QED
        BY <4>3, <4>4
    <3> QED
      BY <1>c, <1>2, <3>1, <3>2, AsideRows
  <2>5. \A u \in Workers : OwedAt(pc[u], job[u]) \subseteq Views
    BY <1>c, JobFacts, OwedIsNamed DEF OwedOK
  <2> QED
    BY <1>c, <2>1, <2>4, <2>5 DEF OwedOK
<1>3. ASSUME NEW dying, Crash(dying) PROVE OwedOK'
  BY <1>3 DEF Crash, Undisturbed
<1>4. ASSUME UNCHANGED vars PROVE OwedOK'
  <2>1. UNCHANGED <<pc, job, rows>>
    BY <1>4 DEF vars, registry
  <2> QED
    BY <1>c, <2>1 DEF OwedOK
<1> QED
  BY <1>1, <1>2, <1>3, <1>4, NextCases

\* The initial states satisfy OwedInv.
LEMMA InitOwed == Init => OwedInv
<1> SUFFICES ASSUME Init PROVE OwedOK
  BY DEF OwedInv
<1>1. \A u \in Workers : pc[u] = "idle" /\ job[u] = NoJob
  BY DEF Init
<1>2. CallAt("idle", NoJob) /\ ~Fresh("idle", NoJob)
  BY DEF CallAt, Fresh, Ended
<1>3. \A v \in Views : rows[v].state # "MATERIALIZING"
  BY DEF Init, NewRow, NewRows
<1> QED
  BY <1>1, <1>2, <1>3 DEF OwedOK

\* With the file registry, when no process dies and users do not set the state by hand,
\* a view is MATERIALIZING only while a call that names it runs: whichever synchronous,
\* asynchronous and forced calls overlap, fail, raise or roll each other's views back,
\* the last one to end leaves none behind, unless a thread has used the registry in the
\* middle of another one's change.  It is what EventuallyReleased needs besides the
\* fairness of the scheduler.
THEOREM NothingIsLeftBehind ==
    ASSUME Undisturbed
    PROVE  Spec => []MaterializingIsOwned
<1>1. Spec => [](ControlInv /\ SyncInv /\ OwedInv)
  <2> DEFINE All == ControlInv /\ SyncInv /\ EditInv /\ OwedInv
  <2>1. All /\ [Next]_vars => All'
    BY NextControl, NextSync, NextOwed
  <2>2. Init => All
    BY InitControl, InitSync, InitOwed
  <2> QED
    BY <2>1, <2>2, PTL DEF Spec
<1>2. ASSUME ControlInv, SyncInv, OwedInv PROVE MaterializingIsOwned
  <2> SUFFICES ASSUME backend = "file", ~raced, NEW v \in Views, rows[v].state = "MATERIALIZING"
               PROVE  \E w \in Workers : ~AtRest(w) /\ v \in ToSet(job[w].views)
    BY <1>2 DEF MaterializingIsOwned, SyncInv, SyncOK
  <2>1. OwedOK
    BY <1>2 DEF OwedInv
  <2>2. PICK w \in Workers : v \in OwedAt(pc[w], job[w])
    BY <2>1 DEF OwedOK
  <2>3. v \in ToSet(job[w].views)
    BY <1>2, <2>1, <2>2, JobFacts, OwedIsNamed DEF OwedOK
  <2>4. ~AtRest(w)
    BY <2>2, OwedFacts DEF AtRest
  <2> QED
    BY <2>3, <2>4
<1> QED
  BY <1>1, <1>2, PTL

===============================================================================
