--------------------------- MODULE FileRegistry_proofs ---------------------------
(***************************************************************************)
(* Proofs about the file registry, for any processes, calls, definitions   *)
(* and pins, any content of the file and both cache modes.                 *)
(***************************************************************************)
EXTENDS FileRegistry, FiniteSetTheorems, WellFoundedInduction, TLAPS

\* What is left of a call: an explicit version is declared just before the view is
\* applied with it.
TodoOK(t, c) ==
    /\ t \in Seq(ItemNames)
    /\ t # <<>> => c \in Call
    /\ \A i \in DOMAIN t :
         /\ t[i] = "source" => c.value \in Values
         /\ t[i] = "view" => c.view \in ViewRequest
         /\ t[i] = "declare" => c.view \in ViewRequest /\ c.view.pin # Latest
         /\ t[i] = "view" /\ c.view.pin # Latest /\ i > 1 => t[i - 1] = "declare"
         /\ t[i] = "declare" => i + 1 \in DOMAIN t /\ t[i + 1] = "view"

\* Where a view is being replaced.
Renewing == {"number", "save", "add"}

\* What the program counter says of the rest of the call.
ControlAt(p) ==
    /\ TodoOK(todo[p], call[p])
    /\ pc[p] \in {"plan", "prepare", "prepared", "modify"} \cup Midway => todo[p] # <<>>
    /\ pc[p] \in Renewing => Head(todo[p]) = "view" /\ call[p].view.pin = Latest
    /\ pc[p] = "clean" => Head(todo[p]) = "delete"
    /\ then[p] \in {"prepared", "modify", "infra"} => todo[p] # <<>>
    /\ pc[p] = "plan" \/ then[p] = "infra" => call[p].kind = "diff"
    /\ pc[p] = "infra" /\ call[p].kind = "diff" => todo[p] # <<>>
    /\ pc[p] \in {"idle", "down"} => todo[p] = <<>>
    /\ then[p] \notin {"plan", "prepare", "down"} \cup Midway
    /\ pc[p] \notin {"stat", "open", "write"} => then[p] = "idle"

Typed == TypeOK /\ \A p \in Processes : ControlAt(p)

\* The version is declared, and the view is not applied yet.
Declaring(p) ==
    /\ todo[p] # <<>>
    /\ Head(todo[p]) = "view" /\ call[p].view.pin # Latest

\* A message that a call leaves: also, a view that does not exist has no history.
Good(proto) == Consistent(proto) /\ (proto.active = None => proto.records = <<>>)

\* The definition that an explicit version stands for.
Pinned(p) == IF known[p] = None THEN call[p].view.def ELSE known[p]

\* What a change that takes several steps has made of message o so far: at label l,
\* with the copy new, the replaced view, the number and the list in hand.
Mid(l, c, new, replaced, n, list, o) ==
    /\ new.project = o.project /\ new.source = o.source /\ new.active = None
    /\ l \in Renewing => /\ list = TRUE /\ replaced = o.active
                         /\ o.active = None \/ o.active.def # c.view.def
    /\ l \in {"number", "clean"} => new.records = o.records
    /\ l = "save" =>
         \/ new.records = o.records /\ n = (IF o.active = None THEN 0 ELSE NextVersion(o.records))
         \/ /\ o.active # None /\ n = 1 /\ NextVersion(o.records) = 0
            /\ new.records = Save(o.records, 0, o.active.def)
    /\ l = "add" => new.records = AppliedLatest(o, c.view).records

Midpoint(p, o) == Mid(pc[p], call[p], cache[p], old[p], num[p], attached[p], o)

CopyAt(p) ==
    /\ Good(writing[p])
    /\ pc[p] \in Midway => \E o \in Proto : Good(o) /\ Midpoint(p, o)
    /\ ~Declaring(p) /\ pc[p] \notin Midway => Good(cache[p])
    /\ Declaring(p) =>
         /\ pc[p] \in {"prepare", "modify"}
         /\ Consistent(cache[p])
         /\ VersionRecord(cache[p].records, call[p].view.pin) = Pinned(p)

Excused == {"lookup", "reload"} \cap mishaps # {}

MessageInv ==
    Excused \/ /\ file # NoFile => Good(file)
               /\ \A p \in Processes : CopyAt(p)

--------------------------------------------------------------------------------
(* Version records *)

Unique(rs) == \A i, j \in DOMAIN rs : rs[i].ver = rs[j].ver => i = j

\* A nonempty set of natural numbers has a least element, which Min chooses.
LEMMA MinIn ==
    ASSUME NEW S \in SUBSET Nat, S # {}
    PROVE  Min(S) \in S
  <1>1. PICK x \in S : \A y \in S : <<y, x>> \notin OpToRel(<, Nat)
    BY WFMin, NatLessThanWellFounded, Zenon
  <1>2. \A y \in S : ~(y < x)
    BY <1>1, Zenon DEF OpToRel
  <1>3. \A y \in S : x <= y
    BY <1>2
  <1> QED
    BY <1>3 DEF Min

\* A nonempty finite set of natural numbers has a largest element: the one above
\* which there are fewest others.
LEMMA MaxIn ==
    ASSUME NEW S \in SUBSET Nat, IsFiniteSet(S), S # {}
    PROVE  Max(S) \in S /\ \A y \in S : y <= Max(S)
  <1> DEFINE Above(x) == {y \in S : y > x}
             T == {Above(x) : x \in S}
             R == StrictSubsetOrdering(S)
  <1>1. \A x \in S : Above(x) \in SUBSET S /\ IsFiniteSet(Above(x))
    BY FS_Subset
  <1>2. T \subseteq FiniteSubsetsOf(S) /\ T # {}
    BY <1>1 DEF FiniteSubsetsOf
  <1>3. IsWellFoundedOn(R, FiniteSubsetsOf(S))
    BY FS_StrictSubsetOrderingWellFounded
  <1> HIDE DEF R, T
  <1>4. PICK a \in T : \A b \in T : ~(<<b, a>> \in R)
    BY <1>2, <1>3, WFMin
  <1>5. PICK x \in S : a = Above(x)
    BY <1>4 DEF T
  <1>6. ASSUME NEW y \in S, y > x PROVE FALSE
    <2>1. Above(y) \subseteq Above(x) /\ y \in Above(x) /\ y \notin Above(y)
      <3>1. \A z \in S : z > y => z > x
        BY <1>6
      <3>2. ~(y > y)
        OBVIOUS
      <3> QED
        BY <1>6, <3>1, <3>2
    <2>2. <<Above(y), Above(x)>> \in R
      BY <1>1, <2>1 DEF R, StrictSubsetOrdering
    <2>3. Above(y) \in T
      BY DEF T
    <2> QED
      BY <1>4, <1>5, <2>2, <2>3
  <1>7. \A y \in S : x >= y
    BY <1>6
  <1>8. Max(S) \in S /\ \A y \in S : Max(S) >= y
    BY <1>7 DEF Max
  <1> QED
    BY <1>8

\* _get_version_record finds a version exactly if it is recorded.
LEMMA RecordFound ==
    ASSUME NEW rs \in Seq(Record), NEW v
    PROVE  /\ VersionRecord(rs, v) \in Defs \cup {None}
           /\ VersionRecord(rs, v) = None <=> \A i \in DOMAIN rs : rs[i].ver # v
           /\ VersionRecord(rs, v) # None =>
                \E i \in DOMAIN rs : rs[i].ver = v /\ VersionRecord(rs, v) = rs[i].def
  <1>1. CASE Matching(rs, v) = {}
    BY <1>1 DEF VersionRecord, Matching
  <1>2. CASE Matching(rs, v) # {}
    <2>1. Matching(rs, v) \in SUBSET Nat
      BY DEF Matching
    <2>2. PICK i \in DOMAIN rs : rs[i].ver = v /\ VersionRecord(rs, v) = rs[i].def
      BY <1>2, <2>1, MinIn DEF VersionRecord, Matching
    <2>3. rs[i].def \in Defs /\ rs[i].def # None
      <3>1. rs[i] \in Record
        OBVIOUS
      <3> QED
        BY <3>1, NoneAssumption DEF Record
    <2> QED
      BY <2>2, <2>3
  <1> QED
    BY <1>1, <1>2

\* With one record of each version, it finds that one.
LEMMA RecordIs ==
    ASSUME NEW rs \in Seq(Record), Unique(rs), NEW i \in DOMAIN rs
    PROVE  VersionRecord(rs, rs[i].ver) = rs[i].def
  <1>1. VersionRecord(rs, rs[i].ver) # None
    BY RecordFound
  <1>2. PICK j \in DOMAIN rs : rs[j].ver = rs[i].ver /\ VersionRecord(rs, rs[i].ver) = rs[j].def
    BY <1>1, RecordFound
  <1> QED
    BY <1>2 DEF Unique

\* A record of a new version is found, and the others are found as before.
LEMMA RecordSaved ==
    ASSUME NEW rs \in Seq(Record), Unique(rs), NEW v \in Nat, NEW d \in Defs,
           \A i \in DOMAIN rs : rs[i].ver # v
    PROVE  /\ Save(rs, v, d) \in Seq(Record) /\ Unique(Save(rs, v, d))
           /\ Save(rs, v, d) # <<>>
           /\ VersionRecord(Save(rs, v, d), v) = d
           /\ \A w : VersionRecord(rs, w) # None =>
                VersionRecord(Save(rs, v, d), w) = VersionRecord(rs, w)
  <1> DEFINE r == [ver |-> v, def |-> d]
             new == Save(rs, v, d)
  <1>1. r \in Record
    BY DEF Record
  <1>2. /\ new \in Seq(Record) /\ new # <<>>
        /\ DOMAIN new = 1 .. Len(rs) + 1 /\ DOMAIN rs = 1 .. Len(rs) /\ Len(rs) \in Nat
        /\ \A i \in DOMAIN rs : new[i] = rs[i]
        /\ new[Len(rs) + 1] = r
    BY <1>1 DEF Save
  <1>3. r.ver = v /\ r.def = d
    OBVIOUS
  <1>4. Unique(new)
    <2> SUFFICES ASSUME NEW i \in DOMAIN new, NEW j \in DOMAIN new, new[i].ver = new[j].ver
                 PROVE  i = j
      BY DEF Unique
    <2>1. i \in DOMAIN rs \/ i = Len(rs) + 1
      BY <1>2
    <2>2. j \in DOMAIN rs \/ j = Len(rs) + 1
      BY <1>2
    <2> QED
      BY <1>2, <1>3, <2>1, <2>2 DEF Unique
  <1> HIDE DEF new, r
  <1>5. VersionRecord(new, v) = d
    <2>1. Len(rs) + 1 \in DOMAIN new
      BY <1>2
    <2> QED
      BY <1>2, <1>3, <1>4, <2>1, RecordIs
  <1>6. ASSUME NEW w, VersionRecord(rs, w) # None
        PROVE  VersionRecord(new, w) = VersionRecord(rs, w)
    <2>1. PICK i \in DOMAIN rs : rs[i].ver = w /\ VersionRecord(rs, w) = rs[i].def
      BY <1>6, RecordFound
    <2>2. i \in DOMAIN new /\ new[i] = rs[i]
      BY <1>2
    <2>3. VersionRecord(new, new[i].ver) = new[i].def
      BY <1>2, <1>4, <2>2, RecordIs
    <2> QED
      BY <2>1, <2>2, <2>3
  <1> QED
    BY <1>2, <1>4, <1>5, <1>6 DEF new

\* _next_version_number is new, and 0 only for an empty history.
LEMMA NextIsNew ==
    ASSUME NEW rs \in Seq(Record)
    PROVE  /\ NextVersion(rs) \in Nat
           /\ \A i \in DOMAIN rs : rs[i].ver # NextVersion(rs)
           /\ NextVersion(rs) = 0 => rs = <<>>
  <1>1. CASE rs = <<>>
    BY <1>1 DEF NextVersion
  <1>2. CASE rs # <<>>
    <2> DEFINE S == {rs[i].ver : i \in DOMAIN rs}
    <2>1. S \in SUBSET Nat /\ S # {}
      <3>1. \A i \in DOMAIN rs : rs[i] \in Record
        OBVIOUS
      <3>2. \A i \in DOMAIN rs : rs[i].ver \in Nat
        BY <3>1 DEF Record
      <3>3. 1 \in DOMAIN rs
        BY <1>2
      <3> QED
        BY <3>2, <3>3
    <2>2. IsFiniteSet(S)
      <3>1. DOMAIN rs = 1 .. Len(rs) /\ Len(rs) \in Nat
        OBVIOUS
      <3>2. IsFiniteSet(DOMAIN rs)
        BY <3>1, FS_Interval
      <3>3. [i \in DOMAIN rs |-> rs[i].ver] \in Surjection(DOMAIN rs, S)
        BY DEF Surjection
      <3> QED
        BY <3>2, <3>3, FS_Surjection
    <2>3. Max(S) \in S /\ \A y \in S : y <= Max(S)
      BY <2>1, <2>2, MaxIn
    <2>4. NextVersion(rs) = Max(S) + 1
      BY <1>2 DEF NextVersion
    <2>5. \A i \in DOMAIN rs : rs[i].ver \in S
      OBVIOUS
    <2> HIDE DEF S
    <2>6. Max(S) \in Nat /\ \A y \in S : y \in Nat
      BY <2>1, <2>3
    <2>7. \A i \in DOMAIN rs : rs[i].ver <= Max(S) /\ rs[i].ver \in Nat
      BY <2>3, <2>5, <2>6
    <2> QED
      BY <2>4, <2>6, <2>7
  <1> QED
    BY <1>1, <1>2

--------------------------------------------------------------------------------
(* Changes to a message *)

Active == [def : Defs, pin : Pins \cup {Latest}]

\* The fields of a message.
LEMMA ProtoFields ==
    ASSUME NEW proto \in Proto
    PROVE  /\ proto.active \in Active \cup {None} /\ proto.records \in Seq(Record)
           /\ proto.project \in BOOLEAN /\ proto.source \in Values \cup {None}
           /\ proto.active # None => proto.active.def \in Defs /\ proto.active.def # None
                                     /\ proto.active.pin \in Pins \cup {Latest}
  BY NoneAssumption DEF Proto, Active

\* The empty message.
LEMMA EmptyIsGood == EmptyProto \in Proto /\ Good(EmptyProto)
  BY DEF EmptyProto, Proto, Good, Consistent

\* A message with the same view and history is as good.
LEMMA SameView ==
    ASSUME NEW proto, NEW new, new.active = proto.active, new.records = proto.records
    PROVE  /\ Consistent(new) <=> Consistent(proto)
           /\ Good(new) <=> Good(proto)
  BY DEF Consistent, Good

\* The latest path of apply_feature_view keeps the history in order.
LEMMA LatestIsGood ==
    ASSUME NEW proto \in Proto, NEW view \in ViewRequest
    PROVE  /\ AppliedLatest(proto, view) \in Proto
           /\ Good(proto) => Good(AppliedLatest(proto, view))
  <1> DEFINE rs == proto.records
             a == proto.active
             new == [def |-> view.def, pin |-> Latest]
             final == AppliedLatest(proto, view)
  <1>0. view.def \in Defs /\ view.promote \in BOOLEAN
    BY DEF ViewRequest
  <1>1. /\ a \in Active \cup {None} /\ rs \in Seq(Record)
        /\ a # None => a.def \in Defs /\ a.def # None /\ a.pin \in Pins \cup {Latest}
    BY ProtoFields
  <1>2. new \in Active /\ new # None /\ new.pin = Latest
    BY <1>0, NoneAssumption DEF Active
  <1>3. \A w \in Nat, d \in Defs, s \in Seq(Record) : Save(s, w, d) \in Seq(Record)
    BY DEF Save, Record
  <1> HIDE DEF rs, a, new
  <1>4. CASE a = None
    <2>1. final = [proto EXCEPT !.active = new, !.records = Save(rs, 0, view.def)]
      BY <1>4 DEF AppliedLatest, rs, a, new
    <2>2. Save(rs, 0, view.def) \in Seq(Record)
      BY <1>0, <1>1, <1>3
    <2>3. final \in Proto /\ final.active = new /\ final.records = Save(rs, 0, view.def)
      <3> HIDE DEF final
      <3>1. new \in Active \cup {None}
        BY <1>2
      <3> QED
        BY <1>2, <2>1, <2>2, <3>1 DEF Proto, Active
    <2>4. ASSUME Good(proto) PROVE Good(final)
      <3>1. rs = <<>>
        BY <1>4, <2>4 DEF Good, rs, a
      <3>2. Unique(rs) /\ \A i \in DOMAIN rs : rs[i].ver # 0
        BY <3>1 DEF Unique
      <3>3. Unique(Save(rs, 0, view.def)) /\ Save(rs, 0, view.def) # <<>>
        BY <1>0, <1>1, <3>2, RecordSaved
      <3> QED
        BY <1>2, <2>3, <3>3 DEF Good, Consistent, Unique
    <2> QED
      BY <2>3, <2>4
  <1>5. CASE a # None /\ a.def = view.def
    <2>1. final = [proto EXCEPT !.active = new]
      BY <1>5 DEF AppliedLatest, a, new
    <2>2. final \in Proto /\ final.active = new /\ final.records = rs
      BY <1>1, <1>2, <2>1 DEF Proto, Active, rs
    <2>3. ASSUME Good(proto) PROVE Good(final)
      BY <1>2, <2>2, <2>3 DEF Good, Consistent, rs
    <2> QED
      BY <2>2, <2>3
  <1>6. CASE a # None /\ a.def # view.def
    <2> DEFINE first == IF NextVersion(rs) = 0 THEN Save(rs, 0, a.def) ELSE rs
               b == IF view.promote THEN new ELSE a
    <2>1. final = [proto EXCEPT !.active = b, !.records = Save(first, NextVersion(first), view.def)]
      BY <1>6 DEF AppliedLatest, rs, a, new
    <2>2. first \in Seq(Record) /\ b \in Active \cup {None} /\ b # None
      BY <1>1, <1>2, <1>3, <1>6
    <2> HIDE DEF first, b
    <2>3. /\ NextVersion(first) \in Nat /\ \A i \in DOMAIN first : first[i].ver # NextVersion(first)
      BY <2>2, NextIsNew
    <2>4. Save(first, NextVersion(first), view.def) \in Seq(Record)
      BY <1>0, <1>3, <2>2, <2>3
    <2>5. final \in Proto /\ final.active = b /\ final.records = Save(first, NextVersion(first), view.def)
      <3> HIDE DEF final
      <3> QED
        BY <2>1, <2>2, <2>4 DEF Proto, Active
    <2>6. ASSUME Good(proto) PROVE Good(final)
      <3>1. Unique(rs) /\ (a.pin # Latest => VersionRecord(rs, a.pin) = a.def)
        BY <1>6, <2>6 DEF Good, Consistent, Unique, rs, a
      <3>2. Unique(first) /\ (a.pin # Latest => VersionRecord(first, a.pin) = a.def)
        <4>1. CASE NextVersion(rs) = 0
          <5>1. rs = <<>>
            BY <1>1, <4>1, NextIsNew
          <5>2. \A i \in DOMAIN rs : rs[i].ver # 0
            BY <5>1
          <5>3. /\ Unique(Save(rs, 0, a.def))
                /\ \A w : VersionRecord(rs, w) # None =>
                     VersionRecord(Save(rs, 0, a.def), w) = VersionRecord(rs, w)
            <6>1. a.def \in Defs /\ 0 \in Nat
              BY <1>1, <1>6
            <6> QED
              BY <1>1, <3>1, <5>2, <6>1, RecordSaved
          <5> QED
            BY <1>1, <1>6, <3>1, <4>1, <5>3 DEF first
        <4>2. CASE NextVersion(rs) # 0
          BY <3>1, <4>2 DEF first
        <4> QED
          BY <4>1, <4>2
      <3>3. /\ Unique(Save(first, NextVersion(first), view.def))
            /\ Save(first, NextVersion(first), view.def) # <<>>
            /\ \A w : VersionRecord(first, w) # None =>
                 VersionRecord(Save(first, NextVersion(first), view.def), w) = VersionRecord(first, w)
        BY <1>0, <2>2, <2>3, <3>2, RecordSaved
      <3>4. (final.active # None /\ final.active.pin # Latest)
             => VersionRecord(final.records, final.active.pin) = final.active.def
        <4> SUFFICES ASSUME b.pin # Latest
                     PROVE  VersionRecord(final.records, b.pin) = b.def
          BY <2>5
        <4>1. b = a
          BY <1>2 DEF b
        <4> QED
          BY <1>1, <1>6, <2>5, <3>2, <3>3, <4>1
      <3> QED
        BY <2>2, <2>5, <3>3, <3>4 DEF Good, Consistent, Unique
    <2> QED
      BY <2>5, <2>6
  <1> QED
    BY <1>4, <1>5, <1>6

\* Declaring a version that is not recorded records it; one that is recorded stays.
LEMMA DeclaredIsConsistent ==
    ASSUME NEW proto \in Proto, NEW view \in ViewRequest, view.pin # Latest,
           NEW record \in Defs \cup {None}
    PROVE  /\ Declared(proto, view, record) \in Proto
           /\ Consistent(proto) /\ record = VersionRecord(proto.records, view.pin)
              => /\ Consistent(Declared(proto, view, record))
                 /\ VersionRecord(Declared(proto, view, record).records, view.pin)
                    = IF record = None THEN view.def ELSE record
  <1> DEFINE rs == proto.records
             final == Declared(proto, view, record)
  <1>0. view.def \in Defs /\ view.pin \in Nat
    BY PinsAssumption DEF ViewRequest
  <1>1. /\ proto.active \in Active \cup {None} /\ rs \in Seq(Record)
        /\ proto.active # None => proto.active.def # None
    BY ProtoFields
  <1>2. CASE record # None
    BY <1>2 DEF Declared
  <1>3. CASE record = None
    <2>1. final = [proto EXCEPT !.records = Save(rs, view.pin, view.def)]
      BY <1>3 DEF Declared
    <2>2. Save(rs, view.pin, view.def) \in Seq(Record)
      BY <1>0, <1>1 DEF Save, Record
    <2>3. /\ final \in Proto /\ final.active = proto.active
          /\ final.records = Save(rs, view.pin, view.def)
      BY <2>1, <2>2 DEF Proto
    <2> HIDE DEF rs, final
    <2>4. ASSUME Consistent(proto), VersionRecord(rs, view.pin) = None
          PROVE  Consistent(final) /\ VersionRecord(final.records, view.pin) = view.def
      <3>1. Unique(rs) /\ \A i \in DOMAIN rs : rs[i].ver # view.pin
        BY <1>1, <2>4, RecordFound DEF Consistent, Unique, rs
      <3>2. /\ Unique(final.records)
            /\ VersionRecord(final.records, view.pin) = view.def
            /\ \A w : VersionRecord(rs, w) # None =>
                 VersionRecord(final.records, w) = VersionRecord(rs, w)
        BY <1>0, <1>1, <2>3, <3>1, RecordSaved
      <3>3. (final.active # None /\ final.active.pin # Latest)
             => VersionRecord(final.records, final.active.pin) = final.active.def
        BY <1>1, <2>3, <2>4, <3>2 DEF Consistent, rs
      <3> QED
        BY <3>2, <3>3 DEF Consistent, Unique
    <2> QED
      BY <1>3, <2>3, <2>4 DEF rs, final
  <1> QED
    BY <1>2, <1>3

\* Applying an explicit version that is recorded.
LEMMA PinIsGood ==
    ASSUME NEW proto \in Proto, NEW view \in ViewRequest, view.pin # Latest,
           NEW record \in Defs \cup {None}
    PROVE  /\ AppliedPin(proto, view, record) \in Proto
           /\ /\ Consistent(proto)
              /\ VersionRecord(proto.records, view.pin) = IF record = None THEN view.def ELSE record
              => Good(AppliedPin(proto, view, record))
  <1> DEFINE a == [def |-> IF record = None THEN view.def ELSE record, pin |-> view.pin]
             final == AppliedPin(proto, view, record)
  <1>1. a \in Active /\ a # None
    BY NoneAssumption DEF Active, ViewRequest
  <1>2. a.def = (IF record = None THEN view.def ELSE record) /\ a.pin = view.pin
    OBVIOUS
  <1>3. final = [proto EXCEPT !.active = a]
    BY DEF AppliedPin
  <1> HIDE DEF a, final
  <1>4. final \in Proto /\ final.active = a /\ final.records = proto.records
    BY <1>1, <1>3 DEF Proto, Active
  <1> QED
    BY <1>1, <1>2, <1>4 DEF Good, Consistent, final

\* Deleting the view: it goes first, then its history.
LEMMA DeleteLooks ==
    ASSUME NEW a \in Proto
    PROVE  /\ Without(a) \in Proto /\ Without(a).active = None /\ Without(a).records = a.records
           /\ Without(a).project = a.project /\ Without(a).source = a.source
           /\ Cleaned(a) \in Proto /\ Cleaned(a).active = a.active /\ Cleaned(a).records = <<>>
           /\ Cleaned(a).project = a.project /\ Cleaned(a).source = a.source
           /\ DeletedView(a) \in Proto /\ DeletedView(a).active = None
           /\ DeletedView(a).records = <<>>
           /\ DeletedView(a).project = a.project /\ DeletedView(a).source = a.source
  <1>1. ASSUME NEW b \in Proto
        PROVE  /\ Without(b) \in Proto /\ Without(b).active = None /\ Without(b).records = b.records
               /\ Without(b).project = b.project /\ Without(b).source = b.source
    <2>1. Without(b) = [b EXCEPT !.active = None]
      BY DEF Without
    <2> QED
      BY <2>1 DEF Proto
  <1>2. ASSUME NEW b \in Proto
        PROVE  /\ Cleaned(b) \in Proto /\ Cleaned(b).active = b.active /\ Cleaned(b).records = <<>>
               /\ Cleaned(b).project = b.project /\ Cleaned(b).source = b.source
    <2>1. Cleaned(b) = [b EXCEPT !.records = <<>>]
      BY DEF Cleaned
    <2>2. <<>> \in Seq(Record)
      OBVIOUS
    <2> QED
      BY <2>1, <2>2 DEF Proto
  <1>3. DeletedView(a) = Cleaned(Without(a))
    BY DEF DeletedView
  <1> QED
    BY <1>1, <1>2, <1>3

\* Every change of a call keeps the type of a message.
LEMMA ChangedType ==
    ASSUME NEW c, NEW t, TodoOK(t, c), t # <<>>, NEW proto \in Proto,
           NEW record \in Defs \cup {None}
    PROVE  Changed(c, Head(t), proto, record) \in Proto
  <1>1. t \in Seq(ItemNames) /\ 1 \in DOMAIN t /\ Head(t) = t[1]
    BY DEF TodoOK
  <1>2. CASE Head(t) = "project"
    BY <1>2 DEF Changed, Proto
  <1>3. CASE Head(t) = "source"
    <2>1. c.value \in Values
      BY <1>1, <1>3 DEF TodoOK
    <2> QED
      BY <1>3, <2>1 DEF Changed, Proto
  <1>4. CASE Head(t) = "declare"
    <2>1. c.view \in ViewRequest /\ c.view.pin # Latest
      BY <1>1, <1>4 DEF TodoOK
    <2> QED
      BY <1>4, <2>1, DeclaredIsConsistent DEF Changed
  <1>5. CASE Head(t) = "view"
    <2>1. c.view \in ViewRequest
      BY <1>1, <1>5 DEF TodoOK
    <2> QED
      BY <1>5, <2>1, PinIsGood, LatestIsGood DEF Changed, AppliedView
  <1>6. CASE Head(t) = "delete"
    BY <1>6, DeleteLooks DEF Changed
  <1>7. CASE Head(t) = "infra"
    BY <1>7 DEF Changed
  <1> QED
    BY <1>1, <1>2, <1>3, <1>4, <1>5, <1>6, <1>7 DEF ItemNames

--------------------------------------------------------------------------------
(* Types and control *)

\* The fields of a call.
LEMMA CallFields ==
    ASSUME NEW c \in Call
    PROVE  /\ c # None /\ c.kind \in {"apply", "diff", "source", "view", "delete"}
           /\ c.kind \in {"apply", "diff", "source"} => c.value \in Values
           /\ c.kind \in {"apply", "view"} => c.view \in ViewRequest
           /\ c.kind = "diff" => c.view \in ViewRequest \cup {None}
  BY NoneAssumption DEF Call

\* Short sequences are equal if their elements are.
LEMMA ShortEqual ==
    ASSUME NEW S, NEW s \in Seq(S), NEW t \in Seq(S), Len(s) = Len(t), Len(s) \in {3, 4},
           s[1] = t[1], s[2] = t[2], s[3] = t[3], Len(s) = 4 => s[4] = t[4]
    PROVE  s = t
  <1>1. \A i \in 1 .. Len(s) : s[i] = t[i]
    <2> SUFFICES ASSUME NEW i \in 1 .. Len(s) PROVE s[i] = t[i]
      OBVIOUS
    <2>1. i \in {1, 2, 3} \/ (i = 4 /\ Len(s) = 4)
      OBVIOUS
    <2> QED
      BY <2>1
  <1> QED
    BY <1>1

\* The changes of a call, written out.
LEMMA ItemsAre ==
    ASSUME NEW c \in Call
    PROVE  Items(c) =
             CASE c.kind = "apply" ->
                    (IF c.view.pin = Latest THEN <<"project", "source", "view">>
                     ELSE <<"project", "source", "declare", "view">>)
               [] c.kind = "diff" /\ c.view # None ->
                    (IF c.view.pin = Latest THEN <<"source", "view", "infra">>
                     ELSE <<"source", "declare", "view", "infra">>)
               [] c.kind = "diff" /\ c.view = None -> <<"source", "delete", "infra">>
               [] c.kind = "view" ->
                    (IF c.view.pin = Latest THEN <<"view">> ELSE <<"declare", "view">>)
               [] c.kind = "source" -> <<"source">>
               [] c.kind = "delete" -> <<"delete">>
  <1>a. <<"project", "source">> \o <<"view">> = <<"project", "source", "view">>
    <2> DEFINE s == <<"project", "source">> \o <<"view">>
               t == <<"project", "source", "view">>
    <2>1. s \in Seq(ItemNames) /\ t \in Seq(ItemNames) /\ Len(s) = 3 /\ Len(t) = 3
      BY DEF ItemNames
    <2>2. s[1] = t[1] /\ s[2] = t[2] /\ s[3] = t[3]
      OBVIOUS
    <2> HIDE DEF s, t
    <2>3. s = t
      BY <2>1, <2>2, ShortEqual
    <2> QED
      BY <2>3 DEF s, t
  <1>b. <<"project", "source">> \o <<"declare", "view">> = <<"project", "source", "declare", "view">>
    <2> DEFINE s == <<"project", "source">> \o <<"declare", "view">>
               t == <<"project", "source", "declare", "view">>
    <2>1. s \in Seq(ItemNames) /\ t \in Seq(ItemNames) /\ Len(s) = 4 /\ Len(t) = 4
      BY DEF ItemNames
    <2>2. s[1] = t[1] /\ s[2] = t[2] /\ s[3] = t[3] /\ s[4] = t[4]
      OBVIOUS
    <2> HIDE DEF s, t
    <2>3. s = t
      BY <2>1, <2>2, ShortEqual
    <2> QED
      BY <2>3 DEF s, t
  <1>c. <<"source">> \o <<"view">> \o <<"infra">> = <<"source", "view", "infra">>
    <2> DEFINE s == <<"source">> \o <<"view">> \o <<"infra">>
               t == <<"source", "view", "infra">>
    <2>1. s \in Seq(ItemNames) /\ t \in Seq(ItemNames) /\ Len(s) = 3 /\ Len(t) = 3
      BY DEF ItemNames
    <2>2. s[1] = t[1] /\ s[2] = t[2] /\ s[3] = t[3]
      OBVIOUS
    <2> HIDE DEF s, t
    <2>3. s = t
      BY <2>1, <2>2, ShortEqual
    <2> QED
      BY <2>3 DEF s, t
  <1>d. <<"source">> \o <<"declare", "view">> \o <<"infra">> = <<"source", "declare", "view", "infra">>
    <2> DEFINE s == <<"source">> \o <<"declare", "view">> \o <<"infra">>
               t == <<"source", "declare", "view", "infra">>
    <2>1. s \in Seq(ItemNames) /\ t \in Seq(ItemNames) /\ Len(s) = 4 /\ Len(t) = 4
      BY DEF ItemNames
    <2>2. s[1] = t[1] /\ s[2] = t[2] /\ s[3] = t[3] /\ s[4] = t[4]
      OBVIOUS
    <2> HIDE DEF s, t
    <2>3. s = t
      BY <2>1, <2>2, ShortEqual
    <2> QED
      BY <2>3 DEF s, t
  <1>1. CASE c.kind = "apply"
    <2>1. CASE c.view.pin = Latest
      BY <1>1, <2>1, <1>a DEF Items, ViewItems
    <2>2. CASE c.view.pin # Latest
      BY <1>1, <2>2, <1>b DEF Items, ViewItems
    <2> QED
      BY <2>1, <2>2
  <1>2. CASE c.kind = "diff" /\ c.view # None
    <2>1. CASE c.view.pin = Latest
      BY <1>2, <2>1, <1>c DEF Items, ViewItems
    <2>2. CASE c.view.pin # Latest
      BY <1>2, <2>2, <1>d DEF Items, ViewItems
    <2> QED
      BY <2>1, <2>2
  <1>3. CASE c.kind = "diff" /\ c.view = None
    BY <1>3 DEF Items
  <1>4. CASE c.kind = "view"
    BY <1>4 DEF Items, ViewItems
  <1>5. CASE c.kind \in {"source", "delete"}
    BY <1>5 DEF Items
  <1> QED
    BY <1>1, <1>2, <1>3, <1>4, <1>5, CallFields

\* The changes of a call are in order when it begins.
LEMMA ItemsOK ==
    ASSUME NEW c \in Call
    PROVE  /\ TodoOK(Items(c), c) /\ Items(c) # <<>>
           /\ Head(Items(c)) = "view" => c.view.pin = Latest
  <1> USE CallFields, ItemsAre DEF TodoOK, ItemNames
  <1>1. CASE c.kind = "apply"
    <2>1. c.value \in Values /\ c.view \in ViewRequest
      BY <1>1
    <2>2. CASE c.view.pin = Latest
      <3>1. Items(c) = <<"project", "source", "view">>
        BY <1>1, <2>2
      <3> QED
        BY <2>1, <2>2, <3>1
    <2>3. CASE c.view.pin # Latest
      <3>1. Items(c) = <<"project", "source", "declare", "view">>
        BY <1>1, <2>3
      <3> QED
        BY <2>1, <2>3, <3>1
    <2> QED
      BY <2>2, <2>3
  <1>2. CASE c.kind = "diff" /\ c.view # None
    <2>1. c.value \in Values /\ c.view \in ViewRequest
      BY <1>2
    <2>2. CASE c.view.pin = Latest
      <3>1. Items(c) = <<"source", "view", "infra">>
        BY <1>2, <2>2
      <3> QED
        BY <2>1, <2>2, <3>1
    <2>3. CASE c.view.pin # Latest
      <3>1. Items(c) = <<"source", "declare", "view", "infra">>
        BY <1>2, <2>3
      <3> QED
        BY <2>1, <2>3, <3>1
    <2> QED
      BY <2>2, <2>3
  <1>3. CASE c.kind = "diff" /\ c.view = None
    <2>1. Items(c) = <<"source", "delete", "infra">> /\ c.value \in Values
      BY <1>3
    <2> QED
      BY <2>1
  <1>4. CASE c.kind = "view"
    <2>1. c.view \in ViewRequest
      BY <1>4
    <2>2. CASE c.view.pin = Latest
      <3>1. Items(c) = <<"view">>
        BY <1>4, <2>2
      <3> QED
        BY <2>1, <2>2, <3>1
    <2>3. CASE c.view.pin # Latest
      <3>1. Items(c) = <<"declare", "view">>
        BY <1>4, <2>3
      <3>2. /\ Items(c) \in Seq(ItemNames) /\ DOMAIN Items(c) = {1, 2} /\ Items(c) # <<>>
            /\ Items(c)[1] = "declare" /\ Items(c)[2] = "view" /\ Head(Items(c)) = "declare"
        BY <3>1
      <3> QED
        BY <2>1, <2>3, <3>2
    <2> QED
      BY <2>2, <2>3
  <1>5. CASE c.kind = "source"
    <2>1. Items(c) = <<"source">> /\ c.value \in Values
      BY <1>5
    <2> QED
      BY <2>1
  <1>6. CASE c.kind = "delete"
    <2>1. Items(c) = <<"delete">>
      BY <1>6
    <2> QED
      BY <2>1
  <1> QED
    BY <1>1, <1>2, <1>3, <1>4, <1>5, <1>6

\* A sequence of two has a tail.
LEMMA LongTail ==
    ASSUME NEW S, NEW t \in Seq(S), Len(t) > 1
    PROVE  Tail(t) # <<>>
  <1>1. DOMAIN Tail(t) = 1 .. (Len(t) - 1) /\ Len(t) \in Nat
    OBVIOUS
  <1>2. 1 \in DOMAIN Tail(t)
    BY <1>1
  <1>3. DOMAIN <<>> = {}
    OBVIOUS
  <1> QED
    BY <1>2, <1>3

\* ... and stay so when the first of them is made.
LEMMA TailOK ==
    ASSUME NEW t, NEW c, TodoOK(t, c), t # <<>>
    PROVE  /\ TodoOK(Tail(t), c)
           /\ Tail(t) # <<>> /\ Head(Tail(t)) = "view" /\ c.view.pin # Latest => Head(t) = "declare"
  <1>1. t \in Seq(ItemNames) /\ Len(t) \in Nat /\ Len(t) > 0
    BY DEF TodoOK
  <1>2. /\ Tail(t) \in Seq(ItemNames) /\ Len(Tail(t)) = Len(t) - 1
        /\ \A i \in DOMAIN Tail(t) : i + 1 \in DOMAIN t /\ Tail(t)[i] = t[i + 1] /\ i \in Nat /\ i > 0
    BY <1>1
  <1>3. Tail(t) # <<>> => 1 \in DOMAIN Tail(t) /\ Head(Tail(t)) = t[2] /\ 2 \in DOMAIN t
    BY <1>1, <1>2
  <1>4. ASSUME NEW i \in DOMAIN Tail(t)
        PROVE  /\ Tail(t)[i] = "source" => c.value \in Values
               /\ Tail(t)[i] = "view" => c.view \in ViewRequest
               /\ Tail(t)[i] = "declare" => c.view \in ViewRequest /\ c.view.pin # Latest
               /\ Tail(t)[i] = "view" /\ c.view.pin # Latest /\ i > 1 => Tail(t)[i - 1] = "declare"
               /\ Tail(t)[i] = "declare" => i + 1 \in DOMAIN Tail(t) /\ Tail(t)[i + 1] = "view"
    <2>1. i + 1 \in DOMAIN t /\ Tail(t)[i] = t[i + 1] /\ i \in Nat /\ i + 1 > 1
      BY <1>2
    <2>2. t[i + 1] = "view" /\ c.view.pin # Latest => t[i] = "declare"
      <3>1. t[i + 1] = "view" /\ c.view.pin # Latest => t[(i + 1) - 1] = "declare"
        BY <2>1 DEF TodoOK
      <3>2. (i + 1) - 1 = i
        BY <2>1
      <3> QED
        BY <3>1, <3>2
    <2>3. i > 1 => i - 1 \in DOMAIN Tail(t) /\ Tail(t)[i - 1] = t[i]
      BY <1>1, <1>2, <2>1
    <2>4. t[i + 1] = "declare" => i + 1 \in DOMAIN Tail(t) /\ Tail(t)[i + 1] = "view"
      <3> SUFFICES ASSUME t[i + 1] = "declare"
                   PROVE  i + 1 \in DOMAIN Tail(t) /\ Tail(t)[i + 1] = "view"
        OBVIOUS
      <3>1. (i + 1) + 1 \in DOMAIN t /\ t[(i + 1) + 1] = "view"
        BY <2>1 DEF TodoOK
      <3>2. i + 1 \in DOMAIN Tail(t)
        BY <1>1, <1>2, <2>1, <3>1
      <3>3. Tail(t)[i + 1] = t[(i + 1) + 1]
        BY <1>2, <3>2
      <3> QED
        BY <3>1, <3>2, <3>3
    <2>5. /\ Tail(t)[i] = "source" => c.value \in Values
          /\ Tail(t)[i] = "view" => c.view \in ViewRequest
          /\ Tail(t)[i] = "declare" => c.view \in ViewRequest /\ c.view.pin # Latest
      BY <2>1 DEF TodoOK
    <2> QED
      BY <2>1, <2>2, <2>3, <2>4, <2>5
  <1>5. Tail(t) # <<>> /\ Head(Tail(t)) = "view" /\ c.view.pin # Latest => Head(t) = "declare"
    <2>1. 2 \in DOMAIN t => (t[2] = "view" /\ c.view.pin # Latest => t[2 - 1] = "declare")
      BY DEF TodoOK
    <2>2. t[2 - 1] = Head(t)
      BY <1>1
    <2> QED
      BY <1>3, <2>1, <2>2
  <1> QED
    BY <1>2, <1>4, <1>5 DEF TodoOK

\* Effect keeps the type of a message.
LEMMA EffectType ==
    ASSUME NEW c \in Call, NEW proto \in Proto
    PROVE  Effect(c, proto) \in Proto /\ ViewEffect(c, proto) \in Proto
  <1> DEFINE record == VersionRecord(proto.records, c.view.pin)
             view == ViewEffect(c, proto)
             source == IF c.kind \in {"apply", "diff", "source"} THEN c.value ELSE view.source
  <1>1. record \in Defs \cup {None}
    BY ProtoFields, RecordFound
  <1>2. DeletedView(proto) \in Proto
    BY DeleteLooks
  <1>3. ASSUME c.view \in ViewRequest
        PROVE  /\ AppliedLatest(proto, c.view) \in Proto
               /\ c.view.pin # Latest =>
                    AppliedPin(Declared(proto, c.view, record), c.view, record) \in Proto
    BY <1>1, <1>3, LatestIsGood, DeclaredIsConsistent, PinIsGood
  <1>4. view \in Proto
    <2> HIDE DEF record
    <2>1. c.kind \in {"source", "delete"} \/ c.view = None \/ c.view \in ViewRequest
      BY CallFields
    <2> QED
      BY <1>2, <1>3, <2>1 DEF ViewEffect, record
  <1>5. Effect(c, proto) = [view EXCEPT !.project = TRUE, !.source = source]
    BY DEF Effect
  <1>6. source \in Values \cup {None}
    BY <1>4, CallFields, ProtoFields
  <1> HIDE DEF view, source
  <1>7. Effect(c, proto) \in Proto
    BY <1>4, <1>5, <1>6 DEF Proto
  <1> QED
    BY <1>4, <1>7 DEF view

\* A step of process p.
StepOf(p) ==
    Start(p) \/ Crash(p) \/ Begin(p) \/ Step(p) \/ ThreadLoads(p) \/ ThreadStats(p)

\* Those that neither write the file nor take a call.
Quiet(p) ==
    \/ Start(p) \/ Crash(p) \/ Begin(p) \/ Plan(p) \/ Stat(p) \/ Prepare(p) \/ Prepared(p)
    \/ Modify(p) \/ Number(p) \/ SaveRecord(p) \/ AddView(p) \/ Clean(p) \/ Infra(p) \/ After(p)
    \/ ThreadLoads(p) \/ ThreadStats(p)

\* They leave the file as it is, and the others' view of its time.
LEMMA QuietFile ==
    ASSUME TypeOK, NEW p \in Processes, Quiet(p)
    PROVE  /\ UNCHANGED <<file, mode, truth>> /\ mishaps \subseteq mishaps'
           /\ \A q \in Processes \ {p} : behind'[q] = behind[q]
  <1> USE DEF TypeOK, Became
  <1>1. CASE Start(p) \/ Crash(p) \/ Begin(p) \/ ThreadLoads(p) \/ ThreadStats(p)
    BY <1>1 DEF Start, Crash, Begin, ThreadLoads, ThreadStats
  <1>2. CASE Plan(p) \/ Stat(p) \/ Prepare(p) \/ Prepared(p)
    BY <1>2 DEF Plan, Reload, Stat, Prepare, Prepared
  <1>3. CASE Modify(p) \/ Infra(p)
    BY <1>3 DEF Modify, Fail, Infra
  <1>4. CASE Number(p) \/ SaveRecord(p) \/ AddView(p) \/ Clean(p)
    BY <1>4 DEF Number, SaveRecord, AddView, Clean
  <1>5. CASE After(p)
    BY <1>5 DEF After, Reload
  <1> QED
    BY <1>1, <1>2, <1>3, <1>4, <1>5 DEF Quiet

\* The others open the file and write it.
LEMMA Steps == ASSUME NEW p, StepOf(p) PROVE Quiet(p) \/ Open(p) \/ Write(p)
  BY DEF StepOf, Step, Quiet

\* No step takes a mishap back.
LEMMA MishapsGrow ==
    ASSUME TypeOK, NEW p \in Processes, StepOf(p)
    PROVE  mishaps \subseteq mishaps' /\ mode' = mode
  BY QuietFile, Steps DEF Open, Write

\* A step of one process leaves the others alone, except that it may touch the file.
LEMMA Frame ==
    ASSUME TypeOK, NEW p \in Processes, NEW q \in Processes, p # q, StepOf(p)
    PROVE  /\ pc'[q] = pc[q] /\ then'[q] = then[q] /\ call'[q] = call[q] /\ todo'[q] = todo[q]
           /\ known'[q] = known[q] /\ cache'[q] = cache[q] /\ writing'[q] = writing[q]
           /\ old'[q] = old[q] /\ num'[q] = num[q] /\ attached'[q] = attached[q]
           /\ reading'[q] = reading[q]
  <1> USE DEF TypeOK, Became, Goto, Forget, Load, Reload, Released, local
  <1>1. CASE Start(p) \/ Crash(p) \/ Begin(p)
    BY <1>1 DEF Start, Crash, Begin
  <1>2. CASE Plan(p) \/ Stat(p) \/ ThreadLoads(p) \/ ThreadStats(p)
    BY <1>2 DEF Plan, Stat, ThreadLoads, ThreadStats
  <1>3. CASE Prepare(p) \/ Prepared(p)
    BY <1>3 DEF Prepare, Prepared
  <1>4. CASE Modify(p)
    BY <1>4 DEF Modify, Fail, Done, Finish
  <1>5. CASE Infra(p) \/ Open(p)
    BY <1>5 DEF Infra, Fail, Open
  <1>6. CASE Write(p) \/ After(p)
    BY <1>6 DEF Write, After
  <1>7. CASE Number(p) \/ SaveRecord(p)
    BY <1>7 DEF Number, SaveRecord
  <1>8. CASE AddView(p) \/ Clean(p)
    BY <1>8 DEF AddView, Clean, Done, Finish
  <1> QED
    BY <1>1, <1>2, <1>3, <1>4, <1>5, <1>6, <1>7, <1>8 DEF StepOf, Step

\* What a change that is made leaves to be done.
LEMMA DoneControl ==
    ASSUME Typed, NEW p \in Processes, todo[p] # <<>>, then[p] = "idle", NEW new, Done(p, new),
           UNCHANGED <<call, then>>
    PROVE  /\ ControlAt(p)' /\ pc' \in [Processes -> PcValues] /\ pc'[p] \notin Midway
           /\ cache' = [cache EXCEPT ![p] = new] /\ todo' = [todo EXCEPT ![p] = Tail(todo[p])]
  <1> USE DEF Became, Goto
  <1>1. TypeOK /\ ControlAt(p)
    BY DEF Typed
  <1>2. /\ cache' = [cache EXCEPT ![p] = new] /\ todo' = [todo EXCEPT ![p] = Tail(todo[p])]
        /\ todo'[p] = Tail(todo[p])
    BY <1>1 DEF Done, TypeOK
  <1>3. TodoOK(Tail(todo[p]), call[p]) /\ todo[p] \in Seq(ItemNames)
    BY <1>1, TailOK DEF ControlAt, TypeOK
  <1>4. CASE Len(todo[p]) > 1
    <2>1. pc' = [pc EXCEPT ![p] = "prepare"] /\ pc'[p] = "prepare"
      BY <1>1, <1>4 DEF Done, TypeOK
    <2>2. Tail(todo[p]) # <<>>
      BY <1>3, <1>4, LongTail
    <2>3. pc' \in [Processes -> PcValues]
      BY <1>1, <2>1 DEF TypeOK, PcValues
    <2> QED
      BY <1>2, <1>3, <2>1, <2>2, <2>3 DEF ControlAt, Midway, Renewing
  <1>5. CASE ~(Len(todo[p]) > 1)
    <2>1. Tail(todo[p]) = <<>>
      BY <1>3, <1>5
    <2>2. PICK u : Finish(p, u)
      BY <1>5 DEF Done
    <2>3. /\ pc'[p] \in {"infra", "idle", "open"} /\ pc' \in [Processes -> PcValues]
          /\ pc'[p] = "infra" => call[p].kind # "diff"
      BY <1>1, <2>2 DEF Finish, TypeOK, PcValues
    <2> QED
      BY <1>2, <1>3, <2>1, <2>3 DEF ControlAt, Midway, Renewing
  <1> QED
    BY <1>4, <1>5

\* What the process of a step has in hand keeps its type.
LEMMA ControlStep ==
    ASSUME Typed, NEW p \in Processes, StepOf(p)
    PROVE  ControlAt(p)'
  <1> USE DEF Became, Goto, Forget, Load, Reload, Midway, Renewing
  <1>1. TypeOK /\ ControlAt(p)
    BY DEF Typed
  <1>2. ASSUME NEW c PROVE TodoOK(<<>>, c)
    BY DEF TodoOK
  <1>3. CASE Start(p)
    <2>1. /\ pc[p] = "down" /\ pc'[p] \in {"idle", "open"}
          /\ then' = then /\ call' = call /\ todo' = todo
      BY <1>1, <1>3 DEF Start, TypeOK
    <2> QED
      BY <1>1, <2>1 DEF ControlAt
  <1>4. CASE Crash(p)
    <2>1. pc'[p] = "down" /\ then'[p] = "idle" /\ todo'[p] = <<>>
      BY <1>1, <1>4 DEF Crash, TypeOK
    <2> QED
      BY <1>2, <2>1 DEF ControlAt
  <1>5. CASE Begin(p)
    <2>1. PICK c \in Call :
            /\ call' = [call EXCEPT ![p] = c] /\ todo' = [todo EXCEPT ![p] = Items(c)]
            /\ pc' = [pc EXCEPT ![p] = IF c.kind = "diff" THEN "plan" ELSE "prepare"]
      BY <1>5, CallsAssumption DEF Begin
    <2>2. /\ call'[p] = c /\ todo'[p] = Items(c) /\ then'[p] = "idle"
          /\ pc'[p] \in {"plan", "prepare"} /\ (pc'[p] = "plan" => c.kind = "diff")
      BY <1>1, <1>5, <2>1 DEF Begin, TypeOK, ControlAt
    <2> QED
      BY <2>2, ItemsOK DEF ControlAt
  <1>6. CASE Plan(p)
    <2>1. /\ pc[p] = "plan" /\ pc'[p] = "stat" /\ then'[p] = "infra" /\ call' = call
          /\ \/ todo'[p] = todo[p]
             \/ call[p].view = None /\ todo'[p] = <<"source", "infra">>
      BY <1>1, <1>6 DEF Plan, TypeOK
    <2>2. call[p].kind = "diff" /\ todo[p] # <<>> /\ call[p] \in Call
      BY <1>1, <2>1 DEF ControlAt, TodoOK
    <2>3. TodoOK(<<"source", "infra">>, call[p])
      BY <2>2, CallFields DEF TodoOK, ItemNames
    <2>4. TodoOK(todo[p], call[p])
      BY <1>1 DEF ControlAt
    <2>5. TodoOK(todo[p], call[p])' /\ (todo[p] # <<>>)'
      <3>1. CASE todo'[p] = todo[p]
        BY <2>1, <2>2, <2>4, <3>1
      <3>2. CASE todo'[p] = <<"source", "infra">>
        BY <2>1, <2>3, <3>2
      <3> QED
        BY <2>1, <3>1, <3>2
    <2> QED
      BY <2>1, <2>2, <2>5 DEF ControlAt
  <1>7. CASE Stat(p)
    <2>1. pc[p] = "stat" /\ pc'[p] = then[p] /\ then'[p] = "idle"
      BY <1>1, <1>7 DEF Stat, TypeOK
    <2>2. CASE then[p] = "idle"
      <3>1. todo'[p] = <<>>
        BY <1>1, <1>7, <2>2 DEF Stat, TypeOK
      <3> QED
        BY <1>2, <2>1, <2>2, <3>1 DEF ControlAt
    <2>3. CASE then[p] # "idle"
      <3>1. todo' = todo /\ call' = call
        BY <1>7, <2>3 DEF Stat
      <3> QED
        BY <1>1, <2>1, <2>3, <3>1 DEF ControlAt
    <2> QED
      BY <2>2, <2>3
  <1>8. CASE Prepare(p)
    <2>1. /\ pc[p] = "prepare" /\ call' = call /\ todo' = todo
          /\ \/ pc'[p] = "modify" /\ then' = then
             \/ pc'[p] = "stat" /\ then'[p] = "prepared"
      BY <1>1, <1>8 DEF Prepare, TypeOK
    <2> QED
      BY <1>1, <2>1 DEF ControlAt
  <1>9. CASE Prepared(p)
    <2>1. /\ pc[p] = "prepared" /\ call' = call /\ todo' = todo
          /\ \/ pc'[p] = "modify" /\ then' = then
             \/ pc'[p] = "stat" /\ then'[p] = "prepared"
             \/ pc'[p] = "open" /\ then'[p] = "modify"
      BY <1>1, <1>9 DEF Prepared, TypeOK
    <2> QED
      BY <1>1, <2>1 DEF ControlAt
  <1>10. CASE Modify(p)
    <2> DEFINE item == Head(todo[p])
    <2>1. pc[p] = "modify" /\ then[p] = "idle" /\ todo[p] # <<>>
      BY <1>1, <1>10 DEF Modify, ControlAt
    <2>2. CASE Raises(call[p], item, cache[p], known[p])
      <3>1. pc'[p] = "idle" /\ todo'[p] = <<>> /\ then' = then
        BY <1>1, <1>10, <2>2 DEF Modify, Fail, TypeOK
      <3> QED
        BY <1>2, <2>1, <3>1 DEF ControlAt
    <2>3. CASE ~Raises(call[p], item, cache[p], known[p])
      <3>1. call' = call /\ then' = then
        BY <1>10, <2>3 DEF Modify
      <3>2. CASE Renews(call[p], item, cache[p])
        <4>1. pc'[p] = "number" /\ todo' = todo /\ item = "view" /\ call[p].view.pin = Latest
          BY <1>1, <1>10, <2>3, <3>2 DEF Modify, Renews, TypeOK
        <4> QED
          BY <1>1, <2>1, <3>1, <4>1 DEF ControlAt
      <3>3. CASE ~Renews(call[p], item, cache[p]) /\ item = "delete"
        <4>1. pc'[p] = "clean" /\ todo' = todo
          BY <1>1, <1>10, <2>3, <3>3 DEF Modify, TypeOK
        <4> QED
          BY <1>1, <2>1, <3>1, <3>3, <4>1 DEF ControlAt
      <3>4. CASE ~Renews(call[p], item, cache[p]) /\ item # "delete"
        <4>1. PICK new : Done(p, new)
          BY <1>10, <2>3, <3>4 DEF Modify
        <4> QED
          BY <2>1, <3>1, <4>1, DoneControl
      <3> QED
        BY <3>2, <3>3, <3>4
    <2> QED
      BY <2>2, <2>3
  <1>11. CASE Infra(p)
    <2>1. pc[p] = "infra" /\ then[p] = "idle"
      BY <1>1, <1>11 DEF Infra, ControlAt
    <2>2. CASE Fail(p)
      <3>1. pc'[p] = "idle" /\ todo'[p] = <<>> /\ then' = then
        BY <1>1, <2>2 DEF Fail, TypeOK
      <3> QED
        BY <1>2, <2>1, <3>1 DEF ControlAt
    <2>3. CASE ~Fail(p)
      <3>1. /\ call' = call /\ todo' = todo
            /\ \/ call[p].kind = "diff" /\ pc'[p] = "prepare" /\ then' = then
               \/ call[p].kind # "diff" /\ pc'[p] = "open" /\ then'[p] = "after"
        BY <1>1, <1>11, <2>3 DEF Infra, TypeOK
      <3> QED
        BY <1>1, <2>1, <3>1 DEF ControlAt
    <2> QED
      BY <2>2, <2>3
  <1>12. CASE Open(p)
    <2>1. pc'[p] = "write" /\ then' = then /\ todo' = todo /\ call' = call
      BY <1>1, <1>12 DEF Open, TypeOK
    <2> QED
      BY <1>1, <2>1 DEF ControlAt
  <1>13. CASE Write(p)
    <2>1. pc'[p] = "stat" /\ then' = then /\ todo' = todo /\ call' = call
      BY <1>1, <1>13 DEF Write, TypeOK
    <2> QED
      BY <1>1, <2>1 DEF ControlAt
  <1>14. CASE After(p)
    <2>1. pc[p] = "after" /\ then[p] = "idle"
      BY <1>1, <1>14 DEF After, ControlAt
    <2>2. \/ pc'[p] = "stat" /\ then'[p] = "idle" /\ todo' = todo /\ call' = call
          \/ pc'[p] = "idle" /\ then' = then /\ todo'[p] = <<>>
      BY <1>1, <1>14 DEF After, TypeOK
    <2> QED
      BY <1>1, <1>2, <2>1, <2>2 DEF ControlAt
  <1>15. CASE ThreadLoads(p) \/ ThreadStats(p)
    <2>1. pc' = pc /\ then' = then /\ todo' = todo /\ call' = call
      BY <1>15 DEF ThreadLoads, ThreadStats
    <2> QED
      BY <1>1, <2>1 DEF ControlAt
  <1>16. CASE Number(p) \/ SaveRecord(p)
    <2>1. /\ then' = then /\ todo' = todo /\ call' = call
          /\ pc[p] \in Renewing /\ pc'[p] \in Renewing
      BY <1>1, <1>16 DEF Number, SaveRecord, TypeOK
    <2> QED
      BY <1>1, <2>1 DEF ControlAt
  <1>17. CASE AddView(p) \/ Clean(p)
    <2>1. /\ call' = call /\ then' = then /\ pc[p] \in {"add", "clean"}
          /\ \E new : Done(p, new)
      BY <1>17 DEF AddView, Clean
    <2>2. todo[p] # <<>> /\ then[p] = "idle"
      BY <1>1, <2>1 DEF ControlAt
    <2> QED
      BY <2>1, <2>2, DoneControl
  <1> QED
    BY <1>3, <1>4, <1>5, <1>6, <1>7, <1>8, <1>9, <1>10, <1>11, <1>12, <1>13, <1>14, <1>15, <1>16,
       <1>17
    DEF StepOf, Step

\* The types of the variables, one by one.
Types ==
    /\ file \in Proto \cup {NoFile} /\ mode \in {"sync", "thread"}
    /\ cache \in [Processes -> Proto] /\ writing \in [Processes -> Proto]
    /\ behind \in [Processes -> BOOLEAN]
    /\ pc \in [Processes -> PcValues] /\ then \in [Processes -> PcValues]
    /\ call \in [Processes -> Call \cup {None}] /\ todo \in [Processes -> Seq(ItemNames)]
    /\ known \in [Processes -> Defs \cup {None}]
    /\ old \in [Processes -> Active \cup {None}] /\ num \in [Processes -> Nat]
    /\ attached \in [Processes -> BOOLEAN] /\ reading \in [Processes -> BOOLEAN]
    /\ truth \in Proto /\ left \in Nat
    /\ mishaps \subseteq {"overlap", "fault", "reload", "lookup"}

\* A step keeps them.
LEMMA TypesStep ==
    ASSUME Typed, NEW p \in Processes, StepOf(p)
    PROVE  Types'
  <1> USE DEF Became, Goto, Forget, Load, Reload, Released, local, Midway
  <1>1. Types /\ ControlAt(p)
    BY DEF Typed, TypeOK, Types, Active
  <1>a. <<>> \in Seq(ItemNames) /\ EmptyProto \in Proto
    BY EmptyIsGood
  <1>b. \A c \in Call : Items(c) \in Seq(ItemNames)
    BY ItemsOK DEF TodoOK
  <1>c. /\ StagedSoFar(p) \subseteq {"reload"} /\ Overlap(p) \subseteq {"overlap"}
        /\ Straddled(p) \subseteq {"overlap"}
    BY DEF StagedSoFar, Overlap, Straddled
  <1>d. file = NoFile => pc[p] \in {"down", "open"}
    BY DEF Typed, TypeOK
  <1>3. CASE Start(p)
    <2>1. cache' \in [Processes -> Proto] /\ behind' \in [Processes -> BOOLEAN]
      <3>1. CASE file # NoFile
        <4>1. cache' = [cache EXCEPT ![p] = file] /\ behind' = [behind EXCEPT ![p] = FALSE]
          BY <1>3, <3>1 DEF Start
        <4> QED
          BY <1>1, <3>1, <4>1 DEF Types
      <3>2. CASE file = NoFile
        <4>1. cache' = [cache EXCEPT ![p] = EmptyProto] /\ behind' = behind
          BY <1>3, <3>2 DEF Start
        <4> QED
          BY <1>1, <1>a, <4>1 DEF Types
      <3> QED
        BY <3>1, <3>2
    <2>2. pc' \in [Processes -> PcValues] /\ then' = then
      BY <1>1, <1>3 DEF Start, Types, PcValues
    <2>3. mishaps' \subseteq {"overlap", "fault", "reload", "lookup"}
      BY <1>1, <1>3, <1>c DEF Start, Types
    <2> QED
      BY <1>1, <1>3, <2>1, <2>2, <2>3 DEF Start, Types
  <1>4. CASE Crash(p)
    <2>1. left' \in Nat
      BY <1>1, <1>4 DEF Crash, Types
    <2> QED
      BY <1>1, <1>4, <1>a, <2>1 DEF Crash, Types, PcValues
  <1>5. CASE Begin(p)
    <2>1. left' \in Nat
      BY <1>1, <1>5 DEF Begin, Types
    <2>2. PICK c \in Call :
            /\ call' = [call EXCEPT ![p] = c] /\ todo' = [todo EXCEPT ![p] = Items(c)]
            /\ pc' = [pc EXCEPT ![p] = IF c.kind = "diff" THEN "plan" ELSE "prepare"]
      BY <1>5, CallsAssumption DEF Begin
    <2>3. Items(c) \in Seq(ItemNames)
      BY <1>b
    <2> QED
      BY <1>1, <1>5, <1>c, <2>1, <2>2, <2>3 DEF Begin, Types, PcValues
  <1>6. CASE Plan(p)
    <2>1. file \in Proto /\ <<"source", "infra">> \in Seq(ItemNames)
      <3>1. file # NoFile
        BY <1>6 DEF Plan
      <3>2. <<"source", "infra">> \in Seq(ItemNames)
        BY DEF ItemNames
      <3> QED
        BY <1>1, <3>1, <3>2 DEF Types
    <2>2. todo' \in [Processes -> Seq(ItemNames)]
      BY <1>1, <1>6, <2>1 DEF Plan, Types
    <2> QED
      BY <1>1, <1>6, <2>1, <2>2 DEF Plan, Types, PcValues
  <1>7. CASE Stat(p)
    <2>1. /\ behind' \in [Processes -> BOOLEAN] /\ pc' \in [Processes -> PcValues]
          /\ then' \in [Processes -> PcValues]
      BY <1>1, <1>7 DEF Stat, Types, PcValues
    <2>2. /\ call' \in [Processes -> Call \cup {None}] /\ todo' \in [Processes -> Seq(ItemNames)]
          /\ known' \in [Processes -> Defs \cup {None}]
      BY <1>1, <1>7, <1>a DEF Stat, Types
    <2> QED
      BY <1>1, <1>7, <2>1, <2>2 DEF Stat, Types
  <1>8. CASE Prepare(p)
    <2>1. known' \in [Processes -> Defs \cup {None}]
      <3>1. cache[p].records \in Seq(Record)
        BY <1>1, ProtoFields DEF Types
      <3>2. VersionRecord(cache[p].records, call[p].view.pin) \in Defs \cup {None}
        BY <3>1, RecordFound
      <3> QED
        BY <1>1, <1>8, <3>2 DEF Prepare, Types
    <2>2. cache' \in [Processes -> Proto]
      BY <1>1, <1>8 DEF Prepare, Types
    <2>3. mishaps' \subseteq {"overlap", "fault", "reload", "lookup"}
      BY <1>1, <1>8, <1>c DEF Prepare, Types
    <2>4. pc' \in [Processes -> PcValues] /\ then' \in [Processes -> PcValues]
      BY <1>1, <1>8 DEF Prepare, Types, PcValues
    <2> QED
      BY <1>1, <1>8, <2>1, <2>2, <2>3, <2>4 DEF Prepare, Types
  <1>9. CASE Prepared(p)
    <2>1. file \in Proto
      BY <1>1, <1>9, <1>d DEF Prepared, Types
    <2>2. [file EXCEPT !.project = TRUE] \in Proto
      BY <2>1 DEF Proto
    <2>3. cache' \in [Processes -> Proto]
      <3>1. \/ cache' = cache \/ cache' = [cache EXCEPT ![p] = file]
            \/ cache' = [cache EXCEPT ![p] = [file EXCEPT !.project = TRUE]]
        BY <1>9 DEF Prepared
      <3> QED
        BY <1>1, <2>1, <2>2, <3>1 DEF Types
    <2>4. pc' \in [Processes -> PcValues] /\ then' \in [Processes -> PcValues]
      BY <1>1, <1>9 DEF Prepared, Types, PcValues
    <2> QED
      BY <1>1, <1>9, <2>3, <2>4 DEF Prepared, Types
  <1>10. CASE Modify(p)
    <2> DEFINE item == Head(todo[p])
               new == Changed(call[p], item, cache[p], known[p])
    <2>1. pc[p] = "modify" /\ todo[p] # <<>> /\ then[p] = "idle"
      BY <1>1, <1>10 DEF Modify, ControlAt
    <2>2. new \in Proto /\ Without(cache[p]) \in Proto /\ cache[p].active \in Active \cup {None}
      BY <1>1, <2>1, ChangedType, DeleteLooks, ProtoFields DEF Types, ControlAt
    <2>3. Tail(todo[p]) \in Seq(ItemNames)
      BY <1>1, <2>1 DEF Types
    <2>4. CASE Raises(call[p], item, cache[p], known[p])
      <3>1. Fail(p) /\ UNCHANGED <<file, mode, behind, old, num, attached, reading, writing, truth, left>>
        BY <1>10, <2>4 DEF Modify
      <3>2. /\ pc' = [pc EXCEPT ![p] = "idle"] /\ call' = [call EXCEPT ![p] = None]
            /\ todo' = [todo EXCEPT ![p] = <<>>] /\ known' = [known EXCEPT ![p] = None]
            /\ mishaps' \subseteq mishaps \cup {"fault"} /\ UNCHANGED <<cache, then>>
        BY <3>1 DEF Fail
      <3> QED
        BY <1>1, <1>a, <3>1, <3>2 DEF Types, PcValues
    <2>5. CASE ~Raises(call[p], item, cache[p], known[p])
      <3>1. /\ mishaps' \subseteq mishaps \cup {"lookup"}
            /\ UNCHANGED <<call, known, then, file, mode, behind, reading, writing, truth, left>>
        BY <1>10, <2>5 DEF Modify
      <3>2. CASE Renews(call[p], item, cache[p])
        <4>1. /\ old' = [old EXCEPT ![p] = cache[p].active] /\ attached' = [attached EXCEPT ![p] = TRUE]
              /\ cache' = [cache EXCEPT ![p] = Without(cache[p])]
              /\ pc' = [pc EXCEPT ![p] = "number"] /\ UNCHANGED <<num, todo>>
          BY <1>10, <2>5, <3>2 DEF Modify
        <4> QED
          BY <1>1, <2>2, <3>1, <4>1 DEF Types, PcValues
      <3>3. CASE ~Renews(call[p], item, cache[p]) /\ item = "delete"
        <4>1. /\ cache' = [cache EXCEPT ![p] = Without(cache[p])]
              /\ pc' = [pc EXCEPT ![p] = "clean"] /\ UNCHANGED <<old, num, attached, todo>>
          BY <1>10, <2>5, <3>3 DEF Modify
        <4> QED
          BY <1>1, <2>2, <3>1, <4>1 DEF Types, PcValues
      <3>4. CASE ~Renews(call[p], item, cache[p]) /\ item # "delete"
        <4>1. Done(p, new) /\ UNCHANGED <<old, num, attached>>
          BY <1>10, <2>5, <3>4 DEF Modify
        <4>2. /\ pc' \in [Processes -> PcValues]
              /\ cache' = [cache EXCEPT ![p] = new] /\ todo' = [todo EXCEPT ![p] = Tail(todo[p])]
          BY <2>1, <3>1, <4>1, DoneControl
        <4> HIDE DEF new
        <4> QED
          BY <1>1, <2>2, <2>3, <3>1, <4>1, <4>2 DEF Types
      <3> QED
        BY <3>2, <3>3, <3>4
    <2> QED
      BY <2>4, <2>5
  <1>11. CASE Infra(p)
    <2>1. CASE Fail(p)
      BY <1>1, <1>11, <1>a, <1>c, <2>1 DEF Infra, Fail, Types, PcValues
    <2>2. CASE ~Fail(p)
      BY <1>1, <1>11, <2>2 DEF Infra, Types, PcValues
    <2> QED
      BY <2>1, <2>2
  <1>12. CASE Open(p)
    <2>1. /\ file' = EmptyProto /\ writing' = [writing EXCEPT ![p] = cache[p]]
          /\ behind' = [q \in Processes |-> TRUE] /\ pc' = [pc EXCEPT ![p] = "write"]
          /\ mishaps' = mishaps \cup Straddled(p)
          /\ UNCHANGED <<mode, cache, call, todo, known, old, num, attached, reading, then, truth, left>>
      BY <1>12 DEF Open, Touch
    <2> QED
      BY <1>1, <1>a, <1>c, <2>1 DEF Types, PcValues
  <1>13. CASE Write(p)
    <2>1. truth' \in Proto
      <3>1. [truth EXCEPT !.project = TRUE] \in Proto
        BY <1>1 DEF Types, Proto
      <3>2. call[p] # None => Effect(call[p], truth) \in Proto
        BY <1>1, EffectType DEF Types
      <3> QED
        BY <1>1, <1>13, <3>1, <3>2 DEF Write, Types
    <2> QED
      <3>1. /\ file' = writing[p] /\ writing' = [writing EXCEPT ![p] = EmptyProto]
            /\ behind' = [q \in Processes |-> TRUE] \/ behind' = behind
            /\ pc' = [pc EXCEPT ![p] = "stat"] /\ mishaps' = mishaps \cup Straddled(p)
            /\ UNCHANGED <<mode, cache, call, todo, known, old, num, attached, reading, then, left>>
        BY <1>13 DEF Write, Touch
      <3> QED
        BY <1>1, <1>a, <1>c, <2>1, <3>1 DEF Types, PcValues
  <1>14. CASE After(p)
    <2>1. CASE mode = "sync"
      <3>1. file \in Proto
        BY <1>1, <1>14, <2>1 DEF After, Types
      <3>2. /\ cache' = [cache EXCEPT ![p] = file] /\ pc' = [pc EXCEPT ![p] = "stat"]
            /\ then' = [then EXCEPT ![p] = "idle"]
            /\ UNCHANGED <<file, mode, behind, call, todo, known, old, num, attached, reading,
                           writing, truth, mishaps, left>>
        BY <1>14, <2>1 DEF After
      <3> QED
        BY <1>1, <3>1, <3>2 DEF Types, PcValues
    <2>2. CASE mode # "sync"
      <3>1. /\ call' \in [Processes -> Call \cup {None}] /\ todo' \in [Processes -> Seq(ItemNames)]
            /\ known' \in [Processes -> Defs \cup {None}] /\ pc' \in [Processes -> PcValues]
        <4>1. /\ pc' = [pc EXCEPT ![p] = "idle"] /\ call' = [call EXCEPT ![p] = None]
              /\ todo' = [todo EXCEPT ![p] = <<>>] /\ known' = [known EXCEPT ![p] = None]
          BY <1>14, <2>2 DEF After
        <4> QED
          BY <1>1, <1>a, <4>1 DEF Types, PcValues
      <3> QED
        BY <1>1, <1>14, <2>2, <3>1 DEF After, Types
    <2> QED
      BY <2>1, <2>2
  <1>15. CASE ThreadLoads(p) \/ ThreadStats(p)
    <2>1. CASE ThreadLoads(p)
      <3>1. file \in Proto /\ mishaps' \subseteq {"overlap", "fault", "reload", "lookup"}
        BY <1>1, <1>c, <2>1 DEF ThreadLoads, Types
      <3> QED
        BY <1>1, <2>1, <3>1 DEF ThreadLoads, Types
    <2>2. CASE ThreadStats(p)
      BY <1>1, <2>2 DEF ThreadStats, Types
    <2> QED
      BY <1>15, <2>1, <2>2
  <1>16. CASE Number(p)
    <2>1. NextVersion(cache[p].records) \in Nat
      BY <1>1, ProtoFields, NextIsNew DEF Types
    <2> QED
      BY <1>1, <1>16, <2>1 DEF Number, Types, PcValues
  <1>e. pc[p] \in {"save", "add"} => call[p].view \in ViewRequest
    <2> SUFFICES ASSUME pc[p] \in {"save", "add"} PROVE call[p].view \in ViewRequest
      OBVIOUS
    <2>1. todo[p] # <<>> /\ Head(todo[p]) = "view" /\ TodoOK(todo[p], call[p])
      BY <1>1 DEF ControlAt, Renewing
    <2>2. todo[p] \in Seq(ItemNames) /\ 1 \in DOMAIN todo[p] /\ todo[p][1] = "view"
      BY <2>1 DEF TodoOK
    <2> QED
      BY <2>1, <2>2 DEF TodoOK
  <1>17. CASE SaveRecord(p)
    <2> DEFINE first == old[p] # None /\ num[p] = 0
               def == IF first THEN old[p].def ELSE call[p].view.def
               rs == Save(cache[p].records, num[p], def)
    <2>1. /\ pc[p] = "save" /\ cache' = [cache EXCEPT ![p] = [cache[p] EXCEPT !.records = rs]]
          /\ num' = num \/ num' = [num EXCEPT ![p] = 1]
          /\ pc' = pc \/ pc' = [pc EXCEPT ![p] = "add"]
          /\ UNCHANGED <<file, mode, behind, call, todo, known, old, attached, reading,
                         writing, then, truth, mishaps, left>>
      BY <1>17 DEF SaveRecord
    <2>2. def \in Defs
      <3>1. old[p] # None => old[p].def \in Defs
        BY <1>1 DEF Types, Active
      <3>2. call[p].view.def \in Defs
        BY <1>e, <2>1 DEF ViewRequest
      <3> QED
        BY <3>1, <3>2
    <2>3. rs \in Seq(Record)
      <3> HIDE DEF def
      <3>1. cache[p].records \in Seq(Record) /\ num[p] \in Nat
        BY <1>1, ProtoFields DEF Types
      <3>2. [ver |-> num[p], def |-> def] \in Record
        BY <2>2, <3>1 DEF Record
      <3> QED
        BY <3>1, <3>2 DEF Save
    <2> HIDE DEF rs
    <2>4. [cache[p] EXCEPT !.records = rs] \in Proto
      BY <1>1, <2>3 DEF Types, Proto
    <2>5. num' \in [Processes -> Nat]
      <3>1. num' = num \/ num' = [num EXCEPT ![p] = 1]
        BY <2>1
      <3>2. num \in [Processes -> Nat]
        BY <1>1 DEF Types
      <3> QED
        BY <3>1, <3>2
    <2>6. pc' \in [Processes -> PcValues]
      <3>1. pc' = pc \/ pc' = [pc EXCEPT ![p] = "add"]
        BY <2>1
      <3>2. pc \in [Processes -> PcValues] /\ "add" \in PcValues
        BY <1>1 DEF Types, PcValues
      <3> QED
        BY <3>1, <3>2
    <2> QED
      BY <1>1, <2>1, <2>4, <2>5, <2>6 DEF Types
  <1>18. CASE AddView(p) \/ Clean(p)
    <2> DEFINE view == IF old[p] = None \/ call[p].view.promote
                         THEN [def |-> call[p].view.def, pin |-> Latest] ELSE old[p]
               put == [cache[p] EXCEPT !.active = view]
               new == IF attached[p] THEN put ELSE cache[p]
    <2>1. /\ pc[p] \in {"add", "clean"} /\ todo[p] # <<>> /\ then[p] = "idle"
          /\ UNCHANGED <<file, mode, behind, call, known, reading, writing, then, truth, mishaps, left>>
      BY <1>1, <1>18 DEF AddView, Clean, ControlAt
    <2>2. Tail(todo[p]) \in Seq(ItemNames) /\ cache[p] \in Proto
      BY <1>1, <2>1 DEF Types
    <2>3. CASE AddView(p)
      <3>1. Done(p, new) /\ pc[p] = "add"
        BY <2>3 DEF AddView
      <3>2. view \in Active \cup {None}
        <4>1. call[p].view.def \in Defs
          BY <1>e, <3>1 DEF ViewRequest
        <4>2. [def |-> call[p].view.def, pin |-> Latest] \in Active
          BY <4>1 DEF Active
        <4> QED
          BY <1>1, <4>2 DEF Types
      <3> HIDE DEF view
      <3>3. put \in Proto
        BY <2>2, <3>2 DEF Proto, Active
      <3>4. new \in Proto
        BY <2>2, <3>3
      <3> HIDE DEF new
      <3>5. /\ pc' \in [Processes -> PcValues]
            /\ cache' = [cache EXCEPT ![p] = new] /\ todo' = [todo EXCEPT ![p] = Tail(todo[p])]
        BY <2>1, <3>1, DoneControl
      <3>6. /\ old' = [old EXCEPT ![p] = None] /\ num' = [num EXCEPT ![p] = 0]
            /\ attached' = [attached EXCEPT ![p] = FALSE]
        BY <2>3 DEF AddView
      <3> QED
        BY <1>1, <2>1, <2>2, <3>4, <3>5, <3>6 DEF Types
    <2>4. CASE Clean(p)
      <3>1. Done(p, Cleaned(cache[p])) /\ UNCHANGED <<old, num, attached>>
        BY <2>4 DEF Clean
      <3>2. Cleaned(cache[p]) \in Proto
        BY <2>2, DeleteLooks
      <3>3. /\ pc' \in [Processes -> PcValues]
            /\ cache' = [cache EXCEPT ![p] = Cleaned(cache[p])]
            /\ todo' = [todo EXCEPT ![p] = Tail(todo[p])]
        BY <2>1, <3>1, DoneControl
      <3> QED
        BY <1>1, <2>1, <2>2, <3>1, <3>2, <3>3 DEF Types
    <2> QED
      BY <1>18, <2>3, <2>4
  <1> QED
    BY <1>3, <1>4, <1>5, <1>6, <1>7, <1>8, <1>9, <1>10, <1>11, <1>12, <1>13, <1>14, <1>15, <1>16,
       <1>17, <1>18
    DEF StepOf, Step

\* A step keeps the types and what the program counters say.
LEMMA TypedStep == ASSUME Typed, [Next]_vars PROVE Typed'
  <1>1. CASE UNCHANGED vars
    BY <1>1 DEF vars, memory, local, Typed, TypeOK, ControlAt
  <1>2. ASSUME NEW p \in Processes, StepOf(p) PROVE Typed'
    <2>0. TypeOK
      BY DEF Typed
    <2>1. Types'
      BY <1>2, TypesStep
    <2>2. ASSUME NEW q \in Processes PROVE ControlAt(q)'
      <3>1. CASE q = p
        BY <1>2, <3>1, ControlStep
      <3>2. CASE q # p
        <4>1. pc'[q] = pc[q] /\ then'[q] = then[q] /\ call'[q] = call[q] /\ todo'[q] = todo[q]
          BY <1>2, <2>0, <3>2, Frame
        <4>2. ControlAt(q)
          BY DEF Typed
        <4> QED
          BY <4>1, <4>2 DEF ControlAt
      <3> QED
        BY <3>1, <3>2
    <2>3. (file = NoFile => \A q \in Processes : pc[q] \in {"down", "open"})'
      <3> SUFFICES ASSUME file' = NoFile, NEW q \in Processes PROVE pc'[q] \in {"down", "open"}
        OBVIOUS
      <3>1. file = NoFile /\ \A r \in Processes : pc[r] \in {"down", "open"}
        <4>1. file = NoFile
          <5>1. CASE Open(p)
            BY <5>1, EmptyIsGood, NoneAssumption DEF Open
          <5>2. CASE Write(p)
            BY <2>0, <5>2, NoneAssumption DEF Write, TypeOK
          <5>3. CASE ~Open(p) /\ ~Write(p)
            BY <1>2, <2>0, <5>3, Steps, QuietFile
          <5> QED
            BY <5>1, <5>2, <5>3
        <4> QED
          BY <2>0, <4>1 DEF TypeOK
      <3>2. CASE q # p
        BY <1>2, <2>0, <3>1, <3>2, Frame
      <3>3. CASE q = p
        <4>1. Start(p) \/ Crash(p) \/ Open(p) \/ ThreadStats(p)
          BY <1>2, <3>1 DEF StepOf, Step, Begin, ThreadLoads, Plan, Stat, Prepare, Prepared,
             Modify, Number, SaveRecord, AddView, Clean, Infra, Write, After
        <4>2. ~Open(p)
          BY EmptyIsGood, NoneAssumption DEF Open
        <4> QED
          BY <2>0, <3>1, <3>3, <4>1, <4>2 DEF Start, Crash, ThreadStats, Goto, TypeOK
      <3> QED
        BY <3>2, <3>3
    <2>4. TypeOK'
      BY <2>1, <2>2, <2>3 DEF TypeOK, Types, ControlAt, Active
    <2> QED
      BY <2>2, <2>4 DEF Typed
  <1> QED
    BY <1>1, <1>2 DEF Next, StepOf

--------------------------------------------------------------------------------
(* Changes that take several steps *)

\* The number after the first one.
LEMMA SecondNumber ==
    ASSUME NEW d
    PROVE  NextVersion(Save(<<>>, 0, d)) = 1
  <1> DEFINE rs == Save(<<>>, 0, d)
             S == {rs[i].ver : i \in DOMAIN rs}
  <1>1. DOMAIN rs = {1} /\ rs[1] = [ver |-> 0, def |-> d] /\ rs # <<>>
    BY DEF Save
  <1>2. S = {0}
    BY <1>1
  <1>3. Max({0}) = 0
    <2>1. 0 \in {0} /\ \A y \in {0} : 0 >= y
      OBVIOUS
    <2>2. Max({0}) \in {0}
      BY <2>1 DEF Max
    <2> QED
      BY <2>2
  <1>4. NextVersion(rs) = Max(S) + 1
    BY <1>1 DEF NextVersion
  <1> HIDE DEF S, rs
  <1>5. Max(S) = 0
    BY <1>2, <1>3
  <1>6. NextVersion(rs) = 1
    BY <1>4, <1>5
  <1> QED
    BY <1>6 DEF rs

\* What the latest path makes of a view that it replaces or creates.
LEMMA RenewedLooks ==
    ASSUME NEW o \in Proto, NEW view \in ViewRequest,
           o.active = None \/ o.active.def # view.def
    PROVE  LET rs == o.records
               new == [def |-> view.def, pin |-> Latest]
               final == AppliedLatest(o, view)
           IN /\ final \in Proto /\ final.project = o.project /\ final.source = o.source
              /\ final.active = IF o.active = None \/ view.promote THEN new ELSE o.active
              /\ final.records =
                   IF o.active = None THEN Save(rs, 0, view.def)
                   ELSE IF NextVersion(rs) = 0
                   THEN Save(Save(rs, 0, o.active.def), 1, view.def)
                   ELSE Save(rs, NextVersion(rs), view.def)
  <1> DEFINE rs == o.records
             new == [def |-> view.def, pin |-> Latest]
             final == AppliedLatest(o, view)
             r0 == Save(rs, 0, view.def)
             base == IF NextVersion(rs) = 0 THEN Save(rs, 0, o.active.def) ELSE rs
             r1 == Save(base, NextVersion(base), view.def)
             act == IF view.promote THEN new ELSE o.active
  <1>0. final \in Proto /\ rs \in Seq(Record)
    BY LatestIsGood, ProtoFields
  <1>1. CASE o.active = None
    <2>1. final = [o EXCEPT !.active = new, !.records = r0]
      BY <1>1 DEF AppliedLatest
    <2> HIDE DEF new, r0, final
    <2>2. /\ final.project = o.project /\ final.source = o.source
          /\ final.active = new /\ final.records = r0
      BY <2>1 DEF Proto
    <2> QED
      BY <1>0, <1>1, <2>2 DEF new, r0, final
  <1>2. CASE o.active # None
    <2>1. final = [o EXCEPT !.active = act, !.records = r1]
      BY <1>2 DEF AppliedLatest
    <2>2. r1 = IF NextVersion(rs) = 0 THEN Save(Save(rs, 0, o.active.def), 1, view.def)
               ELSE Save(rs, NextVersion(rs), view.def)
      <3>1. CASE NextVersion(rs) = 0
        <4>1. rs = <<>>
          BY <1>0, <3>1, NextIsNew
        <4>2. NextVersion(base) = 1
          BY <3>1, <4>1, SecondNumber
        <4> QED
          BY <3>1, <4>2
      <3>2. CASE NextVersion(rs) # 0
        BY <3>2
      <3> QED
        BY <3>1, <3>2
    <2> HIDE DEF act, r1, final
    <2>3. /\ final.project = o.project /\ final.source = o.source
          /\ final.active = act /\ final.records = r1
      BY <2>1 DEF Proto
    <2> QED
      BY <1>0, <1>2, <2>2, <2>3 DEF act, final
  <1> QED
    BY <1>1, <1>2

\* A message is its fields.
LEMMA ProtoEqual ==
    ASSUME NEW a \in Proto, NEW b \in Proto, a.project = b.project, a.source = b.source,
           a.active = b.active, a.records = b.records
    PROVE  a = b
  BY DEF Proto

\* One change of call c to a message, all its steps together.
Whole(c, item, proto, record) ==
    IF item = "delete" THEN DeletedView(proto) ELSE Changed(c, item, proto, record)

\* A process that is replacing a view has one to put in its place.
LEMMA RenewedView ==
    ASSUME Typed, NEW p \in Processes, pc[p] \in Renewing
    PROVE  call[p].view \in ViewRequest /\ Head(todo[p]) = "view" /\ call[p].view.pin = Latest
  <1>1. todo[p] # <<>> /\ Head(todo[p]) = "view" /\ TodoOK(todo[p], call[p]) /\ call[p].view.pin = Latest
    BY DEF Typed, ControlAt, Renewing, Midway
  <1>2. todo[p] \in Seq(ItemNames) /\ 1 \in DOMAIN todo[p] /\ todo[p][1] = "view"
    BY <1>1 DEF TodoOK
  <1> QED
    BY <1>1, <1>2 DEF TodoOK

\* A change begins on message o ...
LEMMA MidBegins ==
    ASSUME Typed, NEW p \in Processes, NEW o, o = cache[p], Modify(p), pc'[p] \in Midway
    PROVE  /\ Midpoint(p, o)' /\ o \in Proto
           /\ UNCHANGED <<call, known, todo, then, file, truth, behind, reading, writing>>
           /\ mishaps' = IF Blind(p) THEN mishaps \cup {"lookup"} ELSE mishaps
  <1> USE DEF Became, Goto
  <1> DEFINE item == Head(todo[p])
  <1>1. TypeOK /\ pc[p] = "modify" /\ todo[p] # <<>> /\ then[p] = "idle" /\ cache[p] \in Proto
    BY DEF Typed, TypeOK, ControlAt, Modify
  <1>2. ~Raises(call[p], item, cache[p], known[p])
    BY <1>1 DEF Modify, Fail, TypeOK, Midway
  <1>3. /\ UNCHANGED <<call, known, then, file, truth, behind, reading, writing>>
        /\ mishaps' = IF Blind(p) THEN mishaps \cup {"lookup"} ELSE mishaps
    BY <1>2 DEF Modify
  <1>4. /\ Without(cache[p]).active = None /\ Without(cache[p]).records = cache[p].records
        /\ Without(cache[p]).project = cache[p].project /\ Without(cache[p]).source = cache[p].source
    BY <1>1, DeleteLooks
  <1>5. CASE Renews(call[p], item, cache[p])
    <2>1. /\ old'[p] = cache[p].active /\ attached'[p] = TRUE /\ todo' = todo
          /\ cache'[p] = Without(cache[p]) /\ pc'[p] = "number"
      BY <1>1, <1>2, <1>5 DEF Modify, TypeOK
    <2>2. cache[p].active = None \/ cache[p].active.def # call[p].view.def
      BY <1>5 DEF Renews
    <2>3. Mid("number", call[p], Without(cache[p]), cache[p].active, num'[p], TRUE, o)
      BY <1>4, <2>2 DEF Mid, Renewing
    <2> QED
      BY <1>1, <1>3, <2>1, <2>3 DEF Midpoint
  <1>6. CASE ~Renews(call[p], item, cache[p]) /\ item = "delete"
    <2>1. cache'[p] = Without(cache[p]) /\ pc'[p] = "clean" /\ todo' = todo
      BY <1>1, <1>2, <1>6 DEF Modify, TypeOK
    <2>2. Mid("clean", call[p], Without(cache[p]), old'[p], num'[p], attached'[p], o)
      BY <1>4 DEF Mid, Renewing
    <2> QED
      BY <1>1, <1>3, <2>1, <2>2 DEF Midpoint
  <1>7. CASE ~Renews(call[p], item, cache[p]) /\ item # "delete"
    <2>1. PICK new : Done(p, new)
      BY <1>2, <1>7 DEF Modify
    <2> QED
      BY <1>1, <1>3, <2>1, DoneControl
  <1> QED
    BY <1>5, <1>6, <1>7

\* ... goes on ...
LEMMA MidStep ==
    ASSUME Typed, NEW p \in Processes, NEW o \in Proto, Midpoint(p, o), Number(p) \/ SaveRecord(p)
    PROVE  /\ Midpoint(p, o)' /\ pc[p] \in Midway /\ pc'[p] \in Midway
           /\ UNCHANGED <<call, known, todo, then, file, truth, behind, reading, writing>>
  <1> USE DEF Became, Goto
  <1>1. /\ TypeOK /\ cache[p] \in Proto /\ o.records \in Seq(Record)
        /\ cache[p].project = o.project /\ cache[p].source = o.source /\ cache[p].active = None
    BY ProtoFields DEF Typed, TypeOK, Midpoint, Mid
  <1>2. pc[p] \in Renewing
    BY DEF Number, SaveRecord, Renewing
  <1>3. /\ call[p].view \in ViewRequest /\ attached[p] = TRUE /\ old[p] = o.active
        /\ o.active = None \/ o.active.def # call[p].view.def
    BY <1>2, RenewedView DEF Midpoint, Mid
  <1>4. /\ UNCHANGED <<call, known, todo, then, file, truth, behind, reading, writing, old, attached>>
        /\ pc[p] \in Midway /\ pc'[p] \in Midway
    BY <1>1 DEF Number, SaveRecord, Midway, TypeOK
  <1>5. CASE Number(p)
    <2>1. /\ pc[p] = "number" /\ pc'[p] = "save" /\ cache' = cache
          /\ num'[p] = IF o.active = None THEN 0 ELSE NextVersion(cache[p].records)
      BY <1>1, <1>3, <1>5 DEF Number, TypeOK
    <2>2. cache[p].records = o.records
      BY <2>1 DEF Midpoint, Mid
    <2>3. Mid("save", call[p], cache[p], o.active, num'[p], TRUE, o)
      BY <1>1, <1>3, <2>1, <2>2 DEF Mid
    <2> QED
      BY <1>3, <1>4, <2>1, <2>3 DEF Midpoint
  <1>6. CASE SaveRecord(p)
    <2> DEFINE first == o.active # None /\ num[p] = 0
               def == IF first THEN o.active.def ELSE call[p].view.def
               rs == Save(cache[p].records, num[p], def)
    <2>1. /\ pc[p] = "save" /\ cache'[p] = [cache[p] EXCEPT !.records = rs]
          /\ first => num'[p] = 1 /\ pc'[p] = "save"
          /\ ~first => num'[p] = num[p] /\ pc'[p] = "add"
      BY <1>1, <1>3, <1>6 DEF SaveRecord, TypeOK
    <2>2. \/ /\ cache[p].records = o.records
             /\ num[p] = (IF o.active = None THEN 0 ELSE NextVersion(o.records))
          \/ /\ o.active # None /\ num[p] = 1 /\ NextVersion(o.records) = 0
             /\ cache[p].records = Save(o.records, 0, o.active.def)
      BY <2>1 DEF Midpoint, Mid
    <2>3. CASE first
      <3>1. rs = Save(o.records, 0, o.active.def) /\ NextVersion(o.records) = 0
        BY <2>2, <2>3
      <3> HIDE DEF rs
      <3>2. /\ cache'[p].records = rs /\ cache'[p].active = None
            /\ cache'[p].project = o.project /\ cache'[p].source = o.source
        BY <1>1, <2>1 DEF Proto
      <3>3. Mid("save", call[p], cache'[p], o.active, 1, TRUE, o)
        BY <1>3, <2>3, <3>1, <3>2 DEF Mid
      <3> QED
        BY <1>3, <1>4, <2>1, <2>3, <3>3 DEF Midpoint
    <2>4. CASE ~first
      <3>1. rs = AppliedLatest(o, call[p].view).records
        <4>1. AppliedLatest(o, call[p].view).records =
                IF o.active = None THEN Save(o.records, 0, call[p].view.def)
                ELSE IF NextVersion(o.records) = 0
                THEN Save(Save(o.records, 0, o.active.def), 1, call[p].view.def)
                ELSE Save(o.records, NextVersion(o.records), call[p].view.def)
          BY <1>3, RenewedLooks
        <4>2. CASE o.active = None
          BY <2>2, <2>4, <4>1, <4>2
        <4>3. CASE o.active # None
          BY <2>2, <2>4, <4>1, <4>3
        <4> QED
          BY <4>2, <4>3
      <3> HIDE DEF rs
      <3>2. /\ cache'[p].records = rs /\ cache'[p].active = None
            /\ cache'[p].project = o.project /\ cache'[p].source = o.source
        BY <1>1, <2>1 DEF Proto
      <3>3. Mid("add", call[p], cache'[p], o.active, num'[p], TRUE, o)
        BY <1>3, <3>1, <3>2 DEF Mid
      <3> QED
        BY <1>3, <1>4, <2>1, <2>4, <3>3 DEF Midpoint
    <2> QED
      BY <2>3, <2>4
  <1> QED
    BY <1>5, <1>6

\* ... and ends as if it had been made at once.
LEMMA MidEnds ==
    ASSUME Typed, NEW p \in Processes, NEW o \in Proto, Midpoint(p, o), AddView(p) \/ Clean(p)
    PROVE  /\ Done(p, Whole(call[p], Head(todo[p]), o, known[p]))
           /\ pc[p] \in Midway /\ todo[p] # <<>> /\ then[p] = "idle"
           /\ Head(todo[p]) = "delete" \/ (Head(todo[p]) = "view" /\ call[p].view.pin = Latest)
           /\ UNCHANGED <<call, known, then, file, truth, behind, reading, writing, mishaps>>
  <1>1. /\ cache[p] \in Proto
        /\ cache[p].project = o.project /\ cache[p].source = o.source /\ cache[p].active = None
    BY DEF Typed, TypeOK, Midpoint, Mid
  <1>2. /\ UNCHANGED <<call, known, then, file, truth, behind, reading, writing, mishaps>>
        /\ pc[p] \in {"add", "clean"} /\ pc[p] \in Midway
    BY DEF AddView, Clean, Midway
  <1>3. /\ todo[p] # <<>> /\ then[p] = "idle"
        /\ pc[p] = "clean" => Head(todo[p]) = "delete"
    BY <1>2 DEF Typed, ControlAt
  <1>4. CASE AddView(p)
    <2> DEFINE view == IF old[p] = None \/ call[p].view.promote
                         THEN [def |-> call[p].view.def, pin |-> Latest] ELSE old[p]
               put == [cache[p] EXCEPT !.active = view]
               final == AppliedLatest(o, call[p].view)
    <2>1. pc[p] = "add" /\ pc[p] \in Renewing
      BY <1>4 DEF AddView, Renewing
    <2>2. /\ call[p].view \in ViewRequest /\ Head(todo[p]) = "view" /\ call[p].view.pin = Latest
          /\ attached[p] = TRUE /\ old[p] = o.active
          /\ o.active = None \/ o.active.def # call[p].view.def
          /\ cache[p].records = final.records
      BY <2>1, RenewedView DEF Midpoint, Mid
    <2>3. Done(p, put)
      BY <1>4, <2>2 DEF AddView, Done, Finish, Became, Goto
    <2>4. /\ final \in Proto /\ final.project = o.project /\ final.source = o.source
          /\ final.active = view
      BY <2>2, RenewedLooks
    <2>5. put = final
      <3>1. view \in Active \cup {None}
        BY <2>4, ProtoFields
      <3> HIDE DEF view, final
      <3>2. /\ put \in Proto /\ put.active = view /\ put.records = cache[p].records
            /\ put.project = cache[p].project /\ put.source = cache[p].source
        BY <1>1, <3>1 DEF Proto, Active
      <3> HIDE DEF put
      <3> QED
        BY <1>1, <2>2, <2>4, <3>2, ProtoEqual
    <2>6. Whole(call[p], Head(todo[p]), o, known[p]) = final
      BY <2>2 DEF Whole, Changed, AppliedView
    <2>7. put = Whole(call[p], Head(todo[p]), o, known[p])
      BY <2>5, <2>6
    <2> HIDE DEF put
    <2>8. Done(p, Whole(call[p], Head(todo[p]), o, known[p]))
      BY <2>3, <2>7 DEF Done, Finish, Became, Goto
    <2> QED
      BY <1>2, <1>3, <2>2, <2>8
  <1>5. CASE Clean(p)
    <2>1. pc[p] = "clean" /\ Done(p, Cleaned(cache[p]))
      BY <1>5 DEF Clean
    <2>2. cache[p].records = o.records
      BY <2>1 DEF Midpoint, Mid
    <2>3. cache[p] = Without(o)
      BY <1>1, <2>2, DeleteLooks, ProtoEqual
    <2>4. Whole(call[p], Head(todo[p]), o, known[p]) = Cleaned(cache[p])
      BY <1>3, <2>1, <2>3 DEF Whole, DeletedView
    <2> QED
      BY <1>2, <1>3, <2>1, <2>4 DEF Done, Finish, Became, Goto
  <1> QED
    BY <1>4, <1>5

\* On the way the history has one record of a version, and no view is active.
LEMMA MidIsConsistent ==
    ASSUME Typed, NEW p \in Processes, NEW o \in Proto, Good(o), Midpoint(p, o), pc[p] \in Midway
    PROVE  Consistent(cache[p])
  <1>1. /\ o.records \in Seq(Record) /\ Unique(o.records) /\ cache[p].active = None
        /\ o.active # None => o.active.def \in Defs
    BY ProtoFields DEF Good, Consistent, Unique, Midpoint, Mid
  <1>2. Unique(cache[p].records)
    <2>1. CASE cache[p].records = o.records
      BY <1>1, <2>1
    <2>2. CASE pc[p] = "add"
      <3>1. call[p].view \in ViewRequest /\ cache[p].records = AppliedLatest(o, call[p].view).records
        BY <2>2, RenewedView DEF Midpoint, Mid, Renewing
      <3>2. Good(AppliedLatest(o, call[p].view))
        BY <3>1, LatestIsGood
      <3> QED
        BY <3>1, <3>2 DEF Good, Consistent, Unique
    <2>3. CASE /\ NextVersion(o.records) = 0 /\ o.active # None
               /\ cache[p].records = Save(o.records, 0, o.active.def)
      <3>1. o.records = <<>>
        BY <1>1, <2>3, NextIsNew
      <3>2. \A i \in DOMAIN o.records : o.records[i].ver # 0
        BY <3>1
      <3>3. o.active.def \in Defs /\ 0 \in Nat
        BY <1>1, <2>3
      <3> QED
        BY <1>1, <2>3, <3>2, <3>3, RecordSaved
    <2> QED
      BY <2>1, <2>2, <2>3 DEF Midway, Midpoint, Mid
  <1> QED
    BY <1>1, <1>2 DEF Consistent, Unique

--------------------------------------------------------------------------------
(* Histories *)

\* A reload between the declaration of a version and its use is one of staged changes.
LEMMA DeclaringIsStaged ==
    ASSUME Typed, NEW p \in Processes, Declaring(p)
    PROVE  StagedSoFar(p) = {"reload"}
  <1>1. call[p] \in Call
    BY DEF Typed, ControlAt, TodoOK, Declaring
  <1>2. Head(Items(call[p])) # "view"
    BY <1>1, ItemsOK DEF Declaring
  <1>3. call[p] # None
    BY <1>1, CallFields
  <1> QED
    BY <1>2, <1>3 DEF StagedSoFar, Declaring, Typed, ControlAt, Resting

\* What a change makes of a good message.
LEMMA ChangedIsGood ==
    ASSUME NEW c, NEW t, TodoOK(t, c), t # <<>>, NEW proto \in Proto, Good(proto),
           NEW record \in Defs \cup {None}, Head(t) # "declare",
           ~(Head(t) = "view" /\ c.view.pin # Latest)
    PROVE  Good(Whole(c, Head(t), proto, record))
  <1>1. t \in Seq(ItemNames) /\ 1 \in DOMAIN t /\ Head(t) = t[1]
    BY DEF TodoOK
  <1>2. CASE Head(t) \in {"project", "source", "infra"}
    <2>1. /\ Changed(c, Head(t), proto, record).active = proto.active
          /\ Changed(c, Head(t), proto, record).records = proto.records
      BY <1>2 DEF Changed, Proto
    <2> QED
      BY <1>2, <2>1, SameView DEF Whole
  <1>3. CASE Head(t) = "view"
    <2>1. c.view \in ViewRequest
      BY <1>1, <1>3 DEF TodoOK
    <2> QED
      BY <1>3, <2>1, LatestIsGood DEF Whole, Changed, AppliedView
  <1>4. CASE Head(t) = "delete"
    BY <1>4, DeleteLooks DEF Whole, Good, Consistent
  <1> QED
    BY <1>1, <1>2, <1>3, <1>4 DEF ItemNames

\* A step keeps what its process has in hand consistent.
LEMMA CopyStep ==
    ASSUME Typed, NEW p \in Processes, StepOf(p), file # NoFile => Good(file), CopyAt(p),
           ~Excused'
    PROVE  CopyAt(p)'
  <1> USE DEF Became, Goto, Forget, Load, Reload, Midway
  <1>1. TypeOK /\ ControlAt(p)
    BY DEF Typed
  <1>2. \A proto \in Proto : Good([proto EXCEPT !.project = TRUE]) <=> Good(proto)
    <2> SUFFICES ASSUME NEW proto \in Proto
                 PROVE  Good([proto EXCEPT !.project = TRUE]) <=> Good(proto)
      OBVIOUS
    <2>1. /\ [proto EXCEPT !.project = TRUE].active = proto.active
          /\ [proto EXCEPT !.project = TRUE].records = proto.records
      BY DEF Proto
    <2> QED
      BY <2>1, SameView
  <1>3. CASE Start(p)
    <2>1. /\ todo[p] = <<>> /\ todo' = todo /\ writing' = writing
          /\ cache'[p] = EmptyProto \/ (cache'[p] = file /\ file # NoFile)
          /\ pc'[p] \in {"idle", "open"}
      BY <1>1, <1>3 DEF Start, TypeOK, ControlAt
    <2> QED
      BY <2>1, EmptyIsGood DEF CopyAt, Declaring
  <1>4. CASE Crash(p)
    <2>1. todo'[p] = <<>> /\ cache'[p] = EmptyProto /\ writing'[p] = EmptyProto /\ pc'[p] = "down"
      BY <1>1, <1>4 DEF Crash, TypeOK
    <2> QED
      BY <2>1, EmptyIsGood DEF CopyAt, Declaring
  <1>5. CASE Begin(p)
    <2>1. /\ todo[p] = <<>> /\ cache' = cache /\ writing' = writing /\ pc[p] = "idle"
          /\ pc'[p] \in {"plan", "prepare"}
      BY <1>1, <1>5 DEF Begin, ControlAt, TypeOK
    <2>2. PICK c \in Call : call'[p] = c /\ todo'[p] = Items(c)
      BY <1>1, <1>5, CallsAssumption DEF Begin, TypeOK
    <2>3. ~Declaring(p)'
      BY <2>2, ItemsOK DEF Declaring
    <2> QED
      BY <2>1, <2>3 DEF CopyAt, Declaring
  <1>6. CASE Plan(p)
    <2>1. /\ pc[p] = "plan" /\ pc'[p] = "stat" /\ call' = call /\ writing' = writing /\ cache'[p] = file /\ file # NoFile
          /\ todo'[p] = todo[p] \/ todo'[p] = <<"source", "infra">>
      BY <1>1, <1>6 DEF Plan, TypeOK
    <2>2. ~Declaring(p)
      BY <2>1 DEF CopyAt
    <2>3. ~Declaring(p)'
      <3>1. CASE todo'[p] = todo[p]
        BY <2>1, <2>2, <3>1 DEF Declaring
      <3>2. CASE todo'[p] = <<"source", "infra">>
        BY <3>2 DEF Declaring
      <3> QED
        BY <2>1, <3>1, <3>2
    <2> QED
      BY <2>1, <2>3 DEF CopyAt
  <1>7. CASE Stat(p)
    <2>1. /\ pc[p] = "stat" /\ cache' = cache /\ writing' = writing /\ pc'[p] \notin Midway
          /\ todo'[p] = <<>> \/ (todo' = todo /\ call' = call)
      BY <1>1, <1>7 DEF Stat, TypeOK, ControlAt
    <2>2. ~Declaring(p)
      BY <2>1 DEF CopyAt
    <2>3. ~Declaring(p)'
      BY <2>1, <2>2 DEF Declaring
    <2> QED
      BY <2>1, <2>2, <2>3 DEF CopyAt
  <1>8. CASE Prepare(p)
    <2>1. /\ pc[p] = "prepare" /\ todo' = todo /\ call' = call /\ writing' = writing
          /\ Head(todo[p]) # "declare" => known'[p] = known[p]
          /\ pc'[p] \in {"modify", "stat"}
      BY <1>1, <1>8 DEF Prepare, TypeOK
    <2>2. Declaring(p)' <=> Declaring(p)
      BY <2>1 DEF Declaring
    <2>3. CASE cache' = cache /\ pc'[p] = "modify"
      <3>1. Declaring(p) => known'[p] = known[p]
        BY <2>1 DEF Declaring
      <3>2. Declaring(p) => Pinned(p)' = Pinned(p)
        BY <2>1, <3>1 DEF Pinned
      <3> QED
        BY <2>1, <2>2, <2>3, <3>2 DEF CopyAt
    <2>4. CASE cache'[p] = file /\ file # NoFile /\ mishaps' = mishaps \cup StagedSoFar(p)
      <3>1. ~Declaring(p)
        BY <2>4, DeclaringIsStaged DEF Excused
      <3> QED
        BY <2>1, <2>2, <2>4, <3>1 DEF CopyAt
    <2> QED
      BY <1>1, <1>8, <2>3, <2>4 DEF Prepare, TypeOK
  <1>9. CASE Prepared(p)
    <2>1. /\ pc[p] = "prepared" /\ todo' = todo /\ call' = call /\ writing' = writing /\ file \in Proto
          /\ pc'[p] \in {"modify", "stat", "open"}
      BY <1>1, <1>9 DEF Prepared, TypeOK
    <2>2. ~Declaring(p) /\ ~Declaring(p)'
      BY <2>1 DEF CopyAt, Declaring
    <2>3. \/ cache'[p] = cache[p] \/ cache'[p] = file
          \/ cache'[p] = [file EXCEPT !.project = TRUE]
      BY <1>1, <1>9 DEF Prepared, TypeOK
    <2>4. Good(file) /\ Good(cache[p]) /\ Good([file EXCEPT !.project = TRUE])
      BY <1>2, <2>1, <2>2, NoneAssumption DEF CopyAt
    <2> QED
      BY <2>1, <2>2, <2>3, <2>4 DEF CopyAt
  <1>10. CASE Modify(p)
    <2> DEFINE new == Changed(call[p], Head(todo[p]), cache[p], known[p])
    <2>1. pc[p] = "modify" /\ todo[p] # <<>> /\ writing' = writing
      BY <1>1, <1>10 DEF Modify, ControlAt
    <2>2. TodoOK(todo[p], call[p]) /\ cache[p] \in Proto /\ known[p] \in Defs \cup {None}
      BY <1>1 DEF ControlAt, TypeOK
    <2>3. 1 \in DOMAIN todo[p] /\ Head(todo[p]) = todo[p][1]
      BY <2>1, <2>2 DEF TodoOK
    <2>4. CASE Raises(call[p], Head(todo[p]), cache[p], known[p])
      <3>1. todo'[p] = <<>> /\ cache' = cache /\ pc'[p] = "idle"
        BY <1>1, <1>10, <2>4 DEF Modify, Fail, TypeOK
      <3>2. ~Declaring(p)
        BY <2>4 DEF Raises, Declaring
      <3> QED
        BY <2>1, <3>1, <3>2 DEF CopyAt, Declaring
    <2>6. CASE /\ ~Raises(call[p], Head(todo[p]), cache[p], known[p])
               /\ Renews(call[p], Head(todo[p]), cache[p]) \/ Head(todo[p]) = "delete"
      <3>1. pc'[p] \in {"number", "clean"}
        BY <1>1, <1>10, <2>6 DEF Modify, TypeOK
      <3>2. ~Declaring(p) /\ ~Declaring(p)'
        <4>1. ~Declaring(p)
          BY <2>6 DEF Declaring, Renews
        <4>2. call' = call /\ todo' = todo
          BY <1>10, <3>1, MidBegins
        <4> QED
          BY <4>1, <4>2 DEF Declaring
      <3>3. Good(cache[p])
        BY <2>1, <3>2 DEF CopyAt
      <3>4. PICK o : o = cache[p]
        OBVIOUS
      <3>5. o \in Proto /\ Good(o) /\ Midpoint(p, o)'
        BY <1>10, <3>1, <3>3, <3>4, MidBegins
      <3> QED
        BY <2>1, <3>1, <3>2, <3>5 DEF CopyAt
    <2>5. CASE /\ ~Raises(call[p], Head(todo[p]), cache[p], known[p])
               /\ ~Renews(call[p], Head(todo[p]), cache[p]) /\ Head(todo[p]) # "delete"
      <3>0. Done(p, new) /\ UNCHANGED <<call, known, then>> /\ then[p] = "idle"
        BY <1>1, <1>10, <2>1, <2>5 DEF Modify, ControlAt
      <3>1. /\ cache'[p] = new /\ todo'[p] = Tail(todo[p]) /\ call' = call /\ known' = known
            /\ Len(todo[p]) > 1 => pc'[p] = "prepare"
            /\ mishaps' = IF Blind(p) THEN mishaps \cup {"lookup"} ELSE mishaps
            /\ pc'[p] \notin Midway
        <4>1. /\ cache'[p] = new /\ todo'[p] = Tail(todo[p])
              /\ Len(todo[p]) > 1 => pc'[p] = "prepare"
          BY <1>1, <3>0 DEF Done, TypeOK
        <4>2. pc'[p] \notin Midway
          BY <2>1, <3>0, DoneControl
        <4>3. mishaps' = IF Blind(p) THEN mishaps \cup {"lookup"} ELSE mishaps
          BY <1>10, <2>5 DEF Modify
        <4> QED
          BY <3>0, <4>1, <4>2, <4>3
      <3>2. ~Blind(p)
        BY <3>1 DEF Excused
      <3>3. Declaring(p)' => Head(todo[p]) = "declare"
        BY <2>1, <2>2, <3>1, TailOK DEF Declaring
      <3> HIDE DEF new
      <3>4. CASE Head(todo[p]) = "declare"
        <4>1. /\ call[p].view \in ViewRequest /\ call[p].view.pin # Latest
              /\ 2 \in DOMAIN todo[p] /\ todo[p][2] = "view"
          <5>1. 1 + 1 \in DOMAIN todo[p] /\ todo[p][1 + 1] = "view"
            BY <2>2, <2>3, <3>4 DEF TodoOK
          <5>2. call[p].view \in ViewRequest /\ call[p].view.pin # Latest
            BY <2>2, <2>3, <3>4 DEF TodoOK
          <5> QED
            BY <5>1, <5>2
        <4>2. Len(todo[p]) > 1 /\ Tail(todo[p]) # <<>> /\ Head(Tail(todo[p])) = "view"
          <5>1. todo[p] \in Seq(ItemNames) /\ Len(todo[p]) > 1
            BY <2>2, <4>1 DEF TodoOK
          <5>2. Tail(todo[p]) # <<>>
            BY <5>1, LongTail
          <5>3. Head(Tail(todo[p])) = todo[p][2]
            BY <5>1, <5>2
          <5> QED
            BY <4>1, <5>1, <5>2, <5>3
        <4>3. Declaring(p)' /\ pc'[p] = "prepare"
          BY <3>1, <4>1, <4>2 DEF Declaring
        <4>4. known[p] = VersionRecord(cache[p].records, call[p].view.pin)
          BY <3>2, <3>4 DEF Blind
        <4>5. Consistent(cache[p])
          BY <2>1 DEF CopyAt, Good
        <4>6. new = Declared(cache[p], call[p].view, known[p])
          BY <3>4 DEF new, Changed
        <4>7. /\ Consistent(new)
              /\ VersionRecord(new.records, call[p].view.pin) = Pinned(p)
          BY <2>2, <4>1, <4>4, <4>5, <4>6, DeclaredIsConsistent DEF Pinned
        <4>8. Pinned(p)' = Pinned(p)
          BY <3>1 DEF Pinned
        <4> QED
          BY <2>1, <3>1, <4>3, <4>7, <4>8 DEF CopyAt
      <3>5. CASE Head(todo[p]) # "declare" /\ Declaring(p)
        <4>1. call[p].view \in ViewRequest /\ call[p].view.pin # Latest
          BY <2>2, <2>3, <3>5 DEF TodoOK, Declaring
        <4>2. new = AppliedPin(cache[p], call[p].view, known[p])
          BY <3>5, <4>1 DEF new, Changed, AppliedView, Declaring
        <4>3. Good(new)
          BY <2>2, <3>5, <4>1, <4>2, PinIsGood DEF CopyAt, Pinned
        <4> QED
          BY <2>1, <3>1, <3>3, <3>5, <4>3 DEF CopyAt
      <3>6. CASE Head(todo[p]) # "declare" /\ ~Declaring(p)
        <4>1. Good(cache[p])
          BY <2>1, <3>6 DEF CopyAt
        <4>2. ~(Head(todo[p]) = "view" /\ call[p].view.pin # Latest)
          BY <2>1, <3>6 DEF Declaring
        <4>3. Good(new)
          BY <2>1, <2>2, <2>5, <3>6, <4>1, <4>2, ChangedIsGood DEF new, Whole
        <4> QED
          BY <2>1, <3>1, <3>3, <3>6, <4>3 DEF CopyAt
      <3> QED
        BY <3>4, <3>5, <3>6
    <2> QED
      BY <2>4, <2>5, <2>6
  <1>11. CASE Infra(p)
    <2>1. /\ pc[p] = "infra" /\ cache' = cache /\ writing' = writing
          /\ pc'[p] \in {"idle", "prepare", "open"}
          /\ todo'[p] = <<>> \/ (todo' = todo /\ call' = call)
      BY <1>1, <1>11 DEF Infra, Fail, TypeOK
    <2>2. ~Declaring(p)
      BY <2>1 DEF CopyAt
    <2>3. ~Declaring(p)'
      BY <2>1, <2>2 DEF Declaring
    <2> QED
      BY <2>1, <2>2, <2>3 DEF CopyAt
  <1>12. CASE Open(p)
    <2>1. /\ pc[p] = "open" /\ pc'[p] = "write" /\ cache' = cache /\ writing'[p] = cache[p] /\ todo' = todo /\ call' = call
      BY <1>1, <1>12 DEF Open, TypeOK
    <2>2. ~Declaring(p) /\ ~Declaring(p)'
      BY <2>1 DEF CopyAt, Declaring
    <2> QED
      BY <2>1, <2>2 DEF CopyAt
  <1>13. CASE Write(p)
    <2>1. /\ pc[p] = "write" /\ pc'[p] = "stat" /\ cache' = cache /\ writing'[p] = EmptyProto /\ todo' = todo /\ call' = call
      BY <1>1, <1>13 DEF Write, TypeOK
    <2>2. ~Declaring(p) /\ ~Declaring(p)'
      BY <2>1 DEF CopyAt, Declaring
    <2> QED
      BY <2>1, <2>2, EmptyIsGood DEF CopyAt
  <1>14. CASE After(p)
    <2>1. /\ pc[p] = "after" /\ pc'[p] \in {"idle", "stat"} /\ writing' = writing
          /\ cache'[p] = cache[p] \/ (cache'[p] = file /\ file # NoFile)
          /\ todo'[p] = <<>> \/ (todo' = todo /\ call' = call)
      BY <1>1, <1>14 DEF After, TypeOK
    <2>2. ~Declaring(p)
      BY <2>1 DEF CopyAt
    <2>3. ~Declaring(p)'
      BY <2>1, <2>2 DEF Declaring
    <2> QED
      BY <2>1, <2>2, <2>3 DEF CopyAt
  <1>15. CASE ThreadLoads(p)
    <2>1. /\ cache'[p] = file /\ file # NoFile /\ writing' = writing
          /\ todo' = todo /\ call' = call /\ pc' = pc
          /\ StagedSoFar(p) \subseteq mishaps'
      BY <1>1, <1>15 DEF ThreadLoads, TypeOK
    <2>2. ~Declaring(p)
      BY <2>1, DeclaringIsStaged DEF Excused
    <2>3. pc[p] \notin Midway
      <3>1. pc[p] \in Midway => call[p] # None
        BY <1>1, CallFields DEF ControlAt, TodoOK
      <3> QED
        BY <2>1, <3>1 DEF StagedSoFar, Resting, Excused
    <2>4. ~Declaring(p)'
      BY <2>1, <2>2 DEF Declaring
    <2> QED
      BY <2>1, <2>3, <2>4 DEF CopyAt
  <1>16. CASE ThreadStats(p)
    <2>1. UNCHANGED <<cache, writing, call, todo, known, pc, old, num, attached>>
      BY <1>16 DEF ThreadStats, local
    <2>2. (Declaring(p)' <=> Declaring(p)) /\ Pinned(p)' = Pinned(p)
          /\ \A o : Midpoint(p, o)' <=> Midpoint(p, o)
      BY <2>1 DEF Declaring, Pinned, Midpoint
    <2> QED
      BY <2>1, <2>2 DEF CopyAt
  <1>17. CASE Number(p) \/ SaveRecord(p)
    <2>1. pc[p] \in Midway
      BY <1>17 DEF Number, SaveRecord
    <2>2. PICK o \in Proto : Good(o) /\ Midpoint(p, o)
      BY <2>1 DEF CopyAt
    <2>3. /\ Midpoint(p, o)' /\ pc'[p] \in Midway
          /\ UNCHANGED <<call, todo, writing>>
      BY <1>17, <2>2, MidStep
    <2>4. ~Declaring(p)
      BY <2>1 DEF CopyAt
    <2>5. ~Declaring(p)'
      BY <2>3, <2>4 DEF Declaring
    <2> QED
      BY <2>2, <2>3, <2>5 DEF CopyAt
  <1>18. CASE AddView(p) \/ Clean(p)
    <2>1. pc[p] \in Midway
      BY <1>18 DEF AddView, Clean
    <2>2. PICK o \in Proto : Good(o) /\ Midpoint(p, o)
      BY <2>1 DEF CopyAt
    <2> DEFINE new == Whole(call[p], Head(todo[p]), o, known[p])
    <2>3. /\ Done(p, new) /\ todo[p] # <<>> /\ then[p] = "idle"
          /\ Head(todo[p]) = "delete" \/ (Head(todo[p]) = "view" /\ call[p].view.pin = Latest)
          /\ UNCHANGED <<call, then, writing>>
      BY <1>18, <2>2, MidEnds
    <2>4. TodoOK(todo[p], call[p]) /\ known[p] \in Defs \cup {None}
      BY <1>1 DEF ControlAt, TypeOK
    <2>5. Good(new)
      BY <2>2, <2>3, <2>4, ChangedIsGood
    <2> HIDE DEF new
    <2>6. /\ pc'[p] \notin Midway
          /\ cache' = [cache EXCEPT ![p] = new] /\ todo' = [todo EXCEPT ![p] = Tail(todo[p])]
      BY <2>3, DoneControl
    <2>7. cache'[p] = new /\ todo'[p] = Tail(todo[p])
      BY <1>1, <2>6 DEF TypeOK
    <2>8. ~Declaring(p)'
      BY <2>3, <2>4, <2>7, TailOK DEF Declaring
    <2> QED
      BY <2>3, <2>5, <2>6, <2>7, <2>8 DEF CopyAt
  <1> QED
    BY <1>3, <1>4, <1>5, <1>6, <1>7, <1>8, <1>9, <1>10, <1>11, <1>12, <1>13, <1>14, <1>15, <1>16,
       <1>17, <1>18
    DEF StepOf, Step

\* A step keeps every message consistent.
LEMMA MessageStep == ASSUME Typed, MessageInv, [Next]_vars PROVE MessageInv'
  <1>1. CASE UNCHANGED vars
    BY <1>1 DEF vars, memory, local, MessageInv, Excused, CopyAt, Declaring, Pinned, Midpoint
  <1>2. ASSUME NEW p \in Processes, StepOf(p) PROVE MessageInv'
    <2> SUFFICES ASSUME ~Excused'
                 PROVE  (file # NoFile => Good(file))' /\ \A q \in Processes : CopyAt(q)'
      BY DEF MessageInv
    <2>0. TypeOK
      BY DEF Typed
    <2>1. mishaps \subseteq mishaps'
      BY <1>2, <2>0, MishapsGrow
    <2>2. (file # NoFile => Good(file)) /\ \A q \in Processes : CopyAt(q)
      BY <2>1 DEF MessageInv, Excused
    <2>3. (file # NoFile => Good(file))'
      <3>1. CASE Open(p)
        BY <3>1, EmptyIsGood DEF Open
      <3>2. CASE Write(p)
        BY <2>2, <3>2 DEF Write, CopyAt
      <3>3. CASE ~Open(p) /\ ~Write(p)
        <4>1. file' = file
          BY <1>2, <2>0, <3>3, Steps, QuietFile
        <4> QED
          BY <2>2, <4>1
      <3> QED
        BY <3>1, <3>2, <3>3
    <2>4. ASSUME NEW q \in Processes PROVE CopyAt(q)'
      <3>1. CASE q = p
        BY <1>2, <2>2, <3>1, CopyStep
      <3>2. CASE q # p
        <4>1. /\ pc'[q] = pc[q] /\ call'[q] = call[q] /\ todo'[q] = todo[q]
              /\ known'[q] = known[q] /\ cache'[q] = cache[q] /\ writing'[q] = writing[q]
              /\ old'[q] = old[q] /\ num'[q] = num[q] /\ attached'[q] = attached[q]
          BY <1>2, <2>0, <3>2, Frame
        <4>2. /\ (Declaring(q)' <=> Declaring(q)) /\ Pinned(q)' = Pinned(q)
              /\ \A o : Midpoint(q, o)' <=> Midpoint(q, o)
          BY <4>1 DEF Declaring, Pinned, Midpoint
        <4> QED
          BY <2>2, <4>1, <4>2 DEF CopyAt
      <3> QED
        BY <3>1, <3>2
    <2> QED
      BY <2>3, <2>4
  <1> QED
    BY <1>1, <1>2 DEF Next, StepOf

--------------------------------------------------------------------------------
(* Calls that do not overlap *)

Has(t, x) == \E i \in DOMAIN t : t[i] = x

\* More about what is left of a call: every change is one of its kind, and is made once.
TodoMore(t, c) ==
    /\ \A i, j \in DOMAIN t : t[i] = t[j] => i = j
    /\ \A i \in DOMAIN t :
         /\ t[i] = "source" => c.kind \in {"apply", "diff", "source"}
         /\ t[i] \in {"view", "declare"} => c.kind \in {"apply", "diff", "view"} /\ c.view # None
         /\ t[i] = "delete" => c.kind = "delete" \/ (c.kind = "diff" /\ c.view = None)
         /\ t[i] = "infra" => c.kind = "diff"
         /\ t[i] = "project" => Head(Items(c)) = "project" /\ Len(t) > 1
         /\ t[i] = Head(Items(c)) => i = 1

\* No change of the call is made yet.
NoneMade(t, c) == t # <<>> /\ Head(t) = Head(Items(c))

\* Then all of them are left, or the plan has found no view to delete.
AllLeft(t, c, proto) ==
    \/ t = Items(c)
    \/ c.kind = "diff" /\ c.view = None /\ t = <<"source", "infra">> /\ proto.active = None

\* What a call has made of a message when t is left to do.
ViewStage(c, t, proto) ==
    IF Has(t, "declare") \/ Has(t, "delete") \/ (Has(t, "view") /\ c.view.pin = Latest) THEN proto
    ELSE IF Has(t, "view") THEN Declared(proto, c.view, VersionRecord(proto.records, c.view.pin))
    ELSE ViewEffect(c, proto)

SourceStage(c, t, proto) ==
    IF c.kind \in {"apply", "diff", "source"} /\ ~Has(t, "source") THEN c.value ELSE proto.source

Stage(c, t, proto, new) ==
    /\ new.active = ViewStage(c, t, proto).active
    /\ new.records = ViewStage(c, t, proto).records
    /\ new.source = SourceStage(c, t, proto)
    /\ new.project = (IF NoneMade(t, c) THEN proto.project ELSE TRUE)

\* The copy is the registry of the calls before this one, with the changes that this one
\* has made.
Staged(p) == Stage(call[p], todo[p], truth, cache[p])

\* The call has made no change, and its next one prepares.
Fresh(p) == NoneMade(todo[p], call[p]) /\ Head(todo[p]) # "project"

\* The file is newer than the process believes, and no thread of it will say otherwise.
Old(p) == behind[p] /\ ~reading[p]

UseAt(p) ==
    /\ TodoMore(todo[p], call[p])
    /\ NoneMade(todo[p], call[p]) => AllLeft(todo[p], call[p], truth)
    /\ Declaring(p) => known[p] = VersionRecord(truth.records, call[p].view.pin)
    /\ pc[p] = "down" => call[p] = None
    /\ pc[p] \in {"idle", "plan"} => Old(p) \/ cache[p] = file
    /\ pc[p] = "plan" => todo[p] = Items(call[p])
    /\ pc[p] = "infra" => /\ call[p] # None /\ Staged(p)
                          /\ IF call[p].kind = "diff" THEN NoneMade(todo[p], call[p])
                             ELSE todo[p] = <<>>
    /\ pc[p] = "prepare" => Old(p) \/ Staged(p)
    /\ pc[p] = "prepared" => Fresh(p) /\ cache[p] = file
    /\ pc[p] = "modify" =>
         \/ Head(todo[p]) = "project" /\ Old(p)
         \/ Staged(p) /\ (Head(todo[p]) # "project" => cache[p].project)
    /\ pc[p] \in Midway =>
         \E o \in Proto : Stage(call[p], todo[p], truth, o) /\ o.project = TRUE /\ Midpoint(p, o)
    /\ pc[p] \in {"open", "write"} =>
         IF call[p] = None THEN cache[p] = EmptyProto /\ truth = EmptyProto /\ then[p] = "idle"
         ELSE IF then[p] = "modify" THEN Fresh(p) /\ cache[p] = [truth EXCEPT !.project = TRUE]
         ELSE todo[p] = <<>> /\ Staged(p) /\ then[p] \in {"idle", "after"}
    /\ pc[p] = "write" => writing[p] = cache[p]
    /\ pc[p] = "stat" =>
         /\ cache[p] = file
         /\ then[p] = "infra" => NoneMade(todo[p], call[p])
         /\ then[p] \in {"prepared", "modify"} => Fresh(p)
         /\ then[p] = "modify" => cache[p].project
         /\ then[p] \in {"idle", "infra", "prepared", "modify", "after"}
    /\ pc[p] = "after" => cache[p] = file

\* Of processes that are not at rest there is one, and the file is the registry of the
\* completed calls except while that process writes it; the others will look again.
Orderly ==
    /\ Good(truth)
    /\ \A p, q \in Processes : p # q => Resting(p) \/ Resting(q)
    /\ file = NoFile => truth = EmptyProto
    /\ file # NoFile /\ (\A p \in Processes : pc[p] # "write") => file = truth
    /\ \A p, q \in Processes : p # q /\ pc[p] = "write" /\ pc[q] = "idle" => Old(q)
    /\ \A p \in Processes : UseAt(p)

UseInv == (mishaps = {} /\ mode = "sync") => Orderly

\* Applying a view changes the view and its history only, and looks at nothing else.
LEMMA LatestLooks ==
    ASSUME NEW a \in Proto, NEW b \in Proto, NEW view \in ViewRequest,
           a.active = b.active, a.records = b.records
    PROVE  /\ AppliedLatest(a, view).active = AppliedLatest(b, view).active
           /\ AppliedLatest(a, view).records = AppliedLatest(b, view).records
           /\ AppliedLatest(a, view).project = a.project
           /\ AppliedLatest(a, view).source = a.source
  <1> DEFINE new == [def |-> view.def, pin |-> Latest]
             first == NextVersion(a.records) = 0
             base == IF first THEN Save(a.records, 0, a.active.def) ELSE a.records
             rs == Save(base, NextVersion(base), view.def)
             r0 == Save(a.records, 0, view.def)
             act == IF view.promote THEN new ELSE a.active
  <1>1. CASE a.active = None
    <2>1. /\ AppliedLatest(a, view) = [a EXCEPT !.active = new, !.records = r0]
          /\ AppliedLatest(b, view) = [b EXCEPT !.active = new, !.records = r0]
      BY <1>1 DEF AppliedLatest
    <2> HIDE DEF new, r0
    <2> QED
      BY <2>1 DEF Proto
  <1>2. CASE a.active # None /\ a.active.def = view.def
    <2>1. /\ AppliedLatest(a, view) = [a EXCEPT !.active = new]
          /\ AppliedLatest(b, view) = [b EXCEPT !.active = new]
      BY <1>2 DEF AppliedLatest
    <2> HIDE DEF new
    <2> QED
      BY <2>1 DEF Proto
  <1>3. CASE a.active # None /\ a.active.def # view.def
    <2>1. /\ AppliedLatest(a, view) = [a EXCEPT !.active = act, !.records = rs]
          /\ AppliedLatest(b, view) = [b EXCEPT !.active = act, !.records = rs]
      BY <1>3 DEF AppliedLatest
    <2> HIDE DEF act, rs
    <2> QED
      BY <2>1 DEF Proto
  <1> QED
    BY <1>1, <1>2, <1>3

\* What an explicit version makes of the view.
PinnedTo(view, record) == [def |-> IF record = None THEN view.def ELSE record, pin |-> view.pin]

\* Applying an explicit version.
LEMMA PinLooks ==
    ASSUME NEW a \in Proto, NEW view, NEW record
    PROVE  /\ AppliedPin(a, view, record).active = PinnedTo(view, record)
           /\ AppliedPin(a, view, record).records = a.records
           /\ AppliedPin(a, view, record).project = a.project
           /\ AppliedPin(a, view, record).source = a.source
  <1>1. AppliedPin(a, view, record) = [a EXCEPT !.active = PinnedTo(view, record)]
    BY DEF AppliedPin, PinnedTo
  <1> QED
    BY <1>1 DEF Proto

\* Declaring it.
LEMMA DeclaredLooks ==
    ASSUME NEW a \in Proto, NEW view, NEW record
    PROVE  /\ Declared(a, view, record).active = a.active
           /\ Declared(a, view, record).records =
                (IF record = None THEN Save(a.records, view.pin, view.def) ELSE a.records)
           /\ Declared(a, view, record).project = a.project
           /\ Declared(a, view, record).source = a.source
  <1> DEFINE rs == Save(a.records, view.pin, view.def)
  <1>1. Declared(a, view, record) = IF record = None THEN [a EXCEPT !.records = rs] ELSE a
    BY DEF Declared
  <1> HIDE DEF rs
  <1>2. /\ Declared(a, view, record).active = a.active
        /\ Declared(a, view, record).records = (IF record = None THEN rs ELSE a.records)
        /\ Declared(a, view, record).project = a.project
        /\ Declared(a, view, record).source = a.source
    BY <1>1 DEF Proto
  <1> QED
    BY <1>2 DEF rs

\* What a call does to the view leaves the data source alone.
LEMMA ViewEffectSource ==
    ASSUME NEW c \in Call, NEW proto \in Proto
    PROVE  ViewEffect(c, proto).source = proto.source
  <1> DEFINE record == VersionRecord(proto.records, c.view.pin)
  <1>1. record \in Defs \cup {None}
    BY ProtoFields, RecordFound
  <1>2. DeletedView(proto).source = proto.source
    BY DeleteLooks
  <1>3. ASSUME c.view \in ViewRequest
        PROVE  /\ AppliedLatest(proto, c.view).source = proto.source
               /\ c.view.pin # Latest =>
                    AppliedPin(Declared(proto, c.view, record), c.view, record).source = proto.source
    <2> HIDE DEF record
    <2>1. c.view.pin # Latest => Declared(proto, c.view, record) \in Proto
      BY <1>1, <1>3, DeclaredIsConsistent
    <2>2. AppliedLatest(proto, c.view).source = proto.source
      BY <1>3, LatestLooks
    <2>3. Declared(proto, c.view, record).source = proto.source
      BY DeclaredLooks
    <2>4. \A d \in Proto : AppliedPin(d, c.view, record).source = d.source
      BY PinLooks
    <2> QED
      BY <2>1, <2>2, <2>3, <2>4
  <1>4. c.kind \in {"source", "delete"} \/ c.view = None \/ c.view \in ViewRequest
    BY CallFields
  <1> QED
    BY <1>2, <1>3, <1>4 DEF ViewEffect

\* A call begins with all its changes.
LEMMA ItemsMore ==
    ASSUME NEW c \in Call
    PROVE  /\ TodoMore(Items(c), c) /\ NoneMade(Items(c), c)
           /\ c.kind = "diff" /\ c.view = None =>
                /\ TodoMore(<<"source", "infra">>, c) /\ NoneMade(<<"source", "infra">>, c)
  <1> USE CallFields, ItemsAre DEF TodoMore, NoneMade
  <1>1. CASE c.kind = "apply"
    <2>1. c.view # None
      BY <1>1, NoneAssumption
    <2>2. CASE c.view.pin = Latest
      <3>1. Items(c) = <<"project", "source", "view">>
        BY <1>1, <2>2
      <3> QED
        BY <1>1, <2>1, <3>1
    <2>3. CASE c.view.pin # Latest
      <3>1. Items(c) = <<"project", "source", "declare", "view">>
        BY <1>1, <2>3
      <3> QED
        BY <1>1, <2>1, <3>1
    <2> QED
      BY <2>2, <2>3
  <1>2. CASE c.kind = "diff" /\ c.view # None
    <2>2. CASE c.view.pin = Latest
      <3>1. Items(c) = <<"source", "view", "infra">>
        BY <1>2, <2>2
      <3> QED
        BY <1>2, <3>1
    <2>3. CASE c.view.pin # Latest
      <3>1. Items(c) = <<"source", "declare", "view", "infra">>
        BY <1>2, <2>3
      <3> QED
        BY <1>2, <3>1
    <2> QED
      BY <2>2, <2>3
  <1>3. CASE c.kind = "diff" /\ c.view = None
    <2>1. Items(c) = <<"source", "delete", "infra">>
      BY <1>3
    <2> QED
      BY <1>3, <2>1
  <1>4. CASE c.kind = "view"
    <2>1. c.view # None
      BY <1>4, NoneAssumption
    <2>2. CASE c.view.pin = Latest
      <3>1. Items(c) = <<"view">>
        BY <1>4, <2>2
      <3> QED
        BY <1>4, <2>1, <3>1
    <2>3. CASE c.view.pin # Latest
      <3>1. Items(c) = <<"declare", "view">>
        BY <1>4, <2>3
      <3> QED
        BY <1>4, <2>1, <3>1
    <2> QED
      BY <2>2, <2>3
  <1>5. CASE c.kind = "source"
    <2>1. Items(c) = <<"source">>
      BY <1>5
    <2> QED
      BY <1>5, <2>1
  <1>6. CASE c.kind = "delete"
    <2>1. Items(c) = <<"delete">>
      BY <1>6
    <2> QED
      BY <1>6, <2>1
  <1> QED
    BY <1>1, <1>2, <1>3, <1>4, <1>5, <1>6

\* A change that is made is not left.
LEMMA TailMore ==
    ASSUME NEW t, NEW c, TodoOK(t, c), TodoMore(t, c), t # <<>>
    PROVE  /\ TodoMore(Tail(t), c) /\ ~NoneMade(Tail(t), c)
           /\ \A x : Has(Tail(t), x) <=> Has(t, x) /\ x # Head(t)
  <1>1. t \in Seq(ItemNames) /\ Len(t) \in Nat /\ Len(t) > 0 /\ Head(t) = t[1]
    BY DEF TodoOK
  <1>2. /\ Tail(t) \in Seq(ItemNames) /\ Len(Tail(t)) = Len(t) - 1
        /\ \A i \in DOMAIN Tail(t) : i + 1 \in DOMAIN t /\ Tail(t)[i] = t[i + 1] /\ i \in Nat /\ i > 0
        /\ \A i \in DOMAIN t : i # 1 => i - 1 \in DOMAIN Tail(t) /\ Tail(t)[i - 1] = t[i]
    BY <1>1
  <1>3. \A x : Has(Tail(t), x) <=> Has(t, x) /\ x # Head(t)
    <2> SUFFICES ASSUME NEW x PROVE Has(Tail(t), x) <=> Has(t, x) /\ x # Head(t)
      OBVIOUS
    <2>1. ASSUME NEW i \in DOMAIN Tail(t), Tail(t)[i] = x PROVE Has(t, x) /\ x # Head(t)
      <3>1. i + 1 \in DOMAIN t /\ t[i + 1] = x /\ i + 1 # 1 /\ 1 \in DOMAIN t
        BY <1>1, <1>2, <2>1
      <3> QED
        BY <1>1, <3>1 DEF TodoMore, Has
    <2>2. ASSUME NEW i \in DOMAIN t, t[i] = x, x # Head(t) PROVE Has(Tail(t), x)
      BY <1>1, <1>2, <2>2 DEF Has
    <2> QED
      BY <2>1, <2>2 DEF Has
  <1>4. \A i \in DOMAIN Tail(t) : Tail(t)[i] # Head(Items(c)) /\ Tail(t)[i] # "project"
    <2> SUFFICES ASSUME NEW i \in DOMAIN Tail(t)
                 PROVE  Tail(t)[i] # Head(Items(c)) /\ Tail(t)[i] # "project"
      OBVIOUS
    <2>1. i + 1 \in DOMAIN t /\ t[i + 1] = Tail(t)[i] /\ i + 1 # 1
      BY <1>2
    <2> QED
      BY <2>1 DEF TodoMore
  <1>5. ~NoneMade(Tail(t), c)
    <2>1. Tail(t) # <<>> => 1 \in DOMAIN Tail(t) /\ Head(Tail(t)) = Tail(t)[1]
      BY <1>2
    <2> QED
      BY <1>4, <2>1 DEF NoneMade
  <1>6. \A i, j \in DOMAIN Tail(t) : Tail(t)[i] = Tail(t)[j] => i = j
    <2> SUFFICES ASSUME NEW i \in DOMAIN Tail(t), NEW j \in DOMAIN Tail(t), Tail(t)[i] = Tail(t)[j]
                 PROVE  i = j
      OBVIOUS
    <2>1. i + 1 \in DOMAIN t /\ j + 1 \in DOMAIN t /\ t[i + 1] = t[j + 1] /\ i \in Nat /\ j \in Nat
      BY <1>2
    <2>2. i + 1 = j + 1
      BY <2>1 DEF TodoMore
    <2> QED
      BY <2>1, <2>2
  <1>7. TodoMore(Tail(t), c)
    <2> SUFFICES ASSUME NEW i \in DOMAIN Tail(t)
                 PROVE  /\ Tail(t)[i] = "source" => c.kind \in {"apply", "diff", "source"}
                        /\ Tail(t)[i] \in {"view", "declare"} =>
                             c.kind \in {"apply", "diff", "view"} /\ c.view # None
                        /\ Tail(t)[i] = "delete" => c.kind = "delete" \/ (c.kind = "diff" /\ c.view = None)
                        /\ Tail(t)[i] = "infra" => c.kind = "diff"
      BY <1>4, <1>6 DEF TodoMore
    <2>1. i + 1 \in DOMAIN t /\ Tail(t)[i] = t[i + 1]
      BY <1>2
    <2> QED
      BY <2>1 DEF TodoMore
  <1> QED
    BY <1>3, <1>5, <1>7

\* With all changes left, the stage is the message itself.
LEMMA AllLeftStage ==
    ASSUME NEW c \in Call, NEW t, NEW proto \in Proto, Good(proto), AllLeft(t, c, proto),
           NoneMade(t, c)
    PROVE  \A new \in Proto : Stage(c, t, proto, new) <=> new = proto
  <1>1. /\ ViewStage(c, t, proto).active = proto.active
        /\ ViewStage(c, t, proto).records = proto.records
        /\ SourceStage(c, t, proto) = proto.source
    <2>1. CASE t = Items(c)
      <3> USE CallFields, ItemsAre, <2>1 DEF ViewStage, SourceStage, Has
      <3>1. CASE c.kind = "apply"
        <4>1. CASE c.view.pin = Latest
          <5>1. t = <<"project", "source", "view">>
            BY <3>1, <4>1
          <5>2. t[2] = "source" /\ t[3] = "view" /\ DOMAIN t = 1 .. 3
            BY <5>1
          <5> QED
            BY <3>1, <4>1, <5>2
        <4>2. CASE c.view.pin # Latest
          <5>1. t = <<"project", "source", "declare", "view">>
            BY <3>1, <4>2
          <5>2. t[2] = "source" /\ t[3] = "declare" /\ DOMAIN t = 1 .. 4
            BY <5>1
          <5> QED
            BY <3>1, <4>2, <5>2
        <4> QED
          BY <4>1, <4>2
      <3>2. CASE c.kind = "diff" /\ c.view # None
        <4>1. CASE c.view.pin = Latest
          <5>1. t = <<"source", "view", "infra">>
            BY <3>2, <4>1
          <5>2. t[1] = "source" /\ t[2] = "view" /\ DOMAIN t = 1 .. 3
            BY <5>1
          <5> QED
            BY <3>2, <4>1, <5>2
        <4>2. CASE c.view.pin # Latest
          <5>1. t = <<"source", "declare", "view", "infra">>
            BY <3>2, <4>2
          <5>2. t[1] = "source" /\ t[2] = "declare" /\ DOMAIN t = 1 .. 4
            BY <5>1
          <5> QED
            BY <3>2, <4>2, <5>2
        <4> QED
          BY <4>1, <4>2
      <3>3. CASE c.kind = "diff" /\ c.view = None
        <4>1. t = <<"source", "delete", "infra">>
          BY <3>3
        <4>2. t[1] = "source" /\ t[2] = "delete" /\ DOMAIN t = 1 .. 3
          BY <4>1
        <4> QED
          BY <3>3, <4>2
      <3>4. CASE c.kind = "view"
        <4>1. CASE c.view.pin = Latest
          <5>1. t = <<"view">>
            BY <3>4, <4>1
          <5>2. t[1] = "view" /\ DOMAIN t = 1 .. 1
            BY <5>1
          <5> QED
            BY <3>4, <4>1, <5>2
        <4>2. CASE c.view.pin # Latest
          <5>1. t = <<"declare", "view">>
            BY <3>4, <4>2
          <5>2. t[1] = "declare" /\ DOMAIN t = 1 .. 2
            BY <5>1
          <5> QED
            BY <3>4, <4>2, <5>2
        <4> QED
          BY <4>1, <4>2
      <3>5. CASE c.kind = "source"
        <4>1. t = <<"source">>
          BY <3>5
        <4>2. t[1] = "source" /\ DOMAIN t = {1}
          BY <4>1
        <4> QED
          BY <3>5, <4>2 DEF ViewEffect
      <3>6. CASE c.kind = "delete"
        <4>1. t = <<"delete">>
          BY <3>6
        <4>2. t[1] = "delete" /\ DOMAIN t = {1}
          BY <4>1
        <4> QED
          BY <3>6, <4>2
      <3> QED
        BY <3>1, <3>2, <3>3, <3>4, <3>5, <3>6
    <2>2. CASE c.kind = "diff" /\ c.view = None /\ t = <<"source", "infra">> /\ proto.active = None
      <3>1. t[1] = "source" /\ t[2] = "infra" /\ DOMAIN t = {1, 2}
        BY <2>2
      <3>2. Has(t, "source") /\ ~Has(t, "declare") /\ ~Has(t, "delete") /\ ~Has(t, "view")
        BY <3>1 DEF Has
      <3>3. ViewStage(c, t, proto) = DeletedView(proto)
        BY <2>2, <3>2 DEF ViewStage, ViewEffect
      <3>4. proto.records = <<>>
        BY <2>2 DEF Good
      <3> QED
        BY <2>2, <3>2, <3>3, <3>4, DeleteLooks DEF SourceStage
    <2> QED
      BY <2>1, <2>2 DEF AllLeft
  <1> SUFFICES ASSUME NEW new \in Proto
               PROVE  Stage(c, t, proto, new) <=> new = proto
    OBVIOUS
  <1>2. Stage(c, t, proto, new) <=>
          /\ new.active = proto.active /\ new.records = proto.records
          /\ new.source = proto.source /\ new.project = proto.project
    BY <1>1 DEF Stage
  <1> QED
    BY <1>2, ProtoEqual

\* With none left, it is the effect of the call.
LEMMA DoneStage ==
    ASSUME NEW c \in Call, NEW proto \in Proto, NEW new \in Proto, Stage(c, <<>>, proto, new)
    PROVE  new = Effect(c, proto)
  <1> DEFINE view == ViewEffect(c, proto)
             source == IF c.kind \in {"apply", "diff", "source"} THEN c.value ELSE view.source
  <1>1. view \in Proto /\ Effect(c, proto) \in Proto /\ view.source = proto.source
    BY EffectType, ViewEffectSource
  <1>2. Effect(c, proto) = [view EXCEPT !.project = TRUE, !.source = source]
    BY DEF Effect
  <1>3. \A x : ~Has(<<>>, x)
    BY DEF Has
  <1>4. /\ new.active = view.active /\ new.records = view.records
        /\ new.source = source /\ new.project = TRUE
    BY <1>1, <1>3 DEF Stage, ViewStage, SourceStage, NoneMade
  <1> HIDE DEF view, source
  <1>5. /\ Effect(c, proto).active = view.active /\ Effect(c, proto).records = view.records
        /\ Effect(c, proto).source = source /\ Effect(c, proto).project = TRUE
    BY <1>1, <1>2 DEF Proto
  <1> QED
    BY <1>1, <1>4, <1>5, ProtoEqual

\* One more change takes a call to its next stage.
LEMMA StageStep ==
    ASSUME NEW c \in Call, NEW t, TodoOK(t, c), TodoMore(t, c), t # <<>>,
           NEW base \in Proto, NEW proto \in Proto, NEW record \in Defs \cup {None},
           Stage(c, t, base, proto),
           Head(t) # "project" => proto.project = TRUE,
           Head(t) = "declare" => record = VersionRecord(proto.records, c.view.pin),
           Head(t) = "view" /\ c.view.pin # Latest => record = VersionRecord(base.records, c.view.pin)
    PROVE  Stage(c, Tail(t), base, Whole(c, Head(t), proto, record))
  <1> DEFINE new == Whole(c, Head(t), proto, record)
  <1>1. t \in Seq(ItemNames) /\ 1 \in DOMAIN t /\ Head(t) = t[1] /\ Has(t, Head(t))
    BY DEF TodoOK, Has
  <1>2. /\ ~NoneMade(Tail(t), c)
        /\ \A x : Has(Tail(t), x) <=> Has(t, x) /\ x # Head(t)
    BY TailMore
  <1>3. SUFFICES /\ new.active = ViewStage(c, Tail(t), base).active
                 /\ new.records = ViewStage(c, Tail(t), base).records
                 /\ new.source = SourceStage(c, Tail(t), base)
                 /\ new.project = TRUE
    BY <1>2 DEF Stage
  <1>4. /\ Has(t, "view") \/ Has(t, "declare") => c.kind \in {"apply", "diff", "view"} /\ c.view # None
        /\ Has(t, "delete") => c.kind = "delete" \/ (c.kind = "diff" /\ c.view = None)
        /\ Has(t, "source") => c.kind \in {"apply", "diff", "source"}
    BY DEF TodoMore, Has
  <1>5. CASE Head(t) \in {"project", "source", "infra"}
    <2>1. ViewStage(c, Tail(t), base) = ViewStage(c, t, base)
      BY <1>2, <1>5 DEF ViewStage
    <2>2. new.active = proto.active /\ new.records = proto.records
      BY <1>5 DEF Whole, Changed, Proto
    <2>3. new.source = SourceStage(c, Tail(t), base)
      <3>1. CASE Head(t) = "source"
        <4>1. new.source = c.value
          BY <3>1 DEF Whole, Changed, Proto
        <4>2. c.kind \in {"apply", "diff", "source"} /\ ~Has(Tail(t), "source")
          BY <1>1, <1>2, <1>4, <3>1
        <4> QED
          BY <4>1, <4>2 DEF SourceStage
      <3>2. CASE Head(t) # "source"
        <4>1. new.source = proto.source
          BY <1>5, <3>2 DEF Whole, Changed, Proto
        <4>2. SourceStage(c, Tail(t), base) = SourceStage(c, t, base)
          BY <1>2, <3>2 DEF SourceStage
        <4> QED
          BY <4>1, <4>2 DEF Stage
      <3> QED
        BY <3>1, <3>2
    <2>4. new.project = TRUE
      BY <1>5 DEF Whole, Changed, Proto
    <2> HIDE DEF new
    <2> QED
      BY <2>1, <2>2, <2>3, <2>4 DEF Stage
  <1>6. CASE Head(t) \in {"declare", "view", "delete"}
    <2>0. SourceStage(c, Tail(t), base) = proto.source
      <3>1. SourceStage(c, Tail(t), base) = SourceStage(c, t, base)
        BY <1>2, <1>6 DEF SourceStage
      <3> QED
        BY <3>1 DEF Stage
    <2>1. CASE Head(t) = "declare"
      <3>1. new = Declared(proto, c.view, record)
        BY <2>1 DEF Whole, Changed
      <3>2. c.view \in ViewRequest /\ c.view.pin # Latest
        BY <1>1, <2>1 DEF TodoOK
      <3>3. Has(t, "view")
        <4>1. 1 + 1 \in DOMAIN t /\ t[1 + 1] = "view"
          BY <1>1, <2>1 DEF TodoOK
        <4> QED
          BY <4>1 DEF Has
      <3>4. Has(Tail(t), "view") /\ ~Has(Tail(t), "declare") /\ ~Has(Tail(t), "delete")
        BY <1>2, <1>4, <2>1, <3>3
      <3>5. ViewStage(c, t, base) = base
        BY <1>1, <2>1 DEF ViewStage
      <3>6. proto.active = base.active /\ proto.records = base.records
        BY <3>5 DEF Stage
      <3>7. ViewStage(c, Tail(t), base) = Declared(base, c.view, record)
        BY <2>1, <3>2, <3>4, <3>6 DEF ViewStage
      <3>8. /\ new.active = proto.active /\ new.source = proto.source /\ new.project = proto.project
            /\ new.records =
                 (IF record = None THEN Save(proto.records, c.view.pin, c.view.def) ELSE proto.records)
        BY <3>1, DeclaredLooks
      <3>9. /\ ViewStage(c, Tail(t), base).active = base.active
            /\ ViewStage(c, Tail(t), base).records =
                 (IF record = None THEN Save(base.records, c.view.pin, c.view.def) ELSE base.records)
        BY <3>7, DeclaredLooks
      <3> HIDE DEF new
      <3> QED
        BY <2>0, <2>1, <3>6, <3>8, <3>9
    <2>2. CASE Head(t) = "view" /\ c.view.pin = Latest
      <3>1. new = AppliedLatest(proto, c.view) /\ c.view \in ViewRequest
        BY <1>1, <2>2 DEF Whole, Changed, AppliedView, TodoOK
      <3>2. ViewStage(c, t, base) = base
        BY <1>1, <2>2 DEF ViewStage
      <3>3. proto.active = base.active /\ proto.records = base.records
        BY <3>2 DEF Stage
      <3>4. ~Has(Tail(t), "declare") /\ ~Has(Tail(t), "delete") /\ ~Has(Tail(t), "view")
        <4>1. ~Has(t, "declare")
          BY <2>2 DEF TodoOK, Has
        <4> QED
          BY <1>1, <1>2, <1>4, <2>2, <4>1
      <3>5. ViewStage(c, Tail(t), base) = AppliedLatest(base, c.view)
        BY <1>1, <1>4, <2>2, <3>4 DEF ViewStage, ViewEffect
      <3>6. /\ new.active = AppliedLatest(base, c.view).active
            /\ new.records = AppliedLatest(base, c.view).records
            /\ new.source = proto.source /\ new.project = proto.project
        BY <3>1, <3>3, LatestLooks
      <3> HIDE DEF new
      <3> QED
        BY <2>0, <2>2, <3>5, <3>6
    <2>3. CASE Head(t) = "view" /\ c.view.pin # Latest
      <3>1. new = AppliedPin(proto, c.view, record) /\ c.view \in ViewRequest
        BY <1>1, <2>3 DEF Whole, Changed, AppliedView, TodoOK
      <3>2. ~Has(t, "declare")
        <4> SUFFICES ASSUME NEW i \in DOMAIN t, t[i] = "declare" PROVE FALSE
          BY DEF Has
        <4>1. i + 1 \in DOMAIN t /\ t[i + 1] = t[1]
          BY <1>1, <2>3 DEF TodoOK
        <4>2. i + 1 = 1
          BY <1>1, <4>1 DEF TodoMore
        <4>3. i \in Nat /\ i > 0
          BY <1>1
        <4> QED
          BY <4>2, <4>3
      <3>3. ~Has(Tail(t), "declare") /\ ~Has(Tail(t), "delete") /\ ~Has(Tail(t), "view")
        BY <1>1, <1>2, <1>4, <2>3, <3>2
      <3>4. ViewStage(c, t, base) = Declared(base, c.view, record)
        BY <1>1, <1>4, <2>3, <3>2 DEF ViewStage
      <3>5. ViewStage(c, Tail(t), base) = AppliedPin(Declared(base, c.view, record), c.view, record)
        BY <1>1, <1>4, <2>3, <3>3 DEF ViewStage, ViewEffect
      <3>6. PICK d \in Proto : d = Declared(base, c.view, record)
        BY <2>3, <3>1, DeclaredIsConsistent
      <3>7. proto.records = d.records
        BY <3>4, <3>6 DEF Stage
      <3>8. /\ AppliedPin(proto, c.view, record).active = AppliedPin(d, c.view, record).active
            /\ AppliedPin(proto, c.view, record).records = proto.records
            /\ AppliedPin(d, c.view, record).records = d.records
            /\ AppliedPin(proto, c.view, record).source = proto.source
            /\ AppliedPin(proto, c.view, record).project = proto.project
        BY PinLooks
      <3> HIDE DEF new
      <3> QED
        BY <2>0, <2>3, <3>1, <3>5, <3>6, <3>7, <3>8
    <2>4. CASE Head(t) = "delete"
      <3>1. new = DeletedView(proto)
        BY <2>4 DEF Whole, Changed
      <3>2. ~Has(Tail(t), "declare") /\ ~Has(Tail(t), "delete") /\ ~Has(Tail(t), "view")
        BY <1>1, <1>2, <1>4, <2>4
      <3>3. ViewStage(c, Tail(t), base) = DeletedView(base)
        BY <1>1, <1>4, <2>4, <3>2 DEF ViewStage, ViewEffect
      <3> HIDE DEF new
      <3> QED
        BY <2>0, <2>4, <3>1, <3>3, DeleteLooks
    <2> QED
      BY <1>6, <2>1, <2>2, <2>3, <2>4
  <1>7. Head(t) \in ItemNames
    BY <1>1
  <1> QED
    BY <1>5, <1>6, <1>7 DEF ItemNames

\* Whoever is alone and not writing finds the registry of the completed calls.
LEMMA FileIsTruth ==
    ASSUME Typed, Orderly, NEW p \in Processes, Alone(p), pc[p] \notin {"down", "open", "write"}
    PROVE  file = truth /\ file \in Proto
  <1>1. TypeOK
    BY DEF Typed
  <1>2. file # NoFile
    BY <1>1 DEF TypeOK
  <1>3. \A q \in Processes : pc[q] # "write"
    BY DEF Alone, Resting
  <1> QED
    BY <1>1, <1>2, <1>3 DEF Orderly, TypeOK

\* A call that nothing of has been made finds it in its copy.
LEMMA NothingStaged ==
    ASSUME Typed, Orderly, NEW p \in Processes, NoneMade(todo[p], call[p])
    PROVE  Staged(p) <=> cache[p] = truth
  <1>1. call[p] \in Call /\ cache[p] \in Proto /\ truth \in Proto
    BY DEF Typed, ControlAt, TodoOK, TypeOK, NoneMade
  <1>2. AllLeft(todo[p], call[p], truth) /\ Good(truth)
    BY DEF Orderly, UseAt
  <1> QED
    BY <1>1, <1>2, AllLeftStage DEF Staged

\* A step that staged changes excuse from nothing is one of a call that has made none.
LEMMA NotStaged ==
    ASSUME Typed, NEW p \in Processes, StagedSoFar(p) = {}, call[p] # None, ~Resting(p)
    PROVE  NoneMade(todo[p], call[p])
  BY DEF StagedSoFar, NoneMade

\* The next stage of a call is reached when a change to the stage before is made.
LEMMA DoneUse ==
    ASSUME Typed, Orderly, NEW p \in Processes, ~Resting(p), NEW new, Done(p, new),
           todo[p] # <<>>, then[p] = "idle", pc[p] \notin {"open", "write"},
           UNCHANGED <<call, known, then, file, truth, behind, reading>>,
           Declaring(p)' => known[p] = VersionRecord(truth.records, call[p].view.pin),
           \/ Head(todo[p]) = "project" /\ Old(p)
           \/ Stage(call[p], Tail(todo[p]), truth, new),
           Head(todo[p]) = "source" /\ NoneMade(todo[p], call[p]) => Old(p) \/ cache[p] = file
    PROVE  UseAt(p)'
  <1> USE DEF Became, Goto
  <1> DEFINE t == todo[p]
  <1>1. /\ TypeOK /\ ControlAt(p) /\ call[p] \in Call /\ call[p] # None
        /\ TodoOK(t, call[p]) /\ TodoMore(t, call[p]) /\ t \in Seq(ItemNames)
    BY CallFields DEF Typed, Orderly, UseAt, ControlAt, TodoOK, TypeOK
  <1>2. TodoMore(Tail(t), call[p]) /\ ~NoneMade(Tail(t), call[p])
    BY <1>1, TailMore
  <1>3. /\ cache'[p] = new /\ todo'[p] = Tail(t)
        /\ Len(t) > 1 => pc'[p] = "prepare"
        /\ ~(Len(t) > 1) => Finish(p, new = cache[p])
    BY <1>1 DEF Done, TypeOK
  <1>4. 1 \in DOMAIN t /\ Head(t) = t[1]
    BY <1>1
  <1>5. Old(p)' = Old(p)
    BY DEF Old
  <1> HIDE DEF t
  <1>6. CASE Len(t) > 1
    <2>1. Old(p) \/ Stage(call[p], Tail(t), truth, new)
      BY DEF t
    <2> QED
      BY <1>2, <1>3, <1>5, <1>6, <2>1 DEF UseAt, Staged, Midway
  <1>7. CASE ~(Len(t) > 1)
    <2>1. Tail(t) = <<>> /\ Finish(p, new = cache[p])
      BY <1>1, <1>3, <1>7 DEF t
    <2>2. Stage(call[p], Tail(t), truth, new)
      BY <1>1, <1>4, <1>7 DEF TodoMore, t
    <2>3. CASE call[p].kind = "apply"
      <3>1. pc'[p] = "infra"
        BY <1>1, <2>1, <2>3 DEF Finish, TypeOK
      <3> QED
        BY <1>1, <1>2, <1>3, <2>1, <2>2, <2>3, <3>1 DEF UseAt, Staged, Midway
    <2>4. CASE call[p].kind = "source" /\ new = cache[p]
      <3>1. pc'[p] = "idle"
        BY <1>1, <2>1, <2>4 DEF Finish, TypeOK
      <3>2. Items(call[p]) = <<"source">>
        BY <1>1, <2>4, ItemsAre
      <3>3. Head(t) \in ItemNames
        BY <1>1, <1>4
      <3>4. Head(t) = "source"
        BY <1>1, <1>4, <2>4, <3>2, <3>3 DEF TodoMore, ItemNames
      <3>5. NoneMade(t, call[p])
        BY <3>2, <3>4 DEF NoneMade, t
      <3>6. Old(p) \/ cache[p] = file
        BY <3>4, <3>5 DEF t
      <3> QED
        BY <1>1, <1>2, <1>3, <1>5, <2>4, <3>1, <3>6 DEF UseAt, Midway
    <2>5. CASE call[p].kind # "apply" /\ ~(call[p].kind = "source" /\ new = cache[p])
      <3>1. pc'[p] = "open"
        BY <1>1, <2>1, <2>5 DEF Finish, TypeOK
      <3> QED
        BY <1>1, <1>2, <1>3, <2>1, <2>2, <3>1 DEF UseAt, Staged, Midway
    <2> QED
      BY <2>3, <2>4, <2>5
  <1> QED
    BY <1>6, <1>7

\* A step of a call keeps what its process knows.
LEMMA UseAtStep ==
    ASSUME Typed, Orderly, MessageInv', mishaps' = {}, mishaps = {}, mode = "sync",
           NEW p \in Processes, StepOf(p)
    PROVE  UseAt(p)'
  <1> USE DEF Became, Goto, Forget, Load, Reload, Midway
  <1>1. TypeOK /\ ControlAt(p) /\ UseAt(p) /\ Good(truth)
    BY DEF Typed, Orderly
  <1>2. Declaring(p)' => pc'[p] \in {"prepare", "modify"}
    BY DEF MessageInv, Excused, CopyAt
  <1>3. ~Resting(p) => Alone(p)
    BY DEF Orderly, Alone
  <1>a. \A c : TodoMore(<<>>, c) /\ ~NoneMade(<<>>, c)
    BY DEF TodoMore, NoneMade
  <1>b. todo[p] # <<>> => call[p] \in Call /\ call[p] # None
    BY <1>1, CallFields DEF ControlAt, TodoOK
  <1>4. CASE Start(p)
    <2>1. /\ pc[p] = "down" /\ then[p] = "idle" /\ todo' = todo /\ todo[p] = <<>> /\ call' = call
          /\ then' = then /\ truth' = truth /\ file' = file /\ call[p] = None
      BY <1>1, <1>4 DEF Start, ControlAt, UseAt
    <2>2. CASE file # NoFile
      <3>1. pc'[p] = "idle" /\ cache'[p] = file
        BY <1>1, <1>4, <2>2 DEF Start, TypeOK
      <3> QED
        BY <1>2, <1>a, <2>1, <3>1 DEF UseAt
    <2>3. CASE file = NoFile
      <3>1. pc'[p] = "open" /\ cache'[p] = EmptyProto
        BY <1>1, <1>4, <2>3 DEF Start, TypeOK
      <3>2. truth = EmptyProto
        BY <2>3 DEF Orderly
      <3> QED
        BY <1>2, <1>a, <2>1, <3>1, <3>2 DEF UseAt
    <2> QED
      BY <2>2, <2>3
  <1>5. CASE Crash(p)
    <2>1. pc'[p] = "down" /\ todo'[p] = <<>> /\ call'[p] = None
      BY <1>1, <1>5 DEF Crash, TypeOK
    <2> QED
      BY <1>2, <1>a, <2>1 DEF UseAt
  <1>6. CASE Begin(p)
    <2>1. PICK c \in Call :
            /\ call' = [call EXCEPT ![p] = c] /\ todo' = [todo EXCEPT ![p] = Items(c)]
            /\ pc' = [pc EXCEPT ![p] = IF c.kind = "diff" THEN "plan" ELSE "prepare"]
      BY <1>6, CallsAssumption DEF Begin
    <2>2. /\ call'[p] = c /\ todo'[p] = Items(c) /\ pc[p] = "idle" /\ truth' = truth /\ file' = file
          /\ pc'[p] \in {"plan", "prepare"} /\ cache' = cache /\ Old(p)' = Old(p)
      BY <1>1, <1>6, <2>1 DEF Begin, TypeOK, Old
    <2>3. Alone(p)
      BY <1>6 DEF Begin, Overlap
    <2>4. file = truth /\ (Old(p) \/ cache[p] = truth)
      BY <1>1, <2>2, <2>3, FileIsTruth DEF UseAt
    <2>5. TodoMore(Items(c), c) /\ NoneMade(Items(c), c) /\ AllLeft(Items(c), c, truth)
      BY ItemsMore DEF AllLeft
    <2>6. cache[p] = truth => Stage(c, Items(c), truth, cache[p])
      BY <1>1, <2>5, AllLeftStage DEF TypeOK
    <2>7. ~Declaring(p)'
      BY <2>2, ItemsOK DEF Declaring
    <2>8. (Old(p) \/ cache[p] = file) /\ (Old(p) \/ Stage(c, Items(c), truth, cache[p]))
      BY <1>1, <2>2, <2>4, <2>6 DEF UseAt
    <2> QED
      BY <2>2, <2>5, <2>7, <2>8 DEF UseAt, Staged
  <1>7. CASE Plan(p)
    <2>1. /\ pc[p] = "plan" /\ pc'[p] = "stat" /\ then'[p] = "infra" /\ call' = call
          /\ cache'[p] = file /\ file' = file /\ truth' = truth
          /\ todo'[p] = IF file.active = None /\ call[p].view = None THEN <<"source", "infra">>
                        ELSE todo[p]
      BY <1>1, <1>7 DEF Plan, TypeOK
    <2>2. /\ call[p].kind = "diff" /\ todo[p] # <<>> /\ call[p] \in Call
          /\ todo[p] = Items(call[p])
      BY <1>1, <1>b, <2>1 DEF ControlAt, UseAt
    <2>3. file = truth
      BY <1>3, <2>1, FileIsTruth DEF Resting
    <2>4. TodoMore(todo'[p], call[p]) /\ NoneMade(todo'[p], call[p]) /\ AllLeft(todo'[p], call[p], truth)
      BY <2>1, <2>2, <2>3, ItemsMore DEF AllLeft
    <2> QED
      BY <1>2, <2>1, <2>4 DEF UseAt
  <1>8. CASE Stat(p)
    <2>1. /\ pc[p] = "stat" /\ pc'[p] = then[p] /\ cache' = cache /\ file' = file /\ truth' = truth
          /\ then[p] \in {"idle", "infra", "prepared", "modify", "after"}
          /\ cache[p] = file
      BY <1>1, <1>8 DEF Stat, TypeOK, UseAt
    <2>2. file = truth
      BY <1>3, <2>1, FileIsTruth DEF Resting
    <2>3. CASE then[p] = "idle"
      <3>1. todo'[p] = <<>>
        BY <1>1, <1>8, <2>3 DEF Stat, TypeOK
      <3> QED
        BY <1>2, <1>a, <2>1, <2>3, <3>1 DEF UseAt
    <2>4. CASE then[p] # "idle"
      <3>1. todo' = todo /\ call' = call /\ known' = known
        BY <1>8, <2>4 DEF Stat
      <3>2. TodoMore(todo[p], call[p]) /\ (NoneMade(todo[p], call[p]) => AllLeft(todo[p], call[p], truth))
        BY <1>1 DEF UseAt
      <3>3. Declaring(p)' => known[p] = VersionRecord(truth.records, call[p].view.pin)
        BY <1>1, <3>1 DEF UseAt, Declaring
      <3>4. CASE then[p] = "infra"
        <4>1. NoneMade(todo[p], call[p]) /\ call[p].kind = "diff" /\ todo[p] # <<>>
          BY <1>1, <2>1, <3>4 DEF UseAt, ControlAt
        <4>2. Stage(call[p], todo[p], truth, cache[p])
          BY <2>1, <2>2, <4>1, NothingStaged DEF Staged
        <4> QED
          BY <1>b, <2>1, <3>1, <3>2, <3>3, <3>4, <4>1, <4>2 DEF UseAt, Staged
      <3>5. CASE then[p] = "prepared"
        <4>1. NoneMade(todo[p], call[p]) /\ Head(todo[p]) # "project"
          BY <1>1, <2>1, <3>5 DEF UseAt, Fresh
        <4> QED
          BY <2>1, <3>1, <3>2, <3>3, <3>5, <4>1 DEF UseAt, Fresh
      <3>6. CASE then[p] = "modify"
        <4>1. NoneMade(todo[p], call[p]) /\ cache[p].project
          BY <1>1, <2>1, <3>6 DEF UseAt, Fresh
        <4>2. Stage(call[p], todo[p], truth, cache[p])
          BY <2>1, <2>2, <4>1, NothingStaged DEF Staged
        <4> QED
          BY <2>1, <3>1, <3>2, <3>3, <3>6, <4>1, <4>2 DEF UseAt, Staged
      <3>7. CASE then[p] = "after"
        BY <2>1, <3>1, <3>2, <3>3, <3>7 DEF UseAt
      <3> QED
        BY <2>1, <2>4, <3>4, <3>5, <3>6, <3>7
    <2> QED
      BY <2>3, <2>4
  <1>9. CASE Prepare(p)
    <2>1. /\ pc[p] = "prepare" /\ call' = call /\ todo' = todo /\ Old(p)' = Old(p)
          /\ file' = file /\ truth' = truth /\ todo[p] # <<>>
          /\ Head(todo[p]) # "declare" => known'[p] = known[p]
      BY <1>1, <1>9 DEF Prepare, TypeOK, ControlAt, Old
    <2>2. TodoMore(todo[p], call[p]) /\ (NoneMade(todo[p], call[p]) => AllLeft(todo[p], call[p], truth))
      BY <1>1 DEF UseAt
    <2>3. Declaring(p)' => known'[p] = VersionRecord(truth.records, call[p].view.pin)
      BY <1>1, <2>1 DEF UseAt, Declaring
    <2>4. CASE /\ Head(todo[p]) = "project" \/ (~MustBeStale(p) /\ cache[p].project)
               /\ pc'[p] = "modify" /\ cache' = cache
      <3>1. Old(p) \/ Stage(call[p], todo[p], truth, cache[p])
        BY <1>1, <2>1 DEF UseAt, Staged
      <3>2. Head(todo[p]) # "project" => ~Old(p) /\ cache[p].project
        BY <2>4 DEF MustBeStale, Old
      <3> QED
        BY <2>1, <2>2, <2>3, <2>4, <3>1, <3>2 DEF UseAt, Staged
    <2>5. CASE /\ Head(todo[p]) # "project" /\ pc'[p] = "stat" /\ then'[p] = "prepared"
               /\ cache'[p] = file /\ mishaps' = mishaps \cup StagedSoFar(p)
      <3>1. NoneMade(todo[p], call[p])
        BY <1>b, <2>1, <2>5, NotStaged DEF Resting
      <3> QED
        BY <2>1, <2>2, <2>3, <2>5, <3>1 DEF UseAt, Fresh
    <2> QED
      BY <1>1, <1>9, <2>4, <2>5 DEF Prepare, TypeOK
  <1>10. CASE Prepared(p)
    <2>1. /\ pc[p] = "prepared" /\ call' = call /\ todo' = todo /\ known' = known
          /\ file' = file /\ truth' = truth
      BY <1>10 DEF Prepared
    <2>2. TodoMore(todo[p], call[p]) /\ (NoneMade(todo[p], call[p]) => AllLeft(todo[p], call[p], truth))
      BY <1>1 DEF UseAt
    <2>3. ~Declaring(p)' \/ known'[p] = VersionRecord(truth.records, call[p].view.pin)
      BY <1>1, <2>1 DEF UseAt, Declaring
    <2>4. NoneMade(todo[p], call[p]) /\ Head(todo[p]) # "project" /\ cache[p] = file
      BY <1>1, <2>1 DEF UseAt, Fresh
    <2>5. file = truth
      BY <1>3, <2>1, FileIsTruth DEF Resting
    <2>6. call[p] # None
      BY <1>b, <2>4 DEF NoneMade
    <2>7. CASE cache[p].project /\ pc'[p] = "modify" /\ cache' = cache
      <3>1. Stage(call[p], todo[p], truth, cache[p])
        BY <2>4, <2>5, NothingStaged DEF Staged
      <3> QED
        BY <2>1, <2>2, <2>3, <2>7, <3>1 DEF UseAt, Staged
    <2>8. CASE ~cache[p].project /\ pc'[p] = "open" /\ then'[p] = "modify"
               /\ cache'[p] = [file EXCEPT !.project = TRUE]
      BY <2>1, <2>2, <2>3, <2>4, <2>5, <2>6, <2>8 DEF UseAt, Fresh
    <2> QED
      BY <1>1, <1>10, <2>4, <2>7, <2>8 DEF Prepared, TypeOK
  <1>11. CASE Modify(p)
    <2> DEFINE t == todo[p]
               new == Changed(call[p], Head(t), cache[p], known[p])
    <2>1. /\ pc[p] = "modify" /\ file' = file /\ truth' = truth /\ behind' = behind
          /\ then' = then /\ then[p] = "idle" /\ t # <<>> /\ call[p] \in Call /\ call[p] # None
          /\ reading' = reading /\ ~Resting(p)
      BY <1>1, <1>11, <1>b DEF Modify, Fail, ControlAt, Resting
    <2>2. /\ TodoOK(t, call[p]) /\ TodoMore(t, call[p]) /\ t \in Seq(ItemNames)
          /\ cache[p] \in Proto /\ truth \in Proto /\ known[p] \in Defs \cup {None}
          /\ NoneMade(t, call[p]) => AllLeft(t, call[p], truth)
      BY <1>1 DEF ControlAt, UseAt, TypeOK
    <2>3. \/ Head(t) = "project" /\ Old(p)
          \/ Stage(call[p], t, truth, cache[p]) /\ (Head(t) # "project" => cache[p].project)
      BY <1>1, <2>1 DEF UseAt, Staged
    <2>4. file = truth
      BY <1>3, <2>1, FileIsTruth DEF Resting
    <2>5. NoneMade(t, call[p]) => Old(p) \/ cache[p] = file
      BY <2>3, <2>4, NothingStaged DEF Staged
    <2>6. CASE Raises(call[p], Head(t), cache[p], known[p])
      <3>1. Fail(p)
        BY <1>11, <2>6 DEF Modify
      <3>2. pc'[p] = "idle" /\ todo'[p] = <<>> /\ cache' = cache /\ StagedSoFar(p) = {}
        BY <1>1, <3>1 DEF Fail, TypeOK
      <3>3. NoneMade(t, call[p])
        BY <2>1, <3>2, NotStaged
      <3>4. Old(p)' = Old(p)
        BY <2>1 DEF Old
      <3> HIDE DEF t, new
      <3> QED
        BY <1>2, <1>a, <2>1, <2>5, <3>2, <3>3, <3>4 DEF UseAt
    <2>7. CASE ~Raises(call[p], Head(t), cache[p], known[p])
      <3>1. UNCHANGED <<call, known>> /\ ~Blind(p)
        BY <1>11, <2>7 DEF Modify
      <3>2. /\ Head(t) = "declare" => known[p] = VersionRecord(cache[p].records, call[p].view.pin)
            /\ Head(t) = "view" /\ call[p].view.pin # Latest =>
                 known[p] = VersionRecord(truth.records, call[p].view.pin)
        BY <1>1, <2>1, <3>1 DEF Blind, UseAt, Declaring
      <3>3. CASE Renews(call[p], Head(t), cache[p]) \/ Head(t) = "delete"
        <4>1. pc'[p] \in {"number", "clean"}
          BY <1>1, <1>11, <2>7, <3>3 DEF Modify, TypeOK
        <4>2. PICK o : o = cache[p]
          OBVIOUS
        <4>3. o \in Proto /\ Midpoint(p, o)' /\ todo' = todo
          BY <1>11, <4>1, <4>2, MidBegins
        <4>4. Head(t) # "project"
          BY <3>3 DEF Renews
        <4>5. Stage(call[p], t, truth, o) /\ o.project = TRUE
          BY <2>2, <2>3, <4>2, <4>4 DEF Proto
        <4> QED
          BY <1>2, <2>1, <2>2, <3>1, <4>1, <4>3, <4>5 DEF UseAt
      <3>4. CASE ~Renews(call[p], Head(t), cache[p]) /\ Head(t) # "delete"
        <4>1. Done(p, new)
          BY <1>11, <2>7, <3>4 DEF Modify
        <4>2. todo'[p] = Tail(t)
          BY <1>1, <4>1 DEF Done, TypeOK
        <4>3. 1 \in DOMAIN t /\ Head(t) = t[1]
          BY <2>1, <2>2
        <4>4. Declaring(p)' => known[p] = VersionRecord(truth.records, call[p].view.pin)
          <5> SUFFICES ASSUME Declaring(p)'
                       PROVE  known[p] = VersionRecord(truth.records, call[p].view.pin)
            OBVIOUS
          <5>1. Head(t) = "declare"
            BY <2>1, <2>2, <3>1, <4>2, TailOK DEF Declaring
          <5>2. ViewStage(call[p], t, truth) = truth
            BY <4>3, <5>1 DEF ViewStage, Has
          <5> QED
            BY <2>3, <3>2, <5>1, <5>2 DEF Stage
        <4>5. \/ Head(t) = "project" /\ Old(p)
              \/ Stage(call[p], Tail(t), truth, new)
          <5> SUFFICES ASSUME ~(Head(t) = "project" /\ Old(p))
                       PROVE  Stage(call[p], Tail(t), truth, new)
            OBVIOUS
          <5>1. Stage(call[p], t, truth, cache[p]) /\ (Head(t) # "project" => cache[p].project = TRUE)
            BY <2>2, <2>3 DEF Proto
          <5>2. new = Whole(call[p], Head(t), cache[p], known[p])
            BY <3>4 DEF Whole
          <5> HIDE DEF t, new
          <5>3. Stage(call[p], Tail(t), truth, Whole(call[p], Head(t), cache[p], known[p]))
            BY <2>1, <2>2, <3>2, <5>1, StageStep
          <5> QED
            BY <5>2, <5>3
        <4> HIDE DEF new
        <4> QED
          BY <2>1, <2>5, <3>1, <4>1, <4>4, <4>5, DoneUse
      <3> QED
        BY <3>3, <3>4
    <2> QED
      BY <2>6, <2>7
  <1>12. CASE Infra(p)
    <2>1. /\ pc[p] = "infra" /\ file' = file /\ truth' = truth /\ behind' = behind /\ cache' = cache
          /\ then[p] = "idle"
      BY <1>1, <1>12 DEF Infra, Fail, ControlAt
    <2>2. /\ call[p] # None /\ Stage(call[p], todo[p], truth, cache[p])
          /\ IF call[p].kind = "diff" THEN NoneMade(todo[p], call[p]) ELSE todo[p] = <<>>
      BY <1>1, <2>1 DEF UseAt, Staged
    <2>3. CASE Fail(p)
      <3>1. pc'[p] = "idle" /\ todo'[p] = <<>>
        BY <1>1, <2>3 DEF Fail, TypeOK
      <3>2. StagedSoFar(p) = {}
        BY <2>3 DEF Fail
      <3>3. NoneMade(todo[p], call[p])
        BY <2>1, <2>2, <3>2, NotStaged DEF Resting
      <3>4. cache[p] = file
        BY <1>3, <2>1, <2>2, <3>3, NothingStaged, FileIsTruth DEF Resting, Staged
      <3> QED
        BY <1>2, <1>a, <2>1, <3>1, <3>4 DEF UseAt
    <2>4. CASE ~Fail(p)
      <3>1. /\ call' = call /\ todo' = todo /\ known' = known
            /\ \/ call[p].kind = "diff" /\ pc'[p] = "prepare"
               \/ call[p].kind # "diff" /\ pc'[p] = "open" /\ then'[p] = "after"
        BY <1>1, <1>12, <2>4 DEF Infra, TypeOK
      <3>2. TodoMore(todo[p], call[p]) /\ (NoneMade(todo[p], call[p]) => AllLeft(todo[p], call[p], truth))
        BY <1>1 DEF UseAt
      <3>3. Declaring(p)' => known'[p] = VersionRecord(truth.records, call[p].view.pin)
        BY <1>1, <3>1 DEF UseAt, Declaring
      <3> QED
        BY <2>1, <2>2, <3>1, <3>2, <3>3 DEF UseAt, Staged
    <2> QED
      BY <2>3, <2>4
  <1>13. CASE Open(p)
    <2>1. /\ pc[p] = "open" /\ pc'[p] = "write" /\ then' = then /\ todo' = todo /\ call' = call
          /\ cache' = cache /\ writing'[p] = cache[p] /\ truth' = truth
      BY <1>1, <1>13 DEF Open, TypeOK
    <2> QED
      BY <1>1, <1>2, <2>1 DEF UseAt, Staged, Fresh
  <1>14. CASE Write(p)
    <2>1. /\ pc[p] = "write" /\ pc'[p] = "stat" /\ then' = then /\ todo' = todo /\ call' = call
          /\ cache' = cache /\ file' = cache[p] /\ writing[p] = cache[p]
      BY <1>1, <1>14 DEF Write, TypeOK, UseAt
    <2>2. TodoMore(todo[p], call[p]) /\ (NoneMade(todo[p], call[p]) => AllLeft(todo[p], call[p], truth))
      BY <1>1 DEF UseAt
    <2>3. CASE call[p] = None \/ then[p] # "modify"
      <3>1. todo[p] = <<>> /\ then[p] \in {"idle", "after"}
        BY <1>1, <1>b, <2>1, <2>3 DEF UseAt
      <3> QED
        BY <1>2, <1>a, <2>1, <3>1 DEF UseAt
    <2>4. CASE call[p] # None /\ then[p] = "modify"
      <3>1. NoneMade(todo[p], call[p]) /\ Head(todo[p]) # "project"
        BY <1>1, <2>1, <2>4 DEF UseAt, Fresh
      <3>2. truth' = [truth EXCEPT !.project = TRUE] /\ cache[p] = [truth EXCEPT !.project = TRUE]
        BY <1>1, <1>14, <2>1, <2>4 DEF Write, UseAt
      <3>3. truth'.active = truth.active /\ cache[p].project = TRUE
        BY <1>1, <3>2 DEF TypeOK, Proto
      <3>4. AllLeft(todo[p], call[p], truth')
        BY <2>2, <3>1, <3>3 DEF AllLeft
      <3> QED
        BY <1>2, <2>1, <2>2, <2>4, <3>1, <3>3, <3>4 DEF UseAt, Fresh
    <2> QED
      BY <2>3, <2>4
  <1>15. CASE After(p)
    <2>1. /\ pc'[p] = "stat" /\ then'[p] = "idle" /\ todo' = todo /\ call' = call
          /\ cache'[p] = file /\ file' = file /\ truth' = truth
      BY <1>1, <1>15 DEF After, TypeOK
    <2> QED
      BY <1>1, <1>2, <2>1 DEF UseAt
  <1>16. CASE ThreadLoads(p)
    <2>1. /\ pc' = pc /\ todo' = todo /\ call' = call /\ cache'[p] = file /\ file' = file
          /\ truth' = truth
      BY <1>1, <1>16 DEF ThreadLoads, TypeOK
    <2>2. pc[p] = "idle"
      BY <1>16 DEF ThreadLoads
    <2> QED
      BY <1>1, <1>2, <2>1, <2>2 DEF UseAt
  <1>17. CASE ThreadStats(p)
    <2>1. UNCHANGED <<pc, then, call, todo, known, cache, writing, file, truth, old, num, attached>>
      BY <1>17 DEF ThreadStats, local
    <2>2. ~Old(p)
      BY <1>17 DEF ThreadStats, Old
    <2>3. \A o : Midpoint(p, o)' <=> Midpoint(p, o)
      BY <2>1 DEF Midpoint
    <2> QED
      BY <1>1, <2>1, <2>2, <2>3 DEF UseAt, Staged, Fresh, Declaring
  <1>18. CASE Number(p) \/ SaveRecord(p)
    <2>1. pc[p] \in Midway
      BY <1>18 DEF Number, SaveRecord
    <2>2. PICK o \in Proto :
            Stage(call[p], todo[p], truth, o) /\ o.project = TRUE /\ Midpoint(p, o)
      BY <1>1, <2>1 DEF UseAt
    <2>3. /\ Midpoint(p, o)' /\ pc'[p] \in Midway
          /\ UNCHANGED <<call, known, todo, then, file, truth, behind, reading, writing>>
      BY <1>18, <2>2, MidStep
    <2> QED
      BY <1>1, <1>2, <2>2, <2>3 DEF UseAt
  <1>19. CASE AddView(p) \/ Clean(p)
    <2>1. pc[p] \in Midway
      BY <1>19 DEF AddView, Clean
    <2>2. PICK o \in Proto :
            Stage(call[p], todo[p], truth, o) /\ o.project = TRUE /\ Midpoint(p, o)
      BY <1>1, <2>1 DEF UseAt
    <2> DEFINE new == Whole(call[p], Head(todo[p]), o, known[p])
    <2>3. /\ Done(p, new) /\ todo[p] # <<>> /\ then[p] = "idle"
          /\ Head(todo[p]) = "delete" \/ (Head(todo[p]) = "view" /\ call[p].view.pin = Latest)
          /\ UNCHANGED <<call, known, then, file, truth, behind, reading, writing>>
      BY <1>19, <2>2, MidEnds
    <2>4. /\ TodoOK(todo[p], call[p]) /\ TodoMore(todo[p], call[p]) /\ truth \in Proto
          /\ known[p] \in Defs \cup {None} /\ call[p] \in Call
      BY <1>1, <1>b, <2>3 DEF ControlAt, UseAt, TypeOK
    <2>5. Stage(call[p], Tail(todo[p]), truth, new)
      BY <2>2, <2>3, <2>4, StageStep
    <2>6. ~Resting(p) /\ pc[p] \notin {"open", "write"}
      BY <2>1 DEF Resting
    <2> HIDE DEF new
    <2>7. todo'[p] = Tail(todo[p])
      BY <1>1, <2>3 DEF Done, TypeOK
    <2>8. ~Declaring(p)'
      BY <2>3, <2>4, <2>7, TailOK DEF Declaring
    <2> QED
      BY <2>3, <2>5, <2>6, <2>8, DoneUse
  <1> QED
    BY <1>4, <1>5, <1>6, <1>7, <1>8, <1>9, <1>10, <1>11, <1>12, <1>13, <1>14, <1>15, <1>16, <1>17,
       <1>18, <1>19
    DEF StepOf, Step

\* A process at rest learns from a write that the file is newer.
LEMMA RestingUse ==
    ASSUME Typed, Orderly, NEW q \in Processes, Resting(q), pc'[q] = pc[q], call'[q] = call[q],
           todo'[q] = todo[q], pc[q] = "idle" => Old(q)'
    PROVE  UseAt(q)'
  <1>1. todo[q] = <<>> /\ UseAt(q)
    BY DEF Typed, ControlAt, Orderly, Resting
  <1>2. \A c : TodoMore(<<>>, c) /\ ~NoneMade(<<>>, c)
    BY DEF TodoMore, NoneMade
  <1> QED
    BY <1>1, <1>2 DEF UseAt, Declaring, Resting, Midway

\* Before the first process starts.
LEMMA InitUse == ASSUME Init PROVE UseInv
  <1>1. Good(truth) /\ (file = NoFile => truth = EmptyProto) /\ (file # NoFile => file = truth)
    <2>1. PICK st \in Starts : file = st.file
      BY DEF Init
    <2>2. file = NoFile \/ Good(file)
      BY <2>1, StartsAssumption DEF Good
    <2> QED
      BY <2>2, EmptyIsGood DEF Init
  <1>2. ASSUME NEW p \in Processes PROVE UseAt(p)
    BY DEF Init, UseAt, TodoMore, NoneMade, Declaring, Midway
  <1> QED
    BY <1>1, <1>2 DEF Init, UseInv, Orderly, Resting

\* A step keeps the calls in order unless it is a mishap.
LEMMA UseStep == ASSUME Typed, MessageInv, MessageInv', UseInv, [Next]_vars PROVE UseInv'
  <1>1. CASE UNCHANGED vars
    <2>1. /\ pc' = pc /\ then' = then /\ call' = call /\ todo' = todo /\ known' = known
          /\ cache' = cache /\ behind' = behind /\ writing' = writing /\ file' = file
          /\ truth' = truth /\ mishaps' = mishaps /\ mode' = mode
          /\ old' = old /\ num' = num /\ attached' = attached /\ reading' = reading
      BY <1>1 DEF vars, memory, local
    <2>2. ASSUME NEW p \in Processes, UseAt(p) PROVE UseAt(p)'
      BY <2>1, <2>2 DEF UseAt, Staged, Fresh, Declaring, Old, Midpoint
    <2> QED
      BY <2>1, <2>2 DEF UseInv, Orderly, Resting, Old
  <1>2. ASSUME NEW p \in Processes, StepOf(p) PROVE UseInv'
    <2> SUFFICES ASSUME mishaps' = {}, mode' = "sync" PROVE Orderly'
      BY DEF UseInv
    <2>0. TypeOK
      BY DEF Typed
    <2>1. mishaps = {} /\ mode = "sync"
      <3>1. mishaps \subseteq mishaps' /\ mode' = mode
        BY <1>2, <2>0, MishapsGrow
      <3> QED
        BY <3>1
    <2>2. Orderly /\ UseAt(p) /\ Good(truth)
      BY <2>1 DEF UseInv, Orderly
    <2>3. UseAt(p)'
      BY <1>2, <2>1, <2>2, UseAtStep
    <2>4. Resting(p)' \/ Alone(p)
      <3>1. CASE Start(p)
        BY <3>1 DEF Start, Overlap
      <3>2. CASE Begin(p)
        BY <3>2 DEF Begin, Overlap
      <3>3. CASE ~Resting(p)
        BY <2>2, <3>3 DEF Orderly, Alone
      <3>4. CASE ThreadLoads(p) \/ ThreadStats(p) \/ Crash(p)
        BY <2>0, <2>2, <3>4 DEF ThreadLoads, ThreadStats, Crash, Goto, Resting, TypeOK, Orderly,
           Alone
      <3> QED
        BY <1>2, <3>1, <3>2, <3>3, <3>4 DEF StepOf, Step, Plan, Stat, Prepare, Prepared, Modify,
           Number, SaveRecord, AddView, Clean, Infra, Open, Write, After, Resting
    <2>5. ASSUME NEW q \in Processes, q # p
          PROVE  /\ pc'[q] = pc[q] /\ then'[q] = then[q] /\ call'[q] = call[q] /\ todo'[q] = todo[q]
                 /\ known'[q] = known[q] /\ cache'[q] = cache[q] /\ writing'[q] = writing[q]
                 /\ old'[q] = old[q] /\ num'[q] = num[q] /\ attached'[q] = attached[q]
                 /\ reading'[q] = reading[q]
      BY <1>2, <2>0, <2>5, Frame
    <2>6. ASSUME NEW q \in Processes, NEW r \in Processes, q # r
          PROVE  Resting(q)' \/ Resting(r)'
      <3>1. Resting(q) \/ Resting(r)
        BY <2>2, <2>6 DEF Orderly
      <3> QED
        BY <2>4, <2>5, <2>6, <3>1 DEF Resting, Alone
    <2>7. CASE Write(p)
      <3>1. /\ pc[p] = "write" /\ pc'[p] = "stat" /\ file' = writing[p] /\ writing[p] = cache[p]
            /\ cache[p] \in Proto /\ truth \in Proto
        BY <2>0, <2>2, <2>7 DEF Write, Goto, TypeOK, UseAt
      <3>2. truth' = cache[p]
        <4>1. CASE call[p] = None
          BY <2>2, <2>7, <3>1, <4>1 DEF Write, UseAt
        <4>2. CASE call[p] # None /\ then[p] = "modify"
          BY <2>1, <2>2, <2>7, <3>1, <4>2 DEF Write, UseAt
        <4>3. CASE call[p] # None /\ then[p] # "modify"
          <5>1. truth' = Effect(call[p], truth)
            BY <2>1, <2>7, <4>3 DEF Write
          <5>2. call[p] \in Call /\ Stage(call[p], <<>>, truth, cache[p])
            BY <2>0, <2>2, <3>1, <4>3 DEF UseAt, Staged, TypeOK
          <5> QED
            BY <3>1, <5>1, <5>2, DoneStage
        <4> QED
          BY <4>1, <4>2, <4>3
      <3>3. Good(writing[p])
        BY <2>1 DEF MessageInv, Excused, CopyAt
      <3>4. file' # NoFile /\ file' = truth' /\ Good(truth')
        BY <3>1, <3>2, <3>3, NoneAssumption
      <3>5. ASSUME NEW q \in Processes, q # p PROVE UseAt(q)' /\ Resting(q)
        <4>1. Resting(q) /\ (pc[q] = "idle" => Old(q))
          BY <2>2, <3>1, <3>5 DEF Orderly, Resting
        <4>2. ~reading[q]
          BY <2>7, <3>5 DEF Write, Straddled
        <4>3. behind'[q] = TRUE \/ behind'[q] = behind[q]
          BY <2>7 DEF Write, Touch
        <4>4. pc[q] = "idle" => Old(q)'
          BY <2>5, <3>5, <4>1, <4>2, <4>3 DEF Old
        <4> QED
          BY <2>2, <2>5, <3>5, <4>1, <4>4, RestingUse
      <3>6. ASSUME NEW q \in Processes PROVE pc'[q] # "write"
        BY <2>5, <3>1, <3>5 DEF Resting
      <3> QED
        BY <2>3, <2>6, <3>4, <3>5, <3>6 DEF Orderly
    <2>8. CASE Open(p)
      <3>1. pc[p] = "open" /\ pc'[p] = "write" /\ file' = EmptyProto /\ truth' = truth
        BY <2>0, <2>8 DEF Open, Goto, TypeOK
      <3>2. file' # NoFile
        BY <3>1, EmptyIsGood, NoneAssumption
      <3>3. ASSUME NEW q \in Processes, q # p PROVE UseAt(q)' /\ Old(q)' /\ Resting(q)
        <4>1. Resting(q)
          BY <2>2, <3>1, <3>3 DEF Orderly, Resting
        <4>2. ~reading[q]
          BY <2>8, <3>3 DEF Open, Straddled
        <4>3. Old(q)'
          BY <2>5, <2>8, <3>3, <4>2 DEF Open, Touch, Old
        <4> QED
          BY <2>2, <2>5, <3>3, <4>1, <4>3, RestingUse
      <3>4. ASSUME NEW q \in Processes, NEW r \in Processes, q # r, pc'[q] = "write",
                   pc'[r] = "idle"
            PROVE  Old(r)'
        BY <3>1, <3>3, <3>4
      <3> QED
        BY <2>2, <2>3, <2>6, <3>1, <3>2, <3>3, <3>4 DEF Orderly
    <2>9. CASE Quiet(p)
      <3>1. file' = file /\ truth' = truth
        BY <2>0, <2>9, QuietFile
      <3>2. ASSUME NEW q \in Processes, q # p PROVE behind'[q] = behind[q] /\ Old(q)' = Old(q)
        <4>1. behind'[q] = behind[q]
          BY <2>0, <2>9, <3>2, QuietFile
        <4> QED
          BY <2>5, <3>2, <4>1 DEF Old
      <3>3. ASSUME NEW q \in Processes, q # p PROVE UseAt(q)'
        <4>1. UseAt(q)
          BY <2>2 DEF Orderly
        <4>2. \A o : Midpoint(q, o)' <=> Midpoint(q, o)
          BY <2>5, <3>3 DEF Midpoint
        <4> QED
          BY <2>5, <3>1, <3>2, <3>3, <4>1, <4>2 DEF UseAt, Staged, Fresh, Declaring
      <3>4. pc'[p] = "write" \/ pc[p] # "write"
        <4> SUFFICES ASSUME pc[p] = "write" PROVE pc'[p] = "write"
          OBVIOUS
        <4>1. Crash(p) \/ ThreadLoads(p) \/ ThreadStats(p)
          BY <2>9 DEF Quiet, Start, Begin, Plan, Stat, Prepare, Prepared, Modify, Number,
             SaveRecord, AddView, Clean, Infra, After
        <4>2. ~Crash(p)
          BY DEF Crash
        <4> QED
          BY <4>1, <4>2 DEF ThreadLoads, ThreadStats
      <3>5. (\A q \in Processes : pc'[q] # "write") => \A q \in Processes : pc[q] # "write"
        BY <2>5, <3>4
      <3>6. ASSUME pc'[p] = "write" PROVE pc[p] = "write"
        <4> USE DEF Goto, TypeOK
        <4>1. ~Start(p) /\ ~Crash(p) /\ ~Begin(p)
          BY <2>0, <3>6 DEF Start, Crash, Begin
        <4>2. ~Plan(p) /\ ~Prepare(p) /\ ~Prepared(p)
          BY <2>0, <3>6 DEF Plan, Reload, Prepare, Prepared
        <4>3. ~Stat(p)
          BY <2>0, <2>2, <3>6 DEF Stat, UseAt
        <4>4. ~Modify(p)
          BY <2>0, <3>6 DEF Modify, Fail, Done, Finish
        <4>5. ~Number(p)
          BY <2>0, <3>6 DEF Number
        <4>6. ~SaveRecord(p)
          BY <2>0, <3>6 DEF SaveRecord
        <4>7. ~AddView(p) /\ ~Clean(p)
          BY <2>0, <3>6 DEF AddView, Clean, Done, Finish
        <4>8. ~Infra(p) /\ ~After(p)
          BY <2>0, <3>6 DEF Infra, Fail, After, Reload
        <4>9. ThreadLoads(p) \/ ThreadStats(p)
          BY <2>9, <4>1, <4>2, <4>3, <4>4, <4>5, <4>6, <4>7, <4>8 DEF Quiet
        <4> QED
          BY <3>6, <4>9 DEF ThreadLoads, ThreadStats
      <3>7. ASSUME NEW q \in Processes, NEW r \in Processes, q # r, pc'[q] = "write",
                   pc'[r] = "idle"
            PROVE  Old(r)'
        <4>1. pc[q] = "write"
          BY <2>5, <3>6, <3>7
        <4>2. CASE r # p
          BY <2>2, <2>5, <3>2, <3>7, <4>1, <4>2 DEF Orderly
        <4>3. CASE r = p
          <5>1. Resting(p) /\ ~Alone(p) /\ (pc[p] = "idle" => Old(p))
            BY <2>2, <3>7, <4>1, <4>3 DEF Orderly, Resting, Alone
          <5>2. ~Start(p) /\ ~Begin(p)
            BY <5>1 DEF Start, Begin, Overlap
          <5>3. ~Crash(p)
            BY <2>0, <3>7, <4>3 DEF Crash, Goto, TypeOK
          <5>4. ~ThreadLoads(p)
            BY <4>1 DEF ThreadLoads
          <5>5. ~ThreadStats(p)
            <6> SUFFICES ASSUME ThreadStats(p) PROVE FALSE
              OBVIOUS
            <6>1. pc[p] = "idle" /\ reading[p]
              BY <3>7, <4>3 DEF ThreadStats
            <6> QED
              BY <5>1, <6>1 DEF Old
          <5> QED
            BY <2>9, <5>1, <5>2, <5>3, <5>4, <5>5 DEF Quiet, Plan, Stat, Prepare, Prepared, Modify,
               Number, SaveRecord, AddView, Clean, Infra, After, Resting
        <4> QED
          BY <4>2, <4>3
      <3> QED
        BY <2>2, <2>3, <2>6, <3>1, <3>3, <3>5, <3>7 DEF Orderly
    <2> QED
      BY <1>2, <2>7, <2>8, <2>9, Steps
  <1> QED
    BY <1>1, <1>2 DEF Next, StepOf

--------------------------------------------------------------------------------
(* The theorems *)

\* The initial states.
LEMMA InitOK == ASSUME Init PROVE Typed /\ MessageInv
  <1>1. file = NoFile \/ (file \in Proto /\ Good(file))
    <2>1. PICK st \in Starts : file = st.file
      BY DEF Init
    <2> QED
      BY <2>1, StartsAssumption DEF Good
  <1>2. EmptyProto \in Proto /\ Good(EmptyProto)
    BY EmptyIsGood
  <1>3. \A c : TodoOK(<<>>, c)
    BY DEF TodoOK
  <1>4. \A p \in Processes : ControlAt(p)
    BY <1>3 DEF Init, ControlAt, Midway, Renewing
  <1>5. TypeOK
    <2>1. truth \in Proto
      BY <1>1, <1>2, NoneAssumption DEF Init
    <2>2. /\ file \in Proto \cup {NoFile}
          /\ cache \in [Processes -> Proto] /\ writing \in [Processes -> Proto]
      BY <1>1, <1>2 DEF Init
    <2>3. /\ behind \in [Processes -> BOOLEAN]
          /\ pc \in [Processes -> PcValues] /\ then \in [Processes -> PcValues]
      BY DEF Init, PcValues
    <2>4. /\ call \in [Processes -> Call \cup {None}] /\ todo \in [Processes -> Seq(ItemNames)]
          /\ known \in [Processes -> Defs \cup {None}]
      BY DEF Init
    <2>5. /\ left \in Nat /\ mode \in {"sync", "thread"}
          /\ mishaps \subseteq {"overlap", "fault", "reload", "lookup"}
      <3>1. PICK st \in Starts : mode = st.mode /\ left = st.bound
        BY DEF Init
      <3> QED
        BY <3>1, StartsAssumption DEF Init
    <2>6. \A p \in Processes : pc[p] = "down"
      BY DEF Init
    <2>7. /\ old \in [Processes -> [def : Defs, pin : Pins \cup {Latest}] \cup {None}]
          /\ num \in [Processes -> Nat]
          /\ attached \in [Processes -> BOOLEAN] /\ reading \in [Processes -> BOOLEAN]
      BY DEF Init
    <2> QED
      BY <2>1, <2>2, <2>3, <2>4, <2>5, <2>6, <2>7 DEF TypeOK, Midway
  <1>6. \A p \in Processes : CopyAt(p)
    BY <1>2 DEF Init, CopyAt, Declaring, Midway
  <1> QED
    BY <1>1, <1>4, <1>5, <1>6 DEF Typed, MessageInv

\* The variables of the file registry keep their types: a process at a change of its
\* call has one, and a missing file is missed by nobody who would read it.
THEOREM TypeCorrect == Spec => []TypeOK
  <1>1. Init => Typed
    BY InitOK
  <1>2. Typed /\ [Next]_vars => Typed'
    BY TypedStep
  <1>3. Typed => TypeOK
    BY DEF Typed
  <1> QED
    BY <1>1, <1>2, <1>3, PTL DEF Spec

\* Whatever calls overlap, fail, crash in the middle of a write or publish what another
\* has left behind, a message in the file or in a copy has one record of a version, and a
\* pinned view is that record, unless an explicit version was looked up in an old copy or
\* a thread has read the file while a call of its process was changing the copy: then the
\* number may come from one message and the records from another.
THEOREM HistoriesAreConsistent == Spec => []HistoryConsistent
  <1>1. Init => Typed /\ MessageInv
    BY InitOK
  <1>2. Typed /\ MessageInv /\ [Next]_vars => (Typed /\ MessageInv)'
    BY TypedStep, MessageStep
  <1>3. Typed /\ MessageInv => HistoryConsistent
    <2> SUFFICES ASSUME Typed, MessageInv, ~Excused
                 PROVE  (file # NoFile => Consistent(file)) /\ \A p \in Processes : Consistent(cache[p])
      BY DEF HistoryConsistent, Excused
    <2>1. file # NoFile => Consistent(file)
      BY DEF MessageInv, Good
    <2>2. ASSUME NEW p \in Processes PROVE Consistent(cache[p])
      <3>1. CopyAt(p)
        BY DEF MessageInv
      <3>2. CASE pc[p] \in Midway
        <4>1. PICK o \in Proto : Good(o) /\ Midpoint(p, o)
          BY <3>1, <3>2 DEF CopyAt
        <4> QED
          BY <3>2, <4>1, MidIsConsistent
      <3>3. CASE pc[p] \notin Midway
        BY <3>1, <3>3 DEF CopyAt, Good
      <3> QED
        BY <3>2, <3>3
    <2> QED
      BY <2>1, <2>2
  <1> QED
    BY <1>1, <1>2, <1>3, PTL DEF Spec

\* In sync mode the calls that do not overlap, fail or reload what they have staged compose
\* if no read of another thread, which takes the file's time after its content, overlaps a
\* call of its process or a commit:
\* each starts from what the ones before it have committed, in whatever process, and the
\* file holds the effect of all of them, one after the other.
THEOREM SequentialCallsCompose == Spec => []SequentialUse
  <1> DEFINE Inv == Typed /\ MessageInv /\ UseInv
  <1>1. Init => Inv
    BY InitOK, InitUse
  <1>2. Inv /\ [Next]_vars => Inv'
    BY TypedStep, MessageStep, UseStep
  <1>3. Inv => SequentialUse
    <2> SUFFICES ASSUME UseInv, mishaps = {}, mode = "sync", file # NoFile,
                        \A p \in Processes : Resting(p)
                 PROVE  file = truth
      BY DEF SequentialUse
    <2> QED
      BY DEF UseInv, Orderly, Resting
  <1> QED
    BY <1>1, <1>2, <1>3, PTL DEF Spec
================================================================================
