----------------------------- MODULE CatalogAtomic -----------------------------
(***************************************************************************)
(* What the data catalog promises the users of its collections: whatever   *)
(* the requests that run at the same time, a collection is created, given  *)
(* a property, dropped, or given or rid of an asset in one step, and that  *)
(* step finds the collection as its answer says it was.                    *)
(***************************************************************************)
CONSTANTS Collections, Displays, Labels, Props, Default, Absent

VARIABLES namespaces, labels, assets

vars == <<namespaces, labels, assets>>

Assets == Collections \X Displays

Empty(k) == \A d \in Displays : <<k, d>> \notin assets

\* Every asset is in a collection that exists.
Init ==
    /\ namespaces \in [Collections -> (SUBSET Props) \cup {Absent}]
    /\ labels \in SUBSET Labels
    /\ assets \in SUBSET Assets
    /\ \A a \in assets : namespaces[a[1]] # Absent \/ a[1] = Default

Create(k) ==
    /\ namespaces[k] = Absent /\ Empty(k) /\ k # Default
    /\ \E P \in SUBSET Props : namespaces' = [namespaces EXCEPT ![k] = P]
    /\ UNCHANGED <<labels, assets>>

Drop(k) ==
    /\ namespaces[k] # Absent /\ Empty(k)
    /\ namespaces' = [namespaces EXCEPT ![k] = Absent]
    /\ UNCHANGED <<labels, assets>>

\* One property is set or removed, the others stay.
Properties(k) ==
    /\ namespaces[k] # Absent \/ ~Empty(k) \/ k = Default
    /\ LET old == IF namespaces[k] = Absent THEN {} ELSE namespaces[k]
       IN \E p \in Props :
            \/ namespaces' = [namespaces EXCEPT ![k] = old \cup {p}]
            \/ namespaces' = [namespaces EXCEPT ![k] = old \ {p}]
    /\ UNCHANGED <<labels, assets>>

Label(l) ==
    /\ labels' = labels \cup {l} \/ labels' = labels \ {l}
    /\ UNCHANGED <<namespaces, assets>>

Asset(a) ==
    /\ assets' = assets \cup {a} \/ assets' = assets \ {a}
    /\ UNCHANGED <<namespaces, labels>>

Next ==
    \/ \E k \in Collections : Create(k) \/ Drop(k) \/ Properties(k)
    \/ \E l \in Labels : Label(l)
    \/ \E a \in Assets : Asset(a)

Spec == Init /\ [][Next]_vars
================================================================================
