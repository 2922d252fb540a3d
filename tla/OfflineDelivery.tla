---------------------------- MODULE OfflineDelivery ----------------------------
(***************************************************************************)
(* What the offline write batcher promises its callers: per batch key, the *)
(* frames that were accepted reach the offline store in the order in which *)
(* they were accepted, in batches, none skipped and none delivered twice.  *)
(***************************************************************************)
EXTENDS Naturals, Sequences

CONSTANTS Keys, Frame

VARIABLES accepted, delivered

vars == <<accepted, delivered>>

Init ==
    /\ accepted = [k \in Keys |-> <<>>]
    /\ delivered = [k \in Keys |-> <<>>]

Accept(k) ==
    /\ \E f \in Frame : accepted' = [accepted EXCEPT ![k] = Append(@, f)]
    /\ UNCHANGED delivered

\* One batch: a non-empty run of frames that extends what was delivered.
Deliver(k) ==
    /\ \E n \in (Len(delivered[k]) + 1) .. Len(accepted[k]) :
         delivered' = [delivered EXCEPT ![k] = SubSeq(accepted[k], 1, n)]
    /\ UNCHANGED accepted

Next == \E k \in Keys : Accept(k) \/ Deliver(k)

Spec == Init /\ [][Next]_vars
================================================================================
