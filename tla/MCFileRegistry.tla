----------------------------- MODULE MCFileRegistry -----------------------------
(* FileRegistry for TLC: the calls of the runs. *)
EXTENDS FileRegistry, TLC

CONSTANTS p1, p2

View(d, v, promote) == [def |-> d, pin |-> v, promote |-> promote]

Apply == [kind |-> "apply", value |-> 1, view |-> View(2, Latest, TRUE)]

\* One process applies, or deletes the view with feast apply; the other one
\* applies an explicit version.
MCCalls ==
    (p1 :> {Apply, [kind |-> "diff", value |-> 2, view |-> None]})
    @@ (p2 :> {[kind |-> "view", view |-> View(1, 1, TRUE)]})

MCApply == (p1 :> {Apply})

\* A file that has seen one apply.
Applied == [project |-> TRUE, source |-> 2, active |-> [def |-> 1, pin |-> Latest],
            records |-> <<[ver |-> 0, def |-> 1]>>]

MCStarts == {[file |-> Applied, mode |-> "sync", bound |-> 2],
             [file |-> Applied, mode |-> "thread", bound |-> 2],
             [file |-> NoFile, mode |-> "sync", bound |-> 1]}

MCStart == {[file |-> Applied, mode |-> "sync", bound |-> 1]}
================================================================================
