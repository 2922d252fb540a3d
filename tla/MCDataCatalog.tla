----------------------------- MODULE MCDataCatalog -----------------------------
(* DataCatalog for TLC. *)
EXTENDS DataCatalog, TLC

Symmetry == Permutations(Clients) \cup Permutations(Displays) \cup Permutations(Props)
================================================================================
