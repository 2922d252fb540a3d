---------------------- MODULE MCSqlFeatureViewVersions ----------------------
(* Model-checking instances of SqlFeatureViewVersions. *)
EXTENDS SqlFeatureViewVersions, TLC

Symmetry == Permutations(Clients) \cup Permutations(Schemas) \cup Permutations(Metas)
===============================================================================
