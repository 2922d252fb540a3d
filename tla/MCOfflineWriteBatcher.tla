------------------------- MODULE MCOfflineWriteBatcher -------------------------
(* Model-checking instances of the offline write batcher.                       *)
EXTENDS OfflineWriteBatcher

CONSTANTS main, worker, bg

MCTwoProducers == {main, worker}
================================================================================
