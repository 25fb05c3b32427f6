--------------------------- MODULE EmbeddingSwapMC ---------------------------
EXTENDS EmbeddingSwap
(* Model values of the instances: models a, b, c and rows r1, r2.           *)
CONSTANTS a, b, c, r1, r2
==============================================================================
