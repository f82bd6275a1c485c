--------------------------- MODULE MC_ProvideQueue ---------------------------
(* Model of the provide pipeline for TLC: two cids, four receipts (so a   *)
(* cid can be handed over twice), every channel and the semaphore of size  *)
(* one so that each of them fills up.                                      *)
EXTENDS ProvideQueue

CONSTANTS c1, c2
=============================================================================
