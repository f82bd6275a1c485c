---------------------------- MODULE MC_RepoVerify ----------------------------
(* Instances of RepoVerify for TLC.                                       *)
EXTENDS RepoVerify

CONSTANTS b1, b2, b3, w1, w2

\* three blocks in the order AllKeysChan yields them
ThreeBlocks == <<b1, b2, b3>>
=============================================================================
