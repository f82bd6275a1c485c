---------------------------- MODULE MC_BitswapGet ----------------------------
(* Instances of BitswapGet for TLC.  Two GetBlocks calls share c1, so a    *)
(* receipt of c1 is published to both and their cancels interleave.       *)
EXTENDS BitswapGet

CONSTANTS c1, c2, r1, r2, p1, p2

\* r1 = GetBlocks(<<c1, c2>>), r2 = GetBlocks(<<c1>>)
KeysTwoCalls == (r1 :> <<c1, c2>>) @@ (r2 :> <<c1>>)
\* the peers serve c1 only: c2 is a key nobody has
HoldsC1 == [p \in Peers |-> {c1}]
=============================================================================
