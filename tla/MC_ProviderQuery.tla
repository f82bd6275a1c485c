--------------------------- MODULE MC_ProviderQuery ---------------------------
(* Instances of ProviderQuery for TLC.                                    *)
EXTENDS ProviderQuery

CONSTANTS c1, c2, r1, r2, p1

\* r1 = GetBlocks(<<c1, c2>>), r2 = GetBlocks(<<c1>>): both search c1
KeysTwoCalls == (r1 :> <<c1, c2>>) @@ (r2 :> <<c1>>)

\* r1 = GetBlocks(<<c1, c2>>) and p1, the GetBlock of an announced c1 that
\* getBlocksOfProviders starts: both search c1
KeysProvider == (r1 :> <<c1, c2>>) @@ (p1 :> <<c1>>)
=============================================================================
