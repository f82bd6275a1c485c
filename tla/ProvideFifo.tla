---------------------------- MODULE ProvideFifo ----------------------------
(***************************************************************************)
(* What the provide pipeline of bitswap promises (spec "provide queue"):   *)
(* every block identifier handed to it by a block receipt is announced to  *)
(* the routing layer exactly as often as it was handed in, in the order it *)
(* was handed in, and eventually, as long as the node is not shutting      *)
(* down.  Once shutdown has begun, any of the identifiers still queued may *)
(* be dropped.                                                             *)
(***************************************************************************)
EXTENDS Naturals, Sequences, FiniteSets

CONSTANTS Cids

VARIABLES queue,     \* identifiers handed in and not yet announced, oldest first
          started,   \* identifiers whose announcement has started, in order
          stopping   \* shutdown has begun

avars == <<queue, started, stopping>>

Init == /\ queue = <<>>
        /\ started = <<>>
        /\ stopping = FALSE

Submit(c) == /\ queue' = Append(queue, c)
             /\ UNCHANGED <<started, stopping>>

Start == /\ queue # <<>>
         /\ started' = Append(started, Head(queue))
         /\ queue' = Tail(queue)
         /\ UNCHANGED stopping

Stop == /\ ~stopping
        /\ stopping' = TRUE
        /\ UNCHANGED <<queue, started>>

\* The sequences obtained from s by deleting elements, order kept.
Sublists(s) ==
    LET Pick(D) == [j \in 1..Cardinality(D) |->
                      s[CHOOSE i \in D : Cardinality({k \in D : k <= i}) = j]]
    IN  {Pick(D) : D \in SUBSET DOMAIN s}

\* Any selection of the queued identifiers may be lost after shutdown began.
Drop == /\ stopping
        /\ queue' \in Sublists(queue) \ {queue}
        /\ UNCHANGED <<started, stopping>>

Next == (\E c \in Cids : Submit(c)) \/ Start \/ Stop \/ Drop

Spec == Init /\ [][Next]_avars

\* While the node runs, a queued identifier is eventually announced.
FairSpec == Spec /\ WF_avars(~stopping /\ Start)
=============================================================================
