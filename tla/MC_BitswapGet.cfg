\* The requesting side under fairness: two calls sharing c1, one peer that
\* serves c1, one network message and a local HasBlock of c1, so that c1
\* can be received twice and a receipt races a local add; a Put may fail.
\* Nobody has c2, so r1 waits until it is cancelled or bitswap closes.
CONSTANTS
    c1 = c1  c2 = c2  r1 = r1  r2 = r2  p1 = p1  p2 = p2
    Cids = {c1, c2}
    Peers = {p1}
    Keys <- KeysTwoCalls
    Holds <- HoldsC1
    Local = {c1}
    PutMayFail = TRUE
    MaxMsgs = 1
    NoBlk = NoBlk
SPECIFICATION FairSpec
INVARIANT TypeOK
INVARIANT DeliveredOnce
INVARIANT WantlistIsRemaining
PROPERTY ArrivalReachesCaller
PROPERTY CancelledRequestEnds
PROPERTY CloseEndsLoops
INVARIANT DeliveredIsStored
