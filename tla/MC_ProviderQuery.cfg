\* A GetBlocks loop and the GetBlock that getBlocksOfProviders starts for
\* an announced cid both search c1, with the rebroadcast worker, on a
\* findKeys channel of capacity 1 so that senders block.
CONSTANTS
    c1 = c1  c2 = c2  r1 = r1  r2 = r2  p1 = p1
    Cids = {c1, c2}
    Keys <- KeysProvider
    FindKeysCap = 1
    RB = RB
    NoBlk = NoBlk
    ProvReqs = {p1}
    AddProvsCap = 1
SPECIFICATION FairSpec
INVARIANT TypeOK
INVARIANT OneSearchPerCid
PROPERTY FindRequestAccepted
\* The process stops for good after the teardown; it also stops when the
\* rebroadcast worker blocks on the full findKeys after the query manager
\* returned, which run pq_close_hangs reports through CloseCompletes.
CHECK_DEADLOCK FALSE
