\* Run provide_fifo: the provide pipeline implements ProvideFifo.
CONSTANTS
    c1 = c1
    c2 = c2
    Cids = {c1, c2}
    MaxSubmits = 4
    NewBlocksCap = 1
    ProvideKeysCap = 1
    ProvideMax = 1
    NoKey = NoKey
SPECIFICATION FairSpec
INVARIANT TypeOK
PROPERTY ProvideInOrder
\* Once both shutdown triggers have fired every goroutine returns and the
\* process stops, and the receipts are bounded by MaxSubmits: the final
\* states have no successor by design.
CHECK_DEADLOCK FALSE
