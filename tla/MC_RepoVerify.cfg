\* Two workers, three blocks of which b2 is corrupt, a --timeout that may
\* pass at any point, and an Emit that may fail.
CONSTANTS
    b1 = b1  b2 = b2  b3 = b3  w1 = w1  w2 = w2
    Blocks <- ThreeBlocks
    Corrupt = {b2}
    Workers = {w1, w2}
    TimeoutOpt = TRUE
SPECIFICATION FairSpec
INVARIANT NoSendOnClosed
PROPERTY VerifyEnds
\* The command and all its goroutines stop once it has returned.
CHECK_DEADLOCK FALSE
