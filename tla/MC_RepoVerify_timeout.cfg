\* The deadline of --timeout passes while the blocks are being verified.
CONSTANTS
    b1 = b1  b2 = b2  b3 = b3  w1 = w1  w2 = w2
    Blocks <- ThreeBlocks
    Corrupt = {b2}
    Workers = {w1, w2}
    TimeoutOpt = TRUE
SPECIFICATION Spec
INVARIANT ValidatedMeansAll
\* The command and all its goroutines stop once it has returned.
CHECK_DEADLOCK FALSE
