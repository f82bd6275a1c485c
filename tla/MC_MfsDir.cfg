\* Two goroutines making three calls each on P and its child "c"; at most
\* two Directory objects for "c" and one AddChild into each.
CONSTANTS
    t1 = t1  t2 = t2
    Threads = {t1, t2}
    MaxOps = 3
    MaxObjs = 2
    MaxVer = 1
    Key = Key  NoKey = NoKey  None = None
SPECIFICATION FairSpec
INVARIANT CacheIsLinked
PROPERTY CallsReturn ChildKeepsParentKey
\* The goroutines stop once they have made their calls.
CHECK_DEADLOCK FALSE
