\* Close while GetBlocks loops still send on findKeys (capacity 1).
CONSTANTS
    c1 = c1  c2 = c2  r1 = r1  r2 = r2  p1 = p1
    Cids = {c1, c2}
    Keys <- KeysTwoCalls
    FindKeysCap = 1
    RB = RB
    NoBlk = NoBlk
    ProvReqs = {}
    AddProvsCap = 1
SPECIFICATION FairSpec
PROPERTY CloseCompletes
CHECK_DEADLOCK FALSE
