CONSTANTS
    u1 = u1  u2 = u2  none = none  s1 = s1  s2 = s2  s0 = s0
    BlockSize = 2
    ByteBits = 2
    Md5 <- Md5Of
    Sha <- ShaOf
    NoData = NoData
    UserKeys = {u1, u2}
    NoKey = none
    ChunkSeqs <- SmallFiles
    Confs <- AllConfs
    Admissible <- DirKeyAdmissible
    BlockSizeLimit = 4
    Maxlinks = 1
    Err = Err  Panic = Panic  Denied = Denied
SPECIFICATION Spec
INVARIANT GetMatchesAccess
\* An add ends when its layout returns or fails, and a get of it ends the
\* behaviour; files of several leaves are not read back.
CHECK_DEADLOCK FALSE
