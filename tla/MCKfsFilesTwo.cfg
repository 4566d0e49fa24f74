SPECIFICATION Spec
CONSTANTS
    t1 = t1
    t2 = t2
    Task = {t1, t2}
    inode_count = 3
    total_blocks = 4
    NDIRECT = 2
    NINDIRECT = 0
    BLOCK_SIZE = 2
    Path <- Nested
    Flags <- CreateOrTrunc
    MaxWrite = 1
    OPEN_INODES = 1
    Seek = {}
SYMMETRY Interchangeable
INVARIANTS NamedOnce TreeSound CountExact HandlesPinned
