SPECIFICATION Spec
CONSTANTS
    t1 = t1
    t2 = t2
    Task = {t1}
    inode_count = 3
    total_blocks = 5
    NDIRECT = 2
    NINDIRECT = 1
    BLOCK_SIZE = 2
    Path <- Tree
    Flags <- Everything
    MaxWrite = 2
    OPEN_INODES = 2
    Seek <- Around
INVARIANTS TypeOK BitmapExact TreeSound
