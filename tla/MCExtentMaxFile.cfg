SPECIFICATION Spec
CONSTANTS
    BLOCK_NUM = 11
    BPB = 11
    INODE_NUM = 3
    IPB = 2
    WORDS = 2
    NDIRECT = 1
    Version = {0, 1}
    Id = {0, 2, 3, 9}
    IdMod = 8
    MaxPut = 3
PROPERTY ImplementsStore
