---------------------------- MODULE BlockManager ----------------------------
(***************************************************************************)
(* The block layer of the extent server (inode_manager.cc): a disk of      *)
(* BLOCK_NUM blocks and the bitmap of the blocks in use.  A block is an    *)
(* array of WORDS words, for it may hold block numbers; what a file stores *)
(* is words too, and is never a block number (DataWord).                   *)
(***************************************************************************)
EXTENDS Integers, FiniteSets

CONSTANTS BLOCK_NUM,   \* blocks of the disk
          BPB,         \* bitmap bits per block
          INODE_NUM,   \* inodes of the inode table
          IPB,         \* inodes per block
          WORDS        \* words in a block

VARIABLES block_bitmap,   \* the marked bits
          disk,           \* the blocks
          full            \* history: alloc_block has found no free block

blockVars == <<block_bitmap, disk, full>>

BlockId == 0..(BLOCK_NUM - 1)
Block == [0..(WORDS - 1) -> Nat]
ZeroBlock == [k \in 0..(WORDS - 1) |-> 0]

-----------------------------------------------------------------------------
(***************************************************************************)
(* The layout: boot sector, super block, bitmap, inode table, data.        *)
(***************************************************************************)
CeilDiv(a, b) == (a + b - 1) \div b

\* Faulty variant: one block fewer is marked for the inode table.
ReservedShort ==
    {0, 1} \cup {2 + i : i \in 0..(CeilDiv(BLOCK_NUM, BPB) - 1)}
           \cup {2 + CeilDiv(BLOCK_NUM, BPB) + i : i \in 0..(CeilDiv(INODE_NUM, IPB) - 1)}

\* What the constructor of block_manager marks.
Reserved ==
    {0, 1} \cup {2 + i : i \in 0..(CeilDiv(BLOCK_NUM, BPB) - 1)}
           \cup {2 + CeilDiv(BLOCK_NUM, BPB) + i : i \in 0..CeilDiv(INODE_NUM, IPB)}

\* The block of inode i.
IBLOCK(i) == BLOCK_NUM \div BPB + i \div IPB + 3

\* The constants are those of inode_manager.h, where the disk has room for the
\* file system: 2 + 8 + 342 is less than 32768.
ASSUME LayoutAssumption ==
    /\ {BLOCK_NUM, BPB, INODE_NUM, IPB, WORDS} \subseteq Nat \ {0}
    /\ 2 + CeilDiv(BLOCK_NUM, BPB) + CeilDiv(INODE_NUM, IPB) < BLOCK_NUM

BlockInit ==
    /\ block_bitmap = Reserved \cap BlockId
    /\ disk = [b \in BlockId |-> ZeroBlock]
    /\ full = FALSE

-----------------------------------------------------------------------------
(***************************************************************************)
(* alloc_block, called n times in a row: Bitmap::find returns the first    *)
(* clear bit, and 0 when there is none; the bit is marked either way.      *)
(***************************************************************************)
FreeBlocks == BlockId \ block_bitmap

\* Faulty variant: without the test against numBits, a bit past the last one.
NthAllocPastEnd(n) ==
    IF n \in 1..Cardinality(FreeBlocks)
    THEN CHOOSE b \in FreeBlocks : Cardinality({c \in FreeBlocks : c <= b}) = n
    ELSE BLOCK_NUM

NthAlloc(n) ==
    IF n \in 1..Cardinality(FreeBlocks)
    THEN CHOOSE b \in FreeBlocks : Cardinality({c \in FreeBlocks : c <= b}) = n
    ELSE 0

\* Faulty variant: the last block allocated is not marked.
AllocBlocksUnmarked(n) ==
    /\ block_bitmap' = block_bitmap \cup {NthAlloc(j) : j \in 1..(n - 1)}
    /\ full' = (full \/ n > Cardinality(FreeBlocks))

AllocBlocks(n) ==
    /\ block_bitmap' = block_bitmap \cup {NthAlloc(j) : j \in 1..n}
    /\ full' = (full \/ n > Cardinality(FreeBlocks))

\* free_block on each of a set of block numbers; those out of range are ignored.
FreeAll(ids) ==
    /\ block_bitmap' = block_bitmap \ ids
    /\ full' = full
=============================================================================
