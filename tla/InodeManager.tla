---------------------------- MODULE InodeManager ----------------------------
(***************************************************************************)
(* The inode layer (inode_manager.cc): the inode table, and files as       *)
(* NDIRECT direct blocks plus an indirect block of NINDIRECT numbers.      *)
(* Sizes are in blocks: BLOCK_COUNT of the sizes in bytes.                 *)
(***************************************************************************)
EXTENDS BlockManager

CONSTANTS NDIRECT,    \* direct blocks of an inode
          Version     \* the contents a client may write, apart from their size

ASSUME InodeAssumption == NDIRECT \in Nat \ {0} /\ Version \subseteq Nat

NINDIRECT == WORDS
MAXFILE == NDIRECT + NINDIRECT

VARIABLE inode        \* the inode table; type 0 is a free inode

Inum == 0..(INODE_NUM - 1)
T_DIR == 1
T_FILE == 2
FreeInode == [type |-> 0, size |-> 0, blocks |-> [i \in 0..NDIRECT |-> 0]]
NewInode(type) == [FreeInode EXCEPT !.type = type]

\* Block i of version v: no word of it is the number of a block.
DataWord(v, i) == BLOCK_NUM + v * MAXFILE + i
Data(v, i) == [k \in 0..(WORDS - 1) |-> DataWord(v, i)]

\* The constructor allocates the root directory, which is inode 1.
InodeInit ==
    /\ BlockInit
    /\ inode = [i \in Inum |-> IF i = 1 THEN NewInode(T_DIR) ELSE FreeInode]

\* get_inode returns NULL outside the table and for a free inode.
Exists(i) == i \in Inum /\ inode[i].type # 0

-----------------------------------------------------------------------------
\* alloc_inode takes the first free inode from 1 on; without one it returns 0.
FreeInums == {i \in Inum \ {0} : inode[i].type = 0}
AllocInum == IF FreeInums = {} THEN 0 ELSE CHOOSE i \in FreeInums : \A j \in FreeInums : i <= j

AllocInode(type) ==
    /\ inode' = IF FreeInums = {} THEN inode ELSE [inode EXCEPT ![AllocInum] = NewInode(type)]
    /\ UNCHANGED blockVars

\* getattr leaves the zeroed attributes of its caller when there is no inode.
Attr(i) == IF Exists(i) THEN inode[i] ELSE FreeInode

-----------------------------------------------------------------------------
\* The block number of block i of a file, given the words of its indirect block.
BlockNo(ino, indirect, i) ==
    IF i < NDIRECT THEN ino.blocks[i] ELSE indirect[i - NDIRECT]

(***************************************************************************)
(* read_file.  A number out of range reads nothing, so the buffer keeps    *)
(* the block read before; the direct blocks always read something.         *)
(***************************************************************************)
ReadFile(i) ==
    LET ino == inode[i]
        indirect == disk[ino.blocks[NDIRECT]]
        no(j) == BlockNo(ino, indirect, j)
        last(j) == CHOOSE k \in 0..j : /\ no(k) \in BlockId
                                       /\ \A l \in (k + 1)..j : no(l) \notin BlockId
    IN  [j \in 0..(ino.size - 1) |-> disk[no(last(j))]]

(***************************************************************************)
(* write_file with n blocks of version v.  New blocks are allocated in the *)
(* order direct, indirect, those the indirect block lists.                 *)
(***************************************************************************)
NewIndirect(ino, n) == ino.size <= NDIRECT /\ NDIRECT < n

\* The calls of alloc_block, and the block that becomes block j of the file.
NewBlocks(ino, n) ==
    (IF ino.size < n THEN n - ino.size ELSE 0) + (IF NewIndirect(ino, n) THEN 1 ELSE 0)
NewBlock(ino, n, j) ==
    NthAlloc(j - ino.size + (IF NewIndirect(ino, n) /\ NDIRECT <= j THEN 2 ELSE 1))

\* ino->blocks and indirect_block (before its new words) after the two loops.
Blocks(ino, n) ==
    [j \in 0..NDIRECT |->
       IF j = NDIRECT
       THEN IF NewIndirect(ino, n) THEN NthAlloc(NDIRECT - ino.size + 1) ELSE ino.blocks[j]
       ELSE IF ino.size <= j /\ j < n THEN NewBlock(ino, n, j) ELSE ino.blocks[j]]
IndirectBlock(ino, n, before) ==
    [k \in 0..(WORDS - 1) |->
       IF ino.size <= NDIRECT + k /\ NDIRECT + k < n THEN NewBlock(ino, n, NDIRECT + k)
       ELSE before[k]]

\* d after block j of version v is written to no[j], upwards: of two writes to
\* one block the later one stays.
Written(d, no, v) ==
    [b \in BlockId |->
       IF \E j \in DOMAIN no : no[j] = b
       THEN Data(v, CHOOSE j \in DOMAIN no :
                      no[j] = b /\ \A k \in DOMAIN no : no[k] = b => k <= j)
       ELSE d[b]]

\* The indirect block is written back only when the loop stops short of MAXFILE,
\* and a file that shrinks gives no block back.
WriteFile(i, n, v) ==
    LET ino == inode[i]
        blocks == Blocks(ino, n)
        d1 == Written(disk, [j \in {k \in 0..(NDIRECT - 1) : k < n} |-> blocks[j]], v)
        indirect == IndirectBlock(ino, n, IF NewIndirect(ino, n) THEN ZeroBlock
                                          ELSE d1[blocks[NDIRECT]])
        d2 == Written(d1, [j \in NDIRECT..(n - 1) |-> indirect[j - NDIRECT]], v)
    IN  /\ AllocBlocks(NewBlocks(ino, n))
        /\ disk' = IF NDIRECT < n /\ n < MAXFILE
                   THEN [d2 EXCEPT ![blocks[NDIRECT]] = indirect] ELSE d2
        /\ inode' = [inode EXCEPT ![i] = [@ EXCEPT !.size = n, !.blocks = blocks]]

\* The blocks that make up a file: its data and its indirect block.
FileBlocks(i) ==
    LET ino == inode[i]
        indirect == disk[ino.blocks[NDIRECT]]
    IN  {BlockNo(ino, indirect, j) : j \in {k \in 0..(MAXFILE - 1) : k < ino.size}}
          \cup (IF ino.size > NDIRECT THEN {ino.blocks[NDIRECT]} ELSE {})

\* Faulty variant: the blocks listed in the indirect block are not freed.
RemoveFileDirect(i) ==
    /\ FreeAll({inode[i].blocks[j] : j \in {k \in 0..NDIRECT : k < inode[i].size}})
    /\ disk' = disk
    /\ inode' = [inode EXCEPT ![i] = FreeInode]

\* remove_file frees the blocks of the file, then free_inode clears the inode.
RemoveFile(i) ==
    /\ FreeAll(FileBlocks(i))
    /\ disk' = disk
    /\ inode' = [inode EXCEPT ![i] = FreeInode]
=============================================================================
