---------------------------- MODULE ExtentServer ----------------------------
(***************************************************************************)
(* The extent server (extent_server.cc) on top of the inode layer.  Each   *)
(* handler is one action: extent_client.cc holds its own extent_server and *)
(* calls it directly, one request at a time.  Replies carry the status OK  *)
(* whatever happened, so only their other fields are kept.                 *)
(***************************************************************************)
EXTENDS InodeManager

CONSTANTS Id,         \* extent ids of requests
          IdMod,      \* one more than the mask applied to an id: 2^31 in the code
          MaxPut      \* blocks in the longest buffer a client puts

ASSUME ExtentAssumption ==
    /\ Id \subseteq Nat
    /\ IdMod \in Nat \ {0}
    /\ MaxPut \in 0..MAXFILE

VARIABLES request,    \* the last request
          reply,      \* the answer to it
          shrunk      \* history: a file has been overwritten with a shorter one

vars == <<block_bitmap, disk, full, inode, request, reply, shrunk>>

NoData == [j \in {} |-> 0]
Request(op, id, type, size, data) ==
    [op |-> op, id |-> id, type |-> type, size |-> size, data |-> data]
Reply(id, type, size, data) == [id |-> id, type |-> type, size |-> size, data |-> data]
Done == Reply(0, 0, 0, NoData)

Init ==
    /\ InodeInit
    /\ request = Request("none", 0, 0, 0, NoData)
    /\ reply = Done
    /\ shrunk = FALSE

\* What a client puts: n blocks of version v.
FileData(n, v) == [j \in 0..(n - 1) |-> Data(v, j)]

\* id &= 0x7fffffff
Key(id) == id % IdMod

-----------------------------------------------------------------------------
Create(type) ==
    /\ request' = Request("create", 0, type, 0, NoData)
    /\ AllocInode(type)
    /\ reply' = Reply(AllocInum, 0, 0, NoData)
    /\ UNCHANGED shrunk

\* Faulty variant: the id is not masked, so an id with the high bit is not found.
PutUnmasked(id, n, v) ==
    /\ request' = Request("put", id, 0, n, FileData(n, v))
    /\ IF Exists(id)
       THEN WriteFile(id, n, v) /\ shrunk' = (shrunk \/ n < inode[id].size)
       ELSE UNCHANGED <<block_bitmap, disk, full, inode, shrunk>>
    /\ reply' = Done

\* A put to a file that does not exist is answered OK and changes nothing.
Put(id, n, v) ==
    LET i == Key(id)
    IN  /\ request' = Request("put", id, 0, n, FileData(n, v))
        /\ IF Exists(i)
           THEN WriteFile(i, n, v) /\ shrunk' = (shrunk \/ n < inode[i].size)
           ELSE UNCHANGED <<block_bitmap, disk, full, inode, shrunk>>
        /\ reply' = Done

Get(id) ==
    /\ request' = Request("get", id, 0, 0, NoData)
    /\ reply' = Reply(0, 0, 0, IF Exists(Key(id)) THEN ReadFile(Key(id)) ELSE NoData)
    /\ UNCHANGED <<block_bitmap, disk, full, inode, shrunk>>

\* The attributes of a file that does not exist are all 0.
GetAttr(id) ==
    /\ request' = Request("getattr", id, 0, 0, NoData)
    /\ reply' = Reply(0, Attr(Key(id)).type, Attr(Key(id)).size, NoData)
    /\ UNCHANGED <<block_bitmap, disk, full, inode, shrunk>>

Remove(id) ==
    /\ request' = Request("remove", id, 0, 0, NoData)
    /\ IF Exists(Key(id)) THEN RemoveFile(Key(id))
                          ELSE UNCHANGED <<block_bitmap, disk, full, inode>>
    /\ reply' = Done
    /\ UNCHANGED shrunk

Next ==
    \/ \E type \in {T_DIR, T_FILE} : Create(type)
    \/ \E id \in Id : \/ Get(id)
                      \/ GetAttr(id)
                      \/ Remove(id)
                      \/ \E n \in 0..MaxPut, v \in Version : Put(id, n, v)

Spec == Init /\ [][Next]_vars

-----------------------------------------------------------------------------
Files == {i \in Inum : inode[i].type # 0}
UsedBlocks == UNION {FileBlocks(i) : i \in Files}

\* A file owns one block for each block of its size, and one more for the
\* indirect block.
Footprint(i) == inode[i].size + (IF inode[i].size > NDIRECT THEN 1 ELSE 0)

\* The bitmap holds block numbers of the disk, and every block number in an
\* inode is one: Bitmap::find never returns a bit past numBits.
DiskTypeOK ==
    /\ block_bitmap \subseteq BlockId
    /\ disk \in [BlockId -> Block]
    /\ inode \in [Inum -> [type : {0, T_DIR, T_FILE}, size : 0..MAXFILE,
                           blocks : [0..NDIRECT -> BlockId]]]

\* Until the disk overflows, no block is owned twice, by two files or by one
\* file in two places, and a block a file owns is marked in the bitmap and is
\* none of those set apart for the file system (alloc_block, write_file and
\* remove_file keep the bitmap and the inodes in step).
NoSharedBlocks ==
    ~full => /\ \A i, k \in Files : i # k => FileBlocks(i) \cap FileBlocks(k) = {}
             /\ \A i \in Files : /\ Cardinality(FileBlocks(i)) = Footprint(i)
                                 /\ FileBlocks(i) \subseteq block_bitmap \ Reserved

\* The blocks IBLOCK locates inodes in stay marked and in no file, even when
\* the disk overflows: the range the constructor of block_manager marks really
\* covers the inode table, though it is computed by another formula than
\* IBLOCK.
InodeTableSafe ==
    \A i \in Inum : IBLOCK(i) \in block_bitmap \ UsedBlocks

\* As long as no file was overwritten with a shorter one, the marked blocks are
\* those of the file system and of the files: remove_file gives every block of
\* a file back, the indirect block included.
MarkedIsUsed ==
    ~full /\ ~shrunk => block_bitmap = Reserved \cup UsedBlocks

\* The files as a client sees them.
AppFile == [i \in Inum |-> [type |-> inode[i].type, size |-> inode[i].size,
                            data |-> IF Exists(i) THEN ReadFile(i) ELSE NoData]]

Store == INSTANCE ExtentStore
    WITH Types <- {T_DIR, T_FILE},
         Contents <- {[size |-> n, data |-> FileData(n, v)] :
                         n \in 0..MaxPut, v \in Version},
         file <- AppFile,
         over <- full

\* Until the disk overflows the server is the store of ExtentStore: every
\* request is answered from what was last put, and touches one file.
ImplementsStore == Store!StoreSpec
=============================================================================
