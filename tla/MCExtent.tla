------------------------------ MODULE MCExtent ------------------------------
(***************************************************************************)
(* Instances of ExtentServer for TLC: two files beside inode 0, one direct *)
(* block, an indirect block of two, and the blocks from 6 on for data.     *)
(* The id 9 is the id 1 with a bit above the mask.                         *)
(***************************************************************************)
EXTENDS ExtentServer

\* The state without what no later step reads: request and reply, the contents
\* of blocks that no file uses, and the block numbers past the end of a file.
LiveState ==
    LET indices(i) == {j \in 0..NDIRECT : j < inode[i].size}
    IN  <<block_bitmap, full, shrunk,
          [b \in UsedBlocks \cap BlockId |-> disk[b]],
          [i \in Files |-> [inode[i] EXCEPT !.blocks = [j \in indices(i) |-> inode[i].blocks[j]]]]>>
=============================================================================
