---------------------------- MODULE ExtentProofs ----------------------------
(***************************************************************************)
(* The proofs about the extent server, for a disk, a block and an inode    *)
(* table of any size.  DiskInv holds whatever happens: the blocks of the   *)
(* file system stay marked, and no inode and no block on the disk has the  *)
(* number of one.  OwnInv holds until the disk overflows: no block is in   *)
(* two slots.  A slot is a place of a file that holds a block, so that the *)
(* direct blocks, the indirect block and those it lists are treated alike; *)
(* the heart of the proofs is what write_file leaves in the slots          *)
(* (WriteFileSlots).  The refinement of ExtentStore rests on OwnInv too.   *)
(***************************************************************************)
EXTENDS ExtentServer, FiniteSetTheorems, WellFoundedInduction, TLAPS

-----------------------------------------------------------------------------
(***************************************************************************)
(* The layout.                                                             *)
(***************************************************************************)
LEMMA DivBounds ==
  ASSUME NEW a \in Nat, NEW b \in Nat \ {0}
  PROVE  /\ a \div b \in Nat
         /\ b * (a \div b) <= a /\ a < b * (a \div b) + b
  BY Z3

LEMMA DivMonotone ==
  ASSUME NEW a \in Nat, NEW b \in Nat \ {0}, NEW p \in Nat, NEW q \in Nat,
         b * p <= a, a < b * q + b
  PROVE  p <= q
<1>1. CASE p <= q
  BY <1>1
<1>2. CASE q + 1 <= p
  <2>1. PICK k \in Nat : p = q + 1 + k
    <3>1. p - (q + 1) \in Nat /\ p = q + 1 + (p - (q + 1))
      BY <1>2
    <3> QED
      BY <3>1
  <2>2. b * p = b * q + b + b * k
    BY <2>1
  <2>3. b * k \in Nat
    OBVIOUS
  <2> QED
    BY <2>2, <2>3
<1> QED
  BY <1>1, <1>2

LEMMA CeilDivFacts ==
  ASSUME NEW a \in Nat, NEW b \in Nat \ {0}
  PROVE  /\ CeilDiv(a, b) \in Nat
         /\ a \div b <= CeilDiv(a, b) /\ CeilDiv(a, b) <= a \div b + 1
         /\ \A i \in 0..(a - 1) : i \div b \in Nat /\ i \div b + 1 <= CeilDiv(a, b)
<1> DEFINE c == CeilDiv(a, b)
           q == a \div b
<1>1. a + b - 1 \in Nat
  OBVIOUS
<1>2. c \in Nat /\ b * c <= a + b - 1 /\ a + b - 1 < b * c + b
  BY <1>1, DivBounds DEF CeilDiv
<1>3. q \in Nat /\ b * q <= a /\ a < b * q + b
  BY DivBounds
<1> HIDE DEF c, q
<1>4. q <= c
  <2>1. b * q \in Nat /\ b * c \in Nat /\ b * q <= a + b - 1
    BY <1>2, <1>3
  <2> QED
    BY <1>1, <1>2, <1>3, <2>1, DivMonotone
<1>5. c <= q + 1
  <2>1. b * (q + 1) = b * q + b /\ b * q \in Nat /\ q + 1 \in Nat
    BY <1>3
  <2>2. a + b - 1 < b * (q + 1) + b
    BY <1>3, <2>1
  <2> QED
    BY <1>1, <1>2, <2>1, <2>2, DivMonotone
<1>6. ASSUME NEW i \in 0..(a - 1)
      PROVE  i \div b \in Nat /\ i \div b + 1 <= c
  <2>1. i \in Nat /\ i <= a - 1
    OBVIOUS
  <2> DEFINE p == i \div b
  <2>2. p \in Nat /\ b * p <= i
    BY <2>1, DivBounds
  <2> HIDE DEF p
  <2>3. b * (p + 1) = b * p + b /\ b * p \in Nat /\ p + 1 \in Nat
    BY <2>2
  <2>4. b * (p + 1) <= a + b - 1
    BY <2>1, <2>2, <2>3
  <2>5. p + 1 <= c
    BY <1>1, <1>2, <2>3, <2>4, DivMonotone
  <2> QED
    BY <2>2, <2>5 DEF p
<1> QED
  BY <1>2, <1>4, <1>5, <1>6 DEF c, q

\* The constructor of block_manager marks every block in which IBLOCK locates
\* an inode.
LEMMA TableReserved ==
  /\ Reserved \subseteq BlockId /\ 0 \in Reserved
  /\ \A i \in Inum : IBLOCK(i) \in Reserved /\ IBLOCK(i) # 0
<1> DEFINE c == CeilDiv(BLOCK_NUM, BPB)
           m == CeilDiv(INODE_NUM, IPB)
           q == BLOCK_NUM \div BPB
<1>1. BLOCK_NUM \in Nat /\ BPB \in Nat \ {0} /\ INODE_NUM \in Nat /\ IPB \in Nat \ {0}
  BY LayoutAssumption
<1>2. c \in Nat /\ q <= c /\ c <= q + 1 /\ q \in Nat
  BY <1>1, CeilDivFacts, DivBounds
<1>3. m \in Nat /\ \A i \in 0..(INODE_NUM - 1) : i \div IPB \in Nat /\ i \div IPB + 1 <= m
  BY <1>1, CeilDivFacts
<1>4. 2 + c + m < BLOCK_NUM
  BY LayoutAssumption
<1>5. Reserved = {0, 1} \cup {2 + i : i \in 0..(c - 1)} \cup {2 + c + i : i \in 0..m}
  BY DEF Reserved
<1> HIDE DEF c, m, q
<1>6. Reserved \subseteq BlockId
  BY <1>1, <1>2, <1>3, <1>4, <1>5 DEF BlockId
<1>7. ASSUME NEW i \in Inum
      PROVE  IBLOCK(i) \in Reserved /\ IBLOCK(i) # 0
  <2> DEFINE p == i \div IPB
  <2>1. p \in Nat /\ p + 1 <= m
    BY <1>3 DEF Inum
  <2>2. IBLOCK(i) = q + p + 3
    BY DEF IBLOCK, q
  <2> HIDE DEF p
  <2>3. q + 1 - c + p \in 0..m /\ q + p + 3 = 2 + c + (q + 1 - c + p) /\ q + p + 3 # 0
    BY <1>2, <1>3, <2>1
  <2> QED
    BY <1>5, <2>2, <2>3
<1> QED
  BY <1>5, <1>6, <1>7

-----------------------------------------------------------------------------
(***************************************************************************)
(* alloc_block.                                                            *)
(***************************************************************************)
LEMMA LeastNumber ==
  ASSUME NEW S, S \subseteq Nat, S # {}
  PROVE  \E x \in S : \A y \in S : x <= y
<1> DEFINE R == OpToRel(<, Nat)
<1>1. IsWellFoundedOn(R, Nat)
  BY NatLessThanWellFounded
<1>2. PICK x \in S : \A y \in S : <<y, x>> \notin R
  BY <1>1, WFMin
<1>3. \A y \in S : ~(y < x)
  BY <1>2 DEF OpToRel
<1>4. \A y \in S : x <= y
  BY <1>3
<1> QED
  BY <1>4

UpTo(F, b) == {c \in F : c <= b}

\* Among the numbers of a bounded set there is one with n of them up to it.
LEMMA NthExists ==
  ASSUME NEW N \in Nat, NEW F, F \subseteq 0..N, NEW n \in 1..Cardinality(F)
  PROVE  \E b \in F : Cardinality(UpTo(F, b)) = n
<1> DEFINE Upto(b) == {c \in F : c <= b}
           S == {b \in 0..N : Cardinality(Upto(b)) >= n}
<1>0. F \in SUBSET Nat /\ \A c \in F : c \in Nat /\ c <= N
  OBVIOUS
<1>1. IsFiniteSet(F) /\ Cardinality(F) \in Nat /\ n \in Nat /\ n >= 1
  <2>1. IsFiniteSet(F)
    BY <1>0, FS_BoundedSetOfNaturals
  <2> QED
    BY <2>1, FS_CardinalityType
<1>2. \A b : IsFiniteSet(Upto(b)) /\ Cardinality(Upto(b)) \in Nat
  <2>1. \A b : Upto(b) \subseteq F
    OBVIOUS
  <2> HIDE DEF Upto
  <2> QED
    BY <1>1, <2>1, FS_Subset, FS_CardinalityType
<1>3. N \in S
  <2>1. Upto(N) = F
    BY <1>0
  <2> HIDE DEF Upto
  <2> QED
    BY <2>1
<1>4. PICK b \in S : \A y \in S : b <= y
  <2>1. S \subseteq Nat /\ S # {}
    BY <1>3
  <2> HIDE DEF S
  <2> QED
    BY <2>1, LeastNumber
<1>5. b \in Nat /\ b <= N /\ Cardinality(Upto(b)) >= n
  OBVIOUS
<1>6. Cardinality(Upto(b) \ {b}) < n
  <2>1. CASE b = 0
    <3>1. Upto(b) \ {b} = {}
      <4>1. \A c \in F : c <= 0 => c = 0
        BY <1>0
      <4> QED
        BY <2>1, <4>1
    <3> QED
      BY <1>1, <3>1, FS_EmptySet
  <2>2. CASE b # 0
    <3>1. b - 1 \in 0..N /\ ~(b <= b - 1)
      BY <1>5, <2>2
    <3>2. b - 1 \notin S
      BY <1>4, <3>1
    <3>3. ~(Cardinality(Upto(b - 1)) >= n)
      BY <3>1, <3>2
    <3>4. Upto(b) \ {b} = Upto(b - 1)
      <4>1. \A c \in F : (c <= b /\ c # b) <=> c <= b - 1
        BY <1>0, <1>5
      <4> QED
        BY <4>1
    <3> HIDE DEF Upto
    <3> QED
      BY <1>1, <1>2, <3>3, <3>4
  <2> QED
    BY <2>1, <2>2
<1> HIDE DEF S
<1>7. b \in Upto(b)
  <2> SUFFICES ASSUME b \notin Upto(b) PROVE FALSE
    OBVIOUS
  <2>1. Upto(b) \ {b} = Upto(b)
    OBVIOUS
  <2> HIDE DEF Upto
  <2> QED
    BY <1>1, <1>2, <1>5, <1>6, <2>1
<1>8. Cardinality(Upto(b) \ {b}) = Cardinality(Upto(b)) - 1
  <2> HIDE DEF Upto
  <2> QED
    BY <1>2, <1>7, FS_RemoveElement
<1>9. Cardinality(Upto(b)) = n
  <2> HIDE DEF Upto
  <2> QED
    BY <1>1, <1>2, <1>5, <1>6, <1>8
<1>10. UpTo(F, b) = Upto(b) /\ b \in F
  BY <1>7 DEF UpTo
<1> QED
  BY <1>9, <1>10

\* The n-th block allocated is a free one, another one for every n, until the
\* free blocks are used up; then it is block 0.
LEMMA NthAllocFacts ==
  ASSUME block_bitmap \subseteq BlockId
  PROVE  /\ IsFiniteSet(FreeBlocks) /\ Cardinality(FreeBlocks) \in Nat
         /\ \A n : NthAlloc(n) \in FreeBlocks \cup {0}
         /\ \A n \in 1..Cardinality(FreeBlocks) : NthAlloc(n) \in FreeBlocks
         /\ \A m, n \in 1..Cardinality(FreeBlocks) : NthAlloc(m) = NthAlloc(n) => m = n
<1> DEFINE Q(n, b) == Cardinality(UpTo(FreeBlocks, b)) = n
<1>1. BLOCK_NUM - 1 \in Nat /\ FreeBlocks \subseteq 0..(BLOCK_NUM - 1)
  BY LayoutAssumption DEF FreeBlocks, BlockId
<1>2. IsFiniteSet(FreeBlocks) /\ Cardinality(FreeBlocks) \in Nat
  <2>1. IsFiniteSet(FreeBlocks)
    <3>1. FreeBlocks \in SUBSET Nat /\ \A c \in FreeBlocks : c <= BLOCK_NUM - 1
      BY <1>1
    <3> QED
      BY <1>1, <3>1, FS_BoundedSetOfNaturals
  <2> QED
    BY <2>1, FS_CardinalityType
<1>3. ASSUME NEW n \in 1..Cardinality(FreeBlocks)
      PROVE  NthAlloc(n) \in FreeBlocks /\ Q(n, NthAlloc(n))
  <2>1. \E b \in FreeBlocks : Q(n, b)
    BY <1>1, NthExists
  <2>2. NthAlloc(n) = CHOOSE b \in FreeBlocks : Q(n, b)
    BY DEF NthAlloc, UpTo
  <2> HIDE DEF Q
  <2> QED
    BY <2>1, <2>2
<1>4. \A n : n \notin 1..Cardinality(FreeBlocks) => NthAlloc(n) = 0
  BY DEF NthAlloc
<1> QED
  BY <1>2, <1>3, <1>4

-----------------------------------------------------------------------------
(***************************************************************************)
(* Types, and the blocks of the file system.                               *)
(***************************************************************************)
Inode == [type : {0, T_DIR, T_FILE}, size : 0..MAXFILE, blocks : [0..NDIRECT -> BlockId]]

LEMMA Numbers ==
  /\ BLOCK_NUM \in Nat /\ BLOCK_NUM > 0 /\ WORDS \in Nat /\ WORDS > 0
  /\ NDIRECT \in Nat /\ NDIRECT > 0 /\ MAXFILE = NDIRECT + WORDS /\ MAXFILE \in Nat
  /\ MaxPut \in Nat /\ MaxPut <= MAXFILE /\ Version \subseteq Nat
  /\ BlockId \subseteq Nat /\ 0 \in BlockId /\ \A b \in BlockId : b < BLOCK_NUM
<1>1. BLOCK_NUM \in Nat \ {0} /\ WORDS \in Nat \ {0} /\ NDIRECT \in Nat \ {0} /\ Version \subseteq Nat
  BY LayoutAssumption, InodeAssumption
<1>2. MAXFILE = NDIRECT + WORDS
  BY DEF MAXFILE, NINDIRECT
<1>3. MaxPut \in 0..MAXFILE
  BY ExtentAssumption
<1> QED
  BY <1>1, <1>2, <1>3 DEF BlockId

LEMMA GreatestNumber ==
  ASSUME NEW N \in Nat, NEW S, S \subseteq 0..N, S # {}
  PROVE  \E x \in S : \A y \in S : y <= x
<1> DEFINE B == {m \in Nat : \A y \in S : y <= m}
<1>1. N \in B /\ B \subseteq Nat /\ \A y \in S : y \in Nat
  OBVIOUS
<1>2. PICK m \in B : \A x \in B : m <= x
  <2> HIDE DEF B
  <2> QED
    BY <1>1, LeastNumber
<1>3. m \in Nat /\ \A y \in S : y <= m
  OBVIOUS
<1>4. m \in S
  <2> SUFFICES ASSUME m \notin S PROVE FALSE
    OBVIOUS
  <2>1. \A y \in S : y <= m - 1
    BY <1>1, <1>3
  <2>2. m - 1 \in Nat
    <3>1. PICK y \in S : TRUE
      OBVIOUS
    <3>2. y \in Nat /\ y <= m - 1
      BY <1>1, <2>1
    <3> QED
      BY <1>3, <3>2
  <2>3. m - 1 \in B
    BY <2>1, <2>2
  <2> QED
    BY <1>2, <1>3, <2>3
<1> QED
  BY <1>3, <1>4

\* The contents of a block that is written are the data of one of its indices.
LEMMA WrittenFacts ==
  ASSUME NEW d, NEW no, DOMAIN no \subseteq 0..MAXFILE, NEW v
  PROVE  /\ DOMAIN Written(d, no, v) = BlockId
         /\ \A b \in BlockId : (\A j \in DOMAIN no : no[j] # b) => Written(d, no, v)[b] = d[b]
         /\ \A b \in BlockId : (\E j \in DOMAIN no : no[j] = b) =>
              \E j \in DOMAIN no : no[j] = b /\ Written(d, no, v)[b] = Data(v, j)
<1> DEFINE D == DOMAIN no
           Last(b, j) == no[j] = b /\ \A k \in D : no[k] = b => k <= j
<1>1. Written(d, no, v) = [b \in BlockId |-> IF \E j \in D : no[j] = b
                                             THEN Data(v, CHOOSE j \in D : Last(b, j)) ELSE d[b]]
  BY DEF Written
<1>2. ASSUME NEW b \in BlockId, \E j \in D : no[j] = b
      PROVE  \E j \in D : Last(b, j)
  <2> DEFINE S == {j \in D : no[j] = b}
  <2>1. S \subseteq 0..MAXFILE /\ S # {}
    BY <1>2
  <2>2. \E x \in S : \A y \in S : y <= x
    <3> HIDE DEF S
    <3> QED
      BY <2>1, Numbers, GreatestNumber
  <2> QED
    BY <2>2
<1>3. ASSUME NEW b \in BlockId, \E j \in D : no[j] = b
      PROVE  \E j \in D : no[j] = b /\ Written(d, no, v)[b] = Data(v, j)
  <2> DEFINE c == CHOOSE j \in D : Last(b, j)
  <2>1. c \in D /\ Last(b, c)
    <3> HIDE DEF Last
    <3> QED
      BY <1>2, <1>3
  <2>2. Written(d, no, v)[b] = Data(v, c)
    BY <1>1, <1>3
  <2> HIDE DEF c
  <2> QED
    BY <2>1, <2>2
<1> QED
  BY <1>1, <1>3

LEMMA DataFacts ==
  ASSUME NEW v \in Nat, NEW j \in Nat
  PROVE  /\ Data(v, j) \in Block
         /\ \A k \in 0..(WORDS - 1) : Data(v, j)[k] >= BLOCK_NUM
<1>1. BLOCK_NUM \in Nat /\ MAXFILE \in Nat
  BY Numbers
<1>2. v * MAXFILE \in Nat
  BY <1>1
<1>3. DataWord(v, j) \in Nat /\ DataWord(v, j) >= BLOCK_NUM
  BY <1>1, <1>2 DEF DataWord
<1> QED
  BY <1>3 DEF Data, Block

\* What write_file makes of the inode.
LEMMA WriteInode ==
  ASSUME inode \in [Inum -> Inode], NEW i \in Inum, NEW n, NEW blocks,
         inode' = [inode EXCEPT ![i] = [@ EXCEPT !.size = n, !.blocks = blocks]]
  PROVE  inode' = [inode EXCEPT ![i] = [type |-> inode[i].type, size |-> n, blocks |-> blocks]]
<1>1. inode[i] \in Inode
  OBVIOUS
<1> DEFINE q == [inode[i] EXCEPT !.size = n]
           r == [q EXCEPT !.blocks = blocks]
<1>2. q = [type |-> inode[i].type, size |-> n, blocks |-> inode[i].blocks]
  BY <1>1 DEF Inode
<1>3. inode' = [inode EXCEPT ![i] = r]
  OBVIOUS
<1> HIDE DEF q
<1>4. r = [type |-> inode[i].type, size |-> n, blocks |-> blocks]
  BY <1>2
<1> QED
  BY <1>3, <1>4

\* The blocks marked for the file system, but for block 0, which stands for "no
\* block" once the disk has overflowed, and may then be a file's.
System == Reserved \ {0}

Clean(d) == \A b \in BlockId : \A k \in 0..(WORDS - 1) : d[b][k] \notin System

\* The blocks of the file system stay marked, and nobody has their numbers.
SystemInv ==
    /\ System \subseteq block_bitmap
    /\ Clean(disk)
    /\ \A i \in Inum : \A j \in 0..NDIRECT : inode[i].blocks[j] \notin System

DiskInv == DiskTypeOK /\ SystemInv

LEMMA SystemFacts ==
  /\ System \subseteq BlockId /\ 0 \notin System
  /\ \A i \in Inum : IBLOCK(i) \in System
  /\ \A w \in Nat : w >= BLOCK_NUM => w \notin System
<1>1. System \subseteq BlockId /\ 0 \notin System /\ \A i \in Inum : IBLOCK(i) \in System
  BY TableReserved DEF System
<1> QED
  BY <1>1, Numbers

LEMMA ZeroBlockFacts == ZeroBlock \in Block /\ \A k \in 0..(WORDS - 1) : ZeroBlock[k] \notin System
<1>1. ZeroBlock \in Block /\ \A k \in 0..(WORDS - 1) : ZeroBlock[k] = 0
  BY DEF ZeroBlock, Block
<1> QED
  BY <1>1, SystemFacts

LEMMA WrittenClean ==
  ASSUME NEW d \in [BlockId -> Block], Clean(d), NEW v \in Nat,
         NEW no, DOMAIN no \subseteq 0..MAXFILE
  PROVE  Written(d, no, v) \in [BlockId -> Block] /\ Clean(Written(d, no, v))
<1> DEFINE w == Written(d, no, v)
<1>1. w = [b \in BlockId |-> w[b]]
  BY DEF Written
<1>2. ASSUME NEW b \in BlockId
      PROVE  w[b] \in Block /\ \A k \in 0..(WORDS - 1) : w[b][k] \notin System
  <2>1. CASE \E j \in DOMAIN no : no[j] = b
    <3>1. PICK j \in DOMAIN no : w[b] = Data(v, j)
      BY <2>1, WrittenFacts
    <3>2. j \in Nat
      OBVIOUS
    <3>3. /\ w[b] \in Block
          /\ \A k \in 0..(WORDS - 1) : w[b][k] >= BLOCK_NUM
      BY <3>1, <3>2, DataFacts
    <3>4. \A k \in 0..(WORDS - 1) : w[b][k] \in Nat
      BY <3>3 DEF Block
    <3> QED
      BY <3>3, <3>4, SystemFacts
  <2>2. CASE \A j \in DOMAIN no : no[j] # b
    <3>1. w[b] = d[b]
      BY <2>2, WrittenFacts
    <3> QED
      BY <3>1 DEF Clean
  <2> QED
    BY <2>1, <2>2
<1> HIDE DEF w
<1>3. w \in [BlockId -> Block]
  BY <1>1, <1>2
<1> QED
  BY <1>2, <1>3 DEF Clean, w

LEMMA AllocClean ==
  ASSUME block_bitmap \subseteq BlockId, System \subseteq block_bitmap
  PROVE  \A m : NthAlloc(m) \in BlockId /\ NthAlloc(m) \in Nat /\ NthAlloc(m) \notin System
<1>1. \A m : NthAlloc(m) \in FreeBlocks \cup {0}
  BY NthAllocFacts
<1>2. \A b \in FreeBlocks \cup {0} : b \in BlockId /\ b \in Nat /\ b \notin System
  BY SystemFacts, Numbers DEF FreeBlocks
<1> QED
  BY <1>1, <1>2

\* Every number in an inode or an indirect block is a new block or the old one.
LEMMA BlocksFacts ==
  ASSUME block_bitmap \subseteq BlockId, System \subseteq block_bitmap,
         NEW ino \in Inode, \A j \in 0..NDIRECT : ino.blocks[j] \notin System, NEW n
  PROVE  /\ Blocks(ino, n) \in [0..NDIRECT -> BlockId]
         /\ \A j \in 0..NDIRECT : Blocks(ino, n)[j] \notin System
<1>1. \A m : NthAlloc(m) \in BlockId /\ NthAlloc(m) \notin System
  BY AllocClean
<1>2. \A j : NewBlock(ino, n, j) \in BlockId /\ NewBlock(ino, n, j) \notin System
  BY <1>1 DEF NewBlock
<1>3. ino.blocks \in [0..NDIRECT -> BlockId]
  BY DEF Inode
<1>4. \A j \in 0..NDIRECT : Blocks(ino, n)[j] \in BlockId /\ Blocks(ino, n)[j] \notin System
  BY <1>1, <1>2, <1>3 DEF Blocks
<1>5. Blocks(ino, n) = [j \in 0..NDIRECT |-> Blocks(ino, n)[j]]
  BY DEF Blocks
<1> QED
  BY <1>4, <1>5

LEMMA IndirectFacts ==
  ASSUME block_bitmap \subseteq BlockId, System \subseteq block_bitmap, NEW ino, NEW n,
         NEW before \in Block, \A k \in 0..(WORDS - 1) : before[k] \notin System
  PROVE  /\ IndirectBlock(ino, n, before) \in Block
         /\ \A k \in 0..(WORDS - 1) : IndirectBlock(ino, n, before)[k] \notin System
<1>1. \A m : NthAlloc(m) \in Nat /\ NthAlloc(m) \notin System
  BY AllocClean
<1>2. \A j : NewBlock(ino, n, j) \in Nat /\ NewBlock(ino, n, j) \notin System
  BY <1>1 DEF NewBlock
<1> DEFINE r == IndirectBlock(ino, n, before)
<1>3. \A k \in 0..(WORDS - 1) : before[k] \in Nat
  BY DEF Block
<1>4. \A k \in 0..(WORDS - 1) : r[k] \in Nat /\ r[k] \notin System
  BY <1>2, <1>3 DEF IndirectBlock
<1>5. r = [k \in 0..(WORDS - 1) |-> r[k]]
  BY DEF IndirectBlock
<1> HIDE DEF r
<1> QED
  BY <1>4, <1>5 DEF Block, r

LEMMA AllocFacts ==
  ASSUME block_bitmap \subseteq BlockId, NEW n, AllocBlocks(n)
  PROVE  block_bitmap' \subseteq BlockId /\ block_bitmap \subseteq block_bitmap'
<1>1. \A m : NthAlloc(m) \in BlockId
  BY NthAllocFacts, Numbers DEF FreeBlocks
<1> QED
  BY <1>1 DEF AllocBlocks

LEMMA WriteFileDisk ==
  ASSUME DiskInv, NEW i \in Inum, NEW n \in 0..MaxPut, NEW v \in Version, WriteFile(i, n, v)
  PROVE  DiskInv'
<1> DEFINE ino == inode[i]
           blocks == Blocks(ino, n)
           d1 == Written(disk, [j \in {k \in 0..(NDIRECT - 1) : k < n} |-> blocks[j]], v)
           before == IF NewIndirect(ino, n) THEN ZeroBlock ELSE d1[blocks[NDIRECT]]
           indirect == IndirectBlock(ino, n, before)
           d2 == Written(d1, [j \in NDIRECT..(n - 1) |-> indirect[j - NDIRECT]], v)
<1>1. /\ AllocBlocks(NewBlocks(ino, n))
      /\ disk' = IF NDIRECT < n /\ n < MAXFILE
                 THEN [d2 EXCEPT ![blocks[NDIRECT]] = indirect] ELSE d2
      /\ inode' = [inode EXCEPT ![i] = [@ EXCEPT !.size = n, !.blocks = blocks]]
  BY DEF WriteFile
<1>2. /\ block_bitmap \subseteq BlockId /\ disk \in [BlockId -> Block]
      /\ inode \in [Inum -> Inode] /\ ino \in Inode
      /\ System \subseteq block_bitmap /\ Clean(disk)
      /\ \A k \in Inum : \A j \in 0..NDIRECT : inode[k].blocks[j] \notin System
  BY DEF DiskInv, DiskTypeOK, SystemInv, Inode
<1>3. /\ NDIRECT \in Nat /\ MAXFILE \in Nat /\ n \in Nat /\ n <= MAXFILE /\ v \in Nat
      /\ NDIRECT \in 0..NDIRECT /\ NDIRECT < MAXFILE
  BY Numbers
<1> HIDE DEF ino
<1>4. blocks \in [0..NDIRECT -> BlockId] /\ \A j \in 0..NDIRECT : blocks[j] \notin System
  BY <1>2, BlocksFacts DEF ino
<1> HIDE DEF blocks
<1>5. d1 \in [BlockId -> Block] /\ Clean(d1)
  <2>1. DOMAIN [j \in {k \in 0..(NDIRECT - 1) : k < n} |-> blocks[j]] \subseteq 0..MAXFILE
    BY <1>3
  <2> QED
    BY <1>2, <1>3, <2>1, WrittenClean
<1> HIDE DEF d1
<1>6. before \in Block /\ \A k \in 0..(WORDS - 1) : before[k] \notin System
  BY <1>3, <1>4, <1>5, ZeroBlockFacts DEF Clean
<1> HIDE DEF before
<1>7. indirect \in Block /\ \A k \in 0..(WORDS - 1) : indirect[k] \notin System
  BY <1>2, <1>6, IndirectFacts
<1> HIDE DEF indirect
<1>8. d2 \in [BlockId -> Block] /\ Clean(d2)
  <2>1. DOMAIN [j \in NDIRECT..(n - 1) |-> indirect[j - NDIRECT]] \subseteq 0..MAXFILE
    BY <1>3
  <2> QED
    BY <1>3, <1>5, <2>1, WrittenClean
<1> HIDE DEF d2
<1>9. disk' \in [BlockId -> Block] /\ Clean(disk')
  BY <1>1, <1>3, <1>4, <1>7, <1>8 DEF Clean
<1>10. inode' = [inode EXCEPT ![i] = [type |-> ino.type, size |-> n, blocks |-> blocks]]
  BY <1>1, <1>2, WriteInode DEF ino
<1> DEFINE new == [type |-> ino.type, size |-> n, blocks |-> blocks]
<1>11. new \in Inode /\ new.blocks = blocks
  BY <1>2, <1>3, <1>4 DEF Inode
<1> HIDE DEF new
<1>12. /\ inode' \in [Inum -> Inode] /\ inode'[i] = new
       /\ \A k \in Inum : k # i => inode'[k] = inode[k]
  BY <1>2, <1>10, <1>11 DEF new
<1>13. block_bitmap' \subseteq BlockId /\ block_bitmap \subseteq block_bitmap'
  BY <1>1, <1>2, AllocFacts
<1>14. DiskTypeOK'
  BY <1>9, <1>12, <1>13 DEF DiskTypeOK, Inode
<1>15. SystemInv'
  <2>1. \A k \in Inum : \A j \in 0..NDIRECT : inode'[k].blocks[j] \notin System
    BY <1>2, <1>4, <1>11, <1>12
  <2> QED
    BY <1>2, <1>9, <1>13, <2>1 DEF SystemInv
<1> QED
  BY <1>14, <1>15 DEF DiskInv

LEMMA NewInodeFacts ==
  /\ FreeInode \in Inode /\ FreeInode.type = 0 /\ FreeInode.size = 0
  /\ \A j \in 0..NDIRECT : FreeInode.blocks[j] = 0
  /\ \A t \in {T_DIR, T_FILE} :
       /\ NewInode(t) \in Inode /\ NewInode(t).type = t /\ NewInode(t).size = 0
       /\ NewInode(t).blocks = FreeInode.blocks
<1>1. 0 \in BlockId /\ 0 \in 0..MAXFILE
  BY Numbers
<1> DEFINE zero == [i \in 0..NDIRECT |-> 0]
<1>2. zero \in [0..NDIRECT -> BlockId] /\ \A j \in 0..NDIRECT : zero[j] = 0
  BY <1>1
<1>3. FreeInode = [type |-> 0, size |-> 0, blocks |-> zero]
  BY DEF FreeInode
<1> HIDE DEF zero
<1>4. FreeInode \in Inode /\ FreeInode.type = 0 /\ FreeInode.size = 0 /\ FreeInode.blocks = zero
  BY <1>1, <1>2, <1>3 DEF Inode
<1>5. \A t : NewInode(t) = [type |-> t, size |-> 0, blocks |-> zero]
  BY <1>3 DEF NewInode
<1>6. ASSUME NEW t \in {T_DIR, T_FILE}
      PROVE  /\ NewInode(t) \in Inode /\ NewInode(t).type = t /\ NewInode(t).size = 0
             /\ NewInode(t).blocks = zero
  BY <1>1, <1>2, <1>5 DEF Inode
<1> QED
  BY <1>2, <1>4, <1>6

LEMMA InitDisk == Init => DiskInv
<1> SUFFICES ASSUME Init PROVE DiskInv
  OBVIOUS
<1>1. /\ block_bitmap = Reserved \cap BlockId /\ disk = [b \in BlockId |-> ZeroBlock]
      /\ inode = [i \in Inum |-> IF i = 1 THEN NewInode(T_DIR) ELSE FreeInode]
  BY DEF Init, InodeInit, BlockInit
<1>2. \A i \in Inum : inode[i] \in Inode /\ \A j \in 0..NDIRECT : inode[i].blocks[j] = 0
  BY <1>1, NewInodeFacts
<1>3. DiskTypeOK
  <2>1. inode \in [Inum -> Inode]
    BY <1>1, NewInodeFacts
  <2> QED
    BY <1>1, <2>1, ZeroBlockFacts DEF DiskTypeOK, Inode
<1>4. SystemInv
  <2>1. System \subseteq block_bitmap
    BY <1>1, TableReserved DEF System
  <2> QED
    BY <1>1, <1>2, <2>1, SystemFacts, ZeroBlockFacts DEF SystemInv, Clean
<1> QED
  BY <1>3, <1>4 DEF DiskInv

LEMMA AllocInumFacts ==
  ASSUME FreeInums # {}
  PROVE  AllocInum \in Inum /\ AllocInum # 0 /\ inode[AllocInum].type = 0
<1>1. FreeInums \subseteq Nat
  BY LayoutAssumption DEF FreeInums, Inum
<1>2. \E i \in FreeInums : \A j \in FreeInums : i <= j
  BY <1>1, LeastNumber
<1>3. AllocInum = CHOOSE i \in FreeInums : \A j \in FreeInums : i <= j
  BY DEF AllocInum
<1>4. AllocInum \in FreeInums
  BY <1>2, <1>3
<1> QED
  BY <1>4 DEF FreeInums

LEMMA CreateDisk ==
  ASSUME DiskInv, NEW t \in {T_DIR, T_FILE}, AllocInode(t)
  PROVE  DiskInv'
<1>1. UNCHANGED <<block_bitmap, disk, full>>
  BY DEF AllocInode, blockVars
<1>2. inode \in [Inum -> Inode] /\ 0 \notin System
  BY SystemFacts DEF DiskInv, DiskTypeOK, Inode
<1>3. CASE FreeInums = {}
  <2>1. inode' = inode
    BY <1>3 DEF AllocInode
  <2> QED
    BY <1>1, <2>1 DEF DiskInv, DiskTypeOK, SystemInv, Clean
<1>4. CASE FreeInums # {}
  <2>1. inode' = [inode EXCEPT ![AllocInum] = NewInode(t)] /\ AllocInum \in Inum
    BY <1>4, AllocInumFacts DEF AllocInode
  <2>2. /\ inode' \in [Inum -> Inode]
        /\ \A i \in Inum : inode'[i] = IF i = AllocInum THEN NewInode(t) ELSE inode[i]
    BY <1>2, <2>1, NewInodeFacts
  <2>3. \A j \in 0..NDIRECT : NewInode(t).blocks[j] \notin System
    BY <1>2, NewInodeFacts
  <2>4. DiskTypeOK'
    BY <1>1, <2>2 DEF DiskInv, DiskTypeOK, Inode
  <2>5. SystemInv'
    BY <1>1, <2>2, <2>3 DEF DiskInv, SystemInv, Clean
  <2> QED
    BY <2>4, <2>5 DEF DiskInv
<1> QED
  BY <1>3, <1>4

\* No file has a block of the file system.
LEMMA FileBlocksClean ==
  ASSUME DiskInv, NEW i \in Inum
  PROVE  FileBlocks(i) \cap System = {}
<1> DEFINE ino == inode[i]
           indirect == disk[ino.blocks[NDIRECT]]
<1>1. NDIRECT \in Nat /\ NDIRECT \in 0..NDIRECT /\ MAXFILE = NDIRECT + WORDS /\ WORDS \in Nat
  BY Numbers
<1>2. /\ ino.blocks \in [0..NDIRECT -> BlockId]
      /\ \A j \in 0..NDIRECT : ino.blocks[j] \notin System
  BY DEF DiskInv, DiskTypeOK, SystemInv
<1>3. \A k \in 0..(WORDS - 1) : indirect[k] \notin System
  BY <1>1, <1>2 DEF DiskInv, SystemInv, Clean
<1> HIDE DEF ino, indirect
<1>4. ASSUME NEW j \in 0..(MAXFILE - 1)
      PROVE  BlockNo(ino, indirect, j) \notin System
  <2>1. CASE j < NDIRECT
    BY <1>1, <1>2, <2>1 DEF BlockNo
  <2>2. CASE ~(j < NDIRECT)
    <3>1. j - NDIRECT \in 0..(WORDS - 1)
      BY <1>1, <2>2
    <3> QED
      BY <1>3, <2>2, <3>1 DEF BlockNo
  <2> QED
    BY <2>1, <2>2
<1>5. ino.blocks[NDIRECT] \notin System
  BY <1>1, <1>2
<1>6. FileBlocks(i) = {BlockNo(ino, indirect, j) : j \in {k \in 0..(MAXFILE - 1) : k < ino.size}}
          \cup (IF ino.size > NDIRECT THEN {ino.blocks[NDIRECT]} ELSE {})
  BY DEF FileBlocks, ino, indirect
<1> QED
  BY <1>4, <1>5, <1>6

LEMMA RemoveDisk ==
  ASSUME DiskInv, NEW i \in Inum, RemoveFile(i)
  PROVE  DiskInv'
<1>1. /\ block_bitmap' = block_bitmap \ FileBlocks(i) /\ disk' = disk
      /\ inode' = [inode EXCEPT ![i] = FreeInode]
  BY DEF RemoveFile, FreeAll
<1>2. inode \in [Inum -> Inode] /\ 0 \notin System
  BY SystemFacts DEF DiskInv, DiskTypeOK, Inode
<1>3. /\ inode' \in [Inum -> Inode]
      /\ \A k \in Inum : inode'[k] = IF k = i THEN FreeInode ELSE inode[k]
  BY <1>1, <1>2, NewInodeFacts
<1>4. DiskTypeOK'
  BY <1>1, <1>3 DEF DiskInv, DiskTypeOK, Inode
<1>5. System \subseteq block_bitmap'
  BY <1>1, FileBlocksClean DEF DiskInv, SystemInv
<1>6. \A j \in 0..NDIRECT : FreeInode.blocks[j] \notin System
  BY <1>2, NewInodeFacts
<1>7. SystemInv'
  BY <1>1, <1>3, <1>5, <1>6 DEF DiskInv, SystemInv, Clean
<1> QED
  BY <1>4, <1>7 DEF DiskInv

LEMMA NextDisk == DiskInv /\ [Next]_vars => DiskInv'
<1> SUFFICES ASSUME DiskInv, [Next]_vars PROVE DiskInv'
  OBVIOUS
<1>1. ASSUME UNCHANGED <<block_bitmap, disk, full, inode>> PROVE DiskInv'
  BY <1>1 DEF DiskInv, DiskTypeOK, SystemInv, Clean
<1>2. ASSUME NEW t \in {T_DIR, T_FILE}, Create(t) PROVE DiskInv'
  BY <1>2, CreateDisk DEF Create
<1>3. ASSUME NEW id \in Id, Get(id) \/ GetAttr(id) PROVE DiskInv'
  BY <1>1, <1>3 DEF Get, GetAttr
<1>4. ASSUME NEW id \in Id, Remove(id) PROVE DiskInv'
  BY <1>1, <1>4, RemoveDisk DEF Remove, Exists
<1>5. ASSUME NEW id \in Id, NEW n \in 0..MaxPut, NEW v \in Version, Put(id, n, v)
      PROVE  DiskInv'
  BY <1>1, <1>5, WriteFileDisk DEF Put, Exists
<1>6. CASE UNCHANGED vars
  BY <1>1, <1>6 DEF vars
<1> QED
  BY <1>2, <1>3, <1>4, <1>5, <1>6 DEF Next

LEMMA DiskInvHolds == Spec => []DiskInv
<1>1. Init => DiskInv
  BY InitDisk
<1>2. DiskInv /\ [Next]_vars => DiskInv'
  BY NextDisk
<1> QED
  BY <1>1, <1>2, PTL DEF Spec

(***************************************************************************)
(* Every number in the bitmap and in an inode is that of a block of the    *)
(* disk, and sizes do not exceed MAXFILE, for every layout of the disk and *)
(* through every sequence of requests, those that overflow it included.    *)
(***************************************************************************)
THEOREM DiskTypeCorrect == Spec => []DiskTypeOK
<1>1. DiskInv => DiskTypeOK
  BY DEF DiskInv
<1> QED
  BY <1>1, DiskInvHolds, PTL

(***************************************************************************)
(* The blocks that IBLOCK locates inodes in are marked from the start and  *)
(* for ever, and no file comes by one of them: not by alloc_block, not     *)
(* from the words an indirect block held before, not when the disk is full *)
(* and alloc_block returns 0.                                              *)
(***************************************************************************)
THEOREM InodeTableStaysSafe == Spec => []InodeTableSafe
<1>1. ASSUME DiskInv PROVE InodeTableSafe
  <2>1. \A i \in Inum : IBLOCK(i) \in System /\ System \subseteq block_bitmap
    BY <1>1, SystemFacts DEF DiskInv, SystemInv
  <2>2. \A i \in Files : FileBlocks(i) \cap System = {}
    BY <1>1, FileBlocksClean DEF Files
  <2> QED
    BY <2>1, <2>2 DEF InodeTableSafe, UsedBlocks
<1> QED
  BY <1>1, DiskInvHolds, PTL

-----------------------------------------------------------------------------
(***************************************************************************)
(* The blocks of files.  A file has a slot for each block of its size, and *)
(* slot MAXFILE for its indirect block.                                    *)
(***************************************************************************)
Slots(size) == 0..(size - 1) \cup (IF size > NDIRECT THEN {MAXFILE} ELSE {})

SlotNo(ino, d, s) ==
    IF s = MAXFILE THEN ino.blocks[NDIRECT] ELSE BlockNo(ino, d[ino.blocks[NDIRECT]], s)

\* Until the disk overflows, no block is in two slots, and a block in a slot is
\* marked and none of the file system's.
OwnInv ==
    ~full =>
        /\ Reserved \subseteq block_bitmap
        /\ \A i \in Files : \A s \in Slots(inode[i].size) :
              SlotNo(inode[i], disk, s) \in block_bitmap \ Reserved
        /\ \A i, k \in Files : \A s \in Slots(inode[i].size), r \in Slots(inode[k].size) :
              SlotNo(inode[i], disk, s) = SlotNo(inode[k], disk, r) => i = k /\ s = r

StoreInv == DiskInv /\ OwnInv

LEMMA InodeFacts ==
  ASSUME DiskTypeOK, NEW i \in Inum
  PROVE  /\ inode \in [Inum -> Inode] /\ inode[i] \in Inode
         /\ inode[i].size \in Nat /\ inode[i].size <= MAXFILE
         /\ inode[i].blocks \in [0..NDIRECT -> BlockId]
<1>1. inode \in [Inum -> Inode] /\ inode[i] \in Inode
  BY DEF DiskTypeOK, Inode
<1> QED
  BY <1>1, Numbers DEF Inode

LEMMA SlotFacts ==
  ASSUME NEW z \in Nat, z <= MAXFILE
  PROVE  /\ \A s \in Slots(z) : s \in Nat /\ s <= MAXFILE
         /\ \A s \in Slots(z) : s # MAXFILE => s < z
         /\ MAXFILE \in Slots(z) <=> NDIRECT < z
         /\ \A s \in 0..(z - 1) : s \in Slots(z) /\ s # MAXFILE
  BY Numbers DEF Slots

\* The blocks of an inode on a disk.
InodeBlocks(ino, d) == {SlotNo(ino, d, s) : s \in Slots(ino.size)}

LEMMA SlotsAreBlocks ==
  ASSUME NEW ino \in Inode, NEW d
  PROVE  {BlockNo(ino, d[ino.blocks[NDIRECT]], j) : j \in {k \in 0..(MAXFILE - 1) : k < ino.size}}
           \cup (IF ino.size > NDIRECT THEN {ino.blocks[NDIRECT]} ELSE {}) = InodeBlocks(ino, d)
<1> DEFINE z == ino.size
           indirect == d[ino.blocks[NDIRECT]]
<1>1. z \in Nat /\ z <= MAXFILE /\ MAXFILE \in Nat /\ NDIRECT \in Nat
  BY Numbers DEF Inode
<1>3. {k \in 0..(MAXFILE - 1) : k < z} = 0..(z - 1)
  <2> HIDE DEF z
  <2> QED
    BY <1>1
<1>4. \A s \in 0..(z - 1) : SlotNo(ino, d, s) = BlockNo(ino, indirect, s)
  <2>1. \A s \in 0..(z - 1) : s # MAXFILE
    BY <1>1
  <2> QED
    BY <2>1 DEF SlotNo
<1>5. SlotNo(ino, d, MAXFILE) = ino.blocks[NDIRECT]
  BY DEF SlotNo
<1> HIDE DEF z, indirect
<1>6. {SlotNo(ino, d, s) : s \in Slots(z)}
        = {SlotNo(ino, d, s) : s \in 0..(z - 1)}
            \cup (IF z > NDIRECT THEN {SlotNo(ino, d, MAXFILE)} ELSE {})
  BY DEF Slots
<1>7. {SlotNo(ino, d, s) : s \in 0..(z - 1)} = {BlockNo(ino, indirect, j) : j \in 0..(z - 1)}
  BY <1>4
<1>8. {BlockNo(ino, indirect, j) : j \in {k \in 0..(MAXFILE - 1) : k < z}}
        \cup (IF z > NDIRECT THEN {ino.blocks[NDIRECT]} ELSE {})
        = {SlotNo(ino, d, s) : s \in Slots(z)}
  BY <1>3, <1>5, <1>6, <1>7
<1> QED
  BY <1>8 DEF z, indirect, InodeBlocks

\* The turn of a new slot in the allocations of write_file.
Turn(z, n, s) ==
    IF s = MAXFILE THEN NDIRECT - z + 1
    ELSE s - z + (IF z <= NDIRECT /\ NDIRECT < n /\ NDIRECT <= s THEN 2 ELSE 1)

LEMMA TurnFacts ==
  ASSUME NEW ino, NEW z \in Nat, z = ino.size, z <= MAXFILE, NEW n \in Nat, n < MAXFILE
  PROVE  /\ NewBlocks(ino, n) \in Nat
         /\ \A s \in Slots(n) \ Slots(z) : Turn(z, n, s) \in 1..NewBlocks(ino, n)
         /\ \A s, r \in Slots(n) \ Slots(z) : Turn(z, n, s) = Turn(z, n, r) => s = r
         /\ \A m \in 1..NewBlocks(ino, n) : \E s \in Slots(n) \ Slots(z) : Turn(z, n, s) = m
<1>1. NDIRECT \in Nat /\ NDIRECT > 0 /\ MAXFILE \in Nat /\ NDIRECT < MAXFILE
  BY Numbers
<1> DEFINE ni == z <= NDIRECT /\ NDIRECT < n
           total == (IF z < n THEN n - z ELSE 0) + (IF ni THEN 1 ELSE 0)
<1>2. NewBlocks(ino, n) = total
  BY DEF NewBlocks, NewIndirect
<1>3. \A s : s \in Slots(n) \ Slots(z) <=> (s \in Nat /\ z <= s /\ s < n) \/ (s = MAXFILE /\ ni)
  BY <1>1 DEF Slots
<1>4. \A s : s # MAXFILE => Turn(z, n, s) = s - z + (IF ni /\ NDIRECT <= s THEN 2 ELSE 1)
  BY DEF Turn
<1>5. Turn(z, n, MAXFILE) = NDIRECT - z + 1
  BY DEF Turn
<1>6. \A s \in Slots(n) \ Slots(z) : Turn(z, n, s) \in 1..total
  <2> SUFFICES ASSUME NEW s \in Slots(n) \ Slots(z) PROVE Turn(z, n, s) \in 1..total
    OBVIOUS
  <2>1. CASE s = MAXFILE
    BY <1>1, <1>3, <1>5, <2>1
  <2>2. CASE s # MAXFILE
    <3>1. s \in Nat /\ z <= s /\ s < n
      BY <1>3, <2>2
    <3> QED
      BY <1>1, <1>4, <2>2, <3>1
  <2> QED
    BY <2>1, <2>2
<1>7. \A s, r \in Slots(n) \ Slots(z) : Turn(z, n, s) = Turn(z, n, r) => s = r
  <2> SUFFICES ASSUME NEW s \in Slots(n) \ Slots(z), NEW r \in Slots(n) \ Slots(z),
                      Turn(z, n, s) = Turn(z, n, r)
               PROVE  s = r
    OBVIOUS
  <2>1. CASE s # MAXFILE /\ r # MAXFILE
    BY <1>1, <1>3, <1>4, <2>1
  <2>2. CASE s = MAXFILE /\ r # MAXFILE
    BY <1>1, <1>3, <1>4, <1>5, <2>2
  <2>3. CASE s # MAXFILE /\ r = MAXFILE
    BY <1>1, <1>3, <1>4, <1>5, <2>3
  <2> QED
    BY <2>1, <2>2, <2>3
<1>8. \A m \in 1..total : \E s \in Slots(n) \ Slots(z) : Turn(z, n, s) = m
  <2> SUFFICES ASSUME NEW m \in 1..total
               PROVE  \E s \in Slots(n) \ Slots(z) : Turn(z, n, s) = m
    OBVIOUS
  <2>1. m \in Nat /\ m >= 1 /\ m <= total /\ z < n
    BY <1>1
  <2>2. CASE ni /\ m = NDIRECT - z + 1
    BY <1>3, <1>5, <2>2
  <2>3. CASE ni /\ m > NDIRECT - z + 1
    <3> DEFINE s == m + z - 2
    <3>1. s \in Nat /\ z <= s /\ s < n /\ NDIRECT <= s /\ s # MAXFILE /\ s - z + 2 = m
      BY <1>1, <2>1, <2>3
    <3> HIDE DEF s
    <3> QED
      BY <1>3, <1>4, <2>3, <3>1
  <2>4. CASE ~ni \/ m < NDIRECT - z + 1
    <3> DEFINE s == m + z - 1
    <3>1. /\ s \in Nat /\ z <= s /\ s < n /\ s # MAXFILE /\ s - z + 1 = m
          /\ ~(ni /\ NDIRECT <= s)
      BY <1>1, <2>1, <2>4
    <3> HIDE DEF s
    <3> QED
      BY <1>3, <1>4, <2>4, <3>1
  <2> QED
    BY <1>1, <2>1, <2>2, <2>3, <2>4
<1> QED
  BY <1>2, <1>6, <1>7, <1>8

\* The block that write_file with n blocks has in a slot, old or new.
Target(ino, n, s) ==
    IF s \in Slots(ino.size) THEN SlotNo(ino, disk, s) ELSE NthAlloc(Turn(ino.size, n, s))

\* The targets are distinct, in range, and blocks of no other file.
LEMMA TargetFacts ==
  ASSUME StoreInv, ~full, NEW i \in Files, NEW n \in Nat, n < MAXFILE,
         NewBlocks(inode[i], n) <= Cardinality(FreeBlocks)
  PROVE  /\ \A s \in Slots(n) : Target(inode[i], n, s) \in BlockId \ Reserved
         /\ \A s, r \in Slots(n) : Target(inode[i], n, s) = Target(inode[i], n, r) => s = r
         /\ \A s \in Slots(n) : \A k \in Files : k # i =>
              \A r \in Slots(inode[k].size) : SlotNo(inode[k], disk, r) # Target(inode[i], n, s)
<1> DEFINE ino == inode[i]
           z == inode[i].size
<1>1. i \in Inum /\ DiskTypeOK /\ block_bitmap \subseteq BlockId /\ Reserved \subseteq block_bitmap
  BY DEF Files, StoreInv, DiskInv, DiskTypeOK, OwnInv
<1>2. z \in Nat /\ z <= MAXFILE
  BY <1>1, InodeFacts
<1>3. \A s \in Slots(n) \ Slots(z) : Turn(z, n, s) \in 1..Cardinality(FreeBlocks)
  <2>1. Cardinality(FreeBlocks) \in Nat
    BY <1>1, NthAllocFacts
  <2>2. /\ NewBlocks(ino, n) \in Nat
        /\ \A s \in Slots(n) \ Slots(z) : Turn(z, n, s) \in 1..NewBlocks(ino, n)
    BY <1>2, TurnFacts
  <2> HIDE DEF z
  <2> QED
    BY <2>1, <2>2
<1>4. \A s, r \in Slots(n) \ Slots(z) : Turn(z, n, s) = Turn(z, n, r) => s = r
  BY <1>2, TurnFacts
<1>5. /\ \A m \in 1..Cardinality(FreeBlocks) : NthAlloc(m) \in FreeBlocks
      /\ \A m, l \in 1..Cardinality(FreeBlocks) : NthAlloc(m) = NthAlloc(l) => m = l
  BY <1>1, NthAllocFacts
<1>6. /\ \A k \in Files : \A s \in Slots(inode[k].size) :
           SlotNo(inode[k], disk, s) \in block_bitmap \ Reserved
      /\ \A h, k \in Files : \A s \in Slots(inode[h].size), r \in Slots(inode[k].size) :
           SlotNo(inode[h], disk, s) = SlotNo(inode[k], disk, r) => h = k /\ s = r
  BY DEF StoreInv, OwnInv
<1>7. \A s \in Slots(n) : s \in Slots(z) => Target(ino, n, s) = SlotNo(ino, disk, s)
  BY DEF Target
<1>8. \A s \in Slots(n) : s \notin Slots(z) => Target(ino, n, s) = NthAlloc(Turn(z, n, s))
  BY DEF Target
<1> HIDE DEF z
<1>9. \A s \in Slots(n) : s \notin Slots(z) => Target(ino, n, s) \in FreeBlocks
  BY <1>3, <1>5, <1>8
<1>10. \A s \in Slots(n) : s \in Slots(z) => Target(ino, n, s) \in block_bitmap \ Reserved
  BY <1>6, <1>7 DEF z
<1>11. \A b \in FreeBlocks : b \in BlockId \ Reserved /\ b \notin block_bitmap
  BY <1>1 DEF FreeBlocks
<1>12. \A s \in Slots(n) : Target(ino, n, s) \in BlockId \ Reserved
  BY <1>1, <1>9, <1>10, <1>11
<1>13. \A s, r \in Slots(n) : Target(ino, n, s) = Target(ino, n, r) => s = r
  <2> SUFFICES ASSUME NEW s \in Slots(n), NEW r \in Slots(n),
                      Target(ino, n, s) = Target(ino, n, r)
               PROVE  s = r
    OBVIOUS
  <2>1. s \in Slots(z) <=> r \in Slots(z)
    BY <1>9, <1>10, <1>11
  <2>2. CASE s \in Slots(z) /\ r \in Slots(z)
    BY <1>6, <1>7, <2>2 DEF z
  <2>3. CASE s \notin Slots(z) /\ r \notin Slots(z)
    BY <1>3, <1>4, <1>5, <1>8, <2>3
  <2> QED
    BY <2>1, <2>2, <2>3
<1>14. ASSUME NEW s \in Slots(n), NEW k \in Files, k # i, NEW r \in Slots(inode[k].size)
       PROVE  SlotNo(inode[k], disk, r) # Target(ino, n, s)
  <2>1. CASE s \in Slots(z)
    BY <1>6, <1>7, <1>14, <2>1 DEF z
  <2>2. CASE s \notin Slots(z)
    BY <1>6, <1>9, <1>11, <1>14, <2>2
  <2> QED
    BY <2>1, <2>2
<1> QED
  BY <1>12, <1>13, <1>14

\* Blocks written to distinct targets hold the data they are to hold.
LEMMA WrittenDistinct ==
  ASSUME NEW d, NEW no, DOMAIN no \subseteq 0..MAXFILE, NEW v,
         \A j \in DOMAIN no : no[j] \in BlockId,
         \A j, k \in DOMAIN no : no[j] = no[k] => j = k
  PROVE  /\ \A b \in BlockId : (\A j \in DOMAIN no : no[j] # b) => Written(d, no, v)[b] = d[b]
         /\ \A j \in DOMAIN no : Written(d, no, v)[no[j]] = Data(v, j)
<1>1. \A b \in BlockId : (\A j \in DOMAIN no : no[j] # b) => Written(d, no, v)[b] = d[b]
  BY WrittenFacts
<1> DEFINE D == DOMAIN no
           Last(b, j) == no[j] = b /\ \A k \in D : no[k] = b => k <= j
<1>2. Written(d, no, v) = [b \in BlockId |-> IF \E j \in D : no[j] = b
                                             THEN Data(v, CHOOSE j \in D : Last(b, j)) ELSE d[b]]
  BY DEF Written
<1>3. ASSUME NEW j \in D PROVE Written(d, no, v)[no[j]] = Data(v, j)
  <2>1. \A k \in D : Last(no[j], k) <=> k = j
    <3>1. j \in Nat /\ j <= j
      BY <1>3
    <3> QED
      BY <3>1
  <2>2. (CHOOSE k \in D : Last(no[j], k)) = j
    <3> HIDE DEF Last
    <3> QED
      BY <1>3, <2>1
  <2>3. no[j] \in BlockId /\ \E k \in D : no[k] = no[j]
    BY <1>3
  <2> HIDE DEF D, Last
  <2> QED
    BY <1>2, <2>2, <2>3
<1> QED
  BY <1>1, <1>3

\* What write_file leaves: the slots of the file are its targets, each target of
\* a data block holds its data, and no other block changes.
LEMMA WriteFileSlots ==
  ASSUME StoreInv, ~full, NEW i \in Files, NEW n \in 0..MaxPut, n < MAXFILE,
         NEW v \in Version, WriteFile(i, n, v),
         NewBlocks(inode[i], n) <= Cardinality(FreeBlocks)
  PROVE  /\ inode'[i].size = n /\ inode'[i].type = inode[i].type
         /\ \A k \in Inum : k # i => inode'[k] = inode[k]
         /\ \A s \in Slots(n) : SlotNo(inode'[i], disk', s) = Target(inode[i], n, s)
         /\ \A b \in BlockId : (\A s \in Slots(n) : Target(inode[i], n, s) # b) => disk'[b] = disk[b]
         /\ \A s \in 0..(n - 1) : disk'[Target(inode[i], n, s)] = Data(v, s)
<1> DEFINE ino == inode[i]
           z == ino.size
           T(s) == Target(ino, n, s)
           blocks == Blocks(ino, n)
           no1 == [j \in {k \in 0..(NDIRECT - 1) : k < n} |-> blocks[j]]
           d1 == Written(disk, no1, v)
           before == IF NewIndirect(ino, n) THEN ZeroBlock ELSE d1[blocks[NDIRECT]]
           indirect == IndirectBlock(ino, n, before)
           no2 == [j \in NDIRECT..(n - 1) |-> indirect[j - NDIRECT]]
           d2 == Written(d1, no2, v)
<1>1. /\ disk' = IF NDIRECT < n /\ n < MAXFILE
                 THEN [d2 EXCEPT ![blocks[NDIRECT]] = indirect] ELSE d2
      /\ inode' = [inode EXCEPT ![i] = [@ EXCEPT !.size = n, !.blocks = blocks]]
  BY DEF WriteFile
<1>2. i \in Inum /\ DiskTypeOK
  BY DEF Files, StoreInv, DiskInv
<1>3. /\ NDIRECT \in Nat /\ NDIRECT > 0 /\ WORDS \in Nat /\ MAXFILE = NDIRECT + WORDS
      /\ MAXFILE \in Nat /\ n \in Nat /\ NDIRECT < MAXFILE
  BY Numbers
<1>4. ino \in Inode /\ inode \in [Inum -> Inode] /\ z \in Nat /\ z <= MAXFILE
  BY <1>2, InodeFacts
<1>5. /\ \A s \in Slots(n) : T(s) \in BlockId \ Reserved
      /\ \A s, r \in Slots(n) : T(s) = T(r) => s = r
  BY TargetFacts
<1>6. /\ \A s \in Slots(n) : s \in Nat /\ s <= MAXFILE
      /\ MAXFILE \in Slots(n) <=> NDIRECT < n
      /\ \A s \in Slots(n) : s # MAXFILE => s < n
      /\ \A s \in 0..(n - 1) : s \in Slots(n) /\ s # MAXFILE
  BY <1>3, SlotFacts
<1>7. /\ MAXFILE \in Slots(z) <=> NDIRECT < z
      /\ \A s \in 0..(n - 1) : s \in Slots(z) <=> s < z
  <2>1. /\ MAXFILE \in Slots(z) <=> NDIRECT < z
        /\ \A s \in Slots(z) : s # MAXFILE => s < z
        /\ \A s \in 0..(z - 1) : s \in Slots(z)
    BY <1>4, SlotFacts
  <2> HIDE DEF z
  <2> QED
    BY <1>3, <1>4, <1>6, <2>1
<1>8. NewIndirect(ino, n) <=> z <= NDIRECT /\ NDIRECT < n
  BY DEF NewIndirect
<1>9. /\ \A s : s \in Slots(z) => T(s) = SlotNo(ino, disk, s)
      /\ \A s : s \notin Slots(z) => T(s) = NthAlloc(Turn(z, n, s))
  BY DEF Target
<1>10. /\ \A s : s < NDIRECT /\ s # MAXFILE => SlotNo(ino, disk, s) = ino.blocks[s]
       /\ \A s : ~(s < NDIRECT) /\ s # MAXFILE =>
             SlotNo(ino, disk, s) = disk[ino.blocks[NDIRECT]][s - NDIRECT]
       /\ SlotNo(ino, disk, MAXFILE) = ino.blocks[NDIRECT]
  BY DEF SlotNo, BlockNo
<1>11. \A j \in 0..(n - 1) : z <= j => NewBlock(ino, n, j) = T(j)
  <2> SUFFICES ASSUME NEW j \in 0..(n - 1), z <= j PROVE NewBlock(ino, n, j) = T(j)
    OBVIOUS
  <2>1. j \notin Slots(z) /\ j # MAXFILE
    BY <1>3, <1>4, <1>6, <1>7
  <2>2. NewBlock(ino, n, j) = NthAlloc(j - z + (IF NewIndirect(ino, n) /\ NDIRECT <= j THEN 2 ELSE 1))
    BY DEF NewBlock
  <2>3. Turn(z, n, j) = j - z + (IF z <= NDIRECT /\ NDIRECT < n /\ NDIRECT <= j THEN 2 ELSE 1)
    BY <2>1 DEF Turn
  <2> HIDE DEF T, z, ino
  <2>4. NewBlock(ino, n, j) = NthAlloc(Turn(z, n, j))
    BY <1>8, <2>2, <2>3
  <2> QED
    BY <1>9, <2>1, <2>4
<1> HIDE DEF T
\* The direct blocks and the indirect block.
<1>12. \A j \in 0..(NDIRECT - 1) : j < n => blocks[j] = T(j)
  <2> SUFFICES ASSUME NEW j \in 0..(NDIRECT - 1), j < n PROVE blocks[j] = T(j)
    OBVIOUS
  <2>1. j \in 0..(n - 1) /\ j \in 0..NDIRECT /\ j # NDIRECT /\ j < NDIRECT
    BY <1>3
  <2>2. blocks[j] = IF z <= j /\ j < n THEN NewBlock(ino, n, j) ELSE ino.blocks[j]
    BY <2>1 DEF Blocks
  <2> HIDE DEF blocks, z, ino
  <2>3. CASE z <= j
    BY <1>11, <2>1, <2>2, <2>3
  <2>4. CASE j < z
    <3>1. j \in Slots(z) /\ j # MAXFILE
      BY <1>6, <1>7, <2>1, <2>4
    <3> QED
      BY <1>4, <1>9, <1>10, <2>1, <2>2, <2>4, <3>1
  <2> QED
    BY <1>4, <2>3, <2>4
<1>13. NDIRECT < n => blocks[NDIRECT] = T(MAXFILE)
  <2> SUFFICES ASSUME NDIRECT < n PROVE blocks[NDIRECT] = T(MAXFILE)
    OBVIOUS
  <2>1. blocks[NDIRECT] = IF NewIndirect(ino, n) THEN NthAlloc(NDIRECT - z + 1) ELSE ino.blocks[NDIRECT]
    BY <1>3 DEF Blocks
  <2>2. Turn(z, n, MAXFILE) = NDIRECT - z + 1
    BY DEF Turn
  <2> HIDE DEF blocks, z, ino
  <2>3. CASE z <= NDIRECT
    <3>1. MAXFILE \notin Slots(z) /\ NewIndirect(ino, n)
      BY <1>3, <1>4, <1>7, <1>8, <2>3
    <3> QED
      BY <1>9, <2>1, <2>2, <3>1
  <2>4. CASE NDIRECT < z
    <3>1. MAXFILE \in Slots(z) /\ ~NewIndirect(ino, n)
      BY <1>3, <1>4, <1>7, <1>8, <2>4
    <3> QED
      BY <1>9, <1>10, <2>1, <3>1
  <2> QED
    BY <1>3, <1>4, <2>3, <2>4
<1>14. Blocks(ino, n) = blocks
  OBVIOUS
<1> HIDE DEF blocks
\* The first loop.
<1>15. /\ DOMAIN no1 = {k \in 0..(NDIRECT - 1) : k < n}
       /\ \A j \in DOMAIN no1 : no1[j] = T(j) /\ j \in Slots(n) /\ j \in 0..(n - 1) /\ j < NDIRECT
  <2>1. \A j \in 0..(NDIRECT - 1) : j < n => j \in 0..(n - 1) /\ j < NDIRECT
    BY <1>3
  <2> QED
    BY <1>6, <1>12, <2>1
<1>16. DOMAIN no1 \subseteq 0..MAXFILE
  BY <1>6, <1>15
<1> HIDE DEF no1
<1>17. /\ \A b \in BlockId : (\A j \in DOMAIN no1 : no1[j] # b) => d1[b] = disk[b]
       /\ \A j \in DOMAIN no1 : d1[no1[j]] = Data(v, j)
  <2>1. /\ \A j \in DOMAIN no1 : no1[j] \in BlockId
        /\ \A j, k \in DOMAIN no1 : no1[j] = no1[k] => j = k
    BY <1>5, <1>15
  <2> QED
    BY <1>16, <2>1, WrittenDistinct
<1> HIDE DEF d1
<1>18. /\ \A s \in Slots(n) : ~(s < NDIRECT) => d1[T(s)] = disk[T(s)]
       /\ \A s \in Slots(n) : s < NDIRECT => d1[T(s)] = Data(v, s)
       /\ \A b \in BlockId : (\A s \in Slots(n) : T(s) # b) => d1[b] = disk[b]
  <2>1. ASSUME NEW s \in Slots(n), ~(s < NDIRECT) PROVE d1[T(s)] = disk[T(s)]
    <3>1. \A j \in DOMAIN no1 : no1[j] # T(s)
      BY <1>5, <1>15, <2>1
    <3> QED
      BY <1>5, <1>17, <3>1
  <2>2. ASSUME NEW s \in Slots(n), s < NDIRECT PROVE d1[T(s)] = Data(v, s)
    <3>1. s \in DOMAIN no1
      BY <1>3, <1>6, <1>15, <2>2
    <3> QED
      BY <1>15, <1>17, <3>1
  <2>3. ASSUME NEW b \in BlockId, \A s \in Slots(n) : T(s) # b PROVE d1[b] = disk[b]
    BY <1>15, <1>17, <2>3
  <2> QED
    BY <2>1, <2>2, <2>3

\* The numbers of the indirect block, and the second loop.
<1>19. \A j \in NDIRECT..(n - 1) : indirect[j - NDIRECT] = T(j)
  <2> SUFFICES ASSUME NEW j \in NDIRECT..(n - 1) PROVE indirect[j - NDIRECT] = T(j)
    OBVIOUS
  <2> DEFINE k == j - NDIRECT
  <2>1. /\ k \in 0..(WORDS - 1) /\ NDIRECT + k = j /\ j \in 0..(n - 1) /\ j < n /\ NDIRECT < n
        /\ ~(j < NDIRECT)
    BY <1>3
  <2>2. indirect[k] = IF z <= NDIRECT + k /\ NDIRECT + k < n THEN NewBlock(ino, n, NDIRECT + k)
                      ELSE before[k]
    <3> HIDE DEF k, before, ino
    <3> QED
      BY <2>1 DEF IndirectBlock
  <2> SUFFICES indirect[k] = T(j)
    OBVIOUS
  <2> HIDE DEF k, before, indirect
  <2>3. CASE z <= j
    BY <1>11, <2>1, <2>2, <2>3
  <2>4. CASE j < z
    <3>1. MAXFILE \in Slots(z) /\ ~NewIndirect(ino, n) /\ j \in Slots(z) /\ j # MAXFILE
      <4> HIDE DEF z, ino
      <4> QED
        BY <1>3, <1>4, <1>6, <1>7, <1>8, <2>1, <2>4
    <3>2. MAXFILE \in Slots(n) /\ ~(MAXFILE < NDIRECT)
      BY <1>3, <1>6, <2>1
    <3>3. before = d1[T(MAXFILE)]
      BY <1>13, <2>1, <3>1 DEF before
    <3>4. before = disk[ino.blocks[NDIRECT]]
      BY <1>9, <1>10, <1>18, <3>1, <3>2, <3>3
    <3>5. indirect[k] = before[k]
      BY <1>4, <2>1, <2>2, <2>4
    <3>6. T(j) = disk[ino.blocks[NDIRECT]][j - NDIRECT]
      BY <1>9, <1>10, <2>1, <3>1
    <3> QED
      BY <3>4, <3>5, <3>6 DEF k
  <2> QED
    BY <1>4, <2>1, <2>3, <2>4
<1> HIDE DEF indirect
<1>20. /\ DOMAIN no2 = NDIRECT..(n - 1)
       /\ \A j \in DOMAIN no2 : no2[j] = T(j) /\ j \in Slots(n) /\ ~(j < NDIRECT) /\ j # MAXFILE
  <2>1. \A j \in NDIRECT..(n - 1) : j \in 0..(n - 1) /\ ~(j < NDIRECT)
    BY <1>3
  <2> QED
    BY <1>6, <1>19, <2>1
<1> HIDE DEF no2
<1>21. DOMAIN no2 \subseteq 0..MAXFILE
  BY <1>6, <1>20
<1>22. /\ \A b \in BlockId : (\A j \in DOMAIN no2 : no2[j] # b) => d2[b] = d1[b]
       /\ \A j \in DOMAIN no2 : d2[no2[j]] = Data(v, j)
       /\ DOMAIN d2 = BlockId
  <2>1. /\ \A j \in DOMAIN no2 : no2[j] \in BlockId
        /\ \A j, k \in DOMAIN no2 : no2[j] = no2[k] => j = k
    BY <1>5, <1>20
  <2>2. DOMAIN d2 = BlockId
    BY DEF Written
  <2> QED
    BY <1>21, <2>1, <2>2, WrittenDistinct
<1> HIDE DEF d2
<1>23. /\ \A s \in 0..(n - 1) : d2[T(s)] = Data(v, s)
       /\ \A b \in BlockId : (\A s \in Slots(n) : T(s) # b) => d2[b] = disk[b]
  <2>1. ASSUME NEW s \in 0..(n - 1), s < NDIRECT PROVE d2[T(s)] = Data(v, s)
    <3>1. s \in Slots(n)
      BY <1>6
    <3>2. \A j \in DOMAIN no2 : no2[j] # T(s)
      BY <1>5, <1>20, <2>1, <3>1
    <3> QED
      BY <1>5, <1>18, <1>22, <2>1, <3>1, <3>2
  <2>2. ASSUME NEW s \in 0..(n - 1), ~(s < NDIRECT) PROVE d2[T(s)] = Data(v, s)
    <3>1. s \in DOMAIN no2
      BY <1>3, <1>20, <2>2
    <3> QED
      BY <1>20, <1>22, <3>1
  <2>3. ASSUME NEW b \in BlockId, \A s \in Slots(n) : T(s) # b PROVE d2[b] = disk[b]
    BY <1>18, <1>20, <1>22, <2>3
  <2> QED
    BY <2>1, <2>2, <2>3
<1>24. /\ \A s \in 0..(n - 1) : disk'[T(s)] = Data(v, s)
       /\ \A b \in BlockId : (\A s \in Slots(n) : T(s) # b) => disk'[b] = disk[b]
       /\ NDIRECT < n => disk'[T(MAXFILE)] = indirect
  <2>1. CASE NDIRECT < n
    <3>1. MAXFILE \in Slots(n) /\ T(MAXFILE) \in BlockId
      BY <1>5, <1>6, <2>1
    <3>2. disk' = [d2 EXCEPT ![T(MAXFILE)] = indirect]
      BY <1>1, <1>13, <2>1
    <3>3. disk'[T(MAXFILE)] = indirect /\ \A b \in BlockId : b # T(MAXFILE) => disk'[b] = d2[b]
      BY <1>22, <3>1, <3>2
    <3>4. \A s \in 0..(n - 1) : T(s) \in BlockId /\ T(s) # T(MAXFILE)
      BY <1>5, <1>6, <3>1
    <3> QED
      BY <1>23, <3>1, <3>3, <3>4
  <2>2. CASE ~(NDIRECT < n)
    BY <1>1, <1>23, <2>2
  <2> QED
    BY <2>1, <2>2
<1>25. /\ inode'[i] = [type |-> ino.type, size |-> n, blocks |-> blocks]
       /\ \A k \in Inum : k # i => inode'[k] = inode[k]
  <2> DEFINE new == [type |-> ino.type, size |-> n, blocks |-> blocks]
  <2>1. inode' = [inode EXCEPT ![i] = new]
    BY <1>1, <1>2, <1>4, WriteInode
  <2> HIDE DEF new
  <2>2. inode'[i] = new /\ \A k \in Inum : k # i => inode'[k] = inode[k]
    BY <1>2, <1>4, <2>1
  <2> QED
    BY <2>2 DEF new
<1>26. inode'[i].size = n /\ inode'[i].type = ino.type /\ inode'[i].blocks = blocks
  BY <1>25
<1>27. ASSUME NEW s \in Slots(n) PROVE SlotNo(inode'[i], disk', s) = T(s)
  <2>1. CASE s = MAXFILE
    <3>1. SlotNo(inode'[i], disk', s) = blocks[NDIRECT]
      BY <1>26, <2>1 DEF SlotNo
    <3> QED
      BY <1>6, <1>13, <1>27, <2>1, <3>1
  <2>2. CASE s # MAXFILE /\ s < NDIRECT
    <3>1. SlotNo(inode'[i], disk', s) = blocks[s]
      BY <1>26, <2>2 DEF SlotNo, BlockNo
    <3>2. s \in 0..(NDIRECT - 1) /\ s < n
      BY <1>3, <1>6, <1>27, <2>2
    <3> QED
      BY <1>12, <3>1, <3>2
  <2>3. CASE s # MAXFILE /\ ~(s < NDIRECT)
    <3>1. s \in NDIRECT..(n - 1) /\ NDIRECT < n
      BY <1>3, <1>6, <1>27, <2>3
    <3>2. SlotNo(inode'[i], disk', s) = disk'[blocks[NDIRECT]][s - NDIRECT]
      BY <1>26, <2>3 DEF SlotNo, BlockNo
    <3> QED
      BY <1>13, <1>19, <1>24, <3>1, <3>2
  <2> QED
    BY <2>1, <2>2, <2>3
<1> QED
  BY <1>24, <1>25, <1>26, <1>27 DEF T

\* The blocks of a file, before and after a step.
LEMMA FileBlocksAre ==
  ASSUME NEW i \in Inum
  PROVE  /\ inode[i] \in Inode => FileBlocks(i) = InodeBlocks(inode[i], disk)
         /\ inode'[i] \in Inode => FileBlocks(i)' = InodeBlocks(inode'[i], disk')
<1>1. ASSUME inode[i] \in Inode PROVE FileBlocks(i) = InodeBlocks(inode[i], disk)
  BY <1>1, SlotsAreBlocks DEF FileBlocks
<1>2. ASSUME inode'[i] \in Inode PROVE FileBlocks(i)' = InodeBlocks(inode'[i], disk')
  BY <1>2, SlotsAreBlocks DEF FileBlocks
<1> QED
  BY <1>1, <1>2

\* The other files keep their slots.
LEMMA OtherSlots ==
  ASSUME StoreInv, ~full, NEW i \in Files, NEW n \in 0..MaxPut, n < MAXFILE,
         NEW v \in Version, WriteFile(i, n, v),
         NewBlocks(inode[i], n) <= Cardinality(FreeBlocks),
         NEW k \in Files, k # i
  PROVE  \A s \in Slots(inode[k].size) :
            /\ SlotNo(inode'[k], disk', s) = SlotNo(inode[k], disk, s)
            /\ disk'[SlotNo(inode[k], disk, s)] = disk[SlotNo(inode[k], disk, s)]
<1>1. k \in Inum /\ DiskTypeOK /\ block_bitmap \subseteq BlockId
  BY DEF Files, StoreInv, DiskInv, DiskTypeOK
<1> DEFINE ino == inode[k]
           z == ino.size
<1>2. inode'[k] = ino
  BY <1>1, WriteFileSlots
<1>3. \A b \in BlockId : (\A r \in Slots(n) : Target(inode[i], n, r) # b) => disk'[b] = disk[b]
  BY WriteFileSlots
<1>4. \A r \in Slots(n) : \A s \in Slots(z) : SlotNo(ino, disk, s) # Target(inode[i], n, r)
  BY TargetFacts
<1>5. \A s \in Slots(z) : SlotNo(ino, disk, s) \in BlockId
  BY <1>1 DEF StoreInv, OwnInv
<1>6. z \in Nat /\ z <= MAXFILE /\ NDIRECT \in Nat /\ MAXFILE \in Nat
  BY <1>1, InodeFacts, Numbers
<1>7. \A s \in Slots(z) : ~(s < NDIRECT) => MAXFILE \in Slots(z)
  BY <1>6, SlotFacts
<1> HIDE DEF ino, z
<1>8. ASSUME NEW s \in Slots(z) PROVE disk'[SlotNo(ino, disk, s)] = disk[SlotNo(ino, disk, s)]
  BY <1>3, <1>4, <1>5
<1>9. ASSUME NEW s \in Slots(z) PROVE SlotNo(ino, disk', s) = SlotNo(ino, disk, s)
  <2>1. CASE s = MAXFILE \/ s < NDIRECT
    BY <2>1 DEF SlotNo, BlockNo
  <2>2. CASE s # MAXFILE /\ ~(s < NDIRECT)
    <3>1. SlotNo(ino, disk, MAXFILE) = ino.blocks[NDIRECT]
      BY DEF SlotNo
    <3>2. disk'[ino.blocks[NDIRECT]] = disk[ino.blocks[NDIRECT]]
      BY <1>7, <1>8, <2>2, <3>1
    <3> QED
      BY <2>2, <3>2 DEF SlotNo, BlockNo
  <2> QED
    BY <2>1, <2>2
<1> QED
  BY <1>2, <1>8, <1>9 DEF ino, z

LEMMA WriteOwn ==
  ASSUME StoreInv, NEW i \in Files, NEW n \in 0..MaxPut, n < MAXFILE,
         NEW v \in Version, WriteFile(i, n, v)
  PROVE  OwnInv'
<1> SUFFICES ASSUME ~full'
             PROVE  /\ Reserved \subseteq block_bitmap'
                    /\ \A k \in Files' : \A s \in Slots(inode'[k].size) :
                          SlotNo(inode'[k], disk', s) \in block_bitmap' \ Reserved
                    /\ \A h, k \in Files' : \A s \in Slots(inode'[h].size), r \in Slots(inode'[k].size) :
                          SlotNo(inode'[h], disk', s) = SlotNo(inode'[k], disk', r) => h = k /\ s = r
  BY DEF OwnInv
<1> DEFINE nb == NewBlocks(inode[i], n)
<1>1. /\ block_bitmap' = block_bitmap \cup {NthAlloc(j) : j \in 1..nb}
      /\ full' = (full \/ nb > Cardinality(FreeBlocks))
  BY DEF WriteFile, AllocBlocks
<1>2. i \in Inum /\ DiskTypeOK /\ block_bitmap \subseteq BlockId /\ n \in Nat
  BY DEF Files, StoreInv, DiskInv, DiskTypeOK
<1>3. inode[i].size \in Nat /\ inode[i].size <= MAXFILE
  BY <1>2, InodeFacts
<1>4. /\ nb \in Nat
      /\ \A s \in Slots(n) \ Slots(inode[i].size) : Turn(inode[i].size, n, s) \in 1..nb
  BY <1>2, <1>3, TurnFacts
<1>5. ~full /\ nb <= Cardinality(FreeBlocks)
  <2>1. Cardinality(FreeBlocks) \in Nat
    BY <1>2, NthAllocFacts
  <2> HIDE DEF nb
  <2>2. ~full /\ ~(nb > Cardinality(FreeBlocks))
    BY <1>1, Zenon
  <2>3. nb <= Cardinality(FreeBlocks)
    BY <1>4, <2>1, <2>2
  <2> QED
    BY <2>2, <2>3
<1>6. /\ inode'[i].size = n /\ inode'[i].type = inode[i].type
      /\ \A k \in Inum : k # i => inode'[k] = inode[k]
      /\ \A s \in Slots(n) : SlotNo(inode'[i], disk', s) = Target(inode[i], n, s)
  BY <1>5, WriteFileSlots
<1>7. Files' = Files
  BY <1>2, <1>6 DEF Files
<1>8. /\ Reserved \subseteq block_bitmap
      /\ \A k \in Files : \A s \in Slots(inode[k].size) :
            SlotNo(inode[k], disk, s) \in block_bitmap \ Reserved
      /\ \A h, k \in Files : \A s \in Slots(inode[h].size), r \in Slots(inode[k].size) :
            SlotNo(inode[h], disk, s) = SlotNo(inode[k], disk, r) => h = k /\ s = r
  BY <1>5 DEF StoreInv, OwnInv
<1>9. \A k \in Files : k # i => /\ inode'[k] = inode[k]
                                /\ \A s \in Slots(inode[k].size) :
                                      SlotNo(inode'[k], disk', s) = SlotNo(inode[k], disk, s)
  BY <1>5, <1>6, OtherSlots DEF Files
<1>10. /\ \A s \in Slots(n) : Target(inode[i], n, s) \in BlockId \ Reserved
       /\ \A s, r \in Slots(n) : Target(inode[i], n, s) = Target(inode[i], n, r) => s = r
       /\ \A s \in Slots(n) : \A k \in Files : k # i =>
            \A r \in Slots(inode[k].size) : SlotNo(inode[k], disk, r) # Target(inode[i], n, s)
  BY <1>5, TargetFacts
<1>11. \A s \in Slots(n) : Target(inode[i], n, s) \in block_bitmap'
  <2> SUFFICES ASSUME NEW s \in Slots(n) PROVE Target(inode[i], n, s) \in block_bitmap'
    OBVIOUS
  <2>1. CASE s \in Slots(inode[i].size)
    BY <1>1, <1>8, <2>1 DEF Target
  <2>2. CASE s \notin Slots(inode[i].size)
    <3>1. Target(inode[i], n, s) = NthAlloc(Turn(inode[i].size, n, s))
      BY <2>2 DEF Target
    <3> QED
      BY <1>1, <1>4, <2>2, <3>1
  <2> QED
    BY <2>1, <2>2
<1> HIDE DEF nb
<1>12. ASSUME NEW k \in Files, NEW s \in Slots(inode'[k].size)
       PROVE  SlotNo(inode'[k], disk', s) \in block_bitmap' \ Reserved
  <2>1. CASE k = i
    BY <1>6, <1>10, <1>11, <1>12, <2>1
  <2>2. CASE k # i
    BY <1>1, <1>8, <1>9, <1>12, <2>2
  <2> QED
    BY <2>1, <2>2
<1>13. ASSUME NEW h \in Files, NEW k \in Files,
              NEW s \in Slots(inode'[h].size), NEW r \in Slots(inode'[k].size),
              SlotNo(inode'[h], disk', s) = SlotNo(inode'[k], disk', r)
       PROVE  h = k /\ s = r
  <2>1. CASE h = i /\ k = i
    BY <1>6, <1>10, <1>13, <2>1
  <2>2. CASE h = i /\ k # i
    BY <1>6, <1>9, <1>10, <1>13, <2>2
  <2>3. CASE h # i /\ k = i
    BY <1>6, <1>9, <1>10, <1>13, <2>3
  <2>4. CASE h # i /\ k # i
    BY <1>8, <1>9, <1>13, <2>4
  <2> QED
    BY <2>1, <2>2, <2>3, <2>4
<1> QED
  BY <1>1, <1>7, <1>8, <1>12, <1>13

LEMMA CreateOwn ==
  ASSUME StoreInv, NEW t \in {T_DIR, T_FILE}, AllocInode(t)
  PROVE  OwnInv'
<1>1. UNCHANGED <<block_bitmap, disk, full>>
  BY DEF AllocInode, blockVars
<1>2. inode \in [Inum -> Inode] /\ T_DIR # 0 /\ T_FILE # 0
  BY DEF StoreInv, DiskInv, DiskTypeOK, Inode, T_DIR, T_FILE
<1>3. CASE FreeInums = {}
  <2>1. inode' = inode
    BY <1>3 DEF AllocInode
  <2> QED
    BY <1>1, <2>1 DEF StoreInv, OwnInv, Files
<1>4. CASE FreeInums # {}
  <2>1. inode' = [inode EXCEPT ![AllocInum] = NewInode(t)] /\ AllocInum \in Inum
    BY <1>4, AllocInumFacts DEF AllocInode
  <2>2. /\ \A i \in Inum : i # AllocInum => inode'[i] = inode[i]
        /\ inode'[AllocInum].size = 0
    BY <1>2, <2>1, NewInodeFacts
  <2>3. Slots(0) = {}
    BY Numbers DEF Slots
  <2>4. \A k \in Files' : \A s \in Slots(inode'[k].size) : k \in Files /\ inode'[k] = inode[k]
    BY <2>2, <2>3 DEF Files
  <2> QED
    BY <1>1, <2>4 DEF StoreInv, OwnInv
<1> QED
  BY <1>3, <1>4

LEMMA RemoveOwn ==
  ASSUME StoreInv, NEW i \in Files, RemoveFile(i)
  PROVE  OwnInv'
<1>1. /\ block_bitmap' = block_bitmap \ FileBlocks(i) /\ disk' = disk /\ full' = full
      /\ inode' = [inode EXCEPT ![i] = FreeInode] /\ i \in Inum
  BY DEF RemoveFile, FreeAll, Files
<1>2. inode \in [Inum -> Inode]
  BY DEF StoreInv, DiskInv, DiskTypeOK, Inode
<1>3. \A k \in Inum : inode'[k] = IF k = i THEN FreeInode ELSE inode[k]
  BY <1>1, <1>2, NewInodeFacts
<1>4. \A k \in Files' : k \in Files /\ k # i /\ inode'[k] = inode[k]
  BY <1>3, NewInodeFacts DEF Files
<1>5. FileBlocks(i) = InodeBlocks(inode[i], disk)
  BY <1>1, <1>2, FileBlocksAre
<1>6. ASSUME ~full
      PROVE  /\ Reserved \cap FileBlocks(i) = {}
             /\ \A k \in Files : k # i => \A s \in Slots(inode[k].size) :
                   SlotNo(inode[k], disk, s) \notin FileBlocks(i)
  BY <1>5, <1>6 DEF StoreInv, OwnInv, InodeBlocks
<1> QED
  BY <1>1, <1>4, <1>6 DEF StoreInv, OwnInv

LEMMA ReservedIn == Reserved \subseteq BlockId
<1> DEFINE A == CeilDiv(BLOCK_NUM, BPB)
           B == CeilDiv(INODE_NUM, IPB)
<1>1. /\ BLOCK_NUM \in Nat \ {0} /\ BPB \in Nat \ {0} /\ INODE_NUM \in Nat \ {0} /\ IPB \in Nat \ {0}
      /\ 2 + A + B < BLOCK_NUM
  BY LayoutAssumption
<1>2. A \in Nat /\ B \in Nat
  BY <1>1, CeilDivFacts
<1>3. Reserved = {0, 1} \cup {2 + i : i \in 0..(A - 1)} \cup {2 + A + i : i \in 0..B}
  BY DEF Reserved
<1> HIDE DEF A, B
<1> QED
  BY <1>1, <1>2, <1>3 DEF BlockId

LEMMA InitOwn == Init => OwnInv
<1> SUFFICES ASSUME Init PROVE OwnInv
  OBVIOUS
<1>1. /\ block_bitmap = Reserved \cap BlockId
      /\ inode = [i \in Inum |-> IF i = 1 THEN NewInode(T_DIR) ELSE FreeInode]
  BY DEF Init, InodeInit, BlockInit
<1>2. \A i \in Inum : inode[i].size = 0
  BY <1>1, NewInodeFacts
<1>3. Slots(0) = {}
  BY Numbers DEF Slots
<1> QED
  BY <1>1, <1>2, <1>3, ReservedIn DEF OwnInv, Files

LEMMA NextOwn == ASSUME MaxPut < MAXFILE PROVE StoreInv /\ [Next]_vars => OwnInv'
<1> SUFFICES ASSUME StoreInv, [Next]_vars PROVE OwnInv'
  OBVIOUS
<1>1. ASSUME NEW t \in {T_DIR, T_FILE}, Create(t) PROVE OwnInv'
  BY <1>1, CreateOwn DEF Create
<1>2. ASSUME UNCHANGED <<block_bitmap, disk, full, inode>> PROVE OwnInv'
  BY <1>2 DEF StoreInv, OwnInv, Files
<1>3. ASSUME NEW id \in Id, Get(id) \/ GetAttr(id) PROVE OwnInv'
  BY <1>2, <1>3 DEF Get, GetAttr
<1>4. ASSUME NEW id \in Id, Remove(id) PROVE OwnInv'
  <2> DEFINE i == Key(id)
  <2>1. CASE Exists(i)
    <3>1. i \in Files /\ RemoveFile(i)
      BY <1>4, <2>1 DEF Remove, Exists, Files
    <3> QED
      BY <3>1, RemoveOwn
  <2>2. CASE ~Exists(i)
    BY <1>2, <1>4, <2>2 DEF Remove
  <2> QED
    BY <2>1, <2>2
<1>5. ASSUME NEW id \in Id, NEW n \in 0..MaxPut, NEW v \in Version, Put(id, n, v) PROVE OwnInv'
  <2> DEFINE i == Key(id)
  <2>1. CASE Exists(i)
    <3>1. i \in Files /\ WriteFile(i, n, v)
      BY <1>5, <2>1 DEF Put, Exists, Files
    <3>2. n < MAXFILE
      BY Numbers
    <3> QED
      BY <3>1, <3>2, WriteOwn
  <2>2. CASE ~Exists(i)
    BY <1>2, <1>5, <2>2 DEF Put
  <2> QED
    BY <2>1, <2>2
<1>6. CASE UNCHANGED vars
  BY <1>2, <1>6 DEF vars
<1> QED
  BY <1>1, <1>3, <1>4, <1>5, <1>6 DEF Next

LEMMA StoreInvHolds == ASSUME MaxPut < MAXFILE PROVE Spec => []StoreInv
<1>1. Init => StoreInv
  BY InitDisk, InitOwn DEF StoreInv
<1>2. StoreInv /\ [Next]_vars => StoreInv'
  BY NextDisk, NextOwn DEF StoreInv
<1> QED
  BY <1>1, <1>2, PTL DEF Spec

LEMMA SlotCount ==
  ASSUME NEW z \in Nat, z <= MAXFILE
  PROVE  /\ IsFiniteSet(Slots(z))
         /\ Cardinality(Slots(z)) = z + (IF z > NDIRECT THEN 1 ELSE 0)
<1>1. IsFiniteSet(0..(z - 1)) /\ Cardinality(0..(z - 1)) = z
  BY FS_Interval
<1>2. MAXFILE \notin 0..(z - 1)
  BY Numbers
<1>3. CASE z > NDIRECT
  <2>1. Slots(z) = 0..(z - 1) \cup {MAXFILE}
    BY <1>3 DEF Slots
  <2> DEFINE I == 0..(z - 1)
  <2>2. IsFiniteSet(I) /\ Cardinality(I) = z /\ MAXFILE \notin I /\ Slots(z) = I \cup {MAXFILE}
    BY <1>1, <1>2, <2>1
  <2> HIDE DEF I
  <2>3. IsFiniteSet(I \cup {MAXFILE}) /\ Cardinality(I \cup {MAXFILE}) = z + 1
    BY <2>2, FS_AddElement
  <2> QED
    BY <1>3, <2>2, <2>3
<1>4. CASE ~(z > NDIRECT)
  <2>1. Slots(z) = 0..(z - 1)
    BY <1>4 DEF Slots
  <2> QED
    BY <1>1, <1>4, <2>1
<1> QED
  BY <1>3, <1>4

LEMMA SlotImage ==
  ASSUME NEW ino \in Inode, NEW d,
         \A s, r \in Slots(ino.size) : SlotNo(ino, d, s) = SlotNo(ino, d, r) => s = r
  PROVE  Cardinality(InodeBlocks(ino, d)) = ino.size + (IF ino.size > NDIRECT THEN 1 ELSE 0)
<1> DEFINE S == Slots(ino.size)
           T == InodeBlocks(ino, d)
           f == [s \in S |-> SlotNo(ino, d, s)]
<1>1. ino.size \in Nat /\ ino.size <= MAXFILE
  BY Numbers DEF Inode
<1>2. IsFiniteSet(S) /\ Cardinality(S) = ino.size + (IF ino.size > NDIRECT THEN 1 ELSE 0)
  BY <1>1, SlotCount
<1>3. /\ f \in [S -> T] /\ \A s, r \in S : f[s] = f[r] => s = r
      /\ \A t \in T : \E s \in S : f[s] = t
  BY DEF InodeBlocks
<1> HIDE DEF f, S, T
<1>4. f \in Bijection(S, T)
  BY <1>3 DEF Bijection, Injection, Surjection, IsInjective
<1>5. ExistsBijection(S, T)
  BY <1>4 DEF ExistsBijection
<1>6. Cardinality(T) = Cardinality(S)
  BY <1>2, <1>5, FS_Bijection
<1> QED
  BY <1>2, <1>6 DEF T

(***************************************************************************)
(* Until the disk overflows, no block is owned twice, a file owns as many  *)
(* blocks as its size asks for, and all of them are marked.  The           *)
(* assumption is needed: write_file never writes back the indirect block   *)
(* of a file of MAXFILE blocks.                                            *)
(***************************************************************************)
THEOREM BlocksNotShared == ASSUME MaxPut < MAXFILE PROVE Spec => []NoSharedBlocks
<1>1. ASSUME StoreInv PROVE NoSharedBlocks
  <2> SUFFICES ASSUME ~full
               PROVE  /\ \A i, k \in Files : i # k => FileBlocks(i) \cap FileBlocks(k) = {}
                      /\ \A i \in Files : /\ Cardinality(FileBlocks(i)) = Footprint(i)
                                          /\ FileBlocks(i) \subseteq block_bitmap \ Reserved
    BY DEF NoSharedBlocks
  <2>1. /\ \A i \in Files : \A s \in Slots(inode[i].size) :
              SlotNo(inode[i], disk, s) \in block_bitmap \ Reserved
        /\ \A i, k \in Files : \A s \in Slots(inode[i].size), r \in Slots(inode[k].size) :
              SlotNo(inode[i], disk, s) = SlotNo(inode[k], disk, r) => i = k /\ s = r
    BY <1>1 DEF StoreInv, OwnInv
  <2>2. \A i \in Files : inode[i] \in Inode
    BY <1>1 DEF StoreInv, DiskInv, DiskTypeOK, Inode, Files
  <2>3. \A i \in Files : FileBlocks(i) = InodeBlocks(inode[i], disk)
    BY <2>2, FileBlocksAre DEF Files
  <2>4. ASSUME NEW i \in Files, NEW k \in Files, i # k
        PROVE  InodeBlocks(inode[i], disk) \cap InodeBlocks(inode[k], disk) = {}
    BY <2>1, <2>4 DEF InodeBlocks
  <2>5. ASSUME NEW i \in Files
        PROVE  /\ Cardinality(InodeBlocks(inode[i], disk)) = Footprint(i)
               /\ InodeBlocks(inode[i], disk) \subseteq block_bitmap \ Reserved
    <3>1. \A s, r \in Slots(inode[i].size) :
             SlotNo(inode[i], disk, s) = SlotNo(inode[i], disk, r) => s = r
      BY <2>1
    <3>2. Cardinality(InodeBlocks(inode[i], disk)) = Footprint(i)
      BY <2>2, <3>1, SlotImage DEF Footprint
    <3> QED
      BY <2>1, <3>2 DEF InodeBlocks
  <2> QED
    BY <2>3, <2>4, <2>5
<1> QED
  BY <1>1, StoreInvHolds, PTL

-----------------------------------------------------------------------------
(***************************************************************************)
(* No block is leaked while files only grow.                               *)
(***************************************************************************)
LEMMA UsedBlocksAre ==
  /\ DiskTypeOK => UsedBlocks = UNION {InodeBlocks(inode[k], disk) : k \in Files}
  /\ DiskTypeOK' => UsedBlocks' = UNION {InodeBlocks(inode'[k], disk') : k \in Files'}
<1>1. ASSUME DiskTypeOK PROVE UsedBlocks = UNION {InodeBlocks(inode[k], disk) : k \in Files}
  <2>1. \A k \in Files : k \in Inum /\ inode[k] \in Inode
    BY <1>1 DEF DiskTypeOK, Inode, Files
  <2>2. \A k \in Files : FileBlocks(k) = InodeBlocks(inode[k], disk)
    BY <2>1, FileBlocksAre
  <2> QED
    BY <2>2 DEF UsedBlocks
<1>2. ASSUME DiskTypeOK' PROVE UsedBlocks' = UNION {InodeBlocks(inode'[k], disk') : k \in Files'}
  <2>1. \A k \in Files' : k \in Inum /\ inode'[k] \in Inode
    BY <1>2 DEF DiskTypeOK, Inode, Files
  <2>2. \A k \in Files' : FileBlocks(k)' = InodeBlocks(inode'[k], disk')
    BY <2>1, FileBlocksAre
  <2> QED
    BY <2>2 DEF UsedBlocks
<1> QED
  BY <1>1, <1>2

\* The targets of a write that does not shrink the file are the blocks it had
\* and the blocks allocated.
LEMMA TargetsAre ==
  ASSUME DiskTypeOK, NEW i \in Inum, NEW n \in Nat, n < MAXFILE, inode[i].size <= n
  PROVE  {Target(inode[i], n, s) : s \in Slots(n)}
           = InodeBlocks(inode[i], disk) \cup {NthAlloc(m) : m \in 1..NewBlocks(inode[i], n)}
<1> DEFINE ino == inode[i]
           z == ino.size
           nb == NewBlocks(ino, n)
<1>1. z \in Nat /\ z <= MAXFILE /\ z <= n /\ NDIRECT \in Nat /\ MAXFILE \in Nat
  BY InodeFacts, Numbers
<1>2. Slots(z) \subseteq Slots(n)
  <2> HIDE DEF z
  <2> QED
    BY <1>1 DEF Slots
<1>3. /\ \A s \in Slots(n) \ Slots(z) : Turn(z, n, s) \in 1..nb
      /\ \A m \in 1..nb : \E s \in Slots(n) \ Slots(z) : Turn(z, n, s) = m
  BY <1>1, TurnFacts
<1>4. /\ \A s : s \in Slots(z) => Target(ino, n, s) = SlotNo(ino, disk, s)
      /\ \A s : s \notin Slots(z) => Target(ino, n, s) = NthAlloc(Turn(z, n, s))
  BY DEF Target
<1>5. InodeBlocks(ino, disk) = {SlotNo(ino, disk, s) : s \in Slots(z)}
  BY DEF InodeBlocks
<1> HIDE DEF ino, z, nb
<1>6. \A s \in Slots(n) :
         Target(ino, n, s) \in InodeBlocks(ino, disk) \cup {NthAlloc(m) : m \in 1..nb}
  BY <1>3, <1>4, <1>5
<1>7. \A b \in InodeBlocks(ino, disk) : \E s \in Slots(n) : b = Target(ino, n, s)
  BY <1>2, <1>4, <1>5
<1>8. \A m \in 1..nb : \E s \in Slots(n) : NthAlloc(m) = Target(ino, n, s)
  <2> SUFFICES ASSUME NEW m \in 1..nb PROVE \E s \in Slots(n) : NthAlloc(m) = Target(ino, n, s)
    OBVIOUS
  <2>1. PICK s \in Slots(n) \ Slots(z) : Turn(z, n, s) = m
    BY <1>3
  <2> QED
    BY <1>4, <2>1
<1>9. {Target(ino, n, s) : s \in Slots(n)} = InodeBlocks(ino, disk) \cup {NthAlloc(m) : m \in 1..nb}
  BY <1>6, <1>7, <1>8
<1> QED
  BY <1>9 DEF ino, nb

LEMMA WriteMarked ==
  ASSUME StoreInv, DiskTypeOK', MarkedIsUsed, NEW i \in Files, NEW n \in 0..MaxPut, n < MAXFILE,
         NEW v \in Version, WriteFile(i, n, v), ~full', ~shrunk, inode[i].size <= n
  PROVE  block_bitmap' = Reserved \cup UsedBlocks'
<1> DEFINE nb == NewBlocks(inode[i], n)
           new == {NthAlloc(j) : j \in 1..nb}
<1>1. /\ block_bitmap' = block_bitmap \cup new
      /\ full' = (full \/ nb > Cardinality(FreeBlocks))
  BY DEF WriteFile, AllocBlocks
<1>2. i \in Inum /\ DiskTypeOK /\ block_bitmap \subseteq BlockId /\ n \in Nat
  BY DEF Files, StoreInv, DiskInv, DiskTypeOK
<1>3. inode[i].size \in Nat /\ inode[i].size <= MAXFILE
  BY <1>2, InodeFacts
<1>4. nb \in Nat
  BY <1>2, <1>3, TurnFacts
<1>5. ~full /\ nb <= Cardinality(FreeBlocks)
  <2>1. Cardinality(FreeBlocks) \in Nat
    BY <1>2, NthAllocFacts
  <2> HIDE DEF nb
  <2>2. ~full /\ ~(nb > Cardinality(FreeBlocks))
    BY <1>1, Zenon
  <2>3. nb <= Cardinality(FreeBlocks)
    BY <1>4, <2>1, <2>2
  <2> QED
    BY <2>2, <2>3
<1>6. /\ inode'[i].size = n /\ inode'[i].type = inode[i].type
      /\ \A k \in Inum : k # i => inode'[k] = inode[k]
      /\ \A s \in Slots(n) : SlotNo(inode'[i], disk', s) = Target(inode[i], n, s)
  BY <1>5, WriteFileSlots
<1>7. Files' = Files
  BY <1>2, <1>6 DEF Files
<1>8. \A k \in Files : k # i => InodeBlocks(inode'[k], disk') = InodeBlocks(inode[k], disk)
  <2>1. ASSUME NEW k \in Files, k # i
        PROVE  InodeBlocks(inode'[k], disk') = InodeBlocks(inode[k], disk)
    <3>1. inode'[k] = inode[k] /\ k \in Inum
      BY <1>6, <2>1 DEF Files
    <3>2. \A s \in Slots(inode[k].size) : SlotNo(inode'[k], disk', s) = SlotNo(inode[k], disk, s)
      BY <1>5, <2>1, OtherSlots
    <3> QED
      BY <3>1, <3>2 DEF InodeBlocks
  <2> QED
    BY <2>1
<1>9. InodeBlocks(inode'[i], disk') = InodeBlocks(inode[i], disk) \cup new
  <2>1. {Target(inode[i], n, s) : s \in Slots(n)} = InodeBlocks(inode[i], disk) \cup new
    BY <1>2, TargetsAre
  <2>2. InodeBlocks(inode'[i], disk') = {Target(inode[i], n, s) : s \in Slots(n)}
    BY <1>6 DEF InodeBlocks
  <2> QED
    BY <2>1, <2>2
<1>10. block_bitmap = Reserved \cup UsedBlocks
  BY <1>5 DEF MarkedIsUsed
<1>11. UsedBlocks = UNION {InodeBlocks(inode[k], disk) : k \in Files}
  BY <1>2, UsedBlocksAre
<1>12. UsedBlocks' = UNION {InodeBlocks(inode'[k], disk') : k \in Files}
  BY <1>7, UsedBlocksAre
<1> HIDE DEF new
<1>13. UsedBlocks' = UsedBlocks \cup new
  BY <1>8, <1>9, <1>11, <1>12
<1> QED
  BY <1>1, <1>10, <1>13

LEMMA RemoveMarked ==
  ASSUME StoreInv, DiskTypeOK', MarkedIsUsed, NEW i \in Files, RemoveFile(i), ~full, ~shrunk
  PROVE  block_bitmap' = Reserved \cup UsedBlocks'
<1>1. /\ block_bitmap' = block_bitmap \ FileBlocks(i) /\ disk' = disk
      /\ inode' = [inode EXCEPT ![i] = FreeInode] /\ i \in Inum
  BY DEF RemoveFile, FreeAll, Files
<1>2. DiskTypeOK /\ inode \in [Inum -> Inode] /\ inode[i] \in Inode
  BY <1>1 DEF StoreInv, DiskInv, DiskTypeOK, Inode
<1>3. /\ \A k \in Inum : inode'[k] = IF k = i THEN FreeInode ELSE inode[k]
      /\ FreeInode.type = 0
  BY <1>1, <1>2, NewInodeFacts
<1>4. /\ Files' = Files \ {i}
      /\ \A k \in Files' : inode'[k] = inode[k]
  BY <1>3 DEF Files
<1>5. FileBlocks(i) = InodeBlocks(inode[i], disk)
  BY <1>1, <1>2, FileBlocksAre
<1>6. /\ Reserved \cap FileBlocks(i) = {}
      /\ \A k \in Files \ {i} : InodeBlocks(inode[k], disk) \cap FileBlocks(i) = {}
  BY <1>5 DEF StoreInv, OwnInv, InodeBlocks
<1>7. block_bitmap = Reserved \cup UsedBlocks
  BY DEF MarkedIsUsed
<1>8. UsedBlocks = UNION {InodeBlocks(inode[k], disk) : k \in Files}
  BY <1>2, UsedBlocksAre
<1>9. UsedBlocks' = UNION {InodeBlocks(inode[k], disk) : k \in Files \ {i}}
  <2>1. UsedBlocks' = UNION {InodeBlocks(inode'[k], disk') : k \in Files'}
    BY UsedBlocksAre
  <2> QED
    BY <1>1, <1>4, <2>1
<1>10. UsedBlocks' = UsedBlocks \ FileBlocks(i)
  BY <1>5, <1>6, <1>8, <1>9
<1> QED
  BY <1>1, <1>6, <1>7, <1>10

LEMMA CreateMarked ==
  ASSUME StoreInv, DiskTypeOK', MarkedIsUsed, NEW t \in {T_DIR, T_FILE}, AllocInode(t), ~full, ~shrunk
  PROVE  block_bitmap' = Reserved \cup UsedBlocks'
<1>1. UNCHANGED <<block_bitmap, disk, full>>
  BY DEF AllocInode, blockVars
<1>2. DiskTypeOK /\ inode \in [Inum -> Inode] /\ T_DIR # 0 /\ T_FILE # 0
  BY DEF StoreInv, DiskInv, DiskTypeOK, Inode, T_DIR, T_FILE
<1>3. block_bitmap = Reserved \cup UsedBlocks
  BY DEF MarkedIsUsed
<1>4. UsedBlocks = UNION {InodeBlocks(inode[k], disk) : k \in Files}
  BY <1>2, UsedBlocksAre
<1>5. UsedBlocks' = UNION {InodeBlocks(inode'[k], disk) : k \in Files'}
  BY <1>1, UsedBlocksAre
<1>6. CASE FreeInums = {}
  <2>1. inode' = inode
    BY <1>6 DEF AllocInode
  <2> QED
    BY <1>1, <1>3, <1>4, <1>5, <2>1 DEF Files
<1>7. CASE FreeInums # {}
  <2>1. /\ inode' = [inode EXCEPT ![AllocInum] = NewInode(t)] /\ AllocInum \in Inum
        /\ inode[AllocInum].type = 0
    BY <1>7, AllocInumFacts DEF AllocInode
  <2>2. /\ \A i \in Inum : i # AllocInum => inode'[i] = inode[i]
        /\ inode'[AllocInum].size = 0 /\ inode'[AllocInum].type = t
    BY <1>2, <2>1, NewInodeFacts
  <2>3. Files' = Files \cup {AllocInum} /\ AllocInum \notin Files
    BY <1>2, <2>1, <2>2 DEF Files
  <2>4. InodeBlocks(inode'[AllocInum], disk) = {}
    <3>1. Slots(0) = {}
      BY Numbers DEF Slots
    <3> QED
      BY <2>2, <3>1 DEF InodeBlocks
  <2>5. \A k \in Files : inode'[k] = inode[k]
    BY <2>2, <2>3 DEF Files
  <2>6. UsedBlocks' = UsedBlocks
    BY <1>4, <1>5, <2>3, <2>4, <2>5
  <2> QED
    BY <1>1, <1>3, <2>6
<1> QED
  BY <1>6, <1>7

LEMMA NextMarked ==
  ASSUME MaxPut < MAXFILE
  PROVE  StoreInv /\ MarkedIsUsed /\ [Next]_vars => MarkedIsUsed'
<1> SUFFICES ASSUME StoreInv, MarkedIsUsed, [Next]_vars, ~full', ~shrunk'
             PROVE  block_bitmap' = Reserved \cup UsedBlocks'
  BY DEF MarkedIsUsed
<1>1. DiskTypeOK'
  BY NextDisk DEF StoreInv, DiskInv
<1>2. ASSUME NEW t \in {T_DIR, T_FILE}, Create(t) PROVE block_bitmap' = Reserved \cup UsedBlocks'
  <2>1. full' = full /\ shrunk' = shrunk /\ AllocInode(t)
    BY <1>2 DEF Create, AllocInode, blockVars
  <2> QED
    BY <1>1, <2>1, CreateMarked
<1>3. ASSUME UNCHANGED <<block_bitmap, disk, full, inode, shrunk>>
      PROVE  block_bitmap' = Reserved \cup UsedBlocks'
  <2>1. UsedBlocks' = UsedBlocks
    BY <1>3 DEF UsedBlocks, Files, FileBlocks
  <2> QED
    BY <1>3, <2>1 DEF MarkedIsUsed
<1>4. ASSUME NEW id \in Id, Get(id) \/ GetAttr(id) PROVE block_bitmap' = Reserved \cup UsedBlocks'
  BY <1>3, <1>4 DEF Get, GetAttr
<1>5. ASSUME NEW id \in Id, Remove(id) PROVE block_bitmap' = Reserved \cup UsedBlocks'
  <2> DEFINE i == Key(id)
  <2>1. CASE Exists(i)
    <3>1. i \in Files /\ RemoveFile(i) /\ shrunk' = shrunk
      BY <1>5, <2>1 DEF Remove, Exists, Files
    <3>2. full' = full
      BY <3>1 DEF RemoveFile, FreeAll
    <3> QED
      BY <1>1, <3>1, <3>2, RemoveMarked
  <2>2. CASE ~Exists(i)
    BY <1>3, <1>5, <2>2 DEF Remove
  <2> QED
    BY <2>1, <2>2
<1>6. ASSUME NEW id \in Id, NEW n \in 0..MaxPut, NEW v \in Version, Put(id, n, v)
      PROVE  block_bitmap' = Reserved \cup UsedBlocks'
  <2> DEFINE i == Key(id)
  <2>1. CASE Exists(i)
    <3>1. i \in Files /\ WriteFile(i, n, v) /\ shrunk' = (shrunk \/ n < inode[i].size)
      BY <1>6, <2>1 DEF Put, Exists, Files
    <3>2. n < MAXFILE /\ n \in Nat /\ inode[i].size \in Nat
      <4>1. i \in Inum /\ DiskTypeOK
        BY <3>1 DEF Files, StoreInv, DiskInv
      <4> QED
        BY <4>1, InodeFacts, Numbers
    <3> HIDE DEF i
    <3>3. ~shrunk /\ ~(n < inode[i].size)
      BY <3>1, Zenon
    <3>4. inode[i].size <= n
      BY <3>2, <3>3
    <3> QED
      BY <1>1, <3>1, <3>2, <3>3, <3>4, WriteMarked
  <2>2. CASE ~Exists(i)
    BY <1>3, <1>6, <2>2 DEF Put
  <2> QED
    BY <2>1, <2>2
<1>7. CASE UNCHANGED vars
  BY <1>3, <1>7 DEF vars
<1> QED
  BY <1>2, <1>4, <1>5, <1>6, <1>7 DEF Next

(***************************************************************************)
(* While no file was overwritten with a shorter one and the disk has not   *)
(* overflowed, the marked blocks are exactly those of the file system and  *)
(* of the files: write_file marks no block that it does not use, and       *)
(* remove_file gives every block of a file back.                           *)
(***************************************************************************)
THEOREM NothingLeaks == ASSUME MaxPut < MAXFILE PROVE Spec => []MarkedIsUsed
<1>1. Init => MarkedIsUsed
  <2> SUFFICES ASSUME Init PROVE block_bitmap = Reserved \cup UsedBlocks
    BY DEF MarkedIsUsed
  <2>1. /\ block_bitmap = Reserved \cap BlockId
        /\ inode = [i \in Inum |-> IF i = 1 THEN NewInode(T_DIR) ELSE FreeInode]
    BY DEF Init, InodeInit, BlockInit
  <2>2. \A i \in Inum : inode[i].size = 0
    BY <2>1, NewInodeFacts
  <2>3. Slots(0) = {}
    BY Numbers DEF Slots
  <2>4. \A i \in Files : InodeBlocks(inode[i], disk) = {}
    BY <2>2, <2>3 DEF Files, InodeBlocks
  <2>5. UsedBlocks = {}
    BY <2>4, InitDisk, UsedBlocksAre DEF DiskInv
  <2> QED
    BY <2>1, <2>5, ReservedIn
<1> QED
  BY <1>1, NextMarked, StoreInvHolds, PTL DEF Spec

-----------------------------------------------------------------------------
(***************************************************************************)
(* The server implements the store.  What a client reads of a file are the *)
(* contents of its slots, in order.                                        *)
(***************************************************************************)
InodeData(ino, d) == [j \in 0..(ino.size - 1) |-> d[SlotNo(ino, d, j)]]

FileOf(ino, d) ==
    [type |-> ino.type, size |-> ino.size,
     data |-> IF ino.type # 0 THEN InodeData(ino, d) ELSE NoData]

\* A number in range is the last one in range up to itself.
LEMMA ReadSlots ==
  ASSUME NEW ino \in Inode, NEW d,
         \A s \in 0..(ino.size - 1) : SlotNo(ino, d, s) \in BlockId
  PROVE  LET indirect == d[ino.blocks[NDIRECT]]
             no(j) == BlockNo(ino, indirect, j)
             last(j) == CHOOSE k \in 0..j : /\ no(k) \in BlockId
                                            /\ \A l \in (k + 1)..j : no(l) \notin BlockId
         IN  [j \in 0..(ino.size - 1) |-> d[no(last(j))]] = InodeData(ino, d)
<1> DEFINE indirect == d[ino.blocks[NDIRECT]]
           no(j) == BlockNo(ino, indirect, j)
           Q(j, k) == no(k) \in BlockId /\ \A l \in (k + 1)..j : no(l) \notin BlockId
           last(j) == CHOOSE k \in 0..j : Q(j, k)
           z == ino.size
<1>1. z \in Nat /\ z <= MAXFILE /\ MAXFILE \in Nat
  BY Numbers DEF Inode
<1>2. \A j \in 0..(z - 1) : no(j) = SlotNo(ino, d, j)
  <2>1. \A j \in 0..(z - 1) : j # MAXFILE
    BY <1>1
  <2> QED
    BY <2>1 DEF SlotNo
<1>3. ASSUME NEW j \in 0..(z - 1) PROVE last(j) = j
  <2> HIDE DEF z
  <2>1. no(j) \in BlockId
    BY <1>2 DEF z
  <2> HIDE DEF no
  <2>2. j \in Nat /\ j \in 0..j /\ (j + 1)..j = {}
    BY <1>1
  <2>3. Q(j, j)
    BY <2>1, <2>2
  <2>4. ASSUME NEW k \in 0..j, Q(j, k) PROVE k = j
    <3>1. CASE k < j
      <4>1. j \in (k + 1)..j
        BY <2>2, <3>1
      <4> QED
        BY <2>1, <2>4, <4>1
    <3> QED
      BY <2>2, <3>1
  <2> HIDE DEF Q
  <2> QED
    BY <2>2, <2>3, <2>4
<1> HIDE DEF last, no
<1>4. \A j \in 0..(z - 1) : d[no(last(j))] = d[SlotNo(ino, d, j)]
  BY <1>2, <1>3
<1>5. [j \in 0..(z - 1) |-> d[no(last(j))]] = [j \in 0..(z - 1) |-> d[SlotNo(ino, d, j)]]
  BY <1>4
<1> QED
  BY <1>5 DEF InodeData, last, no

LEMMA ReadFileIs ==
  ASSUME NEW i \in Inum
  PROVE  /\ inode[i] \in Inode /\ (\A s \in 0..(inode[i].size - 1) : SlotNo(inode[i], disk, s) \in BlockId)
              => ReadFile(i) = InodeData(inode[i], disk)
         /\ inode'[i] \in Inode /\ (\A s \in 0..(inode'[i].size - 1) : SlotNo(inode'[i], disk', s) \in BlockId)
              => ReadFile(i)' = InodeData(inode'[i], disk')
<1>1. ASSUME inode[i] \in Inode, \A s \in 0..(inode[i].size - 1) : SlotNo(inode[i], disk, s) \in BlockId
      PROVE  ReadFile(i) = InodeData(inode[i], disk)
  BY <1>1, ReadSlots DEF ReadFile
<1>2. ASSUME inode'[i] \in Inode, \A s \in 0..(inode'[i].size - 1) : SlotNo(inode'[i], disk', s) \in BlockId
      PROVE  ReadFile(i)' = InodeData(inode'[i], disk')
  BY <1>2, ReadSlots DEF ReadFile
<1> QED
  BY <1>1, <1>2

LEMMA AppFileIs ==
  /\ StoreInv /\ ~full => AppFile = [i \in Inum |-> FileOf(inode[i], disk)]
  /\ StoreInv' /\ ~full' => AppFile' = [i \in Inum |-> FileOf(inode'[i], disk')]
<1>1. ASSUME StoreInv, ~full PROVE AppFile = [i \in Inum |-> FileOf(inode[i], disk)]
  <2>1. ASSUME NEW i \in Inum
        PROVE  [type |-> inode[i].type, size |-> inode[i].size,
                data |-> IF Exists(i) THEN ReadFile(i) ELSE NoData] = FileOf(inode[i], disk)
    <3>1. Exists(i) <=> inode[i].type # 0
      BY DEF Exists
    <3>2. inode[i] \in Inode /\ inode[i].size \in Nat /\ inode[i].size <= MAXFILE
      BY <1>1, InodeFacts DEF StoreInv, DiskInv
    <3>3. ASSUME inode[i].type # 0 PROVE ReadFile(i) = InodeData(inode[i], disk)
      <4>1. \A s \in Slots(inode[i].size) : SlotNo(inode[i], disk, s) \in BlockId
        BY <1>1, <3>3 DEF StoreInv, OwnInv, DiskInv, DiskTypeOK, Files
      <4>2. \A s \in 0..(inode[i].size - 1) : s \in Slots(inode[i].size)
        BY DEF Slots
      <4> QED
        BY <3>2, <4>1, <4>2, ReadFileIs
    <3> QED
      BY <3>1, <3>3 DEF FileOf
  <2> QED
    BY <2>1 DEF AppFile
<1>2. ASSUME StoreInv', ~full' PROVE AppFile' = [i \in Inum |-> FileOf(inode'[i], disk')]
  <2>1. ASSUME NEW i \in Inum
        PROVE  [type |-> inode'[i].type, size |-> inode'[i].size,
                data |-> IF Exists(i)' THEN ReadFile(i)' ELSE NoData] = FileOf(inode'[i], disk')
    <3>1. Exists(i)' <=> inode'[i].type # 0
      BY DEF Exists
    <3>2. inode'[i] \in Inode
      BY <1>2 DEF StoreInv, DiskInv, DiskTypeOK, Inode
    <3>3. ASSUME inode'[i].type # 0 PROVE ReadFile(i)' = InodeData(inode'[i], disk')
      <4>1. \A s \in Slots(inode'[i].size) : SlotNo(inode'[i], disk', s) \in BlockId
        BY <1>2, <3>3 DEF StoreInv, OwnInv, DiskInv, DiskTypeOK, Files
      <4>2. \A s \in 0..(inode'[i].size - 1) : s \in Slots(inode'[i].size)
        BY DEF Slots
      <4> QED
        BY <3>2, <4>1, <4>2, ReadFileIs
    <3> QED
      BY <3>1, <3>3 DEF FileOf
  <2> QED
    BY <2>1 DEF AppFile
<1> QED
  BY <1>1, <1>2

\* What is in the store when write_file has been called.
LEMMA WriteStores ==
  ASSUME StoreInv, StoreInv', ~full', NEW i \in Files, NEW n \in 0..MaxPut, n < MAXFILE,
         NEW v \in Version, WriteFile(i, n, v)
  PROVE  /\ ~full
         /\ AppFile' = [AppFile EXCEPT ![i].size = n, ![i].data = FileData(n, v)]
<1> DEFINE nb == NewBlocks(inode[i], n)
<1>1. full' = (full \/ nb > Cardinality(FreeBlocks))
  BY DEF WriteFile, AllocBlocks
<1>2. i \in Inum /\ DiskTypeOK /\ block_bitmap \subseteq BlockId /\ n \in Nat
  BY DEF Files, StoreInv, DiskInv, DiskTypeOK
<1>3. inode[i].size \in Nat /\ inode[i].size <= MAXFILE
  BY <1>2, InodeFacts
<1>4. nb \in Nat
  BY <1>2, <1>3, TurnFacts
<1>5. ~full /\ nb <= Cardinality(FreeBlocks)
  <2>1. Cardinality(FreeBlocks) \in Nat
    BY <1>2, NthAllocFacts
  <2> HIDE DEF nb
  <2>2. ~full /\ ~(nb > Cardinality(FreeBlocks))
    BY <1>1, Zenon
  <2>3. nb <= Cardinality(FreeBlocks)
    BY <1>4, <2>1, <2>2
  <2> QED
    BY <2>2, <2>3
<1> DEFINE F(k) == FileOf(inode[k], disk)
           new == [type |-> inode[i].type, size |-> n, data |-> FileData(n, v)]
<1>6. AppFile = [k \in Inum |-> F(k)] /\ AppFile' = [k \in Inum |-> FileOf(inode'[k], disk')]
  BY <1>5, AppFileIs
<1>7. /\ inode'[i].size = n /\ inode'[i].type = inode[i].type
      /\ \A k \in Inum : k # i => inode'[k] = inode[k]
      /\ \A s \in Slots(n) : SlotNo(inode'[i], disk', s) = Target(inode[i], n, s)
      /\ \A s \in 0..(n - 1) : disk'[Target(inode[i], n, s)] = Data(v, s)
  BY <1>5, WriteFileSlots
<1>8. FileOf(inode'[i], disk') = new
  <2>1. \A s \in 0..(n - 1) : disk'[SlotNo(inode'[i], disk', s)] = Data(v, s)
    BY <1>7 DEF Slots
  <2>2. InodeData(inode'[i], disk') = FileData(n, v)
    BY <1>7, <2>1 DEF InodeData, FileData
  <2>3. inode[i].type # 0
    BY DEF Files
  <2> QED
    BY <1>7, <2>2, <2>3 DEF FileOf
<1>9. ASSUME NEW k \in Inum, k # i PROVE FileOf(inode'[k], disk') = F(k)
  <2>1. inode'[k] = inode[k]
    BY <1>7, <1>9
  <2>2. CASE inode[k].type = 0
    BY <2>1, <2>2 DEF FileOf
  <2>3. CASE inode[k].type # 0
    <3>1. \A s \in Slots(inode[k].size) :
             /\ SlotNo(inode'[k], disk', s) = SlotNo(inode[k], disk, s)
             /\ disk'[SlotNo(inode[k], disk, s)] = disk[SlotNo(inode[k], disk, s)]
      <4>1. k \in Files
        BY <2>3 DEF Files
      <4> QED
        BY <1>5, <1>9, <4>1, OtherSlots
    <3>2. \A s \in 0..(inode[k].size - 1) :
             disk'[SlotNo(inode'[k], disk', s)] = disk[SlotNo(inode[k], disk, s)]
      BY <3>1 DEF Slots
    <3>3. InodeData(inode'[k], disk') = InodeData(inode[k], disk)
      BY <2>1, <3>2 DEF InodeData
    <3> QED
      BY <2>1, <2>3, <3>3 DEF FileOf
  <2> QED
    BY <2>2, <2>3
<1>10. F(i) = [type |-> inode[i].type, size |-> inode[i].size, data |-> F(i).data]
  BY DEF FileOf
<1> HIDE DEF F, new
<1>11. AppFile' = [AppFile EXCEPT ![i] = new]
  BY <1>2, <1>6, <1>8, <1>9
<1>12. AppFile[i] = F(i) /\ AppFile = [k \in Inum |-> AppFile[k]]
  BY <1>2, <1>6
<1>13. [AppFile EXCEPT ![i].size = n, ![i].data = FileData(n, v)] = [AppFile EXCEPT ![i] = new]
  <2> DEFINE g == AppFile
             x == F(i).data
             t == inode[i].type
             z == inode[i].size
             e == FileData(n, v)
  <2>1. g = [k \in Inum |-> g[k]] /\ g[i] = [type |-> t, size |-> z, data |-> x]
    BY <1>10, <1>12
  <2> HIDE DEF g, x, t, z, e
  <2> DEFINE g1 == [g EXCEPT ![i].size = n]
             r == [type |-> t, size |-> n, data |-> e]
  <2>2. g1 = [g EXCEPT ![i] = [type |-> t, size |-> n, data |-> x]]
    <3>1. [g[i] EXCEPT !.size = n] = [type |-> t, size |-> n, data |-> x]
      BY <2>1
    <3> QED
      BY <3>1
  <2> HIDE DEF g1
  <2>3. /\ g1[i] = [type |-> t, size |-> n, data |-> x] /\ g1 = [k \in Inum |-> g1[k]]
        /\ \A k \in Inum : k # i => g1[k] = g[k]
    BY <1>2, <2>1, <2>2
  <2>4. [g1[i] EXCEPT !.data = e] = r
    BY <2>3
  <2>5. [g1 EXCEPT ![i].data = e] = [g1 EXCEPT ![i] = r]
    BY <2>4
  <2> HIDE DEF r
  <2>6. [g1 EXCEPT ![i] = r] = [g EXCEPT ![i] = r]
    BY <1>2, <2>1, <2>3
  <2>7. [g EXCEPT ![i].size = n, ![i].data = e] = [g EXCEPT ![i] = r]
    BY <2>5, <2>6 DEF g1
  <2> QED
    BY <2>7 DEF g, t, e, new, r
<1> QED
  BY <1>5, <1>11, <1>13

FullType == full \in BOOLEAN

LEMMA FullIsBoolean == FullType /\ [Next]_vars => FullType'
<1> SUFFICES ASSUME full \in BOOLEAN, [Next]_vars PROVE full' \in BOOLEAN
  BY DEF FullType
<1>1. ASSUME NEW t \in {T_DIR, T_FILE}, Create(t) PROVE full' = full
  BY <1>1 DEF Create, AllocInode, blockVars
<1>2. ASSUME NEW id \in Id, Get(id) \/ GetAttr(id) PROVE full' = full
  BY <1>2 DEF Get, GetAttr
<1>3. ASSUME NEW id \in Id, Remove(id) PROVE full' = full
  BY <1>3 DEF Remove, RemoveFile, FreeAll
<1>4. ASSUME NEW id \in Id, NEW n \in 0..MaxPut, NEW v \in Version, Put(id, n, v)
      PROVE  full' \in BOOLEAN
  <2>1. CASE Exists(Key(id))
    <3>1. full' = (full \/ NewBlocks(inode[Key(id)], n) > Cardinality(FreeBlocks))
      BY <1>4, <2>1 DEF Put, WriteFile, AllocBlocks
    <3> QED
      BY <3>1, Zenon
  <2>2. CASE ~Exists(Key(id))
    <3>1. full' = full
      BY <1>4, <2>2 DEF Put
    <3> QED
      BY <3>1
  <2> QED
    BY <2>1, <2>2
<1>5. CASE UNCHANGED vars
  <2>1. full' = full
    BY <1>5 DEF vars
  <2> QED
    BY <2>1
<1>6. CASE full' = full
  BY <1>6
<1> QED
  BY <1>1, <1>2, <1>3, <1>4, <1>5, <1>6 DEF Next

\* The records of ExtentStore.
LEMMA NoFileIs == Store!NoFile = [type |-> 0, size |-> 0, data |-> NoData]
  BY DEF Store!NoFile, Store!Empty, NoData

LEMMA NoFileTyped ==
  ASSUME NEW t
  PROVE  [Store!NoFile EXCEPT !.type = t] = [type |-> t, size |-> 0, data |-> NoData]
  BY NoFileIs

LEMMA AskIs ==
  ASSUME NEW op, NEW id, NEW t, NEW n, NEW d
  PROVE  Store!Ask(op, id, [type |-> t, size |-> n, data |-> d]) = Request(op, id, t, n, d)
  BY DEF Store!Ask, Request

LEMMA OkIs ==
  ASSUME NEW id, NEW t, NEW n, NEW d
  PROVE  Store!Ok(id, [type |-> t, size |-> n, data |-> d]) = Reply(id, t, n, d)
  BY DEF Store!Ok, Reply

LEMMA PlainRecords ==
  /\ \A op, id : Store!Ask(op, id, Store!NoFile) = Request(op, id, 0, 0, NoData)
  /\ \A id : Store!Ok(id, Store!NoFile) = Reply(id, 0, 0, NoData)
  BY NoFileIs, AskIs, OkIs

LEMMA EmptyFile ==
  ASSUME NEW d, NEW t \in {T_DIR, T_FILE}
  PROVE  /\ FileOf(NewInode(t), d) = [type |-> t, size |-> 0, data |-> NoData]
         /\ FileOf(FreeInode, d) = [type |-> 0, size |-> 0, data |-> NoData]
<1>1. InodeData(NewInode(t), d) = NoData
  <2>1. NewInode(t).size = 0 /\ 0..(0 - 1) = {}
    BY NewInodeFacts
  <2> QED
    BY <2>1 DEF InodeData, NoData
<1> QED
  BY <1>1, NewInodeFacts DEF FileOf

LEMMA CreateStep ==
  ASSUME StoreInv, StoreInv', ~full, ~full', NEW t \in {T_DIR, T_FILE}, Create(t)
  PROVE  Store!Create(t)
<1>1. /\ request' = Request("create", 0, t, 0, NoData) /\ AllocInode(t)
      /\ reply' = Reply(AllocInum, 0, 0, NoData)
  BY DEF Create
<1>2. disk' = disk
  BY <1>1 DEF AllocInode, blockVars
<1>3. inode \in [Inum -> Inode]
  BY DEF StoreInv, DiskInv, DiskTypeOK, Inode
<1>4. /\ AppFile = [i \in Inum |-> FileOf(inode[i], disk)]
      /\ AppFile' = [i \in Inum |-> FileOf(inode'[i], disk)]
  BY <1>2, AppFileIs
<1>5. Store!Live = Files
  <2>1. \A i \in Inum : AppFile[i].type = inode[i].type
    BY <1>4 DEF FileOf
  <2> QED
    BY <2>1 DEF Store!Live, Files
<1>6. request' = Store!Ask("create", 0, [Store!NoFile EXCEPT !.type = t])
  <2> DEFINE f == [Store!NoFile EXCEPT !.type = t]
  <2>1. f = [type |-> t, size |-> 0, data |-> NoData]
    BY NoFileTyped
  <2> HIDE DEF f
  <2>2. Store!Ask("create", 0, f) = Request("create", 0, t, 0, NoData)
    BY <2>1, AskIs
  <2> QED
    BY <1>1, <2>2 DEF f
<1>7. reply' = Store!Ok(AllocInum, Store!NoFile)
  BY <1>1, PlainRecords
<1>8. CASE FreeInums = {}
  <2>1. inode' = inode /\ AllocInum = 0
    BY <1>1, <1>8 DEF AllocInode, AllocInum
  <2>2. AppFile' = AppFile /\ Inum \ {0} \subseteq Store!Live
    BY <1>4, <1>5, <1>8, <2>1 DEF FreeInums, Files
  <2> QED
    BY <1>6, <1>7, <2>1, <2>2 DEF Store!Create
<1>9. CASE FreeInums # {}
  <2> DEFINE a == AllocInum
             new == [type |-> t, size |-> 0, data |-> NoData]
  <2>1. /\ inode' = [inode EXCEPT ![a] = NewInode(t)]
        /\ a \in Inum /\ a # 0 /\ inode[a].type = 0
    BY <1>1, <1>9, AllocInumFacts DEF AllocInode
  <2>2. a \in Inum \ (Store!Live \cup {0})
    BY <1>5, <2>1 DEF Files
  <2>3. \A i \in Inum : inode'[i] = IF i = a THEN NewInode(t) ELSE inode[i]
    BY <1>3, <2>1
  <2>4. FileOf(NewInode(t), disk) = new
    BY EmptyFile
  <2> HIDE DEF new, a
  <2>5. AppFile' = [AppFile EXCEPT ![a] = new]
    BY <1>4, <2>1, <2>3, <2>4
  <2>6. AppFile' = [AppFile EXCEPT ![a] = [Store!NoFile EXCEPT !.type = t]]
    <3>1. new = [Store!NoFile EXCEPT !.type = t]
      BY NoFileTyped DEF new
    <3> QED
      BY <2>5, <3>1
  <2> QED
    BY <1>6, <1>7, <2>2, <2>6 DEF Store!Create, a
<1> QED
  BY <1>8, <1>9

LEMMA RemoveStep ==
  ASSUME StoreInv, StoreInv', ~full, ~full', NEW id \in Id, Remove(id)
  PROVE  Store!Remove(id)
<1> DEFINE i == Key(id)
<1>1. request' = Request("remove", id, 0, 0, NoData) /\ reply' = Reply(0, 0, 0, NoData)
  BY DEF Remove, Done
<1>2. request' = Store!Ask("remove", id, Store!NoFile) /\ reply' = Store!Ok(0, Store!NoFile)
  BY <1>1, PlainRecords
<1>3. inode \in [Inum -> Inode]
  BY DEF StoreInv, DiskInv, DiskTypeOK, Inode
<1>4. /\ AppFile = [k \in Inum |-> FileOf(inode[k], disk)]
      /\ AppFile' = [k \in Inum |-> FileOf(inode'[k], disk')]
  BY AppFileIs
<1>5. i \in Store!Live <=> Exists(i)
  <2>1. \A k \in Inum : AppFile[k].type = inode[k].type
    BY <1>4 DEF FileOf
  <2> QED
    BY <2>1 DEF Store!Live, Exists
<1>6. CASE Exists(i)
  <2>1. disk' = disk /\ inode' = [inode EXCEPT ![i] = FreeInode] /\ i \in Inum
    BY <1>6 DEF Remove, RemoveFile, Exists
  <2>2. \A k \in Inum : inode'[k] = IF k = i THEN FreeInode ELSE inode[k]
    BY <1>3, <2>1
  <2>3. FileOf(FreeInode, disk) = Store!NoFile
    BY EmptyFile, NoFileIs
  <2> HIDE DEF i
  <2>4. AppFile' = [AppFile EXCEPT ![i] = Store!NoFile]
    BY <1>4, <2>1, <2>2, <2>3
  <2> QED
    BY <1>2, <1>5, <1>6, <2>4 DEF Store!Remove, i
<1>7. CASE ~Exists(i)
  <2>1. inode' = inode /\ disk' = disk
    BY <1>7 DEF Remove
  <2>2. AppFile' = AppFile
    BY <1>4, <2>1
  <2> QED
    BY <1>2, <1>5, <1>7, <2>2 DEF Store!Remove
<1> QED
  BY <1>6, <1>7

LEMMA PutStep ==
  ASSUME StoreInv, StoreInv', ~full, ~full', NEW id \in Id,
         NEW n \in 0..MaxPut, n < MAXFILE, NEW v \in Version, Put(id, n, v)
  PROVE  Store!Put(id, n, FileData(n, v))
<1> DEFINE i == Key(id)
           e == FileData(n, v)
<1>1. request' = Request("put", id, 0, n, e) /\ reply' = Reply(0, 0, 0, NoData)
  BY DEF Put, Done
<1>2. request' = Store!Ask("put", id, [Store!NoFile EXCEPT !.size = n, !.data = e])
  <2> DEFINE m == [Store!NoFile EXCEPT !.size = n]
             f == [m EXCEPT !.data = e]
  <2> HIDE DEF e
  <2>1. m = [type |-> 0, size |-> n, data |-> NoData]
    BY NoFileIs
  <2> HIDE DEF m
  <2>2. f = [type |-> 0, size |-> n, data |-> e]
    BY <2>1
  <2> HIDE DEF f
  <2>3. Store!Ask("put", id, f) = Request("put", id, 0, n, e)
    BY <2>2, AskIs
  <2> QED
    BY <1>1, <2>3 DEF f, m
<1>3. reply' = Store!Ok(0, Store!NoFile)
  BY <1>1, PlainRecords
<1>4. i \in Store!Live <=> Exists(i)
  <2>1. AppFile = [k \in Inum |-> FileOf(inode[k], disk)]
    BY AppFileIs
  <2>2. \A k \in Inum : AppFile[k].type = inode[k].type
    BY <2>1 DEF FileOf
  <2> QED
    BY <2>2 DEF Store!Live, Exists
<1>5. CASE Exists(i)
  <2>1. i \in Files /\ WriteFile(i, n, v)
    BY <1>5 DEF Put, Exists, Files
  <2>2. AppFile' = [AppFile EXCEPT ![i].size = n, ![i].data = e]
    BY <2>1, WriteStores
  <2> QED
    BY <1>2, <1>3, <1>4, <1>5, <2>2 DEF Store!Put
<1>6. CASE ~Exists(i)
  <2>1. inode' = inode /\ disk' = disk
    BY <1>6 DEF Put
  <2>2. AppFile' = AppFile
    BY <2>1, AppFileIs
  <2> QED
    BY <1>2, <1>3, <1>4, <1>6, <2>2 DEF Store!Put
<1> QED
  BY <1>5, <1>6

\* Lookup finds the file of an id, or none.
LEMMA LookupIs ==
  ASSUME NEW id
  PROVE  Store!Lookup(id) = [type |-> Attr(Key(id)).type, size |-> Attr(Key(id)).size,
                             data |-> IF Exists(Key(id)) THEN ReadFile(Key(id)) ELSE NoData]
<1> DEFINE i == Key(id)
           ino == inode[i]
<1>1. \A k \in Inum : AppFile[k].type = inode[k].type
  BY DEF AppFile
<1>2. i \in Store!Live <=> Exists(i)
  BY <1>1 DEF Store!Live, Exists
<1>3. Store!Lookup(id) = IF i \in Store!Live THEN AppFile[i] ELSE Store!NoFile
  BY DEF Store!Lookup
<1>4. CASE Exists(i)
  <2>1. i \in Inum /\ Attr(i) = ino
    BY <1>4 DEF Exists, Attr
  <2>2. AppFile[i] = [type |-> ino.type, size |-> ino.size, data |-> ReadFile(i)]
    BY <1>4, <2>1 DEF AppFile
  <2> QED
    BY <1>2, <1>3, <1>4, <2>1, <2>2
<1>5. CASE ~Exists(i)
  <2>1. Attr(i) = FreeInode /\ FreeInode.type = 0 /\ FreeInode.size = 0
    BY <1>5, NewInodeFacts DEF Attr
  <2> QED
    BY <1>2, <1>3, <1>5, <2>1, NoFileIs
<1> QED
  BY <1>4, <1>5

LEMMA SameFiles ==
  ASSUME UNCHANGED <<disk, inode>>
  PROVE  AppFile' = AppFile
  BY DEF AppFile, Exists, ReadFile

LEMMA GetStep ==
  ASSUME NEW id \in Id, Get(id)
  PROVE  Store!Get(id)
<1> DEFINE e == IF Exists(Key(id)) THEN ReadFile(Key(id)) ELSE NoData
           f == [Store!NoFile EXCEPT !.data = Store!Lookup(id).data]
<1>1. /\ request' = Request("get", id, 0, 0, NoData) /\ reply' = Reply(0, 0, 0, e)
      /\ AppFile' = AppFile
  BY SameFiles DEF Get
<1>2. request' = Store!Ask("get", id, Store!NoFile)
  BY <1>1, PlainRecords
<1> HIDE DEF e
<1>3. Store!Lookup(id).data = e
  BY LookupIs DEF e
<1>4. f = [type |-> 0, size |-> 0, data |-> e]
  BY <1>3, NoFileIs
<1> HIDE DEF f
<1>5. reply' = Store!Ok(0, f)
  BY <1>1, <1>4, OkIs
<1> QED
  BY <1>1, <1>2, <1>5 DEF Store!Get, f

LEMMA GetAttrStep ==
  ASSUME NEW id \in Id, GetAttr(id)
  PROVE  Store!GetAttr(id)
<1> DEFINE t == Attr(Key(id)).type
           z == Attr(Key(id)).size
           e == IF Exists(Key(id)) THEN ReadFile(Key(id)) ELSE NoData
           f == [Store!Lookup(id) EXCEPT !.data = Store!Empty]
<1>1. /\ request' = Request("getattr", id, 0, 0, NoData) /\ reply' = Reply(0, t, z, NoData)
      /\ AppFile' = AppFile
  BY SameFiles DEF GetAttr
<1>2. request' = Store!Ask("getattr", id, Store!NoFile)
  BY <1>1, PlainRecords
<1>3. Store!Lookup(id) = [type |-> t, size |-> z, data |-> e]
  BY LookupIs
<1>4. Store!Empty = NoData
  BY DEF Store!Empty, NoData
<1> HIDE DEF t, z, e
<1>5. f = [type |-> t, size |-> z, data |-> NoData]
  BY <1>3, <1>4
<1> HIDE DEF f
<1>6. reply' = Store!Ok(0, f)
  BY <1>1, <1>5, OkIs
<1> QED
  BY <1>1, <1>2, <1>6 DEF Store!GetAttr, f

LEMMA InitStore == Init => Store!StoreInit
<1> SUFFICES ASSUME Init PROVE Store!StoreInit
  OBVIOUS
<1>1. /\ inode = [i \in Inum |-> IF i = 1 THEN NewInode(T_DIR) ELSE FreeInode] /\ full = FALSE
      /\ request = Request("none", 0, 0, 0, NoData) /\ reply = Reply(0, 0, 0, NoData)
  BY DEF Init, InodeInit, BlockInit, Done
<1>2. StoreInv
  BY InitDisk, InitOwn DEF StoreInv
<1>3. AppFile = [i \in Inum |-> FileOf(inode[i], disk)]
  BY <1>1, <1>2, AppFileIs
<1> DEFINE root == [Store!NoFile EXCEPT !.type = 1]
<1>4. FileOf(NewInode(T_DIR), disk) = root /\ FileOf(FreeInode, disk) = Store!NoFile
  <2>1. root = [type |-> 1, size |-> 0, data |-> NoData]
    BY NoFileTyped
  <2> HIDE DEF root
  <2> QED
    BY <2>1, EmptyFile, NoFileIs DEF T_DIR
<1> HIDE DEF root
<1>5. AppFile = [i \in Inum |-> IF i = 1 THEN root ELSE Store!NoFile]
  BY <1>1, <1>3, <1>4
<1>6. request = Store!Ask("none", 0, Store!NoFile) /\ reply = Store!Ok(0, Store!NoFile)
  BY <1>1, PlainRecords
<1> QED
  BY <1>1, <1>5, <1>6 DEF Store!StoreInit, root

LEMMA StepServes ==
  ASSUME MaxPut < MAXFILE
  PROVE  StoreInv /\ StoreInv' /\ FullType /\ FullType' /\ [Next]_vars
         => [Store!StoreNext]_(Store!storeVars)
<1> SUFFICES ASSUME StoreInv, StoreInv', full \in BOOLEAN, full' \in BOOLEAN, [Next]_vars
             PROVE  [Store!StoreNext]_(Store!storeVars)
  BY DEF FullType
<1>1. CASE full'
  BY <1>1 DEF Store!StoreNext
<1>2. CASE ~full'
  <2>1. CASE UNCHANGED vars
    <3>1. UNCHANGED <<disk, inode, request, reply, full>>
      BY <2>1 DEF vars
    <3>2. AppFile' = AppFile
      BY <3>1, SameFiles
    <3> QED
      BY <3>1, <3>2 DEF Store!storeVars
  <2>2. ASSUME Next PROVE ~full
    <3>1. ASSUME NEW t \in {T_DIR, T_FILE}, Create(t) PROVE ~full
      BY <1>2, <3>1 DEF Create, AllocInode, blockVars
    <3>2. ASSUME NEW id \in Id, Get(id) \/ GetAttr(id) PROVE ~full
      BY <1>2, <3>2 DEF Get, GetAttr
    <3>3. ASSUME NEW id \in Id, Remove(id) PROVE ~full
      BY <1>2, <3>3 DEF Remove, RemoveFile, FreeAll
    <3>4. ASSUME NEW id \in Id, NEW n \in 0..MaxPut, NEW v \in Version, Put(id, n, v) PROVE ~full
      <4>1. CASE Exists(Key(id))
        <5>1. full' = (full \/ NewBlocks(inode[Key(id)], n) > Cardinality(FreeBlocks))
          BY <3>4, <4>1 DEF Put, WriteFile, AllocBlocks
        <5> QED
          BY <1>2, <5>1, Zenon
      <4>2. CASE ~Exists(Key(id))
        BY <1>2, <3>4, <4>2 DEF Put
      <4> QED
        BY <4>1, <4>2
    <3> QED
      BY <2>2, <3>1, <3>2, <3>3, <3>4 DEF Next
  <2>3. ASSUME Next PROVE full' = full
    BY <1>2, <2>2, <2>3
  <2>4. ASSUME NEW t \in {T_DIR, T_FILE}, Next, Create(t) PROVE Store!StoreNext
    <3>1. Store!Create(t)
      BY <1>2, <2>2, <2>4, CreateStep
    <3> QED
      BY <1>2, <2>3, <2>4, <3>1 DEF Store!StoreNext, Store!Serve
  <2>5. ASSUME NEW id \in Id, Next, Get(id) PROVE Store!StoreNext
    <3>1. Store!Get(id)
      BY <2>5, GetStep
    <3> QED
      BY <1>2, <2>3, <2>5, <3>1 DEF Store!StoreNext, Store!Serve
  <2>6. ASSUME NEW id \in Id, Next, GetAttr(id) PROVE Store!StoreNext
    <3>1. Store!GetAttr(id)
      BY <2>6, GetAttrStep
    <3> QED
      BY <1>2, <2>3, <2>6, <3>1 DEF Store!StoreNext, Store!Serve
  <2>7. ASSUME NEW id \in Id, Next, Remove(id) PROVE Store!StoreNext
    <3>1. Store!Remove(id)
      BY <1>2, <2>2, <2>7, RemoveStep
    <3> QED
      BY <1>2, <2>3, <2>7, <3>1 DEF Store!StoreNext, Store!Serve
  <2>8. ASSUME NEW id \in Id, NEW n \in 0..MaxPut, NEW v \in Version, Next, Put(id, n, v)
        PROVE  Store!StoreNext
    <3> DEFINE c == [size |-> n, data |-> FileData(n, v)]
               C == {[size |-> m, data |-> FileData(m, w)] : m \in 0..MaxPut, w \in Version}
    <3>1. n < MAXFILE
      BY Numbers
    <3>2. Store!Put(id, n, FileData(n, v))
      BY <1>2, <2>2, <2>8, <3>1, PutStep
    <3>3. c \in C /\ c.size = n /\ c.data = FileData(n, v)
      OBVIOUS
    <3> HIDE DEF c
    <3>4. \E x \in C : Store!Put(id, x.size, x.data)
      BY <3>2, <3>3
    <3> QED
      BY <1>2, <2>3, <2>8, <3>4 DEF Store!StoreNext, Store!Serve
  <2> QED
    BY <2>1, <2>4, <2>5, <2>6, <2>7, <2>8 DEF Next
<1> QED
  BY <1>1, <1>2

(***************************************************************************)
(* The extent server is the store its clients rely on: until the disk      *)
(* overflows every request is answered from what was last put, and touches *)
(* one file.  As above, files stay below MAXFILE blocks.                   *)
(***************************************************************************)
THEOREM StoreImplemented == ASSUME MaxPut < MAXFILE PROVE Spec => ImplementsStore
<1>1. Init => FullType
  <2>1. Init => full = FALSE
    BY DEF Init, InodeInit, BlockInit
  <2> QED
    BY <2>1, Zenon DEF FullType
<1>2. Spec => []FullType
  BY <1>1, FullIsBoolean, PTL DEF Spec
<1> QED
  BY <1>2, InitStore, StoreInvHolds, StepServes, PTL DEF Spec, ImplementsStore, Store!StoreSpec
=============================================================================
