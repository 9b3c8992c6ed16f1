--------------------------- MODULE BmbtWalkProofs ---------------------------
(***************************************************************************)
(* Theorems about BmbtWalk, for every set of images, block size, level     *)
(* limit and pointer budget.  The invariant is proved in three parts: the  *)
(* types, what holds of every image, and what holds of a levelled tree.    *)
(***************************************************************************)
EXTENDS BmbtWalk, DataLemmas

USE ConstantsAssumption, ImagesAssumption

(* btree.rs:166 and :219 call the bounds checks on a pointer slot          *)
(* unreachable: every slot that is read lies inside the fork or the block. *)
LEMMA Half == \A n \in Nat : n \div 2 \in Nat /\ 2 * (n \div 2) <= n
  OBVIOUS

LEMMA PtrWordInBlock ==
    ASSUME NEW magic \in Magics, NEW i \in 1..Entries(magic)
    PROVE  PtrWord(magic, i) \in 1..(BlockSize \div WordLen)
<1>1. Hdr(magic) \in {72, 24}
  BY DEF Hdr
<1>2. BlockSize >= Hdr(magic) /\ 16 * Entries(magic) <= BlockSize - Hdr(magic)
  BY <1>1 DEF Entries
<1>3. Entries(magic) \in Nat
  BY <1>1, <1>2 DEF Entries
<1>4. i \in Nat /\ i >= 1 /\ i <= Entries(magic)
  BY <1>3
<1>5. \/ Hdr(magic) = 72 /\ Hdr(magic) \div WordLen = 9
      \/ Hdr(magic) = 24 /\ Hdr(magic) \div WordLen = 3
  BY <1>1 DEF WordLen
<1>6. BlockSize \div WordLen \in Nat /\ BlockSize = 8 * (BlockSize \div WordLen)
  BY DEF WordLen
<1> DEFINE entries == Entries(magic)
           words == BlockSize \div WordLen
           header == Hdr(magic) \div WordLen
<1>7. header + entries + i \in 1..words
  <2> HIDE DEF entries, words, header
  <2>1. header \in Nat /\ Hdr(magic) = 8 * header
    BY <1>5 DEF header
  <2>2. entries \in Nat /\ words \in Nat /\ i \in Nat /\ i >= 1 /\ i <= entries
    BY <1>3, <1>4, <1>6 DEF entries, words
  <2>3. 16 * entries <= 8 * words - 8 * header
    BY <1>2, <1>6, <2>1 DEF entries, words
  <2> QED
    BY <2>1, <2>2, <2>3
<1> QED
  BY <1>7 DEF PtrWord

LEMMA RootPtrsType ==
    ASSUME NEW fork \in RootFork
    PROVE  RootPtrs(fork) \in Seq(Nat)
<1> DEFINE n == AtMost(fork.numrecs, DMaxRecs(fork))
<1>1. fork.numrecs \in Nat /\ fork.words \in Seq(Nat) /\ Len(fork.words) \in Nat
  BY DEF RootFork
<1>2. DMaxRecs(fork) \in Nat /\ 2 * DMaxRecs(fork) <= Len(fork.words)
  BY <1>1, Half DEF DMaxRecs
<1>3. n \in Nat /\ n <= DMaxRecs(fork)
  BY <1>1, <1>2 DEF AtMost
<1>4. \A i \in 1..n : DMaxRecs(fork) + i \in 1..Len(fork.words)
  BY <1>1, <1>2, <1>3
<1>5. \A i \in 1..n : fork.words[DMaxRecs(fork) + i] \in Nat
  BY <1>1, <1>4
<1> QED
  BY <1>3, <1>5 DEF RootPtrs

LEMMA EntriesType ==
    ASSUME NEW magic \in Magics
    PROVE  /\ Entries(magic) \in Nat
           /\ Entries(magic) <= Entries("BMAP")
           /\ \A n \in 1..Entries(magic) : Hdr(magic) + 16 * n <= BlockSize
<1>1. Hdr(magic) \in {72, 24} /\ Hdr("BMAP") = 24
  BY DEF Hdr
<1>2. Entries(magic) \in Nat
  BY <1>1 DEF Entries
<1>3. Entries(magic) <= Entries("BMAP")
  BY <1>1 DEF Entries
<1>4. ASSUME NEW n \in 1..Entries(magic)
      PROVE  Hdr(magic) + 16 * n <= BlockSize
  <2>1. BlockSize >= Hdr(magic) /\ 16 * Entries(magic) <= BlockSize - Hdr(magic)
    BY <1>1, <1>4 DEF Entries
  <2> QED
    BY <1>1, <1>2, <1>4, <2>1
<1> QED
  BY <1>2, <1>3, <1>4

LEMMA BlockPtrsType ==
    ASSUME NEW block \in Content
    PROVE  BlockPtrs(block) \in Seq(Nat)
<1> DEFINE n == AtMost(block.numrecs, Entries(block.magic))
<1>1. block.magic \in Magics /\ block.numrecs \in Nat
      /\ block.words \in [1..(BlockSize \div WordLen) -> Nat]
  BY DEF Content
<1>2. Entries(block.magic) \in Nat
  BY <1>1, EntriesType
<1>3. n \in Nat /\ n <= Entries(block.magic)
  BY <1>1, <1>2 DEF AtMost
<1>4. \A i \in 1..n : i \in 1..Entries(block.magic)
  BY <1>2, <1>3
<1>5. \A i \in 1..n : block.words[PtrWord(block.magic, i)] \in Nat
  BY <1>1, <1>4, PtrWordInBlock
<1> QED
  BY <1>3, <1>5 DEF BlockPtrs
-----------------------------------------------------------------------------
(* What every step relies on: nodes of the image have pointers, the loop   *)
(* on top has a next one, and advancing it changes nothing else.           *)
LEMMA PtrsOfType ==
    ASSUME image \in Images, NEW at \in {Root} \cup 0..(ImageBlocks - 1)
    PROVE  PtrsOf(at) \in Seq(Nat)
<1>1. image.root \in RootFork /\ image.blocks \in [0..(ImageBlocks - 1) -> Content]
  OBVIOUS
<1>2. CASE at = Root
  BY <1>1, <1>2, RootPtrsType DEF PtrsOf
<1>3. CASE at # Root
  <2>1. image.blocks[at] \in Content
    BY <1>1, <1>3
  <2> QED
    BY <1>3, <2>1, BlockPtrsType DEF PtrsOf
<1> QED
  BY <1>2, <1>3

LEMMA FollowFacts ==
    ASSUME TypeOK, MayFollow
    PROVE  /\ Len(stack) \in Nat \ {0}
           /\ Top \in Frame
           /\ Top = stack[Len(stack)]
           /\ NextPtr \in Nat
           /\ \E i \in 1..Len(PtrsOf(Top.at)) : NextPtr = PtrsOf(Top.at)[i]
           /\ Advanced \in Seq(Frame)
           /\ Len(Advanced) = Len(stack)
           /\ \A k \in 1..Len(stack) : Advanced[k].at = stack[k].at
           /\ budget \in Nat \ {0} /\ budget <= MAX_BMBT_PTRS
           /\ image \in Images
<1>1. stack \in Seq(Frame) /\ stack # <<>> /\ image \in Images
  BY DEF TypeOK, MayFollow
<1>2. Len(stack) \in Nat \ {0}
  BY <1>1
<1>3. Top \in Frame
  BY <1>1, <1>2 DEF Top
<1>4. PtrsOf(Top.at) \in Seq(Nat)
  BY <1>1, <1>3, PtrsOfType DEF Frame
<1>5. Top.next \in 1..Len(PtrsOf(Top.at))
  BY <1>3, <1>4 DEF MayFollow, Exhausted, Frame
<1>6. NextPtr \in Nat
  BY <1>4, <1>5 DEF NextPtr
<1>7. /\ Advanced \in Seq(Frame)
      /\ Len(Advanced) = Len(stack)
      /\ \A k \in 1..Len(stack) : Advanced[k].at = stack[k].at
  <2> DEFINE f == [Top EXCEPT !.next = @ + 1]
  <2>1. f \in Frame /\ f.at = Top.at
    BY <1>3 DEF Frame
  <2>2. Advanced = [stack EXCEPT ![Len(stack)] = f]
    BY DEF Advanced, Top
  <2> HIDE DEF f
  <2> QED
    BY <1>1, <1>2, <2>1, <2>2 DEF Top
<1>8. budget \in Nat \ {0} /\ budget <= MAX_BMBT_PTRS
  BY DEF TypeOK, MayFollow
<1> QED
  BY <1>1, <1>2, <1>3, <1>5, <1>6, <1>7, <1>8 DEF NextPtr, Top

LEMMA ReturnFacts ==
    ASSUME TypeOK, Return
    PROVE  /\ stack \in Seq(Frame) /\ Len(stack) \in Nat \ {0}
           /\ stack' \in Seq(Frame) /\ Len(stack') = Len(stack) - 1
           /\ \A k \in 1..Len(stack') : k \in 1..Len(stack) /\ stack'[k] = stack[k]
<1> DEFINE m == Len(stack) - 1
<1>1. stack \in Seq(Frame) /\ Len(stack) \in Nat \ {0} /\ stack' = SubSeq(stack, 1, m)
  BY DEF Return, TypeOK
<1>2. m \in Nat /\ \A i \in 1..m : i \in 1..Len(stack) /\ stack[i] \in Frame
  BY <1>1
<1>3. /\ SubSeq(stack, 1, m) \in Seq(Frame)
      /\ Len(SubSeq(stack, 1, m)) = IF 1 <= m THEN m - 1 + 1 ELSE 0
      /\ \A i \in 1..(m - 1 + 1) : SubSeq(stack, 1, m)[i] = stack[1 + i - 1]
  BY <1>2, SubSeqProperties
<1> HIDE DEF m
<1>4. Len(SubSeq(stack, 1, m)) = m
  BY <1>2, <1>3
<1>5. \A i \in 1..m : SubSeq(stack, 1, m)[i] = stack[i]
  BY <1>2, <1>3
<1> QED
  BY <1>1, <1>2, <1>3, <1>4, <1>5 DEF m

LEMMA EnterFacts ==
    ASSUME image \in Images, NEW b \in Nat, Genuine(b)
    PROVE  /\ b \in 0..(ImageBlocks - 1) /\ b # Root
           /\ image.blocks[b] \in Content
           /\ image.blocks[b].magic # "other"
  BY DEF Genuine, InImage, Root

(* The records of a leaf: typed, genuine, and no more than a BMAP block    *)
(* holds (collect_leaf_recs, btree.rs:234-244).                            *)
LEMMA LeafFacts ==
    ASSUME image \in Images, NEW b \in Nat, Genuine(b), IsLeaf(b)
    PROVE  /\ LeafRecs(b) \in Seq((0..(ImageBlocks - 1)) \X Nat)
           /\ Len(LeafRecs(b)) <= Entries("BMAP")
           /\ \A i \in 1..Len(LeafRecs(b)) :
                 /\ LeafRecs(b)[i] = <<b, i>>
                 /\ i \in 1..image.blocks[b].numrecs
                 /\ Hdr(image.blocks[b].magic) + 16 * i <= BlockSize
<1> DEFINE block == image.blocks[b]
           n == AtMost(block.numrecs, Entries(block.magic))
<1>1. b \in 0..(ImageBlocks - 1) /\ block \in Content
  BY EnterFacts
<1>2. block.magic \in Magics /\ block.numrecs \in Nat
  BY <1>1 DEF Content
<1>3. Entries(block.magic) \in Nat /\ Entries(block.magic) <= Entries("BMAP")
      /\ Entries("BMAP") \in Nat
  BY <1>2, EntriesType DEF Magics
<1>4. n \in Nat /\ n <= Entries(block.magic) /\ n <= block.numrecs
  BY <1>2, <1>3 DEF AtMost
<1>5. LeafRecs(b) = [i \in 1..n |-> <<b, i>>]
  BY DEF LeafRecs
<1>6. \A i \in 1..n : i \in 1..Entries(block.magic) /\ i \in 1..block.numrecs
  BY <1>2, <1>3, <1>4
<1>7. \A i \in 1..n : Hdr(block.magic) + 16 * i <= BlockSize
  BY <1>2, <1>6, EntriesType
<1> HIDE DEF n
<1>8. LeafRecs(b) \in Seq((0..(ImageBlocks - 1)) \X Nat) /\ Len(LeafRecs(b)) = n
  BY <1>1, <1>4, <1>5
<1> QED
  BY <1>3, <1>4, <1>5, <1>6, <1>7, <1>8
-----------------------------------------------------------------------------
(* The root's loop is at the bottom, interior blocks above it. *)
FramesInv ==
    \A k \in 1..Len(stack) :
        /\ k = 1 => stack[k].at = Root
        /\ k > 1 => Genuine(stack[k].at) /\ ~IsLeaf(stack[k].at)

(* On a levelled tree the levels on the stack count down from the root's,  *)
(* and a second loop exists only if the guard let the root's level pass.   *)
LevelsInv ==
    LevelsAgree =>
        /\ \A k \in 1..Len(stack) : LevelOf(stack[k].at) + k = image.root.level + 1
        /\ Len(stack) > 1 => image.root.level <= MAX_BMBT_LEVELS

Inv == TypeOK /\ WorkBounded /\ RecordsGenuine /\ FramesInv /\ LevelsInv

LEMMA InitInv == Init => Inv
<1> SUFFICES ASSUME Init PROVE Inv
  OBVIOUS
<1>1. image \in Images /\ image.root \in RootFork
  BY DEF Init
<1>2. NewFrame(Root) \in Frame
  BY DEF NewFrame, Frame
<1>3. stack \in Seq(Frame) /\ Len(stack) = 1 /\ stack[1].at = Root
  BY <1>2 DEF Init, NewFrame
<1>4. budget = MAX_BMBT_PTRS /\ out = <<>>
  BY DEF Init
<1>5. TypeOK
  BY <1>1, <1>3, <1>4 DEF TypeOK
<1>6. WorkBounded
  <2>1. Entries("BMAP") \in Nat
    BY EntriesType DEF Magics
  <2>2. 0 * Entries("BMAP") = 0
    BY <2>1
  <2> QED
    BY <1>3, <1>4, <2>1, <2>2 DEF WorkBounded, Followed
<1>7. RecordsGenuine
  BY <1>4 DEF RecordsGenuine
<1>8. FramesInv
  BY <1>3 DEF FramesInv
<1>9. LevelsInv
  BY <1>1, <1>3 DEF LevelsInv, LevelOf, RootFork
<1> QED
  BY <1>5, <1>6, <1>7, <1>8, <1>9 DEF Inv

(* Image, and with it every block, level and tree property, is constant. *)
LEMMA ImageConstant ==
    ASSUME [Next]_vars
    PROVE  image' = image
  BY DEF Next, Skip, Collect, Descend, Return, vars

LEMMA SkipInv == Inv /\ Skip => Inv'
<1> SUFFICES ASSUME Inv, Skip PROVE Inv'
  OBVIOUS
<1>1. /\ Len(stack) \in Nat \ {0}
      /\ stack' \in Seq(Frame) /\ Len(stack') = Len(stack)
      /\ \A k \in 1..Len(stack) : stack'[k].at = stack[k].at
      /\ budget' = budget - 1 /\ budget \in Nat \ {0} /\ budget <= MAX_BMBT_PTRS
      /\ image' = image /\ out' = out
  BY FollowFacts DEF Skip, Inv
<1>2. TypeOK'
  BY <1>1 DEF Inv, TypeOK
<1>3. WorkBounded'
  <2>1. Entries("BMAP") \in Nat
    BY EntriesType DEF Magics
  <2> DEFINE e == Entries("BMAP")
  <2>2. Followed \in Nat /\ Followed' = Followed + 1
    BY <1>1 DEF Followed
  <2>3. Followed' * e = Followed * e + e
    BY <2>1, <2>2
  <2>4. Len(out) \in Nat /\ Followed * e \in Nat
    BY <2>1, <2>2 DEF Inv, TypeOK
  <2> QED
    BY <1>1, <2>1, <2>2, <2>3, <2>4 DEF Inv, WorkBounded
<1>4. RecordsGenuine'
  BY <1>1 DEF Inv, RecordsGenuine
<1>5. FramesInv'
  BY <1>1 DEF Inv, FramesInv, Genuine, InImage, IsLeaf
<1>6. LevelsInv'
  BY <1>1 DEF Inv, LevelsInv, LevelOf, LevelsAgree, Genuine, InImage, IsLeaf, PtrsOf
<1> QED
  BY <1>2, <1>3, <1>4, <1>5, <1>6 DEF Inv

LEMMA CollectInv == Inv /\ Collect => Inv'
<1> SUFFICES ASSUME Inv, Collect PROVE Inv'
  OBVIOUS
<1> DEFINE b == NextPtr
           recs == LeafRecs(b)
           Named == (0..(ImageBlocks - 1)) \X Nat
<1>1. /\ Len(stack) \in Nat \ {0}
      /\ stack' \in Seq(Frame) /\ Len(stack') = Len(stack)
      /\ \A k \in 1..Len(stack) : stack'[k].at = stack[k].at
      /\ budget' = budget - 1 /\ budget \in Nat \ {0} /\ budget <= MAX_BMBT_PTRS
      /\ image' = image /\ image \in Images /\ out' = out \o recs
      /\ b \in Nat /\ Genuine(b) /\ IsLeaf(b)
  BY FollowFacts DEF Collect, MayEnter, Inv
<1>2. /\ recs \in Seq(Named)
      /\ Len(recs) <= Entries("BMAP")
      /\ \A i \in 1..Len(recs) :
            /\ recs[i] = <<b, i>>
            /\ i \in 1..image.blocks[b].numrecs
            /\ Hdr(image.blocks[b].magic) + 16 * i <= BlockSize
  BY <1>1, LeafFacts
<1> HIDE DEF recs, b
<1>3. /\ out \in Seq(Named) /\ out' \in Seq(Named)
      /\ Len(out') = Len(out) + Len(recs)
      /\ \A k \in 1..Len(out) : out'[k] = out[k]
      /\ \A k \in (Len(out) + 1)..Len(out') :
            k - Len(out) \in 1..Len(recs) /\ out'[k] = recs[k - Len(out)]
  <2>1. out \in Seq(Named)
    BY DEF Inv, TypeOK
  <2> HIDE DEF Named
  <2>2. Len(out) \in Nat /\ Len(recs) \in Nat
    BY <1>2, <2>1
  <2>3. out' \in Seq(Named) /\ Len(out') = Len(out) + Len(recs)
    BY <1>1, <1>2, <2>1, ConcatProperties
  <2>4. \A k \in 1..Len(out) : out'[k] = out[k]
    BY <1>1, <1>2, <2>1, <2>2, ConcatProperties
  <2>5. ASSUME NEW k \in (Len(out) + 1)..Len(out')
        PROVE  k - Len(out) \in 1..Len(recs) /\ out'[k] = recs[k - Len(out)]
    <3>1. k \in 1..(Len(out) + Len(recs)) /\ ~(k <= Len(out))
      BY <2>2, <2>3
    <3> QED
      BY <1>1, <1>2, <2>1, <2>2, <2>3, <3>1, ConcatProperties
  <2> QED
    BY <2>1, <2>3, <2>4, <2>5
<1>4. TypeOK'
  BY <1>1, <1>3 DEF Inv, TypeOK
<1>5. WorkBounded'
  <2>1. Entries("BMAP") \in Nat
    BY EntriesType DEF Magics
  <2> DEFINE e == Entries("BMAP")
  <2>2. Followed \in Nat /\ Followed' = Followed + 1
    BY <1>1 DEF Followed
  <2>3. Followed' * e = Followed * e + e
    BY <2>1, <2>2
  <2>4. Len(out) \in Nat /\ Len(recs) \in Nat /\ Followed * e \in Nat
    BY <1>2, <1>3, <2>1, <2>2
  <2>5. Len(stack) <= 1 + Followed /\ Len(out) <= Followed * e
    BY DEF Inv, WorkBounded
  <2>6. Len(out') <= Followed' * e
    <3> DEFINE fe == Followed * e
    <3>1. fe \in Nat /\ Len(out) <= fe /\ Followed' * e = fe + e
      BY <2>3, <2>4, <2>5
    <3>2. Len(recs) <= e /\ Len(out') = Len(out) + Len(recs) /\ e \in Nat
      BY <1>2, <1>3, <2>1
    <3> HIDE DEF fe, e
    <3> QED
      BY <2>4, <3>1, <3>2
  <2> QED
    BY <1>1, <2>2, <2>5, <2>6 DEF WorkBounded
<1>6. RecordsGenuine'
  <2> SUFFICES ASSUME NEW k \in 1..Len(out')
               PROVE  LET c == image.blocks[out'[k][1]]
                      IN  /\ c.magic # "other" /\ c.level = 0
                          /\ out'[k][2] \in 1..c.numrecs
                          /\ Hdr(c.magic) + 16 * out'[k][2] <= BlockSize
    BY <1>1 DEF RecordsGenuine
  <2>1. CASE k \in 1..Len(out)
    BY <1>3, <2>1 DEF Inv, RecordsGenuine
  <2>2. CASE k \in (Len(out) + 1)..Len(out')
    <3>1. out'[k] = <<b, k - Len(out)>> /\ k - Len(out) \in 1..Len(recs)
      BY <1>2, <1>3, <2>2
    <3>2. out'[k][1] = b /\ out'[k][2] = k - Len(out)
      BY <3>1
    <3>3. image.blocks[b].magic # "other" /\ image.blocks[b].level = 0
      BY <1>1 DEF Genuine, IsLeaf
    <3>4. /\ k - Len(out) \in 1..image.blocks[b].numrecs
          /\ Hdr(image.blocks[b].magic) + 16 * (k - Len(out)) <= BlockSize
      BY <1>2, <3>1
    <3> QED
      BY <3>2, <3>3, <3>4
  <2>3. Len(out) \in Nat /\ Len(out') \in Nat
    BY <1>3
  <2>4. k \in 1..Len(out) \/ k \in (Len(out) + 1)..Len(out')
    BY <2>3
  <2> QED
    BY <2>1, <2>2, <2>4
<1>7. FramesInv'
  BY <1>1 DEF Inv, FramesInv, Genuine, InImage, IsLeaf
<1>8. LevelsInv'
  BY <1>1 DEF Inv, LevelsInv, LevelOf, LevelsAgree, Genuine, InImage, IsLeaf, PtrsOf
<1> QED
  BY <1>4, <1>5, <1>6, <1>7, <1>8 DEF Inv

LEMMA DescendInv == Inv /\ Descend => Inv'
<1> SUFFICES ASSUME Inv, Descend PROVE Inv'
  OBVIOUS
<1> DEFINE b == NextPtr
<1>1. /\ Len(stack) \in Nat \ {0} /\ stack \in Seq(Frame)
      /\ Advanced \in Seq(Frame) /\ Len(Advanced) = Len(stack)
      /\ \A k \in 1..Len(stack) : Advanced[k].at = stack[k].at
      /\ stack' = Append(Advanced, NewFrame(b))
      /\ budget' = budget - 1 /\ budget \in Nat \ {0} /\ budget <= MAX_BMBT_PTRS
      /\ image' = image /\ image \in Images /\ out' = out
      /\ b \in Nat /\ Genuine(b) /\ ~IsLeaf(b)
      /\ Pred(LevelOf(Top.at)) < MAX_BMBT_LEVELS
      /\ Top = stack[Len(stack)] /\ Top \in Frame
      /\ \E i \in 1..Len(PtrsOf(Top.at)) : b = PtrsOf(Top.at)[i]
  BY FollowFacts DEF Descend, MayEnter, Inv, TypeOK
<1>2. b \in 0..(ImageBlocks - 1) /\ b # Root /\ image.blocks[b] \in Content
  BY <1>1, EnterFacts
<1> HIDE DEF b
<1>3. NewFrame(b) \in Frame /\ NewFrame(b).at = b
  BY <1>2 DEF NewFrame, Frame
<1>4. /\ stack' \in Seq(Frame) /\ Len(stack') = Len(stack) + 1
      /\ \A k \in 1..Len(stack) : stack'[k].at = stack[k].at
      /\ stack'[Len(stack) + 1].at = b
  BY <1>1, <1>3, AppendProperties
<1>5. TypeOK'
  <2>1. budget' \in 0..MAX_BMBT_PTRS
    BY <1>1, ConstantsAssumption
  <2>2. image' \in Images /\ stack' \in Seq(Frame)
    BY <1>1, <1>4
  <2>3. out' \in Seq((0..(ImageBlocks - 1)) \X Nat)
    BY <1>1 DEF Inv, TypeOK
  <2> QED
    BY <2>1, <2>2, <2>3 DEF TypeOK
<1>6. WorkBounded'
  <2>1. Entries("BMAP") \in Nat
    BY EntriesType DEF Magics
  <2> DEFINE e == Entries("BMAP")
  <2>2. Followed \in Nat /\ Followed' = Followed + 1
    BY <1>1 DEF Followed
  <2>3. Followed' * e = Followed * e + e
    BY <2>1, <2>2
  <2>4. Len(out) \in Nat /\ Followed * e \in Nat
    BY <2>1, <2>2 DEF Inv, TypeOK
  <2>5. Len(stack) <= 1 + Followed /\ Len(out) <= Followed * e
    BY DEF Inv, WorkBounded
  <2>6. Len(stack') <= 1 + Followed'
    BY <1>1, <1>4, <2>2, <2>5
  <2>7. Len(out') <= Followed' * e
    <3> DEFINE now == Followed * e
               then == Followed' * e
    <3>1. now \in Nat /\ then = now + e /\ e \in Nat /\ Len(out) <= now
      BY <2>1, <2>3, <2>4, <2>5
    <3> HIDE DEF now, then, e
    <3>2. Len(out) <= then
      BY <2>4, <3>1
    <3> QED
      BY <1>1, <3>2 DEF then
  <2>8. Entries("BMAP")' = e
    BY DEF Entries, Hdr
  <2> HIDE DEF e
  <2> QED
    BY <2>6, <2>7, <2>8 DEF WorkBounded, e
<1>7. RecordsGenuine'
  BY <1>1 DEF Inv, RecordsGenuine
<1>8. FramesInv'
  <2> SUFFICES ASSUME NEW k \in 1..Len(stack')
               PROVE  /\ k = 1 => stack'[k].at = Root
                      /\ k > 1 => Genuine(stack'[k].at) /\ ~IsLeaf(stack'[k].at)
    BY <1>1 DEF FramesInv, Genuine, InImage, IsLeaf
  <2>1. k \in 1..Len(stack) \/ (k = Len(stack) + 1 /\ k > 1)
    <3> DEFINE n == Len(stack)
    <3>1. n \in Nat /\ n >= 1 /\ k \in 1..(n + 1)
      BY <1>1, <1>4
    <3> HIDE DEF n
    <3>2. k \in 1..n \/ (k = n + 1 /\ k > 1)
      BY <3>1
    <3> QED
      BY <3>2 DEF n
  <2>2. FramesInv
    BY <1>1 DEF Inv
  <2>3. CASE k \in 1..Len(stack)
    BY <1>4, <2>2, <2>3 DEF FramesInv
  <2>4. CASE k = Len(stack) + 1 /\ k > 1
    BY <1>1, <1>4, <2>4
  <2> QED
    BY ONLY <2>1, <2>3, <2>4
<1>9. LevelsInv'
  <2> SUFFICES ASSUME LevelsAgree
               PROVE  /\ \A k \in 1..Len(stack') :
                           LevelOf(stack'[k].at) + k = image.root.level + 1
                      /\ Len(stack') > 1 => image.root.level <= MAX_BMBT_LEVELS
    BY <1>1 DEF LevelsInv, LevelsAgree, LevelOf, Genuine, InImage, IsLeaf, PtrsOf
  <2> DEFINE n == Len(stack)
  <2>1. image.root.level \in Nat /\ image.blocks[b].level \in Nat
    BY <1>1, <1>2 DEF RootFork, Content
  <2>2. LevelOf(stack[n].at) + n = image.root.level + 1
    BY <1>1 DEF Inv, LevelsInv
  <2>3. stack[n].at \in {Root} \cup {c \in 0..(ImageBlocks - 1) : Genuine(c) /\ ~IsLeaf(c)}
    BY <1>1 DEF Inv, FramesInv, Frame
  <2>4. image.blocks[b].level = Pred(LevelOf(stack[n].at))
    BY <1>1, <2>3 DEF LevelsAgree
  <2>5. image.blocks[b].level # 0
    BY <1>1 DEF IsLeaf
  <2>6. LevelOf(b) = image.blocks[b].level
    BY <1>2 DEF LevelOf
  <2>7. LevelOf(stack[n].at) \in Nat
    <3>1. image.blocks \in [0..(ImageBlocks - 1) -> Content]
      BY <1>1
    <3> QED
      BY <2>1, <2>3, <3>1 DEF LevelOf, Content
  <2>8. LevelOf(b) + (n + 1) = image.root.level + 1
    <3> DEFINE above == LevelOf(stack[n].at)
               below == LevelOf(b)
               root == image.root.level
    <3>1. /\ above + n = root + 1 /\ above \in Nat /\ n \in Nat /\ root \in Nat
          /\ below = Pred(above) /\ below # 0 /\ below \in Nat
      BY <1>1, <2>1, <2>2, <2>4, <2>5, <2>6, <2>7
    <3> HIDE DEF above, below, root, n
    <3>2. below + (n + 1) = root + 1
      BY ONLY <3>1 DEF Pred
    <3> QED
      BY <3>2 DEF above, below, root
  <2>9. \A k \in 1..Len(stack') : LevelOf(stack'[k].at) + k = image.root.level + 1
    <3>1. \A k \in 1..Len(stack') : k \in 1..n \/ k = n + 1
      BY <1>1, <1>4
    <3> QED
      BY <1>4, <2>8, <3>1 DEF Inv, LevelsInv
  <2>10. image.root.level <= MAX_BMBT_LEVELS
    <3>1. CASE n = 1
      <4>1. LevelOf(Top.at) = image.root.level
        BY <1>1, <2>1, <2>2, <2>7, <3>1
      <4> QED
        BY <1>1, <2>1, <4>1 DEF Pred
    <3>2. CASE n # 1
      BY <1>1, <3>2 DEF Inv, LevelsInv
    <3> QED
      BY <3>1, <3>2
  <2> QED
    BY <2>9, <2>10
<1> QED
  BY <1>5, <1>6, <1>7, <1>8, <1>9 DEF Inv

LEMMA ReturnInv == Inv /\ Return => Inv'
<1> SUFFICES ASSUME Inv, Return PROVE Inv'
  OBVIOUS
<1>1. image' = image /\ budget' = budget /\ out' = out
  BY DEF Return
<1>2. /\ stack \in Seq(Frame) /\ Len(stack) \in Nat \ {0}
      /\ stack' \in Seq(Frame) /\ Len(stack') = Len(stack) - 1
      /\ \A k \in 1..Len(stack') : k \in 1..Len(stack) /\ stack'[k] = stack[k]
  BY ReturnFacts DEF Inv
<1>3. TypeOK'
  BY <1>1, <1>2 DEF Inv, TypeOK
<1>4. WorkBounded'
  BY <1>1, <1>2 DEF Inv, WorkBounded, Followed, TypeOK
<1>5. RecordsGenuine'
  BY <1>1 DEF Inv, RecordsGenuine
<1>6. FramesInv'
  <2> SUFFICES ASSUME NEW k \in 1..Len(stack')
               PROVE  /\ k = 1 => stack[k].at = Root
                      /\ k > 1 => Genuine(stack[k].at) /\ ~IsLeaf(stack[k].at)
    BY <1>1, <1>2 DEF FramesInv, Genuine, InImage, IsLeaf
  <2> QED
    BY <1>2 DEF Inv, FramesInv
<1>7. LevelsInv'
  BY <1>1, <1>2 DEF Inv, LevelsInv, LevelOf, LevelsAgree, Genuine, InImage, IsLeaf, PtrsOf
<1> QED
  BY <1>3, <1>4, <1>5, <1>6, <1>7 DEF Inv

(* The strengthening from which the theorems below follow: the frames are   *)
(* interior blocks of the image and their levels descend with the stack.   *)
THEOREM InvHolds == Spec => []Inv
<1>1. Inv /\ [Next]_vars => Inv'
  <2> SUFFICES ASSUME Inv, [Next]_vars PROVE Inv'
    OBVIOUS
  <2>1. CASE Skip
    BY <2>1, SkipInv
  <2>2. CASE Collect
    BY <2>2, CollectInv
  <2>3. CASE Descend
    BY <2>3, DescendInv
  <2>4. CASE Return
    BY <2>4, ReturnInv
  <2>5. CASE UNCHANGED vars
    BY <2>5 DEF vars, Inv, TypeOK, WorkBounded, Followed, RecordsGenuine, FramesInv,
                LevelsInv, LevelsAgree, LevelOf, Genuine, InImage, IsLeaf, PtrsOf
  <2> QED
    BY <2>1, <2>2, <2>3, <2>4, <2>5 DEF Next
<1> QED
  BY <1>1, InitInv, PTL DEF Spec

(* The variables have their types on every image and every schedule. *)
THEOREM TypeCorrect == Spec => []TypeOK
  BY InvHolds, PTL DEF Inv

(* No record is made of anything but a leaf's claimed slots (btree.rs:197- *)
(* 203 and :234-244), on every image, cyclic and damaged ones included.    *)
THEOREM RecordsAreGenuine == Spec => []RecordsGenuine
  BY InvHolds, PTL DEF Inv

(* What the pointer budget buys: it bounds the frames on the stack and the *)
(* records in memory (the caps of btree.rs:99-102), for every image.       *)
THEOREM WorkIsBounded == Spec => []WorkBounded
  BY InvHolds, PTL DEF Inv

(* The depth guard of btree.rs:187 does bound the recursion on every tree  *)
(* whose levels count down; on the others the run bmbt_depth refutes it.   *)
THEOREM DepthBoundedOnTrees == Spec => []DepthOnTrees
<1>1. Inv => DepthOnTrees
  <2> SUFFICES ASSUME Inv, LevelsAgree PROVE Len(stack) <= MAX_BMBT_LEVELS
    BY DEF DepthOnTrees
  <2> DEFINE n == Len(stack)
  <2>1. n \in Nat /\ stack \in Seq(Frame) /\ image \in Images
    BY DEF Inv, TypeOK
  <2>2. CASE n <= 1
    BY <2>1, <2>2
  <2>3. CASE n > 1
    <3>1. stack[n] \in Frame /\ Genuine(stack[n].at) /\ ~IsLeaf(stack[n].at)
      BY <2>1, <2>3 DEF Inv, FramesInv
    <3>2. LevelOf(stack[n].at) + n = image.root.level + 1
      BY <2>1, <2>3 DEF Inv, LevelsInv
    <3>3. image.root.level <= MAX_BMBT_LEVELS /\ image.root.level \in Nat
      BY <2>1, <2>3 DEF Inv, LevelsInv, RootFork
    <3>4. LevelOf(stack[n].at) \in Nat \ {0}
      <4>1. CASE stack[n].at = Root
        <5>1. 1 \in 1..n /\ n \in 1..n
          BY <2>1, <2>3
        <5>2. LevelOf(stack[1].at) + 1 = image.root.level + 1 /\ stack[1].at = Root
          BY <5>1 DEF Inv, LevelsInv, FramesInv
        <5>3. LevelOf(stack[n].at) = image.root.level
          BY <4>1 DEF LevelOf
        <5> QED
          BY <2>1, <2>3, <3>2, <3>3, <5>3
      <4>2. CASE stack[n].at # Root
        <5>1. stack[n].at \in 0..(ImageBlocks - 1)
          BY <3>1, <4>2 DEF Frame
        <5>2. image.blocks[stack[n].at] \in Content
          BY <2>1, <5>1
        <5> QED
          BY <3>1, <4>2, <5>2 DEF LevelOf, Content, IsLeaf
      <4> QED
        BY <4>1, <4>2
    <3> QED
      BY <2>1, <3>2, <3>3, <3>4
  <2> QED
    BY <2>1, <2>2, <2>3
<1> QED
  BY <1>1, InvHolds, PTL

(* Every step of the walk decreases a natural number, whatever the image:  *)
(* the walk of a cyclic tree ends after at most 2 * MAX_BMBT_PTRS + 1      *)
(* steps.                                                                  *)
THEOREM EveryStepShrinks == Spec => WorkShrinks
<1>1. Inv /\ [Next]_vars => [Variant' < Variant]_vars
  <2> SUFFICES ASSUME Inv, Next PROVE Variant' < Variant
    BY DEF vars, Variant
  <2>1. budget \in Nat /\ stack \in Seq(Frame) /\ Len(stack) \in Nat
    BY DEF Inv, TypeOK
  <2>2. CASE Skip \/ Collect
    <3>1. Len(stack') = Len(stack) /\ budget' = budget - 1
      BY <2>2, FollowFacts DEF Inv, Skip, Collect
    <3> QED
      BY <2>1, <3>1 DEF Variant
  <2>3. CASE Descend
    <3>1. Len(stack') = Len(stack) + 1 /\ budget' = budget - 1
      BY <2>3, FollowFacts DEF Inv, Descend
    <3> QED
      BY <2>1, <3>1 DEF Variant
  <2>4. CASE Return
    <3>1. Len(stack') = Len(stack) - 1 /\ budget' = budget
      BY <2>4, ReturnFacts DEF Inv, Return
    <3> QED
      BY <2>1, <3>1 DEF Variant
  <2> QED
    BY <2>2, <2>3, <2>4 DEF Next
<1> QED
  BY <1>1, InvHolds, PTL DEF Spec, WorkShrinks
-----------------------------------------------------------------------------
(***************************************************************************)
(* The walk against the listing of the tree.                               *)
(***************************************************************************)
Blocks == 0..(ImageBlocks - 1)
Records == Blocks \X Nat

(* The capacities of nodes and leaves, as the format states them. *)
LEMMA PairsFacts ==
    ASSUME NEW header \in Nat, NEW bytes \in Nat
    PROVE  Pairs(header, bytes) = IF bytes < header THEN 0 ELSE (bytes - header) \div 16
<1> DEFINE S == {n \in 0..bytes : header + 16 * n <= bytes} \cup {0}
           q == IF bytes < header THEN 0 ELSE (bytes - header) \div 16
<1>1. q \in Nat /\ q \in S
  OBVIOUS
<1>2. \A y \in S : y \in Nat /\ q >= y
  OBVIOUS
<1>3. Pairs(header, bytes) = CHOOSE x \in S : \A y \in S : x >= y
  BY DEF Pairs, Max
<1> HIDE DEF S, q
<1>4. \A x \in S : (\A y \in S : x >= y) => x = q
  BY <1>1, <1>2
<1> QED
  BY <1>1, <1>2, <1>3, <1>4 DEF q

LEMMA EntriesArePairs ==
    ASSUME NEW magic \in Magics
    PROVE  Entries(magic) = Pairs(IF magic = "BMA3" THEN 72 ELSE 24, BlockSize)
  BY PairsFacts DEF Entries, Hdr

LEMMA FormatBlock ==
    ASSUME NEW block \in Content
    PROVE  FormatPtrs(block) = BlockPtrs(block)
<1> DEFINE header == IF block.magic = "BMA3" THEN 9 ELSE 3
           n == Entries(block.magic)
           k == AtMost(block.numrecs, n)
<1>1. block.magic \in Magics /\ block.numrecs \in Nat
      /\ block.words \in [1..(BlockSize \div WordLen) -> Nat]
  BY DEF Content
<1>2. n \in Nat /\ k \in Nat /\ k <= n
  BY <1>1, EntriesType DEF AtMost
<1>3. /\ header \in Nat /\ header = Hdr(block.magic) \div WordLen
      /\ 8 * header = IF block.magic = "BMA3" THEN 72 ELSE 24
  BY DEF Hdr, WordLen
<1>4. Pairs(8 * header, BlockSize) = n
  BY <1>1, <1>3, EntriesArePairs
<1>5. FormatPtrs(block) = SubSeq(block.words, header + n + 1, header + n + k)
  BY <1>4 DEF FormatPtrs
<1> HIDE DEF header, n, k
<1>6. \A i \in 1..k : PtrWord(block.magic, i) = (header + n) + i
  BY <1>2, <1>3 DEF PtrWord, n
<1>7. \A i \in 1..k : block.words[(header + n) + i] \in Nat
  <2>1. \A i \in 1..k : i \in 1..n
    BY <1>2
  <2>2. \A i \in 1..k : PtrWord(block.magic, i) \in 1..(BlockSize \div WordLen)
    BY <1>1, <2>1, PtrWordInBlock DEF n
  <2> QED
    BY <1>1, <1>6, <2>2
<1>8. header + n \in Nat
  BY <1>2, <1>3
<1>9. SubSeq(block.words, (header + n) + 1, (header + n) + k)
         = [i \in 1..k |-> block.words[(header + n) + i]]
  <2> DEFINE w == block.words
             m == header + n
  <2>1. m \in Nat /\ k \in Nat /\ \A i \in 1..k : w[m + i] \in Nat
    BY <1>2, <1>7, <1>8
  <2> HIDE DEF w, m
  <2>2. SubSeq(w, m + 1, m + k) = [i \in 1..k |-> w[m + i]]
    BY ONLY <2>1, Slice
  <2> QED
    BY <2>2 DEF w, m
<1>10. BlockPtrs(block) = [i \in 1..k |-> block.words[(header + n) + i]]
  BY <1>6 DEF BlockPtrs, k, n
<1> QED
  BY <1>5, <1>9, <1>10

LEMMA FormatRoot ==
    ASSUME NEW fork \in RootFork, fork.forkoff = 0
    PROVE  FormatRootPtrs(fork) = RootPtrs(fork)
<1> DEFINE n == DMaxRecs(fork)
           k == AtMost(fork.numrecs, n)
           l == Len(fork.words)
<1>1. fork.numrecs \in Nat /\ fork.words \in Seq(Nat) /\ l \in Nat
  BY DEF RootFork
<1>2. n \in Nat /\ 2 * n <= l
  BY <1>1, Half DEF DMaxRecs
<1>3. k \in Nat /\ k <= n
  BY <1>1, <1>2 DEF AtMost
<1>4. Pairs(4, 4 + WordLen * l) = n
  <2>1. 4 + WordLen * l \in Nat /\ ~(4 + WordLen * l < 4) /\ (4 + WordLen * l) - 4 = 8 * l
    BY <1>1 DEF WordLen
  <2>2. Pairs(4, 4 + WordLen * l) = (8 * l) \div 16
    BY <2>1, PairsFacts
  <2>3. n = l \div 2
    BY DEF DMaxRecs
  <2> HIDE DEF l, n
  <2> QED
    BY <1>1, <2>2, <2>3
<1>5. FormatRootPtrs(fork) = SubSeq(fork.words, n + 1, n + k)
  BY <1>4 DEF FormatRootPtrs
<1> HIDE DEF n, k
<1>6. \A i \in 1..k : fork.words[n + i] \in Nat
  <2>1. \A i \in 1..k : n + i \in 1..l
    <3> HIDE DEF l
    <3> QED
      BY <1>1, <1>2, <1>3
  <2> QED
    BY <1>1, <2>1
<1>7. SubSeq(fork.words, n + 1, n + k) = [i \in 1..k |-> fork.words[n + i]]
  BY <1>2, <1>3, <1>6, Slice
<1> QED
  BY <1>5, <1>7 DEF RootPtrs, n, k

LEMMA FormatLeaf ==
    ASSUME image \in Images, NEW b \in Blocks
    PROVE  FormatRecords(image, b) = LeafRecs(b) /\ LeafRecs(b) \in Seq(Records)
<1> DEFINE block == image.blocks[b]
           n == Entries(block.magic)
           k == AtMost(block.numrecs, n)
<1>1. block \in Content
  BY DEF Blocks
<1>2. block.magic \in Magics /\ block.numrecs \in Nat
  BY <1>1 DEF Content
<1>3. n \in Nat /\ n = Pairs(IF block.magic = "BMA3" THEN 72 ELSE 24, BlockSize)
  BY <1>2, EntriesType, EntriesArePairs
<1>4. k \in Nat
  BY <1>2, <1>3 DEF AtMost
<1>5. FormatRecords(image, b) = LeafRecs(b)
  BY <1>3 DEF FormatRecords, LeafRecs
<1>6. LeafRecs(b) = [i \in 1..k |-> <<b, i>>]
  BY DEF LeafRecs
<1> HIDE DEF k
<1>7. LeafRecs(b) \in Seq(Records)
  BY <1>4, <1>6 DEF Records
<1> QED
  BY <1>5, <1>7

(* What hangs below every block, level by level. *)
IsBelow(img, f, m) ==
    f = [level \in 0..m |->
            [b \in Blocks |->
                IF level = 0 THEN FormatRecords(img, b)
                             ELSE Gather(img, f[level - 1], FormatPtrs(img.blocks[b]))]]
Beneath(img) == CHOOSE f : IsBelow(img, f, MAX_BMBT_LEVELS)

LEMMA BelowExists ==
    ASSUME NEW img, NEW n \in Nat
    PROVE  \E f : IsBelow(img, f, n)
<1> DEFINE T == {m \in Nat : \E f : IsBelow(img, f, m)}
           At(f, level) == [b \in Blocks |->
                              IF level = 0 THEN FormatRecords(img, b)
                              ELSE Gather(img, f[level - 1], FormatPtrs(img.blocks[b]))]
<1>0. \A f, m : IsBelow(img, f, m) <=> f = [level \in 0..m |-> At(f, level)]
  BY DEF IsBelow
<1>1. 0 \in T
  <2> DEFINE f == [level \in 0..0 |-> [b \in Blocks |-> FormatRecords(img, b)]]
  <2>1. \A level \in 0..0 : f[level] = At(f, level)
    OBVIOUS
  <2>2. f = [level \in 0..0 |-> At(f, level)]
    <3> HIDE DEF At
    <3> QED
      BY <2>1
  <2> HIDE DEF f, At
  <2> QED
    BY <1>0, <2>2
<1>2. ASSUME NEW m \in Nat, m \in T PROVE m + 1 \in T
  <2>1. PICK f : IsBelow(img, f, m)
    BY <1>2
  <2> DEFINE g == [level \in 0..(m + 1) |->
                      IF level = m + 1 THEN At(f, m + 1) ELSE f[level]]
  <2>2. \A level \in 0..m : f[level] = At(f, level)
    <3> HIDE DEF At
    <3> QED
      BY <1>0, <2>1
  <2>3. ASSUME NEW level \in 0..(m + 1) PROVE g[level] = At(g, level)
    <3>1. CASE level = m + 1
      <4>1. g[level] = At(f, m + 1) /\ g[level - 1] = f[m] /\ (m + 1) - 1 = m
        <5> HIDE DEF At
        <5> QED
          BY <3>1
      <4> HIDE DEF g
      <4> QED
        BY <3>1, <4>1
    <3>2. CASE level \in 0..m
      <4>1. g[level] = f[level] /\ (level # 0 => g[level - 1] = f[level - 1])
        <5> HIDE DEF At
        <5> QED
          BY <3>2
      <4>2. f[level] = At(f, level)
        <5> HIDE DEF At
        <5> QED
          BY <2>2, <3>2
      <4> HIDE DEF g
      <4> QED
        BY <4>1, <4>2
    <3> HIDE DEF g, At
    <3> QED
      BY <3>1, <3>2
  <2> HIDE DEF At
  <2>4. g = [level \in 0..(m + 1) |-> At(g, level)]
    BY <2>3
  <2> HIDE DEF g
  <2> QED
    BY <1>0, <2>4
<1> HIDE DEF T
<1> QED
  BY <1>1, <1>2, Induction DEF T

LEMMA GatherType ==
    ASSUME NEW img, NEW below, \A b \in Blocks : below[b] \in Seq(Records),
           NEW ptrs \in Seq(Nat)
    PROVE  Gather(img, below, ptrs) \in Seq(Records)
<1> DEFINE w == [i \in 1..Len(ptrs) |->
                    IF ptrs[i] < ImageBlocks /\ img.blocks[ptrs[i]].magic # "other"
                    THEN below[ptrs[i]] ELSE <<>>]
<1>1. Len(ptrs) \in Nat /\ \A i \in 1..Len(ptrs) : ptrs[i] \in Nat
  OBVIOUS
<1>2. <<>> \in Seq(Records)
  OBVIOUS
<1>3. \A i \in 1..Len(ptrs) : w[i] \in Seq(Records)
  <2> SUFFICES ASSUME NEW i \in 1..Len(ptrs) PROVE w[i] \in Seq(Records)
    OBVIOUS
  <2>1. ptrs[i] < ImageBlocks => ptrs[i] \in Blocks
    BY <1>1 DEF Blocks
  <2> QED
    BY <1>2, <2>1
<1>4. w \in Seq(Seq(Records))
  <2>1. w = [i \in 1..Len(ptrs) |-> w[i]]
    OBVIOUS
  <2> HIDE DEF w
  <2> QED
    BY <1>1, <1>3, <2>1
<1>5. Gather(img, below, ptrs) = FlattenSeq(w)
  BY DEF Gather
<1> HIDE DEF w
<1> QED
  BY <1>4, <1>5, FlattenType

LEMMA BeneathFacts ==
    ASSUME image \in Images
    PROVE  LET B == Beneath(image)
           IN  /\ \A b \in Blocks : B[0][b] = LeafRecs(b)
               /\ \A level \in 1..MAX_BMBT_LEVELS : \A b \in Blocks :
                     B[level][b] = Gather(image, B[level - 1], BlockPtrs(image.blocks[b]))
               /\ \A level \in 0..MAX_BMBT_LEVELS : \A b \in Blocks : B[level][b] \in Seq(Records)
<1> DEFINE B == Beneath(image)
<1>1. IsBelow(image, B, MAX_BMBT_LEVELS)
  <2>1. \E f : IsBelow(image, f, MAX_BMBT_LEVELS)
    BY BelowExists
  <2> QED
    BY <2>1 DEF Beneath
<1> HIDE DEF B
<1>2. \A level \in 0..MAX_BMBT_LEVELS : \A b \in Blocks :
         B[level][b] = IF level = 0 THEN FormatRecords(image, b)
                       ELSE Gather(image, B[level - 1], FormatPtrs(image.blocks[b]))
  <2>1. B = [level \in 0..MAX_BMBT_LEVELS |->
               [b \in Blocks |-> IF level = 0 THEN FormatRecords(image, b)
                                 ELSE Gather(image, B[level - 1], FormatPtrs(image.blocks[b]))]]
    BY ONLY <1>1 DEF IsBelow
  <2>2. \A level \in 0..MAX_BMBT_LEVELS : B[level] =
           [b \in Blocks |-> IF level = 0 THEN FormatRecords(image, b)
                             ELSE Gather(image, B[level - 1], FormatPtrs(image.blocks[b]))]
    BY ONLY <2>1, Zenon
  <2> QED
    BY ONLY <2>2, Zenon
<1>3. \A b \in Blocks : image.blocks[b] \in Content
                       /\ FormatPtrs(image.blocks[b]) = BlockPtrs(image.blocks[b])
                       /\ BlockPtrs(image.blocks[b]) \in Seq(Nat)
  <2>1. \A b \in Blocks : image.blocks[b] \in Content
    BY DEF Blocks
  <2> QED
    BY <2>1, FormatBlock, BlockPtrsType
<1>4. \A b \in Blocks : B[0][b] = LeafRecs(b) /\ B[0][b] \in Seq(Records)
  BY <1>2, FormatLeaf
<1>5. \A level \in 1..MAX_BMBT_LEVELS : \A b \in Blocks :
         B[level][b] = Gather(image, B[level - 1], BlockPtrs(image.blocks[b]))
  BY <1>2, <1>3
<1> DEFINE U == {m \in Nat : m <= MAX_BMBT_LEVELS => \A b \in Blocks : B[m][b] \in Seq(Records)}
<1>6. 0 \in U
  BY <1>4
<1>7. ASSUME NEW m \in Nat, m \in U PROVE m + 1 \in U
  <2> SUFFICES ASSUME m + 1 <= MAX_BMBT_LEVELS, NEW b \in Blocks PROVE B[m + 1][b] \in Seq(Records)
    OBVIOUS
  <2>1. \A c \in Blocks : B[m][c] \in Seq(Records)
    BY <1>7
  <2>2. m + 1 \in 1..MAX_BMBT_LEVELS /\ (m + 1) - 1 = m
    OBVIOUS
  <2>3. B[m + 1][b] = Gather(image, B[m], BlockPtrs(image.blocks[b]))
    BY <1>5, <2>2
  <2>4. BlockPtrs(image.blocks[b]) \in Seq(Nat)
    BY <1>3
  <2> QED
    BY <2>1, <2>3, <2>4, GatherType
<1>8. \A level \in 0..MAX_BMBT_LEVELS : \A b \in Blocks : B[level][b] \in Seq(Records)
  <2> HIDE DEF U
  <2>1. Nat \subseteq U
    BY <1>6, <1>7, Induction
  <2> QED
    BY <2>1 DEF U
<1> QED
  BY <1>4, <1>5, <1>8 DEF B

LEMMA ListingFacts ==
    ASSUME NEW img
    PROVE  Listing(img) = Gather(img, Beneath(img)[Pred(img.root.level)], FormatRootPtrs(img.root))
  BY DEF Listing, Beneath, IsBelow, Blocks

(* What the pointers of a node lead to, one subtree after the other, and   *)
(* what those from one pointer on do.                                      *)
Subtrees(at) ==
    [i \in 1..Len(PtrsOf(at)) |->
        IF Genuine(PtrsOf(at)[i]) THEN Beneath(image)[Pred(LevelOf(at))][PtrsOf(at)[i]] ELSE <<>>]
Rest(w) == CHOOSE R : IsRest(Records, w, R) /\ R[1] = FlattenSeq(w)

LEMMA SubtreeFacts ==
    ASSUME image \in Images, NEW at \in {Root} \cup Blocks,
           Pred(LevelOf(at)) \in 0..MAX_BMBT_LEVELS
    PROVE  /\ Len(PtrsOf(at)) \in Nat
           /\ Subtrees(at) \in Seq(Seq(Records)) /\ Len(Subtrees(at)) = Len(PtrsOf(at))
           /\ FlattenSeq(Subtrees(at)) = Gather(image, Beneath(image)[Pred(LevelOf(at))], PtrsOf(at))
<1> DEFINE ptrs == PtrsOf(at)
           below == Beneath(image)[Pred(LevelOf(at))]
           w == Subtrees(at)
<1>1. ptrs \in Seq(Nat) /\ Len(ptrs) \in Nat /\ \A i \in 1..Len(ptrs) : ptrs[i] \in Nat
  <2>1. ptrs \in Seq(Nat)
    BY PtrsOfType DEF Blocks
  <2> HIDE DEF ptrs
  <2> QED
    BY <2>1
<1>2. \A b \in Blocks : below[b] \in Seq(Records)
  BY BeneathFacts
<1>3. w = [i \in 1..Len(ptrs) |-> IF Genuine(ptrs[i]) THEN below[ptrs[i]] ELSE <<>>]
  BY DEF Subtrees
<1>4. FlattenSeq(w) = Gather(image, below, ptrs)
  BY <1>3 DEF Gather, Genuine, InImage
<1> HIDE DEF w, ptrs, below
<1>5. \A i \in 1..Len(ptrs) : (IF Genuine(ptrs[i]) THEN below[ptrs[i]] ELSE <<>>) \in Seq(Records)
  <2> SUFFICES ASSUME NEW i \in 1..Len(ptrs)
               PROVE  (IF Genuine(ptrs[i]) THEN below[ptrs[i]] ELSE <<>>) \in Seq(Records)
    OBVIOUS
  <2>1. Genuine(ptrs[i]) => ptrs[i] \in Blocks
    BY <1>1 DEF Genuine, InImage, Blocks
  <2>2. <<>> \in Seq(Records)
    OBVIOUS
  <2> QED
    BY <1>2, <2>1, <2>2
<1>6. w \in Seq(Seq(Records)) /\ Len(w) = Len(ptrs)
  BY <1>1, <1>3, <1>5
<1> QED
  BY <1>1, <1>4, <1>6 DEF w, ptrs, below

LEMMA RestFacts ==
    ASSUME NEW w \in Seq(Seq(Records))
    PROVE  IsRest(Records, w, Rest(w)) /\ Rest(w)[1] = FlattenSeq(w)
<1>1. \E R : IsRest(Records, w, R) /\ R[1] = FlattenSeq(w)
  BY FlattenRest
<1> QED
  BY <1>1 DEF Rest

(* A node's subtrees from pointer i on begin with the i-th. *)
LEMMA NodeRest ==
    ASSUME image \in Images, NEW at \in {Root} \cup Blocks,
           Pred(LevelOf(at)) \in 0..MAX_BMBT_LEVELS
    PROVE  LET R == Rest(Subtrees(at))
               n == Len(PtrsOf(at))
           IN  /\ n \in Nat
               /\ DOMAIN R = 1..(n + 1) /\ \A i \in 1..(n + 1) : R[i] \in Seq(Records)
               /\ R[n + 1] = <<>>
               /\ R[1] = Gather(image, Beneath(image)[Pred(LevelOf(at))], PtrsOf(at))
               /\ \A i \in 1..n :
                     R[i] = (IF Genuine(PtrsOf(at)[i])
                             THEN Beneath(image)[Pred(LevelOf(at))][PtrsOf(at)[i]] ELSE <<>>) \o R[i + 1]
<1> DEFINE w == Subtrees(at)
           n == Len(PtrsOf(at))
           R == Rest(w)
           T(i) == IF Genuine(PtrsOf(at)[i])
                   THEN Beneath(image)[Pred(LevelOf(at))][PtrsOf(at)[i]] ELSE <<>>
<1>1. /\ n \in Nat /\ w \in Seq(Seq(Records)) /\ Len(w) = n
      /\ FlattenSeq(w) = Gather(image, Beneath(image)[Pred(LevelOf(at))], PtrsOf(at))
  BY SubtreeFacts
<1>2. \A i \in 1..n : w[i] = T(i)
  BY DEF Subtrees
<1> HIDE DEF w, n, T
<1>3. IsRest(Records, w, R) /\ R[1] = FlattenSeq(w)
  BY <1>1, RestFacts
<1> HIDE DEF R
<1>4. /\ R \in [1..(n + 1) -> Seq(Records)] /\ R[n + 1] = <<>>
      /\ \A i \in 1..n : R[i] = w[i] \o R[i + 1]
  BY <1>1, <1>3 DEF IsRest
<1>5. DOMAIN R = 1..(n + 1) /\ \A i \in 1..(n + 1) : R[i] \in Seq(Records)
  BY ONLY <1>4
<1>6. \A i \in 1..n : R[i] = T(i) \o R[i + 1]
  BY ONLY <1>2, <1>4
<1> QED
  BY <1>1, <1>3, <1>4, <1>5, <1>6 DEF w, n, R, T

-----------------------------------------------------------------------------
Tree ==
    image.root.forkoff = 0 /\ LevelsAgree /\ image.root.level <= MAX_BMBT_LEVELS

(* What the loops on the stack have left: R[k] is what the k lowest loops  *)
(* are still to collect, the k-th first.                                   *)
Rests == [at \in {Root} \cup Blocks |-> Rest(Subtrees(at))]
Ahead(rests, R, frames) ==
    /\ R \in [0..Len(frames) -> Seq(Records)]
    /\ R[0] = <<>>
    /\ \A k \in 1..Len(frames) :
          /\ frames[k].next \in DOMAIN rests[frames[k].at]
          /\ R[k] = rests[frames[k].at][frames[k].next] \o R[k - 1]

(* On a tree, as long as the budget lasts, the records collected and what  *)
(* the loops have left make up the listing.  Once the budget is spent the  *)
(* loops drop what they had left, and only the prefix remains.             *)
Remains(rests, frames, collected, listing) ==
    \E R : Ahead(rests, R, frames) /\ collected \o R[Len(frames)] = listing
TreeInv ==
    Tree => /\ IsPrefix(out, Listing(image))
            /\ budget > 0 => Remains(Rests, stack, out, Listing(image))

LEMMA SameTree ==
    ASSUME image' = image
    PROVE  (Tree' <=> Tree) /\ Rests' = Rests /\ Listing(image)' = Listing(image)
<1>1. Tree' <=> Tree
  BY DEF Tree, LevelsAgree, Genuine, InImage, IsLeaf, PtrsOf, LevelOf
<1>2. Rests' = Rests
  BY DEF Rests, Subtrees, Genuine, InImage, PtrsOf, LevelOf
<1> QED
  BY <1>1, <1>2

(* A loop's node has a level the depth guard lets pass. *)
LEMMA NodeLevel ==
    ASSUME Inv, Tree, NEW k \in 1..Len(stack)
    PROVE  LET at == stack[k].at
           IN  /\ at \in {Root} \cup Blocks /\ stack[k] \in Frame
               /\ at \in {Root} \cup {b \in Blocks : Genuine(b) /\ ~IsLeaf(b)}
               /\ Pred(LevelOf(at)) \in 0..MAX_BMBT_LEVELS
               /\ Pred(LevelOf(at)) < MAX_BMBT_LEVELS
<1> DEFINE at == stack[k].at
           level == LevelOf(at)
           root == image.root.level
<1>1. stack \in Seq(Frame) /\ image \in Images /\ image.root \in RootFork /\ Len(stack) \in Nat
  BY DEF Inv, TypeOK
<1>2. stack[k] \in Frame /\ at \in {Root} \cup Blocks
  <2>1. stack[k] \in Frame
    BY <1>1
  <2> QED
    BY <2>1 DEF Frame, Blocks
<1>3. at \in {Root} \cup {b \in Blocks : Genuine(b) /\ ~IsLeaf(b)}
  <2>1. k = 1 \/ k > 1
    BY <1>1
  <2> QED
    BY <1>2, <2>1 DEF Inv, FramesInv
<1>4. level \in Nat /\ root \in Nat
  <2>1. root \in Nat
    BY <1>1 DEF RootFork
  <2>2. at \in Blocks => image.blocks[at].level \in Nat
    <3>1. at \in Blocks => image.blocks[at] \in Content
      BY <1>1 DEF Blocks
    <3> QED
      BY <3>1 DEF Content
  <2> QED
    BY <1>2, <2>1, <2>2 DEF LevelOf
<1>5. level + k = root + 1 /\ root <= MAX_BMBT_LEVELS
  BY DEF Inv, LevelsInv, Tree
<1> HIDE DEF at, level, root
<1>6. k \in Nat /\ k >= 1
  OBVIOUS
<1>7. Pred(level) \in 0..MAX_BMBT_LEVELS /\ Pred(level) < MAX_BMBT_LEVELS
  BY <1>4, <1>5, <1>6 DEF Pred
<1> QED
  BY <1>2, <1>3, <1>7 DEF at, level

(* The loop on top and the pointer it follows. *)
LEMMA TopFacts ==
    ASSUME Inv, Tree, MayFollow
    PROVE  LET n == Len(stack)
               at == stack[n].at
               i == stack[n].next
           IN  /\ n \in Nat \ {0} /\ n \in 1..n
               /\ i \in Nat \ {0} /\ i \in 1..Len(PtrsOf(at))
               /\ NextPtr \in Nat /\ NextPtr = PtrsOf(at)[i]
               /\ MayEnter(NextPtr) <=> Genuine(NextPtr)
               /\ Genuine(NextPtr) => /\ NextPtr \in Blocks
                                      /\ image.blocks[NextPtr].level = Pred(LevelOf(at))
               /\ Advanced \in Seq(Frame) /\ Len(Advanced) = n
               /\ Advanced[n] = [at |-> at, next |-> i + 1]
               /\ \A k \in 1..n : k # n => Advanced[k] = stack[k]
<1> DEFINE n == Len(stack)
           at == stack[n].at
           i == stack[n].next
<1>1. /\ n \in Nat \ {0} /\ Top = stack[n] /\ NextPtr \in Nat
      /\ Advanced \in Seq(Frame) /\ Len(Advanced) = n /\ image \in Images
  BY FollowFacts DEF Inv
<1>2. n \in 1..n
  BY <1>1
<1>3. /\ at \in {Root} \cup Blocks /\ stack[n] \in Frame
      /\ at \in {Root} \cup {b \in Blocks : Genuine(b) /\ ~IsLeaf(b)}
      /\ Pred(LevelOf(at)) < MAX_BMBT_LEVELS
  BY <1>2, NodeLevel
<1>4. i \in Nat \ {0} /\ stack[n] = [at |-> at, next |-> i]
  BY <1>3 DEF Frame
<1>5. i \in 1..Len(PtrsOf(at))
  <2>1. PtrsOf(at) \in Seq(Nat)
    BY <1>1, <1>3, PtrsOfType DEF Blocks
  <2> QED
    BY <1>1, <1>4, <2>1 DEF MayFollow, Exhausted
<1>6. NextPtr = PtrsOf(at)[i]
  BY <1>1 DEF NextPtr
<1>7. MayEnter(NextPtr) <=> Genuine(NextPtr)
  BY <1>1, <1>3 DEF MayEnter
<1>8. Genuine(NextPtr) => /\ NextPtr \in Blocks
                         /\ image.blocks[NextPtr].level = Pred(LevelOf(at))
  <2>1. Genuine(NextPtr) => NextPtr \in Blocks
    BY <1>1, EnterFacts DEF Blocks
  <2> QED
    BY <1>3, <1>5, <1>6, <2>1 DEF Tree, LevelsAgree, Blocks
<1>9. Advanced[n] = [at |-> at, next |-> i + 1] /\ \A k \in 1..n : k # n => Advanced[k] = stack[k]
  <2>1. stack \in Seq(Frame)
    BY DEF Inv, TypeOK
  <2>2. Advanced = [stack EXCEPT ![n] = [stack[n] EXCEPT !.next = @ + 1]]
    BY DEF Advanced
  <2>3. [stack[n] EXCEPT !.next = @ + 1] = [at |-> at, next |-> i + 1]
    <3> DEFINE f == stack[n]
    <3>1. f = [at |-> at, next |-> i]
      BY <1>4
    <3>2. [f EXCEPT !.next = @ + 1] = [at |-> at, next |-> i + 1]
      <4> HIDE DEF f, at, i
      <4> QED
        BY <3>1
    <3> QED
      BY <3>2
  <2> HIDE DEF at, i, n
  <2> QED
    BY <1>2, <2>1, <2>2, <2>3 DEF n
<1> HIDE DEF n, at, i
<1> QED
  BY <1>1, <1>2, <1>4, <1>5, <1>6, <1>7, <1>8, <1>9 DEF n, at, i

(* Following a pointer takes its subtree off what the top loop has left.   *)
LEMMA FollowAhead ==
    ASSUME Inv, Tree, MayFollow, Remains(Rests, stack, out, Listing(image))
    PROVE  LET n == Len(stack)
               level == Pred(LevelOf(stack[n].at))
               part == IF Genuine(NextPtr) THEN Beneath(image)[level][NextPtr] ELSE <<>>
           IN  \E Q : /\ Ahead(Rests, Q, Advanced) /\ part \in Seq(Records)
                      /\ Q[n] \in Seq(Records)
                      /\ out \o (part \o Q[n]) = Listing(image)
<1> DEFINE n == Len(stack)
           at == stack[n].at
           i == stack[n].next
           level == Pred(LevelOf(at))
           part == IF Genuine(NextPtr) THEN Beneath(image)[level][NextPtr] ELSE <<>>
           rest == Rests[at]
<1>1. PICK R : Ahead(Rests, R, stack) /\ out \o R[n] = Listing(image)
  BY DEF Remains
<1>2. /\ n \in Nat \ {0} /\ n \in 1..n
      /\ i \in Nat \ {0} /\ i \in 1..Len(PtrsOf(at))
      /\ NextPtr = PtrsOf(at)[i]
      /\ Genuine(NextPtr) => NextPtr \in Blocks
      /\ Advanced \in Seq(Frame) /\ Len(Advanced) = n
      /\ Advanced[n] = [at |-> at, next |-> i + 1]
      /\ \A k \in 1..n : k # n => Advanced[k] = stack[k]
  BY TopFacts
<1>3. at \in {Root} \cup Blocks /\ level \in 0..MAX_BMBT_LEVELS /\ image \in Images
  BY <1>2, NodeLevel DEF Inv, TypeOK
<1>4. rest = Rest(Subtrees(at))
  BY <1>3 DEF Rests
<1>5. /\ DOMAIN rest = 1..(Len(PtrsOf(at)) + 1) /\ Len(PtrsOf(at)) \in Nat
      /\ \A j \in 1..(Len(PtrsOf(at)) + 1) : rest[j] \in Seq(Records)
      /\ rest[i] = part \o rest[i + 1]
  <2> HIDE DEF rest, level
  <2> QED
    BY <1>2, <1>3, <1>4, NodeRest DEF level
<1>6. part \in Seq(Records)
  <2>1. Genuine(NextPtr) => Beneath(image)[level][NextPtr] \in Seq(Records)
    BY <1>2, <1>3, BeneathFacts
  <2>2. <<>> \in Seq(Records)
    OBVIOUS
  <2> QED
    BY <2>1, <2>2
<1> HIDE DEF part, rest, level
<1>7. i + 1 \in DOMAIN rest /\ rest[i + 1] \in Seq(Records)
  <2> HIDE DEF i, at
  <2>1. i + 1 \in 1..(Len(PtrsOf(at)) + 1)
    BY <1>2, <1>5
  <2> QED
    BY <1>5, <2>1
<1>8. /\ R \in [0..n -> Seq(Records)] /\ R[0] = <<>>
      /\ \A k \in 1..n : /\ stack[k].next \in DOMAIN Rests[stack[k].at]
                         /\ R[k] = Rests[stack[k].at][stack[k].next] \o R[k - 1]
  BY <1>1 DEF Ahead
<1>9. n - 1 \in 0..n /\ R[n - 1] \in Seq(Records) /\ R[n] = rest[i] \o R[n - 1]
  <2>1. R[n] = rest[i] \o R[n - 1]
    BY <1>2, <1>8 DEF rest
  <2>2. n - 1 \in 0..n
    BY <1>2
  <2> QED
    BY <1>8, <2>1, <2>2
<1> DEFINE left == rest[i + 1] \o R[n - 1]
           Q == [k \in 0..n |-> IF k = n THEN left ELSE R[k]]
<1>10. left \in Seq(Records)
  BY <1>7, <1>9, ConcatProperties
<1>11. R[n] = part \o left
  <2> DEFINE behind == rest[i + 1]
             lower == R[n - 1]
  <2>1. R[n] = (part \o behind) \o lower
    BY <1>5, <1>9
  <2>2. part \in Seq(Records) /\ behind \in Seq(Records) /\ lower \in Seq(Records)
    BY <1>6, <1>7, <1>9
  <2> HIDE DEF behind, lower
  <2>3. (part \o behind) \o lower = part \o (behind \o lower)
    BY ONLY <2>2, ConcatAssociative
  <2> QED
    BY <2>1, <2>3 DEF behind, lower
<1>12. Ahead(Rests, Q, Advanced)
  <2> HIDE DEF left, n
  <2>1. Q \in [0..n -> Seq(Records)] /\ Q[0] = <<>>
    <3>1. \A k \in 0..n : R[k] \in Seq(Records)
      BY <1>8
    <3>2. 0 \in 0..n /\ n # 0
      BY <1>2
    <3> QED
      BY <1>8, <1>10, <3>1, <3>2
  <2>2. ASSUME NEW k \in 1..n
        PROVE  /\ Advanced[k].next \in DOMAIN Rests[Advanced[k].at]
               /\ Q[k] = Rests[Advanced[k].at][Advanced[k].next] \o Q[k - 1]
    <3>1. k \in 0..n /\ k - 1 \in 0..n /\ k - 1 # n
      BY <1>2
    <3>2. Q[k - 1] = R[k - 1]
      BY <3>1
    <3>3. CASE k = n
      <4>1. Q[k] = left /\ Advanced[k].at = at /\ Advanced[k].next = i + 1
        BY <1>2, <3>1, <3>3
      <4> HIDE DEF Q, at, i
      <4> QED
        BY <1>7, <3>2, <3>3, <4>1 DEF left, rest
    <3>4. CASE k # n
      <4>1. Q[k] = R[k] /\ Advanced[k] = stack[k]
        BY <1>2, <3>1, <3>4
      <4> HIDE DEF Q
      <4> QED
        BY <1>8, <3>2, <4>1
    <3> QED
      BY <3>3, <3>4
  <2> HIDE DEF Q
  <2> QED
    BY <1>2, <2>1, <2>2 DEF Ahead
<1>13. Q[n] = left
  <2> HIDE DEF left, n
  <2>1. n \in 0..n
    BY <1>2
  <2> QED
    BY <2>1
<1>14. out \o (part \o Q[n]) = Listing(image)
  BY <1>1, <1>11, <1>13
<1> HIDE DEF Q, left
<1> QED
  BY <1>6, <1>10, <1>12, <1>13, <1>14 DEF part, level

(* The invariant from what remains. *)
LEMMA RemainsInv ==
    ASSUME Inv', image' = image, Tree => Remains(Rests, stack', out', Listing(image))
    PROVE  TreeInv'
<1>1. (Tree' <=> Tree) /\ Rests' = Rests /\ Listing(image)' = Listing(image)
  BY SameTree
<1>2. Tree => IsPrefix(out', Listing(image))
  <2> SUFFICES ASSUME Tree PROVE IsPrefix(out', Listing(image))
    OBVIOUS
  <2>1. PICK R : Ahead(Rests, R, stack') /\ out' \o R[Len(stack')] = Listing(image)
    BY DEF Remains
  <2>2. out' \in Seq(Records) /\ stack' \in Seq(Frame) /\ Len(stack') \in Nat
    BY DEF Inv, TypeOK, Records, Blocks
  <2>3. R[Len(stack')] \in Seq(Records)
    <3>1. R \in [0..Len(stack') -> Seq(Records)]
      BY <2>1 DEF Ahead
    <3>2. Len(stack') \in 0..Len(stack')
      BY <2>2
    <3> QED
      BY <3>1, <3>2
  <2> QED
    BY <2>1, <2>2, <2>3, PrefixOfConcat
<1> QED
  BY <1>1, <1>2 DEF TreeInv

LEMMA TreeStart == Init => TreeInv
<1> SUFFICES ASSUME Init, Tree
             PROVE  IsPrefix(out, Listing(image)) /\ Remains(Rests, stack, out, Listing(image))
  BY DEF TreeInv
<1> DEFINE rest == Rests[Root]
<1>1. image \in Images /\ image.root \in RootFork /\ image.root.forkoff = 0
  BY DEF Init, Tree
<1>2. LevelOf(Root) = image.root.level /\ PtrsOf(Root) = RootPtrs(image.root)
  BY DEF LevelOf, PtrsOf
<1>3. Pred(LevelOf(Root)) \in 0..MAX_BMBT_LEVELS
  <2>1. image.root.level \in Nat /\ image.root.level <= MAX_BMBT_LEVELS
    BY <1>1 DEF RootFork, Tree
  <2> QED
    BY <1>2, <2>1 DEF Pred
<1>4. rest = Rest(Subtrees(Root))
  BY DEF Rests
<1> HIDE DEF rest
<1>5. 1 \in DOMAIN rest /\ rest[1] \in Seq(Records) /\ rest[1] = Listing(image)
  <2>1. Listing(image) = Gather(image, Beneath(image)[Pred(LevelOf(Root))], PtrsOf(Root))
    BY <1>1, <1>2, ListingFacts, FormatRoot
  <2>2. /\ Len(PtrsOf(Root)) \in Nat /\ DOMAIN rest = 1..(Len(PtrsOf(Root)) + 1)
        /\ \A j \in 1..(Len(PtrsOf(Root)) + 1) : rest[j] \in Seq(Records)
        /\ rest[1] = Gather(image, Beneath(image)[Pred(LevelOf(Root))], PtrsOf(Root))
    BY <1>1, <1>3, <1>4, NodeRest
  <2>3. 1 \in 1..(Len(PtrsOf(Root)) + 1)
    BY <2>2
  <2> QED
    BY <2>1, <2>2, <2>3
<1> DEFINE R == [k \in 0..1 |-> IF k = 1 THEN rest[1] ELSE <<>>]
<1>6. /\ Len(stack) = 1 /\ stack[1].at = Root /\ stack[1].next = 1 /\ out = <<>>
  BY DEF Init, NewFrame
<1>7. R \in [0..1 -> Seq(Records)] /\ R[0] = <<>> /\ R[1] = rest[1]
  <2>1. <<>> \in Seq(Records)
    OBVIOUS
  <2> QED
    BY <1>5, <2>1
<1> HIDE DEF R
<1>8. rest[1] \o R[0] = R[1] /\ <<>> \o R[1] = Listing(image)
  BY <1>5, <1>7, ConcatEmptySeq
<1>9. Ahead(Rests, R, stack)
  <2>1. \A k \in 1..Len(stack) : k = 1 /\ k - 1 = 0
    BY <1>6
  <2> QED
    BY <1>5, <1>6, <1>7, <1>8, <2>1 DEF Ahead, rest
<1>10. Remains(Rests, stack, out, Listing(image))
  BY <1>6, <1>8, <1>9 DEF Remains
<1>11. IsPrefix(out, Listing(image))
  <2>1. Listing(image) \in Seq(Records) /\ <<>> \in Seq(Records) /\ <<>> \o Listing(image) = Listing(image)
    BY <1>5, ConcatEmptySeq
  <2>2. IsPrefix(<<>>, <<>> \o Listing(image))
    BY ONLY <2>1, PrefixOfConcat
  <2> QED
    BY <1>6, <2>1, <2>2
<1> QED
  BY <1>10, <1>11

LEMMA TreeSkip == Inv /\ Inv' /\ TreeInv /\ Skip => TreeInv'
<1> SUFFICES ASSUME Inv, Inv', TreeInv, Skip PROVE TreeInv'
  OBVIOUS
<1>1. image' = image /\ out' = out /\ stack' = Advanced /\ MayFollow /\ ~MayEnter(NextPtr)
  BY DEF Skip
<1>2. ASSUME Tree PROVE Remains(Rests, stack', out', Listing(image))
  <2> DEFINE n == Len(stack)
  <2>1. Remains(Rests, stack, out, Listing(image))
    BY <1>1, <1>2 DEF TreeInv, MayFollow, Inv, TypeOK
  <2>2. ~Genuine(NextPtr) /\ Len(Advanced) = n
    BY <1>1, <1>2, TopFacts
  <2>3. PICK Q : Ahead(Rests, Q, Advanced) /\ Q[n] \in Seq(Records)
                 /\ out \o (<<>> \o Q[n]) = Listing(image)
    BY <1>1, <1>2, <2>1, <2>2, FollowAhead
  <2>4. out \o Q[n] = Listing(image)
    BY <2>3, ConcatEmptySeq
  <2> QED
    BY <1>1, <2>2, <2>3, <2>4 DEF Remains
<1> QED
  BY <1>1, <1>2, RemainsInv

LEMMA TreeCollect == Inv /\ Inv' /\ TreeInv /\ Collect => TreeInv'
<1> SUFFICES ASSUME Inv, Inv', TreeInv, Collect PROVE TreeInv'
  OBVIOUS
<1>1. /\ image' = image /\ out' = out \o LeafRecs(NextPtr) /\ stack' = Advanced
      /\ MayFollow /\ MayEnter(NextPtr) /\ IsLeaf(NextPtr)
  BY DEF Collect
<1>2. ASSUME Tree PROVE Remains(Rests, stack', out', Listing(image))
  <2> DEFINE n == Len(stack)
             level == Pred(LevelOf(stack[n].at))
             part == LeafRecs(NextPtr)
  <2>1. Remains(Rests, stack, out, Listing(image)) /\ image \in Images /\ out \in Seq(Records)
    BY <1>1, <1>2 DEF TreeInv, MayFollow, Inv, TypeOK, Records, Blocks
  <2>2. /\ Genuine(NextPtr) /\ NextPtr \in Blocks /\ Len(Advanced) = n
        /\ image.blocks[NextPtr].level = level
    BY <1>1, <1>2, TopFacts
  <2>3. level = 0 /\ Beneath(image)[0][NextPtr] = part
    BY <1>1, <2>1, <2>2, BeneathFacts DEF IsLeaf
  <2> HIDE DEF part
  <2>4. PICK Q : /\ Ahead(Rests, Q, Advanced) /\ part \in Seq(Records) /\ Q[n] \in Seq(Records)
                 /\ out \o (part \o Q[n]) = Listing(image)
    BY <1>1, <1>2, <2>1, <2>2, <2>3, FollowAhead
  <2>5. (out \o part) \o Q[n] = Listing(image)
    <3> DEFINE rest == Q[n]
    <3>1. rest \in Seq(Records) /\ part \in Seq(Records) /\ out \in Seq(Records)
      BY <2>1, <2>4
    <3> HIDE DEF rest
    <3>2. (out \o part) \o rest = out \o (part \o rest)
      BY ONLY <3>1, ConcatAssociative
    <3> QED
      BY <2>4, <3>2 DEF rest
  <2> QED
    BY <1>1, <2>2, <2>4, <2>5 DEF Remains, part
<1> QED
  BY <1>1, <1>2, RemainsInv

LEMMA TreeDescend == Inv /\ Inv' /\ TreeInv /\ Descend => TreeInv'
<1> SUFFICES ASSUME Inv, Inv', TreeInv, Descend PROVE TreeInv'
  OBVIOUS
<1> DEFINE b == NextPtr
           frame == NewFrame(b)
<1>1. /\ image' = image /\ out' = out /\ stack' = Append(Advanced, frame)
      /\ MayFollow /\ MayEnter(b) /\ ~IsLeaf(b)
  BY DEF Descend
<1>2. ASSUME Tree PROVE Remains(Rests, stack', out', Listing(image))
  <2> DEFINE n == Len(stack)
             level == Pred(LevelOf(stack[n].at))
             rest == Rests[b]
  <2>1. Remains(Rests, stack, out, Listing(image)) /\ image \in Images
    BY <1>1, <1>2 DEF TreeInv, MayFollow, Inv, TypeOK
  <2>2. /\ Genuine(b) /\ b \in Blocks /\ b # Root /\ image.blocks[b].level = level
        /\ n \in Nat \ {0} /\ n \in 1..n /\ Advanced \in Seq(Frame) /\ Len(Advanced) = n
    BY <1>1, <1>2, TopFacts DEF Blocks, Root
  <2>3. level \in 0..MAX_BMBT_LEVELS /\ level # 0
    BY <1>1, <1>2, <2>2, NodeLevel DEF IsLeaf
  <2>4. LevelOf(b) = level /\ PtrsOf(b) = BlockPtrs(image.blocks[b])
    BY <2>2 DEF LevelOf, PtrsOf
  <2> HIDE DEF level
  <2>5. Pred(LevelOf(b)) = level - 1 /\ level - 1 \in 0..MAX_BMBT_LEVELS /\ level \in 1..MAX_BMBT_LEVELS
    BY <2>3, <2>4 DEF Pred
  <2> DEFINE part == Beneath(image)[level][b]
  <2>6. rest = Rest(Subtrees(b))
    BY <2>2 DEF Rests
  <2> HIDE DEF rest
  <2>7. 1 \in DOMAIN rest /\ rest[1] = part
    <3>1. part = Gather(image, Beneath(image)[level - 1], PtrsOf(b))
      BY <2>1, <2>2, <2>4, <2>5, BeneathFacts
    <3>2. /\ Len(PtrsOf(b)) \in Nat /\ DOMAIN rest = 1..(Len(PtrsOf(b)) + 1)
          /\ rest[1] = Gather(image, Beneath(image)[level - 1], PtrsOf(b))
      BY <2>1, <2>2, <2>5, <2>6, NodeRest
    <3>3. 1 \in 1..(Len(PtrsOf(b)) + 1)
      BY <3>2
    <3> QED
      BY <3>1, <3>2, <3>3
  <2> HIDE DEF part
  <2>8. PICK Q : /\ Ahead(Rests, Q, Advanced) /\ part \in Seq(Records) /\ Q[n] \in Seq(Records)
                 /\ out \o (part \o Q[n]) = Listing(image)
    BY <1>1, <1>2, <2>1, <2>2, FollowAhead DEF part, level
  <2>9. /\ Q \in [0..n -> Seq(Records)] /\ Q[0] = <<>>
        /\ \A k \in 1..n : /\ Advanced[k].next \in DOMAIN Rests[Advanced[k].at]
                           /\ Q[k] = Rests[Advanced[k].at][Advanced[k].next] \o Q[k - 1]
    BY <2>2, <2>8 DEF Ahead
  <2>10. /\ Len(stack') = n + 1 /\ \A k \in 1..n : stack'[k] = Advanced[k]
         /\ stack'[n + 1].at = b /\ stack'[n + 1].next = 1
    <3>1. frame \in Frame /\ frame.at = b /\ frame.next = 1
      BY <2>2 DEF NewFrame, Frame, Blocks
    <3> HIDE DEF frame
    <3> QED
      BY <1>1, <2>2, <3>1, AppendProperties
  <2> DEFINE left == part \o Q[n]
             R == [k \in 0..(n + 1) |-> IF k = n + 1 THEN left ELSE Q[k]]
  <2>11. left \in Seq(Records)
    BY <2>8, ConcatProperties
  <2> HIDE DEF n
  <2>12. R[n + 1] = left /\ \A k \in 0..n : R[k] = Q[k]
    <3>1. n + 1 \in 0..(n + 1) /\ \A k \in 0..n : k \in 0..(n + 1) /\ k # n + 1
      BY <2>2
    <3> HIDE DEF left
    <3> QED
      BY <3>1
  <2>13. R \in [0..(n + 1) -> Seq(Records)]
    <3>1. \A k \in 0..(n + 1) : k = n + 1 \/ k \in 0..n
      BY <2>2
    <3> HIDE DEF left
    <3> QED
      BY <2>9, <2>11, <3>1
  <2> HIDE DEF R
  <2>14. Ahead(Rests, R, stack')
    <3>1. R[0] = <<>>
      <4>1. 0 \in 0..n
        BY <2>2
      <4> QED
        BY <2>9, <2>12, <4>1
    <3>2. ASSUME NEW k \in 1..(n + 1)
          PROVE  /\ stack'[k].next \in DOMAIN Rests[stack'[k].at]
                 /\ R[k] = Rests[stack'[k].at][stack'[k].next] \o R[k - 1]
      <4>1. CASE k = n + 1
        <5>1. k - 1 = n /\ n \in 0..n
          BY <2>2, <4>1
        <5>2. R[k] = part \o R[k - 1]
          BY <2>12, <4>1, <5>1 DEF left
        <5> QED
          BY <2>7, <2>10, <4>1, <5>2 DEF rest
      <4>2. CASE k \in 1..n
        <5>1. k \in 0..n /\ k - 1 \in 0..n
          BY <2>2, <4>2
        <5>2. R[k] = Q[k] /\ R[k - 1] = Q[k - 1] /\ stack'[k] = Advanced[k]
          BY <2>10, <2>12, <4>2, <5>1
        <5> QED
          BY <2>9, <4>2, <5>2
      <4>3. k = n + 1 \/ k \in 1..n
        BY <2>2
      <4> QED
        BY <4>1, <4>2, <4>3
    <3> QED
      BY <2>10, <2>13, <3>1, <3>2 DEF Ahead
  <2> QED
    BY <1>1, <2>8, <2>10, <2>12, <2>14 DEF Remains, left
<1> QED
  BY <1>1, <1>2, RemainsInv

(* A loop that ends with its pointers exhausted leaves nothing behind; one *)
(* that the budget ended has lost its claim to anything but the prefix.    *)
LEMMA TreeReturn == Inv /\ Inv' /\ TreeInv /\ Return => TreeInv'
<1> SUFFICES ASSUME Inv, Inv', TreeInv, Return PROVE TreeInv'
  OBVIOUS
<1>1. image' = image /\ budget' = budget /\ out' = out /\ (Exhausted \/ budget = 0)
  BY DEF Return
<1>2. (Tree' <=> Tree) /\ Rests' = Rests /\ Listing(image)' = Listing(image)
  BY <1>1, SameTree
<1>3. ASSUME Tree, budget > 0 PROVE Remains(Rests, stack', out', Listing(image))
  <2> DEFINE n == Len(stack)
             at == stack[n].at
             rest == Rests[at]
  <2>1. /\ stack \in Seq(Frame) /\ n \in Nat \ {0} /\ image \in Images
        /\ Len(stack') = n - 1 /\ \A k \in 1..(n - 1) : stack'[k] = stack[k]
    BY ReturnFacts DEF Inv, TypeOK
  <2>2. n \in 1..n /\ n - 1 \in 0..n
    BY <2>1
  <2>3. PICK R : Ahead(Rests, R, stack) /\ out \o R[n] = Listing(image)
    BY <1>3 DEF TreeInv, Remains
  <2>4. /\ R \in [0..n -> Seq(Records)] /\ R[0] = <<>>
        /\ \A k \in 1..n : /\ stack[k].next \in DOMAIN Rests[stack[k].at]
                           /\ R[k] = Rests[stack[k].at][stack[k].next] \o R[k - 1]
    BY <2>3 DEF Ahead
  <2>5. /\ at \in {Root} \cup Blocks /\ Pred(LevelOf(at)) \in 0..MAX_BMBT_LEVELS
        /\ stack[n].next \in Nat
    BY <1>3, <2>2, NodeLevel DEF Frame
  <2>6. rest = Rest(Subtrees(at))
    BY <2>5 DEF Rests
  <2>7. /\ Len(PtrsOf(at)) \in Nat /\ DOMAIN rest = 1..(Len(PtrsOf(at)) + 1)
        /\ rest[Len(PtrsOf(at)) + 1] = <<>>
    <3> HIDE DEF rest
    <3> QED
      BY <2>1, <2>5, <2>6, NodeRest
  <2>8. stack[n].next = Len(PtrsOf(at)) + 1
    <3>1. stack[n].next > Len(PtrsOf(at))
      BY <1>1, <1>3 DEF Exhausted, Top
    <3>2. stack[n].next \in 1..(Len(PtrsOf(at)) + 1)
      BY <2>2, <2>4, <2>7
    <3> QED
      BY <2>5, <2>7, <3>1, <3>2
  <2>9. R[n] = R[n - 1] /\ R[n - 1] \in Seq(Records)
    <3>1. R[n - 1] \in Seq(Records)
      BY <2>2, <2>4
    <3>2. R[n] = <<>> \o R[n - 1]
      BY <2>2, <2>4, <2>7, <2>8
    <3> QED
      BY <3>1, <3>2, ConcatEmptySeq
  <2> DEFINE Q == [k \in 0..(n - 1) |-> R[k]]
  <2> HIDE DEF n
  <2>10. \A k \in 0..(n - 1) : k \in 0..n /\ Q[k] = R[k] /\ R[k] \in Seq(Records)
    BY <2>1, <2>4
  <2>11. Q \in [0..(n - 1) -> Seq(Records)] /\ 0 \in 0..(n - 1) /\ n - 1 \in 0..(n - 1)
    BY <2>1, <2>10
  <2> HIDE DEF Q
  <2>12. Ahead(Rests, Q, stack')
    <3>1. ASSUME NEW k \in 1..(n - 1)
          PROVE  /\ stack'[k].next \in DOMAIN Rests[stack'[k].at]
                 /\ Q[k] = Rests[stack'[k].at][stack'[k].next] \o Q[k - 1]
      <4>1. k \in 1..n /\ k \in 0..(n - 1) /\ k - 1 \in 0..(n - 1)
        BY <2>1
      <4> QED
        BY <2>1, <2>4, <2>10, <4>1
    <3>2. Q[0] = <<>>
      BY <2>4, <2>10, <2>11
    <3> QED
      BY <2>1, <2>11, <3>1, <3>2 DEF Ahead
  <2>13. out' \o Q[Len(stack')] = Listing(image)
    BY <1>1, <2>1, <2>3, <2>9, <2>10, <2>11
  <2> QED
    BY <2>12, <2>13 DEF Remains
<1> QED
  BY <1>1, <1>2, <1>3 DEF TreeInv

LEMMA TreeInvHolds == Spec => []TreeInv
<1>1. Inv /\ Inv' /\ TreeInv /\ [Next]_vars => TreeInv'
  <2> SUFFICES ASSUME Inv, Inv', TreeInv, [Next]_vars PROVE TreeInv'
    OBVIOUS
  <2>1. CASE UNCHANGED vars
    <3>1. image' = image /\ stack' = stack /\ budget' = budget /\ out' = out
      BY <2>1 DEF vars
    <3> QED
      BY <3>1, SameTree DEF TreeInv
  <2> QED
    BY <2>1, TreeSkip, TreeCollect, TreeDescend, TreeReturn DEF Next
<1> QED
  BY <1>1, TreeStart, InvHolds, PTL DEF Spec

(* The walk returns the file's extent map (btree.rs:3-12): on every tree   *)
(* whose levels agree, whatever blocks it shares or pointers are damaged,  *)
(* the records collected are always a prefix of the tree's in key order,   *)
(* and all of them at the end of a walk that the budget lasted for.        *)
THEOREM TreeAlwaysCollected == Spec => []CollectsTheTree
<1>1. Inv /\ TreeInv => CollectsTheTree
  <2> SUFFICES ASSUME Inv, TreeInv, Tree
               PROVE  /\ IsPrefix(out, Listing(image))
                      /\ Done /\ budget > 0 => out = Listing(image)
    BY DEF CollectsTheTree, Tree
  <2>1. ASSUME Done, budget > 0 PROVE out = Listing(image)
    <3>1. PICK R : Ahead(Rests, R, stack) /\ out \o R[Len(stack)] = Listing(image)
      BY <2>1 DEF TreeInv, Remains
    <3>2. Len(stack) = 0 /\ R[0] = <<>>
      BY <2>1, <3>1 DEF Done, Ahead
    <3>3. out \o <<>> = Listing(image) /\ out \in Seq(Records)
      BY <3>1, <3>2 DEF Inv, TypeOK, Records, Blocks
    <3> QED
      BY <3>3, ConcatEmptySeq
  <2> QED
    BY <2>1 DEF TreeInv
<1> QED
  BY <1>1, InvHolds, TreeInvHolds, PTL
=============================================================================
