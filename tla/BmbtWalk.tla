------------------------------ MODULE BmbtWalk ------------------------------
(***************************************************************************)
(* read_btree_extents: the depth-first walk that collects every extent     *)
(* record of a bmap B+tree (src/core/src/btree.rs).                        *)
(*                                                                         *)
(* The recursion of walk_block is an explicit stack of frames.  A frame    *)
(* is a loop over the pointers of one node: the root in the inode's fork   *)
(* (node number Root) or an interior block.  `budget' is the MAX_BMBT_PTRS *)
(* counter all the frames share, `out' the records collected so far; a     *)
(* record is named by the leaf it lies in and its slot there.              *)
(*                                                                         *)
(* The image never changes.  It is arbitrary: a block may claim any level, *)
(* any count and any pointers, so the "tree" may be cyclic or share blocks.*)
(***************************************************************************)
EXTENDS Integers, Sequences, SequencesExt

CONSTANTS
    MAX_BMBT_LEVELS,  \* the depth guard's limit (32 in the code)
    MAX_BMBT_PTRS,    \* the pointers one walk may follow (2^20 in the code)
    BlockSize,        \* sb_blocksize, in bytes
    ImageBlocks,      \* whole blocks in the image: fsblocks 0 .. ImageBlocks-1
    Images            \* the images and root forks the walk is started on

Root == -1
Magics == {"BMA3", "BMAP", "other"}
WordLen == 8

(* bb_magic, bb_level and bb_numrecs of a block, and the block in 8-byte   *)
(* words (word 1 holds the header fields); of the root fork, the words     *)
(* that follow its 4-byte header, up to the end of the inode, and the      *)
(* inode's di_forkoff (where the attribute fork begins, 0 if there is none).*)
Content == [magic : Magics, level : Nat, numrecs : Nat,
            words : [1..(BlockSize \div WordLen) -> Nat]]
RootFork == [level : Nat, numrecs : Nat, forkoff : Nat, words : Seq(Nat)]

ASSUME ConstantsAssumption ==
    /\ MAX_BMBT_LEVELS \in Nat \ {0}
    /\ MAX_BMBT_PTRS \in Nat
    /\ BlockSize \in Nat /\ BlockSize % WordLen = 0
    /\ ImageBlocks \in Nat
ASSUME ImagesAssumption ==
    \A img \in Images : /\ img.root \in RootFork
                        /\ img.blocks \in [0..(ImageBlocks - 1) -> Content]

VARIABLES
    image,   \* the bytes: the root fork and the filesystem blocks
    stack,   \* the active loops, the root's at the bottom
    budget,  \* pointers that may still be followed
    out      \* records collected, <<fsblock, slot>>

vars == <<image, stack, budget, out>>
-----------------------------------------------------------------------------
(* saturating_sub(1) on a level *)
Pred(level) == IF level = 0 THEN 0 ELSE level - 1
AtMost(n, cap) == IF n <= cap THEN n ELSE cap

Hdr(magic) == IF magic = "BMA3" THEN 72 ELSE 24

(* Sixteen-byte entries (a key and a pointer, or one record) behind the    *)
(* header; zero when the header alone does not fit.                        *)
Entries(magic) == IF BlockSize < Hdr(magic) THEN 0
                                            ELSE (BlockSize - Hdr(magic)) \div 16

InImage(b) == b < ImageBlocks
Genuine(b) == InImage(b) /\ image.blocks[b].magic # "other"
IsLeaf(b) == image.blocks[b].level = 0

(* Pointer i (from 1) of an interior block: behind maxrecs keys. *)
PtrWord(magic, i) == Hdr(magic) \div WordLen + Entries(magic) + i

(* dmaxrecs: the key/pointer pairs that fit in the fork after its header. *)
DMaxRecs(fork) == Len(fork.words) \div 2
RootPtrsMut(fork) ==  \* mutant: pointers at 4 + numrecs*8
    [i \in 1..AtMost(fork.numrecs, DMaxRecs(fork)) |->
        fork.words[AtMost(fork.numrecs, DMaxRecs(fork)) + i]]
RootPtrs(fork) ==
    [i \in 1..AtMost(fork.numrecs, DMaxRecs(fork)) |-> fork.words[DMaxRecs(fork) + i]]

BlockPtrs(block) ==
    [i \in 1..AtMost(block.numrecs, Entries(block.magic)) |->
        block.words[PtrWord(block.magic, i)]]

LevelOf(at) == IF at = Root THEN image.root.level ELSE image.blocks[at].level
PtrsOf(at) == IF at = Root THEN RootPtrs(image.root) ELSE BlockPtrs(image.blocks[at])

LeafRecsMut(b) ==  \* mutant: trusts the claimed count
    [i \in 1..image.blocks[b].numrecs |-> <<b, i>>]
(* collect_leaf_recs: the claimed records that fit in the block. *)
LeafRecs(b) ==
    [i \in 1..AtMost(image.blocks[b].numrecs, Entries(image.blocks[b].magic)) |-> <<b, i>>]
-----------------------------------------------------------------------------
Frame == [at : {Root} \cup 0..(ImageBlocks - 1), next : Nat \ {0}]
NewFrame(at) == [at |-> at, next |-> 1]

Top == stack[Len(stack)]
Exhausted == Top.next > Len(PtrsOf(Top.at))
NextPtr == PtrsOf(Top.at)[Top.next]
Advanced == [stack EXCEPT ![Len(stack)].next = @ + 1]

MayFollowMut == stack # <<>> /\ ~Exhausted  \* mutant: the budget is not looked at
(* The loop heads of read_btree_extents and walk_block: one more pointer   *)
(* is followed when there is one and the budget is not spent.              *)
MayFollow == stack # <<>> /\ ~Exhausted /\ budget > 0

MayEnterMut(b) == Pred(LevelOf(Top.at)) <= MAX_BMBT_LEVELS /\ Genuine(b)  \* off by one
(* The early returns of walk_block: the depth guard looks at the level     *)
(* expected from the parent's own bb_level.                                *)
MayEnter(b) == Pred(LevelOf(Top.at)) < MAX_BMBT_LEVELS /\ Genuine(b)

(* A pointer too deep, outside the image or to a block of another magic. *)
Skip ==
    /\ MayFollow
    /\ ~MayEnter(NextPtr)
    /\ stack' = Advanced
    /\ budget' = budget - 1
    /\ UNCHANGED <<image, out>>

Collect ==
    /\ MayFollow
    /\ MayEnter(NextPtr) /\ IsLeaf(NextPtr)
    /\ out' = out \o LeafRecs(NextPtr)
    /\ stack' = Advanced
    /\ budget' = budget - 1
    /\ UNCHANGED image

DescendMut ==  \* mutant: the child is walked before the pointer is paid for
    /\ MayFollow
    /\ MayEnter(NextPtr) /\ ~IsLeaf(NextPtr)
    /\ stack' = Append(Advanced, NewFrame(NextPtr))
    /\ UNCHANGED <<image, out, budget>>
Descend ==
    /\ MayFollow
    /\ MayEnter(NextPtr) /\ ~IsLeaf(NextPtr)
    /\ stack' = Append(Advanced, NewFrame(NextPtr))
    /\ budget' = budget - 1
    /\ UNCHANGED <<image, out>>

ReturnMut ==  \* mutant: a loop leaves only at the end of its pointers
    /\ stack # <<>> /\ Exhausted
    /\ stack' = SubSeq(stack, 1, Len(stack) - 1)
    /\ UNCHANGED <<image, budget, out>>
(* A loop ends: its pointers are exhausted, or the budget is. *)
Return ==
    /\ stack # <<>>
    /\ Exhausted \/ budget = 0
    /\ stack' = SubSeq(stack, 1, Len(stack) - 1)
    /\ UNCHANGED <<image, budget, out>>

Done == stack = <<>>

Init ==
    /\ image \in Images
    /\ stack = <<NewFrame(Root)>>
    /\ budget = MAX_BMBT_PTRS
    /\ out = <<>>

Next == Skip \/ Collect \/ Descend \/ Return

Spec == Init /\ [][Next]_vars
(* The walk is one synchronous call: nothing else can stop it from going on. *)
FairSpec == Spec /\ WF_vars(Next)
-----------------------------------------------------------------------------
Followed == MAX_BMBT_PTRS - budget

TypeOK ==
    /\ image \in Images
    /\ stack \in Seq(Frame)
    /\ budget \in 0..MAX_BMBT_PTRS
    /\ out \in Seq((0..(ImageBlocks - 1)) \X Nat)

(* Every record handed to the extent reader lies wholly inside a block of  *)
(* the image with a bmbt magic and level 0, in one of the slots the block  *)
(* claims: no record is made of a pointer area, of a foreign block or of   *)
(* bytes past a block's end, however the tree lies.                        *)
RecordsGenuine ==
    \A k \in 1..Len(out) :
        LET b == image.blocks[out[k][1]]
        IN  /\ b.magic # "other" /\ b.level = 0
            /\ out[k][2] \in 1..b.numrecs
            /\ Hdr(b.magic) + 16 * out[k][2] <= BlockSize

(* The memory the walk may take, whatever the image: no more frames than   *)
(* pointers followed, and no more records than the followed pointers'      *)
(* blocks can hold.                                                        *)
WorkBounded ==
    /\ Len(stack) <= 1 + Followed
    /\ Len(out) <= Followed * Entries("BMAP")

(* Children carry the level below their parent's, as a tree that mkfs or   *)
(* the kernel wrote has them.                                              *)
LevelsAgree ==
    \A at \in {Root} \cup {b \in 0..(ImageBlocks - 1) : Genuine(b) /\ ~IsLeaf(b)} :
        \A i \in 1..Len(PtrsOf(at)) :
            LET b == PtrsOf(at)[i]
            IN  Genuine(b) => image.blocks[b].level = Pred(LevelOf(at))

(* On such a tree the depth guard keeps its promise: there are never more  *)
(* than MAX_BMBT_LEVELS loops, the root's among them.                      *)
DepthOnTrees == LevelsAgree => Len(stack) <= MAX_BMBT_LEVELS

(* btree.rs:94-97 and :174-177 promise it of every image ("the depth cap   *)
(* uses the recursion count").  The guard compares the level the parent    *)
(* claims, so on a block that points to itself it never fires.             *)
DepthBounded == Len(stack) <= 1 + MAX_BMBT_LEVELS

(* The reference: the records of a tree as xfs_format.h lays it out, where *)
(* a node's entries are as many key/pointer pairs as fit behind its header *)
(* and the root's are those that fit before the attribute fork.            *)
Pairs(header, bytes) == Max({n \in 0..bytes : header + 16 * n <= bytes} \cup {0})

FormatRootPtrs(fork) ==
    LET bytes == IF fork.forkoff = 0 THEN 4 + WordLen * Len(fork.words) ELSE 8 * fork.forkoff
        n == Pairs(4, bytes)
    IN  SubSeq(fork.words, n + 1, n + AtMost(fork.numrecs, n))

FormatPtrs(block) ==
    LET header == IF block.magic = "BMA3" THEN 9 ELSE 3
        n == Pairs(8 * header, BlockSize)
    IN  SubSeq(block.words, header + n + 1, header + n + AtMost(block.numrecs, n))

FormatRecords(img, b) ==
    LET n == Pairs(IF img.blocks[b].magic = "BMA3" THEN 72 ELSE 24, BlockSize)
    IN  [i \in 1..AtMost(img.blocks[b].numrecs, n) |-> <<b, i>>]

(* What a node's pointers lead to, in key order, if `below' says what each *)
(* block of the level below holds: nothing out of the image or in a        *)
(* foreign block.                                                          *)
Gather(img, below, ptrs) ==
    FlattenSeq([i \in 1..Len(ptrs) |->
        IF ptrs[i] < ImageBlocks /\ img.blocks[ptrs[i]].magic # "other" THEN below[ptrs[i]] ELSE <<>>])
Listing(img) ==
    LET Below[level \in 0..MAX_BMBT_LEVELS] ==
            [b \in 0..(ImageBlocks - 1) |->
                IF level = 0 THEN FormatRecords(img, b)
                             ELSE Gather(img, Below[level - 1], FormatPtrs(img.blocks[b]))]
    IN  Gather(img, Below[Pred(img.root.level)], FormatRootPtrs(img.root))

(* On a tree whose levels agree the walk returns the file's extent map:    *)
(* what it has collected is always the beginning of the listing in key     *)
(* order, nothing skipped but what lies under damaged pointers and nothing *)
(* collected twice, and all of it when the budget sufficed.  btree.rs:3-12 *)
(* ("walking the tree in key order ... the file's complete extent map").   *)
(* An attribute fork behind the data fork is excepted (the run             *)
(* bmbt_attr_fork).                                                        *)
CollectsTheTree ==
    image.root.forkoff = 0 /\ LevelsAgree /\ image.root.level <= MAX_BMBT_LEVELS =>
        /\ IsPrefix(out, Listing(image))
        /\ Done /\ budget > 0 => out = Listing(image)

(* Each step uses up something that never comes back, on cyclic trees too: *)
(* a step follows a pointer or leaves a loop, and the loops entered are    *)
(* paid for by the pointers followed.                                      *)
Variant == 2 * budget + Len(stack)
WorkShrinks == [][Variant' < Variant]_vars

(* The walk ends on every image. *)
Termination == <>Done
=============================================================================
