------------------------------ MODULE Recover ------------------------------
(***************************************************************************)
(* recover_deleted: the sweep over every inode slot of the image for freed *)
(* inodes whose extent records survived (src/forensic/src/lib.rs).         *)
(*                                                                         *)
(* The image is its inode slots; a byte of it is named by its position.    *)
(* What assemble_extents returns is taken from the theorem that            *)
(* ExtentReadProofs proves of it: byte i is what the last record holding i *)
(* maps it to, and zero where no record does.                              *)
(***************************************************************************)
EXTENDS Geometry, Sequences, FiniteSets

CONSTANTS
    G,         \* the superblock's geometry
    ImageLen,  \* image.len()
    Images     \* the images the sweep is run on

Zero == -1
Rec == [startoff : Nat, startblock : Nat, blockcount : Nat]

(* What a slot's bytes say to the sweep: the inode magic or not, di_version *)
(* and di_mode, and the 16-byte records its data-fork area holds.          *)
Slot == [inode : BOOLEAN, version : Nat, mode : Nat, fork : Seq(Rec)]
SlotOffsets == {off \in 0..(ImageLen - G.inodesize) : off % G.inodesize = 0}

ASSUME RecoverAssumption ==
    /\ G \in Geometries
    /\ ImageLen \in Nat /\ ImageLen < U64_MAX /\ FitsU64(G, ImageLen)
    /\ \A img \in Images : img \in [SlotOffsets -> Slot]

VARIABLES image, off, out
vars == <<image, off, out>>
-----------------------------------------------------------------------------
TotalBlocks == ImageLen \div G.blocksize

(* A record that can be a surviving extent: not empty, not at block 0,     *)
(* wholly inside the image.                                                *)
Survives(rec) ==
    /\ rec.blockcount # 0
    /\ rec.startblock # 0
    /\ rec.startblock + rec.blockcount <= TotalBlocks

DecodeResidualMut(fork) == SelectSeq(fork, Survives)  \* mutant: no stop, only a filter
(* decode_residual: the records before the first that cannot be one. *)
DecodeResidual(fork) ==
    LET n == CHOOSE m \in 0..Len(fork) :
                /\ \A k \in 1..m : Survives(fork[k])
                /\ m < Len(fork) => ~Survives(fork[m + 1])
    IN  SubSeq(fork, 1, n)

SizeEstimateMut(recs) == Len(recs) * G.blocksize  \* mutant: records, not blocks
SizeEstimate(recs) ==
    LET Blocks[k \in 0..Len(recs)] == IF k = 0 THEN 0 ELSE Blocks[k - 1] + recs[k].blockcount
    IN  Blocks[Len(recs)] * G.blocksize

(* assemble_extents on these records, as ExtentRead has it: an inode with  *)
(* this list and size.                                                     *)
Inode(recs, size) == [format |-> "Btree", nextents |-> 0, size |-> size, fork |-> recs]
Reader(inode) ==
    INSTANCE ExtentRead WITH BlockSize <- G.blocksize, USIZE_MAX <- U64_MAX, Inodes <- {},
                             status <- "returned", recs <- <<>>, next <- 1, out <- <<>>

(* Nothing when the size is refused (unwrap_or_default); the first byte of *)
(* the file is carved[1].                                                  *)
AssembleExtents(recs, size) ==
    LET Holding(i) == {k \in 1..Len(recs) : Reader(Inode(recs, size))!Holds(recs[k], i)}
        Last(i) == CHOOSE k \in Holding(i) : \A l \in Holding(i) : l <= k
    IN  IF size > ImageLen THEN <<>>
        ELSE [i \in 1..size |->
                IF Holding(i - 1) = {} THEN Zero
                ELSE Reader(Inode(recs, size))!Place(recs[Last(i - 1)], i - 1)]

Freed(slot) == slot.inode /\ slot.version >= 3 /\ slot.mode = 0
(* What is reported: a freed inode some of whose records survived, in a    *)
(* slot that has a number.                                                 *)
Recoverable(at) ==
    /\ Freed(image[at]) /\ DecodeResidual(image[at].fork) # <<>>
    /\ OffsetToInode(G, at) # NoNumber

Carve(at, recs) ==
    LET size == SizeEstimate(recs)
    IN  [ino |-> OffsetToInode(G, at), extents |-> recs, size |-> size,
         carved |-> AssembleExtents(recs, size)]
-----------------------------------------------------------------------------
InSweep == off + G.inodesize <= ImageLen

PassOver ==
    /\ InSweep /\ ~Recoverable(off)
    /\ off' = off + G.inodesize
    /\ UNCHANGED <<image, out>>

FindMut ==  \* mutant: an inode without a surviving record is reported too
    /\ off + G.inodesize <= ImageLen
    /\ Freed(image[off])
    /\ out' = Append(out, Carve(off, DecodeResidual(image[off].fork)))
    /\ off' = off + G.inodesize
    /\ UNCHANGED image
Find ==
    /\ InSweep /\ Recoverable(off)
    /\ out' = Append(out, Carve(off, DecodeResidual(image[off].fork)))
    /\ off' = off + G.inodesize
    /\ UNCHANGED image

Init ==
    /\ image \in Images
    /\ off = 0
    /\ out = <<>>

Next == PassOver \/ Find
Spec == Init /\ [][Next]_vars
-----------------------------------------------------------------------------
Returned == ~InSweep

TypeOK ==
    /\ image \in [SlotOffsets -> Slot]
    /\ off \in 0..ImageLen /\ off % G.inodesize = 0
    /\ \A k \in 1..Len(out) :
          /\ out[k].ino \in Nat
          /\ out[k].extents \in Seq(Rec) /\ out[k].extents # <<>>
          /\ out[k].size \in Nat
          /\ \A i \in 1..Len(out[k].carved) : out[k].carved[i] \in {Zero} \cup 0..(ImageLen - 1)

(* The number reported for a deleted inode is the one by which the reader  *)
(* finds it: inode_to_location leads from it to the very slot, in order,   *)
(* in every allocation group and block ("the absolute inode number",       *)
(* lib.rs:449; "Reverse of inode_to_location", lib.rs:567).                *)
NumbersLocate ==
    /\ \A k \in 1..Len(out) :
          LET at == InodeToLocation(G, out[k].ino)
          IN  /\ at \in SlotOffsets /\ at < off
              /\ Freed(image[at])
              /\ out[k].extents = DecodeResidual(image[at].fork)
    /\ \A k, l \in 1..Len(out) :
          k < l => InodeToLocation(G, out[k].ino) < InodeToLocation(G, out[l].ino)

(* What a freed v3 inode still tells: the leading records that the code's  *)
(* doc calls real surviving extents (lib.rs:538-541).  Every version from  *)
(* 3 on is read as v3 (inode.rs:291).                                      *)
Leading(fork, n) ==
    /\ \A k \in 1..n : /\ fork[k].blockcount > 0 /\ fork[k].startblock > 0
                       /\ \A b \in fork[k].startblock..(fork[k].startblock + fork[k].blockcount - 1) :
                             (b + 1) * G.blocksize <= ImageLen
SweptFreed ==
    {at \in SlotOffsets : /\ at < off
                          /\ image[at].inode /\ image[at].version > 2 /\ image[at].mode = 0
                          /\ image[at].fork # <<>> /\ Leading(image[at].fork, 1)}

(* None is missed and none invented: one report for each freed inode with  *)
(* a surviving first record in the slots swept so far, with all of its     *)
(* leading records and none after the first hole.                          *)
EveryDeletedFound ==
    /\ Len(out) = Cardinality(SweptFreed)
    /\ \A at \in SweptFreed : \E k \in 1..Len(out) :
          /\ InodeToLocation(G, out[k].ino) = at
          /\ out[k].extents = SubSeq(image[at].fork, 1, Len(out[k].extents))
          /\ Leading(image[at].fork, Len(out[k].extents))
          /\ Len(out[k].extents) < Len(image[at].fork) =>
                ~Leading(image[at].fork, Len(out[k].extents) + 1)

(* The positions of the blocks of an extent. *)
BytesOf(rec) ==
    (rec.startblock * G.blocksize)..((rec.startblock + rec.blockcount) * G.blocksize - 1)
Carved(d) == {d.carved[i] : i \in 1..Len(d.carved)}
(* The residual records map the file without holes or overlaps. *)
Dense(recs) ==
    \A b \in 0..(SizeEstimate(recs) \div G.blocksize - 1) :
        \E k \in 1..Len(recs) :
            recs[k].startoff <= b /\ b < recs[k].startoff + recs[k].blockcount

(* Of a file without holes every surviving byte is carved, and of any file *)
(* nothing but bytes of its own extents (lib.rs:455-457, :467).            *)
CarvedIsTheFile ==
    \A k \in 1..Len(out) :
        LET own == UNION {BytesOf(out[k].extents[e]) : e \in 1..Len(out[k].extents)}
        IN  /\ Carved(out[k]) \subseteq own \cup {Zero}
            /\ Dense(out[k].extents) /\ out[k].size <= ImageLen =>
                  Carved(out[k]) = own

(* lib.rs:466-467: "decodes them, and carves their bytes via the extent    *)
(* reader where the blocks are readable".  The size the carve is cut off   *)
(* at is the sum of the block counts, so in a file with a hole the extents *)
(* behind the hole are cut off.                                            *)
EveryReadableExtentCarved ==
    \A k \in 1..Len(out) : \A e \in 1..Len(out[k].extents) :
        BytesOf(out[k].extents[e]) \subseteq Carved(out[k])
=============================================================================
