------------------------------- MODULE DirRead -------------------------------
(***************************************************************************)
(* Superblock::read_dir: the listing of a directory in each of its formats *)
(* (src/core/src/dir.rs).                                                  *)
(*                                                                         *)
(* Name, inode number and ftype of an entry are not spelled out: an entry  *)
(* is named by where it lies, <<fsblock, offset>>, and one of a short-form *)
(* directory by <<Inline, offset>>.  Offsets and lengths are in bytes,     *)
(* since the walk goes wrong by single bytes.                              *)
(***************************************************************************)
EXTENDS Integers, Sequences, SequencesExt

CONSTANTS
    BlockSize,     \* sb_blocksize
    ImageBlocks,   \* whole blocks in the image
    LeafBoundary,  \* XFS_DIR2_LEAF_OFFSET in blocks
    Dirs           \* the directories, with their image, that are listed

Inline == -1
DIR3_DATA_HDR_LEN == 64
DIR2_DATA_HDR_LEN == 16
BLOCK_TAIL_LEN == 8
LEAF_ENTRY_LEN == 8

(* What the bytes at an offset say if a record is taken to begin there:    *)
(* a free tag and a length, or an entry with a name of namelen bytes.      *)
Item == [kind : {"free"}, len : Nat] \cup [kind : {"entry"}, namelen : Nat]
Zeroes == [kind |-> "entry", namelen |-> 0]

(* A block: its magic, the leaf count of its tail (of a single-block       *)
(* directory) and the offsets at which something other than zeroes begins. *)
Magics == {"XDB3", "XD2B", "XDD3", "XD2D", "other"}
Offsets == 0..(BlockSize - 1)
Block == [magic : Magics, leaves : Nat, at : UNION {[S -> Item] : S \in SUBSET Offsets}]
ZeroBlock == [magic |-> "other", leaves |-> 0, at |-> <<>>]

Rec == [startoff : Nat, startblock : Nat, blockcount : Nat]
Formats == {"Local", "Extents", "Btree", "Dev", "Other"}

(* `recs' are the records of the data fork: what read_extents or, for a    *)
(* Btree inode, read_btree_extents returns.  `short' is an inline fork: its *)
(* count, whether inode numbers take 8 bytes, its length, and the namelen  *)
(* found at each place the walk comes by.                                  *)
Dir == [ftype : BOOLEAN, format : Formats, size : Nat, recs : Seq(Rec),
        short : [count : Nat, wide : BOOLEAN, len : Nat, namelens : Seq(Nat)],
        blocks : [0..(ImageBlocks - 1) -> Block]]

ASSUME ConstantsAssumption ==
    /\ BlockSize \in Nat \ {0} /\ ImageBlocks \in Nat \ {0} /\ LeafBoundary \in Nat
(* d \in Dir, part by part. *)
ASSUME DirsAssumption ==
    \A d \in Dirs :
        /\ d.format \in Formats /\ d.ftype \in BOOLEAN /\ d.size \in Nat
        /\ d.recs \in Seq(Rec)
        /\ d.short \in [count : Nat, wide : BOOLEAN, len : Nat, namelens : Seq(Nat)]
        /\ Len(d.short.namelens) >= d.short.count
        /\ DOMAIN d.blocks = 0..(ImageBlocks - 1)
        /\ \A n \in DOMAIN d.blocks :
              /\ d.blocks[n].magic \in Magics /\ d.blocks[n].leaves \in Nat
              /\ DOMAIN d.blocks[n].at \subseteq Offsets
              /\ \A o \in DOMAIN d.blocks[n].at : d.blocks[n].at[o] \in Item

VARIABLES
    dir,      \* the directory
    pc,       \* "called", "short", "extents", "walk", "returned", "unsupported"
    next, b,  \* the record, and the block in it, that comes next
    at, end,  \* the block walked and the end of its region of entries
    off,      \* the offset of the next record
    entries   \* what is listed so far
vars == <<dir, pc, next, b, at, end, off, entries>>
-----------------------------------------------------------------------------
LargerOf(m, n) == IF m >= n THEN m ELSE n
AtMost(n, cap) == IF n <= cap THEN n ELSE cap
Align8(n) == ((n + 7) \div 8) * 8

FtypeLen == IF dir.ftype THEN 1 ELSE 0
InumWidth == IF dir.short.wide THEN 8 ELSE 4

HdrLen(magic) == IF magic \in {"XDB3", "XDD3"} THEN DIR3_DATA_HDR_LEN ELSE DIR2_DATA_HDR_LEN
IsData(block) == block.magic \in {"XDD3", "XD2D"}

ItemAt(block, o) == IF o \in DOMAIN block.at THEN block.at[o] ELSE Zeroes
(* A namelen that lies behind the block reads as zero. *)
NameLen(block, o) == IF o + 8 < BlockSize THEN ItemAt(block, o).namelen ELSE 0

EntryLenMut(namelen) == Align8(8 + 1 + namelen + 2)  \* mutant: the ftype byte left out
EntryLen(namelen) == Align8(8 + 1 + namelen + FtypeLen + 2)
FreeLenMut(len) == len  \* mutant: no least length
FreeLen(len) == LargerOf(len, Align8(1))

(* read_block_dir: the region of entries ends where the leaf array of the  *)
(* tail begins; an absurd count empties it.                                *)
RegionEnd(block) ==
    LET leafStart == IF BlockSize < BLOCK_TAIL_LEN THEN 0
                     ELSE LargerOf(BlockSize - BLOCK_TAIL_LEN - block.leaves * LEAF_ENTRY_LEN, 0)
    IN  AtMost(LargerOf(leafStart, HdrLen(block.magic)), BlockSize)

(* The one block read_file returns of a single-block directory: what the   *)
(* last readable record for block 0 maps it to, else zeroes (ExtentRead).  *)
BlockZero ==
    LET mapping == {k \in 1..Len(dir.recs) :
                      /\ dir.recs[k].startoff = 0 /\ dir.recs[k].blockcount > 0
                      /\ dir.recs[k].startblock < ImageBlocks}
    IN  IF mapping = {} THEN Inline
        ELSE dir.recs[CHOOSE k \in mapping : \A l \in mapping : l <= k].startblock
BlockOf(n) == IF n \in 0..(ImageBlocks - 1) THEN dir.blocks[n] ELSE ZeroBlock
IsSingle == dir.format = "Extents" /\ dir.size = BlockSize
IsMulti == (dir.format = "Extents" /\ dir.size # BlockSize) \/ dir.format = "Btree"
-----------------------------------------------------------------------------
RefuseFormat ==
    /\ pc = "called" /\ dir.format \in {"Dev", "Other"}
    /\ pc' = "unsupported"
    /\ UNCHANGED <<dir, next, b, at, end, off, entries>>

RefuseBlock ==
    /\ pc = "called" /\ IsSingle
    /\ BlockOf(BlockZero).magic \notin {"XDB3", "XD2B"}
    /\ pc' = "unsupported"
    /\ UNCHANGED <<dir, next, b, at, end, off, entries>>

StartShort ==
    /\ pc = "called" /\ dir.format = "Local"
    /\ pc' = "short"
    /\ off' = 2 + InumWidth
    /\ UNCHANGED <<dir, next, b, at, end, entries>>

StartBlock ==
    /\ pc = "called" /\ IsSingle
    /\ BlockOf(BlockZero).magic \in {"XDB3", "XD2B"}
    /\ pc' = "walk" /\ at' = BlockZero
    /\ off' = HdrLen(dir.blocks[BlockZero].magic)
    /\ end' = RegionEnd(dir.blocks[BlockZero])
    /\ UNCHANGED <<dir, next, b, entries>>

StartMulti ==
    /\ pc = "called" /\ IsMulti
    /\ pc' = "extents"
    /\ UNCHANGED <<dir, next, b, at, end, off, entries>>
-----------------------------------------------------------------------------
(* read_shortform_dir: `next' counts the entries. *)
ShortEnd == off + 3 + dir.short.namelens[next] + FtypeLen + InumWidth
MoreShort == next <= dir.short.count /\ ShortEnd <= dir.short.len

TakeShort ==
    /\ pc = "short" /\ MoreShort
    /\ entries' = Append(entries, <<Inline, off>>)
    /\ off' = ShortEnd
    /\ next' = next + 1
    /\ UNCHANGED <<dir, pc, b, at, end>>

(* All entries, or the fork ends inside one. *)
EndShort ==
    /\ pc = "short" /\ ~MoreShort
    /\ pc' = "returned"
    /\ UNCHANGED <<dir, next, b, at, end, off, entries>>
-----------------------------------------------------------------------------
(* read_multiblock_dir: block `b' of record `next'. *)
InExtents == pc = "extents" /\ next <= Len(dir.recs)
IsIndex == dir.recs[next].startoff >= LeafBoundary
InExtent == InExtents /\ ~IsIndex /\ b < dir.recs[next].blockcount
Fsblock == dir.recs[next].startblock + b

NextExtentMut ==  \* mutant: the block count of the last extent is not reset
    /\ InExtents
    /\ IsIndex \/ b >= dir.recs[next].blockcount
    /\ next' = next + 1
    /\ UNCHANGED <<dir, pc, b, at, end, off, entries>>
NextExtent ==
    /\ InExtents
    /\ IsIndex \/ b = dir.recs[next].blockcount
    /\ next' = next + 1 /\ b' = 0
    /\ UNCHANGED <<dir, pc, at, end, off, entries>>

(* A block outside the image, or of another magic. *)
SkipBlock ==
    /\ InExtent
    /\ ~IsData(BlockOf(Fsblock))
    /\ b' = b + 1
    /\ UNCHANGED <<dir, pc, next, at, end, off, entries>>

EnterBlock ==
    /\ InExtent
    /\ IsData(BlockOf(Fsblock))
    /\ pc' = "walk" /\ at' = Fsblock
    /\ off' = HdrLen(dir.blocks[Fsblock].magic) /\ end' = BlockSize
    /\ b' = b + 1
    /\ UNCHANGED <<dir, next, entries>>

EndExtents ==
    /\ pc = "extents" /\ next > Len(dir.recs)
    /\ pc' = "returned"
    /\ UNCHANGED <<dir, next, b, at, end, off, entries>>
-----------------------------------------------------------------------------
(* walk_data_entries *)
InRegion == off + 3 <= end
IsFree == ItemAt(dir.blocks[at], off).kind = "free"
NameFitsMut(o) == o < end  \* mutant: the name is not checked against the block
NameFits(o) == o + 9 + NameLen(dir.blocks[at], o) <= BlockSize
IsEntry == ~IsFree /\ NameLen(dir.blocks[at], off) > 0 /\ NameFits(off)

SkipFree ==
    /\ pc = "walk" /\ InRegion /\ IsFree
    /\ off' = off + FreeLen(ItemAt(dir.blocks[at], off).len)
    /\ UNCHANGED <<dir, pc, next, b, at, end, entries>>

TakeEntry ==
    /\ pc = "walk" /\ InRegion /\ IsEntry
    /\ entries' = Append(entries, <<at, off>>)
    /\ off' = off + EntryLen(NameLen(dir.blocks[at], off))
    /\ UNCHANGED <<dir, pc, next, b, at, end>>

(* The region ends, zero padding begins, or a name leaves the block. *)
EndWalk ==
    /\ pc = "walk"
    /\ ~InRegion \/ (~IsFree /\ ~IsEntry)
    /\ pc' = IF IsSingle THEN "returned" ELSE "extents"
    /\ UNCHANGED <<dir, next, b, at, end, off, entries>>
-----------------------------------------------------------------------------
Init ==
    /\ dir \in Dirs
    /\ pc = "called"
    /\ next = 1 /\ b = 0
    /\ at = 0 /\ end = 0 /\ off = 0
    /\ entries = <<>>

Next ==
    \/ RefuseFormat \/ RefuseBlock
    \/ StartShort \/ TakeShort \/ EndShort
    \/ StartBlock
    \/ StartMulti \/ NextExtent \/ SkipBlock \/ EnterBlock \/ EndExtents
    \/ SkipFree \/ TakeEntry \/ EndWalk

Spec == Init /\ [][Next]_vars
(* One synchronous call: nothing else can stop it from going on. *)
FairSpec == Spec /\ WF_vars(Next)
-----------------------------------------------------------------------------
Returned == pc \in {"returned", "unsupported"}

TypeOK ==
    /\ pc \in {"called", "short", "extents", "walk", "returned", "unsupported"}
    /\ next \in Nat \ {0} /\ b \in Nat
    /\ IsMulti => /\ next <= Len(dir.recs) + 1
                  /\ next <= Len(dir.recs) => b <= dir.recs[next].blockcount
                  /\ next > Len(dir.recs) => b = 0
    /\ pc = "walk" => at \in 0..(ImageBlocks - 1) /\ end <= BlockSize
    /\ end \in Nat /\ off \in Nat
    /\ entries \in Seq(({Inline} \cup 0..(ImageBlocks - 1)) \X Nat)

(* The block is one of the directory's data blocks. *)
DataBlock(n) ==
    IF IsSingle THEN dir.blocks[n].magic \in {"XDB3", "XD2B"}
    ELSE /\ IsData(dir.blocks[n])
         /\ \E k \in 1..Len(dir.recs) :
               /\ dir.recs[k].startoff < LeafBoundary
               /\ n \in dir.recs[k].startblock..(dir.recs[k].startblock + dir.recs[k].blockcount - 1)

(* Whatever the bytes say, an entry that is listed has a name, and its name *)
(* lies in one data block of the directory, behind the header; it is not a *)
(* free record, and in a single-block directory it begins before the leaf  *)
(* array.  An inline one lies in the fork with its inode number            *)
(* (dir.rs:136-140, 322-326).                                              *)
EntriesGenuine ==
    \A k \in 1..Len(entries) :
        LET n == entries[k][1]
            o == entries[k][2]
        IN  IF n = Inline
            THEN /\ dir.format = "Local" /\ k <= dir.short.count
                 /\ o + 3 + dir.short.namelens[k] + InumWidth <= dir.short.len
            ELSE LET block == dir.blocks[n]
                 IN  /\ DataBlock(n)
                     /\ ItemAt(block, o).kind = "entry" /\ ItemAt(block, o).namelen > 0
                     /\ o >= HdrLen(block.magic)
                     /\ o + 9 + ItemAt(block, o).namelen <= BlockSize
                     /\ IsSingle => o + 3 <= BlockSize - 8 - 8 * block.leaves

(* The reference, as the format lays a data block out: records that fill   *)
(* it from the header to `limit', each beginning where the one before      *)
(* ends, free or an entry rounded up to eight bytes                        *)
(* (xfs_dir2_data_entsize); behind the last, at `stop', there may be       *)
(* zeroes.                                                                 *)
DataStart(magic) == IF magic \in {"XDB3", "XDD3"} THEN 64 ELSE 16
Entsize(namelen) ==
    LET raw == 8 + 1 + namelen + 2 + (IF dir.ftype THEN 1 ELSE 0)
    IN  CHOOSE n \in raw..(raw + 7) : n % 8 = 0
Size(item) == IF item.kind = "free" THEN item.len ELSE Entsize(item.namelen)
WellFormed(item) == IF item.kind = "free" THEN item.len > 0 /\ item.len % 8 = 0 ELSE item.namelen > 0

Fill(places, stop, block, limit) ==
    /\ places \subseteq DOMAIN block.at
    /\ stop <= limit /\ DataStart(block.magic) \in places \cup {stop}
    /\ \A o \in places :
          LET after == o + Size(block.at[o])
          IN  /\ WellFormed(block.at[o])
              /\ o >= DataStart(block.magic) /\ after \in places \cup {stop} /\ after <= stop
              /\ \A p \in places : p <= o \/ p >= after
    /\ \A o \in stop..(limit - 1) : o \notin DOMAIN block.at
Filled(places, block, limit) ==
    \E stop \in {DataStart(block.magic)} \cup {o + Size(block.at[o]) : o \in places} :
        Fill(places, stop, block, limit)
SoundBlock(block, limit) == \E places \in SUBSET DOMAIN block.at : Filled(places, block, limit)

(* The entries of a sound block, in the order of their places.             *)
Live(n, limit) ==
    LET block == dir.blocks[n]
        places == CHOOSE places \in SUBSET DOMAIN block.at : Filled(places, block, limit)
    IN  FlattenSeq([i \in 1..BlockSize |->
            IF i - 1 \in places /\ block.at[i - 1].kind = "entry" THEN << <<n, i - 1>> >> ELSE <<>>])

(* A single-block directory ends with its leaf array and tail.  A larger   *)
(* one has its blocks in the order of its map: those below the leaf offset *)
(* that the image holds and that are data blocks.                          *)
LeafArray(block) == BlockSize - 8 - 8 * block.leaves
DataBlocks == {n \in 0..(ImageBlocks - 1) : dir.blocks[n].magic \in {"XDD3", "XD2D"}}
Mapped(rec) ==
    IF rec.startoff >= LeafBoundary THEN <<>>
    ELSE FlattenSeq([i \in 1..rec.blockcount |->
             IF rec.startblock + i - 1 \in DataBlocks THEN Live(rec.startblock + i - 1, BlockSize)
                                                     ELSE <<>>])

ShortSize(k) ==
    3 + dir.short.namelens[k] + (IF dir.ftype THEN 1 ELSE 0) + (IF dir.short.wide THEN 8 ELSE 4)
ShortPlaces ==
    LET Place[k \in 1..(dir.short.count + 1)] ==
            IF k = 1 THEN 2 + (IF dir.short.wide THEN 8 ELSE 4) ELSE Place[k - 1] + ShortSize(k - 1)
    IN  Place

SoundDir ==
    CASE dir.format = "Local" -> \A k \in 1..(dir.short.count + 1) : ShortPlaces[k] <= dir.short.len
      [] IsSingle -> LET block == BlockOf(BlockZero)
                     IN  block.magic \in {"XDB3", "XD2B"} /\ SoundBlock(block, LeafArray(block))
      [] IsMulti -> \A k \in 1..Len(dir.recs) : dir.recs[k].startoff < LeafBoundary =>
                        \A i \in 1..dir.recs[k].blockcount :
                            LET n == dir.recs[k].startblock + i - 1
                            IN  n \in DataBlocks => SoundBlock(dir.blocks[n], BlockSize)
      [] OTHER -> FALSE
Listing ==
    CASE dir.format = "Local" -> [k \in 1..dir.short.count |-> <<Inline, ShortPlaces[k]>>]
      [] IsSingle -> Live(BlockZero, LeafArray(dir.blocks[BlockZero]))
      [] OTHER -> FlattenSeq([k \in 1..Len(dir.recs) |-> Mapped(dir.recs[k])])

(* A sound directory of any format, with or without the ftype byte, is     *)
(* listed exactly: every entry once and in the order of the map, none of   *)
(* the free records, the leaf array or the index blocks; and it is not     *)
(* refused (dir.rs:379-391).                                               *)
ListsTheDirectory ==
    SoundDir => /\ IsPrefix(entries, Listing)
                /\ Returned => pc = "returned" /\ entries = Listing

(* The listing ends on every image: a free record of length zero does not  *)
(* hold the walk up (dir.rs:334-336).                                      *)
ListingEnds == <>Returned
=============================================================================
