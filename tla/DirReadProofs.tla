--------------------------- MODULE DirReadProofs ---------------------------
(***************************************************************************)
(* Theorems about DirRead for every block size, image and set of           *)
(* directories, hostile ones included.                                     *)
(***************************************************************************)
EXTENDS DirRead, DataLemmas

USE ConstantsAssumption, DirsAssumption

Places == ({Inline} \cup 0..(ImageBlocks - 1)) \X Nat

(* An entry <<n, o>> that is the k-th of the listing is genuine.           *)
Genuine(k, n, o) ==
    IF n = Inline
    THEN /\ dir.format = "Local" /\ k <= dir.short.count
         /\ o + 3 + dir.short.namelens[k] + InumWidth <= dir.short.len
    ELSE LET block == dir.blocks[n]
         IN  /\ DataBlock(n)
             /\ ItemAt(block, o).kind = "entry" /\ ItemAt(block, o).namelen > 0
             /\ o >= HdrLen(block.magic)
             /\ o + 9 + ItemAt(block, o).namelen <= BlockSize
             /\ IsSingle => o + 3 <= BlockSize - 8 - 8 * block.leaves

(* Where the walk is: the block it is in is one of the directory's own, it *)
(* stands behind the block's header, and the end of the region is the one  *)
(* the format gives; in an inline fork the entries are counted.            *)
Place ==
    /\ pc = "called" => next = 1 /\ b = 0
    /\ pc = "short" => dir.format = "Local" /\ next = Len(entries) + 1
    /\ pc = "called" => entries = <<>>
    /\ pc = "extents" => IsMulti
    /\ pc = "walk" =>
          /\ IsSingle \/ IsMulti
          /\ DataBlock(at)
          /\ off >= HdrLen(dir.blocks[at].magic)
          /\ end = IF IsSingle THEN RegionEnd(dir.blocks[at]) ELSE BlockSize

Inv == dir \in Dirs /\ TypeOK /\ Place /\ EntriesGenuine

LEMMA GenuineMeans ==
    EntriesGenuine <=> \A k \in 1..Len(entries) : Genuine(k, entries[k][1], entries[k][2])
  BY DEF EntriesGenuine, Genuine

LEMMA ItemFacts ==
    ASSUME dir \in Dirs, NEW n \in 0..(ImageBlocks - 1), NEW o
    PROVE  /\ ItemAt(dir.blocks[n], o) \in Item
           /\ dir.blocks[n].leaves \in Nat /\ dir.blocks[n].magic \in Magics
           /\ HdrLen(dir.blocks[n].magic) \in {16, 64}
           /\ ItemAt(dir.blocks[n], o).kind = "free" => ItemAt(dir.blocks[n], o).len \in Nat
           /\ ItemAt(dir.blocks[n], o).kind # "free" =>
                /\ ItemAt(dir.blocks[n], o).kind = "entry"
                /\ NameLen(dir.blocks[n], o) \in Nat
                /\ NameLen(dir.blocks[n], o) > 0 =>
                      NameLen(dir.blocks[n], o) = ItemAt(dir.blocks[n], o).namelen
<1>1. ItemAt(dir.blocks[n], o) \in Item
  BY DEF ItemAt, Zeroes, Item
<1>2. dir.blocks[n].leaves \in Nat /\ dir.blocks[n].magic \in Magics
  OBVIOUS
<1>3. HdrLen(dir.blocks[n].magic) \in {16, 64}
  BY DEF HdrLen, DIR3_DATA_HDR_LEN, DIR2_DATA_HDR_LEN
<1> DEFINE i == ItemAt(dir.blocks[n], o)
<1> HIDE DEF i
<1>4. /\ i.kind = "free" => i.len \in Nat
      /\ i.kind # "free" => i.kind = "entry" /\ i.namelen \in Nat
  BY <1>1 DEF Item, i
<1>5. NameLen(dir.blocks[n], o) = IF o + 8 < BlockSize THEN i.namelen ELSE 0
  BY DEF NameLen, i
<1> QED
  BY <1>1, <1>2, <1>3, <1>4, <1>5 DEF i

LEMMA LengthFacts ==
    /\ FtypeLen \in {0, 1} /\ InumWidth \in {4, 8}
    /\ \A n \in Nat : EntryLen(n) \in Nat /\ FreeLen(n) \in Nat
<1>1. FtypeLen \in {0, 1} /\ InumWidth \in {4, 8}
  BY DEF FtypeLen, InumWidth
<1> QED
  BY <1>1 DEF EntryLen, FreeLen, Align8, LargerOf

(* Appending one genuine entry, or none, leaves the listing genuine when   *)
(* the directory stays the same.                                           *)
LEMMA AppendGenuine ==
    ASSUME Inv, dir' = dir, NEW n, NEW o, <<n, o>> \in Places,
           entries' = Append(entries, <<n, o>>),
           Genuine(Len(entries) + 1, n, o)
    PROVE  EntriesGenuine' /\ entries' \in Seq(Places) /\ Len(entries') = Len(entries) + 1
<1>1. entries \in Seq(Places) /\ Len(entries) \in Nat
  BY DEF Inv, TypeOK, Places
<1>2. /\ entries' \in Seq(Places) /\ Len(entries') = Len(entries) + 1
      /\ \A k \in 1..Len(entries) : entries'[k] = entries[k]
      /\ entries'[Len(entries) + 1] = <<n, o>>
  BY <1>1, AppendProperties
<1>4. \A k \in 1..Len(entries') :
         Genuine(k, entries'[k][1], entries'[k][2])
  <2> SUFFICES ASSUME NEW k \in 1..Len(entries')
               PROVE  Genuine(k, entries'[k][1], entries'[k][2])
    OBVIOUS
  <2>1. CASE k \in 1..Len(entries)
    BY <1>2, <2>1, GenuineMeans DEF Inv
  <2>2. CASE k = Len(entries) + 1
    BY <1>2, <2>2
  <2> QED
    BY <1>1, <1>2, <2>1, <2>2
<1>5. EntriesGenuine'
  <2>1. /\ \A k \in 1..Len(entries') : Genuine(k, entries'[k][1], entries'[k][2])
        /\ dir' = dir
    BY ONLY <1>4, dir' = dir
  <2> QED
    BY ONLY <2>1
       DEF EntriesGenuine, Genuine, InumWidth, DataBlock, IsSingle, IsData, ItemAt, Zeroes, HdrLen
<1> QED
  BY <1>2, <1>5

LEMMA SameGenuine ==
    ASSUME Inv, dir' = dir, entries' = entries
    PROVE  EntriesGenuine'
  BY DEF Inv, EntriesGenuine, InumWidth, DataBlock, IsSingle, IsData, ItemAt, Zeroes, HdrLen

(***************************************************************************)
(* The steps.                                                              *)
(***************************************************************************)
LEMMA InitInv == Init => Inv
<1> SUFFICES ASSUME Init PROVE Inv
  OBVIOUS
<1>1. entries = <<>> /\ Len(entries) = 0 /\ entries \in Seq(Places)
  BY DEF Init
<1>2. TypeOK
  <2>1. dir \in Dirs /\ dir.recs \in Seq(Rec) /\ Len(dir.recs) \in Nat
    BY DEF Init
  <2>2. 1 <= Len(dir.recs) => dir.recs[1].blockcount \in Nat
    <3>1. 1 <= Len(dir.recs) => dir.recs[1] \in Rec
      BY <2>1, ElementOfSeq
    <3> QED
      BY <3>1 DEF Rec
  <2> QED
    BY <1>1, <2>1, <2>2 DEF Init, TypeOK, Places
<1>3. Place
  BY <1>1 DEF Init, Place
<1>4. EntriesGenuine
  BY <1>1 DEF EntriesGenuine
<1> QED
  BY <1>2, <1>3, <1>4 DEF Inv, Init

(* The call is refused, or the format's reader begins.                     *)
LEMMA StartInv ==
    ASSUME Inv, RefuseFormat \/ RefuseBlock \/ StartShort \/ StartMulti
    PROVE  Inv'
<1>1. dir' = dir /\ entries' = entries /\ pc = "called" /\ UNCHANGED <<next, b, at, end>>
  BY DEF RefuseFormat, RefuseBlock, StartShort, StartMulti
<1>2. EntriesGenuine'
  BY <1>1, SameGenuine
<1>3. off' \in Nat
  <2>1. off \in Nat
    BY DEF Inv, TypeOK
  <2>2. 2 + InumWidth \in Nat
    BY LengthFacts
  <2>3. off' = off \/ off' = 2 + InumWidth
    BY DEF RefuseFormat, RefuseBlock, StartShort, StartMulti
  <2> QED
    BY <2>1, <2>2, <2>3
<1>4. pc' \in {"short", "extents", "unsupported"}
  BY DEF RefuseFormat, RefuseBlock, StartShort, StartMulti
<1>5. TypeOK'
  BY <1>1, <1>3, <1>4 DEF Inv, TypeOK, IsMulti
<1>6. Place'
  <2>1. pc' = "short" => dir.format = "Local"
    BY DEF RefuseFormat, RefuseBlock, StartShort, StartMulti
  <2>2. pc' = "extents" => IsMulti
    BY DEF RefuseFormat, RefuseBlock, StartShort, StartMulti
  <2>3. next = 1 /\ Len(entries) = 0
    BY <1>1 DEF Inv, Place
  <2> QED
    BY <1>1, <1>4, <2>1, <2>2, <2>3 DEF Place, IsMulti
<1> QED
  BY <1>1, <1>2, <1>5, <1>6 DEF Inv

LEMMA RegionFacts ==
    ASSUME dir \in Dirs, NEW n \in 0..(ImageBlocks - 1)
    PROVE  /\ RegionEnd(dir.blocks[n]) \in Nat /\ RegionEnd(dir.blocks[n]) <= BlockSize
           /\ RegionEnd(dir.blocks[n]) > HdrLen(dir.blocks[n].magic) =>
                 RegionEnd(dir.blocks[n]) <= BlockSize - 8 - 8 * dir.blocks[n].leaves
<1> DEFINE h == HdrLen(dir.blocks[n].magic)
           l == dir.blocks[n].leaves
<1>1. h \in Nat /\ l \in Nat
  <2>1. h \in {16, 64} /\ l \in Nat
    BY ItemFacts
  <2> QED
    BY <2>1
<1>2. RegionEnd(dir.blocks[n]) =
        LET leafStart == IF BlockSize < 8 THEN 0 ELSE LargerOf(BlockSize - 8 - l * 8, 0)
        IN  AtMost(LargerOf(leafStart, h), BlockSize)
  BY DEF RegionEnd, BLOCK_TAIL_LEN, LEAF_ENTRY_LEN
<1> HIDE DEF h, l
<1>3. LET leafStart == IF BlockSize < 8 THEN 0 ELSE LargerOf(BlockSize - 8 - l * 8, 0)
          r == AtMost(LargerOf(leafStart, h), BlockSize)
      IN  r \in Nat /\ r <= BlockSize /\ (r > h => r <= BlockSize - 8 - 8 * l)
  BY <1>1 DEF LargerOf, AtMost
<1> QED
  BY <1>2, <1>3 DEF h, l

(* A block of the image whose magic is known is not the zeroes outside it. *)
LEMMA InImage ==
    ASSUME NEW n, BlockOf(n).magic # "other"
    PROVE  n \in 0..(ImageBlocks - 1) /\ BlockOf(n) = dir.blocks[n]
  BY DEF BlockOf, ZeroBlock

LEMMA StartBlockInv ==
    ASSUME Inv, StartBlock
    PROVE  Inv'
<1>1. dir' = dir /\ entries' = entries
  BY DEF StartBlock
<1>2. EntriesGenuine'
  BY <1>1, SameGenuine
<1>3. BlockZero \in 0..(ImageBlocks - 1) /\ dir.blocks[BlockZero].magic \in {"XDB3", "XD2B"}
  BY InImage DEF StartBlock
<1> DEFINE z == BlockZero
<1> HIDE DEF z
<1>4. /\ at' = z /\ off' = HdrLen(dir.blocks[z].magic) /\ end' = RegionEnd(dir.blocks[z])
      /\ pc' = "walk" /\ next' = next /\ b' = b /\ IsSingle
  BY DEF StartBlock, z
<1>5. z \in 0..(ImageBlocks - 1) /\ dir.blocks[z].magic \in {"XDB3", "XD2B"}
  BY <1>3 DEF z
<1>6. off' \in Nat /\ end' \in Nat /\ end' <= BlockSize
  <2>1. dir \in Dirs
    BY DEF Inv
  <2>2. off' \in {16, 64}
    BY <1>4, <1>5, <2>1, ItemFacts
  <2>3. end' \in Nat /\ end' <= BlockSize
    BY <1>4, <1>5, <2>1, RegionFacts
  <2> QED
    BY <2>2, <2>3
<1>7. TypeOK'
  BY <1>1, <1>4, <1>5, <1>6 DEF Inv, TypeOK, IsMulti
<1>8. Place'
  BY <1>1, <1>4, <1>5, <1>6 DEF Place, IsSingle, DataBlock, HdrLen, RegionEnd
<1> QED
  BY <1>1, <1>2, <1>7, <1>8 DEF Inv

(* read_shortform_dir. *)
LEMMA TakeShortInv ==
    ASSUME Inv, TakeShort
    PROVE  Inv'
<1>1. /\ dir \in Dirs /\ dir' = dir /\ dir.format = "Local" /\ next = Len(entries) + 1
      /\ next <= dir.short.count /\ ShortEnd <= dir.short.len /\ off \in Nat
      /\ next \in Nat \ {0} /\ entries' = Append(entries, <<Inline, off>>)
  BY DEF Inv, TypeOK, Place, TakeShort, MoreShort
<1>2. dir.short.namelens[next] \in Nat
  <2>1. dir.short \in [count : Nat, wide : BOOLEAN, len : Nat, namelens : Seq(Nat)]
    BY <1>1
  <2>2. dir.short.namelens \in Seq(Nat) /\ dir.short.count \in Nat
    BY <2>1
  <2>3. next <= Len(dir.short.namelens)
    BY <1>1, <2>2, LenProperties
  <2> QED
    BY <1>1, <2>2, <2>3, ElementOfSeq
<1> DEFINE w == dir.short.namelens[next]
<1>3. w \in Nat /\ ShortEnd = off + 3 + w + FtypeLen + InumWidth
  BY <1>2 DEF ShortEnd
<1> HIDE DEF w
<1>4. ShortEnd \in Nat /\ off + 3 + w + InumWidth <= dir.short.len
  <2>1. dir.short \in [count : Nat, wide : BOOLEAN, len : Nat, namelens : Seq(Nat)]
    BY <1>1
  <2>2. dir.short.len \in Nat
    BY <2>1
  <2>3. FtypeLen \in {0, 1} /\ InumWidth \in {4, 8}
    BY LengthFacts
  <2> QED
    BY <1>1, <1>3, <2>2, <2>3
<1>5. Genuine(Len(entries) + 1, Inline, off)
  BY <1>1, <1>4 DEF Genuine, w
<1>6. <<Inline, off>> \in Places
  BY <1>1 DEF Places
<1>7. EntriesGenuine' /\ entries' \in Seq(Places) /\ Len(entries') = Len(entries) + 1
  BY <1>1, <1>5, <1>6, AppendGenuine
<1>8. TypeOK'
  <2>1. /\ pc' = "short" /\ next' = next + 1 /\ b' = b /\ at' = at /\ end' = end /\ off' = ShortEnd
        /\ b \in Nat /\ end \in Nat
    BY <1>1 DEF Inv, TypeOK, TakeShort
  <2>2. next' \in Nat \ {0} /\ off' \in Nat
    BY <1>1, <1>4, <2>1
  <2>3. ~IsMulti'
    BY <1>1 DEF IsMulti
  <2> QED
    BY <1>7, <2>1, <2>2, <2>3 DEF TypeOK, Places
<1>9. Place'
  BY <1>1, <1>7 DEF TakeShort, Place, Inv
<1> QED
  BY <1>1, <1>7, <1>8, <1>9 DEF Inv

(* Steps that list nothing and enter no block.                             *)
LEMMA MoveInv ==
    ASSUME Inv, EndShort \/ NextExtent \/ SkipBlock \/ EndExtents \/ EndWalk
    PROVE  Inv'
<1>1. dir \in Dirs /\ UNCHANGED <<dir, entries, at, end, off>>
  BY DEF Inv, EndShort, NextExtent, SkipBlock, EndExtents, EndWalk
<1>2. EntriesGenuine'
  BY <1>1, SameGenuine
<1>3. pc' \in {"returned", "extents"} /\ (pc' = "extents" => IsMulti)
  BY DEF Inv, TypeOK, Place, EndShort, NextExtent, SkipBlock, EndExtents, EndWalk, InExtent, InExtents
<1>4. Place'
  BY <1>1, <1>3 DEF Place, IsMulti
<1>5. /\ next' \in Nat \ {0} /\ b' \in Nat
      /\ IsMulti => /\ next' <= Len(dir.recs) + 1
                    /\ next' <= Len(dir.recs) => b' <= dir.recs[next'].blockcount
                    /\ next' > Len(dir.recs) => b' = 0
  <2>0. /\ next \in Nat \ {0} /\ b \in Nat /\ Len(dir.recs) \in Nat
        /\ \A k \in Nat \ {0} : k <= Len(dir.recs) => dir.recs[k].blockcount \in Nat
    <3>1. next \in Nat \ {0} /\ b \in Nat /\ dir.recs \in Seq(Rec)
      BY <1>1 DEF Inv, TypeOK
    <3>2. Len(dir.recs) \in Nat
      BY <3>1
    <3>3. \A k \in Nat \ {0} : k <= Len(dir.recs) => dir.recs[k] \in Rec
      BY <3>1, <3>2, ElementOfSeq
    <3> QED
      BY <3>1, <3>2, <3>3 DEF Rec
  <2>1. CASE EndShort \/ EndExtents \/ EndWalk
    BY <2>1 DEF EndShort, EndExtents, EndWalk, Inv, TypeOK
  <2>2. CASE NextExtent
    <3>1. next' = next + 1 /\ b' = 0 /\ next <= Len(dir.recs)
      BY <2>2 DEF NextExtent, InExtents
    <3> QED
      BY <2>0, <3>1
  <2>3. CASE SkipBlock
    <3>1. /\ next' = next /\ b' = b + 1 /\ next <= Len(dir.recs)
          /\ b < dir.recs[next].blockcount
      BY <2>3 DEF SkipBlock, InExtent, InExtents
    <3> QED
      BY <2>0, <3>1
  <2> QED
    BY <2>1, <2>2, <2>3
<1>6. TypeOK'
  BY <1>1, <1>3, <1>5 DEF Inv, TypeOK, IsMulti
<1> QED
  BY <1>1, <1>2, <1>4, <1>6 DEF Inv

(* read_multiblock_dir reaches a data block.                               *)
LEMMA EnterBlockInv ==
    ASSUME Inv, EnterBlock
    PROVE  Inv'
<1> DEFINE f == Fsblock
<1>1. /\ dir \in Dirs /\ dir' = dir /\ entries' = entries /\ IsMulti /\ ~IsSingle
      /\ next' = next /\ b' = b + 1 /\ next <= Len(dir.recs) /\ b < dir.recs[next].blockcount
      /\ dir.recs[next].startoff < LeafBoundary
      /\ next \in Nat \ {0} /\ b \in Nat /\ pc' = "walk" /\ end' = BlockSize
  <2>1. IsMulti /\ pc = "extents"
    BY DEF Inv, Place, EnterBlock, InExtent, InExtents
  <2>2. ~IsSingle
    BY <2>1 DEF IsSingle, IsMulti
  <2>3. /\ dir \in Dirs /\ dir' = dir /\ entries' = entries
        /\ next' = next /\ b' = b + 1 /\ next <= Len(dir.recs) /\ b < dir.recs[next].blockcount
        /\ ~(dir.recs[next].startoff >= LeafBoundary)
        /\ next \in Nat \ {0} /\ b \in Nat /\ pc' = "walk" /\ end' = BlockSize
    BY DEF Inv, TypeOK, EnterBlock, InExtent, InExtents, IsIndex
  <2>4. dir.recs \in Seq(Rec)
    BY <2>3
  <2>5. dir.recs[next] \in Rec
    BY <2>3, <2>4, ElementOfSeq
  <2>6. dir.recs[next].startoff \in Nat
    BY <2>5 DEF Rec
  <2> QED
    BY <2>1, <2>2, <2>3, <2>6
<1>2. dir.recs[next] \in Rec /\ Len(dir.recs) \in Nat
  <2>1. dir.recs \in Seq(Rec)
    BY <1>1
  <2> QED
    BY <1>1, <2>1, ElementOfSeq
<1>3. /\ at' = f /\ off' = HdrLen(dir.blocks[f].magic)
      /\ f = dir.recs[next].startblock + b /\ IsData(BlockOf(f))
  BY DEF EnterBlock, Fsblock
<1> HIDE DEF f
<1>4. f \in 0..(ImageBlocks - 1) /\ IsData(dir.blocks[f])
  BY <1>3, InImage DEF IsData
<1>5. off' \in {16, 64}
  BY <1>1, <1>3, <1>4, ItemFacts
<1>6. DataBlock(f)
  <2>1. f \in dir.recs[next].startblock..(dir.recs[next].startblock + dir.recs[next].blockcount - 1)
    <3> DEFINE s == dir.recs[next].startblock
               c == dir.recs[next].blockcount
    <3>1. s \in Nat /\ c \in Nat /\ b \in Nat /\ b < c /\ f = s + b
      BY <1>1, <1>2, <1>3 DEF Rec
    <3> HIDE DEF s, c
    <3>2. f \in s..(s + c - 1)
      BY <3>1
    <3> QED
      BY <3>2 DEF s, c
  <2>2. next \in 1..Len(dir.recs)
    BY <1>1, <1>2
  <2> QED
    BY <1>1, <1>4, <2>1, <2>2 DEF DataBlock
<1>7. EntriesGenuine'
  BY <1>1, SameGenuine
<1>8. TypeOK'
  <2> DEFINE c == dir.recs[next].blockcount
  <2>1. c \in Nat /\ b \in Nat /\ b < c
    BY <1>1, <1>2 DEF Rec
  <2>2. b + 1 <= c /\ b + 1 \in Nat
    <3> HIDE DEF c
    <3> QED
      BY <2>1
  <2>3. UNCHANGED <<dir, next, entries>> /\ TypeOK
    BY <1>1 DEF Inv
  <2>4. /\ next \in Nat \ {0} /\ next <= Len(dir.recs) + 1
        /\ entries \in Seq(({Inline} \cup 0..(ImageBlocks - 1)) \X Nat)
    BY <1>1, <2>3 DEF TypeOK
  <2>5. at' \in 0..(ImageBlocks - 1) /\ end' \in Nat /\ end' <= BlockSize /\ off' \in Nat
    <3>1. at' = f /\ end' = BlockSize
      BY <1>1, <1>3
    <3> QED
      BY ONLY ConstantsAssumption, <1>4, <1>5, <3>1
  <2>6. b' \in Nat /\ b' <= c
    BY <1>1, <2>2
  <2>7. next <= Len(dir.recs) /\ pc' = "walk"
    BY <1>1
  <2> HIDE DEF c
  <2>8. ~(next > Len(dir.recs))
    BY <1>1, <1>2
  <2>9. (IsMulti => /\ next <= Len(dir.recs) + 1
                    /\ next <= Len(dir.recs) => b <= dir.recs[next].blockcount
                    /\ next > Len(dir.recs) => b = 0)'
    BY <2>3, <2>4, <2>6, <2>8 DEF c
  <2>10. entries' \in Seq(({Inline} \cup 0..(ImageBlocks - 1)) \X Nat) /\ next' \in Nat \ {0}
    BY ONLY <2>3, <2>4
  <2>11. pc' \in {"called", "short", "extents", "walk", "returned", "unsupported"}
    BY ONLY <2>7
  <2> QED
    BY ONLY <2>5, <2>6, <2>9, <2>10, <2>11 DEF TypeOK
<1>9. Place'
  <2>1. DataBlock(at)'
    BY <1>1, <1>3, <1>6 DEF DataBlock, IsSingle, IsData
  <2> QED
    BY <1>1, <1>3, <1>5, <2>1 DEF Place, IsSingle, IsMulti, HdrLen
<1> QED
  BY <1>1, <1>7, <1>8, <1>9 DEF Inv

(* walk_data_entries. *)
LEMMA SkipFreeInv ==
    ASSUME Inv, SkipFree
    PROVE  Inv'
<1>1. /\ dir \in Dirs /\ UNCHANGED <<dir, entries, at, end, pc, next, b>> /\ pc = "walk"
      /\ at \in 0..(ImageBlocks - 1) /\ off \in Nat
      /\ IsFree /\ off' = off + FreeLen(ItemAt(dir.blocks[at], off).len)
  BY DEF Inv, TypeOK, SkipFree
<1>2. ItemAt(dir.blocks[at], off).len \in Nat
  BY <1>1, ItemFacts DEF IsFree
<1>3. FreeLen(ItemAt(dir.blocks[at], off).len) \in Nat
  BY <1>2, LengthFacts
<1>4. off' \in Nat /\ off' >= off
  BY <1>1, <1>3
<1>5. EntriesGenuine'
  BY <1>1, SameGenuine
<1>6. TypeOK'
  BY <1>1, <1>4 DEF Inv, TypeOK, IsMulti
<1>7. Place'
  <2>1. HdrLen(dir.blocks[at].magic) \in {16, 64}
    BY <1>1, ItemFacts
  <2>2. off' >= HdrLen(dir.blocks[at].magic)
    BY <1>1, <1>4, <2>1 DEF Inv, Place
  <2> QED
    BY <1>1, <2>2 DEF Inv, Place, IsSingle, IsMulti, DataBlock, IsData, HdrLen, RegionEnd
<1> QED
  BY <1>1, <1>5, <1>6, <1>7 DEF Inv

LEMMA TakeEntryInv ==
    ASSUME Inv, TakeEntry
    PROVE  Inv'
<1> DEFINE block == dir.blocks[at]
           name == NameLen(block, off)
<1>1. /\ dir \in Dirs /\ UNCHANGED <<dir, at, end, pc, next, b>> /\ pc = "walk"
      /\ at \in 0..(ImageBlocks - 1) /\ off \in Nat /\ end <= BlockSize /\ end \in Nat
      /\ off + 3 <= end /\ ItemAt(block, off).kind # "free"
      /\ name > 0 /\ off + 9 + name <= BlockSize
      /\ entries' = Append(entries, <<at, off>>) /\ off' = off + EntryLen(name)
  BY DEF Inv, TypeOK, TakeEntry, InRegion, IsEntry, IsFree, NameFits
<1>2. /\ HdrLen(block.magic) \in {16, 64} /\ ItemAt(block, off).kind = "entry"
      /\ name \in Nat /\ name = ItemAt(block, off).namelen /\ block.leaves \in Nat
  <2>1. /\ HdrLen(block.magic) \in {16, 64} /\ block.leaves \in Nat
        /\ ItemAt(block, off).kind # "free" =>
             /\ ItemAt(block, off).kind = "entry"
             /\ name \in Nat
             /\ name > 0 => name = ItemAt(block, off).namelen
    <3>1. dir \in Dirs /\ at \in 0..(ImageBlocks - 1)
      BY <1>1
    <3> DEFINE Facts(n, o) ==
                 /\ HdrLen(dir.blocks[n].magic) \in {16, 64} /\ dir.blocks[n].leaves \in Nat
                 /\ ItemAt(dir.blocks[n], o).kind # "free" =>
                      /\ ItemAt(dir.blocks[n], o).kind = "entry"
                      /\ NameLen(dir.blocks[n], o) \in Nat
                      /\ NameLen(dir.blocks[n], o) > 0 =>
                            NameLen(dir.blocks[n], o) = ItemAt(dir.blocks[n], o).namelen
    <3>2. ASSUME NEW n \in 0..(ImageBlocks - 1), NEW o
          PROVE  Facts(n, o)
      <4> DEFINE i == ItemAt(dir.blocks[n], o)
                 l == NameLen(dir.blocks[n], o)
                 h == HdrLen(dir.blocks[n].magic)
                 c == dir.blocks[n].leaves
      <4>1. /\ h \in {16, 64} /\ c \in Nat
            /\ i.kind # "free" => i.kind = "entry" /\ l \in Nat /\ (l > 0 => l = i.namelen)
        BY ONLY <3>1, n \in 0..(ImageBlocks - 1), ItemFacts
      <4> HIDE DEF i, l, h, c
      <4>2. /\ h \in {16, 64} /\ c \in Nat
            /\ i.kind # "free" => i.kind = "entry" /\ l \in Nat /\ (l > 0 => l = i.namelen)
        BY ONLY <4>1
      <4> QED
        BY ONLY <4>2 DEF Facts, i, l, h, c
    <3>3. Facts(at, off)
      <4> HIDE DEF Facts
      <4> QED
        BY <3>1, <3>2
    <3> QED
      BY <3>3
  <2> HIDE DEF name
  <2> QED
    BY <1>1, <2>1
<1>3. /\ DataBlock(at) /\ off >= HdrLen(block.magic) /\ (IsSingle \/ IsMulti)
      /\ end = IF IsSingle THEN RegionEnd(block) ELSE BlockSize
  BY <1>1 DEF Inv, Place
<1>4. IsSingle => off + 3 <= BlockSize - 8 - 8 * block.leaves
  <2> SUFFICES ASSUME IsSingle PROVE off + 3 <= BlockSize - 8 - 8 * block.leaves
    OBVIOUS
  <2>1. end = RegionEnd(block) /\ end > HdrLen(block.magic)
    BY <1>1, <1>2, <1>3
  <2>2. end <= BlockSize - 8 - 8 * block.leaves
    BY <1>1, <2>1, RegionFacts
  <2> DEFINE l == block.leaves
  <2>3. l \in Nat /\ end <= BlockSize - 8 - 8 * l
    BY <1>2, <2>2
  <2> HIDE DEF l, block, name
  <2>4. off + 3 <= BlockSize - 8 - 8 * l
    BY <1>1, <2>3
  <2> QED
    BY <2>4 DEF l
<1>5. Genuine(Len(entries) + 1, at, off)
  BY <1>1, <1>2, <1>3, <1>4 DEF Genuine, Inline
<1>6. EntriesGenuine' /\ entries' \in Seq(Places)
  BY <1>1, <1>5, AppendGenuine DEF Places
<1>7. EntryLen(name) \in Nat
  BY <1>2, LengthFacts
<1>8. off' \in Nat /\ off' >= off
  BY <1>1, <1>7
<1>9. TypeOK'
  BY <1>1, <1>6, <1>8 DEF Inv, TypeOK, IsMulti, Places
<1>10. Place'
  <2>1. off' >= HdrLen(dir.blocks[at].magic)
    BY <1>1, <1>2, <1>3, <1>8
  <2> QED
    BY <1>1, <1>3, <2>1 DEF Place, IsSingle, IsMulti, DataBlock, IsData, HdrLen, RegionEnd
<1> QED
  BY <1>1, <1>6, <1>9, <1>10 DEF Inv
-----------------------------------------------------------------------------
(***************************************************************************)
(* The theorems.                                                           *)
(***************************************************************************)
THEOREM InvHolds == Spec => []Inv
<1>1. Init => Inv
  BY InitInv
<1>2. Inv /\ [Next]_vars => Inv'
  <2> SUFFICES ASSUME Inv, [Next]_vars PROVE Inv'
    OBVIOUS
  <2>1. CASE RefuseFormat \/ RefuseBlock \/ StartShort \/ StartMulti
    BY <2>1, StartInv
  <2>2. CASE StartBlock
    BY <2>2, StartBlockInv
  <2>3. CASE TakeShort
    BY <2>3, TakeShortInv
  <2>4. CASE EndShort \/ NextExtent \/ SkipBlock \/ EndExtents \/ EndWalk
    BY <2>4, MoveInv
  <2>5. CASE EnterBlock
    BY <2>5, EnterBlockInv
  <2>6. CASE SkipFree
    BY <2>6, SkipFreeInv
  <2>7. CASE TakeEntry
    BY <2>7, TakeEntryInv
  <2>8. CASE UNCHANGED vars
    <3>1. UNCHANGED <<dir, pc, next, b, at, end, off, entries>>
      BY <2>8 DEF vars
    <3>2. EntriesGenuine'
      BY <3>1, SameGenuine
    <3>3. TypeOK'
      BY <3>1 DEF Inv, TypeOK, IsMulti
    <3>4. Place'
      BY <3>1 DEF Inv, Place, IsSingle, IsMulti, DataBlock, IsData, HdrLen, RegionEnd
    <3> QED
      BY <3>1, <3>2, <3>3, <3>4 DEF Inv
  <2> QED
    BY <2>1, <2>2, <2>3, <2>4, <2>5, <2>6, <2>7, <2>8 DEF Next
<1> QED
  BY <1>1, <1>2, PTL DEF Spec

(* Every variable keeps its type; in particular the walk only ever enters  *)
(* blocks of the image, and never counts past the records or their blocks. *)
THEOREM TypeCorrect == Spec => []TypeOK
<1>1. Inv => TypeOK
  BY DEF Inv
<1> QED
  BY <1>1, InvHolds, PTL

(* Whatever the image holds, an entry that read_dir lists is a record with *)
(* a name inside one data block of the directory, or inside its inline     *)
(* fork (dir.rs:136-140, 322-326).                                         *)
THEOREM EntriesAreGenuine == Spec => []EntriesGenuine
<1>1. Inv => EntriesGenuine
  BY DEF Inv
<1> QED
  BY <1>1, InvHolds, PTL
-----------------------------------------------------------------------------
(***************************************************************************)
(* A sound directory is listed whole.                                      *)
(*                                                                         *)
(* The reference taken apart: where a block's records lie, what its        *)
(* offsets, a record's blocks and the map's records each contribute, and   *)
(* what the contributions from one of them on amount to.                   *)
(***************************************************************************)
PlacesOf(n, limit) ==
    CHOOSE places \in SUBSET DOMAIN dir.blocks[n].at : Filled(places, dir.blocks[n], limit)
LiveParts(n, limit) ==
    [i \in 1..BlockSize |->
        IF i - 1 \in PlacesOf(n, limit) /\ dir.blocks[n].at[i - 1].kind = "entry"
        THEN << <<n, i - 1>> >> ELSE <<>>]
BlockPart(n) == IF n \in DataBlocks THEN Live(n, BlockSize) ELSE <<>>
MappedParts(rec) == [i \in 1..rec.blockcount |-> BlockPart(rec.startblock + i - 1)]
DirParts == [k \in 1..Len(dir.recs) |-> Mapped(dir.recs[k])]

Rest(w) == CHOOSE R : IsRest(Places, w, R) /\ R[1] = FlattenSeq(w)

LEMMA RestFacts ==
    ASSUME NEW w \in Seq(Seq(Places))
    PROVE  IsRest(Places, w, Rest(w)) /\ Rest(w)[1] = FlattenSeq(w)
<1>1. \E R : IsRest(Places, w, R) /\ R[1] = FlattenSeq(w)
  BY FlattenRest
<1> QED
  BY <1>1 DEF Rest

LEMMA LiveFacts ==
    ASSUME dir \in Dirs, NEW n \in 0..(ImageBlocks - 1), NEW limit
    PROVE  /\ LiveParts(n, limit) \in Seq(Seq(Places)) /\ Len(LiveParts(n, limit)) = BlockSize
           /\ FlattenSeq(LiveParts(n, limit)) = Live(n, limit)
           /\ Live(n, limit) \in Seq(Places)
<1> DEFINE w == LiveParts(n, limit)
           Part(i) == IF i - 1 \in PlacesOf(n, limit) /\ dir.blocks[n].at[i - 1].kind = "entry"
                      THEN << <<n, i - 1>> >> ELSE <<>>
<1>1. w = [i \in 1..BlockSize |-> Part(i)]
  BY DEF LiveParts
<1>2. FlattenSeq(w) = Live(n, limit)
  BY DEF LiveParts, PlacesOf, Live
<1>3. ASSUME NEW i \in 1..BlockSize PROVE Part(i) \in Seq(Places)
  <2>1. <<n, i - 1>> \in Places
    BY DEF Places
  <2> DEFINE x == <<n, i - 1>>
  <2> HIDE DEF x
  <2>2. <<x>> \in Seq(Places) /\ <<>> \in Seq(Places)
    BY <2>1 DEF x
  <2> QED
    BY <2>2 DEF x
<1> HIDE DEF w, Part
<1>4. w \in Seq(Seq(Places)) /\ Len(w) = BlockSize
  BY <1>1, <1>3
<1>5. FlattenSeq(w) \in Seq(Places)
  BY <1>4, FlattenType
<1> QED
  BY <1>2, <1>4, <1>5 DEF w

(* xfs_dir2_data_entsize is the length the code goes on by. *)
LEMMA SizeFacts ==
    ASSUME NEW namelen \in Nat
    PROVE  /\ Entsize(namelen) = EntryLen(namelen)
           /\ Entsize(namelen) \in Nat /\ Entsize(namelen) >= 11 + namelen
<1> DEFINE raw == 8 + 1 + namelen + FtypeLen + 2
<1>1. raw \in Nat /\ raw >= 11 + namelen
  <2>1. FtypeLen \in {0, 1}
    BY LengthFacts
  <2> QED
    BY <2>1
<1>2. EntryLen(namelen) = ((raw + 7) \div 8) * 8
  BY DEF EntryLen, Align8
<1>3. Entsize(namelen) = CHOOSE n \in raw..(raw + 7) : n % 8 = 0
  <2>1. raw = 8 + 1 + namelen + 2 + (IF dir.ftype THEN 1 ELSE 0)
    BY DEF FtypeLen
  <2> QED
    BY <2>1 DEF Entsize
<1> HIDE DEF raw
<1>4. /\ ((raw + 7) \div 8) * 8 \in raw..(raw + 7) /\ (((raw + 7) \div 8) * 8) % 8 = 0
      /\ \A n \in raw..(raw + 7) : n % 8 = 0 => n = ((raw + 7) \div 8) * 8
  BY <1>1
<1>5. Entsize(namelen) = ((raw + 7) \div 8) * 8
  BY <1>3, <1>4
<1> QED
  BY <1>1, <1>2, <1>4, <1>5

LEMMA ItemSize ==
    ASSUME NEW item \in Item, WellFormed(item)
    PROVE  /\ Size(item) \in Nat /\ Size(item) >= 8
           /\ item.kind = "free" => Size(item) = FreeLen(item.len)
           /\ item.kind # "free" => /\ item.kind = "entry" /\ item.namelen \in Nat \ {0}
                                    /\ Size(item) = EntryLen(item.namelen)
                                    /\ Size(item) >= 11 + item.namelen
<1>1. CASE item.kind = "free"
  <2> DEFINE l == item.len
  <2>1. l \in Nat /\ l > 0 /\ l % 8 = 0 /\ Size(item) = l
    BY <1>1 DEF Item, WellFormed, Size
  <2> HIDE DEF l
  <2>2. l >= 8 /\ FreeLen(l) = l
    BY <2>1 DEF FreeLen, LargerOf, Align8
  <2> QED
    BY <1>1, <2>1, <2>2 DEF l
<1>2. CASE item.kind # "free"
  <2> DEFINE l == item.namelen
  <2>1. item.kind = "entry" /\ l \in Nat /\ l > 0 /\ Size(item) = Entsize(l)
    BY <1>2 DEF Item, WellFormed, Size
  <2> HIDE DEF l
  <2>2. Entsize(l) = EntryLen(l) /\ Entsize(l) \in Nat /\ Entsize(l) >= 11 + l
    BY <2>1, SizeFacts
  <2> QED
    BY <1>2, <2>1, <2>2 DEF l
<1> QED
  BY <1>1, <1>2

(* The places of the records in a block that is filled. *)
Laid(places, stop, block, limit) ==
    /\ stop <= BlockSize /\ stop <= limit
    /\ HdrLen(block.magic) \in places \cup {stop} /\ HdrLen(block.magic) \in Nat
    /\ \A o \in places :
          /\ o \in 0..(BlockSize - 1) /\ o >= HdrLen(block.magic)
          /\ o \in DOMAIN block.at /\ block.at[o] \in Item /\ WellFormed(block.at[o])
          /\ o + Size(block.at[o]) \in places \cup {stop} /\ o + Size(block.at[o]) <= stop
          /\ \A p \in places : p <= o \/ p >= o + Size(block.at[o])
    /\ \A o \in stop..(limit - 1) : o \notin DOMAIN block.at

LEMMA PlaceFacts ==
    ASSUME dir \in Dirs, NEW n \in 0..(ImageBlocks - 1), NEW limit \in Int, limit <= BlockSize,
           NEW places, NEW stop \in Nat, Fill(places, stop, dir.blocks[n], limit)
    PROVE  Laid(places, stop, dir.blocks[n], limit)
<1> DEFINE block == dir.blocks[n]
<1>1. HdrLen(block.magic) = DataStart(block.magic) /\ HdrLen(block.magic) \in Nat
  BY DEF HdrLen, DataStart, DIR3_DATA_HDR_LEN, DIR2_DATA_HDR_LEN
<1>2. /\ DOMAIN block.at \subseteq 0..(BlockSize - 1)
      /\ \A o \in DOMAIN block.at : block.at[o] \in Item
  BY DEF Offsets
<1> HIDE DEF block
<1>3. /\ places \subseteq DOMAIN block.at /\ stop <= limit
      /\ DataStart(block.magic) \in places \cup {stop}
      /\ \A o \in places :
            /\ WellFormed(block.at[o]) /\ o >= DataStart(block.magic)
            /\ o + Size(block.at[o]) \in places \cup {stop} /\ o + Size(block.at[o]) <= stop
            /\ \A p \in places : p <= o \/ p >= o + Size(block.at[o])
      /\ \A o \in stop..(limit - 1) : o \notin DOMAIN block.at
  BY DEF Fill, block
<1>4. stop <= BlockSize
  BY <1>3
<1>5. ASSUME NEW o \in places
      PROVE  o \in 0..(BlockSize - 1) /\ o \in DOMAIN block.at /\ block.at[o] \in Item
  BY <1>2, <1>3
<1> QED
  BY <1>1, <1>3, <1>4, <1>5 DEF Laid, block

LEMMA SoundFill ==
    ASSUME dir \in Dirs, NEW n \in 0..(ImageBlocks - 1), NEW limit, SoundBlock(dir.blocks[n], limit)
    PROVE  \E stop \in Nat : Fill(PlacesOf(n, limit), stop, dir.blocks[n], limit)
<1> DEFINE block == dir.blocks[n]
           P == PlacesOf(n, limit)
<1>1. P \in SUBSET DOMAIN block.at /\ Filled(P, block, limit)
  BY DEF SoundBlock, PlacesOf
<1>2. \A o \in DOMAIN block.at : o \in Nat /\ block.at[o] \in Item
  BY DEF Offsets
<1>3. DataStart(block.magic) \in Nat
  BY DEF DataStart
<1> HIDE DEF P, block
<1>4. PICK stop \in {DataStart(block.magic)} \cup {o + Size(block.at[o]) : o \in P} :
          Fill(P, stop, block, limit)
  BY <1>1 DEF Filled
<1>5. stop \in Nat
  <2>1. CASE stop = DataStart(block.magic)
    BY <1>3, <2>1
  <2>2. CASE \E o \in P : stop = o + Size(block.at[o])
    <3>1. PICK o \in P : stop = o + Size(block.at[o])
      BY <2>2
    <3>2. o \in Nat /\ block.at[o] \in Item /\ WellFormed(block.at[o])
      BY <1>1, <1>2, <1>4 DEF Fill
    <3>3. Size(block.at[o]) \in Nat
      BY <3>2, ItemSize
    <3> QED
      BY <3>1, <3>2, <3>3
  <2> QED
    BY <1>4, <2>1, <2>2
<1> QED
  BY <1>4, <1>5 DEF P, block

(* What a filled block has left from a record on: its entry, if it is one, *)
(* and what the record after it has left.                                  *)
WalkLeft(n, limit, o) == Rest(LiveParts(n, limit))[o + 1]

LEMMA WalkFacts ==
    ASSUME dir \in Dirs, NEW n \in 0..(ImageBlocks - 1), NEW limit \in Int, limit <= BlockSize,
           NEW stop \in Nat, Fill(PlacesOf(n, limit), stop, dir.blocks[n], limit)
    PROVE  /\ WalkLeft(n, limit, HdrLen(dir.blocks[n].magic)) = Live(n, limit)
           /\ WalkLeft(n, limit, stop) = <<>>
           /\ \A o \in PlacesOf(n, limit) \cup {stop} : WalkLeft(n, limit, o) \in Seq(Places)
           /\ \A o \in PlacesOf(n, limit) :
                 LET item == dir.blocks[n].at[o]
                     left == WalkLeft(n, limit, o + Size(item))
                 IN  /\ item.kind = "free" => WalkLeft(n, limit, o) = left
                     /\ item.kind = "entry" => WalkLeft(n, limit, o) = << <<n, o>> >> \o left
<1> DEFINE P == PlacesOf(n, limit)
           at_ == dir.blocks[n].at
           h == HdrLen(dir.blocks[n].magic)
           w == LiveParts(n, limit)
           R == Rest(w)
<1>1. w \in Seq(Seq(Places)) /\ Len(w) = BlockSize /\ FlattenSeq(w) = Live(n, limit)
  BY LiveFacts
<1>2. \A i \in 1..BlockSize :
         w[i] = IF i - 1 \in P /\ at_[i - 1].kind = "entry" THEN << <<n, i - 1>> >> ELSE <<>>
  BY DEF LiveParts
<1>3. IsRest(Places, w, R) /\ R[1] = FlattenSeq(w)
  BY <1>1, RestFacts
<1>4. /\ stop <= BlockSize /\ h \in P \cup {stop} /\ h \in Nat
      /\ \A o \in P :
            /\ o \in 0..(BlockSize - 1) /\ o >= h /\ at_[o] \in Item /\ WellFormed(at_[o])
            /\ o + Size(at_[o]) \in P \cup {stop} /\ o + Size(at_[o]) <= stop
            /\ \A p \in P : p <= o \/ p >= o + Size(at_[o])
  <2>1. Laid(P, stop, dir.blocks[n], limit)
    <3> HIDE DEF P
    <3> QED
      BY PlaceFacts DEF P
  <2> HIDE DEF P
  <2> QED
    BY <2>1 DEF Laid
<1>5. \A o : WalkLeft(n, limit, o) = R[o + 1]
  BY DEF WalkLeft
<1>6. \A o \in P : Size(at_[o]) \in Nat /\ Size(at_[o]) >= 8
  BY <1>4, ItemSize
<1> HIDE DEF P, at_, h, w, R
<1>7. \A o \in P : o \in Nat /\ o < stop
  BY <1>4, <1>6
<1>8. /\ R \in [1..(BlockSize + 1) -> Seq(Places)] /\ R[BlockSize + 1] = <<>>
      /\ \A i \in 1..BlockSize : R[i] = w[i] \o R[i + 1]
  BY <1>1, <1>3 DEF IsRest
<1>9. ASSUME NEW i \in 1..(BlockSize + 1), NEW j \in i..(BlockSize + 1),
             \A k \in i..(j - 1) : w[k] = <<>>
      PROVE  R[i] = R[j]
  <2>1. /\ i \in 1..(Len(w) + 1) /\ j \in i..(Len(w) + 1) /\ w \in Seq(Seq(Places))
        /\ IsRest(Places, w, R)
    BY <1>1, <1>3
  <2> QED
    BY ONLY <2>1, <1>9, RestGap
<1>10. R[h + 1] = R[1]
  <2>1. h \in 0..BlockSize
    BY <1>4
  <2>2. \A k \in 1..h : w[k] = <<>>
    <3>1. \A o \in P : o \in Nat /\ o >= h
      BY <1>4
    <3>2. \A k \in 1..h : k \in 1..BlockSize /\ k - 1 \notin P
      BY <2>1, <3>1
    <3> QED
      BY <1>2, <3>2
  <2>3. 1 \in 1..(BlockSize + 1) /\ h + 1 \in 1..(BlockSize + 1) /\ (h + 1) - 1 = h
    BY <2>1
  <2>4. \A k \in 1..((h + 1) - 1) : w[k] = <<>>
    BY ONLY <2>2, <2>3
  <2> QED
    BY ONLY <1>9, <2>3, <2>4
<1>11. R[stop + 1] = <<>>
  <2>1. \A k \in (stop + 1)..BlockSize : w[k] = <<>>
    <3>1. \A k \in (stop + 1)..BlockSize : k \in 1..BlockSize /\ k - 1 \notin P
      BY <1>7
    <3> QED
      BY <1>2, <3>1
  <2>2. /\ stop + 1 \in 1..(BlockSize + 1) /\ BlockSize + 1 \in (stop + 1)..(BlockSize + 1)
        /\ (BlockSize + 1) - 1 = BlockSize
    BY <1>4
  <2>3. \A k \in (stop + 1)..((BlockSize + 1) - 1) : w[k] = <<>>
    BY ONLY <2>1, <2>2
  <2>4. R[stop + 1] = R[BlockSize + 1]
    BY ONLY <1>9, <2>2, <2>3
  <2> QED
    BY <1>8, <2>4
<1>12. \A o \in P \cup {stop} : R[o + 1] \in Seq(Places)
  <2>1. \A o \in P \cup {stop} : o + 1 \in 1..(BlockSize + 1)
    BY <1>4
  <2> QED
    BY <1>8, <2>1
<1>13. ASSUME NEW o \in P
       PROVE  /\ at_[o].kind = "free" => R[o + 1] = R[o + Size(at_[o]) + 1]
              /\ at_[o].kind = "entry" => R[o + 1] = << <<n, o>> >> \o R[o + Size(at_[o]) + 1]
  <2> DEFINE s == Size(at_[o])
  <2>1. /\ s \in Nat /\ s >= 8 /\ o \in 0..(BlockSize - 1) /\ o + s <= BlockSize
        /\ \A p \in P : p <= o \/ p >= o + s
    BY <1>4, <1>6
  <2> HIDE DEF s
  <2>2. \A k \in (o + 2)..(o + s) : w[k] = <<>>
    <3>1. \A k \in (o + 2)..(o + s) : k \in 1..BlockSize /\ k - 1 > o /\ k - 1 < o + s
      BY <2>1
    <3>2. \A p \in P : p \in Nat
      BY <1>7
    <3>3. \A k \in (o + 2)..(o + s) : k - 1 \notin P
      BY <2>1, <3>1, <3>2
    <3> QED
      BY <1>2, <3>1, <3>3
  <2>3. R[o + 2] = R[o + s + 1]
    <3>1. /\ o + 2 \in 1..(BlockSize + 1) /\ o + s + 1 \in (o + 2)..(BlockSize + 1)
          /\ (o + s + 1) - 1 = o + s
      BY <2>1
    <3>2. \A k \in (o + 2)..((o + s + 1) - 1) : w[k] = <<>>
      BY ONLY <2>2, <3>1
    <3> QED
      BY ONLY <1>9, <3>1, <3>2
  <2>4. /\ R[o + 1] = w[o + 1] \o R[o + 2] /\ R[o + 2] \in Seq(Places)
        /\ w[o + 1] = IF at_[o].kind = "entry" THEN << <<n, o>> >> ELSE <<>>
    <3>1. o + 1 \in 1..BlockSize /\ (o + 1) - 1 = o /\ (o + 1) + 1 = o + 2
          /\ o + 2 \in 1..(BlockSize + 1)
      BY <2>1
    <3> QED
      BY <1>2, <1>8, <3>1
  <2>5. CASE at_[o].kind = "free"
    <3>1. w[o + 1] = <<>>
      BY <2>4, <2>5
    <3>2. R[o + 1] = R[o + 2]
      BY <2>4, <3>1, ConcatEmptySeq
    <3> QED
      BY <2>3, <2>5, <3>2 DEF s
  <2>6. CASE at_[o].kind = "entry"
    <3>1. w[o + 1] = << <<n, o>> >>
      BY <2>4, <2>6
    <3> QED
      BY <2>3, <2>4, <2>6, <3>1 DEF s
  <2> QED
    BY <2>5, <2>6
<1> QED
  BY <1>1, <1>3, <1>5, <1>10, <1>11, <1>12, <1>13 DEF P, at_, h, w, R

(* What the code reads at a place of a filled block, and where the records *)
(* stop.                                                                   *)
LEMMA ReadFacts ==
    ASSUME dir \in Dirs, at \in 0..(ImageBlocks - 1), end \in Nat, end <= BlockSize,
           NEW places, NEW stop \in Nat, Fill(places, stop, dir.blocks[at], end)
    PROVE  LET item == dir.blocks[at].at[off]
           IN  /\ off \in places =>
                     /\ InRegion /\ ItemAt(dir.blocks[at], off) = item
                     /\ IsFree <=> item.kind = "free"
                     /\ item.kind = "free" => FreeLen(item.len) = Size(item)
                     /\ item.kind # "free" =>
                          /\ item.kind = "entry" /\ IsEntry
                          /\ EntryLen(NameLen(dir.blocks[at], off)) = Size(item)
               /\ off = stop => ~InRegion \/ (~IsFree /\ ~IsEntry)
<1> DEFINE block == dir.blocks[at]
           item == block.at[off]
<1>0. Laid(places, stop, block, end)
  <2>1. end \in Int
    OBVIOUS
  <2> QED
    BY <2>1, PlaceFacts
<1>1. ASSUME off \in places
      PROVE  /\ InRegion /\ ItemAt(block, off) = item
             /\ IsFree <=> item.kind = "free"
             /\ item.kind = "free" => FreeLen(item.len) = Size(item)
             /\ item.kind # "free" =>
                  /\ item.kind = "entry" /\ IsEntry
                  /\ EntryLen(NameLen(block, off)) = Size(item)
  <2>1. /\ stop <= end /\ off \in 0..(BlockSize - 1) /\ off \in DOMAIN block.at
        /\ item \in Item /\ WellFormed(item) /\ off + Size(item) <= stop
    <3> HIDE DEF block
    <3> QED
      BY <1>0, <1>1 DEF Laid
  <2>2. /\ Size(item) \in Nat /\ Size(item) >= 8
        /\ item.kind = "free" => Size(item) = FreeLen(item.len)
        /\ item.kind # "free" => /\ item.kind = "entry" /\ item.namelen \in Nat \ {0}
                                 /\ Size(item) = EntryLen(item.namelen)
                                 /\ Size(item) >= 11 + item.namelen
    BY <2>1, ItemSize
  <2>3. ItemAt(block, off) = item
    BY <2>1 DEF ItemAt
  <2>4. NameLen(block, off) = IF off + 8 < BlockSize THEN item.namelen ELSE 0
    BY <2>3 DEF NameLen
  <2>5. IsFree <=> item.kind = "free"
    BY <2>3 DEF IsFree
  <2>6. InRegion
    <3> DEFINE s == Size(item)
    <3> HIDE DEF s, item
    <3>1. off + 3 <= end
      BY <2>1, <2>2 DEF s
    <3> QED
      BY <3>1 DEF InRegion
  <2>7. ASSUME item.kind # "free" PROVE IsEntry /\ NameLen(block, off) = item.namelen
    <3> DEFINE s == Size(item)
               l == item.namelen
    <3>1. /\ s \in Nat /\ l \in Nat \ {0} /\ s >= 11 + l /\ off + s <= stop
      BY <2>1, <2>2, <2>7
    <3> HIDE DEF s, l
    <3>2. off + 8 < BlockSize /\ off + 9 + l <= BlockSize
      BY <2>1, <3>1
    <3>3. NameLen(block, off) = l
      BY <2>4, <3>2 DEF l
    <3>4. NameFits(off)
      BY <3>2, <3>3 DEF NameFits
    <3> QED
      BY <2>5, <2>7, <3>1, <3>3, <3>4 DEF IsEntry, l
  <2> QED
    BY <2>2, <2>3, <2>5, <2>6, <2>7
<1>2. ASSUME off = stop PROVE ~InRegion \/ (~IsFree /\ ~IsEntry)
  <2> SUFFICES ASSUME InRegion PROVE ~IsFree /\ ~IsEntry
    OBVIOUS
  <2>1. off \in stop..(end - 1)
    BY ONLY <1>2, InRegion, stop \in Nat, end \in Nat DEF InRegion
  <2>2. off \notin DOMAIN block.at
    <3> HIDE DEF block
    <3> QED
      BY <1>0, <2>1 DEF Laid
  <2>3. ItemAt(block, off) = Zeroes
    BY <2>2 DEF ItemAt
  <2>4. NameLen(block, off) = 0 /\ ~IsFree
    BY <2>3 DEF NameLen, Zeroes, IsFree
  <2> QED
    BY <2>4 DEF IsEntry
<1> QED
  BY <1>1, <1>2

(* What is left of a larger directory from block c of record k on. *)
BlocksLeft(k, c) ==
    IF k > Len(dir.recs) THEN <<>>
    ELSE IF dir.recs[k].startoff >= LeafBoundary THEN Rest(DirParts)[k + 1]
    ELSE Rest(MappedParts(dir.recs[k]))[c + 1] \o Rest(DirParts)[k + 1]

LEMMA RecFacts ==
    ASSUME dir \in Dirs
    PROVE  /\ Len(dir.recs) \in Nat
           /\ \A k \in 1..Len(dir.recs) :
                 /\ dir.recs[k].startoff \in Nat /\ dir.recs[k].startblock \in Nat
                 /\ dir.recs[k].blockcount \in Nat
<1>1. dir.recs \in Seq(Rec)
  OBVIOUS
<1>2. \A k \in 1..Len(dir.recs) : dir.recs[k] \in Rec
  BY <1>1, ElementOfSeq
<1> QED
  BY <1>1, <1>2 DEF Rec

LEMMA BlockPartType ==
    ASSUME dir \in Dirs, NEW n
    PROVE  BlockPart(n) \in Seq(Places)
<1>1. n \in DataBlocks => Live(n, BlockSize) \in Seq(Places)
  BY LiveFacts DEF DataBlocks
<1>2. <<>> \in Seq(Places)
  OBVIOUS
<1> QED
  BY <1>1, <1>2 DEF BlockPart

LEMMA MappedFacts ==
    ASSUME dir \in Dirs, NEW rec, rec.blockcount \in Nat
    PROVE  /\ MappedParts(rec) \in Seq(Seq(Places)) /\ Len(MappedParts(rec)) = rec.blockcount
           /\ \A i \in 1..rec.blockcount : MappedParts(rec)[i] = BlockPart(rec.startblock + i - 1)
           /\ Mapped(rec) = IF rec.startoff >= LeafBoundary THEN <<>> ELSE FlattenSeq(MappedParts(rec))
           /\ Mapped(rec) \in Seq(Places)
<1> DEFINE w == MappedParts(rec)
           c == rec.blockcount
           Part(i) == BlockPart(rec.startblock + i - 1)
<1>1. w = [i \in 1..c |-> Part(i)]
  BY DEF MappedParts
<1>2. \A i \in 1..c : Part(i) \in Seq(Places)
  BY BlockPartType
<1>3. Mapped(rec) = IF rec.startoff >= LeafBoundary THEN <<>> ELSE FlattenSeq(w)
  BY DEF Mapped, MappedParts, BlockPart
<1> HIDE DEF w, Part, c
<1>4. w \in Seq(Seq(Places)) /\ Len(w) = c /\ \A i \in 1..c : w[i] = Part(i)
  <2>1. c \in Nat
    BY DEF c
  <2> QED
    BY ONLY <1>1, <1>2, <2>1
<1>5. FlattenSeq(w) \in Seq(Places) /\ <<>> \in Seq(Places)
  BY <1>4, FlattenType
<1> QED
  BY <1>3, <1>4, <1>5 DEF w, Part, c

LEMMA DirPartsFacts ==
    ASSUME dir \in Dirs
    PROVE  LET R == Rest(DirParts)
               n == Len(dir.recs)
           IN  /\ R[1] = FlattenSeq(DirParts) /\ R[n + 1] = <<>>
               /\ \A k \in 1..(n + 1) : R[k] \in Seq(Places)
               /\ \A k \in 1..n : R[k] = Mapped(dir.recs[k]) \o R[k + 1]
<1> DEFINE w == DirParts
           R == Rest(w)
           n == Len(dir.recs)
<1>1. n \in Nat /\ \A k \in 1..n : Mapped(dir.recs[k]) \in Seq(Places)
  BY RecFacts, MappedFacts
<1>2. w = [k \in 1..n |-> Mapped(dir.recs[k])]
  BY DEF DirParts
<1> HIDE DEF w, n
<1>3. w \in Seq(Seq(Places)) /\ Len(w) = n /\ \A k \in 1..n : w[k] = Mapped(dir.recs[k])
  BY <1>1, <1>2
<1>4. IsRest(Places, w, R) /\ R[1] = FlattenSeq(w)
  BY <1>3, RestFacts
<1> HIDE DEF R
<1>5. /\ R \in [1..(n + 1) -> Seq(Places)] /\ R[n + 1] = <<>>
      /\ \A k \in 1..n : R[k] = w[k] \o R[k + 1]
  BY <1>3, <1>4 DEF IsRest
<1>6. \A k \in 1..n : R[k] = Mapped(dir.recs[k]) \o R[k + 1]
  BY <1>3, <1>5
<1>7. \A k \in 1..(n + 1) : R[k] \in Seq(Places)
  BY <1>5
<1> QED
  BY <1>4, <1>5, <1>6, <1>7 DEF w, R, n

(* Before the first block of a record, all of it is left. *)
LEMMA WholeRecord ==
    ASSUME dir \in Dirs, NEW k \in 1..(Len(dir.recs) + 1)
    PROVE  BlocksLeft(k, 0) = Rest(DirParts)[k] /\ BlocksLeft(k, 0) \in Seq(Places)
<1> DEFINE R == Rest(DirParts)
           n == Len(dir.recs)
<1>1. /\ n \in Nat /\ R[n + 1] = <<>> /\ \A i \in 1..(n + 1) : R[i] \in Seq(Places)
      /\ \A i \in 1..n : R[i] = Mapped(dir.recs[i]) \o R[i + 1]
  BY DirPartsFacts, RecFacts
<1> HIDE DEF R
<1>2. CASE k = n + 1
  <2>1. BlocksLeft(k, 0) = <<>>
    BY <1>1, <1>2 DEF BlocksLeft
  <2> QED
    BY <1>1, <1>2, <2>1 DEF R
<1>3. CASE k \in 1..n
  <2> DEFINE rec == dir.recs[k]
  <2>1. rec.blockcount \in Nat /\ ~(k > n) /\ k + 1 \in 1..(n + 1)
    BY <1>1, <1>3, RecFacts
  <2>2. Mapped(rec) = IF rec.startoff >= LeafBoundary THEN <<>> ELSE FlattenSeq(MappedParts(rec))
    BY <2>1, MappedFacts
  <2>3. R[k] = Mapped(rec) \o R[k + 1] /\ R[k + 1] \in Seq(Places) /\ R[k] \in Seq(Places)
    BY <1>1, <1>3, <2>1
  <2>4. CASE rec.startoff >= LeafBoundary
    <3>1. BlocksLeft(k, 0) = R[k + 1]
      BY <2>1, <2>4 DEF BlocksLeft, R
    <3>2. R[k] = R[k + 1]
      BY <2>2, <2>3, <2>4, ConcatEmptySeq
    <3> QED
      BY <2>3, <3>1, <3>2 DEF R
  <2>5. CASE ~(rec.startoff >= LeafBoundary)
    <3>1. Rest(MappedParts(rec))[1] = FlattenSeq(MappedParts(rec))
      BY <2>1, MappedFacts, RestFacts
    <3>2. BlocksLeft(k, 0) = Rest(MappedParts(rec))[0 + 1] \o R[k + 1]
      BY <2>1, <2>5 DEF BlocksLeft, R
    <3>3. Mapped(rec) = FlattenSeq(MappedParts(rec)) /\ 0 + 1 = 1
      BY <2>2, <2>5
    <3>4. BlocksLeft(k, 0) = R[k] /\ R[k] \in Seq(Places)
      <4> HIDE DEF rec
      <4> QED
        BY ONLY <2>3, <3>1, <3>2, <3>3
    <3> QED
      BY <3>4 DEF R
  <2> QED
    BY <2>4, <2>5
<1>4. k = n + 1 \/ k \in 1..n
  <2> HIDE DEF n
  <2>1. k \in 1..(n + 1)
    BY DEF n
  <2> QED
    BY ONLY <1>1, <2>1
<1> QED
  BY <1>2, <1>3, <1>4

(* An index record, or one that is through, leaves what the next one does. *)
LEMMA RecordDone ==
    ASSUME dir \in Dirs, NEW k \in 1..Len(dir.recs), NEW c,
           dir.recs[k].startoff >= LeafBoundary \/ c = dir.recs[k].blockcount
    PROVE  BlocksLeft(k, c) = BlocksLeft(k + 1, 0)
<1> DEFINE R == Rest(DirParts)
           n == Len(dir.recs)
           rec == dir.recs[k]
<1>1. n \in Nat /\ ~(k > n) /\ k + 1 \in 1..(n + 1) /\ rec.blockcount \in Nat
  BY RecFacts
<1>2. BlocksLeft(k + 1, 0) = R[k + 1] /\ R[k + 1] \in Seq(Places)
  BY <1>1, WholeRecord, DirPartsFacts
<1> HIDE DEF R
<1>3. CASE rec.startoff >= LeafBoundary
  BY <1>1, <1>2, <1>3 DEF BlocksLeft, R
<1>4. CASE ~(rec.startoff >= LeafBoundary) /\ c = rec.blockcount
  <2> DEFINE w == MappedParts(rec)
  <2>1. w \in Seq(Seq(Places)) /\ Len(w) = rec.blockcount
    BY <1>1, MappedFacts
  <2> HIDE DEF w
  <2>2. Rest(w)[rec.blockcount + 1] = <<>>
    BY <2>1, RestFacts DEF IsRest
  <2>3. BlocksLeft(k, c) = Rest(w)[c + 1] \o R[k + 1]
    BY <1>1, <1>4 DEF BlocksLeft, R, w
  <2> QED
    BY <1>2, <1>4, <2>2, <2>3, ConcatEmptySeq
<1> QED
  BY <1>3, <1>4

(* Otherwise the next block comes before what is left behind it. *)
LEMMA BlockNext ==
    ASSUME dir \in Dirs, NEW k \in 1..Len(dir.recs), NEW c \in Nat,
           ~(dir.recs[k].startoff >= LeafBoundary), c < dir.recs[k].blockcount
    PROVE  /\ BlocksLeft(k, c) = BlockPart(dir.recs[k].startblock + c) \o BlocksLeft(k, c + 1)
           /\ BlocksLeft(k, c + 1) \in Seq(Places)
<1> DEFINE D == Rest(DirParts)
           n == Len(dir.recs)
           rec == dir.recs[k]
           w == MappedParts(rec)
           R == Rest(w)
           part == BlockPart(rec.startblock + c)
           m == rec.blockcount
<1>1. n \in Nat /\ ~(k > n) /\ k + 1 \in 1..(n + 1) /\ m \in Nat /\ rec.startblock \in Nat
  BY RecFacts
<1>2. D[k + 1] \in Seq(Places)
  BY <1>1, DirPartsFacts
<1>3. /\ w \in Seq(Seq(Places)) /\ Len(w) = m
      /\ \A i \in 1..m : w[i] = BlockPart(rec.startblock + i - 1)
  BY <1>1, MappedFacts
<1>4. BlocksLeft(k, c) = R[c + 1] \o D[k + 1] /\ BlocksLeft(k, c + 1) = R[(c + 1) + 1] \o D[k + 1]
  BY <1>1 DEF BlocksLeft
<1>5. part \in Seq(Places)
  BY BlockPartType
<1>6. c + 1 \in 1..m /\ (c + 1) + 1 \in 1..(m + 1) /\ rec.startblock + (c + 1) - 1 = rec.startblock + c
  <2>1. c \in Nat /\ c < m /\ m \in Nat /\ rec.startblock \in Nat
    BY <1>1
  <2> HIDE DEF rec, m
  <2> QED
    BY ONLY <2>1
<1> HIDE DEF w, rec
<1>7. IsRest(Places, w, R)
  BY <1>3, RestFacts
<1> HIDE DEF R, D, m
<1>8. R[c + 1] = w[c + 1] \o R[(c + 1) + 1] /\ R[(c + 1) + 1] \in Seq(Places)
  BY <1>3, <1>6, <1>7 DEF IsRest
<1>9. w[c + 1] = part
  BY <1>3, <1>6
<1> HIDE DEF part
<1> DEFINE r == R[(c + 1) + 1]
           d == D[k + 1]
<1>10. part \in Seq(Places) /\ r \in Seq(Places) /\ d \in Seq(Places)
  BY <1>2, <1>5, <1>8
<1> HIDE DEF r, d
<1>11. (part \o r) \o d = part \o (r \o d)
  BY ONLY <1>10, ConcatAssociative
<1>12. r \o d \in Seq(Places)
  BY ONLY <1>10, ConcatProperties
<1> QED
  BY <1>4, <1>8, <1>9, <1>11, <1>12 DEF r, d, part, rec

(* The places of a short form's entries. *)
LEMMA ShortFacts ==
    ASSUME dir \in Dirs
    PROVE  /\ dir.short.count \in Nat /\ dir.short.len \in Nat
           /\ ShortPlaces[1] = 2 + InumWidth
           /\ \A k \in 1..dir.short.count :
                 /\ ShortSize(k) = 3 + dir.short.namelens[k] + FtypeLen + InumWidth
                 /\ ShortSize(k) \in Nat
                 /\ ShortPlaces[k + 1] = ShortPlaces[k] + ShortSize(k)
           /\ \A k \in 1..(dir.short.count + 1) : ShortPlaces[k] \in Nat
<1> DEFINE n == dir.short.count
           a == 2 + (IF dir.short.wide THEN 8 ELSE 4)
           d == [k \in 1..n |-> ShortSize(k)]
           Is(f) == f = [k \in 1..(n + 1) |-> IF k = 1 THEN a ELSE f[k - 1] + ShortSize(k - 1)]
<1>1. /\ n \in Nat /\ dir.short.namelens \in Seq(Nat) /\ Len(dir.short.namelens) >= n
      /\ dir.short.len \in Nat
  <2>1. /\ dir.short \in [count : Nat, wide : BOOLEAN, len : Nat, namelens : Seq(Nat)]
        /\ Len(dir.short.namelens) >= dir.short.count
    OBVIOUS
  <2> QED
    BY <2>1
<1>2. \A k \in 1..n : dir.short.namelens[k] \in Nat
  BY <1>1, ElementOfSeq
<1>3. \A k \in 1..n : ShortSize(k) \in Nat
  <2>1. \A k : ShortSize(k) = 3 + dir.short.namelens[k] + FtypeLen + InumWidth
    BY DEF ShortSize, FtypeLen, InumWidth
  <2>2. FtypeLen \in {0, 1} /\ InumWidth \in {4, 8}
    BY LengthFacts
  <2> HIDE DEF n
  <2> QED
    BY ONLY <1>2, <2>1, <2>2
<1>4. a \in Nat /\ a = 2 + InumWidth
  BY DEF InumWidth
<1>5. \A k \in 1..n : ShortSize(k) = 3 + dir.short.namelens[k] + FtypeLen + InumWidth
  BY DEF ShortSize, FtypeLen, InumWidth
<1>6. ShortPlaces = CHOOSE f : Is(f)
  BY DEF ShortPlaces
<1> HIDE DEF n, a
<1>7. \E f : Is(f)
  <2>1. d \in [1..n -> Nat]
    BY <1>3
  <2>2. PICK f : IsSums(f, n, a, d)
    <3> HIDE DEF d
    <3>1. n \in Nat /\ a \in Nat
      BY <1>1, <1>4
    <3> QED
      BY ONLY <2>1, <3>1, SumsExist
  <2>3. \A k \in 1..(n + 1) : k # 1 => d[k - 1] = ShortSize(k - 1)
    BY <1>1 DEF n
  <2>4. Is(f)
    <3> HIDE DEF d
    <3> QED
      BY <2>2, <2>3 DEF IsSums
  <2> QED
    BY <2>4
<1> DEFINE P == ShortPlaces
<1>8. Is(P)
  BY <1>6, <1>7
<1> HIDE DEF P
<1>9. \A k \in 1..(n + 1) : P[k] = IF k = 1 THEN a ELSE P[k - 1] + ShortSize(k - 1)
  BY <1>8
<1>10. P[1] = a
  BY <1>1, <1>9 DEF n
<1>11. \A k \in 1..n : P[k + 1] = P[k] + ShortSize(k)
  <2> SUFFICES ASSUME NEW k \in 1..n PROVE P[k + 1] = P[k] + ShortSize(k)
    OBVIOUS
  <2>1. k + 1 \in 1..(n + 1) /\ k + 1 # 1 /\ (k + 1) - 1 = k
    BY <1>1 DEF n
  <2> QED
    BY <1>9, <2>1
<1>12. \A k \in 1..(n + 1) : P[k] \in Nat
  <2> DEFINE T == {k \in Nat : k + 1 \in 1..(n + 1) => P[k + 1] \in Nat}
  <2>1. 0 \in T
    BY <1>4, <1>10
  <2>2. ASSUME NEW k \in Nat, k \in T PROVE k + 1 \in T
    <3> SUFFICES ASSUME (k + 1) + 1 \in 1..(n + 1) PROVE P[(k + 1) + 1] \in Nat
      OBVIOUS
    <3>1. k + 1 \in 1..n /\ k + 1 \in 1..(n + 1)
      BY <1>1 DEF n
    <3> QED
      BY <1>3, <1>11, <2>2, <3>1
  <2> HIDE DEF T
  <2>3. Nat \subseteq T
    BY <2>1, <2>2, Induction
  <2>4. \A k \in 1..(n + 1) : k - 1 \in Nat /\ (k - 1) + 1 = k
    OBVIOUS
  <2> QED
    BY <2>3, <2>4 DEF T
<1> QED
  BY <1>1, <1>3, <1>4, <1>5, <1>10, <1>11, <1>12 DEF n, P

(***************************************************************************)
(* The invariant: what is listed and what the cursor has yet to come by    *)
(* are the listing.                                                        *)
(***************************************************************************)
Shorts(m) == [k \in 1..m |-> <<Inline, ShortPlaces[k]>>]
Left(k, c) == IF IsSingle THEN <<>> ELSE BlocksLeft(k, c)
(* In a block the cursor is at a record, or where the records stop.        *)
Walking(n, limit, o, listed, left) ==
    \E stop \in Nat :
        /\ Fill(PlacesOf(n, limit), stop, dir.blocks[n], limit)
        /\ o \in PlacesOf(n, limit) \cup {stop}
        /\ listed \o (WalkLeft(n, limit, o) \o left) = Listing

ListInv ==
    SoundDir =>
        /\ pc # "unsupported"
        /\ pc = "short" => /\ next <= dir.short.count + 1 /\ off = ShortPlaces[next]
                           /\ entries = Shorts(next - 1)
        /\ pc = "extents" => entries \o BlocksLeft(next, b) = Listing
        /\ pc = "walk" => Walking(at, end, off, entries, Left(next, b))
        /\ pc = "returned" => entries = Listing

LEMMA SameDir ==
    ASSUME dir' = dir
    PROVE  /\ SoundDir' <=> SoundDir
           /\ Listing' = Listing
           /\ (IsSingle' <=> IsSingle) /\ (IsMulti' <=> IsMulti)
           /\ ShortPlaces' = ShortPlaces
           /\ \A n, l : PlacesOf(n, l)' = PlacesOf(n, l)
           /\ \A p, s, k, l : Fill(p, s, k, l)' <=> Fill(p, s, k, l)
           /\ \A n, l, o : WalkLeft(n, l, o)' = WalkLeft(n, l, o)
           /\ \A k, c : BlocksLeft(k, c)' = BlocksLeft(k, c)
<1>1. \A p, s, k, l : Fill(p, s, k, l)' <=> Fill(p, s, k, l)
  BY DEF Fill, Size, Entsize
<1>2. \A p, k, l : Filled(p, k, l)' <=> Filled(p, k, l)
  BY DEF Filled, Fill, Size, Entsize
<1>3. \A k, l : SoundBlock(k, l)' <=> SoundBlock(k, l)
  BY DEF SoundBlock, Filled, Fill, Size, Entsize
<1>4. \A n, l : PlacesOf(n, l)' = PlacesOf(n, l)
  BY DEF PlacesOf, Filled, Fill, Size, Entsize
<1>5. \A n, l : Live(n, l)' = Live(n, l) /\ LiveParts(n, l)' = LiveParts(n, l)
  BY DEF Live, LiveParts, PlacesOf, Filled, Fill, Size, Entsize
<1>6. DataBlocks' = DataBlocks /\ (IsSingle' <=> IsSingle) /\ (IsMulti' <=> IsMulti)
      /\ BlockZero' = BlockZero /\ \A n : BlockOf(n)' = BlockOf(n)
  BY DEF DataBlocks, IsSingle, IsMulti, BlockZero, BlockOf
<1>7. \A rec : Mapped(rec)' = Mapped(rec) /\ MappedParts(rec)' = MappedParts(rec)
  BY DEF Mapped, MappedParts, BlockPart, DataBlocks, Live, Filled, Fill, Size, Entsize
<1>8. ShortPlaces' = ShortPlaces
  BY DEF ShortPlaces, ShortSize
<1>9. DirParts' = DirParts
  BY DEF DirParts, Mapped, DataBlocks, Live, Filled, Fill, Size, Entsize
<1>10. SoundDir' <=> SoundDir
  BY DEF SoundDir, ShortPlaces, ShortSize, IsSingle, IsMulti, BlockOf, BlockZero, DataBlocks,
         SoundBlock, Filled, Fill, Size, Entsize
<1>11. Listing' = Listing
  BY DEF Listing, ShortPlaces, ShortSize, IsSingle, BlockZero, Mapped, DataBlocks, Live, Filled,
         Fill, Size, Entsize
<1>12. \A n, l, o : WalkLeft(n, l, o)' = WalkLeft(n, l, o)
  BY DEF WalkLeft, LiveParts, PlacesOf, Filled, Fill, Size, Entsize
<1>13. \A k, c : BlocksLeft(k, c)' = BlocksLeft(k, c)
  BY DEF BlocksLeft, DirParts, MappedParts, BlockPart, Mapped, DataBlocks, Live, Filled, Fill,
         Size, Entsize
<1> QED
  BY <1>1, <1>4, <1>6, <1>8, <1>10, <1>11, <1>12, <1>13

(* What a sound directory's listing is made of, format by format.          *)
LEMMA SoundFacts ==
    ASSUME dir \in Dirs, SoundDir
    PROVE  /\ dir.format = "Local" \/ IsSingle \/ IsMulti
           /\ dir.format = "Local" =>
                 /\ ~IsSingle /\ ~IsMulti /\ Listing = Shorts(dir.short.count)
                 /\ \A k \in 1..(dir.short.count + 1) : ShortPlaces[k] <= dir.short.len
           /\ IsSingle =>
                 /\ ~IsMulti /\ BlockOf(BlockZero).magic \in {"XDB3", "XD2B"}
                 /\ BlockZero \in 0..(ImageBlocks - 1)
                 /\ SoundBlock(dir.blocks[BlockZero], LeafArray(dir.blocks[BlockZero]))
                 /\ Listing = Live(BlockZero, LeafArray(dir.blocks[BlockZero]))
           /\ IsMulti =>
                 /\ ~IsSingle /\ Listing = FlattenSeq(DirParts)
                 /\ \A k \in 1..Len(dir.recs) : dir.recs[k].startoff < LeafBoundary =>
                       \A i \in 1..dir.recs[k].blockcount :
                          LET n == dir.recs[k].startblock + i - 1
                          IN  n \in DataBlocks => SoundBlock(dir.blocks[n], BlockSize)
<1>1. dir.format \in Formats /\ (IsSingle => dir.format = "Extents" /\ ~IsMulti)
      /\ (IsMulti => dir.format \in {"Extents", "Btree"} /\ ~IsSingle)
  BY DEF IsSingle, IsMulti
<1>2. ASSUME dir.format = "Local"
      PROVE  /\ ~IsSingle /\ ~IsMulti /\ Listing = Shorts(dir.short.count)
             /\ \A k \in 1..(dir.short.count + 1) : ShortPlaces[k] <= dir.short.len
  <2>1. ~IsSingle /\ ~IsMulti
    BY <1>1, <1>2
  <2>2. Listing = Shorts(dir.short.count)
    BY <1>2, <2>1 DEF Listing, Shorts
  <2>3. \A k \in 1..(dir.short.count + 1) : ShortPlaces[k] <= dir.short.len
    BY <1>2, <2>1 DEF SoundDir
  <2> QED
    BY <2>1, <2>2, <2>3
<1>3. ASSUME IsSingle
      PROVE  /\ ~IsMulti /\ BlockOf(BlockZero).magic \in {"XDB3", "XD2B"}
             /\ BlockZero \in 0..(ImageBlocks - 1)
             /\ SoundBlock(dir.blocks[BlockZero], LeafArray(dir.blocks[BlockZero]))
             /\ Listing = Live(BlockZero, LeafArray(dir.blocks[BlockZero]))
  <2>1. dir.format # "Local" /\ ~IsMulti
    BY <1>1, <1>3
  <2>2. /\ BlockOf(BlockZero).magic \in {"XDB3", "XD2B"}
        /\ SoundBlock(BlockOf(BlockZero), LeafArray(BlockOf(BlockZero)))
    BY <1>3, <2>1 DEF SoundDir
  <2>3. BlockZero \in 0..(ImageBlocks - 1) /\ BlockOf(BlockZero) = dir.blocks[BlockZero]
    BY <2>2, InImage
  <2>4. Listing = Live(BlockZero, LeafArray(dir.blocks[BlockZero]))
    BY <1>3, <2>1 DEF Listing
  <2> QED
    BY <2>1, <2>2, <2>3, <2>4
<1>4. ASSUME IsMulti
      PROVE  /\ ~IsSingle /\ Listing = FlattenSeq(DirParts)
             /\ \A k \in 1..Len(dir.recs) : dir.recs[k].startoff < LeafBoundary =>
                   \A i \in 1..dir.recs[k].blockcount :
                      LET n == dir.recs[k].startblock + i - 1
                      IN  n \in DataBlocks => SoundBlock(dir.blocks[n], BlockSize)
  <2>1. dir.format # "Local" /\ ~IsSingle
    BY <1>1, <1>4
  <2>2. Listing = FlattenSeq(DirParts)
    BY <2>1 DEF Listing, DirParts
  <2>3. \A k \in 1..Len(dir.recs) : dir.recs[k].startoff < LeafBoundary =>
           \A i \in 1..dir.recs[k].blockcount :
              LET n == dir.recs[k].startblock + i - 1
              IN  n \in DataBlocks => SoundBlock(dir.blocks[n], BlockSize)
    BY <1>4, <2>1 DEF SoundDir
  <2> QED
    BY <2>1, <2>2, <2>3
<1>5. dir.format = "Local" \/ IsSingle \/ IsMulti
  BY DEF SoundDir
<1> QED
  BY <1>2, <1>3, <1>4, <1>5

LEMMA ShortsType ==
    ASSUME dir \in Dirs, NEW m \in Nat, m <= dir.short.count
    PROVE  /\ Shorts(m) \in Seq(Places) /\ Len(Shorts(m)) = m
           /\ \A k \in 1..m : Shorts(m)[k] = <<Inline, ShortPlaces[k]>>
<1>1. \A k \in 1..m : <<Inline, ShortPlaces[k]>> \in Places
  <2> SUFFICES ASSUME NEW k \in 1..m PROVE <<Inline, ShortPlaces[k]>> \in Places
    OBVIOUS
  <2>1. dir.short.count \in Nat /\ \A j \in 1..(dir.short.count + 1) : ShortPlaces[j] \in Nat
    BY ShortFacts
  <2>2. k \in 1..(dir.short.count + 1)
    BY <2>1
  <2> QED
    BY <2>1, <2>2 DEF Places
<1> QED
  BY <1>1 DEF Shorts

LEMMA ShortsPrefix ==
    ASSUME dir \in Dirs, NEW m \in Nat, m <= dir.short.count
    PROVE  IsPrefix(Shorts(m), Shorts(dir.short.count))
<1> DEFINE c == dir.short.count
           s == Shorts(m)
           t == Shorts(c)
           r == [i \in 1..(c - m) |-> t[m + i]]
<1>1. c \in Nat
  BY ShortFacts
<1>2. /\ s \in Seq(Places) /\ Len(s) = m
      /\ \A k \in 1..m : s[k] = <<Inline, ShortPlaces[k]>>
  BY ShortsType
<1>3. /\ t \in Seq(Places) /\ Len(t) = c
      /\ \A k \in 1..c : t[k] = <<Inline, ShortPlaces[k]>>
  <2>1. c <= dir.short.count
    BY <1>1
  <2> QED
    BY <1>1, <2>1, ShortsType
<1>4. m <= c
  OBVIOUS
<1> HIDE DEF c, s, t
<1>5. \A i \in 1..(c - m) : t[m + i] \in Places
  <2>1. \A i \in 1..(c - m) : m + i \in 1..c
    BY <1>1, <1>4
  <2> QED
    BY <1>3, <2>1, ElementOfSeq
<1>6. r \in Seq(Places) /\ Len(r) = c - m
  BY <1>1, <1>4, <1>5
<1> HIDE DEF r
<1>7. s \o r \in Seq(Places) /\ Len(s \o r) = c
  <2>1. s \o r \in Seq(Places) /\ Len(s \o r) = Len(s) + Len(r)
    BY ONLY <1>2, <1>6, ConcatProperties
  <2> QED
    BY <1>1, <1>2, <1>6, <2>1
<1>8. \A k \in 1..c : (s \o r)[k] = t[k]
  <2> SUFFICES ASSUME NEW k \in 1..c PROVE (s \o r)[k] = t[k]
    OBVIOUS
  <2>1. CASE k <= m
    <3>1. k \in 1..m /\ k \in 1..Len(s)
      BY <1>1, <1>2, <2>1
    <3>2. (s \o r)[k] = s[k]
      BY ONLY <1>2, <1>6, <3>1, ConcatProperties
    <3> QED
      BY <1>2, <1>3, <3>1, <3>2
  <2>2. CASE k > m
    <3>1. (s \o r)[k] = r[k - m] /\ k - m \in 1..(c - m) /\ m + (k - m) = k
      <4>1. k \in (m + 1)..c /\ c \in Nat /\ k - m \in 1..(c - m) /\ m + (k - m) = k
            /\ k > Len(s) /\ k <= Len(s) + Len(r) /\ k - Len(s) = k - m /\ k \in Int
        BY <1>1, <1>2, <1>6, <2>2
      <4>2. (s \o r)[k] = r[k - Len(s)]
        BY ONLY <1>2, <1>6, <4>1, ConcatProperties
      <4> QED
        BY <4>1, <4>2
    <3>2. r[k - m] = t[m + (k - m)]
      BY <3>1 DEF r
    <3> QED
      BY <3>1, <3>2
  <2>3. k <= m \/ k > m
    BY ONLY <1>1, m \in Nat, k \in 1..c
  <2> QED
    BY <2>1, <2>2, <2>3
<1>9. t = s \o r
  BY <1>3, <1>7, <1>8, SeqEqual
<1>10. IsPrefix(s, s \o r)
  BY <1>2, <1>6, PrefixOfConcat
<1> QED
  BY <1>9, <1>10 DEF s, t, c

LEMMA ListingType ==
    ASSUME dir \in Dirs, SoundDir
    PROVE  Listing \in Seq(Places)
<1>1. CASE dir.format = "Local"
  <2>1. dir.short.count \in Nat /\ dir.short.count <= dir.short.count
    BY ShortFacts
  <2>2. Shorts(dir.short.count) \in Seq(Places)
    BY <2>1, ShortsType
  <2> QED
    BY <1>1, <2>2, SoundFacts
<1>2. CASE IsSingle
  <2>1. BlockZero \in 0..(ImageBlocks - 1)
        /\ Listing = Live(BlockZero, LeafArray(dir.blocks[BlockZero]))
    BY <1>2, SoundFacts
  <2> QED
    BY <2>1, LiveFacts
<1>3. CASE IsMulti
  <2>1. Listing = Rest(DirParts)[1] /\ 1 \in 1..(Len(dir.recs) + 1)
    BY <1>3, SoundFacts, DirPartsFacts, RecFacts
  <2> QED
    BY <2>1, DirPartsFacts
<1> QED
  BY <1>1, <1>2, <1>3, SoundFacts

LEMMA EmptyLeft ==
    ASSUME NEW s \in Seq(Places)
    PROVE  s \o <<>> = s /\ <<>> \o s = s
  BY ConcatEmptySeq

(* The call is refused, or a reader begins.                                *)
LEMMA StartLists ==
    ASSUME Inv, ListInv, RefuseFormat \/ RefuseBlock \/ StartShort \/ StartMulti
    PROVE  ListInv'
<1>1. /\ dir \in Dirs /\ dir' = dir /\ entries' = entries /\ next' = next /\ b' = b
      /\ next = 1 /\ b = 0 /\ entries = <<>>
  BY DEF Inv, Place, RefuseFormat, RefuseBlock, StartShort, StartMulti
<1> SUFFICES ASSUME SoundDir
             PROVE  /\ pc' # "unsupported" /\ pc' # "walk" /\ pc' # "returned"
                    /\ pc' = "short" => /\ next <= dir.short.count + 1 /\ off' = ShortPlaces[next]
                                        /\ entries = Shorts(next - 1)
                    /\ pc' = "extents" => entries \o BlocksLeft(next, b) = Listing
  BY <1>1, SameDir DEF ListInv, Shorts
<1>2. ~RefuseFormat
  BY <1>1, SoundFacts DEF RefuseFormat, IsSingle, IsMulti
<1>3. ~RefuseBlock
  BY <1>1, SoundFacts DEF RefuseBlock
<1>4. CASE StartShort
  <2>1. pc' = "short" /\ off' = 2 + InumWidth
    BY <1>4 DEF StartShort
  <2>2. dir.short.count \in Nat /\ ShortPlaces[1] = 2 + InumWidth
    BY <1>1, ShortFacts
  <2>3. Shorts(0) = <<>>
    BY DEF Shorts
  <2> QED
    BY <1>1, <2>1, <2>2, <2>3
<1>5. CASE StartMulti
  <2>1. pc' = "extents" /\ IsMulti
    BY <1>5 DEF StartMulti
  <2>2. 1 \in 1..(Len(dir.recs) + 1)
    BY <1>1, RecFacts
  <2>3. BlocksLeft(1, 0) = Rest(DirParts)[1] /\ BlocksLeft(1, 0) \in Seq(Places)
    BY <1>1, <2>2, WholeRecord
  <2>4. Rest(DirParts)[1] = FlattenSeq(DirParts) /\ Listing = FlattenSeq(DirParts)
    BY <1>1, <2>1, DirPartsFacts, SoundFacts
  <2>5. <<>> \o BlocksLeft(1, 0) = Listing
    BY <2>3, <2>4, EmptyLeft
  <2> QED
    BY <1>1, <2>1, <2>5
<1> QED
  BY <1>2, <1>3, <1>4, <1>5

(* A block whose records fill it is entered behind its header.             *)
LEMMA Entered ==
    ASSUME dir \in Dirs, NEW n \in 0..(ImageBlocks - 1), NEW limit \in Int, limit <= BlockSize,
           SoundBlock(dir.blocks[n], limit), NEW listed, NEW left,
           listed \o (Live(n, limit) \o left) = Listing
    PROVE  Walking(n, limit, HdrLen(dir.blocks[n].magic), listed, left)
<1>1. PICK stop \in Nat : Fill(PlacesOf(n, limit), stop, dir.blocks[n], limit)
  BY SoundFill
<1>2. WalkLeft(n, limit, HdrLen(dir.blocks[n].magic)) = Live(n, limit)
  BY <1>1, WalkFacts
<1>3. HdrLen(dir.blocks[n].magic) \in PlacesOf(n, limit) \cup {stop}
  <2> DEFINE P == PlacesOf(n, limit)
  <2> HIDE DEF P
  <2>1. Laid(P, stop, dir.blocks[n], limit)
    BY <1>1, PlaceFacts DEF P
  <2> QED
    BY <2>1 DEF Laid, P
<1> QED
  BY <1>1, <1>2, <1>3 DEF Walking

LEMMA StartBlockLists ==
    ASSUME Inv, ListInv, StartBlock
    PROVE  ListInv'
<1> DEFINE z == BlockZero
<1>1. /\ dir \in Dirs /\ dir' = dir /\ entries' = entries /\ entries = <<>>
      /\ pc' = "walk" /\ at' = z /\ off' = HdrLen(dir.blocks[z].magic)
      /\ end' = RegionEnd(dir.blocks[z]) /\ IsSingle
  BY DEF Inv, Place, StartBlock
<1> SUFFICES ASSUME SoundDir PROVE Walking(at', end', off', <<>>, <<>>)
  BY <1>1, SameDir DEF ListInv, Walking, Left
<1>2. /\ z \in 0..(ImageBlocks - 1)
      /\ SoundBlock(dir.blocks[z], LeafArray(dir.blocks[z]))
      /\ Listing = Live(z, LeafArray(dir.blocks[z]))
  BY <1>1, SoundFacts
<1> HIDE DEF z
<1> DEFINE block == dir.blocks[z]
           limit == LeafArray(block)
           P == PlacesOf(z, limit)
<1>3. block.leaves \in Nat /\ HdrLen(block.magic) \in {16, 64}
  BY <1>1, <1>2, ItemFacts
<1>4. limit \in Int /\ limit <= BlockSize
  <2> DEFINE l == block.leaves
  <2>1. l \in Nat /\ limit = BlockSize - 8 - 8 * l
    BY <1>3 DEF LeafArray
  <2> HIDE DEF l, limit
  <2> QED
    BY <2>1
<1>5. RegionEnd(block) = limit
  <2>1. PICK stop \in Nat : Fill(P, stop, block, limit)
    BY <1>1, <1>2, SoundFill
  <2> HIDE DEF P
  <2>2. Laid(P, stop, block, limit)
    BY <1>1, <1>2, <1>4, <2>1, PlaceFacts
  <2> DEFINE h == HdrLen(block.magic)
             l == block.leaves
  <2> HIDE DEF block, h
  <2>3. h \in Nat /\ h <= limit
    <3>1. /\ stop <= limit /\ h \in P \cup {stop}
          /\ \A o \in P : o \in Nat /\ Size(block.at[o]) \in Nat /\ o + Size(block.at[o]) <= stop
      <4>1. \A o \in P : Size(block.at[o]) \in Nat
        BY <2>2, ItemSize DEF Laid
      <4> QED
        BY <2>2, <4>1 DEF Laid, h
    <3>2. h \in {16, 64}
      BY <1>3 DEF h
    <3> HIDE DEF limit
    <3> QED
      BY <1>4, <3>1, <3>2
  <2>4. l \in Nat /\ limit = BlockSize - 8 - 8 * l
    BY <1>3 DEF LeafArray
  <2>5. RegionEnd(block) =
          LET leafStart == IF BlockSize < 8 THEN 0 ELSE LargerOf(BlockSize - 8 - l * 8, 0)
          IN  AtMost(LargerOf(leafStart, h), BlockSize)
    BY DEF RegionEnd, BLOCK_TAIL_LEN, LEAF_ENTRY_LEN, h
  <2> HIDE DEF l, limit
  <2> QED
    BY <2>3, <2>4, <2>5 DEF LargerOf, AtMost
<1>6. <<>> \o (Live(z, limit) \o <<>>) = Listing
  <2>1. Live(z, limit) \in Seq(Places)
    BY <1>1, <1>2, LiveFacts
  <2> QED
    BY <1>2, <2>1, EmptyLeft
<1>7. Walking(z, limit, HdrLen(block.magic), <<>>, <<>>)
  <2>1. SoundBlock(dir.blocks[z], limit)
    BY <1>2
  <2> HIDE DEF limit
  <2> QED
    BY <1>1, <1>2, <1>4, <1>6, <2>1, Entered
<1> QED
  BY <1>1, <1>5, <1>7

(* read_shortform_dir: one more entry, and the end behind the last.        *)
LEMMA ShortLists ==
    ASSUME Inv, ListInv, TakeShort \/ EndShort
    PROVE  ListInv'
<1>1. /\ dir \in Dirs /\ dir' = dir /\ dir.format = "Local" /\ pc = "short"
      /\ next \in Nat \ {0} /\ off \in Nat
  BY DEF Inv, TypeOK, Place, TakeShort, EndShort
<1> SUFFICES ASSUME SoundDir
             PROVE  /\ pc' \in {"short", "returned"}
                    /\ pc' = "short" => /\ next' <= dir.short.count + 1 /\ off' = ShortPlaces[next']
                                        /\ entries' = Shorts(next' - 1)
                    /\ pc' = "returned" => entries' = Listing
  BY <1>1, SameDir DEF ListInv, Shorts
<1> DEFINE c == dir.short.count
<1>2. /\ next <= c + 1 /\ off = ShortPlaces[next] /\ entries = Shorts(next - 1)
  BY <1>1 DEF ListInv
<1>3. /\ c \in Nat /\ dir.short.len \in Nat
      /\ \A k \in 1..c : /\ ShortSize(k) = 3 + dir.short.namelens[k] + FtypeLen + InumWidth
                         /\ ShortSize(k) \in Nat
                         /\ ShortPlaces[k + 1] = ShortPlaces[k] + ShortSize(k)
  BY <1>1, ShortFacts
<1>4. Listing = Shorts(c) /\ \A k \in 1..(c + 1) : ShortPlaces[k] <= dir.short.len
  BY <1>1, SoundFacts
<1> HIDE DEF c
<1>5. ASSUME next <= c PROVE ShortEnd = ShortPlaces[next + 1] /\ ShortEnd <= dir.short.len
  <2>1. next \in 1..c /\ next + 1 \in 1..(c + 1)
    BY <1>1, <1>3, <1>5
  <2>2. /\ ShortSize(next) = 3 + dir.short.namelens[next] + FtypeLen + InumWidth
        /\ ShortSize(next) \in Nat /\ ShortPlaces[next + 1] = off + ShortSize(next)
    BY <1>2, <1>3, <2>1
  <2> DEFINE s == dir.short.namelens[next]
  <2>3. s \in Nat /\ FtypeLen \in {0, 1} /\ InumWidth \in {4, 8}
    <3>1. /\ dir.short \in [count : Nat, wide : BOOLEAN, len : Nat, namelens : Seq(Nat)]
          /\ Len(dir.short.namelens) >= dir.short.count
      BY <1>1
    <3>2. dir.short.namelens \in Seq(Nat) /\ next \in 1..Len(dir.short.namelens)
      <4>1. dir.short.namelens \in Seq(Nat)
        BY <3>1
      <4>2. Len(dir.short.namelens) \in Nat /\ Len(dir.short.namelens) >= c
        BY <3>1, <4>1 DEF c
      <4> QED
        BY <1>3, <2>1, <4>1, <4>2
    <3> QED
      BY <3>2, ElementOfSeq, LengthFacts
  <2>4. ShortEnd = off + 3 + s + FtypeLen + InumWidth
    BY DEF ShortEnd
  <2>5. ShortEnd = ShortPlaces[next + 1]
    <3> DEFINE z == ShortSize(next)
               p == ShortPlaces[next + 1]
               f == FtypeLen
               w == InumWidth
    <3>1. z = 3 + s + f + w /\ p = off + z /\ ShortEnd = off + 3 + s + f + w
          /\ off \in Nat /\ s \in Nat /\ f \in {0, 1} /\ w \in {4, 8}
      BY <1>1, <2>2, <2>3, <2>4
    <3> HIDE DEF z, p, f, w, s
    <3>2. ShortEnd = p
      BY ONLY <3>1
    <3> QED
      BY <3>2 DEF p
  <2> QED
    BY <1>4, <2>1, <2>5
<1>6. CASE TakeShort
  <2>1. /\ pc' = "short" /\ next <= c /\ entries' = Append(entries, <<Inline, off>>)
        /\ off' = ShortEnd /\ next' = next + 1
    BY <1>1, <1>6 DEF TakeShort, MoreShort, c
  <2>2. off' = ShortPlaces[next'] /\ next' <= c + 1 /\ next' - 1 = next
    BY <1>1, <1>3, <1>5, <2>1
  <2>3. entries' = Shorts(next)
    <3>1. /\ next - 1 \in Nat /\ next \in Nat /\ next - 1 <= c /\ (next - 1) + 1 = next
      BY <1>1, <1>3, <2>1
    <3>2. entries = [k \in 1..(next - 1) |-> <<Inline, ShortPlaces[k]>>]
      BY <1>2 DEF Shorts
    <3>3. entries \in Seq(Places) /\ Len(entries) = next - 1
      BY <1>1, <1>2, <3>1, ShortsType DEF c
    <3>4. Append(entries, <<Inline, off>>) =
             [k \in 1..next |-> IF k = next THEN <<Inline, off>> ELSE entries[k]]
      BY ONLY <3>1, <3>3
    <3>5. \A k \in 1..next : (IF k = next THEN <<Inline, off>> ELSE entries[k])
                               = <<Inline, ShortPlaces[k]>>
      <4> SUFFICES ASSUME NEW k \in 1..next
                   PROVE  (IF k = next THEN <<Inline, off>> ELSE entries[k])
                             = <<Inline, ShortPlaces[k]>>
        OBVIOUS
      <4>1. CASE k = next
        BY <1>2, <4>1
      <4>2. CASE k # next
        <5>1. k \in 1..(next - 1)
          BY <3>1, <4>2
        <5> QED
          BY <3>2, <4>2, <5>1
      <4> QED
        BY <4>1, <4>2
    <3> QED
      BY <2>1, <3>4, <3>5 DEF Shorts
  <2> QED
    BY <2>1, <2>2, <2>3 DEF c
<1>7. CASE EndShort
  <2>1. pc' = "returned" /\ entries' = entries /\ ~(next <= c /\ ShortEnd <= dir.short.len)
    BY <1>7 DEF EndShort, MoreShort, c
  <2>2. ~(next <= c)
    BY <1>5, <2>1
  <2>3. next - 1 = c
    <3>1. next \in Nat \ {0} /\ next <= c + 1 /\ c \in Nat
      BY <1>1, <1>2, <1>3
    <3> QED
      BY ONLY <2>2, <3>1
  <2> QED
    BY <1>2, <1>4, <2>1, <2>3
<1> QED
  BY <1>6, <1>7

(* read_multiblock_dir passes over a record or a block.                    *)
LEMMA SkipLists ==
    ASSUME Inv, ListInv, NextExtent \/ SkipBlock \/ EndExtents
    PROVE  ListInv'
<1>1. /\ dir \in Dirs /\ dir' = dir /\ entries' = entries /\ pc = "extents" /\ IsMulti
      /\ next \in Nat \ {0} /\ b \in Nat /\ entries \in Seq(Places)
  BY DEF Inv, TypeOK, Place, Places, NextExtent, SkipBlock, EndExtents, InExtent, InExtents
<1> SUFFICES ASSUME SoundDir
             PROVE  /\ pc' \in {"extents", "returned"}
                    /\ pc' = "extents" => entries \o BlocksLeft(next', b') = Listing
                    /\ pc' = "returned" => entries = Listing
  BY <1>1, SameDir DEF ListInv
<1>2. entries \o BlocksLeft(next, b) = Listing
  BY <1>1 DEF ListInv
<1>3. CASE NextExtent
  <2>1. /\ pc' = "extents" /\ next <= Len(dir.recs) /\ next' = next + 1 /\ b' = 0
        /\ dir.recs[next].startoff >= LeafBoundary \/ b = dir.recs[next].blockcount
    BY <1>1, <1>3 DEF NextExtent, InExtents, IsIndex
  <2>2. next \in 1..Len(dir.recs)
    BY <1>1, <2>1, RecFacts
  <2>3. BlocksLeft(next, b) = BlocksLeft(next + 1, 0)
    BY <1>1, <2>1, <2>2, RecordDone
  <2> QED
    BY <1>2, <2>1, <2>3
<1>4. CASE SkipBlock
  <2>1. /\ pc' = "extents" /\ next <= Len(dir.recs) /\ next' = next /\ b' = b + 1
        /\ ~(dir.recs[next].startoff >= LeafBoundary) /\ b < dir.recs[next].blockcount
        /\ ~IsData(BlockOf(Fsblock)) /\ Fsblock = dir.recs[next].startblock + b
    BY <1>1, <1>4 DEF SkipBlock, InExtent, InExtents, IsIndex, Fsblock
  <2>2. next \in 1..Len(dir.recs)
    BY <1>1, <2>1, RecFacts
  <2>3. /\ BlocksLeft(next, b) = BlockPart(Fsblock) \o BlocksLeft(next, b + 1)
        /\ BlocksLeft(next, b + 1) \in Seq(Places)
    BY <1>1, <2>1, <2>2, BlockNext
  <2>4. Fsblock \notin DataBlocks
    BY <2>1 DEF DataBlocks, BlockOf, IsData
  <2>5. BlockPart(Fsblock) = <<>>
    BY <2>4 DEF BlockPart
  <2>6. BlocksLeft(next, b) = BlocksLeft(next, b + 1)
    BY <2>3, <2>5, EmptyLeft
  <2> QED
    BY <1>2, <2>1, <2>6
<1>5. CASE EndExtents
  <2>1. pc' = "returned" /\ BlocksLeft(next, b) = <<>>
    BY <1>5 DEF EndExtents, BlocksLeft
  <2> QED
    BY <1>1, <1>2, <2>1, EmptyLeft
<1> QED
  BY <1>3, <1>4, <1>5

(* In a block the invariant asks for its walk, and nothing else.           *)
LEMMA StayWalking ==
    ASSUME dir' = dir, pc' = "walk",
           SoundDir => Walking(at', end', off', entries', Left(next', b'))
    PROVE  ListInv'
<1>1. Left(next, b)' = Left(next', b')
  BY SameDir DEF Left
<1>2. SoundDir => Walking(at, end, off, entries, Left(next, b))'
  BY <1>1, SameDir DEF Walking
<1> QED
  BY <1>2, SameDir DEF ListInv

LEMMA EnterLists ==
    ASSUME Inv, ListInv, EnterBlock
    PROVE  ListInv'
<1> DEFINE f == Fsblock
<1>1. /\ dir \in Dirs /\ dir' = dir /\ entries' = entries /\ pc = "extents" /\ IsMulti
      /\ next \in Nat \ {0} /\ b \in Nat /\ next <= Len(dir.recs)
      /\ ~(dir.recs[next].startoff >= LeafBoundary) /\ b < dir.recs[next].blockcount
      /\ IsData(BlockOf(f)) /\ f = dir.recs[next].startblock + b
      /\ pc' = "walk" /\ at' = f /\ off' = HdrLen(dir.blocks[f].magic) /\ end' = BlockSize
      /\ b' = b + 1 /\ next' = next
  BY DEF Inv, TypeOK, Place, EnterBlock, InExtent, InExtents, IsIndex, Fsblock
<1> SUFFICES ASSUME SoundDir
             PROVE  Walking(at', end', off', entries, BlocksLeft(next, b + 1))
  <2>1. SoundDir => ~IsSingle
    BY <1>1, SoundFacts
  <2>2. SoundDir => Left(next', b') = BlocksLeft(next, b + 1)
    <3> HIDE DEF f
    <3> QED
      BY <1>1, <2>1 DEF Left
  <2>3. SoundDir => Walking(at', end', off', entries', Left(next', b'))
    <3> HIDE DEF f
    <3> QED
      BY <1>1, <2>2
  <2> QED
    BY <1>1, <2>3, StayWalking
<1>2. entries \o BlocksLeft(next, b) = Listing
  BY <1>1 DEF ListInv
<1>3. next \in 1..Len(dir.recs) /\ dir.recs[next].startblock \in Nat
      /\ dir.recs[next].startoff \in Nat /\ dir.recs[next].blockcount \in Nat
  <2>1. next \in 1..Len(dir.recs)
    BY <1>1, RecFacts
  <2> QED
    BY <1>1, <2>1, RecFacts
<1>4. BlocksLeft(next, b) = BlockPart(f) \o BlocksLeft(next, b + 1)
  BY <1>1, <1>3, BlockNext
<1> HIDE DEF f
<1>5. f \in 0..(ImageBlocks - 1) /\ f \in DataBlocks
  <2>1. f \in 0..(ImageBlocks - 1) /\ IsData(dir.blocks[f])
    BY <1>1, InImage DEF IsData
  <2> QED
    BY <2>1 DEF DataBlocks, IsData
<1>6. BlockPart(f) = Live(f, BlockSize)
  BY <1>5 DEF BlockPart
<1>7. SoundBlock(dir.blocks[f], BlockSize)
  <2> DEFINE s == dir.recs[next].startblock
             m == dir.recs[next].blockcount
  <2>1. s \in Nat /\ m \in Nat /\ b \in Nat /\ b < m /\ f = s + b
    BY <1>1, <1>3
  <2>2. dir.recs[next].startoff < LeafBoundary
    BY <1>1, <1>3
  <2>3. \A i \in 1..m : s + i - 1 \in DataBlocks => SoundBlock(dir.blocks[s + i - 1], BlockSize)
    BY <1>1, <1>3, <2>2, SoundFacts
  <2> HIDE DEF s, m
  <2>4. b + 1 \in 1..m /\ s + (b + 1) - 1 = f
    BY ONLY <2>1
  <2> QED
    BY <1>5, <2>3, <2>4
<1>8. BlockSize \in Int /\ BlockSize <= BlockSize
  OBVIOUS
<1>9. entries \o (Live(f, BlockSize) \o BlocksLeft(next, b + 1)) = Listing
  BY <1>2, <1>4, <1>6
<1>10. Walking(f, BlockSize, HdrLen(dir.blocks[f].magic), entries, BlocksLeft(next, b + 1))
  BY <1>1, <1>5, <1>7, <1>8, <1>9, Entered
<1> QED
  BY <1>1, <1>10

(* What is left of the directory behind the cursor is a listing too. *)
LEMMA LeftType ==
    ASSUME dir \in Dirs, TypeOK
    PROVE  /\ IsMulti => BlocksLeft(next, b) \in Seq(Places)
           /\ IsSingle \/ IsMulti => Left(next, b) \in Seq(Places)
<1>1. ASSUME IsMulti PROVE BlocksLeft(next, b) \in Seq(Places)
  <2> DEFINE n == Len(dir.recs)
             m == dir.recs[next].blockcount
  <2>1. /\ n \in Nat /\ next \in Nat \ {0} /\ b \in Nat /\ next <= n + 1
        /\ next <= n => next \in 1..n /\ m \in Nat /\ b <= m
        /\ next > n => b = 0
    BY <1>1, RecFacts DEF TypeOK
  <2>2. CASE next = n + 1
    <3>1. b = 0 /\ next \in 1..(n + 1)
      <4> HIDE DEF n
      <4> QED
        BY <2>1, <2>2
    <3> QED
      BY <3>1, WholeRecord
  <2>3. CASE next <= n /\ (dir.recs[next].startoff >= LeafBoundary \/ b = m)
    <3>1. next \in 1..n /\ next + 1 \in 1..(n + 1)
      <4> HIDE DEF n
      <4> QED
        BY <2>1, <2>3
    <3>2. BlocksLeft(next, b) = BlocksLeft(next + 1, 0)
      BY <2>3, <3>1, RecordDone
    <3> QED
      BY <3>1, <3>2, WholeRecord
  <2>4. CASE next <= n /\ ~(dir.recs[next].startoff >= LeafBoundary) /\ b # m
    <3>1. next \in 1..n /\ b < m /\ b \in Nat
      <4> HIDE DEF n, m
      <4> QED
        BY <2>1, <2>4
    <3> DEFINE part == BlockPart(dir.recs[next].startblock + b)
               left == BlocksLeft(next, b + 1)
    <3>2. BlocksLeft(next, b) = part \o left /\ left \in Seq(Places)
      BY <2>4, <3>1, BlockNext
    <3>3. part \in Seq(Places)
      BY BlockPartType
    <3> HIDE DEF part, left
    <3> QED
      BY ONLY <3>2, <3>3, ConcatProperties
  <2>5. next = n + 1 \/ next <= n
    <3> HIDE DEF n
    <3> QED
      BY ONLY <2>1
  <2> QED
    BY <2>2, <2>3, <2>4, <2>5
<1>2. <<>> \in Seq(Places)
  OBVIOUS
<1> QED
  BY <1>1, <1>2 DEF Left

(* The facts of a walk in a sound directory. *)
LEMMA WalkState ==
    ASSUME Inv, pc = "walk"
    PROVE  /\ dir \in Dirs /\ at \in 0..(ImageBlocks - 1) /\ end \in Nat /\ end <= BlockSize
           /\ off \in Nat /\ entries \in Seq(Places) /\ Left(next, b) \in Seq(Places)
           /\ IsSingle \/ IsMulti
<1>1. /\ dir \in Dirs /\ TypeOK /\ (IsSingle \/ IsMulti)
      /\ at \in 0..(ImageBlocks - 1) /\ end \in Nat /\ end <= BlockSize /\ off \in Nat
      /\ entries \in Seq(Places)
  BY DEF Inv, TypeOK, Place, Places
<1> QED
  BY <1>1, LeftType

(* walk_data_entries takes one record, free or not, and goes to the next.  *)
LEMMA RecordLists ==
    ASSUME Inv, ListInv, SkipFree \/ TakeEntry
    PROVE  ListInv'
<1>1. /\ pc = "walk" /\ InRegion /\ (IsFree \/ IsEntry)
      /\ dir' = dir /\ pc' = "walk" /\ at' = at /\ end' = end /\ next' = next /\ b' = b
  BY DEF SkipFree, TakeEntry
<1>2. /\ dir \in Dirs /\ at \in 0..(ImageBlocks - 1) /\ end \in Nat /\ end <= BlockSize
      /\ off \in Nat /\ entries \in Seq(Places) /\ Left(next, b) \in Seq(Places)
  BY <1>1, WalkState
<1> DEFINE left == Left(next, b)
           P == PlacesOf(at, end)
           block == dir.blocks[at]
           item == block.at[off]
           onward == off + Size(item)
<1> SUFFICES ASSUME SoundDir PROVE Walking(at, end, off', entries', left)
  <2>1. SoundDir => Walking(at', end', off', entries', Left(next', b'))
    BY <1>1
  <2> QED
    BY <1>1, <2>1, StayWalking
<1>3. PICK stop \in Nat : /\ Fill(P, stop, block, end) /\ off \in P \cup {stop}
                          /\ entries \o (WalkLeft(at, end, off) \o left) = Listing
  BY <1>1 DEF ListInv, Walking
<1>4. /\ off \in P =>
            /\ ItemAt(block, off) = item /\ (IsFree <=> item.kind = "free")
            /\ item.kind = "free" => FreeLen(item.len) = Size(item)
            /\ item.kind # "free" => item.kind = "entry" /\ EntryLen(NameLen(block, off)) = Size(item)
      /\ off = stop => ~InRegion \/ (~IsFree /\ ~IsEntry)
  BY <1>2, <1>3, ReadFacts
<1>5. off \in P
  BY <1>1, <1>3, <1>4
<1>6. onward \in P \cup {stop}
  <2>1. Laid(P, stop, block, end)
    <3>1. end \in Int
      BY <1>2
    <3> HIDE DEF P
    <3> QED
      BY <1>2, <1>3, <3>1, PlaceFacts
  <2> HIDE DEF P, block
  <2> QED
    BY <1>5, <2>1 DEF Laid
<1> DEFINE l == WalkLeft(at, end, onward)
<1>7. /\ l \in Seq(Places)
      /\ item.kind = "free" => WalkLeft(at, end, off) = l
      /\ item.kind = "entry" => WalkLeft(at, end, off) = << <<at, off>> >> \o l
  <2>1. end \in Int
    BY <1>2
  <2>2. /\ \A o \in P \cup {stop} : WalkLeft(at, end, o) \in Seq(Places)
        /\ \A o \in P :
              /\ block.at[o].kind = "free" =>
                    WalkLeft(at, end, o) = WalkLeft(at, end, o + Size(block.at[o]))
              /\ block.at[o].kind = "entry" =>
                    WalkLeft(at, end, o) = << <<at, o>> >> \o WalkLeft(at, end, o + Size(block.at[o]))
    BY <1>2, <1>3, <2>1, WalkFacts
  <2> HIDE DEF P, block
  <2> QED
    BY <1>5, <1>6, <2>2
<1>8. CASE SkipFree
  <2>1. off' = off + FreeLen(ItemAt(block, off).len) /\ entries' = entries /\ IsFree
    BY <1>8 DEF SkipFree
  <2>2. off' = onward /\ item.kind = "free"
    BY <1>4, <1>5, <2>1
  <2>3. entries \o (l \o left) = Listing
    BY <1>3, <1>7, <2>2
  <2> QED
    BY <1>3, <1>6, <2>1, <2>2, <2>3 DEF Walking
<1>9. CASE TakeEntry
  <2> DEFINE x == <<at, off>>
  <2>1. off' = off + EntryLen(NameLen(block, off)) /\ entries' = Append(entries, x) /\ ~IsFree
    BY <1>9 DEF TakeEntry, IsEntry
  <2>2. off' = onward /\ item.kind = "entry"
    BY <1>4, <1>5, <2>1
  <2>3. entries \o ((<<x>> \o l) \o left) = Listing
    BY <1>3, <1>7, <2>2
  <2>4. x \in Places
    BY <1>2 DEF Places
  <2>5. Append(entries, x) \o (l \o left) = Listing
    <3> HIDE DEF x, l, left
    <3>1. entries \in Seq(Places) /\ <<x>> \in Seq(Places) /\ l \in Seq(Places) /\ left \in Seq(Places)
      BY <1>2, <1>7, <2>4 DEF left
    <3>2. l \o left \in Seq(Places) /\ (<<x>> \o l) \o left = <<x>> \o (l \o left)
      BY ONLY <3>1, ConcatProperties, ConcatAssociative
    <3>3. (entries \o <<x>>) \o (l \o left) = entries \o (<<x>> \o (l \o left))
      BY ONLY <3>1, <3>2, ConcatAssociative
    <3>4. Append(entries, x) = entries \o <<x>>
      BY ONLY <2>4, <3>1, AppendIsConcat
    <3> QED
      BY <2>3, <3>2, <3>3, <3>4
  <2> HIDE DEF x
  <2> QED
    BY <1>3, <1>6, <2>1, <2>2, <2>5 DEF Walking
<1> QED
  BY <1>8, <1>9

(* Behind its last record a block has nothing left. *)
LEMMA EndWalkLists ==
    ASSUME Inv, ListInv, EndWalk
    PROVE  ListInv'
<1>1. /\ pc = "walk" /\ (~InRegion \/ (~IsFree /\ ~IsEntry))
      /\ pc' = (IF IsSingle THEN "returned" ELSE "extents")
      /\ dir' = dir /\ entries' = entries /\ next' = next /\ b' = b
  BY DEF EndWalk
<1>2. /\ dir \in Dirs /\ at \in 0..(ImageBlocks - 1) /\ end \in Nat /\ end <= BlockSize
      /\ off \in Nat /\ entries \in Seq(Places) /\ Left(next, b) \in Seq(Places)
  BY <1>1, WalkState
<1> DEFINE left == Left(next, b)
           P == PlacesOf(at, end)
           block == dir.blocks[at]
           item == block.at[off]
<1> SUFFICES ASSUME SoundDir
             PROVE  /\ pc' = "extents" => entries \o BlocksLeft(next, b) = Listing
                    /\ pc' = "returned" => entries = Listing
  BY <1>1, SameDir DEF ListInv
<1>3. PICK stop \in Nat : /\ Fill(P, stop, block, end) /\ off \in P \cup {stop}
                          /\ entries \o (WalkLeft(at, end, off) \o left) = Listing
  BY <1>1 DEF ListInv, Walking
<1>4. off \in P => /\ InRegion /\ (IsFree <=> item.kind = "free")
                   /\ item.kind # "free" => IsEntry
  BY <1>2, <1>3, ReadFacts
<1>5. off = stop
  BY <1>1, <1>3, <1>4
<1>6. WalkLeft(at, end, off) = <<>>
  BY <1>2, <1>3, <1>5, WalkFacts
<1>7. entries \o left = Listing
  BY <1>2, <1>3, <1>6, EmptyLeft
<1>8. CASE IsSingle
  <2>1. pc' = "returned" /\ left = <<>>
    BY <1>1, <1>8 DEF Left
  <2> QED
    BY <1>2, <1>7, <2>1, EmptyLeft
<1>9. CASE ~IsSingle
  BY <1>1, <1>7, <1>9 DEF Left
<1> QED
  BY <1>8, <1>9

(* The invariant holds of every behaviour. *)
LEMMA ListInvHolds == Spec => [](Inv /\ ListInv)
<1>1. Init => ListInv
  BY DEF Init, ListInv
<1>2. Inv /\ ListInv /\ [Next]_vars => ListInv'
  <2> SUFFICES ASSUME Inv, ListInv, [Next]_vars PROVE ListInv'
    OBVIOUS
  <2>1. CASE RefuseFormat \/ RefuseBlock \/ StartShort \/ StartMulti
    BY <2>1, StartLists
  <2>2. CASE StartBlock
    BY <2>2, StartBlockLists
  <2>3. CASE TakeShort \/ EndShort
    BY <2>3, ShortLists
  <2>4. CASE NextExtent \/ SkipBlock \/ EndExtents
    BY <2>4, SkipLists
  <2>5. CASE EnterBlock
    BY <2>5, EnterLists
  <2>6. CASE SkipFree \/ TakeEntry
    BY <2>6, RecordLists
  <2>7. CASE EndWalk
    BY <2>7, EndWalkLists
  <2>8. CASE UNCHANGED vars
    <3>1. /\ dir' = dir /\ pc' = pc /\ next' = next /\ b' = b /\ at' = at /\ end' = end
          /\ off' = off /\ entries' = entries
      BY <2>8 DEF vars
    <3>2. /\ Left(next, b)' = Left(next, b) /\ Shorts(next - 1)' = Shorts(next - 1)
          /\ BlocksLeft(next, b)' = BlocksLeft(next, b)
      BY <3>1, SameDir DEF Left, Shorts
    <3>3. Walking(at, end, off, entries, Left(next, b))
             => Walking(at, end, off, entries, Left(next, b))'
      BY <3>1, <3>2, SameDir DEF Walking
    <3> QED
      BY <3>1, <3>2, <3>3, SameDir DEF ListInv
  <2> QED
    BY <2>1, <2>2, <2>3, <2>4, <2>5, <2>6, <2>7, <2>8 DEF Next
<1> QED
  BY <1>1, <1>2, InvHolds, PTL DEF Spec

(* A sound directory of any format is listed exactly: every entry once and *)
(* in the order of the map, and it is not refused, for every block size,   *)
(* image and map (dir.rs:379-391).                                         *)
THEOREM DirectoryAlwaysListed == Spec => []ListsTheDirectory
<1>1. Inv /\ ListInv => ListsTheDirectory
  <2> SUFFICES ASSUME Inv, ListInv, SoundDir
               PROVE  /\ IsPrefix(entries, Listing)
                      /\ Returned => pc = "returned" /\ entries = Listing
    BY DEF ListsTheDirectory
  <2>1. dir \in Dirs /\ TypeOK /\ entries \in Seq(Places) /\ Listing \in Seq(Places)
    BY ListingType DEF Inv, TypeOK, Places
  <2>2. pc \in {"called", "short", "extents", "walk", "returned"}
    BY <2>1 DEF ListInv, TypeOK
  <2>3. Returned => pc = "returned" /\ entries = Listing
    BY <2>2 DEF ListInv, Returned
  <2> SUFFICES IsPrefix(entries, Listing)
    BY <2>3
  <2>4. ASSUME NEW s \in Seq(Places), entries \o s = Listing PROVE IsPrefix(entries, Listing)
    <3>1. IsPrefix(entries, entries \o s)
      BY <2>1, <2>4, PrefixOfConcat
    <3> QED
      BY <2>4, <3>1
  <2>5. CASE pc = "called"
    <3>1. entries \o Listing = Listing
      BY <2>1, <2>5, EmptyLeft DEF Inv, Place
    <3> QED
      BY <2>1, <2>4, <3>1
  <2>6. CASE pc = "short"
    <3>1. dir.format = "Local" /\ next \in Nat \ {0} /\ next <= dir.short.count + 1
          /\ entries = Shorts(next - 1) /\ dir.short.count \in Nat
      BY <2>1, <2>6, ShortFacts DEF Inv, Place, TypeOK, ListInv
    <3>2. next - 1 \in Nat /\ next - 1 <= dir.short.count
      <4> DEFINE c == dir.short.count
      <4> HIDE DEF c
      <4>1. next \in Nat \ {0} /\ c \in Nat /\ next <= c + 1
        BY <3>1 DEF c
      <4>2. next - 1 \in Nat /\ next - 1 <= c
        BY ONLY <4>1
      <4> QED
        BY <4>2 DEF c
    <3>3. Listing = Shorts(dir.short.count)
      BY <2>1, <3>1, SoundFacts
    <3>4. IsPrefix(Shorts(next - 1), Shorts(dir.short.count))
      BY <2>1, <3>2, ShortsPrefix
    <3> QED
      BY <3>1, <3>3, <3>4
  <2>7. CASE pc = "extents"
    <3>1. entries \o BlocksLeft(next, b) = Listing /\ IsMulti
      BY <2>7 DEF ListInv, Inv, Place
    <3>2. BlocksLeft(next, b) \in Seq(Places)
      BY <2>1, <3>1, LeftType
    <3> QED
      BY <2>4, <3>1, <3>2
  <2>8. CASE pc = "walk"
    <3> DEFINE left == Left(next, b)
               l == WalkLeft(at, end, off)
    <3>1. /\ at \in 0..(ImageBlocks - 1) /\ end \in Int /\ end <= BlockSize /\ left \in Seq(Places)
      BY <2>8, WalkState
    <3>2. PICK stop \in Nat : /\ Fill(PlacesOf(at, end), stop, dir.blocks[at], end)
                              /\ off \in PlacesOf(at, end) \cup {stop}
                              /\ entries \o (l \o left) = Listing
      BY <2>8 DEF ListInv, Walking
    <3>3. l \in Seq(Places)
      BY <2>1, <3>1, <3>2, WalkFacts
    <3> HIDE DEF left, l
    <3>4. l \o left \in Seq(Places)
      BY ONLY <3>1, <3>3, ConcatProperties
    <3> QED
      BY <2>4, <3>2, <3>4
  <2>9. CASE pc = "returned"
    <3>1. entries = Listing /\ Listing \o <<>> = Listing /\ <<>> \in Seq(Places)
      BY <2>1, <2>9, EmptyLeft DEF ListInv
    <3> QED
      BY <2>4, <3>1
  <2> QED
    BY <2>2, <2>5, <2>6, <2>7, <2>8, <2>9
<1> QED
  BY <1>1, ListInvHolds, PTL
=============================================================================
