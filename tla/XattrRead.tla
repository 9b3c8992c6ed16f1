----------------------------- MODULE XattrRead -----------------------------
(***************************************************************************)
(* list_xattrs: the extended attributes of an inode, short-form, in leaf   *)
(* blocks, or with their values in blocks of their own                     *)
(* (src/core/src/xattr.rs).                                                *)
(*                                                                         *)
(* Names and values are named by where their bytes lie: a piece is a run   *)
(* of bytes of a block, or, with the block Inline, of the attribute fork.  *)
(* Offsets and lengths are in bytes.                                       *)
(***************************************************************************)
EXTENDS Integers, Sequences, FiniteSets, SequencesExt

CONSTANTS
    BlockSize,      \* sb_blocksize
    ImageBlocks,    \* whole blocks in the image
    MAX_VALUE_LEN,
    Inodes          \* the inodes, with their image, that are listed

Inline == -1
SHORT_HDR_LEN == 4
LEAF_HDR_LEN == 80
LEAF_HDR_LEN_V4 == 32
LEAF_ENTRY_LEN == 8
RMT_HDR_LEN == 56

Flag == {"LOCAL", "ROOT", "SECURE", "INCOMPLETE"}
Piece == [block : {Inline} \cup Nat, off : Nat, len : Nat]

(* What the bytes at an offset of a block say, read as a local and as a    *)
(* remote name record.                                                     *)
Name == [local : [valuelen : Nat, namelen : Nat],
         remote : [valueblk : Nat, valuelen : Nat, namelen : Nat]]
ZeroName == [local |-> [valuelen |-> 0, namelen |-> 0],
             remote |-> [valueblk |-> 0, valuelen |-> 0, namelen |-> 0]]
Entry == [nameidx : Nat, flags : SUBSET Flag]

(* A block: the leaf its magic makes it, if any, whether it begins with    *)
(* XARM, the count and entries of a leaf, and its name records.            *)
Leaves == {"v5", "v4", "none"}
Offsets == 0..(BlockSize - 1)
Block == [leaf : Leaves, rmt : BOOLEAN, count : Nat, entries : Seq(Entry),
          at : UNION {[S -> Name] : S \in SUBSET Offsets}]

Rec == [startoff : Nat, startblock : Nat, blockcount : Nat]

ShortEntry == [namelen : Nat, valuelen : Nat, flags : SUBSET Flag]

(* `litlen' is the length of the literal area, data fork and attribute     *)
(* fork together; `short' and `recs' are what the attribute fork says, read *)
(* as a short form (behind its header) and as extent records.              *)
Inode == [litlen : Nat, forkoff : Nat, aformat : Nat, aextents : Nat,
          short : [count : Nat, items : Seq(ShortEntry)],
          recs : Seq(Rec), blocks : [0..(ImageBlocks - 1) -> Block]]

ASSUME ConstantsAssumption ==
    /\ BlockSize \in Nat \ {0} /\ ImageBlocks \in Nat \ {0} /\ MAX_VALUE_LEN \in Nat
(* i \in Inode, part by part. *)
ASSUME InodesAssumption ==
    \A i \in Inodes :
        /\ i.litlen \in Nat /\ i.forkoff \in Nat /\ i.aformat \in Nat /\ i.aextents \in Nat
        /\ i.recs \in Seq(Rec)
        /\ i.short.count \in Nat /\ i.short.items \in Seq(ShortEntry)
        /\ Len(i.short.items) >= i.short.count
        /\ DOMAIN i.blocks = 0..(ImageBlocks - 1)
        /\ \A n \in DOMAIN i.blocks :
              /\ i.blocks[n].leaf \in Leaves /\ i.blocks[n].rmt \in BOOLEAN
              /\ i.blocks[n].count \in Nat /\ i.blocks[n].entries \in Seq(Entry)
              /\ DOMAIN i.blocks[n].at \subseteq Offsets
              /\ \A o \in DOMAIN i.blocks[n].at : i.blocks[n].at[o] \in Name

VARIABLES
    inode,          \* the inode
    pc,             \* "called", "short", "extents", "leaf", "value", "returned", "unsupported"
    next, b,        \* the record, and the block in it, that comes next
    at, entry,      \* the leaf block, and the entry of it that comes next
    off,            \* the offset of the next short-form entry
    logical, value, have,  \* the value read: next logical block, pieces, bytes
    out             \* the attributes listed so far
vars == <<inode, pc, next, b, at, entry, off, logical, value, have, out>>
-----------------------------------------------------------------------------
LargerOf(m, n) == IF m >= n THEN m ELSE n
AtMost(n, cap) == IF n <= cap THEN n ELSE cap

AttrForkLen == LargerOf(inode.litlen - 8 * inode.forkoff, 0)
(* read_extents on the attribute fork. *)
Recs == SubSeq(inode.recs, 1, AtMost(inode.aextents, AtMost(Len(inode.recs), AttrForkLen \div 16)))

FromFlags(flags) ==
    CASE "ROOT" \in flags                          -> "trusted"
      [] "ROOT" \notin flags /\ "SECURE" \in flags -> "security"
      [] OTHER                                     -> "user"

Xattr(name, flags, val, storage) ==
    [name |-> name, namespace |-> FromFlags(flags), value |-> val, storage |-> storage,
     incomplete |-> "INCOMPLETE" \in flags]
P(block, offset, len) == [block |-> block, off |-> offset, len |-> len]

InImage(n) == n \in 0..(ImageBlocks - 1)
IsLeaf(n) == InImage(n) /\ inode.blocks[n].leaf # "none"

Leaf == inode.blocks[at]
V5 == Leaf.leaf = "v5"
HdrLen == IF V5 THEN LEAF_HDR_LEN ELSE LEAF_HDR_LEN_V4
EntryCountMut == Leaf.count  \* mutant: a hostile count is believed
EntryCount == AtMost(Leaf.count, LargerOf(BlockSize - HdrLen, 0) \div LEAF_ENTRY_LEN)
Cur == IF entry <= Len(Leaf.entries) THEN Leaf.entries[entry] ELSE [nameidx |-> 0, flags |-> {}]
NameAt(block, o) == IF o \in DOMAIN block.at THEN block.at[o] ELSE ZeroName
Local == NameAt(Leaf, Cur.nameidx).local
Remote == NameAt(Leaf, Cur.nameidx).remote

(* map_logical: the first record of the fork that holds a logical block.   *)
MapsMut(rec, l) == rec.startoff <= l /\ l <= rec.startoff + rec.blockcount  \* mutant: one too far
Maps(rec, l) == rec.startoff <= l /\ l < rec.startoff + rec.blockcount
Mapped(l) == \E k \in 1..Len(Recs) : Maps(Recs[k], l)
MapLogical(l) ==
    LET k == CHOOSE j \in 1..Len(Recs) : Maps(Recs[j], l) /\ \A m \in 1..(j - 1) : ~Maps(Recs[m], l)
    IN  Recs[k].startblock + (l - Recs[k].startoff)
-----------------------------------------------------------------------------
NoAttributes ==
    /\ pc = "called"
    /\ inode.forkoff = 0 \/ inode.aformat = 0
    /\ pc' = "returned"
    /\ UNCHANGED <<inode, next, b, at, entry, off, logical, value, have, out>>

RefuseFormat ==
    /\ pc = "called"
    /\ inode.forkoff # 0 /\ inode.aformat \notin 0..2
    /\ pc' = "unsupported"
    /\ UNCHANGED <<inode, next, b, at, entry, off, logical, value, have, out>>

StartShort ==
    /\ pc = "called"
    /\ inode.forkoff # 0 /\ inode.aformat = 1
    /\ pc' = IF AttrForkLen < SHORT_HDR_LEN THEN "returned" ELSE "short"
    /\ off' = SHORT_HDR_LEN
    /\ UNCHANGED <<inode, next, b, at, entry, logical, value, have, out>>

StartLeafFork ==
    /\ pc = "called"
    /\ inode.forkoff # 0 /\ inode.aformat = 2
    /\ pc' = "extents"
    /\ UNCHANGED <<inode, next, b, at, entry, off, logical, value, have, out>>
-----------------------------------------------------------------------------
(* parse_shortform: `entry' counts the entries. *)
ShortItem == inode.short.items[entry]
ShortEnd == off + 3 + ShortItem.namelen + ShortItem.valuelen
MoreShortMut == entry <= inode.short.count  \* mutant: the fork's end is not checked
MoreShort == entry <= inode.short.count /\ ShortEnd <= AttrForkLen

TakeShort ==
    /\ pc = "short" /\ MoreShort
    /\ out' = Append(out, Xattr(P(Inline, off + 3, ShortItem.namelen), ShortItem.flags,
                                <<P(Inline, off + 3 + ShortItem.namelen, ShortItem.valuelen)>>,
                                <<"Shortform">>))
    /\ off' = ShortEnd
    /\ entry' = entry + 1
    /\ UNCHANGED <<inode, pc, next, b, at, logical, value, have>>

(* All entries, or the fork ends inside one. *)
EndShort ==
    /\ pc = "short" /\ ~MoreShort
    /\ pc' = "returned"
    /\ UNCHANGED <<inode, next, b, at, entry, off, logical, value, have, out>>
-----------------------------------------------------------------------------
(* parse_leaf_fork: block `b' of record `next'. *)
InExtents == pc = "extents" /\ next <= Len(Recs)
Fsblock == Recs[next].startblock + b

NextExtent ==
    /\ InExtents /\ b = Recs[next].blockcount
    /\ next' = next + 1 /\ b' = 0
    /\ UNCHANGED <<inode, pc, at, entry, off, logical, value, have, out>>

(* A block outside the image, or one that is no leaf: a value's. *)
SkipBlock ==
    /\ InExtents /\ b < Recs[next].blockcount
    /\ ~IsLeaf(Fsblock)
    /\ b' = b + 1
    /\ UNCHANGED <<inode, pc, next, at, entry, off, logical, value, have, out>>

EnterLeaf ==
    /\ InExtents /\ b < Recs[next].blockcount
    /\ IsLeaf(Fsblock)
    /\ pc' = "leaf" /\ at' = Fsblock /\ entry' = 1
    /\ b' = b + 1
    /\ UNCHANGED <<inode, next, off, logical, value, have, out>>

EndExtents ==
    /\ pc = "extents" /\ next > Len(Recs)
    /\ pc' = "returned"
    /\ UNCHANGED <<inode, next, b, at, entry, off, logical, value, have, out>>
-----------------------------------------------------------------------------
(* parse_leaf_block *)
InLeaf == pc = "leaf" /\ entry <= EntryCount
IsLocal == "LOCAL" \in Cur.flags
LocalFitsMut == Cur.nameidx + 3 + Local.namelen <= BlockSize  \* mutant: the value is not checked
LocalFits == Cur.nameidx + 3 + Local.namelen + Local.valuelen <= BlockSize
RemoteFits == Cur.nameidx + 9 + Remote.namelen <= BlockSize

SkipEntryMut ==  \* mutant: the loop goes on with the same entry
    /\ InLeaf
    /\ IF IsLocal THEN ~LocalFits ELSE ~RemoteFits
    /\ UNCHANGED vars
(* A name, or a local value, that runs past the block. *)
SkipEntry ==
    /\ InLeaf
    /\ IF IsLocal THEN ~LocalFits ELSE ~RemoteFits
    /\ entry' = entry + 1
    /\ UNCHANGED <<inode, pc, next, b, at, off, logical, value, have, out>>

TakeLocal ==
    /\ InLeaf /\ IsLocal /\ LocalFits
    /\ out' = Append(out, Xattr(P(at, Cur.nameidx + 3, Local.namelen), Cur.flags,
                                <<P(at, Cur.nameidx + 3 + Local.namelen, Local.valuelen)>>,
                                <<"LeafLocal">>))
    /\ entry' = entry + 1
    /\ UNCHANGED <<inode, pc, next, b, at, off, logical, value, have>>

BeginValue ==
    /\ InLeaf /\ ~IsLocal /\ RemoteFits
    /\ pc' = "value"
    /\ logical' = Remote.valueblk /\ value' = <<>> /\ have' = 0
    /\ UNCHANGED <<inode, next, b, at, entry, off, out>>

EndLeaf ==
    /\ pc = "leaf" /\ entry > EntryCount
    /\ pc' = "extents"
    /\ UNCHANGED <<inode, next, b, at, entry, off, logical, value, have, out>>
-----------------------------------------------------------------------------
(* read_remote_value *)
BodyOff == IF V5 THEN RMT_HDR_LEN ELSE 0
Payload == LargerOf(BlockSize - BodyOff, 0)
IsValueBlock(n) == InImage(n) /\ (V5 => inode.blocks[n].rmt)
MoreValueMut ==  \* mutant: a value block is not checked
    /\ Remote.valuelen <= MAX_VALUE_LEN /\ Payload > 0
    /\ have < Remote.valuelen
    /\ Mapped(logical) /\ InImage(MapLogical(logical))
MoreValue ==
    /\ Remote.valuelen <= MAX_VALUE_LEN /\ Payload > 0
    /\ have < Remote.valuelen
    /\ Mapped(logical) /\ IsValueBlock(MapLogical(logical))

ReadValueBlock ==
    /\ pc = "value" /\ MoreValue
    /\ LET want == AtMost(Remote.valuelen - have, Payload)
       IN  /\ value' = Append(value, P(MapLogical(logical), BodyOff, want))
           /\ have' = have + want
    /\ logical' = logical + 1
    /\ UNCHANGED <<inode, pc, next, b, at, entry, off, out>>

(* The value is whole, too large, or its next block cannot be read. *)
EndValue ==
    /\ pc = "value" /\ ~MoreValue
    /\ out' = Append(out, Xattr(P(at, Cur.nameidx + 9, Remote.namelen), Cur.flags, value,
                                <<"LeafRemote", Remote.valueblk>>))
    /\ pc' = "leaf" /\ entry' = entry + 1
    /\ UNCHANGED <<inode, next, b, at, off, logical, value, have>>
-----------------------------------------------------------------------------
Init ==
    /\ inode \in Inodes
    /\ pc = "called"
    /\ next = 1 /\ b = 0
    /\ at = 0 /\ entry = 1 /\ off = 0
    /\ logical = 0 /\ value = <<>> /\ have = 0
    /\ out = <<>>

Next ==
    \/ NoAttributes \/ RefuseFormat
    \/ StartShort \/ TakeShort \/ EndShort
    \/ StartLeafFork \/ NextExtent \/ SkipBlock \/ EnterLeaf \/ EndExtents
    \/ SkipEntry \/ TakeLocal \/ BeginValue \/ EndLeaf
    \/ ReadValueBlock \/ EndValue

Spec == Init /\ [][Next]_vars
(* One synchronous call: nothing else can stop it from going on. *)
FairSpec == Spec /\ WF_vars(Next)
-----------------------------------------------------------------------------
Returned == pc \in {"returned", "unsupported"}

TypeOK ==
    /\ pc \in {"called", "short", "extents", "leaf", "value", "returned", "unsupported"}
    /\ next \in 1..(Len(Recs) + 1)
    /\ b \in Nat /\ (next <= Len(Recs) => b <= Recs[next].blockcount)
    /\ at \in 0..(ImageBlocks - 1)
    /\ pc \in {"leaf", "value"} => IsLeaf(at)
    /\ entry \in Nat \ {0}
    /\ off \in Nat /\ (pc = "short" => off <= AttrForkLen)
    /\ logical \in Nat
    /\ value \in Seq(Piece)
    /\ have \in 0..MAX_VALUE_LEN

(* The number of bytes in the first n pieces of a value. *)
Length(v, n) ==
    LET Sum[k \in 0..Len(v)] == IF k = 0 THEN 0 ELSE Sum[k - 1] + v[k].len
    IN  Sum[n]
End(piece) == piece.off + piece.len
ForkMaps(n) == \E k \in 1..Len(Recs) : Recs[k].startblock <= n
                                       /\ n < Recs[k].startblock + Recs[k].blockcount

(* The name record a leaf attribute was made from. *)
NameOf(attr) ==
    NameAt(inode.blocks[attr.name.block],
           attr.name.off - IF attr.storage[1] = "LeafLocal" THEN 3 ELSE 9)

(* Nothing but attributes is listed: a short-form name and value lie next  *)
(* to each other in the attribute fork, each entry right behind the one    *)
(* before, and a name of a leaf lies whole in a leaf block that the fork   *)
(* maps, as long as its record says, with its local value right behind it  *)
(* (xattr.rs:239-275 and 336-371).                                         *)
AttributesGenuine ==
    \A k \in DOMAIN out :
        LET attr == out[k]
            val == attr.value
        IN  CASE attr.storage[1] = "Shortform" ->
                   /\ attr.name.block = Inline /\ val[1].block = Inline
                   /\ attr.name.off = (IF k = 1 THEN SHORT_HDR_LEN ELSE End(out[k - 1].value[1])) + 3
                   /\ val[1].off = End(attr.name)
                   /\ End(val[1]) <= AttrForkLen
              [] attr.storage[1] = "LeafLocal" ->
                   /\ ForkMaps(attr.name.block) /\ IsLeaf(attr.name.block)
                   /\ attr.name.len = NameOf(attr).local.namelen
                   /\ val = <<P(attr.name.block, End(attr.name), NameOf(attr).local.valuelen)>>
                   /\ End(val[1]) <= BlockSize
              [] OTHER ->
                   /\ ForkMaps(attr.name.block) /\ IsLeaf(attr.name.block)
                   /\ attr.name.len = NameOf(attr).remote.namelen
                   /\ End(attr.name) <= BlockSize

(* A hostile count makes a leaf no longer: a mapping of it in the fork     *)
(* yields at most the entries that fit behind its header (xattr.rs:325-329).*)
InRun(rec, n) == n - rec.startblock \in 0..(rec.blockcount - 1)
ListingBounded ==
    \A n \in 0..(ImageBlocks - 1) :
        LET hdr == IF inode.blocks[n].leaf = "v5" THEN LEAF_HDR_LEN ELSE LEAF_HDR_LEN_V4
            visits == {k \in 1..Len(Recs) : InRun(Recs[k], n)}
            listed == {k \in 1..Len(out) : out[k].name.block = n}
        IN  LEAF_ENTRY_LEN * Cardinality(listed) <= Cardinality(visits) * LargerOf(BlockSize - hdr, 0)

(* The bytes of a remote value come from the blocks its logical numbers    *)
(* are mapped to, one after the other from valueblk on, each v5 block      *)
(* checked and without its header, all full but the last; there are never  *)
(* more of them than valuelen or MAX_VALUE_LEN, and fewer only if the      *)
(* block that would come next is unmapped, outside the image or no value   *)
(* block (xattr.rs:375-430).                                               *)
Places(l) ==
    {Recs[k].startblock + (l - Recs[k].startoff) :
        k \in {j \in 1..Len(Recs) : l - Recs[j].startoff \in 0..(Recs[j].blockcount - 1)}}
ValuesGenuine ==
    \A k \in DOMAIN out : out[k].storage[1] = "LeafRemote" =>
        LET attr == out[k]
            val == attr.value
            n == Len(val)
            rec == NameOf(attr).remote
            v5 == inode.blocks[attr.name.block].leaf = "v5"
            Readable(p) == InImage(p) /\ (v5 => inode.blocks[p].rmt)
        IN  /\ attr.storage[2] = rec.valueblk
            /\ \A j \in 1..n :
                 /\ val[j].block \in Places(rec.valueblk + j - 1) /\ Readable(val[j].block)
                 /\ val[j].off = (IF v5 THEN RMT_HDR_LEN ELSE 0)
                 /\ End(val[j]) <= BlockSize /\ (j < n => End(val[j]) = BlockSize)
            /\ Length(val, n) <= AtMost(rec.valuelen, MAX_VALUE_LEN)
            /\ Length(val, n) < rec.valuelen =>
                 \/ rec.valuelen > MAX_VALUE_LEN
                 \/ Places(rec.valueblk + n) = {}
                 \/ \E p \in Places(rec.valueblk + n) : ~Readable(p)

(* The reference.  A leaf is sound when its entries fit behind its header, *)
(* each points to a name record that ends in the block, and a value that   *)
(* is not in the record lies in value blocks, one mapped place for each    *)
(* logical block, each filled behind its own header up to the value's end. *)
IsV5(n) == inode.blocks[n].leaf = "v5"
RoomOf(n) == IF IsV5(n) THEN BlockSize - 56 ELSE BlockSize
ValueBlocks(len, room) == (len + room - 1) \div room
RecordOf(n, k) == inode.blocks[n].at[inode.blocks[n].entries[k].nameidx]
LocalEntry(n, k) == "LOCAL" \in inode.blocks[n].entries[k].flags

ValueLies(rec, n) ==
    /\ rec.valuelen <= MAX_VALUE_LEN
    /\ \A j \in 1..ValueBlocks(rec.valuelen, RoomOf(n)) :
          \E p \in 0..(ImageBlocks - 1) :
              /\ Places(rec.valueblk + j - 1) = {p}
              /\ IsV5(n) => inode.blocks[p].rmt
SoundEntry(n, k) ==
    LET block == inode.blocks[n]
        idx == block.entries[k].nameidx
        name == block.at[idx]
    IN  /\ idx \in DOMAIN block.at
        /\ LocalEntry(n, k) => idx + 3 + name.local.namelen + name.local.valuelen <= BlockSize
        /\ ~LocalEntry(n, k) => /\ idx + 9 + name.remote.namelen <= BlockSize
                                /\ ValueLies(name.remote, n)
SoundLeaf(n) ==
    LET block == inode.blocks[n]
    IN  /\ (IF IsV5(n) THEN 80 ELSE 32) + 8 * block.count <= BlockSize
        /\ block.count <= Len(block.entries)
        /\ \A k \in 1..block.count : SoundEntry(n, k)

NamespaceOf(flags) ==
    IF "ROOT" \in flags THEN "trusted" ELSE IF "SECURE" \in flags THEN "security" ELSE "user"
ValuePiece(rec, n, j) ==
    P(CHOOSE p \in Places(rec.valueblk + j - 1) : TRUE, BlockSize - RoomOf(n),
      IF j < ValueBlocks(rec.valuelen, RoomOf(n)) THEN RoomOf(n) ELSE rec.valuelen - (j - 1) * RoomOf(n))
Listed(n, k) ==
    LET e == inode.blocks[n].entries[k]
        loc == RecordOf(n, k).local
        rec == RecordOf(n, k).remote
        Common(name, val, storage) ==
            [name |-> name, namespace |-> NamespaceOf(e.flags), value |-> val,
             storage |-> storage, incomplete |-> "INCOMPLETE" \in e.flags]
    IN  IF LocalEntry(n, k)
        THEN Common(P(n, e.nameidx + 3, loc.namelen),
                    <<P(n, e.nameidx + 3 + loc.namelen, loc.valuelen)>>, <<"LeafLocal">>)
        ELSE Common(P(n, e.nameidx + 9, rec.namelen),
                    [j \in 1..ValueBlocks(rec.valuelen, RoomOf(n)) |-> ValuePiece(rec, n, j)],
                    <<"LeafRemote", rec.valueblk>>)

(* The leaves come in the order of the map; its other blocks hold values.  *)
LeafBlocks == {n \in 0..(ImageBlocks - 1) : inode.blocks[n].leaf \in {"v5", "v4"}}
LeafPart(n) ==
    IF n \in LeafBlocks THEN [k \in 1..inode.blocks[n].count |-> Listed(n, k)] ELSE <<>>
RecPart(rec) == FlattenSeq([i \in 1..rec.blockcount |-> LeafPart(rec.startblock + i - 1)])
SoundFork ==
    /\ Len(Recs) = inode.aextents
    /\ \A k \in 1..Len(Recs), n \in LeafBlocks : InRun(Recs[k], n) => SoundLeaf(n)

(* A short form is sound when its entries, end to end, fit in the fork.    *)
ShortSize(k) == 3 + inode.short.items[k].namelen + inode.short.items[k].valuelen
ShortPlaces ==
    LET Place[k \in 1..(inode.short.count + 1)] == IF k = 1 THEN 4 ELSE Place[k - 1] + ShortSize(k - 1)
    IN  Place
ShortListed(k) ==
    LET item == inode.short.items[k]
    IN  [name |-> P(Inline, ShortPlaces[k] + 3, item.namelen), namespace |-> NamespaceOf(item.flags),
         value |-> <<P(Inline, ShortPlaces[k] + 3 + item.namelen, item.valuelen)>>,
         storage |-> <<"Shortform">>, incomplete |-> "INCOMPLETE" \in item.flags]

HasFork == inode.forkoff # 0 /\ inode.aformat # 0
SoundAttrs ==
    CASE ~HasFork -> TRUE
      [] HasFork /\ inode.aformat = 1 ->
            ShortPlaces[inode.short.count + 1] <= inode.litlen - 8 * inode.forkoff
      [] HasFork /\ inode.aformat = 2 -> SoundFork
      [] OTHER -> FALSE
AttrListing ==
    CASE ~HasFork -> <<>>
      [] HasFork /\ inode.aformat = 1 -> [k \in 1..inode.short.count |-> ShortListed(k)]
      [] OTHER -> FlattenSeq([k \in 1..Len(Recs) |-> RecPart(Recs[k])])

(* A sound attribute fork is listed exactly: every attribute once, in the  *)
(* order of the map, with its namespace and its whole value, however the   *)
(* value's blocks are scattered, and an inode without a fork gives none,   *)
(* whatever its di_aformat says (xattr.rs:201-231).                        *)
ListsTheAttributes ==
    /\ SoundAttrs => /\ IsPrefix(out, AttrListing)
                     /\ Returned => pc = "returned" /\ out = AttrListing
    /\ pc = "returned" => inode.aformat \in 0..2 \/ inode.forkoff = 0

(* The listing of every inode ends: each loop has its bound, whatever      *)
(* counts, lengths and block numbers the image claims.                     *)
ListingEnds == <>Returned
=============================================================================
