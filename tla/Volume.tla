------------------------------- MODULE Volume -------------------------------
(***************************************************************************)
(* A mounted volume as its readers see it: Superblock::parse, read_inode,  *)
(* read_dir, read_file and list_xattrs put together                        *)
(* (src/core/src/superblock.rs, dir.rs, extent.rs, xattr.rs).              *)
(*                                                                         *)
(* What the loops inside these return is taken from the modules about      *)
(* them: FileMap for a file's bytes, DirRead for the entries of a       *)
(* directory, BmbtWalk for the records of a tree (here of leaves under the *)
(* root), XattrRead for the attributes.  A byte of the image is named by   *)
(* its position.                                                           *)
(***************************************************************************)
EXTENDS Geometry, InodeCore, FileMap, SequencesExt

CONSTANTS
    SB_MIN_LEN,
    LeafBoundary   \* XFS_DIR2_LEAF_OFFSET in blocks

Entry == [name : STRING, inode : Nat]

(* The literal area: extent records, those of a tree with the block their  *)
(* leaf lies in; the short-form entries and what a block's entries read as *)
(* without and with the ftype byte; the attributes, with their leaf block, *)
(* the place and length of their values, and the number of the record of   *)
(* the attribute fork that maps the leaf, or a remote value's block.       *)
Rec == [startoff : Nat, startblock : Nat, blockcount : Nat, leaf : Nat]
Attr == [storage : {"Shortform", "LeafLocal", "LeafRemote"}, leaf : Nat, at : Nat, size : Nat,
         rec : Nat, vrec : Nat]
Fork == [recs : Seq(Rec), short : [BOOLEAN -> Seq(Entry)], attrs : Seq(Attr)]
Content == [magic : {"block", "data", "none"}, entries : [BOOLEAN -> Seq(Entry)]]

(* A slot of the inode table: the fields as they lie, the literal area as  *)
(* it reads from either place.                                             *)
RawInode ==
    [magic : BOOLEAN, version : Nat, mode : Nat, format : Nat, size : Nat, flags2 : SUBSET STRING,
     be64_24 : Nat, be32_76 : Nat, be16_80 : Nat, forkoff : Nat, aformat : Nat,
     atime : Nat, mtime : Nat, ctime : Nat, crtime : Nat,
     lit : [{V2_LITINO_OFFSET, V3_LITINO_OFFSET} -> Fork]]

(* The value of an attribute lies in its inode's slot, in its leaf, or in  *)
(* one block: what XattrRead reads.                                        *)
InPlace(geo, slot, attr) ==
    CASE attr.storage = "Shortform" -> slot <= attr.at /\ attr.at + attr.size <= slot + geo.inodesize
      [] attr.storage = "LeafLocal" -> /\ attr.leaf * geo.blocksize <= attr.at
                                       /\ attr.at + attr.size <= (attr.leaf + 1) * geo.blocksize
      [] OTHER -> attr.at + attr.size <= (attr.at \div geo.blocksize + 1) * geo.blocksize

(* An image of any length, its superblock and what its slots and blocks    *)
(* hold.  Nothing says that they fit together; only blocks are not empty.  *)
AnyGeometry == [agblocks : Nat, agspan : Nat \ {0}, inopb : Nat \ {0},
                blocksize : Nat \ {0}, inodesize : Nat]
Image(v) ==
    /\ v = [sb |-> v.sb, len |-> v.len, slots |-> v.slots, blocks |-> v.blocks]
    /\ v.len \in 0..U64_MAX
    /\ v.sb.rootino \in Nat /\ v.sb.geo \in AnyGeometry
    /\ DOMAIN v.slots \subseteq Nat /\ DOMAIN v.blocks \subseteq Nat
    /\ \A n \in DOMAIN v.blocks : v.blocks[n] \in Content
    /\ \A at \in DOMAIN v.slots :
          /\ v.slots[at] \in RawInode
          /\ \A o \in {V2_LITINO_OFFSET, V3_LITINO_OFFSET} :
              \A k \in DOMAIN v.slots[at].lit[o].attrs :
                InPlace(v.sb.geo, at, v.slots[at].lit[o].attrs[k])
-----------------------------------------------------------------------------
SbParse(image) ==
    IF image.len < 4 \/ ~image.sb.magic THEN Fail("BadMagic")
    ELSE IF image.len < SB_MIN_LEN THEN Fail("Truncated")
    ELSE Ok(image.sb)

IsV5(sb) == sb.version = 5
HasFtypeMut(sb) == "FTYPE" \in sb.features_incompat  \* mutant: the v5 field on v4 too
HasFtype(sb) == IF IsV5(sb) THEN "FTYPE" \in sb.features_incompat ELSE "FTYPE" \in sb.features2
HasNrext64(sb) == IsV5(sb) /\ "NREXT64" \in sb.features_incompat

Blocksize(image) == image.sb.geo.blocksize
BlockInImageMut(image, n) == n * Blocksize(image) < image.len  \* mutant: part of it will do
BlockInImage(image, n) == (n + 1) * Blocksize(image) <= image.len

ReadInode(image, ino) ==
    LET at == InodeToLocation(image.sb.geo, ino)
    IN  IF at + image.sb.geo.inodesize > image.len THEN Fail("Truncated")
        ELSE IF at \notin DOMAIN image.slots THEN Fail("BadMagic")
        ELSE Parse(image.slots[at], HasNrext64(image.sb), image.sb.geo.inodesize)
IsDir(inode) == FromMode(inode.mode) = "Directory"
-----------------------------------------------------------------------------
(* The records of the data fork, as read_file and read_dir decode them. *)
ReadExtents(inode) ==
    SubSeq(inode.fork.recs, 1,
           IF inode.nextents <= Len(inode.fork.recs) THEN inode.nextents ELSE Len(inode.fork.recs))
When(condition, item) == IF condition THEN <<item>> ELSE <<>>
RecsOf(image, inode) ==
    CASE inode.format = "Extents" -> ReadExtents(inode)
      [] inode.format = "Btree"   ->
            FlattenSeq([k \in DOMAIN inode.fork.recs |->
                When(BlockInImage(image, inode.fork.recs[k].leaf), inode.fork.recs[k])])
      [] OTHER                    -> <<>>

(* The first byte of the file is val[1]. *)
ReadFile(image, inode) ==
    IF inode.size > image.len THEN Fail("Truncated")
    ELSE Ok([i \in 1..inode.size |->
                FileByte(Blocksize(image), image.len, inode.size, RecsOf(image, inode), i - 1)])

(* The entries of the data blocks, in the order of the map. *)
MultiblockDir(image, recs) ==
    LET Listed(n) ==
            IF BlockInImage(image, n) /\ n \in DOMAIN image.blocks /\ image.blocks[n].magic = "data"
            THEN image.blocks[n].entries[HasFtype(image.sb)] ELSE <<>>
        Run(rec) ==
            IF rec.startoff >= LeafBoundary THEN <<>>
            ELSE FlattenSeq([m \in 1..rec.blockcount |-> Listed(rec.startblock + m - 1)])
    IN  FlattenSeq([k \in DOMAIN recs |-> Run(recs[k])])

BlockDir(image, inode) ==
    LET block == ReadFile(image, inode)
        n == block.val[1] \div Blocksize(image)
    IN  CASE block.err # "none" -> block
          [] block.err = "none" /\ block.val[1] # Hole /\ n \in DOMAIN image.blocks
                /\ image.blocks[n].magic = "block" -> Ok(image.blocks[n].entries[HasFtype(image.sb)])
          [] OTHER -> Fail("UnsupportedDir")

ReadDir(image, inode) ==
    CASE inode.format = "Local" -> Ok(inode.fork.short[HasFtype(image.sb)])
      [] inode.format = "Extents" /\ inode.size = Blocksize(image) -> BlockDir(image, inode)
      [] (inode.format = "Extents" /\ inode.size # Blocksize(image)) \/ inode.format = "Btree" ->
            Ok(MultiblockDir(image, RecsOf(image, inode)))
      [] OTHER -> Fail("UnsupportedDir")

(* The values, by the positions of their bytes.  Only blocks of the first  *)
(* aextents records of the attribute fork are found: an attribute of       *)
(* another leaf is not listed, and a remote value of one block that is     *)
(* not mapped, or that the image does not hold, comes out empty.           *)
ListXattrs(image, inode) ==
    LET Mapped(rec, n) == rec <= inode.aextents /\ BlockInImage(image, n)
        Held(a) == IF inode.aformat = 1 THEN a.storage = "Shortform"
                   ELSE a.storage # "Shortform" /\ Mapped(a.rec, a.leaf)
        Listed == FlattenSeq([k \in DOMAIN inode.fork.attrs |->
                                 When(Held(inode.fork.attrs[k]), inode.fork.attrs[k])])
        Value(a) == IF a.storage = "LeafRemote" /\ ~Mapped(a.vrec, a.at \div Blocksize(image))
                    THEN <<>> ELSE [i \in 1..a.size |-> a.at + i - 1]
    IN  CASE inode.forkoff = 0 \/ inode.aformat = 0 -> Ok(<<>>)
          [] inode.forkoff # 0 /\ inode.aformat \in 1..2 ->
                Ok([k \in DOMAIN Listed |-> [storage |-> Listed[k].storage, value |-> Value(Listed[k])]])
          [] OTHER -> Fail("UnsupportedAttrFork")
=============================================================================
