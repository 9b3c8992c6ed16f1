# A verification project for xfs-forensic

TLA+ models, TLC runs and machine-checked proofs for the reader and the
forensic layer of this repository: `src/core` (crate `xfs`) and `src/forensic`
(crate `xfs-forensic`). Both are read-only parsers over an immutable byte
slice. Nothing runs concurrently, nothing is written and nothing survives a
call, so interleavings, crashes and lost messages do not occur. What is hard
here is different: **the input is arbitrary**. Every length, count, pointer,
level and number comes from an image that may be damaged, cut off or forged,
and the code promises never to panic, never to run away, never to read what it
was not asked to read, and still to return exactly the file, the listing or
the report of a sound image. The state machines below are therefore the
*loops* of the code, each step of the loop an action, started on every image of
a small but varied set.

## The system

| Component | State a call keeps | Operations | Used by |
|---|---|---|---|
| Superblock, geometry (`superblock.rs`) | none (fields of the image) | `parse`, `inode_to_location`, `read_inode`, `has_ftype`, `has_nrext64` | all |
| Inode core (`inode.rs`) | none | `parse`: fixed-offset decoding; fork = the rest of the slice | all |
| Bmap B+tree (`btree.rs`) | recursion stack, pointer budget, records | `read_btree_extents`, `walk_block`, `collect_leaf_recs` | extents, directories |
| Extent reader (`extent.rs`) | loop position, output buffer | `read_extents`, `assemble_extents`, `read_file` | directories, VFS, recovery |
| Directories (`dir.rs`) | extent, block, offset in block, entries | `read_dir` (short-form, block, leaf/node, btree), `read_by_path` | VFS |
| AG headers (`agheaders.rs`), checksums (`crc.rs`) | none | AGF, AGI, AGFL parsing; `crc_status` | audit |
| Extended attributes (`xattr.rs`) | leaf, entry, remote-value position | `list_xattrs` | VFS |
| VFS adapter (`vfs.rs`) | the image, for the handle's life | `open`, `lookup`, `read_dir`, `read_at`, `extents`, `data_streams`, `read_link` | callers |
| Audit (`forensic/lib.rs`) | group, inode slot, anomalies | `audit_image` | callers |
| Recovery (`forensic/lib.rs`) | inode slot, recovered inodes | `recover_deleted`, `decode_residual`, `offset_to_inode` | callers |

They interact by plain calls. `read_file` calls the B+tree walk for a Btree
fork and `assemble_extents` on what it returns; `read_dir` reads its single
block through `read_file` and its larger forms through the same two sources of
records; recovery carves with `assemble_extents` from records it decoded
itself; both sweeps of the forensic layer number inodes with
`offset_to_inode`, the inverse of the reader's `inode_to_location`.

What must hold, component by component: the walk of a *tree* that is none ends
and stays in memory; the walk of a sound tree returns its map in key order; the
assembled bytes are those the records map, whatever overflows; a listing has
every live entry once and nothing else; an inode number leads back to its slot;
an attribute's name and value are bytes its fork owns; the audit's report is
the damage, no more and no less; and the ways to the same fact agree: what the
adapter lists, says and reads by windows of a node is what `read_by_path` reads.

## Modules

| Module | Models | Proofs |
|---|---|---|
| `BmbtWalk` | `read_btree_extents` and everything below it | `BmbtWalkProofs` |
| `ExtentRead` | `read_file`, `read_extents`, `assemble_extents` | `ExtentReadProofs` |
| `FileMap`, `FileRead` | what a list of records means, and the reader that returns the file in one step; `ExtentRead` implements it | `ExtentReadProofs` |
| `Geometry` | `inode_to_location`, `offset_to_inode` | `RecoverProofs` |
| `DirRead` | `read_dir`, `read_multiblock_dir`, `walk_data_entries`, `read_shortform_dir` | `DirReadProofs` |
| `Recover` | `recover_deleted`; EXTENDS `Geometry`, INSTANCEs `ExtentRead` | `RecoverProofs` |
| `Audit` | `audit_image`, `push_sb_divergence`; EXTENDS `Geometry` | `AuditProofs` |
| `XattrRead` | `list_xattrs` and everything below it | `XattrReadProofs` |
| `InodeCore` | `Inode::parse`: refusals, places of fields, time stamps, file types | `VfsProofs` |
| `Volume` | `Superblock::parse`, `read_inode`, `read_dir`, `read_file`, `list_xattrs` put together; EXTENDS `Geometry`, `InodeCore`, `FileMap` | `VfsProofs` |
| `PathResolve` | `read_by_path`; EXTENDS `Volume` | `VfsProofs` |
| `Vfs` | `XfsFs` and a client of it, beside `read_by_path`; EXTENDS `PathResolve` | `VfsProofs` |

Each `...MC` module EXTENDS its component and defines the images a run starts
on. What a sound tree, directory or attribute fork *is*, and what it lists, is
said in the component, for every image, so that it can be proved of the
component and not only of a run's images. `DataLemmas` has what the proofs
share: induction, division with remainder, and the pieces of a concatenation.

**BmbtWalk.** The recursion is a stack of frames, one per active loop over a
node's pointers (`at`: the node, `next`: the loop's index). `Descend`,
`Collect` and `Skip` are the three things `walk_block` does with a pointer,
`Return` is the end of a loop, by exhaustion or by the budget. A block is its
magic, level, count and its 8-byte words, so where the pointers are looked for
(behind *maxrecs* keys) is part of the model and not assumed. A record is named
by leaf and slot.

**ExtentRead.** A byte of the image is named by its position; the buffer maps
each byte of the file to the image byte copied there, or to `Zero`. Sums and
products saturate at `USIZE_MAX`. The properties say what a map of extents
means with the integers' own arithmetic (`Covers`, `Place`, `Readable`), so
that saturation is shown to be harmless and not assumed to be.

**Geometry.** Shifts by `sb_agblklog` and `sb_inopblog` are divisions by
`agspan` and `inopb`; neither needs to be a power of two for what is proved.
`OffsetToInode` gives no number (`NoNumber`) where the code returns `None`, for
a zero divisor or a shift by 64 bits and more, and loses what the shift of the
group's number moves out of 64 bits. `FitsU64` says that this happens to no
group of an image; `Recover` assumes it of its geometry, `Audit` nothing.

**DirRead.** A block says for each offset what a record read there would be
(a free tag and length, or an entry's `namelen`); offsets and lengths are real
byte counts with the header lengths of the code, since the walk goes wrong by
single bytes (`ftype`, alignment, free lengths). An entry is named by where it
lies. For a single-block directory the block comes from `read_file`, which is
stated as what `ExtentRead` returns for one block.

**FileRead, the abstract reader.** `FileMap` says in one expression which byte
of the image is byte *i* of a file: of the records that supply it, the last
one's. `FileRead` has two steps, the refusal and the whole file. `ExtentRead`,
whose loop fills a buffer record by record with saturating sums, implements it:
while it assembles, the mapping shows its caller the state before the call, and
when it returns, the buffer. `Recover` and `Volume` rely on that promise.

**XattrRead.** A name or value is a piece of a block or of the inode, so what
the properties compare is where every byte came from. Short-form entries, leaf
entries and remote values are three loops, with the leaf's own count clamped to
what fits behind its header, and a remote value collected block by block
through the fork's records, on v5 behind a checked header. A remote value that
lies in blocks the fork maps is, for the outer loop, a leaf candidate like any
other, which is why hostile bytes are tried there too.

**InodeCore.** A field whose place depends on version or feature is named by
its place (`be64_24`, `be32_76`, `be16_80`, `lit` from either of two offsets),
so that reading it at the wrong place is a different value and not the same
one. Sixty-four-bit stamps are two words of `TWO_32`.

**Volume, PathResolve, Vfs.** Below `Vfs` the loops are taken at their promise:
a file's bytes by `FileByte`, a data block's entries by what `DirRead` lists of
it (one list for each answer of `has_ftype`), a tree's records by its leaves.
All that is above them is modelled whole. An attribute knows the record of the
attribute fork that maps its leaf and the one that maps its remote value, so
`ListXattrs` lists it only if the fork's extent count, wherever the version and
the features put that counter, reaches as far. `read_by_path` is one action per way
out of its loop. The adapter keeps nothing but the image, so its calls are
modelled in one order: open (with what the source returned, perhaps less than
its length), lookup or read_dir name by name, then meta, extents, read_link and
data_streams of the node, then windows of one stream until nothing comes. Both
run on the same volume and path, interleaved though they share nothing, so that
their results can be compared.

**Recover.** An image is its inode slots. `assemble_extents` is not modelled a
second time: `AssembleExtents` is built from `Holds` and `Place` of
`ExtentRead`, which is what `OutIsAlwaysTheFile` proves of that module. Freed
means of version 3 or more, as `inode.rs:291` reads it; the images have freed slots
of versions 2 and 4 too.

**Audit.** Units are sectors; a sector is what its magic makes it, whether its
checksum verifies, and the fields the walk looks at. Reports are built in the
code's order, and the checksum verdict absent on v4 volumes is part of it.
`ReportedOnce` says what holds of *any* image, forged geometries included:
every anomaly reported is on the image, and none is reported twice, not the
primary as a secondary nor a header as that of two groups.
`ReportsExactlyTheDamage` has a reference of its own, the structures of an
image as its primary lays it out: the groups the image begins (counted from its
length, not walked), in each the headers that have their magic (`Mirrors`,
`Agfs`, `Agis`), and the inodes in the slot to which their number leads by
`inode_to_location`, where the code asks for the number by `offset_to_inode`.
The report is the damage among these and nothing else. Where no slot has a
number (`NoneNumbered`: groups or slots of no size, a group number shifted away
whole) no inode is reported; of geometries between these and the genuine ones,
where blocks are not filled with inodes or numbers are cut to 64 bits, nothing
is said of inodes. `AuditShrinks` bounds the work: each step leaves less to do,
by a measure of the image's length, whatever the superblock claims.

## Runs

| Run | Question | Instance |
|---|---|---|
| `bmbt_walk` | ends, bounded, records genuine, collects the tree, depth on trees | 3 blocks of 104 bytes (2 entries behind a v5 header, 5 behind a v4 one), every combination of 17 block contents, 4 root forks, depth cap 2, 6 pointers |
| `bmbt_depth` | the depth cap on *every* image (violated) | same images |
| `bmbt_attr_fork` | the map of an inode that also has an attribute fork (violated) | data fork of two pairs before `di_forkoff` |
| `extent_read` | the buffer is the file at every moment | maps of up to two records, `usize` of five bits, image of 4.5 blocks |
| `extent_fsbno` | a startblock split into agno and agblock (violated) | two groups of 3 blocks, 4 block numbers each |
| `dir_read` | sound directories exact, hostile ones contained, the walk ends | 2 blocks of 112 bytes, sound and hostile record lists, every format, with and without ftype |
| `recover` | each deleted inode found once, under its number, carved exactly | 2 groups of 3 blocks, 2 inodes each, cut off in the last block; up to two inodes |
| `recover_hole` | every readable surviving extent carved (violated) | same geometry; freed inodes of a file with blocks 0 and 3, blocks 1 and 2 a hole |
| `audit` | the report is exactly the damage, no anomaly twice; each step leaves less; the audit ends | 2 groups of 4 sectors, whole or cut after 5 or 7, any combination of damage; forged groups, slots and shifts |
| `xattr` | sound forks exact, hostile ones contained and bounded, the listing ends | 4 blocks of 128 bytes, short forms, leaves of both versions with up to two attributes, remote values of up to three scattered blocks, repeated and overflowing maps |
| `vfs` | what the adapter says and reads agrees with itself, with `read_by_path` and with what was written | 2 groups of 3 blocks of 16 bytes, four inodes, four feature sets, every directory format, whole or cut off in five places; 7 paths, windows of 3 and 16 bytes |
| `audit_forged` | a forged primary is reported (violated) | `agblocks` or `agcount` of the primary edited |

**Why the bounds are enough.** The loops look at one pointer, record, offset
or slot at a time, and a step depends on the step before only through the
state shown, so what can go wrong needs few elements: a cycle needs one block,
sharing two parents, an order error two subtrees, an overlap two records, a
skipped slot a second group. Numeric edges are scaled so that they are reached:
a `usize` of five bits overflows at block 16, a `u64` of ten bits has no room for
numbers behind an `agspan` of 1024, a block holds fewer entries than
headers claim, the image ends within a block, a slot or a group. The caps
(`MAX_BMBT_LEVELS`, `MAX_BMBT_PTRS`) are small so that they are hit both during
a walk and, at the root, between two subtrees.

In `vfs` the volume is cut off in the magic, in the superblock, in the second inode,
in the third, or in the last block; one entry names an inode no
slot holds, one path goes round through the root, one through a file; stream
indices end at 2, so that attributes share one; an instant of the legacy form
has more nanoseconds than a second.

**Fairness.** `FairSpec` of `BmbtWalk`, `DirRead`, `XattrRead` and `Audit` is weak fairness
of the whole next-state relation: each call is one synchronous function that
nothing can suspend, so a step that is possible is taken. `Termination`,
`ListingEnds` (of both listings) and `AuditEnds` hold under it. `Vfs` states no
fairness: each of its calls is one step, and when a client goes on is its own
affair. Deadlock is not checked in the
runs because a call that has returned takes no step.

## Where code and documentation disagree

Five runs expect a violation; each is a statement of the repository that the
code, as modelled, does not keep.

* `bmbt_depth`: the depth guard (`btree.rs:187`) compares the level the parent
  block claims, not the recursion count that `btree.rs:176-177` names. A block
  whose level does not decrease is followed until the pointer budget is spent.
  `DepthOnTrees`, proved for every image whose levels count down, is what does
  hold.
* `bmbt_attr_fork`: `dmaxrecs` is derived from a fork that reaches to the
  inode's end; an attribute fork behind it moves the pointers.
* `extent_fsbno`: `startblock * blocksize` (`extent.rs:190`) against
  `docs/RESEARCH.md:84-85`. The same product is in `btree.rs:249`,
  `dir.rs:462`, `xattr.rs:307` and `vfs.rs:225`. They agree as long as
  `agblocks` is `2^agblklog`, and always in the first group.
* `recover_hole`: the carve is cut at the sum of block counts, but placed by
  logical offset. With blocks 0 and 3 of a file left the estimate is two blocks:
  it ends inside the hole, and the extent behind is lost although its block is
  readable. (Where the estimate is larger than the image, which takes extents
  that share blocks, `assemble_extents` refuses, and `unwrap_or_default`,
  `lib.rs:499-501`, carves nothing; `recover` has such a fork.)
* `audit_forged`: mirrors are sought where the primary puts them.

Smaller ones, without a run: the comment at `dir.rs:325-326` ends the walk at an
entry that runs past `end`, the code checks names against the block only, so in
a single-block directory an entry that begins before the leaf array may be
listed with a name taken from inside it (`EntriesGenuine` allows that);
`lib.rs:451,464` speak of v2 inodes (offset 100), the sweep asks for version 3;
`btree.rs:141` calls the budget inexhaustible at the root, but an earlier
subtree may spend it; `dir.rs:394-397` promises `Truncated` for a single-block
directory whose extent lies outside the image, where the zero-filled block is
refused as `UnsupportedDir`; `inode.rs:145` has nanoseconds below 10^9, but
`from_legacy` (`inode.rs:155`) takes any 32 bits; `vfs.rs:23-25` says that every
stream but the default one is refused, while `data_streams` offers attribute
streams and `read_at` reads them; attribute streams beyond index 65535 all get
the id of the first of them (`vfs.rs:306`); `xattr.rs:382-384` would have the
caller see a remote value cut short as a length mismatch, but `Xattr` does not
carry the length claimed.

Observations of behaviour no document speaks of: a v4 value block whose bytes
spell a leaf's magic at offset 8 is listed as a leaf; a sparse file larger than
the image is refused (`extent.rs:168`); `meta` says `Resident` of inline data
(`vfs.rs:248-253`) where `data_streams` says `NonResident` of the same data
(`vfs.rs:292`), and the default stream of an inline symlink reads as zeros where
`read_link` gives its target (`AnswersAgree` is about kind, size and the place of
a target, and silent on these two); `meta`'s `inline_len` counts the attribute
fork; `lookup` lists a file's fork as if it were a directory where
`read_by_path` stops. `AdapterAgrees` says that beside the empty path this is
their only difference: where the adapter finds a file that `read_by_path` does
not, an inode on the way (`Way`) is no directory.

## What is proved

TLAPS proves, for every value of the constants under the named assumptions
(`ConstantsAssumption` of each component, `ImagesAssumption` of `BmbtWalk`,
`InodesAssumption` of `ExtentRead` and `XattrRead`, `DirsAssumption`,
`RecoverAssumption`, `AuditAssumption`, `U64Assumption`, `InodeAssumption`,
`PathsAssumption`, `VfsAssumption`; TLC evaluates them on
the runs' instances). They bound the *types* of what an image holds: a count is a
natural number, a block has offsets below its size, an image is finite and, for
the audit, no longer than a `u64` counts. None says that an image is sound.

* **BmbtWalkProofs**: `TypeCorrect`, `RecordsAreGenuine`, `WorkIsBounded`,
  `DepthBoundedOnTrees`, from the inductive `Inv`: the type invariant and the
  safety invariants, with `FramesInv` (every loop but the root's is over a
  genuine interior block, without which a pointer could not be shown to lie
  inside the block) and `LevelsInv` (on a levelled tree the level of frame *k*
  plus *k* is the root's level plus one, which turns the guard on levels into a
  bound on the stack). `EveryStepShrinks`: each step decreases
  `2 * budget + Len(stack)`; with fairness this is why the walk ends.
  `TreeAlwaysCollected`: on a tree whose levels agree, of at most
  `MAX_BMBT_LEVELS` levels and under an inode without an attribute fork (the
  case the run `bmbt_attr_fork` refutes), what is collected is always the
  beginning of `Listing`, and all of it if the budget sufficed. `Listing` is
  defined level by level from below; the walk goes from above. `TreeInv` joins
  them: every loop on the stack has a rest of its own node's listing to come,
  and the records collected with these rests, the innermost first, are the
  listing (`Remains`). A spent budget drops the rests, so the prefix is an
  invariant of its own.
* **ExtentReadProofs**: `TypeCorrect`, `OutIsAlwaysTheFile`,
  `ReturnsTheWholeFile`. The invariant relates the buffer to the records before
  `next` (`Assembled`); one lemma (`OneMore`) adds a record to it, and
  `WindowFacts` and `HoldsFacts` show that a saturated window is the
  mathematical one whenever anything is copied. `ReaderImplementsFileRead`: the
  loop implements `FileRead`; when it ends, the last write to each byte is the
  CHOOSE of `FileByte` (`AssembledIsFileByte`), and every other step of the loop
  is a stutter. `OnlyHoldersEverWrite`, an action property: on any map, records
  that overlap or cannot be read included, a step changes exactly the bytes that
  its record holds, to what that record maps them to.
* **DirReadProofs**: `TypeCorrect`, `EntriesAreGenuine`. The entries alone are
  not inductive: `Place` adds that the block being walked is one the fork's
  records map below the leaf offset, and that the cursor of the short form has
  not left the inode. `DirectoryAlwaysListed`: a sound directory is one whose
  data blocks can be *filled* by records, `Fill`: places that begin behind the
  header, each as far from the one before as that record is long, the last at
  the end of the data or where nothing follows. Nothing is asked of
  offsets between the places, where names or old entries may look like records.
  `ListInv` says that the entries listed and what the walk has left (of the
  block, of the record's blocks, of the records) are the listing; the walk
  stays at the places of the filling (`Walking`), so that a record read is one
  of the reference's.
* **RecoverProofs**: `TypeCorrect`, `NumbersAlwaysLocate`,
  `EveryDeletedIsFound`, `CarvedIsAlwaysTheFile`. The invariant says that the
  reports are the carvings of freed slots (`Sound`), in the order of the slots
  (`Ordered`, hence each once), and that no freed slot before `off` is missing
  (`Complete`). A report knows its slot only through its inode number, so all
  three stand on `RoundTrip`: `inode_to_location` undoes `offset_to_inode`
  for every geometry whose blocks are filled with inodes, whose groups fit
  the agblock bits and whose numbers fit in 64 bits (`FitsU64`). (Both are read as the digits of a number in a mixed base,
  `Digits` and `Undigits` of `DataLemmas`.) That the carved bytes are the whole file when the
  records leave no hole needs the sums of block counts, which are recursive
  functions with lemmas of their own.
* **XattrReadProofs**: `TypeCorrect`, `AttributesAreGenuine`,
  `ValuesAreGenuine`, `ListingIsBounded`. `Place` ties the cursors to the
  entries behind them (the short form's `off` is the end of the last value, a
  leaf walked is one the fork maps), `ValueSoFar` says that a remote value under
  construction has one piece for each logical block, full but for the last.
  The bound is a count: each visit to a leaf reserves what fits behind its
  header, each attribute uses up one, and what the leaf in hand may still give
  is set apart (`Counted`). `AttributesAlwaysListed`: a sound fork is listed
  exactly. As with directories, the attributes listed and those left of the leaf,
  the record and the fork are the listing (`Exact`); while a remote value is
  read, its first *m* blocks are those the reference says (`ValueExact`), each
  taken where the fork maps its logical number, and the last one cut at the
  length claimed. `AttrsInv` adds which part of the code is reached with which
  format, so that inodes without a fork, and formats that are refused, are
  covered too.
* **AuditProofs**: `TypeCorrect`, `EveryStepShrinks`,
  `NothingIsReportedTwice`. `EveryStepShrinks`: each step lowers `Left`, which
  begins at twice the image's length and three; a group begins in the image at
  no less than its own number unless groups have no size, and that case the walk
  leaves at once. The invariant adds which anomalies can have been
  found at this point of the walk (`Found`): those of groups before `agno`, and
  of the sweep before `off`. The groups of a geometry are disjoint, so an
  anomaly about to be found has not been found (`FoundOnce`). The image's
  reports are put together by the fold `FlattenSeq`; its facts, that the pieces'
  elements are the whole's and that disjoint pieces without repetition make a
  whole without repetition, are lemmas (`FlattenFacts`, `Gathered`).
  `DamageAlwaysReported`: the report of a finished audit is exactly the damage
  of the reference. Each report is characterised by what it holds (`PrimaryReport`,
  `GroupReport`, `InodeFacts`), and `DamageInv` says that the report so far is
  what was to be found in the primary, the groups before `agno` and the slots
  before `off` (`FoundDamage`), and that the walk leaves out no group (`Walked`)
  and no slot (`Swept`). At the end these are the groups begun and the whole
  slots (`GroupsWalked`, `SlotsSwept`). That a slot has the number that leads to
  it, and no other, is `NumberFacts`, for geometries whose numbers fit
  (`Untruncated`): a sum that saturates anywhere on the way to
  a slot inside the image cannot end there (`Saturates`), and without saturation
  the digits of number and offset are the same (`Digits`, `Undigits`).
* **VfsProofs**: `PathAlwaysNamesTheFile` of `read_by_path`; of the adapter
  `TypeCorrect`, `AdapterAlwaysAgrees`, `AnswersAlwaysAgree`,
  `StreamsAlwaysReadBack`, `RunsAlwaysHoldTheFile`, `ShortSourcesOnlyLose`.
  What `PathsAssumption` asks of a volume is `Image`: types, blocks that are not
  empty, a length below 2^64, and attribute values that lie in their inode, leaf
  or block, which is what `AttributesAreGenuine` and `ValuesAreGenuine` prove of
  `XattrRead`; directories and inodes may say anything.
  Both readers are related to one chain of sets, `Reach`: the inodes that the
  first *k* names of a path lead to, at most one for each *k*, in a strict form
  (a directory beyond the root, as `read_by_path` asks) and a lax one (anything
  that can be listed, as `lookup` does). `PathInv` says that the inode in hand
  is in the strict chain at `idx - 1`, and what each kind of error says of the
  chain's end (`Outcome`: an error other than `PathNotFound` means that not even
  the lax chain ends in something readable, which the invariant a run checks
  does not say and `AdapterAgrees` needs). `SessionInv` has the adapter's node in
  the lax chain of the image it holds, its answers those of the node's inode, and
  what was read the first `off` bytes of the stream (`Progress`).
  `StrictInLax` and the uniqueness of the chain give the agreement of the two
  readers, `WayReached` that the chain is the way of names `AdapterAgrees` speaks
  of, and `SameThroughDirectories` that the two chains part only at an inode that
  is no directory. `AnswersAlwaysAgree` is about kind, size and the place of a
  link's target, not about residency. For a short source, what the part still lists was listed of the
  whole (`CutDir`), so on a volume whose names are unique the chain of the part
  lies in the chain of the whole (`CutReach`), and where records do not overlap
  a byte that is still supplied is supplied by the same record (`CutByte`).
  `InstantsReadBack`: both encodings of a time stamp are decoded as they were
  written, over their whole ranges. `AlwaysReadAsWritten`: so what `meta`,
  `extents` and the listings say of a node is what its slot says, read by the
  layout of its own version and features: kind, times, the runs and the attributes
  its two extent counters give (`AttrStreams`), directory entries; a stamp of the legacy form is compared
  with the instant it encodes (`Tells`), whichever that is.

Induction over a natural number is done where it is needed by taking the least
element of the set of numbers for which a fact fails (`Induction` of
`DataLemmas`), since the induction theorem of the library takes an operator.

Only model-checked: liveness (`Termination`, `ListingEnds`, `AuditEnds`),
which is beyond the prover.

## What is abstracted, and what is not modelled

Bit layouts (`BmbtRec::unpack`, inode and superblock fields), names and
payloads, CRC32c, the wording of anomalies and errors. `BmbtWalk` and
`DirRead` take whole blocks only, as the code's slices do. `Audit` does not
model the clamp of `sb_sectsize` (`lib.rs:236-244`); the inode-size guard
(`>= 176`) is `> 0` in its units. `offset_to_inode` joins its parts with a
bitwise or, which is a sum on the geometries of `Geometry`. Directory blocks
are one filesystem block, as the code takes them to be.
`InodeCore` and `Volume` keep the fields some reader uses; `Volume` takes blocks
not to be empty, since it names a block by dividing a position by its size
(`Superblock::parse` does not refuse a size of zero). `Vfs` leaves out
constants (`kind`, `sector_sizes`, `deleted`), the probe for the magic and the
translation of errors; a node's identity is its inode number, since any other
is refused at once (`ino_of`). That the calls below `Vfs` return what `Volume`
takes them to return is what the runs `extent_read`, `dir_read`, `bmbt_walk`
and `xattr` check; it is not proved as one refinement, for the images of those
modules know more of a block than its list of entries.
`Recover` says nothing of blocks of a deleted file that were used again
(`lib.rs:489`): nothing on the image tells them from the file's own, and the code
does not claim to.
Not modelled: the AGFL ring (`agheaders.rs`), which nothing but tests reads;
`verify_dir_block_crc`, `verify_bmbt_block_crc`, which no reader calls; docs,
fuzz targets, CI.

## Plan

1. `BmbtWalk` composed with `ExtentRead` for Btree inodes.
2. The AGFL ring, sized by the sector and padded where the buffer ends.
