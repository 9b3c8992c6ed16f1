-------------------------------- MODULE Vfs ---------------------------------
(***************************************************************************)
(* XfsFs, the adapter that serves a volume read into memory once           *)
(* (src/core/src/vfs.rs), and a client of it beside a reader that uses     *)
(* read_by_path: the client opens the source, follows the same path name   *)
(* by name, asks for what the adapter knows of the node, and reads one of  *)
(* its streams window by window.  The adapter keeps nothing between calls  *)
(* but the image, so another order of the questions changes no answer.     *)
(***************************************************************************)
EXTENDS PathResolve

CONSTANTS
    SourceLens,  \* what a source may return, in bytes, of the volume it holds
    BufLens,     \* the lengths of a client's buffers
    Caps,        \* the lengths a client allows a link target
    U16_MAX

ASSUME VfsAssumption ==
    /\ SourceLens \subseteq Nat /\ BufLens \subseteq Nat \ {0} /\ Caps \subseteq Nat
    /\ U16_MAX \in Nat

VARIABLES
    session,  \* "closed", "looking", "at", "reading", or how it ended
    image,    \* the image the adapter holds
    depth, node,  \* the component looked up next, and the inode number looked in
    kind,     \* what a listing said of the node, if it was found in one
    meta, runs, target, streams,  \* the adapter's answers about the node
    stream,   \* the stream read, an index in streams, or 0 for one it does not have
    off, got  \* where the next window begins, and what was read so far
sessionVars == <<session, image, depth, node, kind, meta, runs, target, streams, stream, off, got>>
-----------------------------------------------------------------------------
NodeKind(type) ==
    CASE type = "Regular" -> "File" [] type = "Directory" -> "Dir" [] type = "Symlink" -> "Symlink"
      [] type \in {"CharDevice", "BlockDevice"} -> "Device"
      [] OTHER -> "Other"
ToTs(ts) == ts.secs * NSEC_PER_SEC + ts.nsecs

Of(ino) == ReadInode(image, ino)
KindOf(ino) == IF Of(ino).err = "none" THEN NodeKind(FromMode(Of(ino).val.mode)) ELSE "Other"

(* The outcome of listing the node, and the node's inode if it can be      *)
(* read: sets of one and of at most one.                                   *)
NodeListings == {IF from.err # "none" THEN from ELSE ReadDir(image, from.val) : from \in {Of(node)}}
NodeInodes == {from.val : from \in {read \in {Of(node)} : read.err = "none"}}

MetaOf(inode) ==
    [kind |-> NodeKind(FromMode(inode.mode)), size |-> inode.size,
     times |-> [modified |-> ToTs(inode.mtime), accessed |-> ToTs(inode.atime),
                changed |-> ToTs(inode.ctime), born |-> {ToTs(t) : t \in inode.crtime}],
     resident |-> IF inode.format = "Local" THEN {inode.fork_len} ELSE {}]

RunsOfMut(inode) ==  \* mutant: the place in the file taken for the place in the image
    LET recs == ReadExtents(inode)
    IN  [k \in DOMAIN recs |-> [image_offset |-> Sat(recs[k].startoff * Blocksize(image)),
                                len |-> Sat(recs[k].blockcount * Blocksize(image))]]
RunsOf(inode) ==
    LET recs == IF inode.format = "Extents" THEN ReadExtents(inode) ELSE <<>>
    IN  [k \in DOMAIN recs |-> [image_offset |-> Sat(recs[k].startblock * Blocksize(image)),
                                len |-> Sat(recs[k].blockcount * Blocksize(image))]]

LeastMut(m, n) == m  \* mutant: a window is not cut off
Least(m, n) == IF m <= n THEN m ELSE n

(* A target in the inode lies behind its core, the rest is a file. *)
LinkOf(ino, inode, cap) ==
    LET at == InodeToLocation(image.sb.geo, ino) + image.sb.geo.inodesize - inode.fork_len
        file == ReadFile(image, inode)
    IN  CASE FromMode(inode.mode) # "Symlink" -> Ok(<<>>)
          [] FromMode(inode.mode) = "Symlink" /\ inode.format = "Local" ->
                Ok([i \in 1..Least(Least(inode.size, inode.fork_len), cap) |-> at + i - 1])
          [] OTHER -> IF file.err # "none" THEN file ELSE Ok(SubSeq(file.val, 1, Least(Len(file.val), cap)))

StreamId(k) == Least(k - 1, U16_MAX)  \* the attribute streams[k + 1] is for
StreamsOf(inode) ==
    LET attrs == ListXattrs(image, inode)
        Info(k) == [id |-> <<"Xattr", StreamId(k)>>, size |-> Len(attrs.val[k].value),
                    resident |-> attrs.val[k].storage # "LeafRemote"]
    IN  IF attrs.err # "none" THEN attrs
        ELSE Ok(<<[id |-> <<"Default">>, size |-> inode.size, resident |-> FALSE]>>
                \o [k \in DOMAIN attrs.val |-> Info(k)])

WindowMut(bytes, start, len) ==  \* mutant: the window begins one byte late
    SubSeq(bytes, start + 2, Least(Len(bytes), start + 1 + len))
Window(bytes, start, len) == SubSeq(bytes, start + 1, Least(Len(bytes), start + len))

ReadAt(inode, id, start, len) ==
    LET attrs == ListXattrs(image, inode)
        file == ReadFile(image, inode)
    IN  CASE id[1] = "Xattr" ->
                IF attrs.err # "none" THEN attrs
                ELSE IF id[2] >= Len(attrs.val) THEN Fail("Unsupported")
                ELSE Ok(Window(attrs.val[id[2] + 1].value, start, len))
          [] id[1] = "Default" ->
                IF file.err # "none" THEN file ELSE Ok(Window(file.val, start, len))
          [] OTHER -> Fail("Unsupported")
-----------------------------------------------------------------------------
(* The source fails, or what it returned is no volume. *)
OpenFails ==
    /\ session = "closed"
    /\ session' = "unopened"
    /\ UNCHANGED <<image, depth, node, kind, meta, runs, target, streams, stream, off, got>>

(* The buffer is cut off at what the source returned. *)
Open ==
    /\ session = "closed"
    /\ \E n \in SourceLens :
        LET read == [volume EXCEPT !.len = Least(n, volume.len)]
        IN  /\ session' = IF SbParse(read).err = "none" THEN "looking" ELSE "unopened"
            /\ image' = read
            /\ node' = volume.sb.rootino
    /\ UNCHANGED <<depth, kind, meta, runs, target, streams, stream, off, got>>

Looking == session = "looking" /\ depth <= Len(path)
Go(entry, said) ==
    /\ node' = entry.inode /\ depth' = depth + 1 /\ kind' = said
    /\ UNCHANGED <<session, image, meta, runs, target, streams, stream, off, got>>
Stop(how) ==
    /\ session' = how
    /\ UNCHANGED <<image, depth, node, kind, meta, runs, target, streams, stream, off, got>>

LookupMut ==  \* mutant: a name that is not listed taken for the first that is
    /\ Looking
    /\ \E listing \in NodeListings :
        CASE listing.err # "none" -> Stop("failed")
          [] listing.err = "none" /\ listing.val = <<>> -> Stop("missing")
          [] OTHER -> \E name \in {listing.val[1].name, path[depth]} :
                        Named(listing.val, name) # {} /\ Go(First(listing.val, name), "unknown")
Lookup ==
    /\ Looking
    /\ \E listing \in NodeListings :
        CASE listing.err # "none" -> Stop("failed")
          [] listing.err = "none" /\ Named(listing.val, path[depth]) = {} -> Stop("missing")
          [] OTHER -> Go(First(listing.val, path[depth]), "unknown")

(* read_dir lists the node, with the kind each entry's inode has. *)
Browse ==
    /\ Looking
    /\ \E listing \in NodeListings :
        /\ listing.err = "none"
        /\ Named(listing.val, path[depth]) # {}
        /\ \E entry \in {First(listing.val, path[depth])} : Go(entry, KindOf(entry.inode))

Arrive ==
    /\ session = "looking" /\ depth > Len(path)
    /\ Stop(IF Of(node).err = "none" THEN "at" ELSE "failed")

(* meta, extents, read_link and data_streams. *)
Ask ==
    /\ session = "at"
    /\ \E inode \in NodeInodes, cap \in Caps :
        /\ meta' = MetaOf(inode)
        /\ runs' = RunsOf(inode)
        /\ target' = LinkOf(node, inode, cap)
        /\ streams' = StreamsOf(inode)
        /\ stream' \in {0, 1} \cup (IF streams'.err = "none" THEN DOMAIN streams'.val ELSE {})
    /\ session' = "reading"
    /\ UNCHANGED <<image, depth, node, kind, off, got>>

Id == CASE stream = 0 -> <<"Slack">>
        [] stream = 1 -> <<"Default">>
        [] OTHER -> streams.val[stream].id

Read ==
    /\ session = "reading"
    /\ \E len \in BufLens, inode \in NodeInodes : \E bytes \in {ReadAt(inode, Id, off, len)} :
        /\ session' = CASE bytes.err # "none" -> "refused"
                        [] bytes.err = "none" /\ bytes.val = <<>> -> "done"
                        [] OTHER -> "reading"
        /\ got' = got \o bytes.val
        /\ off' = off + Len(bytes.val)
    /\ UNCHANGED <<image, depth, node, kind, meta, runs, target, streams, stream>>

SessionInit ==
    /\ session = "closed" /\ image = <<>> /\ depth = 1 /\ node = 0 /\ kind = "unknown"
    /\ meta = <<>> /\ runs = <<>> /\ target = <<>> /\ streams = <<>>
    /\ stream = 0 /\ off = 0 /\ got = <<>>
SessionNext == OpenFails \/ Open \/ Lookup \/ Browse \/ Arrive \/ Ask \/ Read
-----------------------------------------------------------------------------
vars == <<pathVars, sessionVars>>
Init == PathInit /\ SessionInit
(* The readers share nothing they write. *)
PathStep == PathNext /\ UNCHANGED sessionVars
SessionStep == SessionNext /\ UNCHANGED pathVars
Next == PathStep \/ SessionStep

Spec == Init /\ [][Next]_vars
-----------------------------------------------------------------------------
Ends == {"unopened", "missing", "failed", "refused", "done"}
Known == session \in {"reading", "refused", "done"}

TypeOK ==
    /\ path \in Paths
    /\ pc \in {"called", "walking", "returned"} /\ idx \in 1..(Len(path) + 1)
    /\ session \in {"closed", "looking", "at", "reading"} \cup Ends
    /\ depth \in 1..(Len(path) + 1) /\ node \in Nat
    /\ session = "looking" => SbParse(image).err = "none"
    /\ session \in {"at", "reading", "refused", "done"} => Of(node).err = "none"
    /\ Known => stream \in {0, 1} \/ (streams.err = "none" /\ stream \in DOMAIN streams.val)
    /\ off = Len(got)
    /\ \A i \in DOMAIN got : got[i] = Hole \/ got[i] \in 0..(image.len - 1)

ReadsTheData == session = "done" /\ stream = 1
Whole == session \notin {"closed", "unopened"} /\ image.len = volume.len

(* Where the names of the path lead from the root, one after another, by   *)
(* the first entry of each, whether or not what is listed is a directory.  *)
Way ==
    LET Led(n, name) ==
            LET inode == ReadInode(volume, n)
                entries == IF inode.err = "none" THEN ReadDir(volume, inode.val).val ELSE <<>>
            IN  {entries[k].inode : k \in {j \in DOMAIN entries :
                    /\ entries[j].name = name
                    /\ \A i \in 1..(j - 1) : entries[i].name # name}}
        Reached[k \in 0..Len(path)] ==
            IF k = 0 THEN {volume.sb.rootino} ELSE UNION {Led(n, path[k]) : n \in Reached[k - 1]}
    IN  Reached

(* On the whole volume the two ways to a file agree.  The adapter's node   *)
(* is the one the names lead to; what read_by_path reads, the adapter      *)
(* finds and its windows put together to the same bytes; and where the     *)
(* adapter finds a file that read_by_path does not, the path is empty or   *)
(* led through an inode that is no directory, which lookup lists as if it  *)
(* were one (vfs.rs:236-243 and 316-345, dir.rs:499-530; tests/vfs.rs:132).*)
AdapterAgrees ==
    PathReturned /\ Whole =>
        /\ Known => node \in Way[Len(path)]
        /\ result.err = "none" =>
             /\ session \notin {"missing", "failed"} /\ ~(session = "refused" /\ stream = 1)
             /\ ReadsTheData => got = result.val
        /\ result.err # "none" /\ ReadsTheData =>
             /\ result.err = "PathNotFound"
             /\ \/ path = <<>>
                \/ \E k \in 1..(Len(path) - 1) : \E n \in Way[k] : ~IsDir(ReadInode(volume, n).val)

(* Names are unique in every directory of the volume, and no two records   *)
(* of an inode overlap.                                                    *)
Sane ==
    \A at \in DOMAIN volume.slots :
        LET inode == Parse(volume.slots[at], HasNrext64(volume.sb), volume.sb.geo.inodesize)
            recs == inode.val.fork.recs
            listing == ReadDir(volume, inode.val)
        IN  inode.err = "none" =>
                /\ \A j, k \in DOMAIN recs : j # k =>
                     \/ recs[j].startoff + recs[j].blockcount <= recs[k].startoff
                     \/ recs[k].startoff + recs[k].blockcount <= recs[j].startoff
                /\ listing.err = "none" =>
                     \A j, k \in DOMAIN listing.val : listing.val[j].name = listing.val[k].name => j = k

(* A source that returns less than the volume loses bytes and names but    *)
(* never makes up any: what is still read of a file of a sane volume has   *)
(* its length, and each byte is the file's own or a hole (vfs.rs:92-93).   *)
ShortSourceOnlyLoses ==
    PathReturned /\ result.err = "none" /\ ReadsTheData /\ Sane =>
        /\ Len(got) = Len(result.val)
        /\ \A i \in DOMAIN got : got[i] \in {result.val[i], Hole}

(* What is said of a node by the listing it was found in, by meta,         *)
(* read_link and data_streams agrees on its kind and its size: the listing *)
(* names meta's kind, or Other if the inode cannot be read; the data       *)
(* stream and what is read of it have meta's size; a link target comes     *)
(* only of a link, no longer than that size, and out of the inode itself   *)
(* if meta calls it resident (vfs.rs:201, 245-313, 347-375 and 389-395).   *)
(* It is silent on where they do not agree: data_streams says NonResident  *)
(* of that same data, and read_at reads it as zeros.                       *)
AnswersAgree ==
    /\ session = "failed" /\ Of(node).err # "none" => kind \in {"unknown", "Other"}
    /\ Known =>
        /\ kind # "unknown" => kind = meta.kind
        /\ streams.err = "none" => streams.val[1].size = meta.size
        /\ ReadsTheData => Len(got) = meta.size
        /\ target.val # <<>> => meta.kind = "Symlink" /\ Len(target.val) <= meta.size
        /\ \A len \in meta.resident : \A i \in DOMAIN target.val :
             LET at == InodeToLocation(image.sb.geo, node)
             IN  target.val[i] \in (at + image.sb.geo.inodesize - len)..(at + image.sb.geo.inodesize - 1)

(* The windows of a stream tile it, whatever their lengths: together they  *)
(* are what one window without limit reads, of the listed size, and the    *)
(* client is told of an end only there.  Attributes past the largest index *)
(* all have the id of the one at U16_MAX and read as that one              *)
(* (vfs.rs:296-311 and 316-345).                                           *)
StreamsReadBack ==
    LET all == ReadAt(Of(node).val, Id, 0, image.len)
        listed == IF stream - 2 > U16_MAX THEN U16_MAX + 2 ELSE stream
    IN  session \in {"reading", "done"} =>
            /\ got = SubSeq(all.val, 1, Len(got))
            /\ session = "done" =>
                 /\ got = all.val
                 /\ streams.err = "none" => Len(got) = streams.val[listed].size

(* The runs that extents reports of an extent-list file hold every byte    *)
(* read of it: an examiner who follows them misses none (vfs.rs:208-234).  *)
RunsHoldTheFile ==
    Known /\ stream = 1 /\ Of(node).val.format = "Extents" =>
        \A i \in DOMAIN got : got[i] # Hole =>
            \E k \in DOMAIN runs :
                got[i] - runs[k].image_offset \in 0..(runs[k].len - 1)

(* The reference of a time stamp.  A legacy one holds an instant in two    *)
(* words, the seconds in two's complement; in a v3 inode flagged BIGTIME   *)
(* it counts the nanoseconds from the least legacy second on.              *)
Instants == [secs : (-(TWO_32 \div 2))..(TWO_32 \div 2 - 1), nsecs : 0..(TWO_32 - 1)]
LegacyOf(t) == (IF t.secs < 0 THEN t.secs + TWO_32 ELSE t.secs) * TWO_32 + t.nsecs
Tells(raw, stamp, nanos) ==
    IF raw.version >= 3 /\ "BIGTIME" \in raw.flags2
    THEN stamp = nanos + (TWO_32 \div 2) * NSEC_PER_SEC
    ELSE \A t \in Instants : stamp = LegacyOf(t) => nanos = t.secs * NSEC_PER_SEC + t.nsecs

(* The slot of the node as it was written, its fork, and whether the       *)
(* counters of its extents were moved.                                     *)
Written == image.slots[InodeToLocation(image.sb.geo, node)]
WrittenFork == Written.lit[IF Written.version >= 3 THEN V3_LITINO_OFFSET ELSE V2_LITINO_OFFSET]
Moved == image.sb.version = 5 /\ "NREXT64" \in image.sb.features_incompat

KindAsWritten ==
    LET type == Written.mode \div 4096
    IN  meta.kind = CASE type = 8 -> "File" [] type = 4 -> "Dir" [] type = 10 -> "Symlink"
                      [] type \in {2, 6} -> "Device" [] OTHER -> "Other"
TimesAsWritten ==
    /\ Tells(Written, Written.atime, meta.times.accessed)
    /\ Tells(Written, Written.mtime, meta.times.modified)
    /\ Tells(Written, Written.ctime, meta.times.changed)
    /\ meta.times.born # {} <=> Written.version >= 3
    /\ \A nanos \in meta.times.born : Tells(Written, Written.crtime, nanos)
RunsAsWritten ==
    Written.format = 2 =>
        Len(runs) = Least(IF Moved THEN Written.be64_24 ELSE Written.be32_76, Len(WrittenFork.recs))

(* The record is one the attribute fork counts, and its block is there.    *)
Counted(rec, n) ==
    rec <= (IF Moved THEN Written.be32_76 ELSE Written.be16_80) /\ BlockInImage(image, n)
Kept(a) == a.storage # "Shortform" /\ Counted(a.rec, a.leaf)
Told(a, info) ==
    IF a.storage = "LeafRemote"
    THEN ~info.resident /\
         info.size = IF Counted(a.vrec, a.at \div Blocksize(image)) THEN a.size ELSE 0
    ELSE info.resident /\ info.size = a.size
AttrsAsWritten ==
    Written.forkoff # 0 /\ Written.aformat = 2 =>
        /\ streams.err = "none"
        /\ \A k \in DOMAIN WrittenFork.attrs : Kept(WrittenFork.attrs[k]) =>
             \E j \in 2..Len(streams.val) : Told(WrittenFork.attrs[k], streams.val[j])
        /\ \A j \in 2..Len(streams.val) : \E k \in DOMAIN WrittenFork.attrs :
             Kept(WrittenFork.attrs[k]) /\ Told(WrittenFork.attrs[k], streams.val[j])

IsEntry(entries, e) == \E k \in DOMAIN entries : entries[k] = e
EntriesAsWritten ==
    LET sb == image.sb
        ftype == "FTYPE" \in IF sb.version = 5 THEN sb.features_incompat ELSE sb.features2
    IN  \A listing \in NodeListings : \A k \in DOMAIN listing.val :
           \/ IsEntry(WrittenFork.short[ftype], listing.val[k])
           \/ \E n \in DOMAIN image.blocks : IsEntry(image.blocks[n].entries[ftype], listing.val[k])

(* What the adapter says of an inode is what was written: its kind is the  *)
(* mode's; the times are the instants, in legacy stamps and in bigtime     *)
(* counts, before and after 1970 and on a volume that has both, a v2 inode *)
(* has no time of birth; every extent record counted is read, wherever the *)
(* counters of the two forks are: of the data, and of attributes in leaves *)
(* each stream tells one that the counted records hold and each such one   *)
(* has a stream; and no entry is read with the layout of the other version *)
(* (inode.rs:118-134, 149-180, 301-330 and 346-357, xattr.rs:278-290,      *)
(* vfs.rs:148-156 and 296-311, superblock.rs:155-178).                     *)
ReadAsWritten ==
    Known => /\ KindAsWritten /\ TimesAsWritten
             /\ RunsAsWritten /\ AttrsAsWritten /\ EntriesAsWritten
=============================================================================
