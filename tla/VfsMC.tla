------------------------------- MODULE VfsMC --------------------------------
(***************************************************************************)
(* Vfs on volumes of two allocation groups of three blocks of 16 bytes     *)
(* (four agblock numbers each): a superblock, two inodes of eight bytes,   *)
(* a block of data; and again.  The inode cores take three (v2) and four   *)
(* (v3) bytes, a timestamp word has four bits and a second ten parts.      *)
(***************************************************************************)
EXTENDS Vfs, TLC

Geo == [agblocks |-> 3, agspan |-> 4, inopb |-> 2, blocksize |-> 16, inodesize |-> 8]
Sb(version, features2, features_incompat, rootino) ==
    [magic |-> TRUE, version |-> version, features2 |-> features2,
     features_incompat |-> features_incompat, rootino |-> rootino, geo |-> Geo]
Sbs == {Sb(4, {}, {"FTYPE", "NREXT64"}, 2), Sb(4, {"FTYPE"}, {}, 2),
        Sb(5, {}, {"FTYPE", "NREXT64"}, 2), Sb(5, {"FTYPE"}, {"FTYPE"}, 2)}
Nrext64(sb) == sb.version = 5 /\ "NREXT64" \in sb.features_incompat
Ftype(sb) == IF sb.version = 5 THEN "FTYPE" \in sb.features_incompat ELSE "FTYPE" \in sb.features2

E(name, inode) == [name |-> name, inode |-> inode]
(* Entries as they read with the layout they were written with, and with   *)
(* the other one.                                                          *)
Laid(sb, entries) == [ftype \in BOOLEAN |-> IF ftype = Ftype(sb) THEN entries ELSE <<E("?", 255)>>]
R(startoff, startblock, blockcount) ==
    [startoff |-> startoff, startblock |-> startblock, blockcount |-> blockcount, leaf |-> 5]

(* Instants, as legacy stamps and as bigtime counts encode them; the last  *)
(* has more nanoseconds than a second.                                     *)
Moments == {[secs |-> -3, nsecs |-> 9], [secs |-> 0, nsecs |-> 0], [secs |-> 5, nsecs |-> 2],
            [secs |-> 5, nsecs |-> 12]}
BigtimeOf(t) == (t.secs + TWO_32 \div 2) * NSEC_PER_SEC + t.nsecs

(* An inode of this content, as a volume with these features stores it. *)
Stored(sb, type, format, size, count, acount, fork, t, big) ==
    LET v3 == sb.version = 5
        stamp == IF v3 /\ big THEN BigtimeOf(t) ELSE LegacyOf(t)
    IN  [magic |-> TRUE, version |-> IF v3 THEN 3 ELSE 2, mode |-> type * 4096 + 420,
         format |-> format, size |-> size, flags2 |-> IF big THEN {"BIGTIME"} ELSE {},
         be64_24 |-> IF Nrext64(sb) THEN count ELSE 0,
         be32_76 |-> IF Nrext64(sb) THEN acount ELSE count,
         be16_80 |-> IF Nrext64(sb) THEN 0 ELSE acount,
         forkoff |-> IF type = 10 /\ format = 1 THEN 0 ELSE 1,
         aformat |-> CASE type = 4 -> 1 [] type = 8 -> 2 [] OTHER -> 3,
         atime |-> stamp, mtime |-> stamp, ctime |-> stamp, crtime |-> stamp,
         lit |-> [o \in {V2_LITINO_OFFSET, V3_LITINO_OFFSET} |->
                    IF (o = V3_LITINO_OFFSET) = v3 THEN fork
                    ELSE [recs |-> <<>>, short |-> Laid(sb, <<>>), attrs |-> <<>>]]]
T0 == [secs |-> 0, nsecs |-> 0]
(* Attributes, those in the inode with their place in its slot; the others *)
(* in the blocks 2 and 5, which the first two records of the fork map.     *)
Short(at, size) == [storage |-> "Shortform", leaf |-> 0, at |-> at, size |-> size, rec |-> 0, vrec |-> 0]
Local(leaf, rec, at, size) ==
    [storage |-> "LeafLocal", leaf |-> leaf, at |-> at, size |-> size, rec |-> rec, vrec |-> 0]
Attrs == <<Short(6, 1), Local(2, 1, 40, 2), Short(5, 0),
           [storage |-> "LeafRemote", leaf |-> 2, at |-> 87, size |-> 5, rec |-> 1, vrec |-> 2],
           Short(4, 2), Local(2, 1, 44, 1), Local(2, 1, 36, 4), Local(5, 2, 82, 1), Short(4, 4)>>
ForkOf(sb, recs, short) == [recs |-> recs, short |-> Laid(sb, short), attrs |-> Attrs]
At(slot, raw) ==
    LET Placed(a) == IF a.storage = "Shortform" THEN [a EXCEPT !.at = @ + slot] ELSE a
    IN  [raw EXCEPT !.lit = [o \in DOMAIN raw.lit |->
            [raw.lit[o] EXCEPT !.attrs = [k \in DOMAIN raw.lit[o].attrs |-> Placed(raw.lit[o].attrs[k])]]]]

Directory(sb, format, size, recs, short) == Stored(sb, 4, format, size, 2, 0, ForkOf(sb, recs, short), T0, TRUE)
Roots(sb) ==
    {Directory(sb, 1, 6, <<>>, names) :
        names \in {<<E("a", 3), E("b", 10), E("c", 77)>>, <<E("b", 3), E("a", 10), E("a", 3)>>}}
    \cup {Directory(sb, 2, 16, <<R(0, 2, 1)>>, <<>>), Directory(sb, 2, 32, <<R(0, 2, 1), R(1, 5, 1)>>, <<>>),
          Directory(sb, 3, 48, <<R(0, 2, 1), R(4, 5, 1)>>, <<>>), Directory(sb, 0, 0, <<>>, <<>>)}
Seconds(sb) ==
    {Directory(sb, 1, 6, <<>>, <<E("a", 2), E("b", 10), E("c", 11)>>),
     Stored(sb, 8, 1, 4, 0, 2, ForkOf(sb, <<>>, <<E("b", 10)>>), T0, FALSE)}
Files(sb) ==
    {Stored(sb, 8, 2, 20, 2, IF big THEN 2 ELSE 1, ForkOf(sb, <<R(0, 5, 1), R(1, 2, 1)>>, <<>>), t, big) :
        t \in Moments, big \in BOOLEAN}
    \cup {Stored(sb, 8, 2, 5, 1, 2, ForkOf(sb, recs, <<>>), T0, TRUE) :
            recs \in {<<R(0, 5, 1), R(0, 2, 1)>>, <<R(0, 5, 2)>>}}
    \cup {Stored(sb, 8, 3, 18, 0, 0, ForkOf(sb, <<R(0, 2, 1)>>, <<>>), T0, TRUE),
          Stored(sb, 8, 2, 99, 1, 1, ForkOf(sb, <<R(0, 2, 1)>>, <<>>), T0, TRUE)}
Links(sb) ==
    {Stored(sb, 10, 1, size, 0, 0, ForkOf(sb, <<>>, <<>>), T0, TRUE) : size \in {2, 9}}
    \cup {Stored(sb, 10, 2, 17, 2, 0, ForkOf(sb, <<R(0, 2, 1), R(1, 5, 1)>>, <<>>), T0, TRUE)}

Block(sb, magic, entries) == [magic |-> magic, entries |-> Laid(sb, entries)]
None(sb) == Block(sb, "none", <<>>)
Made(sb, root, second, file, link, magic, names) ==
    [sb |-> sb, len |-> 96, slots |-> 16 :> At(16, root) @@ 24 :> At(24, second) @@ 64 :> At(64, file) @@ 72 :> At(72, link),
     blocks |-> 2 :> Block(sb, magic, names) @@ 5 :> Block(sb, "data", <<E("b", 11)>>)]
Root(sb) == Directory(sb, 1, 6, <<>>, <<E("a", 3), E("b", 10), E("c", 77)>>)
Second(sb) == Directory(sb, 1, 6, <<>>, <<E("a", 2), E("b", 10), E("c", 11)>>)
File(sb) == Stored(sb, 8, 2, 20, 2, 2, ForkOf(sb, <<R(0, 5, 1), R(1, 2, 1)>>, <<>>), T0, TRUE)
Link(sb) == Stored(sb, 10, 1, 9, 0, 0, ForkOf(sb, <<>>, <<>>), T0, TRUE)
MCVolumes == UNION {
    {Made(sb, root, second, File(sb), Link(sb), magic, <<E("b", 10), E("a", 3)>>) :
        root \in Roots(sb), second \in Seconds(sb), magic \in {"block", "data"}}
    \cup {Made(sb, Root(sb), Second(sb), file, Link(sb), "none", <<>>) : file \in Files(sb)}
    \cup {Made(sb, Root(sb), Second(sb), File(sb), link, "none", <<>>) : link \in Links(sb)}
    \cup {Made([sb EXCEPT !.rootino = n, !.magic = m], Root(sb), Second(sb), File(sb), Link(sb), "none", <<>>) :
            n \in {2, 4, 99}, m \in BOOLEAN}
    : sb \in Sbs}
MCPaths == {<<>>, <<"a">>, <<"b">>, <<"a", "b">>, <<"a", "c">>, <<"a", "a", "b">>, <<"c">>}
=============================================================================
