------------------------------ MODULE DirReadMC ------------------------------
(***************************************************************************)
(* DirRead on an image of two blocks of 112 bytes: 48 bytes of entries in  *)
(* a v5 block, 96 in a v4 block.  A directory block is made from a list of *)
(* records, sound or hostile.                                              *)
(***************************************************************************)
EXTENDS DirRead

E(namelen) == [kind |-> "entry", namelen |-> namelen]
F(len) == [kind |-> "free", len |-> len]

(* The bytes a record takes: whole words of eight for inumber, namelen,    *)
(* name, ftype and tag (xfs_dir2_data_entsize).                            *)
Bytes(item, ftype) ==
    LET raw == 11 + item.namelen + (IF ftype THEN 1 ELSE 0)
    IN  IF item.kind = "free" THEN (IF item.len < 8 THEN 8 ELSE item.len)
        ELSE CHOOSE n \in {8 * w : w \in 0..20} : n - 8 < raw /\ raw <= n

Hdr(magic) == IF magic \in {"XDB3", "XDD3"} THEN 64 ELSE 16
Places(hdr, items, ftype) ==
    LET Place[k \in 1..Len(items)] ==
            IF k = 1 THEN hdr ELSE Place[k - 1] + Bytes(items[k - 1], ftype)
    IN  Place

Build(magic, leaves, items, ftype) ==
    LET place == Places(Hdr(magic), items, ftype)
    IN  [magic |-> magic, leaves |-> leaves,
         at |-> [o \in {place[k] : k \in DOMAIN items} \cap Offsets |->
                   items[CHOOSE k \in DOMAIN items : place[k] = o]]]

(* Sound lists.  In a single-block directory the last item is what its     *)
(* leaf array looks like, and no entry of the directory.                   *)
Sound == {<<E(1), E(5)>>, <<F(16), E(4), F(16)>>, <<F(8), E(5), E(1)>>, <<F(48)>>}
SoundOld == {<<E(5), E(4), F(56)>>}
SoundSingle == {<<E(5), E(1)>>, <<F(8), E(2), E(1)>>}
SoundSingleOld == {<<E(5), F(24), E(2), E(1)>>}
Hostile == {<<F(0), E(1)>>, <<F(3), E(2)>>, <<E(1), E(30)>>, <<F(32), E(6)>>, <<E(0), E(1)>>}

(* The count of leaves that fills the block up from a place to its tail. *)
LeavesFrom(place) == (BlockSize - 8 - place) \div 8
SoundBlocks(ftype) ==
    {Build("XDD3", 0, s, ftype) : s \in Sound} \cup {Build("XD2D", 0, s, ftype) : s \in SoundOld}
    \cup {Build("XDB3", LeavesFrom(Last(Places(64, s, ftype))), s, ftype) : s \in SoundSingle}
    \cup {Build("XD2B", LeavesFrom(Last(Places(16, s, ftype))), s, ftype) : s \in SoundSingleOld}
MCBlocks(ftype) ==
    SoundBlocks(ftype)
    \cup {Build(magic, 0, s, ftype) : magic \in {"XDD3", "XD2B"}, s \in Hostile}
    \cup {Build("XDB3", 99, <<E(1)>>, ftype), ZeroBlock}

R(startoff, startblock, blockcount) ==
    [startoff |-> startoff, startblock |-> startblock, blockcount |-> blockcount]
NoShort == [count |-> 0, wide |-> FALSE, len |-> 0, namelens |-> <<>>]
Short(count, wide, len) == [count |-> count, wide |-> wide, len |-> len, namelens |-> <<1, 5, 3>>]

Directory(format, size, recs, short, ftype, blocks) ==
    [format |-> format, size |-> size, recs |-> recs, short |-> short, ftype |-> ftype,
     blocks |-> blocks]
Single == {<<R(0, 1, 1)>>, <<R(0, 0, 1)>>, <<R(0, 7, 1)>>, <<R(1, 0, 1)>>, <<>>}
Multi == {<<R(0, 0, 2)>>, <<R(0, 1, 1), R(1, 0, 1), R(4, 0, 2)>>,
          <<R(0, 1, 3), R(4, 0, 1), R(3, 0, 1)>>, <<R(0, 0, 0)>>, <<R(0, 0, 2), R(2, 1, 1)>>}

MCDirs ==
    UNION {
        {Directory("Extents", BlockSize, r, NoShort, ftype, bs) :
            r \in Single, bs \in [0..1 -> MCBlocks(ftype)]}
        \cup {Directory(f, 300, r, NoShort, ftype, bs) :
                f \in {"Extents", "Btree"}, r \in Multi, bs \in [0..1 -> MCBlocks(ftype)]}
        \cup {Directory("Local", 30, <<>>, Short(n, wide, len), ftype, [i \in 0..1 |-> ZeroBlock]) :
                n \in 0..3, wide \in BOOLEAN, len \in {0, 9, 25, 33, 40, 60}}
        \cup {Directory(f, 0, <<>>, NoShort, ftype, [i \in 0..1 |-> ZeroBlock]) : f \in {"Dev", "Other"}}
      : ftype \in BOOLEAN}
=============================================================================
