------------------------------ MODULE AuditMC ------------------------------
(***************************************************************************)
(* Audit on an image of two allocation groups of four sectors, each a      *)
(* superblock, an AGF, an AGI and one inode, or cut off after five or      *)
(* seven sectors.  Any combination of sectors may be damaged.              *)
(***************************************************************************)
EXTENDS Audit

Genuine == [agblocks |-> 2, agcount |-> 2, blocksize |-> 2, inodesize |-> 1]

SB(crc, v5, geo) ==
    [kind |-> "SB", crc |-> crc, v5 |-> v5, geo |-> geo, agspan |-> 4, inopb |-> 2]
AGF(crc) == [kind |-> "AGF", crc |-> crc]
AGI(crc, unlinked) == [kind |-> "AGI", crc |-> crc, unlinked |-> unlinked]
INODE(crc, ino) == [kind |-> "IN", crc |-> crc, di_ino |-> ino]
Data == [kind |-> "data"]

Empty == <<NULL_AGINO, NULL_AGINO>>
Forge(field, value) == SB(TRUE, TRUE, [Genuine EXCEPT ![field] = value])
Primaries ==
    {SB(crc, v5, Genuine) : crc, v5 \in BOOLEAN} \cup {Data}
    \cup {[SB(TRUE, TRUE, Genuine) EXCEPT !.agspan = n] : n \in {8, 1024}}
    \cup {Forge("agcount", n) : n \in {0, 3, 9}} \cup {Forge("inodesize", n) : n \in {0, 3}} \cup {Forge("agblocks", 0)}
Secondaries ==
    {SB(TRUE, TRUE, Genuine), SB(FALSE, TRUE, Genuine), Forge("agblocks", 3), Data,
     SB(FALSE, TRUE, [Genuine EXCEPT !.agcount = 1, !.blocksize = 4])}

(* Numbers in use: 3 in group 0, 3 + 8 in group 1; the inode numbered 1 in *)
(* either is a stray copy in file data, and so is the one numbered 7 in    *)
(* group 1, as group 0 has no block for it.  With an agspan of 8 forged,   *)
(* the one in group 1 lies no longer where its number says; with one of    *)
(* 1024, a shift by 64 bits and more, none does.                           *)
InodesAt(ino) == {INODE(TRUE, ino), INODE(FALSE, ino), INODE(FALSE, 1), Data}
Full(primaries, secondaries) ==
    {(0 :> p) @@ (1 :> f) @@ (2 :> i) @@ (3 :> n) @@ (4 :> s) @@ (5 :> g) @@ (6 :> j) @@ (7 :> m) :
        p \in primaries, s \in secondaries,
        f \in {AGF(TRUE), AGF(FALSE), Data}, g \in {AGF(TRUE), AGF(FALSE)},
        i \in {AGI(TRUE, Empty), AGI(FALSE, <<NULL_AGINO, 5>>)},
        j \in {AGI(TRUE, Empty), AGI(TRUE, <<6, 5>>)},
        n \in InodesAt(3) \ {Data}, m \in InodesAt(3 + 8) \cup {INODE(FALSE, 7)}}
CutOff(img, len) == [s \in 0..(len - 1) |-> img[s]]

MCImages == Full(Primaries, Secondaries)
              \cup {CutOff(img, len) : img \in Full({SB(TRUE, TRUE, Genuine)}, Secondaries), len \in {5, 7}}
ForgedImages == Full({Forge("agblocks", 3), Forge("agcount", 1)}, {SB(TRUE, TRUE, Genuine)})
-----------------------------------------------------------------------------
OfKind(kind) == {k \in 1..Len(out) : out[k].kind = kind}
(* lib.rs:43-44: "A secondary superblock (AG 1..n) whose geometry differs  *)
(* from the AG-0 primary".  The secondaries are looked for where the       *)
(* primary's own agblocks and agcount put them.                            *)
ForgedPrimaryReported ==
    pc = "returned" /\ Holds(4, "SB") /\ image[4].geo # Primary =>
        OfKind("SbMirrorDivergence") # {}
=============================================================================
