------------------------------- MODULE Audit -------------------------------
(***************************************************************************)
(* audit_image: the walk over the superblocks, the headers of the          *)
(* allocation groups and the inodes of an image that reports what does not *)
(* verify (src/forensic/src/lib.rs).                                       *)
(*                                                                         *)
(* The image is a sequence of sectors of which the walk sees what kind of  *)
(* structure their magic makes them, whether their checksum verifies, and  *)
(* the fields it reads, of which agspan stands for 2^sb_agblklog and inopb *)
(* for 2^sb_inopblog.  Positions and lengths are in sectors, an inode      *)
(* fills one, and sb_sectsize is not clamped.                              *)
(***************************************************************************)
EXTENDS Geometry, Sequences, SequencesExt, FiniteSets

CONSTANT Images  \* the images the audit is run on

Fields == <<"agblocks", "agcount", "blocksize", "inodesize">>
Layout == [agblocks : Nat, agcount : Nat, blocksize : Nat, inodesize : Nat]
Sector ==
    [kind : {"SB"}, crc : BOOLEAN, v5 : BOOLEAN, geo : Layout,
     agspan : Nat \ {0}, inopb : Nat \ {0}]
    \cup [kind : {"AGF"}, crc : BOOLEAN]
    \cup [kind : {"AGI"}, crc : BOOLEAN, unlinked : Seq(Int)]
    \cup [kind : {"IN"}, crc : BOOLEAN, di_ino : Nat]
    \cup [kind : {"data"}]
NULL_AGINO == -1

ASSUME AuditAssumption ==
    \A img \in Images : /\ IsFiniteSet(DOMAIN img) /\ DOMAIN img = 0..(Cardinality(DOMAIN img) - 1)
                        /\ Cardinality(DOMAIN img) <= U64_MAX
                        /\ \A s \in DOMAIN img : img[s] \in Sector

VARIABLES
    image,  \* the sectors, from 0
    pc,     \* "superblock", "ags", "inodes" or "returned"
    agno,   \* the allocation group of the walk
    off,    \* the inode slot of the sweep
    out     \* the anomalies, in the order found
vars == <<image, pc, agno, off, out>>
-----------------------------------------------------------------------------
Len0 == Cardinality(DOMAIN image)
Primary == image[0].geo
IsV5 == image[0].v5
AgBytes == Primary.agblocks * Primary.blocksize
Base(n) == n * AgBytes
Holds(s, kind) == s < Len0 /\ image[s].kind = kind

Crc(structure, at) == [kind |-> "CrcMismatch", structure |-> structure, at |-> at]
Divergence(n, field) == [kind |-> "SbMirrorDivergence", agno |-> n, field |-> field]
Orphan(n, bucket, agino) ==
    [kind |-> "OrphanedInode", agno |-> n, bucket |-> bucket, agino |-> agino]
Impossible(value, limit) == [kind |-> "ImpossibleGeometry", value |-> value, limit |-> limit]

When(condition, anomaly) == IF condition THEN <<anomaly>> ELSE <<>>
(* The checksum of a structure: none on a v4 volume. *)
CrcReport(s, structure) == When(IsV5 /\ ~image[s].crc, Crc(structure, s))

(* agcount is 0, or the last group's base lies past the image. *)
GeometryReport ==
    IF Primary.agcount = 0 THEN <<Impossible(0, 1)>>
    ELSE When(AgBytes > 0 /\ Base(Primary.agcount - 1) >= Len0,
              Impossible(Primary.agcount, Len0 \div AgBytes + 1))

(* push_sb_divergence *)
DivergenceReport(n) ==
    LET sec == image[Base(n)].geo
    IN  FlattenSeq([k \in 1..Len(Fields) |->
                       When(Primary[Fields[k]] # sec[Fields[k]], Divergence(n, Fields[k]))])

SecondaryReportMut(n) ==  \* mutant: the primary is audited as a secondary too
    IF Holds(Base(n), "SB")
    THEN When(IsV5 /\ image[Base(n)].v5 /\ ~image[Base(n)].crc, Crc("superblock", Base(n)))
            \o DivergenceReport(n)
    ELSE <<>>
SecondaryReport(n) ==
    IF n >= 1 /\ Holds(Base(n), "SB")
    THEN When(IsV5 /\ image[Base(n)].v5 /\ ~image[Base(n)].crc, Crc("superblock", Base(n)))
            \o DivergenceReport(n)
    ELSE <<>>

AgfReport(n) == IF Holds(Base(n) + 1, "AGF") THEN CrcReport(Base(n) + 1, "AGF") ELSE <<>>

OrphanReport(n, unlinked) ==
    FlattenSeq([b \in 1..Len(unlinked) |->
                   When(unlinked[b] # NULL_AGINO, Orphan(n, b, unlinked[b]))])

AgiReport(n) ==
    IF Holds(Base(n) + 2, "AGI")
    THEN CrcReport(Base(n) + 2, "AGI") \o OrphanReport(n, image[Base(n) + 2].unlinked)
    ELSE <<>>

(* The geometry offset_to_inode divides by. *)
Geo == [agblocks |-> Primary.agblocks, agspan |-> image[0].agspan, inopb |-> image[0].inopb,
        blocksize |-> Primary.blocksize, inodesize |-> Primary.inodesize]
InodeReportMut(s) ==  \* mutant: di_ino is not compared
    IF Holds(s, "IN") THEN CrcReport(s, "inode") ELSE <<>>
(* A slot is an inode only if it carries the number of its place. *)
InodeReport(s) ==
    IF Holds(s, "IN") /\ image[s].di_ino = OffsetToInode(Geo, s)
    THEN CrcReport(s, "inode") ELSE <<>>
-----------------------------------------------------------------------------
NotXfs ==
    /\ pc = "superblock" /\ ~Holds(0, "SB")
    /\ pc' = "returned"
    /\ UNCHANGED <<image, agno, off, out>>

AuditPrimary ==
    /\ pc = "superblock" /\ Holds(0, "SB")
    /\ out' = CrcReport(0, "superblock") \o GeometryReport
    /\ pc' = "ags"
    /\ UNCHANGED <<image, agno, off>>

MoreAgsMut == AgBytes > 0 /\ agno < Primary.agcount  \* mutant: no stop at the image's end
MoreAgs == AgBytes > 0 /\ agno < Primary.agcount /\ Base(agno) < Len0

AuditAg ==
    /\ pc = "ags" /\ MoreAgs
    /\ out' = out \o SecondaryReport(agno) \o AgfReport(agno) \o AgiReport(agno)
    /\ agno' = agno + 1
    /\ UNCHANGED <<image, pc, off>>

EndAgsMut ==  \* mutant: sb_inodesize is not checked before the sweep
    /\ pc = "ags" /\ ~MoreAgs
    /\ pc' = IF IsV5 THEN "inodes" ELSE "returned"
    /\ UNCHANGED <<image, agno, off, out>>

EndAgs ==
    /\ pc = "ags" /\ ~MoreAgs
    /\ pc' = IF IsV5 /\ Primary.inodesize > 0 THEN "inodes" ELSE "returned"
    /\ UNCHANGED <<image, agno, off, out>>

AuditInodeMut ==  \* mutant: a last slot that is cut off is audited too
    /\ pc = "inodes" /\ off < Len0
    /\ out' = out \o InodeReport(off)
    /\ off' = off + Primary.inodesize
    /\ UNCHANGED <<image, pc, agno>>
AuditInode ==
    /\ pc = "inodes" /\ off + Primary.inodesize <= Len0
    /\ out' = out \o InodeReport(off)
    /\ off' = off + Primary.inodesize
    /\ UNCHANGED <<image, pc, agno>>

EndInodes ==
    /\ pc = "inodes" /\ off + Primary.inodesize > Len0
    /\ pc' = "returned"
    /\ UNCHANGED <<image, agno, off, out>>

Init ==
    /\ image \in Images
    /\ pc = "superblock"
    /\ agno = 0 /\ off = 0
    /\ out = <<>>

Next == NotXfs \/ AuditPrimary \/ AuditAg \/ EndAgs \/ AuditInode \/ EndInodes
Spec == Init /\ [][Next]_vars
(* One synchronous call: nothing else can stop it from going on. *)
FairSpec == Spec /\ WF_vars(Next)
-----------------------------------------------------------------------------
Returned == pc = "returned"

TypeOK ==
    /\ \A s \in DOMAIN image : image[s] \in Sector
    /\ pc \in {"superblock", "ags", "inodes", "returned"}
    /\ agno \in Nat /\ off \in 0..Len0
    /\ \A k \in 1..Len(out) :
          out[k].kind \in {"CrcMismatch", "SbMirrorDivergence", "OrphanedInode", "ImpossibleGeometry"}

(* Whatever the primary claims of the groups, nothing is reported twice -  *)
(* not the primary as a secondary, nor a header as that of two groups -    *)
(* and nothing that is not on the image: a checksum of a structure of the  *)
(* kind named that is there and fails, a field in which two superblocks    *)
(* differ, a bucket in use (lib.rs:228-376).                               *)
KindOf(structure) ==
    CASE structure = "superblock" -> "SB" [] structure = "inode" -> "IN" [] OTHER -> structure
OnImage(a) ==
    CASE a.kind = "CrcMismatch" ->
           IsV5 /\ Holds(a.at, KindOf(a.structure)) /\ ~image[a.at].crc
      [] a.kind = "SbMirrorDivergence" ->
           Holds(Base(a.agno), "SB") /\ image[Base(a.agno)].geo[a.field] # Primary[a.field]
      [] a.kind = "OrphanedInode" ->
           Holds(Base(a.agno) + 2, "AGI") /\ image[Base(a.agno) + 2].unlinked[a.bucket] # NULL_AGINO
      [] OTHER -> Primary.agcount = 0 \/ Base(Primary.agcount - 1) >= Len0
ReportedOnce ==
    \A j \in 1..Len(out) : OnImage(out[j]) /\ \A k \in 1..Len(out) : out[j] = out[k] => j = k

(* The reference: the structures of an image as its primary lays it out.   *)
(* An image begins with so many groups.  Of each it holds what lies in     *)
(* place and has its magic; an inode lies in place in the slot that its    *)
(* own number leads to, if the number is of a block its group has.         *)
GroupsBegun == (Len0 - 1) \div AgBytes + 1
Groups == {n \in 0..(Primary.agcount - 1) : AgBytes > 0 /\ n < GroupsBegun}
Mirrors == {n \in Groups \ {0} : Holds(Base(n), "SB")}
Agfs == {n \in Groups : Holds(Base(n) + 1, "AGF")}
Agis == {n \in Groups : Holds(Base(n) + 2, "AGI")}
Numbered == Geo \in Geometries /\ FitsU64(Geo, Len0)
NumberOf(ino, s) ==
    /\ InodeToLocation(Geo, ino) = s
    /\ (ino % (Geo.agspan * Geo.inopb)) \div Geo.inopb < Primary.agblocks
Inodes ==
    {s \in 0..(Len0 - 1) :
        /\ Numbered /\ s % Primary.inodesize = 0 /\ s + Primary.inodesize <= Len0
        /\ Holds(s, "IN") /\ NumberOf(image[s].di_ino, s)}

BadSum(s) == IsV5 /\ ~image[s].crc
FailedSums ==
    {Crc("superblock", s) : s \in {t \in {0} \cup {Base(n) : n \in Mirrors} : image[t].v5 /\ BadSum(t)}}
    \cup {Crc("AGF", Base(n) + 1) : n \in {m \in Agfs : BadSum(Base(m) + 1)}}
    \cup {Crc("AGI", Base(n) + 2) : n \in {m \in Agis : BadSum(Base(m) + 2)}}
DivergencesOf(n) ==
    {Divergence(n, f) : f \in {h \in DOMAIN Primary : image[Base(n)].geo[h] # Primary[h]}}
OrphansOf(n) ==
    LET unlinked == image[Base(n) + 2].unlinked
    IN  {Orphan(n, b, unlinked[b]) : b \in {c \in DOMAIN unlinked : unlinked[c] # NULL_AGINO}}
HeaderDamage ==
    FailedSums \cup (UNION {DivergencesOf(n) : n \in Mirrors}) \cup (UNION {OrphansOf(n) : n \in Agis})
InodeDamage == {Crc("inode", s) : s \in {t \in Inodes : BadSum(t)}}
GroupsFit == Primary.agcount > 0 /\ (AgBytes > 0 => Primary.agcount <= GroupsBegun)

(* The report is exact: what is damaged in its place is reported, at its   *)
(* place and with its name (once: ReportedOnce), and nothing else is - not *)
(* a stray inode in file data, not the headers a cut-off image no longer   *)
(* holds, no checksum of a v4 volume, nothing of a clean image or of one   *)
(* that is no XFS.  A count of groups that the image cannot hold is        *)
(* reported once too.  Where no inode has a number, in groups or slots of  *)
(* no size or with an agno that is shifted away, no inode is reported; of  *)
(* geometries between these and the genuine ones nothing is said.          *)
(* lib.rs:220-226 ("A clean image yields an empty vector").                *)
NoneNumbered ==
    AgBytes = 0 \/ Primary.inodesize = 0 \/ Geo.agspan * Geo.inopb > U64_MAX
ReportsExactlyTheDamage ==
    Returned =>
        LET reported == {out[k] : k \in 1..Len(out)}
            impossible == {a \in reported : a.kind = "ImpossibleGeometry"}
            inodes == {a \in reported : a.kind = "CrcMismatch" /\ a.structure = "inode"}
        IN  IF Holds(0, "SB")
            THEN /\ reported \ (impossible \cup inodes) = HeaderDamage
                 /\ Numbered \/ NoneNumbered \/ ~IsV5 => inodes = InodeDamage
                 /\ IF GroupsFit THEN impossible = {}
                                 ELSE \E a \in impossible : impossible = {a} /\ a.value = Primary.agcount
            ELSE out = <<>>

(* The audit comes to an end on every image, with every field tampered.    *)
AuditEnds == <>Returned

(* What is left of an audit, in steps at most: each step leaves less, so   *)
(* the length of the image bounds the work however many groups, of         *)
(* whatever size, the superblock claims (lib.rs:286-289, "an absurd        *)
(* `agcount` cannot spin"), and a slot size it claims is never so small    *)
(* that the sweep over the inodes stands still (lib.rs:354-356).           *)
Left ==
    CASE pc = "superblock" -> 2 * Len0 + 3
      [] pc = "ags"        -> (IF agno < Len0 THEN Len0 - agno ELSE 0) + Len0 + 2
      [] pc = "inodes"     -> Len0 - off + 1
      [] OTHER             -> 0
AuditShrinks == [][Left' \in 0..(Left - 1)]_vars
=============================================================================
