------------------------------ MODULE Geometry ------------------------------
(***************************************************************************)
(* Where an inode lies: Superblock::inode_to_location                      *)
(* (src/core/src/superblock.rs) and its inverse offset_to_inode            *)
(* (src/forensic/src/lib.rs).                                              *)
(*                                                                         *)
(* A geometry is the superblock fields both use.  agspan is 2^sb_agblklog  *)
(* and inopb is 2^sb_inopblog, so a shift is a division or a product and a *)
(* mask a remainder.                                                       *)
(***************************************************************************)
EXTENDS Integers

CONSTANT U64_MAX
ASSUME U64Assumption == U64_MAX \in Nat

(* The geometries mkfs writes: a block is filled with inodes, and the      *)
(* blocks of an allocation group fit in the agblock bits.  (offset_to_inode *)
(* joins its parts with a bitwise or, which on these is a sum.)            *)
Geometries ==
    {g \in [agblocks : Nat \ {0}, agspan : Nat \ {0}, inopb : Nat \ {0},
            blocksize : Nat \ {0}, inodesize : Nat \ {0}] :
        g.blocksize = g.inopb * g.inodesize /\ g.agblocks <= g.agspan}

Sat(n) == IF n <= U64_MAX THEN n ELSE U64_MAX

(* The byte offset of inode `ino', saturating. *)
InodeToLocation(g, ino) ==
    LET agno == ino \div (g.agspan * g.inopb)
        agino == ino % (g.agspan * g.inopb)
        fsblock == Sat(Sat(agno * g.agblocks) + agino \div g.inopb)
    IN  Sat(Sat(fsblock * g.blocksize) + Sat((agino % g.inopb) * g.inodesize))

NoNumber == -1
OffsetToInodeMut(g, off) ==  \* mutant: the numbers of an AG taken as contiguous
    (off \div g.blocksize) * g.inopb + (off % g.blocksize) \div g.inodesize

(* The number of the inode in the slot at byte `off' of the image: none in *)
(* a geometry with a zero divisor or a shift by 64 bits or more.  What the *)
(* shift of the group's number moves out of 64 bits is lost.               *)
OffsetToInode(g, off) ==
    LET agbytes == g.agblocks * g.blocksize
        span == g.agspan * g.inopb
        within == off % agbytes
        agino == (within \div g.blocksize) * g.inopb
                     + (within % g.blocksize) \div g.inodesize
    IN  IF agbytes = 0 \/ g.inodesize = 0 \/ span > U64_MAX THEN NoNumber
        ELSE (((off \div agbytes) * span) % (U64_MAX + 1)) + agino

(* The numbers of all groups that begin in the first `len' bytes fit. *)
FitsU64(g, len) ==
    (len \div (g.agblocks * g.blocksize) + 1) * (g.agspan * g.inopb) <= U64_MAX
=============================================================================
