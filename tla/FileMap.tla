------------------------------ MODULE FileMap -------------------------------
(***************************************************************************)
(* What read_file promises of a file's bytes (src/core/src/extent.rs): the *)
(* meaning of a list of extent records, in the arithmetic of the integers. *)
(* A byte of an image of `len' bytes and blocks of `bs' is named by its    *)
(* position; a byte no record accounts for is Hole.                        *)
(***************************************************************************)
EXTENDS Integers, Sequences

Hole == -1

Within(bs, rec, i) == rec.startoff * bs <= i /\ i < (rec.startoff + rec.blockcount) * bs
Position(bs, rec, i) == rec.startblock * bs + (i - rec.startoff * bs)

(* An extent counts only if all it gives to a file of this size lies in    *)
(* the image.                                                              *)
Supplies(bs, len, size, rec, i) ==
    /\ Within(bs, rec, i)
    /\ LET end == (rec.startoff + rec.blockcount) * bs
       IN  Position(bs, rec, (IF end <= size THEN end ELSE size) - 1) < len

(* Of overlapping extents the last one supplies a byte. *)
FileByte(bs, len, size, recs, i) ==
    LET supplying == {k \in DOMAIN recs : Supplies(bs, len, size, recs[k], i)}
    IN  IF supplying = {} THEN Hole
        ELSE Position(bs, recs[CHOOSE k \in supplying : \A l \in supplying : l <= k], i)
=============================================================================
