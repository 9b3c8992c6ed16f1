----------------------------- MODULE RecoverMC -----------------------------
(***************************************************************************)
(* Recover on an image of two allocation groups of three blocks (four      *)
(* agblock numbers each), two inodes of two bytes to a block, cut off in   *)
(* the last block.  Up to two slots hold an inode.                         *)
(***************************************************************************)
EXTENDS Recover

MCG == [agblocks |-> 3, agspan |-> 4, inopb |-> 2, blocksize |-> 4, inodesize |-> 2]

R(startoff, startblock, blockcount) ==
    [startoff |-> startoff, startblock |-> startblock, blockcount |-> blockcount]
MCForks ==
    {<<R(0, 0, 0)>>, <<R(0, 1, 1)>>, <<R(0, 1, 1), R(1, 3, 2), R(0, 0, 0)>>,
     <<R(0, 2, 1), R(3, 4, 1)>>,               \* a hole in the file
     <<R(0, 4, 1), R(1, 4, 2)>>,               \* the second leads out of the image
     <<R(0, 2, 1), R(0, 0, 0), R(1, 3, 1)>>,   \* a record behind an empty one
     <<R(0, 1, 4), R(4, 1, 4)>>}               \* more than the image in all
S(inode, version, mode, fork) ==
    [inode |-> inode, version |-> version, mode |-> mode, fork |-> fork]
Data == S(FALSE, 0, 0, <<R(0, 1, 1)>>)
MCSlots ==
    {S(TRUE, 3, 0, f) : f \in MCForks} \cup {S(TRUE, 3, 1, <<R(0, 1, 1)>>), S(TRUE, 2, 0, <<R(0, 1, 1)>>),
     S(TRUE, 4, 0, <<R(0, 2, 1)>>)}

MCImages ==
    {[o \in SlotOffsets |-> IF o = p THEN x ELSE IF o = q THEN y ELSE Data] :
        p \in SlotOffsets, q \in SlotOffsets, x \in MCSlots, y \in MCSlots}
(* Freed inodes of a file with a hole and two blocks, an estimate of eight *)
(* bytes, all of it in the image.                                          *)
HoleFork == <<R(0, 2, 1), R(3, 4, 1)>>
HoleImages == [SlotOffsets -> {Data, S(TRUE, 3, 0, HoleFork)}]
=============================================================================
