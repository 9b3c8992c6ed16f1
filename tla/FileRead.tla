------------------------------ MODULE FileRead ------------------------------
(***************************************************************************)
(* read_file as its callers know it: one step from the call to the whole   *)
(* file, or to the refusal of a size the image cannot hold.  ExtentRead    *)
(* implements it.                                                          *)
(***************************************************************************)
EXTENDS FileMap

CONSTANTS BlockSize, ImageLen, Inodes
VARIABLES inode, status, out

(* The records the data fork holds (read_file, read_extents). *)
Recs ==
    CASE inode.format = "Extents" ->
            SubSeq(inode.fork, 1, IF inode.nextents <= Len(inode.fork) THEN inode.nextents
                                  ELSE Len(inode.fork))
      [] inode.format = "Btree"   -> inode.fork
      [] OTHER                    -> <<>>

Init == inode \in Inodes /\ status = "called" /\ out = <<>>

Refuse ==
    /\ status = "called" /\ inode.size > ImageLen
    /\ status' = "refused"
    /\ UNCHANGED <<inode, out>>
Read ==
    /\ status = "called" /\ inode.size <= ImageLen
    /\ status' = "returned"
    /\ out' = [i \in 0..(inode.size - 1) |-> FileByte(BlockSize, ImageLen, inode.size, Recs, i)]
    /\ UNCHANGED inode

Next == Refuse \/ Read
Spec == Init /\ [][Next]_<<inode, status, out>>
=============================================================================
