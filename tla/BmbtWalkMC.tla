----------------------------- MODULE BmbtWalkMC -----------------------------
(***************************************************************************)
(* BmbtWalk on three blocks of 104 bytes: a BMA3 block holds two entries,  *)
(* a BMAP block five.  Every combination of leaves (one claims more than   *)
(* it holds), foreign blocks and interior blocks is an image, so trees,    *)
(* shared subtrees, cycles and damaged subtrees are all among them.        *)
(***************************************************************************)
EXTENDS BmbtWalk

Words(header, keys, ptrs) ==  \* header words, keys (all 0), pointers
    [w \in 1..(BlockSize \div WordLen) |->
        IF w > header + keys /\ w - header - keys <= Len(ptrs)
        THEN ptrs[w - header - keys] ELSE 0]

Leaf(magic, n) == [magic |-> magic, level |-> 0, numrecs |-> n, words |-> Words(9, 2, <<>>)]
Node(level, n, ptrs) ==
    [magic |-> "BMA3", level |-> level, numrecs |-> n, words |-> Words(9, 2, ptrs)]
OldNode(n, ptrs) ==
    [magic |-> "BMAP", level |-> 1, numrecs |-> n, words |-> Words(3, 5, ptrs)]
Foreign == [magic |-> "other", level |-> 1, numrecs |-> 2, words |-> Words(9, 2, <<1, 1>>)]

OutsideBlock == 5
MCBlocks ==
    {Leaf("BMA3", 1), Leaf("BMA3", 3), Leaf("BMAP", 2), Foreign, OldNode(3, <<1, 2, 1, 2, 0>>)}
    \cup {Node(level, 4, <<p, q>>) : level \in {1, 2}, p \in {1, 2}, q \in {0, 2, OutsideBlock}}

Fork(level, n, forkoff, words) ==
    [level |-> level, numrecs |-> n, forkoff |-> forkoff, words |-> words]
(* Forks of two and of three pairs: two keys of 0, then the pointers. *)
MCRoots ==
    {Fork(level, 2, 0, <<0, 0, 0, 1>>) : level \in {1, 2}}
    \cup {Fork(3, 1, 0, <<0, 0, 0, 1>>), Fork(2, 1, 0, <<2, 2, 2, 1, 0, 0>>)}

Small == 0..(ImageBlocks - 1)
MCImages == [root : MCRoots, blocks : [Small -> MCBlocks]]

(* An inode with an attribute fork behind a data fork of two pairs: the    *)
(* data fork ends at di_forkoff * 8 = 40 bytes, the slice read does not.   *)
AttrForkImages ==
    [root : {Fork(1, 2, 5, <<0, 0, 0, 1>> \o <<7, 7, 7, 7>>)},
     blocks : [Small -> {Leaf("BMA3", 1), Leaf("BMAP", 2), Foreign}]]
-----------------------------------------------------------------------------
(* The tree of an inode with an attribute fork is collected, too.          *)
AttrForkTreeCollected == Done => out = Listing(image)
=============================================================================
