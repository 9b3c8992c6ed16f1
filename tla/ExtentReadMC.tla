---------------------------- MODULE ExtentReadMC ----------------------------
(***************************************************************************)
(* ExtentRead on an image of four blocks and a half, with an usize of five *)
(* bits: blocks 16 and up overflow it.                                     *)
(***************************************************************************)
EXTENDS ExtentRead

MCRecs == [startoff : {0, 1, 3, 16}, startblock : {0, 1, 3, 4, 16}, blockcount : {0, 1, 2, 17}]
MCForks == UNION {[1..n -> MCRecs] : n \in 0..1}
             \cup {<<r, s>> : r \in MCRecs, s \in {t \in MCRecs : t.blockcount \in {1, 2}}}
MCInodes ==
    [format : {"Extents"}, nextents : {1, 9}, size : {0, 3, 5, 9}, fork : MCForks]
    \cup [format : {"Btree", "Local"}, nextents : {0}, size : {4, 10}, fork : MCForks]

(* An image of two allocation groups: three blocks each, four agblock      *)
(* numbers each (2^sb_agblklog).                                           *)
AgBlocks == 3
AgSpan == 4
FsbnoRecs == [startoff : {0, 1}, startblock : {1, 4, 5}, blockcount : {1}]
FsbnoInodes == [format : {"Extents"}, nextents : {1}, size : {2, 4}, fork : [{1} -> FsbnoRecs]]

(* docs/RESEARCH.md:84-85: "`startblock` is an absolute fsblock (decode    *)
(* via the same agno/agblock split)".  The code multiplies it by the       *)
(* blocksize as it is, which from the second allocation group on is the    *)
(* place of another block whenever agblocks is no power of two.            *)
Decoded(startblock) == (startblock \div AgSpan) * AgBlocks + (startblock % AgSpan)
StartblockDecodedByAg ==
    status = "returned" =>
        \A i \in DOMAIN out : \A k \in 1..Held(inode) :
            LET rec == inode.fork[k]
            IN  Covers(rec, i) =>
                    out[i] = Decoded(rec.startblock) * BlockSize + (i - rec.startoff * BlockSize)
=============================================================================
