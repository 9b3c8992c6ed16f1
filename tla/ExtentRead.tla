----------------------------- MODULE ExtentRead -----------------------------
(***************************************************************************)
(* Superblock::read_file and assemble_extents: a file's bytes put together *)
(* from its extent records (src/core/src/extent.rs).                       *)
(*                                                                         *)
(* A byte of the image is named by its position, so `out' tells for every  *)
(* byte of the file which byte of the image it was copied from; Zero is a  *)
(* byte of the zero-filled buffer.  Products and sums saturate at          *)
(* USIZE_MAX as saturating_mul and saturating_add do.                      *)
(***************************************************************************)
EXTENDS Integers, Sequences

CONSTANTS
    BlockSize,   \* sb_blocksize
    ImageLen,    \* image.len()
    USIZE_MAX,   \* usize::MAX
    Inodes       \* the inodes the reader is called on

Zero == -1
Rec == [startoff : Nat, startblock : Nat, blockcount : Nat]
Formats == {"Extents", "Btree", "Local", "Dev"}

(* `fork' holds the records that fit in an Extents inode's data fork, and  *)
(* for a Btree inode the records read_btree_extents returns (BmbtWalk).    *)
Inode == [format : Formats, nextents : Nat, size : Nat, fork : Seq(Rec)]

ASSUME ConstantsAssumption ==
    /\ BlockSize \in Nat \ {0}
    /\ USIZE_MAX \in Nat
    /\ ImageLen \in Nat /\ ImageLen < USIZE_MAX  \* a slice is at most isize::MAX bytes
ASSUME InodesAssumption == Inodes \subseteq Inode

VARIABLES inode, status, recs, next, out
vars == <<inode, status, recs, next, out>>
-----------------------------------------------------------------------------
AtMost(n, cap) == IF n <= cap THEN n ELSE cap
SatWrap(n) == n % (USIZE_MAX + 1)  \* mutant: wrapping arithmetic
Sat(n) == AtMost(n, USIZE_MAX)

ReadExtentsMut(fork, nextents) == fork  \* mutant: di_nextents is not looked at
(* read_extents: a lying nextents yields only the records that fit. *)
ReadExtents(fork, nextents) == SubSeq(fork, 1, AtMost(nextents, Len(fork)))

(* read_file: which records a data fork of this format holds. *)
RecsOf(i) == CASE i.format = "Extents" -> ReadExtents(i.fork, i.nextents)
               [] i.format = "Btree"   -> i.fork
               [] OTHER                -> <<>>

(* The window of the file the record fills, and where it is read from. *)
DstStart(rec) == Sat(rec.startoff * BlockSize)
DstEnd(rec) == AtMost(Sat(DstStart(rec) + Sat(rec.blockcount * BlockSize)), inode.size)
SrcStart(rec) == Sat(rec.startblock * BlockSize)
SrcEndMut(rec) == SrcStart(rec)  \* mutant: only the start of the range is checked
SrcEnd(rec) == Sat(SrcStart(rec) + (DstEnd(rec) - DstStart(rec)))
-----------------------------------------------------------------------------
Refuse ==
    /\ status = "called"
    /\ inode.size > ImageLen
    /\ status' = "refused"
    /\ UNCHANGED <<inode, recs, next, out>>

Start ==
    /\ status = "called"
    /\ inode.size <= ImageLen
    /\ recs' = RecsOf(inode)
    /\ out' = [i \in 0..(inode.size - 1) |-> Zero]
    /\ status' = "assembling"
    /\ UNCHANGED <<inode, next>>

InLoop == status = "assembling" /\ next <= Len(recs)

(* An extent that starts past the end of the file. *)
SkipPastEof ==
    /\ InLoop
    /\ DstEnd(recs[next]) <= DstStart(recs[next])
    /\ next' = next + 1
    /\ UNCHANGED <<inode, status, recs, out>>

(* An extent that lies, in whole or in part, outside the image. *)
SkipOutside ==
    /\ InLoop
    /\ DstEnd(recs[next]) > DstStart(recs[next])
    /\ SrcEnd(recs[next]) > ImageLen
    /\ next' = next + 1
    /\ UNCHANGED <<inode, status, recs, out>>

CopyMut ==  \* mutant: the window's end taken as inclusive
    /\ InLoop
    /\ LET r == recs[next]
       IN  /\ DstEnd(r) > DstStart(r)
           /\ SrcEnd(r) <= ImageLen
           /\ out' = [i \in DOMAIN out |->
                        IF i >= DstStart(r) /\ i <= DstEnd(r)
                        THEN SrcStart(r) + (i - DstStart(r)) ELSE out[i]]
    /\ next' = next + 1
    /\ UNCHANGED <<inode, status, recs>>
Copy ==
    /\ InLoop
    /\ LET r == recs[next]
       IN  /\ DstEnd(r) > DstStart(r)
           /\ SrcEnd(r) <= ImageLen
           /\ out' = [i \in DOMAIN out |->
                        IF i >= DstStart(r) /\ i < DstEnd(r)
                        THEN SrcStart(r) + (i - DstStart(r)) ELSE out[i]]
    /\ next' = next + 1
    /\ UNCHANGED <<inode, status, recs>>

Finish ==
    /\ status = "assembling" /\ next > Len(recs)
    /\ status' = "returned"
    /\ UNCHANGED <<inode, recs, next, out>>

Init ==
    /\ inode \in Inodes
    /\ status = "called"
    /\ recs = <<>> /\ next = 1 /\ out = <<>>

Next == Refuse \/ Start \/ SkipPastEof \/ SkipOutside \/ Copy \/ Finish

Spec == Init /\ [][Next]_vars
-----------------------------------------------------------------------------
(* What a map of extents means, in the arithmetic of the integers. *)
Covers(rec, i) ==
    /\ rec.startoff * BlockSize <= i
    /\ i < (rec.startoff + rec.blockcount) * BlockSize
Place(rec, i) == rec.startblock * BlockSize + (i - rec.startoff * BlockSize)
LastByte(rec) == AtMost((rec.startoff + rec.blockcount) * BlockSize, inode.size) - 1
Readable(rec) == Place(rec, LastByte(rec)) < ImageLen
Holds(rec, i) == Covers(rec, i) /\ Readable(rec)

(* The number of records the fork really holds. *)
Held(i) == CASE i.format = "Extents" -> AtMost(i.nextents, Len(i.fork))
             [] i.format = "Btree"   -> Len(i.fork)
             [] OTHER                -> 0

TypeOK ==
    /\ inode \in Inodes
    /\ status \in {"called", "refused", "assembling", "returned"}
    /\ recs \in Seq(Rec)
    /\ next \in 1..(Len(recs) + 1)
    /\ status \in {"called", "refused"} => recs = <<>> /\ out = <<>>
    /\ status \in {"assembling", "returned"} =>
            out \in [0..(inode.size - 1) -> {Zero} \cup 0..(ImageLen - 1)]

(* Byte i of the file, after the records before `upto': the image byte the *)
(* last record that holds i maps it to, a zero where none does.            *)
Assembled(upto, i, byte) ==
    \/ /\ byte = Zero
       /\ \A k \in 1..(upto - 1) : ~Holds(inode.fork[k], i)
    \/ \E k \in 1..(upto - 1) :
          /\ Holds(inode.fork[k], i)
          /\ byte = Place(inode.fork[k], i)
          /\ \A l \in (k + 1)..(upto - 1) : ~Holds(inode.fork[l], i)

(* The buffer is at every moment the file as far as its records have been  *)
(* processed: every extent's bytes at their logical place, cut off at      *)
(* di_size, holes and unreadable extents zero, no byte from anywhere else, *)
(* also where startoff or startblock times blocksize exceeds a usize       *)
(* (extent.rs:151-160 and 202-206).                                        *)
OutIsTheFile ==
    status \in {"assembling", "returned"} =>
        \A i \in 0..(inode.size - 1) : Assembled(next, i, out[i])

(* What the caller gets reflects all the records the inode has, and an     *)
(* inline or device inode gives zeros only (extent.rs:231-235).            *)
ReturnIsComplete ==
    status = "returned" =>
        \A i \in 0..(inode.size - 1) : Assembled(Held(inode) + 1, i, out[i])

(* Each step changes the bytes that the record it processes holds, to what *)
(* that record maps them to, and no others: of two records that overlap    *)
(* the later one takes every byte it can supply and leaves the earlier one *)
(* the rest, an unreadable one takes nothing, and no byte that was placed  *)
(* goes back to zero (extent.rs:183-213).                                  *)
OnlyHoldersWrite ==
    [][\A i \in DOMAIN out :
          out'[i] = IF InLoop /\ Holds(recs[next], i) THEN Place(recs[next], i) ELSE out[i]]_vars

(* What a caller sees is a reader that needs one step (FileRead): nothing  *)
(* of the buffer before the call returns, then the whole file as its       *)
(* records mean it, or the refusal (extent.rs:130-145 and 218-237).        *)
Abstract ==
    INSTANCE FileRead WITH status <- IF status = "assembling" THEN "called" ELSE status,
                           out <- IF status = "returned" THEN out ELSE <<>>
ReadsTheFile == Abstract!Spec
=============================================================================
