-------------------------- MODULE ExtentReadProofs --------------------------
(***************************************************************************)
(* Theorems about ExtentRead for every block size, image length, width of  *)
(* an usize and set of inodes.                                             *)
(***************************************************************************)
EXTENDS ExtentRead, TLAPS, SequenceTheorems

USE ConstantsAssumption, InodesAssumption

LEMMA Products ==
    ASSUME NEW rec \in Rec
    PROVE  /\ rec.startoff * BlockSize \in Nat
           /\ rec.startblock * BlockSize \in Nat
           /\ rec.blockcount * BlockSize \in Nat
           /\ (rec.startoff + rec.blockcount) * BlockSize
                = rec.startoff * BlockSize + rec.blockcount * BlockSize
<1>1. rec.startoff \in Nat /\ rec.startblock \in Nat /\ rec.blockcount \in Nat
  BY DEF Rec
<1>2. \A m, n \in Nat : m * BlockSize \in Nat
                        /\ (m + n) * BlockSize = m * BlockSize + n * BlockSize
  OBVIOUS
<1> QED
  BY <1>1, <1>2

(* The saturating windows of assemble_extents, extent.rs:184-200, agree    *)
(* with the windows in integers wherever they meet the file and the image. *)
LEMMA WindowFacts ==
    ASSUME NEW rec \in Rec,
           inode.size \in Nat, inode.size <= ImageLen,
           NEW i \in 0..(inode.size - 1)
    PROVE  /\ Covers(rec, i) <=> DstStart(rec) <= i /\ i < DstEnd(rec)
           /\ Covers(rec, i) => (SrcEnd(rec) <= ImageLen <=> Readable(rec))
           /\ Covers(rec, i) /\ SrcEnd(rec) <= ImageLen =>
                /\ SrcStart(rec) + (i - DstStart(rec)) = Place(rec, i)
                /\ Place(rec, i) \in 0..(ImageLen - 1)
<1> DEFINE a == rec.startoff * BlockSize
           s == rec.startblock * BlockSize
           c == rec.blockcount * BlockSize
           e == (rec.startoff + rec.blockcount) * BlockSize
<1>1. a \in Nat /\ s \in Nat /\ c \in Nat /\ e = a + c
  BY Products
<1>2. Covers(rec, i) <=> a <= i /\ i < e
  BY DEF Covers
<1>3. /\ DstStart(rec) = AtMost(a, USIZE_MAX)
      /\ DstEnd(rec) = AtMost(AtMost(DstStart(rec) + AtMost(c, USIZE_MAX), USIZE_MAX), inode.size)
      /\ SrcStart(rec) = AtMost(s, USIZE_MAX)
      /\ SrcEnd(rec) = AtMost(SrcStart(rec) + (DstEnd(rec) - DstStart(rec)), USIZE_MAX)
  BY DEF DstStart, DstEnd, SrcStart, SrcEnd, Sat
<1>4. Place(rec, i) = s + (i - a)
  BY DEF Place
<1>5. Readable(rec) <=> s + (AtMost(e, inode.size) - 1 - a) < ImageLen
  BY DEF Readable, Place, LastByte
<1> HIDE DEF a, s, c, e
<1>6. i \in Nat /\ i < inode.size
  OBVIOUS
<1>7. Covers(rec, i) <=> DstStart(rec) <= i /\ i < DstEnd(rec)
  BY <1>1, <1>2, <1>3, <1>6 DEF AtMost
<1>8. ASSUME Covers(rec, i)
      PROVE  /\ DstStart(rec) = a /\ DstEnd(rec) = AtMost(e, inode.size)
             /\ a <= i /\ i < e
  BY <1>1, <1>2, <1>3, <1>6, <1>8 DEF AtMost
<1>9. ASSUME Covers(rec, i)
      PROVE  SrcEnd(rec) <= ImageLen <=> Readable(rec)
  BY <1>1, <1>3, <1>5, <1>6, <1>8, <1>9 DEF AtMost
<1>10. ASSUME Covers(rec, i), SrcEnd(rec) <= ImageLen
       PROVE  /\ SrcStart(rec) + (i - DstStart(rec)) = Place(rec, i)
              /\ Place(rec, i) \in 0..(ImageLen - 1)
  BY <1>1, <1>3, <1>4, <1>6, <1>8, <1>10 DEF AtMost
<1> QED
  BY <1>7, <1>9, <1>10

(* An extent that the loop passes over holds no byte of the file, and the  *)
(* one it copies holds exactly its window.                                 *)
LEMMA HoldsFacts ==
    ASSUME NEW rec \in Rec,
           inode.size \in Nat, inode.size <= ImageLen,
           NEW i \in 0..(inode.size - 1)
    PROVE  /\ DstEnd(rec) <= DstStart(rec) => ~Holds(rec, i)
           /\ SrcEnd(rec) > ImageLen => ~Holds(rec, i)
           /\ SrcEnd(rec) <= ImageLen =>
                (Holds(rec, i) <=> DstStart(rec) <= i /\ i < DstEnd(rec))
           /\ Holds(rec, i) =>
                /\ SrcStart(rec) + (i - DstStart(rec)) = Place(rec, i)
                /\ Place(rec, i) \in 0..(ImageLen - 1)
<1>1. DstStart(rec) \in Nat /\ DstEnd(rec) \in Nat /\ SrcEnd(rec) \in Int
  BY Products DEF DstStart, DstEnd, SrcStart, SrcEnd, Sat, AtMost
<1>2. Holds(rec, i) <=> Covers(rec, i) /\ Readable(rec)
  BY DEF Holds
<1> QED
  BY <1>1, <1>2, WindowFacts

LEMMA RecsFacts ==
    ASSUME NEW i \in Inode
    PROVE  /\ RecsOf(i) \in Seq(Rec)
           /\ Len(RecsOf(i)) = Held(i)
           /\ \A k \in 1..Held(i) : RecsOf(i)[k] = i.fork[k] /\ i.fork[k] \in Rec
           /\ Held(i) \in Nat /\ Held(i) <= Len(i.fork)
<1>1. i.fork \in Seq(Rec) /\ Len(i.fork) \in Nat /\ i.nextents \in Nat
  BY DEF Inode
<1> DEFINE n == AtMost(i.nextents, Len(i.fork))
<1>2. CASE i.format = "Extents"
  <2>1. n \in Nat /\ n <= Len(i.fork)
    BY <1>1 DEF AtMost
  <2>2. \A k \in 1..n : i.fork[k] \in Rec
    BY <1>1, <2>1
  <2>3. RecsOf(i) = SubSeq(i.fork, 1, n) /\ Held(i) = n
    BY <1>2 DEF RecsOf, ReadExtents, Held
  <2> HIDE DEF n
  <2>4. /\ SubSeq(i.fork, 1, n) \in Seq(Rec)
        /\ Len(SubSeq(i.fork, 1, n)) = IF 1 <= n THEN n - 1 + 1 ELSE 0
        /\ \A k \in 1..(n - 1 + 1) : SubSeq(i.fork, 1, n)[k] = i.fork[1 + k - 1]
    BY <2>1, <2>2, SubSeqProperties
  <2>5. Len(SubSeq(i.fork, 1, n)) = n
    BY <2>1, <2>4
  <2>6. \A k \in 1..n : SubSeq(i.fork, 1, n)[k] = i.fork[k]
    BY <2>1, <2>4
  <2> QED
    BY <2>1, <2>2, <2>3, <2>4, <2>5, <2>6
<1>3. CASE i.format = "Btree"
  <2>1. RecsOf(i) = i.fork /\ Held(i) = Len(i.fork)
    BY <1>3 DEF RecsOf, Held
  <2> QED
    BY <1>1, <2>1
<1>4. CASE i.format \notin {"Extents", "Btree"}
  <2>1. RecsOf(i) = <<>> /\ Held(i) = 0
    BY <1>4 DEF RecsOf, Held
  <2> QED
    BY <1>1, <2>1
<1> QED
  BY <1>2, <1>3, <1>4
-----------------------------------------------------------------------------
(* While the loop runs, its records are the ones the fork holds and the    *)
(* file is no larger than the image.                                       *)
LoopInv ==
    /\ status = "called" => next = 1
    /\ status \in {"assembling", "returned"} =>
         recs = RecsOf(inode) /\ inode.size <= ImageLen
    /\ status = "returned" => next = Held(inode) + 1

Inv == TypeOK /\ LoopInv /\ OutIsTheFile

(* One record is processed: what was assembled before it stays what it     *)
(* was except for the bytes the record holds.                              *)
LEMMA OneMore ==
    ASSUME NEW n \in Nat \ {0}, NEW i, NEW old, NEW byte,
           Assembled(n, i, old),
           Holds(inode.fork[n], i) => byte = Place(inode.fork[n], i),
           ~Holds(inode.fork[n], i) => byte = old
    PROVE  Assembled(n + 1, i, byte)
<1>1. \A k : k \in 1..n <=> k \in 1..(n - 1) \/ k = n
  OBVIOUS
<1>2. CASE Holds(inode.fork[n], i)
  <2>1. n \in 1..((n + 1) - 1) /\ \A l \in (n + 1)..((n + 1) - 1) : FALSE
    OBVIOUS
  <2> QED
    BY <1>2, <2>1 DEF Assembled
<1>3. CASE ~Holds(inode.fork[n], i) /\ old = Zero /\ \A k \in 1..(n - 1) : ~Holds(inode.fork[k], i)
  <2>1. (n + 1) - 1 = n
    OBVIOUS
  <2> QED
    BY <1>1, <1>3, <2>1 DEF Assembled
<1>4. ASSUME ~Holds(inode.fork[n], i),
             NEW k \in 1..(n - 1),
             Holds(inode.fork[k], i), old = Place(inode.fork[k], i),
             \A l \in (k + 1)..(n - 1) : ~Holds(inode.fork[l], i)
      PROVE  Assembled(n + 1, i, byte)
  <2>1. k \in 1..((n + 1) - 1)
    OBVIOUS
  <2>2. \A l \in (k + 1)..((n + 1) - 1) : l \in (k + 1)..(n - 1) \/ l = n
    OBVIOUS
  <2> QED
    BY <1>4, <2>1, <2>2 DEF Assembled
<1> QED
  BY <1>2, <1>3, <1>4 DEF Assembled

LEMMA LoopFacts ==
    ASSUME Inv, InLoop
    PROVE  /\ inode \in Inode /\ inode.size \in Nat /\ inode.size <= ImageLen
           /\ next \in Nat \ {0} /\ next <= Len(recs) /\ Len(recs) \in Nat
           /\ recs[next] = inode.fork[next] /\ recs[next] \in Rec
           /\ out \in [0..(inode.size - 1) -> {Zero} \cup 0..(ImageLen - 1)]
           /\ \A i \in 0..(inode.size - 1) : Assembled(next, i, out[i])
<1>1. inode \in Inode /\ inode.size \in Nat
  BY DEF Inv, TypeOK, Inode
<1>2. /\ recs = RecsOf(inode) /\ inode.size <= ImageLen
      /\ \A i \in 0..(inode.size - 1) : Assembled(next, i, out[i])
      /\ out \in [0..(inode.size - 1) -> {Zero} \cup 0..(ImageLen - 1)]
  BY DEF Inv, InLoop, TypeOK, LoopInv, OutIsTheFile
<1>3. next \in Nat \ {0} /\ next <= Len(recs) /\ Len(recs) \in Nat
  BY DEF Inv, TypeOK, InLoop
<1>4. recs[next] = inode.fork[next] /\ recs[next] \in Rec
  <2>1. next \in 1..Held(inode)
    BY <1>1, <1>2, <1>3, RecsFacts
  <2> QED
    BY <1>1, <1>2, <2>1, RecsFacts
<1> QED
  BY <1>1, <1>2, <1>3, <1>4

LEMMA StepInv == Inv /\ [Next]_vars => Inv'
<1> SUFFICES ASSUME Inv, [Next]_vars PROVE Inv'
  OBVIOUS
<1>0. inode \in Inode /\ inode.size \in Nat
  BY DEF Inv, TypeOK, Inode
<1>1. CASE Refuse
  BY <1>1 DEF Refuse, Inv, TypeOK, LoopInv, OutIsTheFile
<1>2. CASE Start
  <2>1. /\ status = "called" /\ status' = "assembling" /\ inode' = inode
        /\ next' = 1 /\ recs' = RecsOf(inode) /\ inode.size <= ImageLen
        /\ out' = [i \in 0..(inode.size - 1) |-> Zero]
    BY <1>2 DEF Start, Inv, LoopInv
  <2>2. recs' \in Seq(Rec) /\ Len(recs') \in Nat
    BY <1>0, <2>1, RecsFacts
  <2>3. TypeOK'
    BY <2>1, <2>2 DEF Inv, TypeOK
  <2>4. LoopInv'
    BY <2>1 DEF LoopInv
  <2>5. ASSUME NEW i \in 0..(inode.size - 1)
        PROVE  Assembled(1, i, out'[i])
    BY <2>1 DEF Assembled
  <2>6. OutIsTheFile'
    BY <2>1, <2>5 DEF OutIsTheFile, Assembled, Holds, Covers, Readable, Place, LastByte
  <2> QED
    BY <2>3, <2>4, <2>6 DEF Inv
<1>3. CASE SkipPastEof \/ SkipOutside
  <2>1. /\ InLoop /\ next' = next + 1
        /\ inode' = inode /\ status' = status /\ recs' = recs /\ out' = out
        /\ DstEnd(recs[next]) <= DstStart(recs[next]) \/ SrcEnd(recs[next]) > ImageLen
    BY <1>3 DEF SkipPastEof, SkipOutside
  <2>2. TypeOK'
    BY <2>1, LoopFacts DEF Inv, TypeOK
  <2>3. LoopInv'
    BY <2>1 DEF Inv, LoopInv, InLoop
  <2>4. ASSUME NEW i \in 0..(inode.size - 1)
        PROVE  Assembled(next + 1, i, out[i])
    <3>1. ~Holds(inode.fork[next], i)
      BY <2>1, LoopFacts, HoldsFacts
    <3> QED
      BY <2>1, <3>1, LoopFacts, OneMore
  <2>5. OutIsTheFile'
    BY <2>1, <2>4 DEF OutIsTheFile, Assembled, Holds, Covers, Readable, Place, LastByte
  <2> QED
    BY <2>2, <2>3, <2>5 DEF Inv
<1>4. CASE Copy
  <2> DEFINE r == recs[next]
  <2>1. /\ InLoop /\ next' = next + 1
        /\ inode' = inode /\ status' = status /\ recs' = recs
        /\ SrcEnd(r) <= ImageLen
        /\ out' = [i \in DOMAIN out |->
                     IF i >= DstStart(r) /\ i < DstEnd(r)
                     THEN SrcStart(r) + (i - DstStart(r)) ELSE out[i]]
    BY <1>4 DEF Copy
  <2>2. /\ inode.size \in Nat /\ inode.size <= ImageLen
        /\ r = inode.fork[next] /\ r \in Rec
        /\ next \in Nat \ {0} /\ next <= Len(recs) /\ Len(recs) \in Nat
        /\ out \in [0..(inode.size - 1) -> {Zero} \cup 0..(ImageLen - 1)]
    BY <2>1, LoopFacts
  <2>3. DstStart(r) \in Nat
    BY <2>2, Products DEF DstStart, Sat, AtMost
  <2> HIDE DEF r
  <2>4. ASSUME NEW i \in 0..(inode.size - 1)
        PROVE  /\ Holds(r, i) => out'[i] = Place(r, i) /\ Place(r, i) \in 0..(ImageLen - 1)
               /\ ~Holds(r, i) => out'[i] = out[i]
    <3>1. Holds(r, i) <=> DstStart(r) <= i /\ i < DstEnd(r)
      BY <2>1, <2>2, HoldsFacts
    <3>2. Holds(r, i) => /\ SrcStart(r) + (i - DstStart(r)) = Place(r, i)
                         /\ Place(r, i) \in 0..(ImageLen - 1)
      BY <2>2, HoldsFacts
    <3>3. i >= DstStart(r) <=> DstStart(r) <= i
      BY <2>3
    <3> QED
      BY <2>1, <2>2, <3>1, <3>2, <3>3
  <2>5. out' \in [0..(inode.size - 1) -> {Zero} \cup 0..(ImageLen - 1)]
    <3>1. DOMAIN out = 0..(inode.size - 1)
      BY <2>2
    <3>2. \A i \in 0..(inode.size - 1) : out'[i] \in {Zero} \cup 0..(ImageLen - 1)
      BY <2>2, <2>4
    <3>3. DOMAIN out' = 0..(inode.size - 1) /\ out' = [i \in DOMAIN out' |-> out'[i]]
      BY <2>1, <3>1
    <3> QED
      BY <3>2, <3>3
  <2>6. TypeOK'
    BY <2>1, <2>2, <2>5 DEF Inv, TypeOK, InLoop
  <2>7. LoopInv'
    BY <2>1 DEF Inv, LoopInv, InLoop
  <2>8. ASSUME NEW i \in 0..(inode.size - 1)
        PROVE  Assembled(next + 1, i, out'[i])
    <3>1. Assembled(next, i, out[i])
      BY <2>1, LoopFacts
    <3> QED
      BY <2>2, <2>4, <3>1, OneMore
  <2>9. OutIsTheFile'
    BY <2>1, <2>8 DEF OutIsTheFile, Assembled, Holds, Covers, Readable, Place, LastByte
  <2> QED
    BY <2>6, <2>7, <2>9 DEF Inv
<1>5. CASE Finish
  <2>1. next \in Nat /\ Len(recs) \in Nat /\ next = Len(recs) + 1
    BY <1>5 DEF Finish, Inv, TypeOK
  <2>2. next = Held(inode) + 1
    BY <1>0, <1>5, <2>1, RecsFacts DEF Finish, Inv, LoopInv
  <2>3. LoopInv'
    BY <1>5, <2>2 DEF Finish, Inv, LoopInv, Held
  <2>4. TypeOK' /\ OutIsTheFile'
    BY <1>5 DEF Finish, Inv, TypeOK, OutIsTheFile, Assembled, Holds, Covers, Readable, Place,
                LastByte
  <2> QED
    BY <2>3, <2>4 DEF Inv
<1>6. CASE UNCHANGED vars
  BY <1>6 DEF vars, Inv, TypeOK, LoopInv, Held, OutIsTheFile, Assembled, Holds, Covers,
              Readable, Place, LastByte
<1> QED
  BY <1>1, <1>2, <1>3, <1>4, <1>5, <1>6 DEF Next

(* The strengthening from which the theorems below follow: the records in  *)
(* the loop are the first Held(inode) records of the fork.                 *)
THEOREM InvHolds == Spec => []Inv
<1>1. Init => Inv
  BY DEF Init, Inv, TypeOK, LoopInv, OutIsTheFile
<1> QED
  BY <1>1, StepInv, PTL DEF Spec

(* The buffer and the bookkeeping have their types throughout. *)
THEOREM TypeCorrect == Spec => []TypeOK
  BY InvHolds, PTL DEF Inv

(* assemble_extents builds the file and nothing else (extent.rs:181-214):  *)
(* at every moment each byte is what the last record holding it maps, and  *)
(* zero in holes, for every map, overlapping, overflowing or pointing      *)
(* outside the image.                                                      *)
THEOREM OutIsAlwaysTheFile == Spec => []OutIsTheFile
  BY InvHolds, PTL DEF Inv

(* What read_file returns reflects every record the fork holds, and an     *)
(* inline or device fork is never read as records (extent.rs:238-251).     *)
THEOREM ReturnsTheWholeFile == Spec => []ReturnIsComplete
<1>1. Inv => ReturnIsComplete
  BY DEF Inv, LoopInv, OutIsTheFile, ReturnIsComplete
<1> QED
  BY <1>1, InvHolds, PTL
-----------------------------------------------------------------------------
(* What the loop has assembled when it ends is what FileMap makes of the   *)
(* records: its CHOOSE of the last supplying record is the loop's last     *)
(* write.                                                                  *)
LEMMA AssembledIsFileByte ==
    ASSUME inode \in Inode,
           NEW i \in 0..(inode.size - 1), NEW byte,
           Assembled(Held(inode) + 1, i, byte)
    PROVE  byte = Abstract!FileByte(BlockSize, ImageLen, inode.size, RecsOf(inode), i)
<1> DEFINE rs == RecsOf(inode)
           n == Held(inode)
           Gives(k) == Abstract!Supplies(BlockSize, ImageLen, inode.size, rs[k], i)
           S == {k \in DOMAIN rs : Gives(k)}
<1>1. /\ n \in Nat /\ DOMAIN rs = 1..n
      /\ \A k \in 1..n : rs[k] = inode.fork[k]
  BY RecsFacts
<1>2. \A k \in 1..n : Gives(k) <=> Holds(inode.fork[k], i)
  BY <1>1 DEF Abstract!Supplies, Abstract!Within, Abstract!Position, Holds, Covers, Readable,
              Place, LastByte, AtMost
<1>3. \A k : Abstract!Position(BlockSize, rs[k], i) = Place(rs[k], i)
  BY DEF Abstract!Position, Place
<1>4. Abstract!FileByte(BlockSize, ImageLen, inode.size, rs, i)
        = IF S = {} THEN Zero ELSE Place(rs[CHOOSE k \in S : \A l \in S : l <= k], i)
  BY <1>3 DEF Abstract!FileByte, Abstract!Hole, Zero
<1>5. S = {k \in 1..n : Holds(inode.fork[k], i)}
  BY <1>1, <1>2
<1> HIDE DEF S, n, rs
<1>6. CASE byte = Zero /\ \A k \in 1..((n + 1) - 1) : ~Holds(inode.fork[k], i)
  <2>1. S = {}
    BY <1>1, <1>5, <1>6
  <2> QED
    BY <1>4, <1>6, <2>1 DEF rs
<1>7. ASSUME NEW k \in 1..((n + 1) - 1),
             Holds(inode.fork[k], i), byte = Place(inode.fork[k], i),
             \A l \in (k + 1)..((n + 1) - 1) : ~Holds(inode.fork[l], i)
      PROVE  byte = Abstract!FileByte(BlockSize, ImageLen, inode.size, rs, i)
  <2>1. k \in S /\ k \in 1..n
    BY <1>1, <1>5, <1>7
  <2>2. \A l \in S : l <= k
    BY <1>1, <1>5, <1>7
  <2>3. \A m \in S : (\A l \in S : l <= m) => m = k
    BY <1>1, <1>5, <2>1, <2>2
  <2>4. (CHOOSE m \in S : \A l \in S : l <= m) = k
    BY <2>1, <2>2, <2>3
  <2> QED
    BY <1>1, <1>4, <1>7, <2>1, <2>4
<1> QED
  BY <1>6, <1>7 DEF Assembled, rs, n

LEMMA SameRecs == Abstract!Recs = RecsOf(inode)
  BY DEF Abstract!Recs, RecsOf, ReadExtents, AtMost

(* The loop of assemble_extents implements the reader that returns the     *)
(* whole file in one step (extent.rs:130-145 and 218-252), for every map   *)
(* of records: what is seen of it at any moment is nothing, the refusal or *)
(* the file that FileMap defines from the records, byte by byte.           *)
THEOREM ReaderImplementsFileRead == Spec => ReadsTheFile
<1> DEFINE st == IF status = "assembling" THEN "called" ELSE status
           o == IF status = "returned" THEN out ELSE <<>>
<1>1. Init => Abstract!Init
  BY DEF Init, Abstract!Init
<1>2. Inv /\ [Next]_vars => [Abstract!Next]_<<inode, st, o>>
  <2> SUFFICES ASSUME Inv, [Next]_vars
               PROVE  Abstract!Next \/ UNCHANGED <<inode, st, o>>
    OBVIOUS
  <2>0. inode \in Inode /\ inode.size \in Nat
    BY DEF Inv, TypeOK, Inode
  <2>1. CASE Refuse
    <3>1. Abstract!Refuse
      BY <2>1 DEF Refuse, Abstract!Refuse, Inv, TypeOK
    <3> QED
      BY <3>1 DEF Abstract!Next
  <2>2. CASE Start
    BY <2>2 DEF Start
  <2>3. CASE SkipPastEof \/ SkipOutside \/ Copy
    BY <2>3 DEF SkipPastEof, SkipOutside, Copy, InLoop
  <2>4. CASE Finish
    <3>1. /\ status = "assembling" /\ status' = "returned"
          /\ inode' = inode /\ out' = out /\ inode.size <= ImageLen
      BY <2>4 DEF Finish, Inv, LoopInv
    <3>2. next = Held(inode) + 1
      <4>1. next \in Nat /\ Len(recs) \in Nat /\ next = Len(recs) + 1
        BY <2>4 DEF Finish, Inv, TypeOK
      <4> QED
        BY <2>0, <3>1, <4>1, RecsFacts DEF Inv, LoopInv
    <3>3. ASSUME NEW i \in 0..(inode.size - 1)
          PROVE  out[i] = Abstract!FileByte(BlockSize, ImageLen, inode.size, Abstract!Recs, i)
      <4>1. Assembled(Held(inode) + 1, i, out[i])
        BY <3>1, <3>2 DEF Inv, OutIsTheFile
      <4> QED
        BY <2>0, <4>1, AssembledIsFileByte, SameRecs
    <3>4. out = [i \in 0..(inode.size - 1) |->
                   Abstract!FileByte(BlockSize, ImageLen, inode.size, Abstract!Recs, i)]
      <4>1. out = [i \in 0..(inode.size - 1) |-> out[i]]
        BY <3>1 DEF Inv, TypeOK
      <4> QED
        BY <3>3, <4>1
    <3>5. Abstract!Read
      BY <3>1, <3>4 DEF Abstract!Read
    <3> QED
      BY <3>5 DEF Abstract!Next
  <2>5. CASE UNCHANGED vars
    BY <2>5 DEF vars
  <2> QED
    BY <2>1, <2>2, <2>3, <2>4, <2>5 DEF Next
<1> QED
  BY <1>1, <1>2, InvHolds, PTL DEF Spec, ReadsTheFile, Abstract!Spec
-----------------------------------------------------------------------------
(* assemble_extents writes a byte only for a record that holds it, and     *)
(* then always (extent.rs:183-213): in any map, with overlapping records,  *)
(* windows that saturate and extents outside the image, a step puts every  *)
(* byte its record holds in its place and leaves all others as they are.   *)
THEOREM OnlyHoldersEverWrite == Spec => OnlyHoldersWrite
<1>1. Inv /\ [Next]_vars =>
        [\A i \in DOMAIN out :
            out'[i] = IF InLoop /\ Holds(recs[next], i) THEN Place(recs[next], i) ELSE out[i]]_vars
  <2> SUFFICES ASSUME Inv, Next, NEW i \in DOMAIN out
               PROVE  out'[i] = IF InLoop /\ Holds(recs[next], i) THEN Place(recs[next], i) ELSE out[i]
    OBVIOUS
  <2>1. CASE Refuse \/ Finish
    <3>1. ~InLoop /\ out' = out
      BY <2>1 DEF Refuse, Finish, InLoop, Inv, TypeOK
    <3> QED
      BY <3>1
  <2>2. CASE Start
    BY <2>2 DEF Start, Inv, TypeOK
  <2>3. CASE SkipPastEof \/ SkipOutside
    <3>1. /\ InLoop /\ out' = out
          /\ DstEnd(recs[next]) <= DstStart(recs[next]) \/ SrcEnd(recs[next]) > ImageLen
      BY <2>3 DEF SkipPastEof, SkipOutside
    <3>2. ~Holds(recs[next], i)
      BY <3>1, LoopFacts, HoldsFacts
    <3> QED
      BY <3>1, <3>2
  <2>4. CASE Copy
    <3> DEFINE r == recs[next]
    <3>1. /\ InLoop /\ SrcEnd(r) <= ImageLen
          /\ out'[i] = IF i >= DstStart(r) /\ i < DstEnd(r)
                       THEN SrcStart(r) + (i - DstStart(r)) ELSE out[i]
      BY <2>4 DEF Copy
    <3>2. /\ inode.size \in Nat /\ inode.size <= ImageLen
          /\ r \in Rec /\ i \in 0..(inode.size - 1)
      BY <3>1, LoopFacts
    <3>3. DstStart(r) \in Nat
      BY <3>2, Products DEF DstStart, Sat, AtMost
    <3> HIDE DEF r
    <3>4. Holds(r, i) <=> DstStart(r) <= i /\ i < DstEnd(r)
      BY <3>1, <3>2, HoldsFacts
    <3>5. Holds(r, i) => SrcStart(r) + (i - DstStart(r)) = Place(r, i)
      BY <3>2, HoldsFacts
    <3>6. i >= DstStart(r) <=> DstStart(r) <= i
      BY <3>2, <3>3
    <3>7. out'[i] = IF Holds(r, i) THEN Place(r, i) ELSE out[i]
      BY <3>1, <3>4, <3>5, <3>6
    <3> QED
      BY <3>1, <3>7 DEF r
  <2> QED
    BY <2>1, <2>2, <2>3, <2>4 DEF Next
<1> QED
  BY <1>1, InvHolds, PTL DEF Spec, OnlyHoldersWrite
=============================================================================
