--------------------------- MODULE RecoverProofs ---------------------------
(***************************************************************************)
(* Theorems about Recover for every geometry mkfs writes, every length of  *)
(* the image, every content of its inode slots and every number of them.   *)
(***************************************************************************)
EXTENDS Recover, DataLemmas, FunctionTheorems, FiniteSetTheorems

(* Where the numbers fit in 64 bits, offset_to_inode loses nothing of one. *)
LEMMA WholeNumber ==
    ASSUME NEW g \in Geometries, NEW len \in Nat, FitsU64(g, len),
           NEW pos \in Nat, pos <= len
    PROVE  OffsetToInode(g, pos) =
              (pos \div (g.agblocks * g.blocksize)) * (g.agspan * g.inopb)
                + (((pos % (g.agblocks * g.blocksize)) \div g.blocksize) * g.inopb
                     + ((pos % (g.agblocks * g.blocksize)) % g.blocksize) \div g.inodesize)
<1> USE U64Assumption
<1> DEFINE d == g.agblocks * g.blocksize
           span == g.agspan * g.inopb
           b == ((pos % d) \div g.blocksize) * g.inopb
           s == ((pos % d) % g.blocksize) \div g.inodesize
<1>1. /\ g.agblocks \in Nat \ {0} /\ g.agspan \in Nat \ {0} /\ g.inopb \in Nat \ {0}
      /\ g.blocksize \in Nat \ {0} /\ g.inodesize \in Nat \ {0}
  BY DEF Geometries
<1>2. d \in Nat \ {0} /\ span \in Nat
  BY <1>1
<1>3. Under(U64_MAX, span, d, len)
  BY DEF FitsU64, Under
<1>4. OffsetToInode(g, pos) =
        IF d = 0 \/ g.inodesize = 0 \/ span > U64_MAX THEN NoNumber
        ELSE (((pos \div d) * span) % (U64_MAX + 1)) + (b + s)
  BY DEF OffsetToInode
<1> HIDE DEF d, span
<1>5. span <= U64_MAX /\ ((pos \div d) * span) % (U64_MAX + 1) = (pos \div d) * span
  BY <1>2, <1>3, Untruncated
<1>6. ~(d = 0 \/ g.inodesize = 0 \/ span > U64_MAX)
  BY <1>1, <1>2, <1>5
<1>7. OffsetToInode(g, pos) = (pos \div d) * span + (b + s)
  BY <1>4, <1>5, <1>6
<1> QED
  BY <1>7 DEF b, s, d, span

(* offset_to_inode gives the number by which inode_to_location finds the   *)
(* slot again (lib.rs:567, "Reverse of Superblock::inode_to_location"), so *)
(* an inode reported by the sweeps is the one found at that offset.  The   *)
(* run recover checks it of every report (NumbersLocate).                  *)
THEOREM RoundTrip ==
    ASSUME NEW g \in Geometries,
           NEW len \in Nat, FitsU64(g, len), len <= U64_MAX,
           NEW pos \in Nat, pos % g.inodesize = 0, pos <= len
    PROVE  InodeToLocation(g, OffsetToInode(g, pos)) = pos
<1> USE U64Assumption
<1> DEFINE A == g.agblocks
           S == g.agspan
           P == g.inopb
           B == g.blocksize
           I == g.inodesize
           SP == S * P
           q == pos \div (A * B)
           b == (pos % (A * B)) \div B
           s == ((pos % (A * B)) % B) \div I
           ino == q * SP + (b * P + s)
<1>1. /\ A \in Nat \ {0} /\ S \in Nat \ {0} /\ P \in Nat \ {0}
      /\ B \in Nat \ {0} /\ I \in Nat \ {0}
      /\ B = P * I /\ A <= S
  BY DEF Geometries
<1>2. OffsetToInode(g, pos) = ino
  BY WholeNumber
<1>3. InodeToLocation(g, ino) =
        LET fsblock == Sat(Sat((ino \div SP) * A) + ((ino % SP) \div P))
        IN  Sat(Sat(fsblock * B) + Sat(((ino % SP) % P) * I))
  BY DEF InodeToLocation
<1>4. pos % I = 0
  OBVIOUS
<1> HIDE DEF A, S, P, B, I
<1>5. /\ q \in Nat /\ b \in Nat /\ s \in Nat
      /\ ino \div SP = q /\ (ino % SP) \div P = b /\ (ino % SP) % P = s
      /\ pos = (q * A + b) * B + s * I
  <2>1. q = GroupDigit(A, B, pos) /\ b = BlockDigit(A, B, pos) /\ s = SlotDigit(A, B, I, pos)
        /\ ino = NumberAt(A, S, P, B, I, pos)
    BY DEF SP, GroupDigit, BlockDigit, SlotDigit, NumberAt
  <2> HIDE DEF q, b, s, ino
  <2> QED
    BY <1>1, <1>4, <2>1, Digits DEF SP
<1> HIDE DEF SP, q, b, s, ino
<1>14. /\ q * A \in Nat /\ s * I \in Nat /\ q * A + b <= (q * A + b) * B
       /\ (q * A + b) * B \in Nat
  BY <1>1, <1>5
<1> DEFINE f == q * A + b
           fB == f * B
           sI == s * I
           qA == q * A
<1>15. /\ qA \in Nat /\ f = qA + b /\ f <= fB /\ fB \in Nat /\ sI \in Nat
       /\ pos = fB + sI
  BY <1>5, <1>14
<1>16. InodeToLocation(g, ino) = Sat(Sat(Sat(Sat(qA) + b) * B) + Sat(sI))
  BY <1>3, <1>5
<1> HIDE DEF f, fB, sI, qA
<1>17. Sat(qA) = qA /\ Sat(qA + b) = f /\ Sat(fB) = fB /\ Sat(sI) = sI /\ Sat(fB + sI) = pos
  BY <1>5, <1>15 DEF Sat
<1> QED
  BY <1>2, <1>15, <1>16, <1>17 DEF fB

(* An inode number is a natural number, wherever the slot lies.            *)
LEMMA NumberType ==
    ASSUME NEW g \in Geometries, NEW len \in Nat, FitsU64(g, len),
           NEW pos \in Nat, pos <= len
    PROVE  OffsetToInode(g, pos) \in Nat
<1> DEFINE agbytes == g.agblocks * g.blocksize
           within == pos % agbytes
           slot == (within % g.blocksize) \div g.inodesize
           agino == (within \div g.blocksize) * g.inopb + slot
           span == g.agspan * g.inopb
<1>1. /\ g.agblocks \in Nat \ {0} /\ g.agspan \in Nat \ {0} /\ g.inopb \in Nat \ {0}
      /\ g.blocksize \in Nat \ {0} /\ g.inodesize \in Nat \ {0}
  BY DEF Geometries
<1>2. \A x, y \in Nat : x * y \in Nat /\ (x # 0 /\ y # 0 => x * y # 0)
  BY SMT
<1>3. agbytes \in Nat \ {0} /\ span \in Nat
  BY <1>1, <1>2
<1> HIDE DEF agbytes, span
<1>4. within \in Nat /\ pos \div agbytes \in Nat
  BY <1>3, Division
<1> HIDE DEF within
<1>5. within \div g.blocksize \in Nat /\ slot \in Nat
  BY <1>1, <1>4, Division
<1> HIDE DEF slot
<1>6. agino \in Nat
  BY <1>1, <1>2, <1>5
<1> HIDE DEF agino
<1>7. (pos \div agbytes) * span + agino \in Nat
  BY <1>2, <1>3, <1>4, <1>6
<1> QED
  BY <1>7, WholeNumber DEF agbytes, within, slot, agino, span
-----------------------------------------------------------------------------
USE RecoverAssumption

LEMMA GeometryFacts ==
    /\ G.agblocks \in Nat \ {0} /\ G.inopb \in Nat \ {0} /\ G.agspan \in Nat \ {0}
    /\ G.blocksize \in Nat \ {0} /\ G.inodesize \in Nat \ {0}
    /\ TotalBlocks \in Nat
    /\ \A n \in Nat : n * G.blocksize \in Nat
    /\ \A m, n \in Nat : (m + n) * G.blocksize = m * G.blocksize + n * G.blocksize
    /\ \A n \in Nat : n * G.blocksize <= ImageLen <=> n <= TotalBlocks
<1>1. /\ G.agblocks \in Nat \ {0} /\ G.inopb \in Nat \ {0} /\ G.agspan \in Nat \ {0}
      /\ G.blocksize \in Nat \ {0} /\ G.inodesize \in Nat \ {0}
  BY DEF Geometries
<1>2. TotalBlocks = ImageLen \div G.blocksize
  BY DEF TotalBlocks
<1>3. \A n \in Nat : n * G.blocksize <= ImageLen <=> n <= ImageLen \div G.blocksize
  BY <1>1, WholeUnits
<1>4. ImageLen \div G.blocksize \in Nat
  BY <1>1, Division
<1>5. \A n \in Nat : n * G.blocksize \in Nat
  BY <1>1, Monotone
<1>6. \A m, n \in Nat : (m + n) * G.blocksize = m * G.blocksize + n * G.blocksize
  BY <1>1
<1> QED
  BY <1>1, <1>2, <1>3, <1>4, <1>5, <1>6

(* decode_residual stops at the first record that cannot be an extent.     *)
LEMMA DecodeFacts ==
    ASSUME NEW fork \in Seq(Rec)
    PROVE  \E n \in 0..Len(fork) :
              /\ DecodeResidual(fork) = SubSeq(fork, 1, n)
              /\ DecodeResidual(fork) \in Seq(Rec)
              /\ Len(DecodeResidual(fork)) = n
              /\ \A k \in 1..n : DecodeResidual(fork)[k] = fork[k] /\ Survives(fork[k])
              /\ n < Len(fork) => ~Survives(fork[n + 1])
<1> DEFINE P(m) == /\ \A k \in 1..m : Survives(fork[k])
                   /\ m < Len(fork) => ~Survives(fork[m + 1])
           n == CHOOSE m \in 0..Len(fork) : P(m)
           T == {m \in 0..Len(fork) : m < Len(fork) => ~Survives(fork[m + 1])}
<1>0. Len(fork) \in Nat
  OBVIOUS
<1>1. \E m \in 0..Len(fork) : P(m)
  <2>1. T \subseteq Nat /\ T # {}
    BY <1>0
  <2>2. PICK x \in T : \A y \in T : x <= y
    BY <2>1, LeastNumber
  <2>3. ASSUME NEW k \in 1..x PROVE Survives(fork[k])
    <3>1. k - 1 \in 0..Len(fork) /\ k - 1 < x /\ k - 1 < Len(fork) /\ (k - 1) + 1 = k
      BY <1>0
    <3>2. k - 1 \notin T
      BY <2>2, <3>1
    <3> QED
      BY <3>1, <3>2
  <2> QED
    BY <2>3
<1>2. n \in 0..Len(fork) /\ P(n)
  BY <1>1
<1>3. DecodeResidual(fork) = SubSeq(fork, 1, n)
  BY DEF DecodeResidual
<1> HIDE DEF n
<1>4. \A i \in 1..n : fork[i] \in Rec
  BY <1>0, <1>2
<1>5. n \in Int /\ 1 \in Int
  BY <1>0, <1>2
<1>6. /\ SubSeq(fork, 1, n) \in Seq(Rec)
      /\ Len(SubSeq(fork, 1, n)) = IF 1 <= n THEN n - 1 + 1 ELSE 0
      /\ \A i \in 1..(n - 1 + 1) : SubSeq(fork, 1, n)[i] = fork[1 + i - 1]
  BY <1>4, <1>5, SubSeqProperties
<1>7. /\ Len(SubSeq(fork, 1, n)) = n
      /\ \A i \in 1..n : SubSeq(fork, 1, n)[i] = fork[i]
  BY <1>2, <1>6
<1> QED
  BY <1>2, <1>3, <1>6, <1>7

(* The sum over the records, as the recursion in SizeEstimate computes it. *)
Sums(B, recs) ==
    /\ B[0] = 0
    /\ \A k \in 1..Len(recs) : B[k] = B[k - 1] + recs[k].blockcount
    /\ \A k \in 0..Len(recs) : B[k] \in Nat

LEMMA SumFacts ==
    ASSUME NEW recs \in Seq(Rec)
    PROVE  \E B : Sums(B, recs) /\ SizeEstimate(recs) = B[Len(recs)] * G.blocksize
<1> DEFINE Is(f, n) == f = [k \in 0..n |-> IF k = 0 THEN 0 ELSE f[k - 1] + recs[k].blockcount]
           T == {n \in Nat : \E f : Is(f, n)}
           B == CHOOSE f : Is(f, Len(recs))
<1>0. Len(recs) \in Nat
  OBVIOUS
<1>1. 0 \in T
  <2>1. Is([k \in 0..0 |-> 0], 0)
    OBVIOUS
  <2> QED
    BY <2>1
<1>2. ASSUME NEW n \in Nat, n \in T PROVE n + 1 \in T
  <2>1. PICK f : Is(f, n)
    BY <1>2
  <2> DEFINE g == [k \in 0..(n + 1) |->
                     IF k = n + 1 THEN f[n] + recs[n + 1].blockcount ELSE f[k]]
  <2>2. DOMAIN f = 0..n /\ \A k \in 0..n : f[k] = IF k = 0 THEN 0 ELSE f[k - 1] + recs[k].blockcount
    BY <2>1
  <2>3. \A k \in 0..(n + 1) : g[k] = IF k = 0 THEN 0 ELSE g[k - 1] + recs[k].blockcount
    BY <2>2
  <2>4. Is(g, n + 1)
    BY <2>3
  <2> HIDE DEF g, Is
  <2> QED
    BY <2>4
<1>3. \E f : Is(f, Len(recs))
  <2> HIDE DEF T
  <2>1. Nat \subseteq T
    BY <1>1, <1>2, Induction
  <2> QED
    BY <1>0, <2>1 DEF T
<1>4. Is(B, Len(recs))
  <2> HIDE DEF Is
  <2> QED
    BY <1>3
<1>5. SizeEstimate(recs) = B[Len(recs)] * G.blocksize
  BY DEF SizeEstimate
<1> HIDE DEF B
<1>6. B[0] = 0 /\ \A k \in 1..Len(recs) : B[k] = B[k - 1] + recs[k].blockcount
  BY <1>0, <1>4
<1> DEFINE U == {n \in Nat : n <= Len(recs) => B[n] \in Nat}
<1>7. 0 \in U
  BY <1>6
<1>8. ASSUME NEW n \in Nat, n \in U PROVE n + 1 \in U
  <2> SUFFICES ASSUME n + 1 <= Len(recs) PROVE B[n + 1] \in Nat
    OBVIOUS
  <2>1. n + 1 \in 1..Len(recs) /\ (n + 1) - 1 = n /\ n <= Len(recs)
    BY <1>0
  <2>2. B[n + 1] = B[n] + recs[n + 1].blockcount
    BY <1>6, <2>1
  <2>3. recs[n + 1] \in Rec
    BY <2>1
  <2>4. recs[n + 1].blockcount \in Nat
    BY <2>3 DEF Rec
  <2> QED
    BY <1>8, <2>1, <2>2, <2>4
<1>9. \A k \in 0..Len(recs) : B[k] \in Nat
  <2> HIDE DEF U
  <2>1. Nat \subseteq U
    BY <1>7, <1>8, Induction
  <2> QED
    BY <1>0, <2>1 DEF U
<1> QED
  BY <1>5, <1>6, <1>9 DEF Sums

LEMMA SizeType ==
    ASSUME NEW recs \in Seq(Rec)
    PROVE  SizeEstimate(recs) \in Nat
<1>1. PICK B : Sums(B, recs) /\ SizeEstimate(recs) = B[Len(recs)] * G.blocksize
  BY SumFacts
<1>2. Len(recs) \in 0..Len(recs)
  OBVIOUS
<1>3. B[Len(recs)] \in Nat
  BY <1>1, <1>2 DEF Sums
<1> QED
  BY <1>1, <1>3, GeometryFacts
-----------------------------------------------------------------------------
(* The reader's terms in the integers: where record rec puts byte i of a   *)
(* file of that size, and whether it does.                                 *)
First(rec) == rec.startoff * G.blocksize
End(rec) == (rec.startoff + rec.blockcount) * G.blocksize
Source(rec, i) == rec.startblock * G.blocksize + (i - First(rec))
Gives(rec, i, size) ==
    /\ First(rec) <= i /\ i < End(rec)
    /\ Source(rec, (IF End(rec) <= size THEN End(rec) ELSE size) - 1) < ImageLen

LEMMA AssembleFacts ==
    ASSUME NEW recs \in Seq(Rec), NEW size \in Nat, size <= ImageLen
    PROVE  LET A == AssembleExtents(recs, size)
           IN  /\ Len(A) = size
               /\ \A i \in 0..(size - 1) :
                     \/ A[i + 1] = Zero /\ \A k \in 1..Len(recs) : ~Gives(recs[k], i, size)
                     \/ \E k \in 1..Len(recs) :
                           /\ Gives(recs[k], i, size)
                           /\ A[i + 1] = Source(recs[k], i)
<1> DEFINE A == AssembleExtents(recs, size)
           H(k, i) == Reader(Inode(recs, size))!Holds(recs[k], i)
           Holding(i) == {k \in 1..Len(recs) : H(k, i)}
           LastOf(i) == CHOOSE k \in Holding(i) : \A l \in Holding(i) : l <= k
<1>1. \A k, i : H(k, i) <=> Gives(recs[k], i, size)
  BY DEF Reader!Holds, Reader!Covers, Reader!Readable, Reader!Place, Reader!LastByte,
         Reader!AtMost, Inode, Gives, First, End, Source
<1>2. \A k, i : Reader(Inode(recs, size))!Place(recs[k], i) = Source(recs[k], i)
  BY DEF Reader!Place, Source, First
<1>3. A = [i \in 1..size |-> IF Holding(i - 1) = {} THEN Zero
                             ELSE Reader(Inode(recs, size))!Place(recs[LastOf(i - 1)], i - 1)]
  BY DEF AssembleExtents
<1>4. Len(A) = size
  BY <1>3
<1>5. ASSUME NEW i \in 0..(size - 1)
      PROVE  \/ A[i + 1] = Zero /\ \A k \in 1..Len(recs) : ~Gives(recs[k], i, size)
             \/ \E k \in 1..Len(recs) :
                   /\ Gives(recs[k], i, size)
                   /\ A[i + 1] = Source(recs[k], i)
  <2>1. i + 1 \in 1..size /\ (i + 1) - 1 = i
    OBVIOUS
  <2> HIDE DEF H
  <2>2. A[i + 1] = IF Holding(i) = {} THEN Zero
                   ELSE Reader(Inode(recs, size))!Place(recs[LastOf(i)], i)
    BY <1>3, <2>1
  <2>3. CASE Holding(i) = {}
    BY <1>1, <2>2, <2>3
  <2>4. CASE Holding(i) # {}
    <3>1. Len(recs) \in Nat /\ Holding(i) \subseteq 1..Len(recs)
      OBVIOUS
    <3> HIDE DEF Holding
    <3>2. \E x \in Holding(i) : \A y \in Holding(i) : y <= x
      BY <2>4, <3>1, Greatest
    <3>3. LastOf(i) \in Holding(i)
      BY <3>2
    <3> HIDE DEF LastOf
    <3>4. LastOf(i) \in 1..Len(recs) /\ H(LastOf(i), i)
      BY <3>3 DEF Holding
    <3> QED
      BY <1>1, <1>2, <2>2, <2>4, <3>4
  <2> QED
    BY <2>3, <2>4
<1> QED
  BY <1>4, <1>5

(* An extent that decode_residual accepts can be read to its end, so it    *)
(* gives every byte it maps.                                               *)
LEMMA SurvivorFacts ==
    ASSUME NEW rec \in Rec, Survives(rec), NEW size \in Nat, NEW i \in 0..(size - 1)
    PROVE  /\ First(rec) \in Nat /\ End(rec) \in Nat
           /\ Gives(rec, i, size) <=> First(rec) <= i /\ i < End(rec)
           /\ First(rec) <= i /\ i < End(rec) =>
                 Source(rec, i) \in BytesOf(rec) /\ Source(rec, i) \in 0..(ImageLen - 1)
<1> DEFINE a == rec.startoff * G.blocksize
           s == rec.startblock * G.blocksize
           c == rec.blockcount * G.blocksize
<1>1. rec.startoff \in Nat /\ rec.startblock \in Nat /\ rec.blockcount \in Nat
  BY DEF Rec
<1>2. /\ a \in Nat /\ s \in Nat /\ c \in Nat
      /\ (rec.startoff + rec.blockcount) * G.blocksize = a + c
      /\ (rec.startblock + rec.blockcount) * G.blocksize = s + c
  BY <1>1, GeometryFacts
<1>3. s + c <= ImageLen
  <2>1. rec.startblock + rec.blockcount \in Nat /\ rec.startblock + rec.blockcount <= TotalBlocks
    BY <1>1 DEF Survives
  <2>2. (rec.startblock + rec.blockcount) * G.blocksize <= ImageLen
    BY <2>1, GeometryFacts
  <2> QED
    BY <1>2, <2>2
<1>4. /\ First(rec) = a /\ End(rec) = a + c
      /\ \A n : Source(rec, n) = s + (n - a)
      /\ BytesOf(rec) = s..(s + c - 1)
  BY <1>2 DEF First, End, Source, BytesOf
<1> HIDE DEF a, s, c
<1>5. i \in Nat /\ i < size
  OBVIOUS
<1>6. First(rec) <= i /\ i < End(rec) =>
         Source(rec, i) \in BytesOf(rec) /\ Source(rec, i) \in 0..(ImageLen - 1)
  BY <1>2, <1>3, <1>4, <1>5
<1>7. First(rec) <= i /\ i < End(rec) =>
         Source(rec, (IF End(rec) <= size THEN End(rec) ELSE size) - 1) < ImageLen
  BY <1>2, <1>3, <1>4, <1>5
<1> QED
  BY <1>2, <1>4, <1>6, <1>7 DEF Gives
(* A byte lies in an extent's window if its block does.                    *)
LEMMA BlockOf ==
    ASSUME NEW rec \in Rec, NEW i \in Nat
    PROVE  /\ i \div G.blocksize \in Nat
           /\ First(rec) <= i /\ i < End(rec) <=>
                 /\ rec.startoff <= i \div G.blocksize
                 /\ i \div G.blocksize < rec.startoff + rec.blockcount
<1> DEFINE b == i \div G.blocksize
           e == rec.startoff + rec.blockcount
<1>1. rec.startoff \in Nat /\ e \in Nat /\ b \in Nat
  <2>1. rec.startoff \in Nat /\ rec.blockcount \in Nat
    BY DEF Rec
  <2>2. b \in Nat
    BY GeometryFacts, Division
  <2> QED
    BY <2>1, <2>2
<1>2. rec.startoff * G.blocksize <= i <=> rec.startoff <= b
  BY <1>1, GeometryFacts, WholeUnits
<1>3. e * G.blocksize <= i <=> e <= b
  BY <1>1, GeometryFacts, WholeUnits
<1>4. End(rec) = e * G.blocksize /\ First(rec) = rec.startoff * G.blocksize
      /\ e * G.blocksize \in Nat
  BY <1>1, GeometryFacts DEF End, First
<1>5. i < End(rec) <=> b < e
  <2> DEFINE x == e * G.blocksize
  <2> HIDE DEF b, e, x
  <2> QED
    BY <1>1, <1>3, <1>4 DEF x
<1> QED
  BY <1>1, <1>2, <1>4, <1>5

BlocksOf(rec) == rec.startoff..(rec.startoff + rec.blockcount - 1)

(* As many blocks as the records count in all cannot all be covered unless *)
(* no two records cover the same one and none a block behind them.         *)
LEMMA NoOverlap ==
    ASSUME NEW recs \in Seq(Rec), NEW B, Sums(B, recs),
           \A b \in 0..(B[Len(recs)] - 1) : \E k \in 1..Len(recs) : b \in BlocksOf(recs[k]),
           NEW m \in 1..Len(recs), NEW x \in BlocksOf(recs[m])
    PROVE  /\ x < B[Len(recs)]
           /\ \A k \in 1..Len(recs) : x \in BlocksOf(recs[k]) => k = m
<1> DEFINE N == B[Len(recs)]
           J(k) == IF k = m THEN BlocksOf(recs[k]) \ {x} ELSE BlocksOf(recs[k])
           U(n) == UNION {J(k) : k \in 1..n}
           Less(n) == IF m <= n THEN 1 ELSE 0
           T == {n \in Nat : n <= Len(recs) =>
                    IsFiniteSet(U(n)) /\ Cardinality(U(n)) <= B[n] - Less(n)}
<1>0. Len(recs) \in Nat /\ N \in Nat
  BY DEF Sums
<1>1. ASSUME NEW k \in 1..Len(recs)
      PROVE  /\ recs[k].blockcount \in Nat
             /\ IsFiniteSet(J(k)) /\ Cardinality(J(k)) \in Nat
             /\ Cardinality(J(k)) = recs[k].blockcount - (IF k = m THEN 1 ELSE 0)
  <2>1. recs[k] \in Rec
    OBVIOUS
  <2>2. recs[k].startoff \in Nat /\ recs[k].blockcount \in Nat
    BY <2>1 DEF Rec
  <2> DEFINE a == recs[k].startoff
             c == recs[k].blockcount
  <2>3. /\ IsFiniteSet(a..(a + c - 1))
        /\ Cardinality(a..(a + c - 1)) = IF a > a + c - 1 THEN 0 ELSE (a + c - 1) - a + 1
    <3>1. a \in Int /\ a + c - 1 \in Int
      BY <2>2
    <3> HIDE DEF a, c
    <3> QED
      BY <3>1, FS_Interval
  <2>4. IsFiniteSet(BlocksOf(recs[k])) /\ Cardinality(BlocksOf(recs[k])) = c
    BY <2>2, <2>3 DEF BlocksOf
  <2>5. /\ IsFiniteSet(BlocksOf(recs[k]) \ {x})
        /\ Cardinality(BlocksOf(recs[k]) \ {x}) = IF x \in BlocksOf(recs[k]) THEN c - 1 ELSE c
    BY <2>4, FS_RemoveElement
  <2>6. IsFiniteSet(J(k)) /\ Cardinality(J(k)) = c - (IF k = m THEN 1 ELSE 0)
    <3>1. CASE k = m
      BY <2>5, <3>1
    <3>2. CASE k # m
      BY <2>2, <2>4, <3>2
    <3> QED
      BY <3>1, <3>2
  <2>7. Cardinality(J(k)) \in Nat
    BY <2>6, FS_CardinalityType
  <2> QED
    BY <2>2, <2>6, <2>7
<1> HIDE DEF J
<1>2. 0 \in T
  <2>1. U(0) = {}
    OBVIOUS
  <2>2. Less(0) = 0 /\ B[0] = 0
    BY DEF Sums
  <2>3. IsFiniteSet(U(0)) /\ Cardinality(U(0)) = 0
    BY <2>1, FS_EmptySet
  <2> HIDE DEF U, Less
  <2> QED
    BY <2>2, <2>3
<1>3. ASSUME NEW n \in Nat, n \in T PROVE n + 1 \in T
  <2> SUFFICES ASSUME n + 1 <= Len(recs)
               PROVE  IsFiniteSet(U(n + 1)) /\ Cardinality(U(n + 1)) <= B[n + 1] - Less(n + 1)
    OBVIOUS
  <2>1. n + 1 \in 1..Len(recs) /\ (n + 1) - 1 = n /\ n <= Len(recs) /\ n \in 0..Len(recs)
    BY <1>0
  <2>2. U(n + 1) = U(n) \cup J(n + 1)
    <3>1. \A k : k \in 1..(n + 1) <=> k \in 1..n \/ k = n + 1
      OBVIOUS
    <3> QED
      BY <3>1
  <2>3. IsFiniteSet(U(n)) /\ Cardinality(U(n)) <= B[n] - Less(n)
    BY <1>3, <2>1
  <2> HIDE DEF U
  <2>4. /\ IsFiniteSet(U(n) \cup J(n + 1))
        /\ Cardinality(U(n) \cup J(n + 1))
             = Cardinality(U(n)) + Cardinality(J(n + 1)) - Cardinality(U(n) \cap J(n + 1))
    BY <1>1, <2>1, <2>3, FS_Union
  <2>5. Cardinality(U(n) \cap J(n + 1)) \in Nat
    BY <2>3, FS_Intersection, FS_CardinalityType
  <2>6. Cardinality(U(n)) \in Nat
    BY <2>3, FS_CardinalityType
  <2>7. B[n + 1] = B[n] + recs[n + 1].blockcount /\ B[n] \in Nat
    BY <2>1 DEF Sums
  <2>8. Less(n + 1) = Less(n) + (IF n + 1 = m THEN 1 ELSE 0) /\ Less(n) \in Nat
    OBVIOUS
  <2>9. /\ recs[n + 1].blockcount \in Nat
        /\ Cardinality(J(n + 1)) = recs[n + 1].blockcount - (IF n + 1 = m THEN 1 ELSE 0)
    BY <1>1, <2>1
  <2> HIDE DEF Less
  <2>10. Cardinality(J(n + 1)) \in Nat
    BY <1>1, <2>1
  <2>11. Cardinality(U(n) \cup J(n + 1)) <= Cardinality(U(n)) + Cardinality(J(n + 1))
    BY <2>4, <2>5, <2>6, <2>10
  <2>12. Cardinality(U(n)) + Cardinality(J(n + 1)) <= B[n + 1] - Less(n + 1)
    BY <2>3, <2>6, <2>7, <2>8, <2>9
  <2>13. Cardinality(U(n) \cup J(n + 1)) \in Nat
    BY <2>4, FS_CardinalityType
  <2>14. Cardinality(U(n) \cup J(n + 1)) <= B[n + 1] - Less(n + 1)
    <3> DEFINE both == Cardinality(U(n) \cup J(n + 1))
               one == Cardinality(U(n))
               more == Cardinality(J(n + 1))
               cap == B[n + 1] - Less(n + 1)
    <3>1. /\ both \in Nat /\ one \in Nat /\ more \in Nat /\ cap \in Int
          /\ both <= one + more /\ one + more <= cap
      <4>1. cap \in Int
        BY <2>7, <2>8, <2>9
      <4> QED
        BY <2>6, <2>10, <2>11, <2>12, <2>13, <4>1
    <3> HIDE DEF both, one, more, cap
    <3>2. both <= cap
      BY ONLY <3>1
    <3> QED
      BY <3>2 DEF both, cap
  <2> QED
    BY <2>2, <2>4, <2>14
<1>4. IsFiniteSet(U(Len(recs))) /\ Cardinality(U(Len(recs))) <= N - 1
  <2> HIDE DEF T
  <2>1. Nat \subseteq T
    BY <1>2, <1>3, Induction
  <2>2. Len(recs) \in T
    BY <1>0, <2>1
  <2>3. Less(Len(recs)) = 1
    BY <1>0
  <2> QED
    BY <1>0, <2>2, <2>3 DEF T
<1>5. ASSUME 0..(N - 1) \subseteq U(Len(recs)) PROVE FALSE
  <2>1. Cardinality(0..(N - 1)) <= Cardinality(U(Len(recs)))
    BY <1>4, <1>5, FS_Subset
  <2>2. Cardinality(0..(N - 1)) = IF 0 > N - 1 THEN 0 ELSE (N - 1) - 0 + 1
    <3>1. 0 \in Int /\ N - 1 \in Int
      BY <1>0
    <3> HIDE DEF N
    <3> QED
      BY <3>1, FS_Interval
  <2>3. Cardinality(U(Len(recs))) \in Nat
    BY <1>4, FS_CardinalityType
  <2> HIDE DEF U, N
  <2> QED
    BY <1>0, <1>4, <2>1, <2>2, <2>3
<1>6. ASSUME x >= N PROVE FALSE
  <2>1. ASSUME NEW b \in 0..(N - 1) PROVE b \in U(Len(recs))
    <3>1. PICK k \in 1..Len(recs) : b \in BlocksOf(recs[k])
      OBVIOUS
    <3>2. b # x
      BY <1>0, <1>6, <2>1
    <3>3. b \in J(k)
      BY <3>1, <3>2 DEF J
    <3> QED
      BY <3>1, <3>3
  <2> QED
    BY <1>5, <2>1
<1>7. ASSUME NEW l \in 1..Len(recs), x \in BlocksOf(recs[l]), l # m PROVE FALSE
  <2>1. ASSUME NEW b \in 0..(N - 1) PROVE b \in U(Len(recs))
    <3>1. PICK k \in 1..Len(recs) : b \in BlocksOf(recs[k])
      OBVIOUS
    <3>2. b # x => b \in J(k)
      BY <3>1 DEF J
    <3>3. b = x => b \in J(l)
      BY <1>7 DEF J
    <3> QED
      BY <1>7, <3>1, <3>2, <3>3
  <2> QED
    BY <1>5, <2>1
<1>8. x < N
  <2>1. recs[m] \in Rec
    OBVIOUS
  <2>2. recs[m].startoff \in Nat /\ recs[m].blockcount \in Nat
    BY <2>1 DEF Rec
  <2>3. x \in Nat
    BY <2>2 DEF BlocksOf
  <2> QED
    BY <1>0, <1>6, <2>3
<1> QED
  BY <1>7, <1>8

(* What the carve of surviving records consists of.                        *)
Own(recs) == UNION {BytesOf(recs[e]) : e \in 1..Len(recs)}

LEMMA CarvedFacts ==
    ASSUME NEW recs \in Seq(Rec), \A k \in 1..Len(recs) : Survives(recs[k])
    PROVE  LET A == AssembleExtents(recs, SizeEstimate(recs))
           IN  /\ Len(A) \in Nat
               /\ \A i \in 1..Len(A) :
                     A[i] \in {Zero} \cup Own(recs) /\ A[i] \in {Zero} \cup 0..(ImageLen - 1)
<1> DEFINE size == SizeEstimate(recs)
           A == AssembleExtents(recs, size)
<1>1. size \in Nat
  BY SizeType
<1> HIDE DEF size
<1>2. CASE size > ImageLen
  <2>1. A = <<>>
    BY <1>2 DEF AssembleExtents
  <2> QED
    BY <2>1 DEF size
<1>3. CASE size <= ImageLen
  <2>1. Len(A) = size
    BY <1>1, <1>3, AssembleFacts
  <2>2. ASSUME NEW j \in 1..Len(A)
        PROVE  A[j] \in {Zero} \cup Own(recs) /\ A[j] \in {Zero} \cup 0..(ImageLen - 1)
    <3> DEFINE i == j - 1
    <3>1. i \in 0..(size - 1) /\ i + 1 = j
      BY <1>1, <2>1
    <3> HIDE DEF i
    <3>2. \/ A[i + 1] = Zero
          \/ \E k \in 1..Len(recs) : Gives(recs[k], i, size) /\ A[i + 1] = Source(recs[k], i)
      BY <1>1, <1>3, <3>1, AssembleFacts
    <3>3. ASSUME NEW k \in 1..Len(recs), Gives(recs[k], i, size), A[j] = Source(recs[k], i)
          PROVE  A[j] \in Own(recs) /\ A[j] \in 0..(ImageLen - 1)
      <4>1. recs[k] \in Rec /\ Survives(recs[k])
        OBVIOUS
      <4>2. Source(recs[k], i) \in BytesOf(recs[k]) /\ Source(recs[k], i) \in 0..(ImageLen - 1)
        BY <1>1, <3>1, <3>3, <4>1, SurvivorFacts
      <4> QED
        BY <3>3, <4>2 DEF Own
    <3> HIDE DEF A
    <3> QED
      BY <3>1, <3>2, <3>3
  <2> QED
    BY <1>1, <2>1, <2>2 DEF size
<1> QED
  BY <1>1, <1>2, <1>3

(* The carve of a file without holes is exact.                             *)
LEMMA DenseCarve ==
    ASSUME NEW recs \in Seq(Rec), \A k \in 1..Len(recs) : Survives(recs[k]),
           Dense(recs), SizeEstimate(recs) <= ImageLen
    PROVE  LET A == AssembleExtents(recs, SizeEstimate(recs))
           IN  {A[i] : i \in 1..Len(A)} = Own(recs)
<1> DEFINE size == SizeEstimate(recs)
           A == AssembleExtents(recs, size)
<1>1. PICK B : Sums(B, recs) /\ size = B[Len(recs)] * G.blocksize
  BY SumFacts
<1> DEFINE N == B[Len(recs)]
<1>2. N \in Nat /\ size \in Nat
  <2>1. Len(recs) \in 0..Len(recs)
    OBVIOUS
  <2> QED
    BY <1>1, <2>1, SizeType DEF Sums
<1> HIDE DEF N
<1>3. size = N * G.blocksize /\ size \div G.blocksize = N
  <2>1. size = N * G.blocksize
    BY <1>1 DEF N
  <2> QED
    BY <1>2, <2>1, GeometryFacts, Times
<1>4. \A b \in 0..(N - 1) : \E k \in 1..Len(recs) : b \in BlocksOf(recs[k])
  <2> SUFFICES ASSUME NEW b \in 0..(N - 1)
               PROVE  \E k \in 1..Len(recs) : b \in BlocksOf(recs[k])
    OBVIOUS
  <2>1. PICK k \in 1..Len(recs) :
           recs[k].startoff <= b /\ b < recs[k].startoff + recs[k].blockcount
    BY <1>3 DEF Dense
  <2>2. recs[k] \in Rec
    OBVIOUS
  <2>3. recs[k].startoff \in Nat /\ recs[k].blockcount \in Nat /\ b \in Nat
    BY <1>2, <2>2 DEF Rec
  <2> QED
    BY <2>1, <2>3 DEF BlocksOf
<1>5. \A m \in 1..Len(recs) : \A x \in BlocksOf(recs[m]) :
         x < N /\ \A k \in 1..Len(recs) : x \in BlocksOf(recs[k]) => k = m
  BY <1>1, <1>4, NoOverlap DEF N
<1> HIDE DEF size
<1>6. ASSUME NEW k \in 1..Len(recs), NEW i \in Nat
      PROVE  /\ recs[k] \in Rec /\ Survives(recs[k])
             /\ First(recs[k]) <= i /\ i < End(recs[k])
                  <=> i \div G.blocksize \in BlocksOf(recs[k])
  <2>1. recs[k] \in Rec /\ Survives(recs[k])
    OBVIOUS
  <2>2. recs[k].startoff \in Nat /\ recs[k].blockcount \in Nat
    BY <2>1 DEF Rec
  <2>3. i \div G.blocksize \in Nat
    BY <2>1, BlockOf
  <2>4. i \div G.blocksize \in BlocksOf(recs[k])
          <=> /\ recs[k].startoff <= i \div G.blocksize
              /\ i \div G.blocksize < recs[k].startoff + recs[k].blockcount
    <3> DEFINE b == i \div G.blocksize
    <3> HIDE DEF b
    <3>1. b \in Nat
      BY <2>3 DEF b
    <3>2. b \in BlocksOf(recs[k])
            <=> recs[k].startoff <= b /\ b < recs[k].startoff + recs[k].blockcount
      BY <2>2, <3>1 DEF BlocksOf
    <3> QED
      BY <3>2 DEF b
  <2> QED
    BY <2>1, <2>4, BlockOf
<1>7. \A i \in Nat : i < size <=> i \div G.blocksize < N
  <2> SUFFICES ASSUME NEW i \in Nat PROVE i < size <=> i \div G.blocksize < N
    OBVIOUS
  <2> DEFINE b == i \div G.blocksize
  <2>1. b \in Nat /\ (size <= i <=> N <= b)
    BY <1>2, <1>3, GeometryFacts, Division, WholeUnits
  <2> HIDE DEF b
  <2>2. i < size <=> b < N
    BY <1>2, <2>1
  <2> QED
    BY <2>2 DEF b
<1>8. /\ Len(A) = size
      /\ \A i \in 0..(size - 1) :
            \/ A[i + 1] = Zero /\ \A k \in 1..Len(recs) : ~Gives(recs[k], i, size)
            \/ \E k \in 1..Len(recs) : Gives(recs[k], i, size) /\ A[i + 1] = Source(recs[k], i)
  <2>1. size <= ImageLen
    BY DEF size
  <2> QED
    BY <1>2, <2>1, AssembleFacts
<1>9. \A k \in 1..Len(recs) : \A i \in 0..(size - 1) :
         Gives(recs[k], i, size) <=> i \div G.blocksize \in BlocksOf(recs[k])
  <2> SUFFICES ASSUME NEW k \in 1..Len(recs), NEW i \in 0..(size - 1)
               PROVE  Gives(recs[k], i, size) <=> i \div G.blocksize \in BlocksOf(recs[k])
    OBVIOUS
  <2>1. i \in Nat
    BY <1>2
  <2>2. Gives(recs[k], i, size) <=> First(recs[k]) <= i /\ i < End(recs[k])
    BY <1>2, <1>6, <2>1, SurvivorFacts
  <2> QED
    BY <1>6, <2>1, <2>2
<1> HIDE DEF A
<1>10. ASSUME NEW j \in 1..Len(A) PROVE A[j] \in Own(recs)
  <2> DEFINE i == j - 1
  <2>1. i \in 0..(size - 1) /\ i + 1 = j /\ i \in Nat /\ i < size
    BY <1>2, <1>8
  <2> HIDE DEF i
  <2>2. i \div G.blocksize \in 0..(N - 1)
    <3> DEFINE b == i \div G.blocksize
    <3>1. b \in Nat /\ b < N
      BY <1>7, <2>1, GeometryFacts, Division
    <3> HIDE DEF b
    <3> QED
      BY <1>2, <3>1 DEF b
  <2>3. \E k \in 1..Len(recs) : Gives(recs[k], i, size)
    BY <1>4, <1>9, <2>1, <2>2
  <2>4. PICK k \in 1..Len(recs) : Gives(recs[k], i, size) /\ A[i + 1] = Source(recs[k], i)
    BY <1>8, <2>1, <2>3
  <2>5. Source(recs[k], i) \in BytesOf(recs[k])
    BY <1>2, <1>6, <2>1, <2>4, SurvivorFacts
  <2> QED
    BY <2>1, <2>4, <2>5 DEF Own
<1>11. ASSUME NEW m \in 1..Len(recs), NEW y \in BytesOf(recs[m])
       PROVE  \E j \in 1..Len(A) : A[j] = y
  <2> DEFINE a == recs[m].startoff * G.blocksize
             s == recs[m].startblock * G.blocksize
             c == recs[m].blockcount * G.blocksize
             i == a + (y - s)
  <2>1. recs[m] \in Rec
    OBVIOUS
  <2>2. recs[m].startoff \in Nat /\ recs[m].startblock \in Nat /\ recs[m].blockcount \in Nat
    BY <2>1 DEF Rec
  <2>3. /\ a \in Nat /\ s \in Nat /\ c \in Nat
        /\ (recs[m].startoff + recs[m].blockcount) * G.blocksize = a + c
        /\ (recs[m].startblock + recs[m].blockcount) * G.blocksize = s + c
    BY <2>2, GeometryFacts
  <2>4. /\ First(recs[m]) = a /\ End(recs[m]) = a + c
        /\ \A n : Source(recs[m], n) = s + (n - a)
        /\ y \in s..(s + c - 1)
    BY <2>3 DEF First, End, Source, BytesOf
  <2> HIDE DEF a, s, c
  <2>5. i \in Nat /\ First(recs[m]) <= i /\ i < End(recs[m]) /\ Source(recs[m], i) = y
    BY <2>3, <2>4
  <2> HIDE DEF i
  <2>6. i \div G.blocksize \in BlocksOf(recs[m])
    BY <1>6, <2>5
  <2>7. i < size /\ \A k \in 1..Len(recs) : i \div G.blocksize \in BlocksOf(recs[k]) => k = m
    BY <1>5, <1>7, <2>5, <2>6
  <2>8. i \in 0..(size - 1) /\ i + 1 \in 1..Len(A)
    BY <1>2, <1>8, <2>5, <2>7
  <2>9. Gives(recs[m], i, size)
    BY <1>9, <2>6, <2>8
  <2>10. PICK k \in 1..Len(recs) : Gives(recs[k], i, size) /\ A[i + 1] = Source(recs[k], i)
    BY <1>8, <2>8, <2>9
  <2>11. k = m
    BY <1>9, <2>7, <2>8, <2>10
  <2> QED
    BY <2>5, <2>8, <2>10, <2>11
<1>12. {A[i] : i \in 1..Len(A)} = Own(recs)
  BY <1>10, <1>11 DEF Own
<1> QED
  BY <1>12 DEF A, size

-----------------------------------------------------------------------------
Decoded(at) == DecodeResidual(image[at].fork)
Reported(at) ==
    /\ at \in SlotOffsets /\ at < off
    /\ Freed(image[at]) /\ Decoded(at) # <<>>
At(k) == InodeToLocation(G, out[k].ino)

Sound ==
    \A k \in 1..Len(out) : \E at :
        At(k) = at /\ Reported(at) /\ out[k] = Carve(at, Decoded(at))
Ordered ==
    \A k, l \in 1..Len(out) : k < l => At(k) < At(l)
Complete ==
    \A at : Reported(at) => \E k \in 1..Len(out) : At(k) = at

(* The reports are those of the freed inodes below off, in the order of    *)
(* the slots, each found again through its number.                         *)
Inv ==
    /\ image \in [SlotOffsets -> Slot]
    /\ off \in 0..ImageLen /\ off % G.inodesize = 0
    /\ out \in Seq({Carve(at, Decoded(at)) : at \in SlotOffsets})
    /\ Sound /\ Ordered /\ Complete

LEMMA InSweepFacts ==
    ASSUME Inv, InSweep
    PROVE  /\ off \in SlotOffsets /\ off \in Nat
           /\ off + G.inodesize \in 0..ImageLen
           /\ (off + G.inodesize) % G.inodesize = 0
           /\ \A at \in SlotOffsets : at < off + G.inodesize <=> at < off \/ at = off
           /\ InodeToLocation(G, OffsetToInode(G, off)) = off
           /\ OffsetToInode(G, off) # NoNumber
<1> DEFINE s == G.inodesize
<1>1. s \in Nat \ {0} /\ off \in Nat /\ off <= ImageLen /\ off % s = 0
  BY GeometryFacts DEF Inv
<1>2. off + s <= ImageLen
  BY DEF InSweep
<1>3. off \in SlotOffsets
  BY <1>1, <1>2 DEF SlotOffsets
<1>4. (off + s) % s = 0
  BY <1>1, NextMultiple
<1>5. \A at \in SlotOffsets : at < off + s <=> at < off \/ at = off
  <2>1. \A at \in SlotOffsets : at \in Nat /\ at % s = 0
    BY DEF SlotOffsets
  <2>2. \A at \in SlotOffsets : off < at => off + s <= at
    BY <1>1, <2>1, NextMultiple
  <2> HIDE DEF s
  <2> QED
    BY <1>1, <2>1, <2>2
<1>6. InodeToLocation(G, OffsetToInode(G, off)) = off
  <2>1. ImageLen \in Nat /\ ImageLen <= U64_MAX
    BY U64Assumption
  <2> QED
    BY <1>1, <2>1, RoundTrip
<1>7. OffsetToInode(G, off) # NoNumber
  BY <1>1, NumberType DEF NoNumber
<1> QED
  BY <1>1, <1>2, <1>3, <1>4, <1>5, <1>6, <1>7

LEMMA InitInv == Init => Inv
<1> SUFFICES ASSUME Init PROVE Inv
  OBVIOUS
<1>1. image \in [SlotOffsets -> Slot] /\ off = 0 /\ out = <<>>
  BY DEF Init
<1>2. 0 % G.inodesize = 0
  <2>1. G.inodesize \in Nat \ {0}
    BY GeometryFacts
  <2>2. 0 < G.inodesize /\ 0 = 0 * G.inodesize + 0
    BY <2>1
  <2> QED
    BY <2>1, <2>2, Unique
<1>3. Complete
  BY <1>1 DEF Complete, Reported, SlotOffsets
<1>4. Sound /\ Ordered
  BY <1>1 DEF Sound, Ordered
<1> QED
  BY <1>1, <1>2, <1>3, <1>4 DEF Inv

LEMMA PassOverInv == Inv /\ PassOver => Inv'
<1> SUFFICES ASSUME Inv, PassOver PROVE Inv'
  OBVIOUS
<1>1. /\ InSweep /\ off' = off + G.inodesize /\ image' = image /\ out' = out
      /\ ~Freed(image[off]) \/ Decoded(off) = <<>>
  BY InSweepFacts DEF PassOver, Recoverable, Decoded
<1>2. \A at : Reported(at)' <=> Reported(at)
  BY <1>1, InSweepFacts DEF Reported, Decoded
<1>3. Sound' /\ Ordered' /\ Complete'
  BY <1>1, <1>2 DEF Inv, Sound, Ordered, Complete, At, Decoded
<1>4. out' \in Seq({Carve(at, Decoded(at))' : at \in SlotOffsets})
  BY <1>1 DEF Inv, Decoded
<1> QED
  BY <1>1, <1>3, <1>4, InSweepFacts DEF Inv

LEMMA FindInv == Inv /\ Find => Inv'
<1> SUFFICES ASSUME Inv, Find PROVE Inv'
  OBVIOUS
<1> DEFINE n == Len(out)
           S == {Carve(at, Decoded(at)) : at \in SlotOffsets}
<1>1. /\ InSweep /\ off' = off + G.inodesize /\ image' = image
      /\ Freed(image[off]) /\ Decoded(off) # <<>>
      /\ out' = Append(out, Carve(off, Decoded(off)))
  BY DEF Find, Recoverable, Decoded
<1>2. \A at : Reported(at)' <=> Reported(at) \/ at = off
  BY <1>1, InSweepFacts DEF Reported, Decoded
<1>3. off \in SlotOffsets /\ InodeToLocation(G, Carve(off, Decoded(off)).ino) = off
  BY <1>1, InSweepFacts DEF Carve
<1>4. out \in Seq(S) /\ Carve(off, Decoded(off)) \in S
  BY <1>3 DEF Inv
<1>5. /\ out' \in Seq(S) /\ Len(out') = n + 1 /\ n \in Nat
      /\ \A k \in 1..n : out'[k] = out[k]
      /\ out'[n + 1] = Carve(off, Decoded(off))
  <2> HIDE DEF S
  <2> QED
    BY <1>1, <1>4, AppendProperties, LenProperties
<1>6. \A k \in 1..n : At(k)' = At(k)
  BY <1>5 DEF At
<1>7. \A k : k = n + 1 => At(k)' = off
  BY <1>3, <1>5 DEF At
<1>8. \A at : Decoded(at)' = Decoded(at)
  BY <1>1 DEF Decoded
<1>9. \A k \in 1..Len(out') : k \in 1..n \/ k = n + 1
  BY <1>5
<1> HIDE DEF n, S
<1>10. Sound'
  <2> SUFFICES ASSUME NEW k \in 1..Len(out')
               PROVE  \E at : At(k)' = at /\ Reported(at)' /\ out'[k] = Carve(at, Decoded(at))'
    BY DEF Sound
  <2>1. CASE k \in 1..n
    <3>1. PICK at : At(k) = at /\ Reported(at) /\ out[k] = Carve(at, Decoded(at))
      BY <2>1 DEF Inv, Sound, n
    <3> QED
      BY <1>2, <1>5, <1>6, <1>8, <2>1, <3>1
  <2>2. CASE k = n + 1
    BY <1>2, <1>5, <1>7, <1>8, <2>2
  <2> QED
    BY <1>9, <2>1, <2>2
<1>11. Ordered'
  <2> SUFFICES ASSUME NEW k \in 1..Len(out'), NEW l \in 1..Len(out'), k < l
               PROVE  At(k)' < At(l)'
    BY DEF Ordered
  <2>1. k \in 1..n
    BY <1>5
  <2>2. CASE l \in 1..n
    BY <1>6, <2>1, <2>2 DEF Inv, Ordered, n
  <2>3. CASE l = n + 1
    <3>1. At(k) < off
      BY <2>1 DEF Inv, Sound, Reported, n
    <3> QED
      BY <1>6, <1>7, <2>1, <2>3, <3>1
  <2> QED
    BY <1>9, <2>2, <2>3
<1>12. Complete'
  <2> SUFFICES ASSUME NEW at, Reported(at)'
               PROVE  \E k \in 1..Len(out') : At(k)' = at
    BY DEF Complete
  <2>1. n + 1 \in 1..Len(out') /\ \A k \in 1..n : k \in 1..Len(out')
    BY <1>5
  <2>2. CASE at = off
    BY <1>7, <2>1, <2>2
  <2>3. CASE Reported(at)
    <3>1. PICK k \in 1..n : At(k) = at
      BY <2>3 DEF Inv, Complete, n
    <3> QED
      BY <1>6, <2>1, <3>1
  <2> QED
    BY <1>2, <2>2, <2>3
<1>13. out' \in Seq({Carve(at, Decoded(at))' : at \in SlotOffsets})
  BY <1>5, <1>8 DEF S
<1> QED
  BY <1>1, <1>10, <1>11, <1>12, <1>13, InSweepFacts DEF Inv

(* The invariant behind the theorems below: what the sweep has reported is *)
(* tied to the slots it has passed, in both directions.                    *)
THEOREM InvHolds == Spec => []Inv
<1>1. Inv /\ [Next]_vars => Inv'
  <2>1. Inv /\ UNCHANGED vars => Inv'
    BY DEF Inv, vars, Sound, Ordered, Complete, Reported, Decoded, At
  <2> QED
    BY <2>1, PassOverInv, FindInv DEF Next
<1> QED
  BY <1>1, InitInv, PTL DEF Spec
-----------------------------------------------------------------------------
(* What the invariant says of one report.                                  *)
LEMMA ReportFacts ==
    ASSUME Inv, NEW k \in 1..Len(out)
    PROVE  \E at \in SlotOffsets :
              /\ At(k) = at /\ Reported(at)
              /\ out[k].ino = OffsetToInode(G, at)
              /\ out[k].extents = Decoded(at)
              /\ out[k].size = SizeEstimate(Decoded(at))
              /\ out[k].carved = AssembleExtents(Decoded(at), SizeEstimate(Decoded(at)))
<1>1. PICK at : At(k) = at /\ Reported(at) /\ out[k] = Carve(at, Decoded(at))
  BY DEF Inv, Sound
<1>2. at \in SlotOffsets
  BY <1>1 DEF Reported
<1> QED
  BY <1>1, <1>2 DEF Carve

(* The fork of a slot, and what decode_residual makes of it.               *)
LEMMA SlotFacts ==
    ASSUME Inv, NEW at \in SlotOffsets
    PROVE  /\ image[at].fork \in Seq(Rec)
           /\ image[at].version \in Nat
           /\ Decoded(at) \in Seq(Rec)
           /\ \A k \in 1..Len(Decoded(at)) : Survives(Decoded(at)[k])
<1>1. image[at] \in Slot
  BY DEF Inv
<1>2. image[at].fork \in Seq(Rec) /\ image[at].version \in Nat
  BY <1>1 DEF Slot
<1>3. PICK n \in 0..Len(image[at].fork) :
         /\ Decoded(at) \in Seq(Rec)
         /\ Len(Decoded(at)) = n
         /\ \A k \in 1..n : Decoded(at)[k] = image[at].fork[k] /\ Survives(image[at].fork[k])
  BY <1>2, DecodeFacts DEF Decoded
<1> QED
  BY <1>2, <1>3

(* The sweep, its position and its reports have their types, and every     *)
(* byte carved lies in the image (lib.rs:482-516).                         *)
THEOREM TypeCorrect == Spec => []TypeOK
<1>1. Inv => TypeOK
  <2> SUFFICES ASSUME Inv PROVE TypeOK
    OBVIOUS
  <2>1. ASSUME NEW k \in 1..Len(out)
        PROVE  /\ out[k].ino \in Nat
               /\ out[k].extents \in Seq(Rec) /\ out[k].extents # <<>>
               /\ out[k].size \in Nat
               /\ \A i \in 1..Len(out[k].carved) :
                     out[k].carved[i] \in {Zero} \cup 0..(ImageLen - 1)
    <3>1. PICK at \in SlotOffsets :
             /\ Reported(at) /\ out[k].ino = OffsetToInode(G, at)
             /\ out[k].extents = Decoded(at)
             /\ out[k].size = SizeEstimate(Decoded(at))
             /\ out[k].carved = AssembleExtents(Decoded(at), SizeEstimate(Decoded(at)))
      BY ReportFacts
    <3>2. at \in Nat /\ at <= ImageLen
      <4>1. G.inodesize \in Nat
        BY GeometryFacts
      <4>2. at \in 0..(ImageLen - G.inodesize)
        BY DEF SlotOffsets
      <4> QED
        BY <4>1, <4>2
    <3>3. OffsetToInode(G, at) \in Nat
      BY <3>2, NumberType
    <3>4. Decoded(at) # <<>>
      BY <3>1 DEF Reported
    <3> QED
      BY <3>1, <3>3, <3>4, SlotFacts, SizeType, CarvedFacts
  <2> QED
    BY <2>1 DEF Inv, TypeOK
<1> QED
  BY <1>1, InvHolds, PTL

(* "The absolute inode number" (lib.rs:449) of every report leads through  *)
(* inode_to_location to the slot the report was made of, and the reports   *)
(* come in the order of the slots.                                         *)
THEOREM NumbersAlwaysLocate == Spec => []NumbersLocate
<1>1. Inv => NumbersLocate
  <2> SUFFICES ASSUME Inv PROVE NumbersLocate
    OBVIOUS
  <2>1. ASSUME NEW k \in 1..Len(out)
        PROVE  /\ At(k) \in SlotOffsets /\ At(k) < off
               /\ Freed(image[At(k)])
               /\ out[k].extents = DecodeResidual(image[At(k)].fork)
    BY ReportFacts DEF Reported, Decoded
  <2> QED
    BY <2>1 DEF NumbersLocate, At, Inv, Ordered
<1> QED
  BY <1>1, InvHolds, PTL

(* The doc's surviving records, lib.rs:538-541, are those the code accepts. *)
LEMMA LeadingSurvive ==
    ASSUME NEW fork \in Seq(Rec), NEW n \in 0..Len(fork)
    PROVE  Leading(fork, n) <=> \A k \in 1..n : Survives(fork[k])
<1> SUFFICES ASSUME NEW k \in 1..n
             PROVE  Survives(fork[k]) <=>
                       /\ fork[k].blockcount > 0 /\ fork[k].startblock > 0
                       /\ \A b \in fork[k].startblock
                                    ..(fork[k].startblock + fork[k].blockcount - 1) :
                             (b + 1) * G.blocksize <= ImageLen
  BY DEF Leading
<1> DEFINE s == fork[k].startblock
           c == fork[k].blockcount
<1>1. fork[k] \in Rec
  OBVIOUS
<1>2. s \in Nat /\ c \in Nat
  BY <1>1 DEF Rec
<1>3. Survives(fork[k]) <=> c # 0 /\ s # 0 /\ s + c <= TotalBlocks
  BY DEF Survives
<1>4. \A b \in Nat : (b + 1) * G.blocksize <= ImageLen <=> b + 1 <= TotalBlocks
  <2>1. \A b \in Nat : b + 1 \in Nat
    OBVIOUS
  <2> QED
    BY <2>1, GeometryFacts
<1>5. TotalBlocks \in Nat
  BY GeometryFacts
<1> HIDE DEF s, c
<1>6. \A b \in s..(s + c - 1) : b \in Nat
  BY <1>2
<1>7. (\A b \in s..(s + c - 1) : (b + 1) * G.blocksize <= ImageLen)
        <=> \A b \in s..(s + c - 1) : b + 1 <= TotalBlocks
  BY <1>4, <1>6
<1>8. c > 0 => ((\A b \in s..(s + c - 1) : b + 1 <= TotalBlocks) <=> s + c <= TotalBlocks)
  <2> SUFFICES ASSUME c > 0
               PROVE  (\A b \in s..(s + c - 1) : b + 1 <= TotalBlocks) <=> s + c <= TotalBlocks
    OBVIOUS
  <2>1. s + c - 1 \in s..(s + c - 1) /\ (s + c - 1) + 1 = s + c
    BY <1>2
  <2>2. \A b \in s..(s + c - 1) : b + 1 <= s + c
    BY <1>2
  <2>3. s + c <= TotalBlocks => \A b \in s..(s + c - 1) : b + 1 <= TotalBlocks
    BY <1>2, <1>5, <1>6, <2>2
  <2> QED
    BY <2>1, <2>3
<1> QED
  BY <1>2, <1>3, <1>7, <1>8 DEF s, c

LEMMA SweptAreReported == Inv => SweptFreed = {at \in SlotOffsets : Reported(at)}
<1> SUFFICES ASSUME Inv, NEW at \in SlotOffsets
             PROVE  (/\ image[at].inode /\ image[at].version > 2 /\ image[at].mode = 0
                     /\ image[at].fork # <<>> /\ Leading(image[at].fork, 1))
                       <=> Freed(image[at]) /\ Decoded(at) # <<>>
  BY DEF SweptFreed, Reported
<1> DEFINE fork == image[at].fork
<1>1. fork \in Seq(Rec) /\ image[at].version \in Nat
  BY SlotFacts
<1>2. Freed(image[at]) <=> image[at].inode /\ image[at].version > 2 /\ image[at].mode = 0
  BY <1>1 DEF Freed
<1> HIDE DEF fork
<1>3. PICK n \in 0..Len(fork) :
         /\ DecodeResidual(fork) \in Seq(Rec)
         /\ Len(DecodeResidual(fork)) = n
         /\ \A k \in 1..n : Survives(fork[k])
         /\ n < Len(fork) => ~Survives(fork[n + 1])
  BY <1>1, DecodeFacts
<1>4. DecodeResidual(fork) # <<>> <=> n # 0
  BY <1>3
<1>5. n # 0 <=> fork # <<>> /\ Leading(fork, 1)
  <2>0. Len(fork) \in Nat /\ (fork # <<>> <=> Len(fork) # 0)
    BY <1>1
  <2>1. ASSUME n # 0 PROVE fork # <<>> /\ Leading(fork, 1)
    <3>1. 1 \in 0..Len(fork) /\ Len(fork) # 0 /\ \A k \in 1..1 : k \in 1..n
      BY <1>3, <2>0, <2>1
    <3> QED
      BY <1>1, <1>3, <2>0, <3>1, LeadingSurvive
  <2>2. ASSUME n = 0, fork # <<>>, Leading(fork, 1) PROVE FALSE
    <3>1. 1 \in 0..Len(fork) /\ n < Len(fork) /\ n + 1 = 1 /\ 1 \in 1..1
      BY <2>0, <2>2
    <3> QED
      BY <1>1, <1>3, <2>2, <3>1, LeadingSurvive
  <2> QED
    BY <2>1, <2>2
<1> QED
  BY <1>2, <1>4, <1>5 DEF fork, Decoded

(* recover_deleted misses no freed inode with a surviving first record     *)
(* among the slots it has passed, reports none twice and invents none, and *)
(* each report holds the inode's leading records, none behind the first    *)
(* hole (lib.rs:482-516 and 535-565).                                      *)
THEOREM EveryDeletedIsFound == Spec => []EveryDeletedFound
<1>1. Inv => EveryDeletedFound
  <2> SUFFICES ASSUME Inv PROVE EveryDeletedFound
    OBVIOUS
  <2> DEFINE n == Len(out)
             f == [k \in 1..n |-> At(k)]
  <2>1. n \in Nat
    BY DEF Inv
  <2>2. \A k \in 1..n : At(k) \in SweptFreed
    BY ReportFacts, SweptAreReported
  <2>3. \A at \in SweptFreed : \E k \in 1..n : At(k) = at
    BY SweptAreReported DEF Inv, Complete
  <2>4. \A k, l \in 1..n : At(k) = At(l) => k = l
    <3> SUFFICES ASSUME NEW k \in 1..n, NEW l \in 1..n, At(k) = At(l), k # l PROVE FALSE
      OBVIOUS
    <3>1. At(k) \in Nat /\ At(l) \in Nat
      BY <2>2 DEF SweptFreed, SlotOffsets
    <3>2. k < l \/ l < k
      BY <2>1
    <3>3. At(k) < At(l) \/ At(l) < At(k)
      BY <3>2 DEF Inv, Ordered
    <3> QED
      BY <3>1, <3>3
  <2> HIDE DEF n
  <2>5. f \in Bijection(1..n, SweptFreed)
    <3>1. f \in [1..n -> SweptFreed]
      BY <2>2
    <3>2. \A k, l \in 1..n : f[k] = f[l] => k = l
      BY <2>4
    <3>3. \A at \in SweptFreed : \E k \in 1..n : f[k] = at
      BY <2>3
    <3> HIDE DEF f
    <3> QED
      BY <3>1, <3>2, <3>3, Fun_IsBij
  <2>6. Cardinality(SweptFreed) = n
    BY <2>1, <2>5, FS_CountingElements DEF ExistsBijection
  <2>7. ASSUME NEW at \in SweptFreed
        PROVE  \E k \in 1..n :
                  /\ InodeToLocation(G, out[k].ino) = at
                  /\ out[k].extents = SubSeq(image[at].fork, 1, Len(out[k].extents))
                  /\ Leading(image[at].fork, Len(out[k].extents))
                  /\ Len(out[k].extents) < Len(image[at].fork) =>
                        ~Leading(image[at].fork, Len(out[k].extents) + 1)
    <3>1. PICK k \in 1..n : At(k) = at
      BY <2>3
    <3>2. out[k].extents = DecodeResidual(image[at].fork)
      BY <3>1, ReportFacts DEF Decoded, n
    <3> DEFINE fork == image[at].fork
    <3>3. fork \in Seq(Rec)
      BY SlotFacts DEF SweptFreed
    <3> HIDE DEF fork
    <3>4. PICK m \in 0..Len(fork) :
             /\ DecodeResidual(fork) = SubSeq(fork, 1, m)
             /\ Len(DecodeResidual(fork)) = m
             /\ \A l \in 1..m : Survives(fork[l])
             /\ m < Len(fork) => ~Survives(fork[m + 1])
      BY <3>3, DecodeFacts
    <3>5. Leading(fork, m)
      BY <3>3, <3>4, LeadingSurvive
    <3>6. m < Len(fork) => ~Leading(fork, m + 1)
      <4>1. Len(fork) \in Nat
        BY <3>3
      <4>2. m < Len(fork) => m + 1 \in 0..Len(fork) /\ m + 1 \in 1..(m + 1)
        BY <4>1
      <4> QED
        BY <3>3, <3>4, <4>2, LeadingSurvive
    <3> QED
      BY <3>1, <3>2, <3>4, <3>5, <3>6 DEF At, fork
  <2> QED
    BY <2>6, <2>7 DEF EveryDeletedFound, n
<1> QED
  BY <1>1, InvHolds, PTL

(* What is carved of a deleted file is bytes of its own surviving extents  *)
(* and zeros; of a file without holes that fits in the image it is every   *)
(* byte of them and nothing else (lib.rs:455-457 and 466-467).             *)
THEOREM CarvedIsAlwaysTheFile == Spec => []CarvedIsTheFile
<1>1. Inv => CarvedIsTheFile
  <2> SUFFICES ASSUME Inv, NEW k \in 1..Len(out)
               PROVE  LET own == Own(out[k].extents)
                      IN  /\ Carved(out[k]) \subseteq own \cup {Zero}
                          /\ Dense(out[k].extents) /\ out[k].size <= ImageLen =>
                                Carved(out[k]) = own
    BY DEF CarvedIsTheFile, Own
  <2>1. PICK at \in SlotOffsets :
           /\ out[k].extents = Decoded(at)
           /\ out[k].size = SizeEstimate(Decoded(at))
           /\ out[k].carved = AssembleExtents(Decoded(at), SizeEstimate(Decoded(at)))
    BY ReportFacts
  <2> DEFINE recs == Decoded(at)
             A == AssembleExtents(recs, SizeEstimate(recs))
  <2>2. recs \in Seq(Rec) /\ \A l \in 1..Len(recs) : Survives(recs[l])
    BY SlotFacts
  <2>3. Carved(out[k]) = {A[i] : i \in 1..Len(A)}
    BY <2>1 DEF Carved
  <2> HIDE DEF recs
  <2>4. \A i \in 1..Len(A) : A[i] \in {Zero} \cup Own(recs)
    BY <2>2, CarvedFacts
  <2>5. Dense(recs) /\ SizeEstimate(recs) <= ImageLen => {A[i] : i \in 1..Len(A)} = Own(recs)
    BY <2>2, DenseCarve
  <2> HIDE DEF A
  <2> QED
    BY <2>1, <2>3, <2>4, <2>5 DEF recs
<1> QED
  BY <1>1, InvHolds, PTL
=============================================================================
