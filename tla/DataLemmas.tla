----------------------------- MODULE DataLemmas -----------------------------
(***************************************************************************)
(* What the proofs of the components share: induction over the naturals in *)
(* the form the provers can use it, division with remainder, and what the  *)
(* concatenation of a sequence of sequences is made of.                    *)
(***************************************************************************)
EXTENDS Integers, Sequences, SequencesExt, SequenceTheorems, TLAPS, WellFoundedInduction

(* Induction over Nat for a set, from its least element: the form in which *)
(* the provers can use it.                                                 *)
LEMMA LeastNumber ==
    ASSUME NEW T, T \subseteq Nat, T # {}
    PROVE  \E x \in T : \A y \in T : x <= y
<1> DEFINE R == {ss \in Nat \X Nat : ss[1] < ss[2]}
<1>1. IsWellFoundedOn(R, Nat)
  BY NatLessThanWellFounded DEF OpToRel
<1>2. \A x, y \in Nat : x < y => <<x, y>> \in R
  OBVIOUS
<1> HIDE DEF R
<1>3. PICK x \in T : \A y \in T : ~ (<<y, x>> \in R)
  BY <1>1, WFMin
<1>4. ASSUME NEW y \in T PROVE x <= y
  <2>1. x \in Nat /\ y \in Nat
    OBVIOUS
  <2>2. y < x => <<y, x>> \in R
    BY <1>2, <2>1
  <2> QED
    BY <1>3, <2>1, <2>2
<1> QED
  BY <1>4

LEMMA Induction ==
    ASSUME NEW T, 0 \in T, \A n \in Nat : n \in T => n + 1 \in T
    PROVE  Nat \subseteq T
<1> SUFFICES ASSUME Nat \ T # {} PROVE FALSE
  OBVIOUS
<1>1. PICK x \in Nat \ T : \A y \in Nat \ T : x <= y
  BY LeastNumber
<1>2. x # 0 /\ x - 1 \in Nat
  BY <1>1
<1>3. x - 1 \in T
  BY <1>1, <1>2
<1> QED
  BY <1>1, <1>2, <1>3

(* A set of indices has a last one. *)
LEMMA Greatest ==
    ASSUME NEW n \in Nat, NEW T, T \subseteq 1..n, T # {}
    PROVE  \E x \in T : \A y \in T : y <= x
<1> DEFINE U == {m \in Nat : n - m \in T}
<1>1. PICK t \in T : t \in 1..n
  OBVIOUS
<1>2. n - t \in Nat /\ n - (n - t) = t
  BY <1>1
<1>3. U \subseteq Nat /\ U # {}
  BY <1>1, <1>2
<1>4. PICK x \in U : \A y \in U : x <= y
  BY <1>3, LeastNumber
<1>5. ASSUME NEW y \in T PROVE y <= n - x
  <2>1. y \in 1..n /\ n - y \in Nat /\ n - (n - y) = y
    OBVIOUS
  <2>2. n - y \in U
    BY <2>1
  <2> QED
    BY <1>4, <2>1, <2>2
<1>6. n - x \in T
  BY <1>4
<1> QED
  BY <1>5, <1>6
-----------------------------------------------------------------------------
(* The parts of off as the code divides it: agno, agblock and slot. *)
LEMMA Division ==
    ASSUME NEW n \in Nat, NEW d \in Nat \ {0}
    PROVE  /\ n \div d \in Nat /\ n % d \in Nat
           /\ n = (n \div d) * d + (n % d) /\ n % d < d
  BY SMT

LEMMA Unique ==
    ASSUME NEW n \in Nat, NEW d \in Nat \ {0}, NEW q \in Nat, NEW r \in Nat,
           r < d, n = q * d + r
    PROVE  n \div d = q /\ n % d = r
  BY SMT

LEMMA Times ==
    ASSUME NEW q \in Nat, NEW d \in Nat \ {0}
    PROVE  (q * d) \div d = q
<1>1. q * d \in Nat /\ q * d = q * d + 0 /\ 0 < d
  OBVIOUS
<1> QED
  BY <1>1, Unique

LEMMA Monotone ==
    ASSUME NEW x \in Nat, NEW y \in Nat, NEW d \in Nat, x <= y
    PROVE  x * d <= y * d /\ x * d \in Nat /\ y * d \in Nat
  BY SMT

(* Two-digit numbers: n < a * b has a quotient below a. *)
LEMMA Quotient ==
    ASSUME NEW a \in Nat \ {0}, NEW b \in Nat \ {0}, NEW n \in Nat, n < a * b
    PROVE  n \div b < a
<1>1. n \div b \in Nat /\ n = (n \div b) * b + (n % b) /\ n % b \in Nat
  BY Division
<1>2. CASE n \div b >= a
  <2>1. (n \div b) * b >= a * b
    BY <1>1, <1>2, Monotone
  <2> DEFINE nb == (n \div b) * b
             ab == a * b
  <2>2. nb \in Nat /\ ab \in Nat
    BY <1>1
  <2> HIDE DEF nb, ab
  <2> QED
    BY <1>1, <2>1, <2>2 DEF nb, ab
<1> QED
  BY <1>1, <1>2

(* The whole units in n: how many of size d it holds. *)
LEMMA WholeUnits ==
    ASSUME NEW n \in Nat, NEW d \in Nat \ {0}, NEW m \in Nat
    PROVE  m * d <= n <=> m <= n \div d
<1> DEFINE q == n \div d
           r == n % d
           qd == q * d
           md == m * d
<1>1. q \in Nat /\ r \in Nat /\ n = qd + r /\ r < d
  BY Division
<1> HIDE DEF q, r
<1>2. qd \in Nat /\ md \in Nat
  BY <1>1
<1>3. CASE m <= q
  <2>1. md <= qd
    BY <1>1, <1>3, Monotone
  <2> HIDE DEF qd, md
  <2> QED
    BY <1>1, <1>2, <1>3, <2>1 DEF md, q
<1>4. CASE m > q
  <2>1. q + 1 \in Nat /\ q + 1 <= m
    BY <1>1, <1>4
  <2>2. (q + 1) * d <= md
    BY <2>1, Monotone
  <2>3. (q + 1) * d = qd + d
    BY <1>1
  <2> HIDE DEF qd, md
  <2>4. md > n
    BY <1>1, <1>2, <2>2, <2>3
  <2> QED
    BY <1>1, <1>2, <1>4, <2>4 DEF md, q
<1> QED
  BY <1>1, <1>3, <1>4 DEF q

(* From one multiple of d to the next. *)
LEMMA NextMultiple ==
    ASSUME NEW n \in Nat, NEW d \in Nat \ {0}, n % d = 0
    PROVE  /\ (n + d) % d = 0
           /\ \A m \in Nat : m % d = 0 /\ n < m => n + d <= m
<1> DEFINE q == n \div d
           qd == q * d
<1>1. q \in Nat /\ n = qd
  BY Division
<1> HIDE DEF q
<1>2. (q + 1) * d = qd + d /\ q + 1 \in Nat /\ n + d \in Nat
  BY <1>1
<1>3. (n + d) % d = 0
  <2>1. n + d = (q + 1) * d + 0
    BY <1>1, <1>2
  <2> QED
    BY <1>2, <2>1, Unique
<1>4. ASSUME NEW m \in Nat, m % d = 0, n < m PROVE n + d <= m
  <2> DEFINE p == m \div d
             pd == p * d
  <2>1. p \in Nat /\ m = pd
    BY <1>4, Division
  <2> HIDE DEF p
  <2>2. CASE p <= q
    <3>1. pd <= qd
      BY <1>1, <2>1, <2>2, Monotone
    <3> HIDE DEF pd, qd
    <3> QED
      BY <1>1, <1>4, <2>1, <3>1
  <2>3. CASE q + 1 <= p
    <3>1. (q + 1) * d <= pd
      BY <1>1, <1>2, <2>1, <2>3, Monotone
    <3> HIDE DEF pd, qd
    <3> QED
      BY <1>1, <1>2, <2>1, <3>1
  <2> QED
    BY <1>1, <2>1, <2>2, <2>3
<1> QED
  BY <1>3, <1>4

(* Joining the digits again stays below the radix product. *)
LEMMA Joined ==
    ASSUME NEW a \in Nat \ {0}, NEW b \in Nat \ {0}, NEW x \in Nat, NEW y \in Nat,
           x < a, y < b
    PROVE  x * b + y \in Nat /\ x * b + y < a * b
<1>1. (x + 1) * b <= a * b /\ (x + 1) * b = x * b + b
  BY Monotone
<1> DEFINE xb == x * b
           ab == a * b
<1>2. xb \in Nat /\ ab \in Nat /\ xb + b <= ab
  BY <1>1
<1> HIDE DEF xb, ab
<1>3. xb + y \in Nat /\ xb + y < ab
  BY <1>2
<1> QED
  BY <1>3 DEF xb, ab

(* A product that is taken modulo a power of two it does not reach.        *)
Under(M, span, d, len) == (len \div d + 1) * span <= M

LEMMA Untruncated ==
    ASSUME NEW d \in Nat \ {0}, NEW span \in Nat, NEW M \in Nat,
           NEW pos \in Nat, NEW len \in Nat, pos <= len,
           Under(M, span, d, len)
    PROVE  /\ span <= M
           /\ ((pos \div d) * span) % (M + 1) = (pos \div d) * span
<1> DEFINE q == pos \div d
           r == len \div d
           qs == q * span
           rs == (r + 1) * span
<1>1. q \in Nat /\ r \in Nat /\ q * d <= pos
  <2>1. q \in Nat /\ r \in Nat /\ q <= q
    BY Division
  <2> HIDE DEF q, r
  <2>2. q * d <= pos <=> q <= pos \div d
    BY <2>1, WholeUnits
  <2> QED
    BY <2>1, <2>2 DEF q
<1> HIDE DEF q, r
<1>2. q <= r
  <2> DEFINE qd == q * d
  <2>1. qd \in Nat
    BY <1>1
  <2> HIDE DEF qd
  <2>2. qd <= len
    BY <1>1, <2>1 DEF qd
  <2>3. q * d <= len <=> q <= len \div d
    BY <1>1, WholeUnits
  <2> QED
    BY <2>2, <2>3 DEF qd, r
<1>3. qs <= rs /\ qs \in Nat /\ rs \in Nat /\ 1 * span <= rs
  BY <1>1, <1>2, Monotone
<1>4. rs <= M
  BY DEF Under, r
<1> HIDE DEF qs, rs
<1>5. span <= M /\ qs <= M
  BY <1>3, <1>4
<1>6. 0 \in Nat /\ qs < M + 1 /\ qs = 0 * (M + 1) + qs /\ M + 1 \in Nat \ {0}
  BY <1>3, <1>5
<1>7. qs % (M + 1) = qs
  BY <1>3, <1>6, Unique
<1> QED
  BY <1>5, <1>7 DEF qs, q

(* An inode number and a byte offset are two ways to write a group, a      *)
(* block of it and a slot of that.  With A of S blocks in use, P slots of  *)
(* I bytes in a block of B, the offset's digits are those of the number.   *)
GroupDigit(A, B, pos) == pos \div (A * B)
BlockDigit(A, B, pos) == (pos % (A * B)) \div B
SlotDigit(A, B, I, pos) == ((pos % (A * B)) % B) \div I
NumberAt(A, S, P, B, I, pos) ==
    GroupDigit(A, B, pos) * (S * P) + (BlockDigit(A, B, pos) * P + SlotDigit(A, B, I, pos))

LEMMA Digits ==
    ASSUME NEW A \in Nat \ {0}, NEW S \in Nat \ {0}, NEW P \in Nat \ {0}, NEW I \in Nat \ {0},
           A <= S, NEW B, B = P * I, NEW pos \in Nat, pos % I = 0
    PROVE  LET q == GroupDigit(A, B, pos)
               b == BlockDigit(A, B, pos)
               s == SlotDigit(A, B, I, pos)
               ino == NumberAt(A, S, P, B, I, pos)
           IN  /\ q \in Nat /\ b \in Nat /\ s \in Nat /\ ino \in Nat
               /\ b < A /\ ino \div (S * P) = q
               /\ (ino % (S * P)) \div P = b /\ (ino % (S * P)) % P = s
               /\ pos = (q * A + b) * B + s * I
<1> DEFINE AB == A * B
           SP == S * P
           q == pos \div AB
           w == pos % AB
           b == w \div B
           r == w % B
           s == r \div I
           agino == b * P + s
           ino == q * SP + agino
<1>1. B \in Nat \ {0}
  OBVIOUS
<1>4. AB \in Nat \ {0} /\ SP \in Nat \ {0}
  BY <1>1
<1> HIDE DEF AB, SP
<1>5. q \in Nat /\ w \in Nat /\ pos = q * AB + w /\ w < AB
  BY <1>4, Division
<1>6. b \in Nat /\ r \in Nat /\ w = b * B + r /\ r < B
  BY <1>1, <1>5, Division
<1>7. b < A
  BY <1>1, <1>5, Quotient DEF AB
<1>8. s \in Nat /\ r = s * I + (r % I) /\ s < P /\ r % I \in Nat /\ r % I < I
  BY <1>1, <1>6, Division, Quotient
<1> HIDE DEF q, w, b, r, s
<1>9. r % I = 0 /\ r = s * I
  <2> DEFINE t == r % I
             n == q * A * P + b * P + s
  <2>1. n \in Nat
    BY <1>5, <1>6, <1>8
  <2>2. q * AB = q * A * P * I
    BY <1>5 DEF AB
  <2>3. b * B = b * P * I
    BY <1>6
  <2>4. n * I = q * A * P * I + b * P * I + s * I
    BY <1>5, <1>6, <1>8
  <2>5. pos = n * I + t
    <3> DEFINE x == q * AB
               y == b * B
               z == s * I
    <3>1. x \in Nat /\ y \in Nat /\ z \in Nat /\ pos = x + w /\ w = y + r /\ r = z + t
      BY <1>1, <1>4, <1>5, <1>6, <1>8
    <3>2. n * I = x + y + z
      BY <2>2, <2>3, <2>4
    <3>3. t \in Nat /\ r \in Nat /\ w \in Nat
      BY <1>5, <1>6, <1>8
    <3> HIDE DEF x, y, z, n, t
    <3> QED
      BY <3>1, <3>2, <3>3
  <2>6. t \in Nat /\ t < I
    BY <1>8
  <2> HIDE DEF n, t
  <2>7. pos % I = t
    BY <2>1, <2>5, <2>6, Unique
  <2> QED
    BY <1>8, <2>7 DEF t
<1>10. agino \in Nat /\ agino < SP
  <2>1. agino < A * P /\ agino \in Nat
    BY <1>6, <1>7, <1>8, Joined
  <2>2. A * P <= S * P /\ A * P \in Nat
    BY Monotone
  <2> DEFINE ap == A * P
             sp == S * P
  <2>3. ap \in Nat /\ sp \in Nat /\ ap <= sp /\ agino < ap
    BY <2>1, <2>2
  <2> HIDE DEF ap, sp, agino
  <2>4. agino < sp
    BY <2>1, <2>3
  <2> QED
    BY <2>1, <2>4 DEF SP, sp
<1>11. ino \in Nat /\ ino \div SP = q /\ ino % SP = agino
  <2> HIDE DEF agino
  <2> QED
    BY <1>4, <1>5, <1>10, Unique
<1>12. agino \div P = b /\ agino % P = s
  BY <1>6, <1>8, <1>10, Unique
<1> HIDE DEF agino, ino
<1>13. pos = (q * A + b) * B + s * I
  <2>1. q * AB = q * A * B /\ (q * A + b) * B = q * A * B + b * B
    BY <1>1, <1>5, <1>6 DEF AB
  <2> DEFINE x == q * AB
             y == b * B
             z == s * I
  <2>2. x \in Nat /\ y \in Nat /\ z \in Nat /\ pos = x + w /\ w = y + z
    BY <1>1, <1>4, <1>5, <1>6, <1>8, <1>9
  <2>3. (q * A + b) * B = x + y
    BY <2>1
  <2> HIDE DEF x, y, z
  <2>4. pos = (x + y) + z
    BY <1>5, <2>2
  <2> QED
    BY <2>3, <2>4 DEF z
<1> QED
  BY <1>5, <1>6, <1>7, <1>8, <1>11, <1>12, <1>13
     DEF AB, SP, q, w, b, r, s, agino, ino, GroupDigit, BlockDigit, SlotDigit, NumberAt

(* The other way: the digits of an offset put together from a group, a     *)
(* block and a slot.                                                       *)
OffsetAt(A, B, I, q, b, s) == (q * A + b) * B + s * I

LEMMA Undigits ==
    ASSUME NEW A \in Nat \ {0}, NEW B \in Nat \ {0}, NEW I \in Nat \ {0},
           NEW q \in Nat, NEW b \in Nat, NEW s \in Nat, b < A, s * I < B,
           NEW pos, pos = OffsetAt(A, B, I, q, b, s)
    PROVE  /\ pos \in Nat /\ GroupDigit(A, B, pos) = q
           /\ BlockDigit(A, B, pos) = b /\ SlotDigit(A, B, I, pos) = s
<1> DEFINE AB == A * B
           sI == s * I
           w == b * B + sI
<1>1. AB \in Nat \ {0}
  OBVIOUS
<1>2. sI \in Nat /\ sI < B
  OBVIOUS
<1> HIDE DEF sI
<1>3. w \in Nat /\ w < AB
  BY <1>1, <1>2, Joined
<1>4. pos = q * AB + w
  <2>1. (q * A + b) * B = q * AB + b * B
    BY <1>1
  <2> DEFINE x == q * AB
             y == b * B
  <2>2. x \in Nat /\ y \in Nat /\ pos = (x + y) + sI /\ w = y + sI
    BY <1>1, <2>1 DEF sI, OffsetAt
  <2> HIDE DEF x, y, w
  <2>3. pos = x + w
    BY <1>2, <2>2
  <2> QED
    BY <2>3 DEF x
<1> HIDE DEF AB
<1>5. w \div B = b /\ w % B = sI
  <2>1. w = b * B + sI
    OBVIOUS
  <2> HIDE DEF w
  <2> QED
    BY <1>2, <1>3, <2>1, Unique
<1> HIDE DEF w
<1>6. pos \in Nat /\ pos \div AB = q /\ pos % AB = w
  <2>1. pos \in Nat
    BY <1>1, <1>3, <1>4
  <2> QED
    BY <1>1, <1>3, <1>4, <2>1, Unique
<1>7. sI \div I = s
  BY Times DEF sI
<1> QED
  BY <1>5, <1>6, <1>7 DEF AB, GroupDigit, BlockDigit, SlotDigit

(* Sums from a first value on: the recursive function exists. *)
IsSums(f, n, a, d) ==
    /\ f \in [1..(n + 1) -> Nat]
    /\ \A k \in 1..(n + 1) : f[k] = IF k = 1 THEN a ELSE f[k - 1] + d[k - 1]

LEMMA SumsExist ==
    ASSUME NEW n \in Nat, NEW a \in Nat, NEW d \in [1..n -> Nat]
    PROVE  \E f : IsSums(f, n, a, d)
<1> DEFINE Is(f, m) == IsSums(f, m, a, d)
           T == {m \in Nat : m <= n => \E f : Is(f, m)}
<1>1. 0 \in T
  <2> DEFINE f == [k \in 1..1 |-> a]
  <2>1. Is(f, 0)
    BY DEF IsSums
  <2> HIDE DEF f, Is
  <2> QED
    BY <2>1
<1>2. ASSUME NEW m \in Nat, m \in T PROVE m + 1 \in T
  <2> HIDE DEF Is, IsSums
  <2> SUFFICES ASSUME m + 1 <= n PROVE \E f : Is(f, m + 1)
    OBVIOUS
  <2>1. PICK f : Is(f, m)
    BY <1>2
  <2> DEFINE g == [k \in 1..((m + 1) + 1) |-> IF k = m + 2 THEN f[m + 1] + d[m + 1] ELSE f[k]]
  <2>2. /\ f \in [1..(m + 1) -> Nat]
        /\ \A k \in 1..(m + 1) : f[k] = IF k = 1 THEN a ELSE f[k - 1] + d[k - 1]
    BY <2>1 DEF Is, IsSums
  <2>3. ASSUME NEW k \in 1..((m + 1) + 1)
        PROVE  g[k] = IF k = 1 THEN a ELSE g[k - 1] + d[k - 1]
    <3>1. CASE k = m + 2
      <4>1. g[k] = f[m + 1] + d[m + 1] /\ k # 1 /\ k - 1 = m + 1 /\ g[m + 1] = f[m + 1]
        BY <3>1
      <4> QED
        BY <4>1
    <3>2. CASE k \in 1..(m + 1)
      <4>1. g[k] = f[k] /\ (k # 1 => g[k - 1] = f[k - 1])
        BY <3>2
      <4> QED
        BY <2>2, <3>2, <4>1
    <3> QED
      BY <3>1, <3>2
  <2>4. g \in [1..((m + 1) + 1) -> Nat]
    <3>1. f[m + 1] \in Nat /\ d[m + 1] \in Nat
      BY <2>2
    <3> QED
      BY <2>2, <3>1
  <2>5. Is(g, m + 1)
    <3> HIDE DEF g
    <3> QED
      BY <2>3, <2>4 DEF Is, IsSums
  <2> HIDE DEF g
  <2> QED
    BY <2>5
<1> HIDE DEF T, Is
<1>3. Nat \subseteq T
  BY <1>1, <1>2, Induction
<1>4. n \in T
  BY <1>3
<1> QED
  BY <1>4 DEF T, Is
-----------------------------------------------------------------------------
(* A concatenation is built from its front, one part after the other ...   *)
LEMMA FlattenSteps ==
    ASSUME NEW S, NEW w \in Seq(Seq(S))
    PROVE  \E F \in [0..Len(w) -> Seq(S)] :
              /\ F[0] = <<>>
              /\ \A i \in 1..Len(w) : F[i] = F[i - 1] \o w[i]
              /\ F[Len(w)] = FlattenSeq(w)
<1> DEFINE n == Len(w)
           Is(f, m) == f = [i \in 1..m |-> IF i = 1 THEN w[i] ELSE f[i - 1] \o w[i]]
           T == {m \in Nat : m <= n => \E f : Is(f, m)}
           C == CHOOSE f : Is(f, n)
           F == [i \in 0..n |-> IF i = 0 THEN <<>> ELSE C[i]]
<1>1. n \in Nat /\ \A i \in 1..n : w[i] \in Seq(S)
  OBVIOUS
<1>2. FlattenSeq(w) = IF n = 0 THEN w ELSE C[n]
  BY DEF FlattenSeq
<1>3. Is(C, n)
  <2>1. 0 \in T
    <3>1. Is(<<>>, 0)
      OBVIOUS
    <3> QED
      BY <3>1
  <2>2. ASSUME NEW m \in Nat, m \in T PROVE m + 1 \in T
    <3> HIDE DEF Is, n
    <3> SUFFICES ASSUME m + 1 <= n PROVE \E f : Is(f, m + 1)
      OBVIOUS
    <3>1. PICK f : Is(f, m)
      BY <1>1, <2>2
    <3> DEFINE g == [i \in 1..(m + 1) |->
                        IF i = m + 1 THEN (IF i = 1 THEN w[i] ELSE f[m] \o w[i]) ELSE f[i]]
    <3>2. \A i \in 1..m : f[i] = IF i = 1 THEN w[i] ELSE f[i - 1] \o w[i]
      BY <3>1 DEF Is
    <3>3. ASSUME NEW i \in 1..(m + 1)
          PROVE  g[i] = IF i = 1 THEN w[i] ELSE g[i - 1] \o w[i]
      <4>1. CASE i = m + 1
        <5>1. i # 1 => g[i - 1] = f[m]
          BY <4>1
        <5> QED
          BY <4>1, <5>1
      <4>2. CASE i \in 1..m
        <5>1. i # 1 => g[i - 1] = f[i - 1]
          BY <4>2
        <5>2. g[i] = f[i]
          BY <4>2
        <5> QED
          BY <3>2, <4>2, <5>1, <5>2
      <4> QED
        BY <4>1, <4>2
    <3>4. g = [i \in 1..(m + 1) |-> IF i = 1 THEN w[i] ELSE g[i - 1] \o w[i]]
      BY <3>3
    <3>5. Is(g, m + 1)
      <4> HIDE DEF g
      <4> QED
        BY <3>4 DEF Is
    <3> HIDE DEF g
    <3> QED
      BY <3>5
  <2> HIDE DEF T, Is, n
  <2>3. Nat \subseteq T
    BY <2>1, <2>2, Induction
  <2>4. \E f : Is(f, n)
    BY <1>1, <2>3 DEF T
  <2> QED
    BY <2>4
<1> HIDE DEF C
<1>4. \A i \in 1..n : C[i] = IF i = 1 THEN w[i] ELSE C[i - 1] \o w[i]
  BY <1>3
<1> HIDE DEF Is
<1>5. F[0] = <<>> /\ \A i \in 1..n : F[i] = C[i]
  BY <1>1
<1>6. \A i \in 1..n : F[i] = F[i - 1] \o w[i]
  <2> SUFFICES ASSUME NEW i \in 1..n PROVE F[i] = F[i - 1] \o w[i]
    OBVIOUS
  <2>1. CASE i = 1
    <3>1. F[i - 1] = <<>> /\ F[i] = w[i]
      BY <1>4, <1>5, <2>1
    <3> QED
      BY <1>1, <3>1, ConcatEmptySeq
  <2>2. CASE i # 1
    <3>1. i - 1 \in 1..n
      BY <1>1, <2>2
    <3>2. F[i - 1] = C[i - 1]
      BY <1>5, <3>1
    <3> QED
      BY <1>4, <1>5, <2>2, <3>2
  <2> QED
    BY <2>1, <2>2
<1>7. F \in [0..n -> Seq(S)]
  <2> DEFINE U == {m \in Nat : m <= n => F[m] \in Seq(S)}
  <2> HIDE DEF F
  <2>1. 0 \in U
    <3>1. <<>> \in Seq(S)
      OBVIOUS
    <3> QED
      BY <1>5, <3>1
  <2>2. ASSUME NEW m \in Nat, m \in U PROVE m + 1 \in U
    <3> SUFFICES ASSUME m + 1 <= n PROVE F[m + 1] \in Seq(S)
      OBVIOUS
    <3>1. F[m] \in Seq(S) /\ m + 1 \in 1..n /\ (m + 1) - 1 = m
      BY <1>1, <2>2
    <3>2. F[m + 1] = F[m] \o w[m + 1] /\ w[m + 1] \in Seq(S)
      BY <1>1, <1>6, <3>1
    <3> QED
      BY <3>1, <3>2, ConcatProperties
  <2>3. \A m \in 0..n : F[m] \in Seq(S)
    <3> HIDE DEF U
    <3>1. Nat \subseteq U
      BY <2>1, <2>2, Induction
    <3> QED
      BY <1>1, <3>1 DEF U
  <2>4. F = [i \in 0..n |-> F[i]]
    BY DEF F
  <2> QED
    BY <2>3, <2>4
<1>8. F[n] = FlattenSeq(w)
  <2>1. CASE n = 0
    <3>1. w = <<>>
      BY <2>1
    <3> QED
      BY <1>2, <1>5, <2>1, <3>1
  <2>2. CASE n # 0
    BY <1>1, <1>2, <1>5, <2>2
  <2> QED
    BY <2>1, <2>2
<1> HIDE DEF F
<1> QED
  BY <1>5, <1>6, <1>7, <1>8

(* ... and can be read from its end: R[i] is what the parts from i on give. *)
IsRest(S, w, R) ==
    /\ R \in [1..(Len(w) + 1) -> Seq(S)]
    /\ R[Len(w) + 1] = <<>>
    /\ \A i \in 1..Len(w) : R[i] = w[i] \o R[i + 1]

LEMMA FlattenRest ==
    ASSUME NEW S, NEW w \in Seq(Seq(S))
    PROVE  \E R : IsRest(S, w, R) /\ R[1] = FlattenSeq(w)
<1> DEFINE n == Len(w)
           Ends(R, m) == /\ R \in [1..(m + 1) -> Seq(S)]
                         /\ R[m + 1] = <<>>
                         /\ \A i \in 1..m : R[i] = w[i] \o R[i + 1]
<1>1. n \in Nat /\ \A i \in 1..n : w[i] \in Seq(S)
  OBVIOUS
<1>2. PICK F \in [0..n -> Seq(S)] :
          /\ F[0] = <<>>
          /\ \A i \in 1..n : F[i] = F[i - 1] \o w[i]
          /\ F[n] = FlattenSeq(w)
  BY FlattenSteps
<1> DEFINE T == {m \in Nat : m <= n => \E R : Ends(R, m) /\ R[1] = F[m]}
<1>3. 0 \in T
  <2> DEFINE R == [i \in 1..1 |-> <<>>]
  <2>1. Ends(R, 0) /\ R[1] = F[0]
    BY <1>2
  <2> HIDE DEF R, Ends
  <2> QED
    BY <2>1
<1>4. ASSUME NEW m \in Nat, m \in T PROVE m + 1 \in T
  <2> HIDE DEF n, Ends
  <2> SUFFICES ASSUME m + 1 <= n PROVE \E R : Ends(R, m + 1) /\ R[1] = F[m + 1]
    OBVIOUS
  <2>1. PICK R : Ends(R, m) /\ R[1] = F[m]
    BY <1>1, <1>4
  <2>2. /\ m + 1 \in 1..n /\ (m + 1) - 1 = m /\ (m + 1) + 1 = m + 2
        /\ \A i \in 1..m : i \in 1..n /\ i + 1 \in 1..(m + 1)
        /\ \A i \in 1..(m + 2) : i \in 1..(m + 1) \/ i = m + 2
        /\ \A i \in 1..(m + 1) : i # m + 2 /\ i \in 1..(m + 2) /\ i + 1 \in 1..(m + 2)
                                 /\ (i \in 1..m \/ i = m + 1)
    BY <1>1
  <2> DEFINE last == w[m + 1]
             Q == [i \in 1..(m + 2) |-> IF i = m + 2 THEN <<>> ELSE R[i] \o last]
  <2>3. last \in Seq(S) /\ F[m + 1] = F[m] \o last
    BY <1>1, <1>2, <2>2
  <2>4. /\ R \in [1..(m + 1) -> Seq(S)] /\ R[m + 1] = <<>>
        /\ \A i \in 1..m : R[i] = w[i] \o R[i + 1]
    BY ONLY <2>1 DEF Ends
  <2>5. Q[m + 2] = <<>> /\ \A i \in 1..(m + 1) : Q[i] = R[i] \o last
    <3>1. m + 2 \in 1..(m + 2)
      OBVIOUS
    <3> HIDE DEF last
    <3> QED
      BY <2>2, <3>1
  <2>6. Q \in [1..(m + 2) -> Seq(S)]
    <3>1. \A i \in 1..(m + 1) : R[i] \o last \in Seq(S)
      BY <2>3, <2>4, ConcatProperties
    <3>2. <<>> \in Seq(S)
      OBVIOUS
    <3>3. \A i \in 1..(m + 2) : (IF i = m + 2 THEN <<>> ELSE R[i] \o last) \in Seq(S)
      <4> HIDE DEF last
      <4> QED
        BY <2>2, <3>1, <3>2
    <3> HIDE DEF last
    <3> QED
      BY <3>3
  <2> HIDE DEF last, Q
  <2>7. ASSUME NEW i \in 1..(m + 1) PROVE Q[i] = w[i] \o Q[i + 1]
    <3>1. CASE i \in 1..m
      <4>1. w[i] \in Seq(S) /\ R[i + 1] \in Seq(S) /\ R[i] = w[i] \o R[i + 1]
        BY <1>1, <2>2, <2>4, <3>1
      <4>2. Q[i + 1] = R[i + 1] \o last /\ Q[i] = R[i] \o last
        BY <2>2, <2>5, <3>1
      <4> DEFINE part == w[i]
                 rest == R[i + 1]
      <4>3. part \in Seq(S) /\ rest \in Seq(S) /\ last \in Seq(S)
        BY <2>3, <4>1
      <4> HIDE DEF part, rest
      <4>4. (part \o rest) \o last = part \o (rest \o last)
        BY ONLY <4>3, ConcatAssociative
      <4> QED
        BY <4>1, <4>2, <4>4 DEF part, rest
    <3>2. CASE i = m + 1
      <4>1. Q[i] = <<>> \o last /\ Q[i + 1] = <<>>
        BY <2>2, <2>4, <2>5, <3>2
      <4> QED
        BY <2>3, <3>2, <4>1, ConcatEmptySeq DEF last
    <3> QED
      BY <2>2, <3>1, <3>2
  <2>8. Ends(Q, m + 1)
    BY <2>2, <2>5, <2>6, <2>7 DEF Ends
  <2>9. Q[1] = F[m + 1]
    <3>1. 1 \in 1..(m + 1)
      OBVIOUS
    <3> QED
      BY <2>1, <2>3, <2>5, <3>1
  <2> QED
    BY <2>8, <2>9
<1>5. \E R : Ends(R, n) /\ R[1] = F[n]
  <2> HIDE DEF T, Ends, n
  <2>1. Nat \subseteq T
    BY <1>3, <1>4, Induction
  <2> QED
    BY <1>1, <2>1 DEF T
<1> QED
  BY <1>2, <1>5 DEF IsRest

(* Parts that are empty leave nothing behind. *)
LEMMA RestGap ==
    ASSUME NEW S, NEW w \in Seq(Seq(S)), NEW R, IsRest(S, w, R),
           NEW i \in 1..(Len(w) + 1), NEW j \in i..(Len(w) + 1),
           \A k \in i..(j - 1) : w[k] = <<>>
    PROVE  R[i] = R[j]
<1> DEFINE n == Len(w)
<1>1. n \in Nat /\ i \in 1..(n + 1) /\ j \in i..(n + 1)
  OBVIOUS
<1>2. /\ R \in [1..(n + 1) -> Seq(S)]
      /\ \A k \in 1..n : R[k] = w[k] \o R[k + 1]
  BY DEF IsRest
<1> HIDE DEF n
<1> DEFINE T == {m \in Nat : i + m <= j => R[i] = R[i + m]}
<1>3. 0 \in T
  BY <1>1
<1>4. ASSUME NEW m \in Nat, m \in T PROVE m + 1 \in T
  <2> SUFFICES ASSUME i + (m + 1) <= j PROVE R[i] = R[i + (m + 1)]
    OBVIOUS
  <2>1. i + m \in i..(j - 1) /\ i + m \in 1..n /\ (i + m) + 1 = i + (m + 1) /\ i + m <= j
        /\ i + (m + 1) \in 1..(n + 1)
    BY <1>1
  <2>2. R[i] = R[i + m] /\ w[i + m] = <<>> /\ R[i + (m + 1)] \in Seq(S)
    BY <1>2, <1>4, <2>1
  <2>3. R[i + m] = <<>> \o R[i + (m + 1)]
    BY <1>2, <2>1, <2>2
  <2> QED
    BY <2>2, <2>3, ConcatEmptySeq
<1> HIDE DEF T
<1>5. Nat \subseteq T
  BY <1>3, <1>4, Induction
<1>6. j - i \in T /\ i + (j - i) = j
  BY <1>1, <1>5
<1> QED
  BY <1>1, <1>6 DEF T

LEMMA FlattenType ==
    ASSUME NEW S, NEW w \in Seq(Seq(S))
    PROVE  FlattenSeq(w) \in Seq(S)
<1>1. PICK F \in [0..Len(w) -> Seq(S)] : F[Len(w)] = FlattenSeq(w)
  BY FlattenSteps
<1>2. Len(w) \in 0..Len(w)
  OBVIOUS
<1> QED
  BY <1>1, <1>2

LEMMA PrefixOfConcat ==
    ASSUME NEW S, NEW s \in Seq(S), NEW t \in Seq(S)
    PROVE  IsPrefix(s, s \o t)
<1> DEFINE u == s \o t
           n == Len(s)
<1>1. u \in Seq(S) /\ Len(u) = n + Len(t) /\ n \in Nat /\ Len(t) \in Nat
  BY ConcatProperties
<1>2. SubSeq(s, 1, n) = SubSeq(u, 1, n)
  <2>1. CASE n = 0
    <3>1. SubSeq(s, 1, 0) = <<>> /\ SubSeq(u, 1, 0) = <<>>
      BY SubSeqEmpty
    <3> QED
      BY <2>1, <3>1
  <2>2. CASE n # 0
    <3>1. 1 \in 1..n /\ n \in 1..n
      BY <1>1, <2>2
    <3> QED
      BY <3>1, SubSeqOfConcat1
  <2> QED
    BY <2>1, <2>2
<1>3. Len(s) <= Len(u)
  <2> HIDE DEF u
  <2> QED
    BY <1>1
<1> QED
  BY <1>2, <1>3 DEF IsPrefix

(* A slice of a sequence, or of a function on an interval. *)
LEMMA Slice ==
    ASSUME NEW S, NEW s, NEW m \in Nat, NEW k \in Nat, \A i \in 1..k : s[m + i] \in S
    PROVE  SubSeq(s, m + 1, m + k) = [i \in 1..k |-> s[m + i]]
<1> DEFINE u == SubSeq(s, m + 1, m + k)
           v == [i \in 1..k |-> s[m + i]]
<1>1. \A j \in (m + 1)..(m + k) : s[j] \in S
  <2> SUFFICES ASSUME NEW j \in (m + 1)..(m + k) PROVE s[j] \in S
    OBVIOUS
  <2>1. j - m \in 1..k /\ m + (j - m) = j
    OBVIOUS
  <2> QED
    BY <2>1
<1>2. /\ u \in Seq(S)
      /\ Len(u) = IF m + 1 <= m + k THEN (m + k) - (m + 1) + 1 ELSE 0
      /\ \A i \in 1..((m + k) - (m + 1) + 1) : u[i] = s[(m + 1) + i - 1]
  BY <1>1, SubSeqProperties
<1>3. v \in Seq(S) /\ Len(v) = k /\ \A i \in 1..k : v[i] = s[m + i]
  OBVIOUS
<1> HIDE DEF u, v
<1>4. Len(u) = k
  BY <1>2
<1>5. \A i \in 1..k : u[i] = v[i]
  <2> SUFFICES ASSUME NEW i \in 1..k PROVE u[i] = v[i]
    OBVIOUS
  <2>1. i \in 1..((m + k) - (m + 1) + 1) /\ (m + 1) + i - 1 = m + i
    OBVIOUS
  <2> QED
    BY <1>2, <1>3, <2>1
<1>6. u = v
  BY <1>2, <1>3, <1>4, <1>5, SeqEqual
<1> QED
  BY <1>6 DEF u, v
=============================================================================
