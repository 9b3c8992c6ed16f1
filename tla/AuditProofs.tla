---------------------------- MODULE AuditProofs -----------------------------
(***************************************************************************)
(* Theorems about Audit for every image and every geometry its primary     *)
(* superblock claims.                                                      *)
(***************************************************************************)
EXTENDS Audit, DataLemmas, FiniteSetTheorems

Anomaly ==
    [kind : {"CrcMismatch"}, structure : {"superblock", "AGF", "AGI", "inode"}, at : Nat]
    \cup [kind : {"SbMirrorDivergence"}, agno : Nat, field : {"agblocks", "agcount", "blocksize", "inodesize"}]
    \cup [kind : {"OrphanedInode"}, agno : Nat, bucket : Nat, agino : Int]
    \cup [kind : {"ImpossibleGeometry"}, value : Nat, limit : Nat]
-----------------------------------------------------------------------------
(* Reports: the anomalies in one, and that it holds none twice.            *)
Elems(s) == {s[k] : k \in 1..Len(s)}
Once(s) == \A j, k \in 1..Len(s) : s[j] = s[k] => j = k

LEMMA WhenFacts ==
    ASSUME NEW A, NEW a \in A, NEW c
    PROVE  /\ When(c, a) \in Seq(A) /\ Once(When(c, a))
           /\ \A x \in Elems(When(c, a)) : c /\ x = a
           /\ Elems(When(c, a)) \subseteq {a}
           /\ c => a \in Elems(When(c, a))
<1>1. CASE c
  <2>1. When(c, a) = <<a>>
    BY <1>1 DEF When
  <2>2. <<a>> \in Seq(A) /\ Len(<<a>>) = 1 /\ <<a>>[1] = a
    OBVIOUS
  <2> DEFINE w == When(c, a)
  <2>3. w \in Seq(A) /\ Len(w) = 1 /\ w[1] = a
    BY <2>1, <2>2
  <2> HIDE DEF w
  <2>4. \A k : k \in 1..Len(w) <=> k = 1
    BY <2>3
  <2>5. Once(w) /\ Elems(w) = {a}
    BY <2>3, <2>4 DEF Once, Elems
  <2> QED
    BY <1>1, <2>3, <2>5 DEF w
<1>2. CASE ~c
  <2>1. When(c, a) = <<>>
    BY <1>2 DEF When
  <2>2. <<>> \in Seq(A) /\ Len(<<>>) = 0
    OBVIOUS
  <2> QED
    BY <1>2, <2>1, <2>2 DEF Once, Elems
<1> QED
  BY <1>1, <1>2

LEMMA ConcatElems ==
    ASSUME NEW A, NEW s \in Seq(A), NEW t \in Seq(A)
    PROVE  s \o t \in Seq(A) /\ Elems(s \o t) = Elems(s) \cup Elems(t)
<1> DEFINE u == s \o t
<1>1. /\ u \in Seq(A) /\ Len(u) = Len(s) + Len(t) /\ Len(s) \in Nat /\ Len(t) \in Nat
      /\ \A k \in 1..Len(u) : u[k] = IF k <= Len(s) THEN s[k] ELSE t[k - Len(s)]
  BY ConcatProperties
<1> HIDE DEF u
<1>2. Elems(u) = Elems(s) \cup Elems(t)
  <2>1. ASSUME NEW k \in 1..Len(u) PROVE u[k] \in Elems(s) \cup Elems(t)
    <3>1. k <= Len(s) => k \in 1..Len(s)
      BY <1>1
    <3>2. ~(k <= Len(s)) => k - Len(s) \in 1..Len(t)
      BY <1>1
    <3> QED
      BY <1>1, <3>1, <3>2 DEF Elems
  <2>2. ASSUME NEW k \in 1..Len(s) PROVE s[k] \in Elems(u)
    <3>1. k \in 1..Len(u) /\ k <= Len(s)
      BY <1>1
    <3> QED
      BY <1>1, <3>1 DEF Elems
  <2>3. ASSUME NEW k \in 1..Len(t) PROVE t[k] \in Elems(u)
    <3>1. Len(s) + k \in 1..Len(u) /\ ~(Len(s) + k <= Len(s)) /\ (Len(s) + k) - Len(s) = k
      BY <1>1
    <3>2. u[Len(s) + k] = t[k]
      BY <1>1, <3>1
    <3> QED
      BY <3>1, <3>2 DEF Elems
  <2> QED
    BY <2>1, <2>2, <2>3 DEF Elems
<1> QED
  BY <1>1, <1>2 DEF u

LEMMA ConcatFacts ==
    ASSUME NEW A, NEW s \in Seq(A), NEW t \in Seq(A), Once(s), Once(t),
           Elems(s) \cap Elems(t) = {}
    PROVE  s \o t \in Seq(A) /\ Once(s \o t) /\ Elems(s \o t) = Elems(s) \cup Elems(t)
<1> DEFINE u == s \o t
<1>1. /\ u \in Seq(A) /\ Len(u) = Len(s) + Len(t) /\ Len(s) \in Nat /\ Len(t) \in Nat
      /\ \A k \in 1..Len(u) : u[k] = IF k <= Len(s) THEN s[k] ELSE t[k - Len(s)]
  BY ConcatProperties
<1>2. Elems(u) = Elems(s) \cup Elems(t)
  BY ConcatElems
<1> HIDE DEF u
<1>3. Once(u)
  <2> SUFFICES ASSUME NEW j \in 1..Len(u), NEW k \in 1..Len(u), u[j] = u[k] PROVE j = k
    BY DEF Once
  <2>1. \A i \in 1..Len(u) : \/ i \in 1..Len(s) /\ u[i] = s[i] /\ u[i] \in Elems(s)
                             \/ i - Len(s) \in 1..Len(t) /\ u[i] = t[i - Len(s)] /\ u[i] \in Elems(t)
    <3> SUFFICES ASSUME NEW i \in 1..Len(u)
                 PROVE  \/ i \in 1..Len(s) /\ u[i] = s[i] /\ u[i] \in Elems(s)
                        \/ i - Len(s) \in 1..Len(t) /\ u[i] = t[i - Len(s)] /\ u[i] \in Elems(t)
      OBVIOUS
    <3>1. i <= Len(s) => i \in 1..Len(s)
      BY <1>1
    <3>2. ~(i <= Len(s)) => i - Len(s) \in 1..Len(t)
      BY <1>1
    <3> QED
      BY <1>1, <3>1, <3>2 DEF Elems
  <2>2. CASE j \in 1..Len(s) /\ k \in 1..Len(s) /\ u[j] = s[j] /\ u[k] = s[k]
    BY <2>2 DEF Once
  <2>3. CASE /\ j - Len(s) \in 1..Len(t) /\ k - Len(s) \in 1..Len(t)
             /\ u[j] = t[j - Len(s)] /\ u[k] = t[k - Len(s)]
    <3>1. j - Len(s) = k - Len(s)
      BY <2>3 DEF Once
    <3> QED
      BY <1>1, <3>1
  <2> QED
    BY <2>1, <2>2, <2>3
<1> QED
  BY <1>1, <1>2, <1>3 DEF u

(* A report put together of one possible anomaly after the other.          *)
Gathered(n, c, x) == FlattenSeq([k \in 1..n |-> When(c[k], x[k])])

LEMMA FlattenFacts ==
    ASSUME NEW n \in Nat, NEW c, NEW x \in [1..n -> Anomaly],
           \A j, k \in 1..n : x[j] = x[k] => j = k
    PROVE  /\ Gathered(n, c, x) \in Seq(Anomaly) /\ Once(Gathered(n, c, x))
           /\ \A a \in Elems(Gathered(n, c, x)) : \E k \in 1..n : c[k] /\ a = x[k]
           /\ \A k \in 1..n : c[k] => x[k] \in Elems(Gathered(n, c, x))
<1> DEFINE w == [k \in 1..n |-> When(c[k], x[k])]
           Is(f, m) == f = [i \in 1..m |-> IF i = 1 THEN w[i] ELSE f[i - 1] \o w[i]]
           T == {m \in Nat : m <= n => \E f : Is(f, m)}
           F == CHOOSE f : Is(f, n)
<1>0. /\ DOMAIN w = 1..n /\ \A k \in 1..n : w[k] = When(c[k], x[k])
      /\ \A k \in 1..n : /\ w[k] \in Seq(Anomaly) /\ Once(w[k])
                         /\ \A a \in Elems(w[k]) : c[k] /\ a = x[k]
                         /\ Elems(w[k]) \subseteq {x[k]}
                         /\ c[k] => x[k] \in Elems(w[k])
  BY WhenFacts
<1>1. w \in Seq(Seq(Anomaly)) /\ Len(w) = n
  BY <1>0
<1>2. FlattenSeq(w) = IF n = 0 THEN w ELSE F[n]
  BY <1>1 DEF FlattenSeq
<1> HIDE DEF w
<1>3. 0 \in T
  <2>1. Is(<<>>, 0)
    OBVIOUS
  <2> QED
    BY <2>1
<1>4. ASSUME NEW m \in Nat, m \in T PROVE m + 1 \in T
  <2> HIDE DEF Is
  <2> SUFFICES ASSUME m + 1 <= n PROVE \E f : Is(f, m + 1)
    OBVIOUS
  <2>0. m <= n
    OBVIOUS
  <2>1. PICK f : Is(f, m)
    BY <1>4, <2>0
  <2> USE DEF Is
  <2> DEFINE g == [i \in 1..(m + 1) |->
                      IF i = m + 1 THEN (IF i = 1 THEN w[i] ELSE f[m] \o w[i]) ELSE f[i]]
  <2>2. DOMAIN f = 1..m /\ \A i \in 1..m : f[i] = IF i = 1 THEN w[i] ELSE f[i - 1] \o w[i]
    BY <2>1
  <2>3. \A i \in 1..(m + 1) : g[i] = IF i = 1 THEN w[i] ELSE g[i - 1] \o w[i]
    <3> SUFFICES ASSUME NEW i \in 1..(m + 1)
                 PROVE  g[i] = IF i = 1 THEN w[i] ELSE g[i - 1] \o w[i]
      OBVIOUS
    <3>1. CASE i = m + 1
      <4>1. i # 1 => g[i - 1] = f[m]
        BY <3>1
      <4> QED
        BY <3>1, <4>1
    <3>2. CASE i \in 1..m
      <4>1. i # 1 => g[i - 1] = f[i - 1]
        BY <3>2
      <4>2. g[i] = f[i]
        BY <3>2
      <4> QED
        BY <2>2, <3>2, <4>1, <4>2
    <3> QED
      BY <3>1, <3>2
  <2>4. Is(g, m + 1)
    BY <2>3
  <2> HIDE DEF g, Is
  <2> QED
    BY <2>4
<1>5. Is(F, n)
  <2> HIDE DEF T, Is
  <2>1. Nat \subseteq T
    BY <1>3, <1>4, Induction
  <2>2. \E f : Is(f, n)
    BY <2>1 DEF T
  <2> QED
    BY <2>2
<1> HIDE DEF F
<1>6. \A i \in 1..n : F[i] = IF i = 1 THEN w[i] ELSE F[i - 1] \o w[i]
  BY <1>5
<1> DEFINE Good(i) == /\ F[i] \in Seq(Anomaly) /\ Once(F[i])
                      /\ \A a \in Elems(F[i]) : \E k \in 1..i : c[k] /\ a = x[k]
                      /\ \A k \in 1..i : c[k] => x[k] \in Elems(F[i])
           U == {m \in Nat : m \in 1..n => Good(m)}
<1>7. 0 \in U
  OBVIOUS
<1>8. ASSUME NEW m \in Nat, m \in U PROVE m + 1 \in U
  <2> SUFFICES ASSUME m + 1 \in 1..n PROVE Good(m + 1)
    OBVIOUS
  <2>1. CASE m = 0
    <3>1. F[1] = w[1] /\ 1 \in 1..n
      BY <1>6, <2>1
    <3> QED
      BY <1>0, <2>1, <3>1
  <2>2. CASE m # 0
    <3>0. m \in 1..n /\ m + 1 # 1 /\ (m + 1) - 1 = m
      BY <2>2
    <3>1. m \in 1..n /\ F[m + 1] = F[m] \o w[m + 1] /\ (m + 1) - 1 = m
      <4>1. F[m + 1] = IF m + 1 = 1 THEN w[m + 1] ELSE F[(m + 1) - 1] \o w[m + 1]
        BY <1>6
      <4> QED
        BY <3>0, <4>1
    <3>2. Good(m)
      BY <1>8, <3>1
    <3>3. Elems(F[m]) \cap Elems(w[m + 1]) = {}
      <4> SUFFICES ASSUME NEW a \in Elems(F[m]), a \in Elems(w[m + 1]) PROVE FALSE
        OBVIOUS
      <4>1. PICK k \in 1..m : a = x[k]
        BY <3>2
      <4>2. a = x[m + 1]
        BY <1>0
      <4>3. k \in 1..n /\ k # m + 1
        BY <3>1
      <4> QED
        BY <4>1, <4>2, <4>3
    <3>4. w[m + 1] \in Seq(Anomaly) /\ Once(w[m + 1])
      BY <1>0
    <3>5. /\ F[m + 1] \in Seq(Anomaly) /\ Once(F[m + 1])
          /\ Elems(F[m + 1]) = Elems(F[m]) \cup Elems(w[m + 1])
      BY <3>1, <3>2, <3>3, <3>4, ConcatFacts
    <3>6. ASSUME NEW a \in Elems(F[m + 1]) PROVE \E k \in 1..(m + 1) : c[k] /\ a = x[k]
      <4>1. CASE a \in Elems(F[m])
        <5>1. PICK k \in 1..m : c[k] /\ a = x[k]
          BY <3>2, <4>1
        <5>2. k \in 1..(m + 1)
          OBVIOUS
        <5> QED
          BY <5>1, <5>2
      <4>2. CASE a \in Elems(w[m + 1])
        <5>1. m + 1 \in 1..(m + 1) /\ c[m + 1] /\ a = x[m + 1]
          BY <1>0, <4>2
        <5> QED
          BY <5>1
      <4> QED
        BY <3>5, <4>1, <4>2
    <3>7. ASSUME NEW k \in 1..(m + 1), c[k] PROVE x[k] \in Elems(F[m + 1])
      <4>1. CASE k \in 1..m
        BY <3>2, <3>5, <3>7, <4>1
      <4>2. CASE k = m + 1
        BY <1>0, <3>5, <3>7, <4>2
      <4> QED
        BY <4>1, <4>2
    <3> QED
      BY <3>5, <3>6, <3>7
  <2> QED
    BY <2>1, <2>2
<1>9. n # 0 => Good(n)
  <2> HIDE DEF U
  <2>1. Nat \subseteq U
    BY <1>7, <1>8, Induction
  <2> HIDE DEF Good
  <2> QED
    BY <2>1 DEF U
<1>10. CASE n = 0
  <2>1. FlattenSeq(w) = <<>>
    BY <1>1, <1>2, <1>10
  <2>2. <<>> \in Seq(Anomaly) /\ Once(<<>>) /\ Elems(<<>>) = {}
    BY DEF Once, Elems
  <2>3. Gathered(n, c, x) = <<>>
    BY <2>1 DEF w, Gathered
  <2>4. 1..n = {}
    BY <1>10
  <2> QED
    BY <2>2, <2>3, <2>4
<1>11. CASE n # 0
  BY <1>2, <1>9, <1>11 DEF w, Gathered
<1> QED
  BY <1>10, <1>11


-----------------------------------------------------------------------------
(* What the sectors of an image hold.                                      *)
LEMMA ImageFacts ==
    ASSUME image \in Images
    PROVE  /\ Len0 \in Nat /\ Len0 <= U64_MAX /\ DOMAIN image = 0..(Len0 - 1)
           /\ \A s \in 0..(Len0 - 1) : image[s] \in Sector
           /\ \A s \in Nat : \A kind : Holds(s, kind) => s \in 0..(Len0 - 1) /\ image[s] \in Sector
<1>1. IsFiniteSet(DOMAIN image) /\ DOMAIN image = 0..(Len0 - 1) /\ Len0 <= U64_MAX
  BY AuditAssumption DEF Len0
<1>2. Len0 \in Nat
  BY <1>1, FS_CardinalityType DEF Len0
<1>3. \A s \in 0..(Len0 - 1) : image[s] \in Sector
  BY <1>1, AuditAssumption
<1> QED
  BY <1>1, <1>2, <1>3 DEF Holds

LEMMA SectorFacts ==
    ASSUME NEW s \in Sector
    PROVE  /\ s.kind = "SB" => /\ s.v5 \in BOOLEAN /\ s.geo \in Layout
                                /\ s.agspan \in Nat \ {0} /\ s.inopb \in Nat \ {0}
           /\ s.kind = "AGI" => s.unlinked \in Seq(Int)
  BY DEF Sector

(* The groups, once there is a primary: one lies behind the other.         *)
LEMMA GroupFacts ==
    ASSUME image \in Images, Holds(0, "SB")
    PROVE  /\ Primary.agcount \in Nat /\ Primary.inodesize \in Nat
           /\ AgBytes \in Nat /\ \A n \in Nat : Base(n) \in Nat
           /\ AgBytes > 0 => \A m, n \in Nat : m < n => Base(m) < Base(n)
           /\ Base(0) = 0
<1>1. image[0] \in Sector /\ image[0].kind = "SB"
  BY ImageFacts DEF Holds
<1>2. Primary \in Layout
  BY <1>1, SectorFacts DEF Primary
<1>3. /\ Primary.agcount \in Nat /\ Primary.inodesize \in Nat
      /\ Primary.agblocks \in Nat /\ Primary.blocksize \in Nat
  BY <1>2 DEF Layout
<1> DEFINE x == Primary.agblocks
           y == Primary.blocksize
<1>4. AgBytes \in Nat
  <2>1. x \in Nat /\ y \in Nat /\ AgBytes = x * y
    BY <1>3 DEF AgBytes
  <2> HIDE DEF x, y
  <2> QED
    BY <2>1
<1> DEFINE z == AgBytes
<1>5. z \in Nat /\ \A n : Base(n) = n * z
  BY <1>4 DEF Base
<1> HIDE DEF z
<1>6. \A n \in Nat : Base(n) \in Nat
  BY <1>5
<1>7. ASSUME z > 0, NEW m \in Nat, NEW n \in Nat, m < n PROVE Base(m) < Base(n)
  <2>1. PICK d \in Nat : d > 0 /\ n = m + d
    <3>1. n - m \in Nat /\ n - m > 0 /\ n = m + (n - m)
      BY <1>7
    <3> QED
      BY <3>1
  <2>2. n * z = m * z + d * z /\ d * z \in Nat /\ m * z \in Nat
    BY <1>5, <2>1
  <2>3. d * z > 0
    BY <1>5, <1>7, <2>1
  <2> DEFINE p == m * z
             q == d * z
  <2>4. p \in Nat /\ q \in Nat /\ q > 0 /\ Base(m) = p /\ Base(n) = p + q
    BY <1>5, <2>2, <2>3
  <2> HIDE DEF p, q
  <2> QED
    BY <2>4
<1>8. Base(0) = 0
  BY <1>5
<1> QED
  BY <1>3, <1>4, <1>6, <1>7, <1>8 DEF z

-----------------------------------------------------------------------------
(* Where the walk finds an anomaly: in allocation group n, or, with g      *)
(* groups and the slots below o behind it, anywhere.                       *)
FoundIn(a, n) ==
    \/ n >= 1 /\ a = Crc("superblock", Base(n))
    \/ a = Crc("AGF", Base(n) + 1)
    \/ a = Crc("AGI", Base(n) + 2)
    \/ n >= 1 /\ a.kind = "SbMirrorDivergence" /\ a.agno = n
    \/ a.kind = "OrphanedInode" /\ a.agno = n
Found(a, g, o) ==
    \/ a = Crc("superblock", 0)
    \/ a.kind = "ImpossibleGeometry"
    \/ \E n \in 0..(g - 1) : FoundIn(a, n)
    \/ \E s \in 0..(o - 1) : a = Crc("inode", s)

(* The walk leaves the groups at the first one past the image. *)
WalkEndsWithTheImage == agno = 0 \/ Base(agno - 1) < Len0

Inv ==
    /\ image \in Images /\ TypeOK /\ WalkEndsWithTheImage
    /\ out \in Seq(Anomaly) /\ Once(out)
    /\ \A a \in Elems(out) : OnImage(a) /\ Found(a, agno, off)
    /\ pc = "superblock" => out = <<>> /\ agno = 0
    /\ pc \in {"ags", "inodes"} => Holds(0, "SB")
    /\ pc \in {"superblock", "ags"} => off = 0
    /\ agno > 0 => Holds(0, "SB") /\ AgBytes > 0
    /\ pc = "inodes" => Primary.inodesize > 0

LEMMA FoundOnce ==
    ASSUME image \in Images, Holds(0, "SB"), AgBytes > 0,
           NEW n \in Nat, NEW a, FoundIn(a, n)
    PROVE  ~Found(a, n, 0)
<1>1. \A m, k \in Nat : m < k => Base(m) < Base(k)
  BY GroupFacts
<1>2. Base(n) \in Nat /\ (n >= 1 => Base(n) > 0)
  <2>1. Base(0) = 0 /\ Base(n) \in Nat
    BY GroupFacts
  <2>2. n >= 1 => Base(0) < Base(n)
    BY <1>1
  <2> QED
    BY <2>1, <2>2
<1>3. a # Crc("superblock", 0) /\ a.kind # "ImpossibleGeometry"
  BY <1>2 DEF FoundIn, Crc
<1>4. ASSUME NEW m \in 0..(n - 1) PROVE ~FoundIn(a, m)
  <2>1. m \in Nat /\ m # n /\ Base(m) \in Nat /\ Base(m) < Base(n)
    BY <1>1, GroupFacts
  <2> QED
    BY <1>2, <2>1 DEF FoundIn, Crc
<1> QED
  BY <1>3, <1>4 DEF Found

-----------------------------------------------------------------------------
(* The reports.  What there is to report of the primary, of a group, and   *)
(* of a slot of the sweep: each report has that and nothing else.          *)
Report(r) == r \in Seq(Anomaly) /\ Once(r)

FieldNames == {"agblocks", "agcount", "blocksize", "inodesize"}
Unheld == AgBytes > 0 /\ Base(Primary.agcount - 1) >= Len0
GeometryDamage(a) ==
    \/ Primary.agcount = 0 /\ a = Impossible(0, 1)
    \/ Primary.agcount # 0 /\ Unheld /\ a = Impossible(Primary.agcount, Len0 \div AgBytes + 1)
PrimaryDamage(a) == (BadSum(0) /\ a = Crc("superblock", 0)) \/ GeometryDamage(a)

FieldDamage(a, n) ==
    \E f \in FieldNames : Primary[f] # image[Base(n)].geo[f] /\ a = Divergence(n, f)
MirrorDamage(a, n) ==
    /\ n >= 1 /\ Holds(Base(n), "SB")
    /\ \/ image[Base(n)].v5 /\ BadSum(Base(n)) /\ a = Crc("superblock", Base(n))
       \/ FieldDamage(a, n)
AgfDamage(a, n) ==
    Holds(Base(n) + 1, "AGF") /\ BadSum(Base(n) + 1) /\ a = Crc("AGF", Base(n) + 1)
BucketDamage(a, n, u) ==
    \E b \in 1..Len(u) : u[b] # NULL_AGINO /\ a = Orphan(n, b, u[b])
AgiDamage(a, n) ==
    /\ Holds(Base(n) + 2, "AGI")
    /\ \/ BadSum(Base(n) + 2) /\ a = Crc("AGI", Base(n) + 2)
       \/ BucketDamage(a, n, image[Base(n) + 2].unlinked)
GroupDamage(a, n) == MirrorDamage(a, n) \/ AgfDamage(a, n) \/ AgiDamage(a, n)
SlotDamage(a, s) ==
    /\ Holds(s, "IN") /\ image[s].di_ino = OffsetToInode(Geo, s)
    /\ BadSum(s) /\ a = Crc("inode", s)

LEMMA EmptyReport ==
    Report(<<>>) /\ Elems(<<>>) = {}
  BY DEF Report, Once, Elems

LEMMA GatheredReport ==
    ASSUME NEW n \in Nat, NEW c, NEW x \in [1..n -> Anomaly],
           \A j, k \in 1..n : x[j] = x[k] => j = k
    PROVE  /\ Report(Gathered(n, c, x))
           /\ \A a : a \in Elems(Gathered(n, c, x)) <=> \E k \in 1..n : c[k] /\ a = x[k]
<1>2. /\ Gathered(n, c, x) \in Seq(Anomaly) /\ Once(Gathered(n, c, x))
      /\ \A a \in Elems(Gathered(n, c, x)) : \E k \in 1..n : c[k] /\ a = x[k]
      /\ \A k \in 1..n : c[k] => x[k] \in Elems(Gathered(n, c, x))
  BY FlattenFacts
<1> QED
  BY <1>2 DEF Report

LEMMA CrcFacts ==
    ASSUME image \in Images, NEW s \in Nat,
           NEW structure \in {"superblock", "AGF", "AGI", "inode"},
           Holds(s, KindOf(structure)), NEW c, c => IsV5 /\ ~image[s].crc
    PROVE  /\ Report(When(c, Crc(structure, s)))
           /\ \A a \in Elems(When(c, Crc(structure, s))) :
                 a = Crc(structure, s) /\ OnImage(a)
           /\ \A a : a \in Elems(When(c, Crc(structure, s))) <=> c /\ a = Crc(structure, s)
<1> DEFINE a == Crc(structure, s)
<1>1. a \in Anomaly /\ a.kind = "CrcMismatch" /\ a.structure = structure /\ a.at = s
  BY DEF Crc, Anomaly
<1>2. c => OnImage(a)
  <2> HIDE DEF a
  <2> QED
    BY <1>1 DEF OnImage
<1> HIDE DEF a
<1>3. /\ Report(When(c, a)) /\ \A x \in Elems(When(c, a)) : c /\ x = a
      /\ c => a \in Elems(When(c, a))
  BY <1>1, WhenFacts DEF Report
<1> QED
  BY <1>2, <1>3 DEF a

LEMMA PrimaryReport ==
    ASSUME image \in Images, Holds(0, "SB")
    PROVE  LET r == CrcReport(0, "superblock") \o GeometryReport
           IN  /\ Report(r)
               /\ \A a \in Elems(r) : OnImage(a) /\ Found(a, 0, 0)
               /\ \A a : a \in Elems(r) <=> PrimaryDamage(a)
<1> DEFINE p == CrcReport(0, "superblock")
<1>1. /\ Report(p) /\ \A a \in Elems(p) : a = Crc("superblock", 0) /\ OnImage(a)
      /\ \A a : a \in Elems(p) <=> BadSum(0) /\ a = Crc("superblock", 0)
  <2>1. Holds(0, KindOf("superblock"))
    BY DEF KindOf
  <2>2. p = When(BadSum(0), Crc("superblock", 0)) /\ (BadSum(0) => IsV5 /\ ~image[0].crc)
    BY DEF CrcReport, BadSum
  <2> HIDE DEF p
  <2> QED
    BY <2>1, <2>2, CrcFacts
<1>2. /\ Report(GeometryReport)
      /\ \A a \in Elems(GeometryReport) : a.kind = "ImpossibleGeometry" /\ OnImage(a)
      /\ \A a : a \in Elems(GeometryReport) <=> GeometryDamage(a)
  <2>1. Len0 \in Nat /\ Primary.agcount \in Nat /\ AgBytes \in Nat
    BY ImageFacts, GroupFacts
  <2>2. ASSUME NEW v \in Nat, NEW l \in Nat, NEW c,
               c => Primary.agcount = 0 \/ Base(Primary.agcount - 1) >= Len0
        PROVE  /\ Report(When(c, Impossible(v, l)))
               /\ \A a \in Elems(When(c, Impossible(v, l))) : a.kind = "ImpossibleGeometry" /\ OnImage(a)
               /\ \A a : a \in Elems(When(c, Impossible(v, l))) <=> c /\ a = Impossible(v, l)
    <3> DEFINE x == Impossible(v, l)
    <3>1. x \in Anomaly /\ x.kind = "ImpossibleGeometry"
      BY DEF Impossible, Anomaly
    <3>2. c => OnImage(x)
      <4> HIDE DEF x
      <4> QED
        BY <2>2, <3>1 DEF OnImage
    <3> HIDE DEF x
    <3>3. /\ Report(When(c, x)) /\ \A a \in Elems(When(c, x)) : c /\ a = x
          /\ c => x \in Elems(When(c, x))
      BY <3>1, WhenFacts DEF Report
    <3> QED
      BY <3>1, <3>2, <3>3 DEF x
  <2>3. CASE Primary.agcount = 0
    <3>1. GeometryReport = When(TRUE, Impossible(0, 1))
      BY <2>3 DEF GeometryReport, When
    <3>2. Primary.agcount = 0 \/ Base(Primary.agcount - 1) >= Len0
      BY <2>3
    <3>3. \A a : GeometryDamage(a) <=> a = Impossible(0, 1)
      BY <2>3 DEF GeometryDamage
    <3> QED
      BY <2>2, <3>1, <3>2, <3>3
  <2>4. CASE Primary.agcount # 0 /\ AgBytes > 0
    <3>1. Len0 \div AgBytes + 1 \in Nat
      BY <2>1, <2>4
    <3> HIDE DEF When, Impossible
    <3>2. PICK l \in Nat : l = Len0 \div AgBytes + 1
      BY <3>1
    <3>3. PICK v \in Nat : v = Primary.agcount
      BY <2>1
    <3>4. PICK c \in BOOLEAN : c = (AgBytes > 0 /\ Base(v - 1) >= Len0)
      OBVIOUS
    <3>5. GeometryReport = When(c, Impossible(v, l))
      BY <2>4, <3>2, <3>3, <3>4 DEF GeometryReport
    <3>6. c => Primary.agcount = 0 \/ Base(Primary.agcount - 1) >= Len0
      BY <3>3, <3>4
    <3>7. \A a : GeometryDamage(a) <=> c /\ a = Impossible(v, l)
      BY <2>4, <3>2, <3>3, <3>4 DEF GeometryDamage, Unheld
    <3> QED
      BY <2>2, <3>5, <3>6, <3>7
  <2>5. CASE Primary.agcount # 0 /\ ~(AgBytes > 0)
    <3>1. GeometryReport = <<>>
      BY <2>5 DEF GeometryReport, When
    <3>2. \A a : ~GeometryDamage(a)
      BY <2>5 DEF GeometryDamage, Unheld
    <3> QED
      BY <3>1, <3>2, EmptyReport
  <2> QED
    BY <2>3, <2>4, <2>5
<1> HIDE DEF p
<1>3. Elems(p) \cap Elems(GeometryReport) = {}
  BY <1>1, <1>2 DEF Crc
<1>4. /\ Report(p \o GeometryReport)
      /\ Elems(p \o GeometryReport) = Elems(p) \cup Elems(GeometryReport)
  BY <1>1, <1>2, <1>3, ConcatFacts DEF Report
<1>5. \A a \in Elems(p \o GeometryReport) : OnImage(a) /\ Found(a, 0, 0)
  BY <1>1, <1>2, <1>4 DEF Found
<1>6. \A a : a \in Elems(p \o GeometryReport) <=> PrimaryDamage(a)
  BY <1>1, <1>2, <1>4 DEF PrimaryDamage
<1> QED
  BY <1>4, <1>5, <1>6 DEF p

LEMMA DivergenceFacts ==
    ASSUME image \in Images, Holds(0, "SB"), NEW n \in Nat, Holds(Base(n), "SB")
    PROVE  /\ Report(DivergenceReport(n))
           /\ \A a \in Elems(DivergenceReport(n)) :
                 a.kind = "SbMirrorDivergence" /\ a.agno = n /\ OnImage(a)
           /\ \A a : a \in Elems(DivergenceReport(n)) <=> FieldDamage(a, n)
<1>0. PICK m \in Nat : m = 4
  OBVIOUS
<1> DEFINE c == [k \in 1..m |-> Primary[Fields[k]] # image[Base(n)].geo[Fields[k]]]
           x == [k \in 1..m |-> Divergence(n, Fields[k])]
           w == Gathered(m, c, x)
<1>1. /\ Len(Fields) = m
      /\ \A k \in 1..m : Fields[k] \in {"agblocks", "agcount", "blocksize", "inodesize"}
      /\ \A j, k \in 1..m : Fields[j] = Fields[k] => j = k
  BY <1>0 DEF Fields
<1>2. \A k \in 1..m : /\ x[k] \in Anomaly /\ x[k].kind = "SbMirrorDivergence"
                      /\ x[k].agno = n /\ x[k].field = Fields[k]
  BY <1>1 DEF Divergence, Anomaly
<1>3. DivergenceReport(n) = w
  <2>1. \A k \in 1..m : When(c[k], x[k]) =
           When(Primary[Fields[k]] # image[Base(n)].geo[Fields[k]], Divergence(n, Fields[k]))
    OBVIOUS
  <2>2. [k \in 1..m |-> When(c[k], x[k])] = [k \in 1..Len(Fields) |->
           When(Primary[Fields[k]] # image[Base(n)].geo[Fields[k]], Divergence(n, Fields[k]))]
    <3> HIDE DEF c, x
    <3> QED
      BY <1>1, <2>1
  <2> HIDE DEF c, x
  <2> QED
    BY <2>2 DEF DivergenceReport, Gathered
<1>4. \A k \in 1..m : c[k] => OnImage(x[k])
  <2> SUFFICES ASSUME NEW k \in 1..m, c[k] PROVE OnImage(x[k])
    OBVIOUS
  <2>1. Primary[Fields[k]] # image[Base(n)].geo[Fields[k]]
    OBVIOUS
  <2> HIDE DEF c, x
  <2> QED
    BY <1>2, <2>1 DEF OnImage
<1>5. x \in [1..m -> Anomaly]
  BY <1>2
<1> HIDE DEF c, x
<1>6. \A j, k \in 1..m : x[j] = x[k] => j = k
  BY <1>1, <1>2
<1>7. Report(w) /\ \A a : a \in Elems(w) <=> \E k \in 1..m : c[k] /\ a = x[k]
  BY <1>5, <1>6, GatheredReport
<1> HIDE DEF w
<1>8. ASSUME NEW a PROVE a \in Elems(w) <=> FieldDamage(a, n)
  <2>1. FieldDamage(a, n) <=> \E k \in 1..m : c[k] /\ a = x[k]
    <3> DEFINE Apart(f) == Primary[f] # image[Base(n)].geo[f]
    <3>1. /\ \A k \in 1..m : Fields[k] \in FieldNames
          /\ \A f \in FieldNames : \E k \in 1..m : f = Fields[k]
      <4>1. /\ Fields[1] = "agblocks" /\ Fields[2] = "agcount"
            /\ Fields[3] = "blocksize" /\ Fields[4] = "inodesize"
        BY DEF Fields
      <4>2. \A k \in 1..m : k = 1 \/ k = 2 \/ k = 3 \/ k = 4
        BY <1>0
      <4>3. 1 \in 1..m /\ 2 \in 1..m /\ 3 \in 1..m /\ 4 \in 1..m
        BY <1>0
      <4> QED
        BY <4>1, <4>2, <4>3 DEF FieldNames
    <3>2. \A k \in 1..m : (c[k] <=> Apart(Fields[k])) /\ x[k] = Divergence(n, Fields[k])
      BY DEF c, x
    <3>3. FieldDamage(a, n) <=> \E f \in FieldNames : Apart(f) /\ a = Divergence(n, f)
      BY DEF FieldDamage
    <3> HIDE DEF Apart
    <3>4. (\E f \in FieldNames : Apart(f) /\ a = Divergence(n, f)) => \E k \in 1..m : c[k] /\ a = x[k]
      BY <3>1, <3>2
    <3>5. (\E k \in 1..m : c[k] /\ a = x[k]) => \E f \in FieldNames : Apart(f) /\ a = Divergence(n, f)
      BY <3>1, <3>2
    <3> QED
      BY <3>3, <3>4, <3>5
  <2> QED
    BY <1>7, <2>1
<1> QED
  BY <1>2, <1>3, <1>4, <1>7, <1>8

LEMMA OrphanFacts ==
    ASSUME image \in Images, NEW n \in Nat, Base(n) \in Nat, Holds(Base(n) + 2, "AGI")
    PROVE  LET r == OrphanReport(n, image[Base(n) + 2].unlinked)
           IN  /\ Report(r)
               /\ \A a \in Elems(r) : a.kind = "OrphanedInode" /\ a.agno = n /\ OnImage(a)
               /\ \A a : a \in Elems(r) <=> BucketDamage(a, n, image[Base(n) + 2].unlinked)
<1>0. PICK u : u = image[Base(n) + 2].unlinked
  OBVIOUS
<1>1. u \in Seq(Int) /\ Len(u) \in Nat /\ \A k \in 1..Len(u) : u[k] \in Int
  <2>1. Base(n) + 2 \in Nat
    OBVIOUS
  <2>2. image[Base(n) + 2] \in Sector /\ image[Base(n) + 2].kind = "AGI"
    BY <2>1, ImageFacts DEF Holds
  <2>3. u \in Seq(Int)
    BY <1>0, <2>2, SectorFacts
  <2> QED
    BY <2>3, ElementOfSeq
<1>10. PICK m \in Nat : m = Len(u)
  BY <1>1
<1> DEFINE c == [k \in 1..m |-> u[k] # NULL_AGINO]
           x == [k \in 1..m |-> Orphan(n, k, u[k])]
           w == Gathered(m, c, x)
<1>2. \A k \in 1..m : /\ x[k] \in Anomaly /\ x[k].kind = "OrphanedInode"
                      /\ x[k].agno = n /\ x[k].bucket = k
  BY <1>1, <1>10 DEF Orphan, Anomaly
<1>3. OrphanReport(n, u) = w
  <2>1. \A k \in 1..m : When(c[k], x[k]) = When(u[k] # NULL_AGINO, Orphan(n, k, u[k]))
    OBVIOUS
  <2>2. [k \in 1..m |-> When(c[k], x[k])]
           = [k \in 1..Len(u) |-> When(u[k] # NULL_AGINO, Orphan(n, k, u[k]))]
    <3> HIDE DEF c, x
    <3> QED
      BY <1>10, <2>1
  <2> HIDE DEF c, x
  <2> QED
    BY <2>2 DEF OrphanReport, Gathered
<1>4. \A k \in 1..m : c[k] => OnImage(x[k])
  <2> SUFFICES ASSUME NEW k \in 1..m, c[k] PROVE OnImage(x[k])
    OBVIOUS
  <2>1. u[k] # NULL_AGINO
    OBVIOUS
  <2> HIDE DEF c, x
  <2> QED
    BY <1>0, <1>2, <2>1 DEF OnImage
<1>5. x \in [1..m -> Anomaly]
  BY <1>2
<1> HIDE DEF c, x
<1>6. \A j, k \in 1..m : x[j] = x[k] => j = k
  BY <1>2
<1>7. Report(w) /\ \A a : a \in Elems(w) <=> \E k \in 1..m : c[k] /\ a = x[k]
  BY <1>5, <1>6, GatheredReport
<1>8. OrphanReport(n, u) = OrphanReport(n, image[Base(n) + 2].unlinked)
  BY <1>0
<1> HIDE DEF w
<1>9. ASSUME NEW a PROVE a \in Elems(w) <=> BucketDamage(a, n, u)
  <2>1. \A k \in 1..m : c[k] = (u[k] # NULL_AGINO) /\ x[k] = Orphan(n, k, u[k])
    BY DEF c, x
  <2>2. BucketDamage(a, n, u) <=> \E k \in 1..m : c[k] /\ a = x[k]
    BY <1>10, <2>1 DEF BucketDamage
  <2> QED
    BY <1>7, <2>2
<1> QED
  BY <1>0, <1>2, <1>3, <1>4, <1>7, <1>8, <1>9

(* All that an allocation group gives rise to. *)
LEMMA GroupReport ==
    ASSUME image \in Images, Holds(0, "SB"), AgBytes > 0, NEW n \in Nat
    PROVE  LET r == SecondaryReport(n) \o AgfReport(n) \o AgiReport(n)
           IN  /\ Report(r) /\ \A a \in Elems(r) : OnImage(a) /\ FoundIn(a, n)
               /\ \A a : a \in Elems(r) <=> GroupDamage(a, n)
<1>0. Base(n) \in Nat /\ Base(n) + 1 \in Nat /\ Base(n) + 2 \in Nat
  BY GroupFacts
<1> DEFINE s == SecondaryReport(n)
           f == AgfReport(n)
           i == AgiReport(n)
<1>1. /\ Report(s)
      /\ \A a \in Elems(s) : /\ OnImage(a) /\ n >= 1
                             /\ \/ a = Crc("superblock", Base(n))
                                \/ a.kind = "SbMirrorDivergence" /\ a.agno = n
      /\ \A a : a \in Elems(s) <=> MirrorDamage(a, n)
  <2>1. CASE n >= 1 /\ Holds(Base(n), "SB")
    <3> DEFINE p == When(IsV5 /\ image[Base(n)].v5 /\ ~image[Base(n)].crc, Crc("superblock", Base(n)))
    <3>1. /\ Report(p)
          /\ \A a \in Elems(p) : a = Crc("superblock", Base(n)) /\ OnImage(a)
          /\ \A a : a \in Elems(p) <=> /\ image[Base(n)].v5 /\ BadSum(Base(n))
                                      /\ a = Crc("superblock", Base(n))
      <4>1. Holds(Base(n), KindOf("superblock"))
        BY <2>1 DEF KindOf
      <4>2. PICK c : c = (IsV5 /\ image[Base(n)].v5 /\ ~image[Base(n)].crc)
        OBVIOUS
      <4>3. (c => IsV5 /\ ~image[Base(n)].crc) /\ (c <=> image[Base(n)].v5 /\ BadSum(Base(n)))
        BY <4>2 DEF BadSum
      <4>4. p = When(c, Crc("superblock", Base(n)))
        BY <4>2
      <4> HIDE DEF p
      <4> QED
        BY <1>0, <4>1, <4>3, <4>4, CrcFacts
    <3>2. s = p \o DivergenceReport(n)
      BY <2>1 DEF SecondaryReport
    <3> HIDE DEF p, s
    <3>3. /\ Report(DivergenceReport(n))
          /\ \A a \in Elems(DivergenceReport(n)) :
                a.kind = "SbMirrorDivergence" /\ a.agno = n /\ OnImage(a)
          /\ \A a : a \in Elems(DivergenceReport(n)) <=> FieldDamage(a, n)
      BY <2>1, DivergenceFacts
    <3>4. Elems(p) \cap Elems(DivergenceReport(n)) = {}
      BY <3>1, <3>3 DEF Crc
    <3>5. Report(s) /\ Elems(s) = Elems(p) \cup Elems(DivergenceReport(n))
      BY <3>1, <3>2, <3>3, <3>4, ConcatFacts DEF Report
    <3>6. \A a : MirrorDamage(a, n) <=> a \in Elems(p) \cup Elems(DivergenceReport(n))
      BY <2>1, <3>1, <3>3 DEF MirrorDamage
    <3> QED
      BY <2>1, <3>1, <3>3, <3>5, <3>6
  <2>2. CASE ~(n >= 1 /\ Holds(Base(n), "SB"))
    <3>1. s = <<>>
      BY <2>2 DEF SecondaryReport
    <3>2. \A a : ~MirrorDamage(a, n)
      BY <2>2 DEF MirrorDamage
    <3> QED
      BY <3>1, <3>2, EmptyReport
  <2> QED
    BY <2>1, <2>2
<1>2. /\ Report(f)
      /\ \A a \in Elems(f) : OnImage(a) /\ a = Crc("AGF", Base(n) + 1)
      /\ \A a : a \in Elems(f) <=> AgfDamage(a, n)
  <2>1. CASE Holds(Base(n) + 1, "AGF")
    <3>1. Holds(Base(n) + 1, KindOf("AGF"))
      BY <2>1 DEF KindOf
    <3>2. f = When(IsV5 /\ ~image[Base(n) + 1].crc, Crc("AGF", Base(n) + 1))
      BY <2>1 DEF AgfReport, CrcReport
    <3>3. PICK c : c = (IsV5 /\ ~image[Base(n) + 1].crc)
      OBVIOUS
    <3>4. (c => IsV5 /\ ~image[Base(n) + 1].crc) /\ (c <=> BadSum(Base(n) + 1))
      BY <3>3 DEF BadSum
    <3>5. f = When(c, Crc("AGF", Base(n) + 1))
      BY <3>2, <3>3
    <3>6. \A a : AgfDamage(a, n) <=> c /\ a = Crc("AGF", Base(n) + 1)
      BY <2>1, <3>4 DEF AgfDamage
    <3> HIDE DEF f
    <3> QED
      BY <1>0, <3>1, <3>4, <3>5, <3>6, CrcFacts
  <2>2. CASE ~Holds(Base(n) + 1, "AGF")
    <3>1. f = <<>>
      BY <2>2 DEF AgfReport
    <3>2. \A a : ~AgfDamage(a, n)
      BY <2>2 DEF AgfDamage
    <3> QED
      BY <3>1, <3>2, EmptyReport
  <2> QED
    BY <2>1, <2>2
<1>3. /\ Report(i)
      /\ \A a \in Elems(i) : /\ OnImage(a)
                             /\ \/ a = Crc("AGI", Base(n) + 2)
                                \/ a.kind = "OrphanedInode" /\ a.agno = n
      /\ \A a : a \in Elems(i) <=> AgiDamage(a, n)
  <2>1. CASE Holds(Base(n) + 2, "AGI")
    <3> DEFINE p == CrcReport(Base(n) + 2, "AGI")
               o == OrphanReport(n, image[Base(n) + 2].unlinked)
    <3>1. /\ Report(p)
          /\ \A a \in Elems(p) : a = Crc("AGI", Base(n) + 2) /\ OnImage(a)
          /\ \A a : a \in Elems(p) <=> BadSum(Base(n) + 2) /\ a = Crc("AGI", Base(n) + 2)
      <4>1. Holds(Base(n) + 2, KindOf("AGI"))
        BY <2>1 DEF KindOf
      <4>2. PICK c : c = (IsV5 /\ ~image[Base(n) + 2].crc)
        OBVIOUS
      <4>3. (c => IsV5 /\ ~image[Base(n) + 2].crc) /\ (c <=> BadSum(Base(n) + 2))
        BY <4>2 DEF BadSum
      <4>4. p = When(c, Crc("AGI", Base(n) + 2))
        BY <4>2 DEF CrcReport
      <4> HIDE DEF p
      <4> QED
        BY <1>0, <4>1, <4>3, <4>4, CrcFacts
    <3>2. i = p \o o
      BY <2>1 DEF AgiReport
    <3>3. /\ Report(o)
          /\ \A a \in Elems(o) : a.kind = "OrphanedInode" /\ a.agno = n /\ OnImage(a)
          /\ \A a : a \in Elems(o) <=> BucketDamage(a, n, image[Base(n) + 2].unlinked)
      BY <1>0, <2>1, OrphanFacts
    <3> HIDE DEF p, i, o
    <3>4. Elems(p) \cap Elems(o) = {}
      BY <3>1, <3>3 DEF Crc
    <3>5. Report(i) /\ Elems(i) = Elems(p) \cup Elems(o)
      BY <3>1, <3>2, <3>3, <3>4, ConcatFacts DEF Report
    <3>6. \A a : AgiDamage(a, n) <=> a \in Elems(p) \cup Elems(o)
      BY <2>1, <3>1, <3>3 DEF AgiDamage
    <3> QED
      BY <3>1, <3>3, <3>5, <3>6
  <2>2. CASE ~Holds(Base(n) + 2, "AGI")
    <3>1. i = <<>>
      BY <2>2 DEF AgiReport
    <3>2. \A a : ~AgiDamage(a, n)
      BY <2>2 DEF AgiDamage
    <3> QED
      BY <3>1, <3>2, EmptyReport
  <2> QED
    BY <2>1, <2>2
<1> HIDE DEF s, f, i
<1>4. Report(s \o f) /\ Elems(s \o f) = Elems(s) \cup Elems(f)
  <2>1. Elems(s) \cap Elems(f) = {}
    BY <1>1, <1>2 DEF Crc
  <2> QED
    BY <1>1, <1>2, <2>1, ConcatFacts DEF Report
<1> DEFINE sf == s \o f
<1>5. Report(sf) /\ Elems(sf) = Elems(s) \cup Elems(f)
  BY <1>4
<1> HIDE DEF sf
<1>6. Report(sf \o i) /\ Elems(sf \o i) = Elems(sf) \cup Elems(i)
  <2>1. Elems(sf) \cap Elems(i) = {}
    BY <1>1, <1>2, <1>3, <1>5 DEF Crc
  <2> QED
    BY <1>3, <1>5, <2>1, ConcatFacts DEF Report
<1>7. \A a \in Elems(sf \o i) : OnImage(a) /\ FoundIn(a, n)
  BY <1>1, <1>2, <1>3, <1>5, <1>6 DEF FoundIn
<1>8. \A a : a \in Elems(sf \o i) <=> GroupDamage(a, n)
  BY <1>1, <1>2, <1>3, <1>5, <1>6 DEF GroupDamage
<1> QED
  BY <1>6, <1>7, <1>8 DEF s, f, i, sf

LEMMA InodeFacts ==
    ASSUME image \in Images, NEW s \in Nat
    PROVE  /\ Report(InodeReport(s))
           /\ \A a \in Elems(InodeReport(s)) : OnImage(a) /\ a = Crc("inode", s)
           /\ \A a : a \in Elems(InodeReport(s)) <=> SlotDamage(a, s)
<1>1. CASE Holds(s, "IN") /\ image[s].di_ino = OffsetToInode(Geo, s)
  <2>1. Holds(s, KindOf("inode"))
    BY <1>1 DEF KindOf
  <2>2. InodeReport(s) = When(IsV5 /\ ~image[s].crc, Crc("inode", s))
    BY <1>1 DEF InodeReport, CrcReport
  <2>3. PICK c : c = (IsV5 /\ ~image[s].crc)
    OBVIOUS
  <2>4. InodeReport(s) = When(c, Crc("inode", s)) /\ (c => IsV5 /\ ~image[s].crc)
    BY <2>2, <2>3
  <2>5. \A a : SlotDamage(a, s) <=> c /\ a = Crc("inode", s)
    BY <1>1, <2>3 DEF SlotDamage, BadSum
  <2> QED
    BY <2>1, <2>4, <2>5, CrcFacts
<1>2. CASE ~(Holds(s, "IN") /\ image[s].di_ino = OffsetToInode(Geo, s))
  <2>1. InodeReport(s) = <<>>
    BY <1>2 DEF InodeReport
  <2>2. \A a : ~SlotDamage(a, s)
    BY <1>2 DEF SlotDamage
  <2> QED
    BY <2>1, <2>2, EmptyReport
<1> QED
  BY <1>1, <1>2


-----------------------------------------------------------------------------
(***************************************************************************)
(* The steps.                                                              *)
(***************************************************************************)
(* What is said of anomalies and groups depends on the image alone.        *)
LEMMA SameImage ==
    ASSUME image' = image
    PROVE  /\ Len0' = Len0 /\ (IsV5' <=> IsV5)
           /\ \A n : Base(n)' = Base(n)
           /\ AgBytes' = AgBytes /\ Primary' = Primary
           /\ \A s, kind : Holds(s, kind)' <=> Holds(s, kind)
           /\ \A a : OnImage(a)' <=> OnImage(a)
           /\ \A a, g, o : Found(a, g, o)' <=> Found(a, g, o)
<1>1. Len0' = Len0 /\ Primary' = Primary /\ (IsV5' <=> IsV5)
  BY DEF Len0, Primary, IsV5
<1>2. AgBytes' = AgBytes
  BY <1>1 DEF AgBytes
<1>3. \A n : Base(n)' = Base(n)
  BY <1>2 DEF Base
<1>4. \A s, kind : Holds(s, kind)' <=> Holds(s, kind)
  BY <1>1 DEF Holds
<1>5. \A a : OnImage(a)' <=> OnImage(a)
  BY <1>1, <1>3, <1>4 DEF OnImage
<1>6. \A a, g, o : Found(a, g, o)' <=> Found(a, g, o)
  BY <1>3 DEF Found, FoundIn
<1> QED
  BY <1>1, <1>2, <1>3, <1>4, <1>5, <1>6

LEMMA InitInv == Init => Inv
<1> SUFFICES ASSUME Init PROVE Inv
  OBVIOUS
<1>1. /\ image \in Images /\ out = <<>> /\ Len(out) = 0 /\ out \in Seq(Anomaly)
      /\ pc = "superblock" /\ agno = 0 /\ off = 0
  BY DEF Init
<1>2. TypeOK
  BY <1>1, ImageFacts DEF TypeOK
<1> QED
  BY <1>1, <1>2 DEF Inv, WalkEndsWithTheImage, Once, Elems

(* A step keeps what it does not report. *)
LEMMA ReportInv ==
    ASSUME Inv, image' = image, NEW r, Report(r), out' = out \o r,
           Elems(out) \cap Elems(r) = {},
           \A a \in Elems(r) : OnImage(a) /\ Found(a, agno', off'),
           \A a \in Elems(out) : Found(a, agno, off) => Found(a, agno', off')
    PROVE  /\ out' \in Seq(Anomaly) /\ Once(out')
           /\ \A a \in Elems(out') : OnImage(a)' /\ Found(a, agno, off)'
<1>1. out \in Seq(Anomaly) /\ Once(out) /\ \A a \in Elems(out) : OnImage(a) /\ Found(a, agno, off)
  BY DEF Inv
<1>2. out' \in Seq(Anomaly) /\ Once(out') /\ Elems(out') = Elems(out) \cup Elems(r)
  BY <1>1, ConcatFacts DEF Report
<1>3. \A a \in Elems(out') : OnImage(a)
  BY <1>1, <1>2
<1>4. ASSUME NEW a \in Elems(out') PROVE Found(a, agno, off)'
  <2>1. Found(a, agno', off')
    BY <1>1, <1>2
  <2>2. \A x, g, o : Found(x, g, o)' <=> Found(x, g, o)
    BY SameImage
  <2> QED
    BY <2>1, <2>2
<1> QED
  BY <1>2, <1>3, <1>4, SameImage


LEMMA AuditPrimaryInv ==
    ASSUME Inv, AuditPrimary
    PROVE  Inv'
<1> DEFINE r == CrcReport(0, "superblock") \o GeometryReport
<1>1. /\ image \in Images /\ pc = "superblock" /\ Holds(0, "SB") /\ out = <<>> /\ agno = 0 /\ off = 0
      /\ out' = r /\ pc' = "ags" /\ image' = image /\ agno' = 0 /\ off' = 0
  BY DEF Inv, AuditPrimary
<1>2. Report(r) /\ \A a \in Elems(r) : OnImage(a) /\ Found(a, 0, 0)
  BY <1>1, PrimaryReport
<1> HIDE DEF r
<1>3. out' \in Seq(Anomaly) /\ Once(out') /\ \A a \in Elems(out') : OnImage(a) /\ Found(a, agno', off')
  BY <1>1, <1>2 DEF Report
<1>4. \A a \in Elems(out') : OnImage(a)' /\ Found(a, agno, off)'
  <2>1. \A x, g, o : Found(x, g, o)' <=> Found(x, g, o)
    BY <1>1, SameImage
  <2>2. \A x : OnImage(x)' <=> OnImage(x)
    BY <1>1, SameImage
  <2> QED
    BY <1>3, <2>1, <2>2
<1>5. Holds(0, "SB")' /\ Len0' = Len0 /\ Len0 \in Nat /\ (\A s \in DOMAIN image' : image'[s] \in Sector)
  BY <1>1, SameImage, ImageFacts
<1>6. TypeOK'
  <2>1. \A k \in 1..Len(out') : out'[k] \in Anomaly
    BY <1>3, ElementOfSeq
  <2>2. \A k \in 1..Len(out') :
          out'[k].kind \in {"CrcMismatch", "SbMirrorDivergence", "OrphanedInode", "ImpossibleGeometry"}
    BY <2>1 DEF Anomaly
  <2> QED
    BY <1>1, <1>5, <2>2 DEF TypeOK
<1>7. Once(out)' /\ WalkEndsWithTheImage'
  BY <1>1, <1>3 DEF Once, WalkEndsWithTheImage
<1>8. \A a \in Elems(out)' : OnImage(a)' /\ Found(a, agno, off)'
  BY <1>4 DEF Elems
<1> QED
  BY <1>1, <1>3, <1>5, <1>6, <1>7, <1>8 DEF Inv

(* What every step that only adds to the report keeps. *)
LEMMA KeptInv ==
    ASSUME Inv, image' = image, out' \in Seq(Anomaly), Once(out'),
           \A a \in Elems(out') : OnImage(a)' /\ Found(a, agno, off)',
           agno' \in Nat, off' \in 0..Len0,
           agno' = 0 \/ (Holds(0, "SB") /\ AgBytes > 0 /\ Base(agno' - 1) < Len0),
           pc' \in {"ags", "inodes", "returned"},
           pc' \in {"ags", "inodes"} => Holds(0, "SB"),
           pc' = "ags" => off' = 0,
           pc' = "inodes" => Primary.inodesize > 0
    PROVE  Inv'
<1>1. /\ Len0' = Len0 /\ (\A s \in DOMAIN image' : image'[s] \in Sector)
      /\ image' \in Images /\ Primary' = Primary /\ AgBytes' = AgBytes
      /\ (Holds(0, "SB")' <=> Holds(0, "SB"))
  BY SameImage, ImageFacts DEF Inv
<1>2. TypeOK'
  <2>1. \A k \in 1..Len(out') : out'[k] \in Anomaly
    BY ElementOfSeq
  <2>2. \A k \in 1..Len(out') :
          out'[k].kind \in {"CrcMismatch", "SbMirrorDivergence", "OrphanedInode", "ImpossibleGeometry"}
    BY <2>1 DEF Anomaly
  <2> QED
    BY <1>1, <2>2 DEF TypeOK
<1>3. WalkEndsWithTheImage'
  <2>1. \A n : Base(n)' = Base(n)
    BY SameImage
  <2>2. PICK n : n = agno' - 1
    OBVIOUS
  <2>3. agno' = 0 \/ Base(n)' < Len0'
    BY <1>1, <2>1, <2>2
  <2> QED
    BY <2>2, <2>3 DEF WalkEndsWithTheImage, Base
<1>4. Once(out)'
  BY DEF Once
<1>5. \A a \in Elems(out)' : OnImage(a)' /\ Found(a, agno, off)'
  BY DEF Elems
<1>6. agno' > 0 => Holds(0, "SB")' /\ AgBytes' > 0
  BY <1>1
<1> QED
  BY <1>1, <1>2, <1>3, <1>4, <1>5, <1>6 DEF Inv

LEMMA AuditAgInv ==
    ASSUME Inv, AuditAg
    PROVE  Inv'
<1> DEFINE r == SecondaryReport(agno) \o AgfReport(agno) \o AgiReport(agno)
<1>1. /\ image \in Images /\ pc = "ags" /\ Holds(0, "SB") /\ off = 0 /\ agno \in Nat
      /\ AgBytes > 0 /\ agno < Primary.agcount /\ Base(agno) < Len0
      /\ agno' = agno + 1 /\ UNCHANGED <<image, pc, off>> /\ Len0 \in Nat
  BY ImageFacts DEF Inv, TypeOK, AuditAg, MoreAgs
<1>2. out' = out \o r
  <2>1. PICK s, f, i : s = SecondaryReport(agno) /\ f = AgfReport(agno) /\ i = AgiReport(agno)
    OBVIOUS
  <2>2. out' = ((out \o s) \o f) \o i
    BY <2>1 DEF AuditAg
  <2>3. out \in Seq(Anomaly)
    BY DEF Inv
  <2> QED
    BY <2>1, <2>2, <2>3
<1>3. Report(r) /\ \A a \in Elems(r) : OnImage(a) /\ FoundIn(a, agno)
  BY <1>1, GroupReport
<1> HIDE DEF r
<1>4. Elems(out) \cap Elems(r) = {}
  <2>1. \A a \in Elems(out) : Found(a, agno, 0)
    BY <1>1 DEF Inv
  <2> QED
    BY <1>1, <1>3, <2>1, FoundOnce
<1>5. /\ \A a \in Elems(r) : OnImage(a) /\ Found(a, agno', off')
      /\ \A a \in Elems(out) : Found(a, agno, off) => Found(a, agno', off')
  <2>1. \A n \in 0..(agno - 1) : n \in 0..(agno' - 1)
    BY <1>1
  <2>2. agno \in 0..(agno' - 1)
    BY <1>1
  <2> QED
    BY <1>1, <1>3, <2>1, <2>2 DEF Found
<1>6. /\ out' \in Seq(Anomaly) /\ Once(out')
      /\ \A a \in Elems(out') : OnImage(a)' /\ Found(a, agno, off)'
  BY <1>1, <1>2, <1>3, <1>4, <1>5, ReportInv
<1>7. agno' \in Nat /\ off' \in 0..Len0 /\ agno' - 1 = agno
  BY <1>1
<1>8. pc' = "ags" /\ off' = 0
  BY <1>1
<1> QED
  BY <1>1, <1>6, <1>7, <1>8, KeptInv

LEMMA AuditInodeInv ==
    ASSUME Inv, AuditInode
    PROVE  Inv'
<1> DEFINE r == InodeReport(off)
<1>1. /\ image \in Images /\ pc = "inodes" /\ Holds(0, "SB") /\ off \in 0..Len0 /\ agno \in Nat
      /\ off + Primary.inodesize <= Len0 /\ Primary.inodesize > 0
      /\ out' = out \o r
      /\ off' = off + Primary.inodesize /\ UNCHANGED <<image, pc, agno>> /\ Len0 \in Nat
      /\ Primary.inodesize \in Nat
  BY ImageFacts, GroupFacts DEF Inv, TypeOK, AuditInode
<1>2. off \in Nat
  BY <1>1
<1>3. Report(r) /\ \A a \in Elems(r) : OnImage(a) /\ a = Crc("inode", off)
  BY <1>1, <1>2, InodeFacts
<1> HIDE DEF r
<1>4. Elems(out) \cap Elems(r) = {}
  <2>1. ASSUME NEW a \in Elems(out), a = Crc("inode", off) PROVE FALSE
    <3>1. Found(a, agno, off)
      BY DEF Inv
    <3>2. a.kind = "CrcMismatch" /\ a.structure = "inode" /\ a.at = off
      BY <2>1 DEF Crc
    <3>3. a # Crc("superblock", 0) /\ \A s : a # Crc("AGF", s) /\ a # Crc("AGI", s) /\ a # Crc("superblock", s)
      BY <3>2 DEF Crc
    <3>4. \A s \in 0..(off - 1) : a # Crc("inode", s)
      BY <1>2, <3>2 DEF Crc
    <3> QED
      BY <3>1, <3>2, <3>3, <3>4 DEF Found, FoundIn
  <2> QED
    BY <1>3, <2>1
<1>5. /\ \A a \in Elems(r) : OnImage(a) /\ Found(a, agno', off')
      /\ \A a \in Elems(out) : Found(a, agno, off) => Found(a, agno', off')
  <2>1. \A s \in 0..(off - 1) : s \in 0..(off' - 1)
    BY <1>1, <1>2
  <2>2. off \in 0..(off' - 1)
    BY <1>1, <1>2
  <2> QED
    BY <1>1, <1>3, <2>1, <2>2 DEF Found
<1>6. /\ out' \in Seq(Anomaly) /\ Once(out')
      /\ \A a \in Elems(out') : OnImage(a)' /\ Found(a, agno, off)'
  BY <1>1, <1>3, <1>4, <1>5, ReportInv
<1>7. off' \in 0..Len0
  BY <1>1, <1>2
<1>8. agno' \in Nat /\ (agno' = 0 \/ (Holds(0, "SB") /\ AgBytes > 0 /\ Base(agno' - 1) < Len0))
  BY <1>1 DEF Inv, WalkEndsWithTheImage
<1> QED
  BY <1>1, <1>6, <1>7, <1>8, KeptInv

(* The steps that report nothing. *)
LEMMA QuietInv ==
    ASSUME Inv, NotXfs \/ EndAgs \/ EndInodes \/ UNCHANGED vars
    PROVE  Inv'
<1>1. /\ UNCHANGED <<image, agno, off, out>>
      /\ pc' = pc \/ pc' = "returned" \/ (pc = "ags" /\ pc' = "inodes" /\ Primary.inodesize > 0)
  BY DEF NotXfs, EndAgs, EndInodes, vars
<1>2. /\ out' \in Seq(Anomaly) /\ Once(out') /\ Elems(out') = Elems(out)
      /\ agno' \in Nat /\ off' \in 0..Len0
      /\ agno' = 0 \/ (Holds(0, "SB") /\ AgBytes > 0 /\ Base(agno' - 1) < Len0)
      /\ pc' \in {"superblock", "ags", "inodes", "returned"}
      /\ pc' \in {"ags", "inodes"} => Holds(0, "SB")
      /\ pc' = "ags" => off' = 0
      /\ pc' = "inodes" => Primary.inodesize > 0
  BY <1>1 DEF Inv, TypeOK, WalkEndsWithTheImage
<1>3. \A a \in Elems(out') : OnImage(a)' /\ Found(a, agno, off)'
  <2>1. \A x, g, o : Found(x, g, o)' <=> Found(x, g, o)
    BY <1>1, SameImage
  <2>2. \A x : OnImage(x)' <=> OnImage(x)
    BY <1>1, SameImage
  <2>3. \A a \in Elems(out) : OnImage(a) /\ Found(a, agno', off')
    BY <1>1 DEF Inv
  <2> QED
    BY <1>2, <2>1, <2>2, <2>3
<1>4. CASE pc' = "superblock"
  <2>1. pc = "superblock" /\ out' = <<>> /\ agno' = 0 /\ off' = 0
    BY <1>1, <1>4 DEF Inv
  <2>2. Len0' = Len0 /\ (\A s \in DOMAIN image' : image'[s] \in Sector) /\ image' \in Images
    BY <1>1, SameImage, ImageFacts DEF Inv
  <2>3. TypeOK'
    BY <1>1, <1>2, <1>4, <2>1, <2>2 DEF TypeOK
  <2>4. Once(out)' /\ Elems(out)' = Elems(out')
    BY <1>2 DEF Once, Elems
  <2> QED
    BY <1>2, <1>3, <1>4, <2>1, <2>2, <2>3, <2>4 DEF Inv, WalkEndsWithTheImage
<1>5. CASE pc' # "superblock"
  BY <1>1, <1>2, <1>3, <1>5, KeptInv
<1> QED
  BY <1>4, <1>5

-----------------------------------------------------------------------------
(***************************************************************************)
(* The theorems.                                                           *)
(***************************************************************************)
(* The invariant: what is reported so far is on the image and was found in *)
(* the primary, the groups or the slots behind the walk, nothing of it     *)
(* twice; and groups lie behind it only if they are not empty.             *)
THEOREM InvHolds == Spec => []Inv
<1>1. Inv /\ [Next]_vars => Inv'
  BY AuditPrimaryInv, AuditAgInv, AuditInodeInv, QuietInv DEF Next
<1> QED
  BY <1>1, InitInv, PTL DEF Spec

(* Every state of an audit is of its type: the sweep for inodes does not   *)
(* leave the image, and what is reported is one of the four kinds.         *)
THEOREM TypeCorrect == Spec => []TypeOK
<1>1. Inv => TypeOK
  BY DEF Inv
<1> QED
  BY <1>1, InvHolds, PTL

(* Every step of audit_image leaves less to do, by a measure that begins   *)
(* at twice the length of the image: no agcount, agblocks or inodesize a   *)
(* superblock claims makes the audit longer than that (lib.rs:286-293 and  *)
(* 353-372).                                                               *)
THEOREM EveryStepShrinks == Spec => AuditShrinks
<1>1. Inv /\ [Next]_vars => [Left' \in 0..(Left - 1)]_vars
  <2> SUFFICES ASSUME Inv, Next PROVE Left' \in 0..(Left - 1)
    OBVIOUS
  <2>1. Len0 \in Nat /\ agno \in Nat /\ off \in 0..Len0 /\ image \in Images
    BY ImageFacts DEF Inv, TypeOK
  <2>2. image' = image /\ Len0' = Len0
    <3>1. image' = image
      BY DEF Next, NotXfs, AuditPrimary, AuditAg, EndAgs, AuditInode, EndInodes
    <3> QED
      BY <3>1, SameImage
  <2>3. CASE NotXfs
    <3>1. pc = "superblock" /\ pc' = "returned"
      BY <2>3 DEF NotXfs
    <3> QED
      BY <2>1, <3>1 DEF Left
  <2>4. CASE AuditPrimary
    <3>1. pc = "superblock" /\ pc' = "ags" /\ agno' = 0
      BY <2>4 DEF AuditPrimary, Inv
    <3>2. Left = 2 * Len0 + 3 /\ Left' = (IF 0 < Len0 THEN Len0 - 0 ELSE 0) + Len0 + 2
      BY <2>2, <3>1 DEF Left
    <3> QED
      BY <2>1, <3>2
  <2>5. CASE AuditAg
    <3>1. /\ pc = "ags" /\ pc' = "ags" /\ agno' = agno + 1
          /\ Holds(0, "SB") /\ AgBytes > 0 /\ Base(agno) < Len0
      BY <2>5 DEF AuditAg, MoreAgs, Inv
    <3>2. agno < Len0
      <4>1. AgBytes \in Nat /\ Base(agno) = agno * AgBytes /\ Base(agno) \in Nat
        BY <2>1, <3>1, GroupFacts DEF Base
      <4>2. agno * 1 <= agno * AgBytes
        BY <2>1, <3>1, <4>1
      <4> QED
        BY <2>1, <3>1, <4>1, <4>2
    <3>3. /\ Left = (Len0 - agno) + Len0 + 2
          /\ Left' = (IF agno + 1 < Len0 THEN Len0 - (agno + 1) ELSE 0) + Len0 + 2
      BY <2>2, <3>1, <3>2 DEF Left
    <3> QED
      BY <2>1, <3>2, <3>3
  <2>6. CASE EndAgs
    <3>1. pc = "ags" /\ pc' \in {"inodes", "returned"} /\ off' = 0
      BY <2>6 DEF EndAgs, Inv
    <3>2. /\ Left = (IF agno < Len0 THEN Len0 - agno ELSE 0) + Len0 + 2
          /\ Left' = IF pc' = "inodes" THEN Len0 - 0 + 1 ELSE 0
      BY <2>2, <3>1 DEF Left
    <3> QED
      BY <2>1, <3>2
  <2>7. CASE AuditInode
    <3>1. /\ pc = "inodes" /\ pc' = "inodes" /\ off' = off + Primary.inodesize
          /\ off + Primary.inodesize <= Len0 /\ Primary.inodesize > 0 /\ Holds(0, "SB")
      BY <2>7 DEF AuditInode, Inv
    <3>2. Primary.inodesize \in Nat
      BY <2>1, <3>1, GroupFacts
    <3>3. Left = Len0 - off + 1 /\ Left' = Len0 - (off + Primary.inodesize) + 1
      BY <2>2, <3>1 DEF Left
    <3> QED
      BY <2>1, <3>1, <3>2, <3>3
  <2>8. CASE EndInodes
    <3>1. pc = "inodes" /\ pc' = "returned"
      BY <2>8 DEF EndInodes
    <3>2. Left = Len0 - off + 1 /\ Left' = 0
      BY <3>1 DEF Left
    <3> QED
      BY <2>1, <3>2
  <2> QED
    BY <2>3, <2>4, <2>5, <2>6, <2>7, <2>8 DEF Next
<1> QED
  BY <1>1, InvHolds, PTL DEF Spec, AuditShrinks

(* audit_image reports of every image, whatever its fields claim, only     *)
(* what is on it, and nothing twice.                                       *)
THEOREM NothingIsReportedTwice == Spec => []ReportedOnce
<1>1. Inv => ReportedOnce
  BY DEF Inv, ReportedOnce, Once, Elems
<1> QED
  BY <1>1, InvHolds, PTL

-----------------------------------------------------------------------------
(***************************************************************************)
(* That the report is exact.  Numbers first: a slot's number is the one    *)
(* that leads to it, and that is of a block its group has.                 *)
(***************************************************************************)
LEMMA SatType ==
    \A n \in Nat : /\ Sat(n) \in Nat /\ Sat(n) <= U64_MAX /\ Sat(n) <= n
                   /\ (Sat(n) < U64_MAX => Sat(n) = n) /\ (n <= U64_MAX => Sat(n) = n)
  BY U64Assumption DEF Sat

(* However early it saturates, inode_to_location is the saturated offset.  *)
Located(x, b, B, y) == Sat(Sat(Sat(Sat(x) + b) * B) + Sat(y))

LEMMA Saturates ==
    ASSUME NEW x \in Nat, NEW b \in Nat, NEW B \in Nat \ {0}, NEW y \in Nat
    PROVE  Located(x, b, B, y) = Sat((x + b) * B + y)
<1> DEFINE f == Sat(Sat(x) + b)
           z == x + b
           fB == f * B
           zB == z * B
<1>1. z \in Nat /\ f \in Nat /\ f = Sat(z) /\ f <= z
  <2>1. Sat(x) \in Nat /\ Sat(x) + b \in Nat
    BY SatType
  <2> QED
    BY <2>1, U64Assumption DEF Sat
<1> HIDE DEF f, z
<1>2. fB \in Nat /\ zB \in Nat /\ f <= fB /\ fB <= zB
  <2>1. f * 1 <= f * B /\ f * B <= z * B
    BY <1>1
  <2> QED
    BY <1>1, <2>1
<1>3. f = z \/ (f = U64_MAX /\ z > U64_MAX)
  BY <1>1, U64Assumption DEF Sat
<1>4. CASE f = z
  <2>1. fB = zB
    BY <1>4
  <2> HIDE DEF fB, zB
  <2>2. Sat(Sat(zB) + Sat(y)) = Sat(zB + y)
    BY <1>2, U64Assumption DEF Sat
  <2> QED
    BY <2>1, <2>2 DEF Located, f, z, fB, zB
<1>5. CASE f = U64_MAX /\ z > U64_MAX
  <2> HIDE DEF fB, zB
  <2>1. Sat(fB) = U64_MAX /\ Sat(y) \in Nat
    BY <1>2, <1>5, SatType, U64Assumption DEF Sat
  <2>2. Sat(Sat(fB) + Sat(y)) = U64_MAX
    BY <2>1, U64Assumption DEF Sat
  <2>3. Sat(zB + y) = U64_MAX
    BY <1>2, <1>5, U64Assumption DEF Sat
  <2> QED
    BY <2>2, <2>3 DEF Located, f, z, fB, zB
<1> QED
  BY <1>3, <1>4, <1>5

(* In a geometry mkfs writes, on an image its numbers fit, nothing is lost *)
(* of the number of an inode.                                              *)
LEMMA WholeNumber ==
    ASSUME NEW g \in Geometries, NEW len \in Nat, FitsU64(g, len),
           NEW pos \in Nat, pos <= len
    PROVE  OffsetToInode(g, pos) =
              NumberAt(g.agblocks, g.agspan, g.inopb, g.blocksize, g.inodesize, pos)
<1> USE U64Assumption
<1> DEFINE d == g.agblocks * g.blocksize
           span == g.agspan * g.inopb
           b == ((pos % d) \div g.blocksize) * g.inopb
           s == ((pos % d) % g.blocksize) \div g.inodesize
<1>1. /\ g.agblocks \in Nat \ {0} /\ g.agspan \in Nat \ {0} /\ g.inopb \in Nat \ {0}
      /\ g.blocksize \in Nat \ {0} /\ g.inodesize \in Nat \ {0}
  BY DEF Geometries
<1>2. d \in Nat \ {0} /\ span \in Nat
  BY <1>1
<1>3. Under(U64_MAX, span, d, len)
  BY DEF FitsU64, Under
<1>4. OffsetToInode(g, pos) =
        IF d = 0 \/ g.inodesize = 0 \/ span > U64_MAX THEN NoNumber
        ELSE (((pos \div d) * span) % (U64_MAX + 1)) + (b + s)
  BY DEF OffsetToInode
<1> HIDE DEF d, span
<1>5. span <= U64_MAX /\ ((pos \div d) * span) % (U64_MAX + 1) = (pos \div d) * span
  BY <1>2, <1>3, Untruncated
<1>6. ~(d = 0 \/ g.inodesize = 0 \/ span > U64_MAX)
  BY <1>1, <1>2, <1>5
<1>7. OffsetToInode(g, pos) = (pos \div d) * span + (b + s)
  BY <1>4, <1>5, <1>6
<1> QED
  BY <1>7 DEF NumberAt, GroupDigit, BlockDigit, SlotDigit, b, s, d, span

LEMMA NumberFacts ==
    ASSUME image \in Images, Numbered, NEW s \in Nat, s % Primary.inodesize = 0,
           s + Primary.inodesize <= Len0, NEW ino \in Nat
    PROVE  ino = OffsetToInode(Geo, s) <=> NumberOf(ino, s)
<1> DEFINE A == Primary.agblocks
           S == Geo.agspan
           P == Geo.inopb
           B == Primary.blocksize
           I == Primary.inodesize
<1>1. /\ A \in Nat \ {0} /\ S \in Nat \ {0} /\ P \in Nat \ {0} /\ B \in Nat \ {0} /\ I \in Nat \ {0}
      /\ B = P * I /\ A <= S
      /\ Geo.agblocks = A /\ Geo.blocksize = B /\ Geo.inodesize = I
  BY DEF Numbered, Geo, Geometries
<1>0. Len0 \in Nat /\ Len0 <= U64_MAX
  BY ImageFacts
<1>2. OffsetToInode(Geo, s) = NumberAt(A, S, P, B, I, s)
  <2>1. s <= Len0
    BY <1>0, <1>1
  <2> QED
    BY <1>0, <1>1, <2>1, WholeNumber DEF Numbered
<1>3. /\ s % I = 0 /\ s < U64_MAX
  BY <1>0, <1>1, U64Assumption
<1> DEFINE q == ino \div (S * P)
           b == (ino % (S * P)) \div P
           t == (ino % (S * P)) % P
           N == (q * A + b) * B + t * I
<1>4. /\ q \in Nat /\ b \in Nat /\ t \in Nat /\ t < P
      /\ ino = q * (S * P) + (b * P + t)
  <2> DEFINE SP == S * P
             w == ino % SP
  <2>1. SP \in Nat \ {0}
    BY <1>1
  <2> HIDE DEF SP
  <2>2. q \in Nat /\ w \in Nat /\ ino = q * SP + w
    BY <2>1, Division DEF SP
  <2> HIDE DEF w
  <2>3. w \div P \in Nat /\ w % P \in Nat /\ w % P < P /\ w = (w \div P) * P + (w % P)
    BY <1>1, <2>2, Division
  <2> QED
    BY <2>2, <2>3 DEF SP, w
<1>5. InodeToLocation(Geo, ino) = Sat(N)
  <2>1. InodeToLocation(Geo, ino) = Sat(Sat(Sat(Sat(q * A) + b) * B) + Sat(t * I))
    BY <1>1 DEF InodeToLocation
  <2>2. q * A \in Nat /\ t * I \in Nat
    BY <1>1, <1>4
  <2> DEFINE x == q * A
             y == t * I
  <2> HIDE DEF x, y, q, b, t
  <2>3. x \in Nat /\ y \in Nat /\ b \in Nat /\ B \in Nat \ {0}
    BY <1>1, <1>4, <2>2 DEF x, y
  <2>4. Located(x, b, B, y) = Sat((x + b) * B + y)
    <3> HIDE DEF B
    <3> QED
      BY <2>3, Saturates
  <2> QED
    BY <2>1, <2>4 DEF Located, x, y
<1>6. NumberOf(ino, s) <=> Sat(N) = s /\ b < A
  BY <1>5 DEF NumberOf
<1> HIDE DEF A, S, P, B, I
<1>7. ASSUME ino = OffsetToInode(Geo, s) PROVE NumberOf(ino, s)
  <2> DEFINE u == GroupDigit(A, B, s)
             v == BlockDigit(A, B, s)
             z == SlotDigit(A, B, I, s)
  <2>1. ino = NumberAt(A, S, P, B, I, s)
    BY <1>2, <1>7
  <2>2. /\ v < A /\ ino \div (S * P) = u /\ (ino % (S * P)) \div P = v /\ (ino % (S * P)) % P = z
        /\ s = (u * A + v) * B + z * I
    BY <1>1, <1>3, <2>1, Digits
  <2>3. b < A /\ N = s
    BY <2>2
  <2>4. Sat(s) = s
    BY <1>3, SatType, U64Assumption
  <2> HIDE DEF N, b
  <2> QED
    BY <1>6, <2>3, <2>4
<1>8. ASSUME NumberOf(ino, s) PROVE ino = OffsetToInode(Geo, s)
  <2>1. Sat(N) = s /\ b < A
    BY <1>6, <1>8
  <2> HIDE DEF q, b, t
  <2>2. N \in Nat
    BY <1>1, <1>4
  <2>3. N = s
    <3> HIDE DEF N
    <3> QED
      BY <1>3, <2>1, <2>2, SatType
  <2>4. s = OffsetAt(A, B, I, q, b, t)
    BY <2>3 DEF OffsetAt
  <2> HIDE DEF N
  <2>5. GroupDigit(A, B, s) = q /\ BlockDigit(A, B, s) = b /\ SlotDigit(A, B, I, s) = t
    <3>1. q \in Nat /\ b \in Nat /\ t \in Nat /\ b < A
      BY <1>4, <2>1
    <3>2. t * I < B
      <4>1. t * I + 0 < P * I /\ t * I \in Nat
        BY <1>1, <1>4, Joined
      <4> QED
        BY <1>1, <4>1
    <3> QED
      BY <1>1, <2>4, <3>1, <3>2, Undigits
  <2>6. NumberAt(A, S, P, B, I, s) = q * (S * P) + (b * P + t)
    BY <2>5 DEF NumberAt
  <2> QED
    BY <1>2, <1>4, <2>6
<1> QED
  BY <1>7, <1>8

(* What an audit has found when g groups and the slots before o are behind *)
(* it.                                                                     *)
FoundDamage(a, g, o) ==
    \/ PrimaryDamage(a)
    \/ \E n \in 0..(g - 1) : GroupDamage(a, n)
    \/ \E s \in 0..(o - 1) : s % Primary.inodesize = 0 /\ SlotDamage(a, s)

(* The invariant: the report is what was to be found so far, and the walk  *)
(* leaves no group and no slot out.                                        *)
Walked ==
    /\ agno > 0 => agno <= Primary.agcount
    /\ pc \in {"inodes", "returned"} /\ Holds(0, "SB") => ~MoreAgs
Swept ==
    /\ off > 0 => Primary.inodesize > 0 /\ off % Primary.inodesize = 0
    /\ pc = "inodes" => IsV5
    /\ pc = "returned" /\ Holds(0, "SB") =>
         IF IsV5 /\ Primary.inodesize > 0 THEN off + Primary.inodesize > Len0 ELSE off = 0
DamageInv ==
    /\ ~Holds(0, "SB") => out = <<>>
    /\ pc # "superblock" /\ Holds(0, "SB") => \A a : a \in Elems(out) <=> FoundDamage(a, agno, off)
    /\ Walked /\ Swept

LEMMA SameDamage ==
    ASSUME image' = image
    PROVE  /\ \A a, g, o : FoundDamage(a, g, o)' <=> FoundDamage(a, g, o)
           /\ (Holds(0, "SB")' <=> Holds(0, "SB")) /\ (IsV5' <=> IsV5)
           /\ Primary' = Primary /\ Len0' = Len0 /\ AgBytes' = AgBytes
           /\ \A n : Base(n)' = Base(n)
<1>1. /\ Len0' = Len0 /\ (IsV5' <=> IsV5) /\ AgBytes' = AgBytes /\ Primary' = Primary
      /\ \A n : Base(n)' = Base(n)
      /\ \A s, kind : Holds(s, kind)' <=> Holds(s, kind)
  BY SameImage
<1>2. \A s : BadSum(s)' <=> BadSum(s)
  BY <1>1 DEF BadSum
<1>3. Geo' = Geo
  BY <1>1 DEF Geo
<1>4. \A a : PrimaryDamage(a)' <=> PrimaryDamage(a)
  BY <1>1, <1>2 DEF PrimaryDamage, GeometryDamage, Unheld, Base
<1>5. \A a, n : MirrorDamage(a, n)' <=> MirrorDamage(a, n)
  BY <1>1, <1>2 DEF MirrorDamage, FieldDamage
<1>6. \A a, n : AgfDamage(a, n)' <=> AgfDamage(a, n)
  BY <1>1, <1>2 DEF AgfDamage, Base
<1>7. \A a, n : AgiDamage(a, n)' <=> AgiDamage(a, n)
  BY <1>1, <1>2 DEF AgiDamage, BucketDamage, Base
<1>8. \A a, n : GroupDamage(a, n)' <=> GroupDamage(a, n)
  BY <1>5, <1>6, <1>7 DEF GroupDamage
<1>9. \A a, s : SlotDamage(a, s)' <=> SlotDamage(a, s)
  BY <1>1, <1>2, <1>3 DEF SlotDamage
<1> QED
  BY <1>1, <1>4, <1>8, <1>9 DEF FoundDamage

LEMMA InitDamage == Init => DamageInv
<1> SUFFICES ASSUME Init PROVE DamageInv
  OBVIOUS
<1>1. out = <<>> /\ pc = "superblock" /\ agno = 0 /\ off = 0
  BY DEF Init
<1> QED
  BY <1>1 DEF DamageInv, Walked, Swept

LEMMA AuditPrimaryDamage ==
    ASSUME Inv, DamageInv, AuditPrimary
    PROVE  DamageInv'
<1> DEFINE r == CrcReport(0, "superblock") \o GeometryReport
<1>1. /\ image \in Images /\ Holds(0, "SB") /\ agno' = 0 /\ off' = 0
      /\ out' = r /\ pc' = "ags" /\ image' = image
  BY DEF Inv, AuditPrimary
<1>2. \A a : a \in Elems(r) <=> PrimaryDamage(a)
  BY <1>1, PrimaryReport
<1> HIDE DEF r
<1>3. \A a : FoundDamage(a, 0, 0) <=> PrimaryDamage(a)
  BY DEF FoundDamage
<1>4. \A a : a \in Elems(out') <=> FoundDamage(a, agno, off)'
  <2>1. \A a, g, o : FoundDamage(a, g, o)' <=> FoundDamage(a, g, o)
    BY <1>1, SameDamage
  <2>2. \A a : FoundDamage(a, agno, off)' <=> FoundDamage(a, agno', off')
    BY <2>1
  <2> QED
    BY <1>1, <1>2, <1>3, <2>2
<1>5. Elems(out') = Elems(out)' /\ Holds(0, "SB")'
  BY <1>1, SameDamage DEF Elems
<1>6. Walked' /\ Swept'
  BY <1>1 DEF Walked, Swept
<1> QED
  BY <1>4, <1>5, <1>6 DEF DamageInv

LEMMA AuditAgDamage ==
    ASSUME Inv, DamageInv, AuditAg
    PROVE  DamageInv'
<1> DEFINE r == SecondaryReport(agno) \o AgfReport(agno) \o AgiReport(agno)
<1>1. /\ image \in Images /\ pc = "ags" /\ Holds(0, "SB") /\ off = 0 /\ agno \in Nat
      /\ AgBytes > 0 /\ agno < Primary.agcount /\ Primary.agcount \in Nat
      /\ agno' = agno + 1 /\ UNCHANGED <<image, pc, off>> /\ out \in Seq(Anomaly)
  BY GroupFacts DEF Inv, TypeOK, AuditAg, MoreAgs
<1>2. out' = out \o r
  BY DEF AuditAg
<1>3. r \in Seq(Anomaly) /\ \A a : a \in Elems(r) <=> GroupDamage(a, agno)
  BY <1>1, GroupReport DEF Report
<1> HIDE DEF r
<1>4. Elems(out') = Elems(out) \cup Elems(r)
  BY <1>1, <1>2, <1>3, ConcatElems
<1>5. \A a : FoundDamage(a, agno + 1, off) <=> FoundDamage(a, agno, off) \/ GroupDamage(a, agno)
  <2>1. \A n : n \in 0..((agno + 1) - 1) <=> n \in 0..(agno - 1) \/ n = agno
    BY <1>1
  <2> QED
    BY <2>1 DEF FoundDamage
<1>6. \A a : a \in Elems(out') <=> FoundDamage(a, agno, off)'
  <2>1. \A a, g, o : FoundDamage(a, g, o)' <=> FoundDamage(a, g, o)
    BY <1>1, SameDamage
  <2>2. \A a : FoundDamage(a, agno, off)' <=> FoundDamage(a, agno', off')
    BY <2>1
  <2>3. \A a : a \in Elems(out) <=> FoundDamage(a, agno, off)
    BY <1>1 DEF DamageInv
  <2> QED
    BY <1>1, <1>3, <1>4, <1>5, <2>2, <2>3
<1>7. Elems(out') = Elems(out)' /\ Holds(0, "SB")'
  BY <1>1, SameDamage DEF Elems
<1>8. Walked' /\ Swept'
  <2>1. Primary' = Primary
    BY <1>1, SameDamage
  <2> QED
    BY <1>1, <2>1 DEF Walked, Swept
<1> QED
  BY <1>6, <1>7, <1>8 DEF DamageInv

LEMMA AuditInodeDamage ==
    ASSUME Inv, DamageInv, AuditInode
    PROVE  DamageInv'
<1> DEFINE r == InodeReport(off)
           I == Primary.inodesize
<1>1. /\ image \in Images /\ pc = "inodes" /\ Holds(0, "SB") /\ off \in Nat
      /\ I \in Nat /\ I > 0 /\ out' = out \o r
      /\ off' = off + I /\ UNCHANGED <<image, pc, agno>> /\ out \in Seq(Anomaly)
  <2>1. image \in Images /\ Len0 \in Nat /\ off \in 0..Len0 /\ out \in Seq(Anomaly)
    BY ImageFacts DEF Inv, TypeOK
  <2>2. pc = "inodes" /\ Holds(0, "SB") /\ Primary.inodesize > 0
    BY DEF Inv, AuditInode
  <2>3. I \in Nat
    BY <2>1, <2>2, GroupFacts
  <2>4. out' = out \o r /\ off' = off + I /\ UNCHANGED <<image, pc, agno>>
    BY DEF AuditInode
  <2> QED
    BY <2>1, <2>2, <2>3, <2>4
<1>2. off % I = 0 /\ off' % I = 0 /\ \A m \in Nat : m % I = 0 /\ off < m => off + I <= m
  <2>1. off % I = 0
    <3>1. 0 % I = 0
      BY <1>1
    <3> QED
      BY <1>1, <3>1 DEF DamageInv, Swept
  <2>2. I \in Nat \ {0} /\ off \in Nat
    BY <1>1
  <2> HIDE DEF I
  <2>3. /\ (off + I) % I = 0
        /\ \A m \in Nat : m % I = 0 /\ off < m => off + I <= m
    <3> DEFINE n == off
    <3>1. n \in Nat /\ n % I = 0
      BY <2>1, <2>2
    <3> HIDE DEF n
    <3>2. (n + I) % I = 0 /\ \A m \in Nat : m % I = 0 /\ n < m => n + I <= m
      BY <2>2, <3>1, NextMultiple
    <3> QED
      BY <3>2 DEF n
  <2> QED
    BY <1>1, <2>1, <2>3
<1>3. r \in Seq(Anomaly) /\ \A a : a \in Elems(r) <=> SlotDamage(a, off)
  BY <1>1, InodeFacts DEF Report
<1> HIDE DEF r
<1>4. Elems(out') = Elems(out) \cup Elems(r)
  BY <1>1, <1>3, ConcatElems
<1>5. \A a : FoundDamage(a, agno, off + I) <=> FoundDamage(a, agno, off) \/ SlotDamage(a, off)
  <2>1. \A s : s \in 0..((off + I) - 1) /\ s % I = 0 <=> (s \in 0..(off - 1) /\ s % I = 0) \/ s = off
    <3>1. I \in Nat /\ I > 0 /\ off \in Nat
      BY <1>1
    <3>2. off % I = 0 /\ \A m \in Nat : m % I = 0 /\ off < m => off + I <= m
      BY <1>2
    <3> HIDE DEF I
    <3> TAKE s
    <3>3. ASSUME s \in 0..((off + I) - 1), s % I = 0
          PROVE  s \in 0..(off - 1) \/ s = off
      <4>1. s \in Nat /\ s < off + I
        BY <3>1, <3>3
      <4>2. ~(off < s)
        BY <3>1, <3>2, <3>3, <4>1
      <4> QED
        BY <3>1, <4>1, <4>2
    <3>4. ASSUME s \in 0..(off - 1)
          PROVE  s \in 0..((off + I) - 1)
      BY <3>1, <3>4
    <3>5. off \in 0..((off + I) - 1)
      BY <3>1
    <3> QED
      BY <3>2, <3>3, <3>4, <3>5
  <2> QED
    BY <2>1 DEF FoundDamage
<1>6. \A a : a \in Elems(out') <=> FoundDamage(a, agno, off)'
  <2>1. \A a, g, o : FoundDamage(a, g, o)' <=> FoundDamage(a, g, o)
    BY <1>1, SameDamage
  <2>2. \A a : FoundDamage(a, agno, off)' <=> FoundDamage(a, agno', off')
    BY <2>1
  <2>3. \A a : a \in Elems(out) <=> FoundDamage(a, agno, off)
    BY <1>1 DEF DamageInv
  <2> QED
    BY <1>1, <1>3, <1>4, <1>5, <2>2, <2>3
<1>7. Elems(out') = Elems(out)' /\ Holds(0, "SB")'
  BY <1>1, SameDamage DEF Elems
<1>8. Walked' /\ Swept'
  <2>1. /\ Primary' = Primary /\ (IsV5' <=> IsV5) /\ (Holds(0, "SB")' <=> Holds(0, "SB"))
        /\ AgBytes' = AgBytes /\ Len0' = Len0 /\ Base(agno)' = Base(agno)
    BY <1>1, SameDamage
  <2>2. MoreAgs' <=> MoreAgs
    BY <1>1, <2>1 DEF MoreAgs, Base
  <2>3. Walked'
    BY <1>1, <2>1, <2>2 DEF DamageInv, Walked
  <2>4. Swept'
    BY <1>1, <1>2, <2>1 DEF DamageInv, Swept
  <2> QED
    BY <2>3, <2>4
<1> QED
  BY <1>6, <1>7, <1>8 DEF DamageInv

LEMMA QuietDamage ==
    ASSUME Inv, DamageInv, NotXfs \/ EndAgs \/ EndInodes \/ UNCHANGED vars
    PROVE  DamageInv'
<1>1. /\ UNCHANGED <<image, agno, off, out>>
      /\ \/ pc' = pc
         \/ pc' = "returned" /\ ~Holds(0, "SB")
         \/ pc = "ags" /\ ~MoreAgs /\ pc' = IF IsV5 /\ Primary.inodesize > 0 THEN "inodes" ELSE "returned"
         \/ pc = "inodes" /\ off + Primary.inodesize > Len0 /\ pc' = "returned"
  BY DEF NotXfs, EndAgs, EndInodes, vars
<1>2. /\ Primary' = Primary /\ (IsV5' <=> IsV5) /\ (Holds(0, "SB")' <=> Holds(0, "SB"))
      /\ AgBytes' = AgBytes /\ Len0' = Len0 /\ Base(agno)' = Base(agno)
      /\ \A a, g, o : FoundDamage(a, g, o)' <=> FoundDamage(a, g, o)
  BY <1>1, SameDamage
<1>3. MoreAgs' <=> MoreAgs
  BY <1>1, <1>2 DEF MoreAgs, Base
<1>4. Walked'
  BY <1>1, <1>2, <1>3 DEF DamageInv, Walked
<1>5. Swept'
  <2>1. pc = "ags" => off = 0
    BY DEF Inv
  <2>2. pc = "inodes" => Primary.inodesize > 0
    BY DEF Inv
  <2> QED
    BY <1>1, <1>2, <2>1, <2>2 DEF DamageInv, Swept
<1>6. \A a : FoundDamage(a, agno, off)' <=> FoundDamage(a, agno, off)
  BY <1>1, <1>2
<1>7. Elems(out)' = Elems(out)
  BY <1>1 DEF Elems
<1>8. pc' # "superblock" /\ Holds(0, "SB") => pc # "superblock"
  BY <1>1
<1> QED
  BY <1>1, <1>2, <1>4, <1>5, <1>6, <1>7, <1>8 DEF DamageInv

(* What lies behind the walk when it has ended: the groups the image has,  *)
(* and the slots that are whole.                                           *)
LEMMA BegunFacts ==
    ASSUME image \in Images, Holds(0, "SB"), AgBytes > 0
    PROVE  GroupsBegun \in Nat /\ \A n \in Nat : Base(n) < Len0 <=> n < GroupsBegun
<1> DEFINE z == AgBytes
           m == Len0 - 1
           q == m \div z
<1>1. z \in Nat \ {0} /\ m \in Nat /\ Len0 = m + 1
  <2>1. Len0 \in Nat /\ 0 < Len0
    BY ImageFacts DEF Holds
  <2> QED
    BY <2>1, GroupFacts
<1>2. GroupsBegun = q + 1 /\ \A n : Base(n) = n * z
  BY DEF GroupsBegun, Base
<1> HIDE DEF z, m
<1>3. q \in Nat
  BY <1>1, Division
<1>4. \A n \in Nat : n * z <= m <=> n <= q
  BY <1>1, WholeUnits
<1> HIDE DEF q
<1>5. \A n \in Nat : n * z \in Nat
  BY <1>1
<1>6. \A n \in Nat : Base(n) < Len0 <=> n < GroupsBegun
  <2> TAKE n \in Nat
  <2> DEFINE b == n * z
  <2>1. b \in Nat /\ (b <= m <=> n <= q) /\ Base(n) = b
    BY <1>2, <1>4, <1>5
  <2> HIDE DEF b
  <2> QED
    BY <1>1, <1>2, <1>3, <2>1
<1> QED
  BY <1>2, <1>3, <1>6

LEMMA GroupsWalked ==
    ASSUME Inv, DamageInv, pc = "returned", Holds(0, "SB")
    PROVE  /\ \A n : n \in 0..(agno - 1) <=> n \in Groups
           /\ GroupsFit <=> Primary.agcount # 0 /\ ~Unheld
<1>1. /\ image \in Images /\ agno \in Nat /\ Primary.agcount \in Nat /\ AgBytes \in Nat
      /\ \A n \in Nat : Base(n) \in Nat
      /\ AgBytes > 0 => \A m, n \in Nat : m < n => Base(m) < Base(n)
      /\ agno > 0 => AgBytes > 0
      /\ agno = 0 \/ Base(agno - 1) < Len0
  BY GroupFacts DEF Inv, TypeOK, WalkEndsWithTheImage
<1>2. ~MoreAgs /\ (agno > 0 => agno <= Primary.agcount)
  BY DEF DamageInv, Walked
<1>3. Len0 \in Nat
  BY <1>1, ImageFacts
<1>4. CASE AgBytes = 0
  BY <1>1, <1>4 DEF Groups, GroupsFit, Unheld
<1>5. CASE AgBytes > 0
  <2>1. GroupsBegun \in Nat /\ \A n \in Nat : Base(n) < Len0 <=> n < GroupsBegun
    BY <1>1, <1>5, BegunFacts
  <2>2. agno > 0 => agno <= GroupsBegun /\ agno <= Primary.agcount
    <3>1. agno > 0 => agno - 1 \in Nat
      BY <1>1
    <3> QED
      BY <1>1, <1>2, <2>1, <3>1
  <2>3. agno >= Primary.agcount \/ agno >= GroupsBegun
    BY <1>1, <1>2, <1>5, <2>1 DEF MoreAgs
  <2>4. \A n : n \in Groups <=> n \in 0..(Primary.agcount - 1) /\ n < GroupsBegun
    BY <1>5 DEF Groups
  <2>5. \A n : n \in 0..(agno - 1) <=> n \in Groups
    BY <1>1, <2>1, <2>2, <2>3, <2>4
  <2>6. GroupsFit <=> Primary.agcount # 0 /\ ~Unheld
    <3>1. CASE Primary.agcount = 0
      BY <3>1 DEF GroupsFit
    <3>2. CASE Primary.agcount > 0
      <4>1. Primary.agcount - 1 \in Nat
        BY <1>1, <3>2
      <4>2. Base(Primary.agcount - 1) < Len0 <=> Primary.agcount - 1 < GroupsBegun
        BY <2>1, <4>1
      <4>3. Base(Primary.agcount - 1) \in Nat
        BY <1>1, <4>1
      <4> QED
        BY <1>1, <1>3, <1>5, <2>1, <3>2, <4>2, <4>3 DEF GroupsFit, Unheld
    <3> QED
      BY <1>1, <3>1, <3>2
  <2> QED
    BY <2>5, <2>6
<1> QED
  BY <1>1, <1>4, <1>5

LEMMA SlotsSwept ==
    ASSUME Inv, DamageInv, pc = "returned", Holds(0, "SB"), IsV5, Primary.inodesize > 0
    PROVE  \A s : s \in 0..(off - 1) /\ s % Primary.inodesize = 0
                  <=> /\ s \in 0..(Len0 - 1) /\ s % Primary.inodesize = 0
                      /\ s + Primary.inodesize <= Len0
<1> DEFINE I == Primary.inodesize
<1>1. I \in Nat \ {0} /\ Len0 \in Nat /\ off \in Nat /\ off <= Len0
  <2>1. image \in Images /\ off \in 0..Len0
    BY DEF Inv, TypeOK
  <2>2. Len0 \in Nat /\ Primary.inodesize \in Nat
    BY <2>1, ImageFacts, GroupFacts
  <2> QED
    BY <2>1, <2>2
<1>2. off + I > Len0 /\ (off > 0 => off % I = 0)
  BY DEF DamageInv, Swept
<1> HIDE DEF I
<1>3. off % I = 0
  <2>1. 0 % I = 0
    BY <1>1
  <2> QED
    BY <1>1, <1>2, <2>1
<1>4. ASSUME NEW s \in Nat, s % I = 0
      PROVE  s < off <=> s < Len0 /\ s + I <= Len0
  <2>1. s < off => s + I <= off
    BY <1>1, <1>3, <1>4, NextMultiple
  <2> QED
    BY <1>1, <1>2, <1>4, <2>1
<1>5. \A s : (s \in 0..(off - 1) => s \in Nat /\ s < off) /\ (s \in 0..(Len0 - 1) => s \in Nat /\ s < Len0)
  BY <1>1
<1>6. \A s \in Nat : (s < off => s \in 0..(off - 1)) /\ (s < Len0 => s \in 0..(Len0 - 1))
  BY <1>1
<1>7. \A s : s \in 0..(off - 1) /\ s % I = 0
             <=> s \in 0..(Len0 - 1) /\ s % I = 0 /\ s + I <= Len0
  <2> TAKE s
  <2> QED
    BY <1>4, <1>5, <1>6
<1> QED
  BY <1>7 DEF I

(* The reference, anomaly by anomaly.                                      *)
LEMMA HeaderFacts ==
    ASSUME image \in Images, Holds(0, "SB")
    PROVE  \A a : a \in HeaderDamage
                  <=> (BadSum(0) /\ a = Crc("superblock", 0)) \/ \E n \in Groups : GroupDamage(a, n)
<1> TAKE a
<1>1. \A n \in Groups : n \in Nat
  <2>1. Primary.agcount \in Nat
    BY GroupFacts
  <2> QED
    BY <2>1 DEF Groups
<1>2. \A n : n \in Mirrors <=> n \in Groups /\ n >= 1 /\ Holds(Base(n), "SB")
  BY <1>1 DEF Mirrors
<1>3. \A n : n \in Agfs <=> n \in Groups /\ Holds(Base(n) + 1, "AGF")
  BY DEF Agfs
<1>4. \A n : n \in Agis <=> n \in Groups /\ Holds(Base(n) + 2, "AGI")
  BY DEF Agis
<1> DEFINE Sums == {Crc("superblock", s) : s \in {t \in {0} \cup {Base(n) : n \in Mirrors} :
                                                      image[t].v5 /\ BadSum(t)}}
           AgfSums == {Crc("AGF", Base(n) + 1) : n \in {m \in Agfs : BadSum(Base(m) + 1)}}
           AgiSums == {Crc("AGI", Base(n) + 2) : n \in {m \in Agis : BadSum(Base(m) + 2)}}
<1>5. a \in Sums <=> \/ BadSum(0) /\ a = Crc("superblock", 0)
                    \/ \E n \in Mirrors : image[Base(n)].v5 /\ BadSum(Base(n)) /\ a = Crc("superblock", Base(n))
  <2>1. BadSum(0) => image[0].v5
    BY DEF BadSum, IsV5
  <2>2. a \in Sums <=> \E s \in {0} \cup {Base(n) : n \in Mirrors} :
                          image[s].v5 /\ BadSum(s) /\ a = Crc("superblock", s)
    OBVIOUS
  <2> HIDE DEF Sums
  <2> QED
    BY <2>1, <2>2
<1>6. a \in AgfSums <=> \E n \in Agfs : BadSum(Base(n) + 1) /\ a = Crc("AGF", Base(n) + 1)
  OBVIOUS
<1>7. a \in AgiSums <=> \E n \in Agis : BadSum(Base(n) + 2) /\ a = Crc("AGI", Base(n) + 2)
  OBVIOUS
<1>8. \A n : a \in DivergencesOf(n) <=> FieldDamage(a, n)
  <2>1. DOMAIN Primary = FieldNames
    <3>1. image[0] \in Sector /\ image[0].kind = "SB"
      BY ImageFacts DEF Holds
    <3>2. Primary \in Layout
      BY <3>1, SectorFacts DEF Primary
    <3> QED
      BY <3>2 DEF Layout, FieldNames
  <2> QED
    BY <2>1 DEF FieldDamage, DivergencesOf
<1>9. \A n \in Agis : a \in OrphansOf(n) <=> BucketDamage(a, n, image[Base(n) + 2].unlinked)
  <2> TAKE n \in Agis
  <2>1. PICK u : u = image[Base(n) + 2].unlinked
    OBVIOUS
  <2>2. u \in Seq(Int)
    <3>1. n \in Nat /\ Holds(Base(n) + 2, "AGI") /\ Base(n) \in Nat
      BY <1>1, <1>4, GroupFacts
    <3>2. Base(n) + 2 \in Nat
      BY <3>1
    <3>3. image[Base(n) + 2] \in Sector /\ image[Base(n) + 2].kind = "AGI"
      BY <3>1, <3>2, ImageFacts DEF Holds
    <3> QED
      BY <2>1, <3>3, SectorFacts
  <2>3. DOMAIN u = 1..Len(u)
    BY <2>2
  <2>4. a \in OrphansOf(n) <=> \E b \in DOMAIN u : u[b] # NULL_AGINO /\ a = Orphan(n, b, u[b])
    BY <2>1 DEF OrphansOf
  <2>5. BucketDamage(a, n, u) <=> \E b \in 1..Len(u) : u[b] # NULL_AGINO /\ a = Orphan(n, b, u[b])
    BY DEF BucketDamage
  <2>6. a \in OrphansOf(n) <=> BucketDamage(a, n, u)
    BY <2>3, <2>4, <2>5
  <2> QED
    BY <2>1, <2>6
<1>10. FailedSums = Sums \cup AgfSums \cup AgiSums
  BY DEF FailedSums
<1> HIDE DEF Sums, AgfSums, AgiSums
<1>11. a \in HeaderDamage
       <=> \/ a \in Sums \/ a \in AgfSums \/ a \in AgiSums
           \/ \E n \in Mirrors : a \in DivergencesOf(n)
           \/ \E n \in Agis : a \in OrphansOf(n)
  <2>1. a \in HeaderDamage
        <=> \/ a \in FailedSums
            \/ a \in UNION {DivergencesOf(n) : n \in Mirrors}
            \/ a \in UNION {OrphansOf(n) : n \in Agis}
    BY DEF HeaderDamage
  <2>2. a \in UNION {DivergencesOf(n) : n \in Mirrors} <=> \E n \in Mirrors : a \in DivergencesOf(n)
    OBVIOUS
  <2>3. a \in UNION {OrphansOf(n) : n \in Agis} <=> \E n \in Agis : a \in OrphansOf(n)
    OBVIOUS
  <2>4. a \in FailedSums <=> a \in Sums \/ a \in AgfSums \/ a \in AgiSums
    BY <1>10
  <2> QED
    BY <2>1, <2>2, <2>3, <2>4
<1>12. (BadSum(0) /\ a = Crc("superblock", 0)) \/ (\E n \in Groups : MirrorDamage(a, n))
       <=> a \in Sums \/ \E n \in Mirrors : a \in DivergencesOf(n)
  BY <1>2, <1>5, <1>8 DEF MirrorDamage
<1>13. (\E n \in Groups : AgfDamage(a, n)) <=> a \in AgfSums
  BY <1>3, <1>6 DEF AgfDamage
<1>14. (\E n \in Groups : AgiDamage(a, n))
       <=> a \in AgiSums \/ \E n \in Agis : a \in OrphansOf(n)
  BY <1>4, <1>7, <1>9 DEF AgiDamage
<1>15. (\E n \in Groups : GroupDamage(a, n))
       <=> \/ \E n \in Groups : MirrorDamage(a, n)
           \/ \E n \in Groups : AgfDamage(a, n)
           \/ \E n \in Groups : AgiDamage(a, n)
  BY DEF GroupDamage
<1> QED
  BY <1>11, <1>12, <1>13, <1>14, <1>15

LEMMA InodeSlots ==
    ASSUME Inv, DamageInv, pc = "returned", Holds(0, "SB"),
           Numbered \/ NoneNumbered \/ ~IsV5
    PROVE  \A a : a \in InodeDamage
                  <=> \E s \in 0..(off - 1) : s % Primary.inodesize = 0 /\ SlotDamage(a, s)
<1> TAKE a
<1>1. image \in Images /\ off \in Nat /\ Primary.inodesize \in Nat /\ Len0 \in Nat /\ Len0 <= U64_MAX
  <2>1. image \in Images /\ off \in 0..Len0
    BY DEF Inv, TypeOK
  <2> QED
    BY <2>1, ImageFacts, GroupFacts
<1>2. a \in InodeDamage <=> \E s \in Inodes : BadSum(s) /\ a = Crc("inode", s)
  BY DEF InodeDamage
<1>3. CASE ~IsV5
  BY <1>2, <1>3 DEF BadSum, SlotDamage
<1>4. CASE IsV5 /\ ~Numbered
  <2>1. a \notin InodeDamage
    BY <1>2, <1>4 DEF Inodes
  <2>2. ASSUME AgBytes = 0 \/ Geo.agspan * Geo.inopb > U64_MAX, NEW s \in 0..(off - 1)
        PROVE  ~SlotDamage(a, s)
    <3>1. OffsetToInode(Geo, s) = NoNumber
      <4>1. Geo.agblocks * Geo.blocksize = AgBytes
        BY DEF Geo, AgBytes
      <4> QED
        BY <2>2, <4>1 DEF OffsetToInode
    <3>2. ASSUME Holds(s, "IN") PROVE image[s].di_ino # NoNumber
      <4>1. image[s] \in Sector /\ image[s].kind = "IN"
        BY <1>1, <3>2, ImageFacts DEF Holds
      <4>2. image[s].di_ino \in Nat
        BY <4>1 DEF Sector
      <4> QED
        BY <4>2 DEF NoNumber
    <3> QED
      BY <3>1, <3>2 DEF SlotDamage
  <2>3. Primary.inodesize = 0 => 0..(off - 1) = {}
    <3>1. Primary.inodesize = 0 => off = 0
      BY DEF DamageInv, Swept
    <3> QED
      BY <1>1, <3>1
  <2> QED
    BY <1>4, <2>1, <2>2, <2>3 DEF NoneNumbered
<1>5. CASE IsV5 /\ Numbered
  <2>1. AgBytes > 0 /\ Primary.inodesize > 0
    <3> DEFINE x == Primary.agblocks
               y == Primary.blocksize
    <3>1. x \in Nat \ {0} /\ y \in Nat \ {0} /\ Primary.inodesize \in Nat \ {0} /\ AgBytes = x * y
      BY <1>5 DEF Numbered, Geo, Geometries, AgBytes
    <3> HIDE DEF x, y
    <3> QED
      BY <3>1
  <2> DEFINE Whole(s) == s % Primary.inodesize = 0 /\ s + Primary.inodesize <= Len0
  <2>2. \A s : s \in 0..(off - 1) /\ s % Primary.inodesize = 0 <=> s \in 0..(Len0 - 1) /\ Whole(s)
    BY <1>5, <2>1, SlotsSwept
  <2>3. ASSUME NEW s \in 0..(Len0 - 1), Whole(s), Holds(s, "IN")
        PROVE  image[s].di_ino = OffsetToInode(Geo, s) <=> NumberOf(image[s].di_ino, s)
    <3>1. s \in Nat
      BY <1>1
    <3>2. image[s].di_ino \in Nat
      <4>1. image[s] \in Sector /\ image[s].kind = "IN"
        BY <1>1, <2>3, ImageFacts DEF Holds
      <4> QED
        BY <4>1 DEF Sector
    <3>3. s + Primary.inodesize <= Len0 /\ s % Primary.inodesize = 0
      BY <2>3
    <3> QED
      BY <1>1, <1>5, <3>1, <3>2, <3>3, NumberFacts
  <2>4. \A s : s \in Inodes
               <=> s \in 0..(Len0 - 1) /\ Whole(s) /\ Holds(s, "IN") /\ NumberOf(image[s].di_ino, s)
    BY <1>5 DEF Inodes
  <2> HIDE DEF Whole
  <2>5. ASSUME NEW s \in 0..(Len0 - 1), Whole(s)
        PROVE  s \in Inodes /\ BadSum(s) /\ a = Crc("inode", s) <=> SlotDamage(a, s)
    BY <2>1, <2>3, <2>4, <2>5 DEF SlotDamage
  <2>6. a \in InodeDamage => \E s \in 0..(off - 1) : s % Primary.inodesize = 0 /\ SlotDamage(a, s)
    <3> SUFFICES ASSUME NEW s \in Inodes, BadSum(s), a = Crc("inode", s)
                 PROVE  s \in 0..(off - 1) /\ s % Primary.inodesize = 0 /\ SlotDamage(a, s)
      BY <1>2
    <3>1. s \in 0..(Len0 - 1) /\ Whole(s)
      BY <2>4
    <3> QED
      BY <2>2, <2>5, <3>1
  <2>7. ASSUME NEW s \in 0..(off - 1), s % Primary.inodesize = 0, SlotDamage(a, s)
        PROVE  a \in InodeDamage
    <3>1. s \in 0..(Len0 - 1) /\ Whole(s)
      BY <2>2, <2>7
    <3> QED
      BY <1>2, <2>5, <2>7, <3>1
  <2> QED
    BY <2>6, <2>7
<1> QED
  BY <1>3, <1>4, <1>5

(* What an anomaly's kind says of where it was found.                      *)
LEMMA DamageKinds ==
    ASSUME NEW a
    PROVE  /\ GeometryDamage(a) => a.kind = "ImpossibleGeometry" /\ a.value = Primary.agcount
           /\ (BadSum(0) /\ a = Crc("superblock", 0)) \/ (\E n \in Groups : GroupDamage(a, n))
                => a.kind # "ImpossibleGeometry" /\ ~(a.kind = "CrcMismatch" /\ a.structure = "inode")
           /\ \A s : SlotDamage(a, s) => a.kind = "CrcMismatch" /\ a.structure = "inode"
<1>1. GeometryDamage(a) => a.kind = "ImpossibleGeometry" /\ a.value = Primary.agcount
  BY DEF GeometryDamage, Impossible
<1> DEFINE Header == a.kind # "ImpossibleGeometry" /\ ~(a.kind = "CrcMismatch" /\ a.structure = "inode")
<1>2. \A x : /\ a = Crc("superblock", x) => Header
             /\ a = Crc("AGF", x) => Header
             /\ a = Crc("AGI", x) => Header
  BY DEF Crc
<1>3. \A n, f : a = Divergence(n, f) => Header
  BY DEF Divergence
<1>4. \A n, b, x : a = Orphan(n, b, x) => Header
  BY DEF Orphan
<1>5. \A s : SlotDamage(a, s) => a.kind = "CrcMismatch" /\ a.structure = "inode"
  BY DEF SlotDamage, Crc
<1> HIDE DEF Header
<1>6. \A n : GroupDamage(a, n) => Header
  <2>1. \A n : MirrorDamage(a, n) => Header
    BY <1>2, <1>3 DEF MirrorDamage, FieldDamage
  <2>2. \A n : AgfDamage(a, n) => Header
    BY <1>2 DEF AgfDamage
  <2>3. \A n : AgiDamage(a, n) => Header
    BY <1>2, <1>4 DEF AgiDamage, BucketDamage
  <2> QED
    BY <2>1, <2>2, <2>3 DEF GroupDamage
<1>7. (BadSum(0) /\ a = Crc("superblock", 0)) \/ (\E n \in Groups : GroupDamage(a, n)) => Header
  BY <1>2, <1>6
<1> QED
  BY <1>1, <1>5, <1>7 DEF Header

LEMMA Exact == Inv /\ DamageInv => ReportsExactlyTheDamage
<1> SUFFICES ASSUME Inv, DamageInv, pc = "returned"
             PROVE  ReportsExactlyTheDamage
  BY DEF ReportsExactlyTheDamage, Returned
<1> DEFINE reported == {out[k] : k \in 1..Len(out)}
           impossible == {a \in reported : a.kind = "ImpossibleGeometry"}
           inodes == {a \in reported : a.kind = "CrcMismatch" /\ a.structure = "inode"}
<1>1. CASE ~Holds(0, "SB")
  BY <1>1 DEF DamageInv, ReportsExactlyTheDamage
<1>2. CASE Holds(0, "SB")
  <2>1. image \in Images
    BY DEF Inv
  <2> DEFINE InSlot(a) == \E s \in 0..(off - 1) : s % Primary.inodesize = 0 /\ SlotDamage(a, s)
  <2>2. \A a : a \in reported <=> GeometryDamage(a) \/ a \in HeaderDamage \/ InSlot(a)
    <3>1. \A a : a \in reported <=> FoundDamage(a, agno, off)
      BY <1>2 DEF DamageInv, Elems
    <3>2. \A a : (\E n \in 0..(agno - 1) : GroupDamage(a, n)) <=> \E n \in Groups : GroupDamage(a, n)
      BY <1>2, GroupsWalked
    <3>3. \A a : a \in HeaderDamage
                 <=> (BadSum(0) /\ a = Crc("superblock", 0)) \/ \E n \in Groups : GroupDamage(a, n)
      BY <1>2, <2>1, HeaderFacts
    <3> QED
      BY <3>1, <3>2, <3>3 DEF FoundDamage, PrimaryDamage
  <2>3. \A a : GeometryDamage(a) => a.kind = "ImpossibleGeometry" /\ a.value = Primary.agcount
    BY DamageKinds
  <2>4. \A a : a \in HeaderDamage
               => a.kind # "ImpossibleGeometry" /\ ~(a.kind = "CrcMismatch" /\ a.structure = "inode")
    BY <1>2, <2>1, HeaderFacts, DamageKinds
  <2>5. \A a : InSlot(a) => a.kind = "CrcMismatch" /\ a.structure = "inode"
    BY DamageKinds
  <2> HIDE DEF InSlot, reported
  <2>6. \A a : a \in impossible <=> GeometryDamage(a)
    BY <2>2, <2>3, <2>4, <2>5
  <2>7. \A a : a \in inodes <=> InSlot(a)
    BY <2>2, <2>3, <2>4, <2>5
  <2>8. reported \ (impossible \cup inodes) = HeaderDamage
    <3>1. \A a : a \in reported \ (impossible \cup inodes) <=> a \in HeaderDamage
      <4> TAKE a
      <4>1. a \in HeaderDamage => a \notin impossible /\ a \notin inodes
        BY <2>4
      <4> QED
        BY <2>2, <2>6, <2>7, <4>1
    <3> QED
      BY <3>1
  <2>9. ASSUME Numbered \/ NoneNumbered \/ ~IsV5
        PROVE  inodes = InodeDamage
    <3>1. \A a : a \in inodes <=> a \in InodeDamage
      BY <1>2, <2>7, <2>9, InodeSlots DEF InSlot
    <3> HIDE DEF inodes
    <3> QED
      BY <3>1
  <2>10. IF GroupsFit THEN impossible = {}
                      ELSE \E a \in impossible : impossible = {a} /\ a.value = Primary.agcount
    <3>1. GroupsFit <=> Primary.agcount # 0 /\ ~Unheld
      BY <1>2, GroupsWalked
    <3> HIDE DEF impossible
    <3>2. CASE GroupsFit
      <4>1. \A a : a \notin impossible
        BY <2>6, <3>1, <3>2 DEF GeometryDamage
      <4> QED
        BY <3>2, <4>1
    <3>3. CASE ~GroupsFit
      <4>1. PICK b : \A a : GeometryDamage(a) <=> a = b
        <5>1. CASE Primary.agcount = 0
          BY <5>1 DEF GeometryDamage
        <5>2. CASE Primary.agcount # 0
          BY <3>1, <3>3, <5>2 DEF GeometryDamage
        <5> QED
          BY <5>1, <5>2
      <4>2. impossible = {b} /\ b \in impossible
        BY <2>6, <4>1
      <4>3. b.value = Primary.agcount
        BY <2>3, <4>1
      <4> QED
        BY <3>3, <4>2, <4>3
    <3> QED
      BY <3>2, <3>3
  <2> QED
    BY <1>2, <2>8, <2>9, <2>10 DEF reported, ReportsExactlyTheDamage
<1> QED
  BY <1>1, <1>2

(* audit_image reports of every image what is damaged on it, under the     *)
(* number or position it has there, and nothing else.                      *)
THEOREM DamageAlwaysReported == Spec => []ReportsExactlyTheDamage
<1>1. Inv /\ DamageInv /\ [Next]_vars => DamageInv'
  BY AuditPrimaryDamage, AuditAgDamage, AuditInodeDamage, QuietDamage DEF Next
<1>2. Inv /\ DamageInv => ReportsExactlyTheDamage
  BY Exact
<1> QED
  BY <1>1, <1>2, InitDamage, InvHolds, PTL DEF Spec
=============================================================================
