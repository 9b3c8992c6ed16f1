----------------------------- MODULE VfsProofs ------------------------------
(***************************************************************************)
(* Theorems about Vfs, and of read_by_path beside it, for every volume,    *)
(* every path and every behaviour of the source and of the client.         *)
(***************************************************************************)
EXTENDS Vfs, DataLemmas

Elems(s) == {s[k] : k \in 1..Len(s)}

LEMMA ConcatElements ==
    ASSUME NEW A, NEW s \in Seq(A), NEW t \in Seq(A)
    PROVE  s \o t \in Seq(A) /\ Elems(s \o t) = Elems(s) \cup Elems(t)
<1> DEFINE u == s \o t
<1>1. /\ u \in Seq(A) /\ Len(u) = Len(s) + Len(t) /\ Len(s) \in Nat /\ Len(t) \in Nat
      /\ \A k \in 1..Len(u) : u[k] = IF k <= Len(s) THEN s[k] ELSE t[k - Len(s)]
  BY ConcatProperties
<1> HIDE DEF u
<1>2. ASSUME NEW k \in 1..Len(u) PROVE u[k] \in Elems(s) \cup Elems(t)
  <2>1. k <= Len(s) => k \in 1..Len(s)
    BY <1>1
  <2>2. ~(k <= Len(s)) => k - Len(s) \in 1..Len(t)
    BY <1>1
  <2> QED
    BY <1>1, <2>1, <2>2 DEF Elems
<1>3. ASSUME NEW k \in 1..Len(s) PROVE s[k] \in Elems(u)
  <2>1. k \in 1..Len(u) /\ k <= Len(s)
    BY <1>1
  <2> QED
    BY <1>1, <2>1 DEF Elems
<1>4. ASSUME NEW k \in 1..Len(t) PROVE t[k] \in Elems(u)
  <2>1. Len(s) + k \in 1..Len(u) /\ ~(Len(s) + k <= Len(s)) /\ (Len(s) + k) - Len(s) = k
    BY <1>1
  <2>2. u[Len(s) + k] = t[k]
    BY <1>1, <2>1
  <2> QED
    BY <2>1, <2>2 DEF Elems
<1>5. Elems(u) = Elems(s) \cup Elems(t)
  BY <1>2, <1>3, <1>4 DEF Elems
<1> QED
  BY <1>1, <1>5 DEF u

(* Sequences put together one behind the other.                            *)
LEMMA FlattenElements ==
    ASSUME NEW A, NEW w \in Seq(Seq(A))
    PROVE  /\ FlattenSeq(w) \in Seq(A)
           /\ Elems(FlattenSeq(w)) = UNION {Elems(w[k]) : k \in 1..Len(w)}
<1> DEFINE n == Len(w)
           Is(f, m) == f = [i \in 1..m |-> IF i = 1 THEN w[i] ELSE f[i - 1] \o w[i]]
           T == {m \in Nat : \E f : Is(f, m)}
           F == CHOOSE f : Is(f, n)
<1>1. n \in Nat /\ DOMAIN w = 1..n /\ \A k \in 1..n : w[k] \in Seq(A)
  OBVIOUS
<1>2. FlattenSeq(w) = IF n = 0 THEN w ELSE F[n]
  BY DEF FlattenSeq
<1>3. 0 \in T
  <2>1. Is(<<>>, 0)
    OBVIOUS
  <2> QED
    BY <2>1
<1>4. ASSUME NEW m \in Nat, m \in T PROVE m + 1 \in T
  <2> HIDE DEF Is
  <2>1. PICK f : Is(f, m)
    BY <1>4
  <2> USE DEF Is
  <2> DEFINE g == [i \in 1..(m + 1) |->
                      IF i = m + 1 THEN (IF i = 1 THEN w[i] ELSE f[m] \o w[i]) ELSE f[i]]
  <2>2. DOMAIN f = 1..m /\ \A i \in 1..m : f[i] = IF i = 1 THEN w[i] ELSE f[i - 1] \o w[i]
    BY <2>1
  <2>3. \A i \in 1..(m + 1) : g[i] = IF i = 1 THEN w[i] ELSE g[i - 1] \o w[i]
    <3> SUFFICES ASSUME NEW i \in 1..(m + 1)
                 PROVE  g[i] = IF i = 1 THEN w[i] ELSE g[i - 1] \o w[i]
      OBVIOUS
    <3>1. CASE i = m + 1
      <4>1. i # 1 => g[i - 1] = f[m]
        BY <3>1
      <4> QED
        BY <3>1, <4>1
    <3>2. CASE i \in 1..m
      <4>1. i # 1 => g[i - 1] = f[i - 1]
        BY <3>2
      <4>2. g[i] = f[i]
        BY <3>2
      <4> QED
        BY <2>2, <3>2, <4>1, <4>2
    <3> QED
      BY <3>1, <3>2
  <2>4. Is(g, m + 1)
    BY <2>3
  <2> HIDE DEF g, Is
  <2> QED
    BY <2>4
<1>5. Is(F, n)
  <2> HIDE DEF T, Is
  <2>1. Nat \subseteq T
    BY <1>3, <1>4, Induction
  <2>2. \E f : Is(f, n)
    BY <1>1, <2>1 DEF T
  <2> QED
    BY <2>2
<1> HIDE DEF F
<1>6. \A i \in 1..n : F[i] = IF i = 1 THEN w[i] ELSE F[i - 1] \o w[i]
  BY <1>5
<1> DEFINE Good(m) == F[m] \in Seq(A) /\ Elems(F[m]) = UNION {Elems(w[k]) : k \in 1..m}
           U == {m \in Nat : m \in 1..n => Good(m)}
<1>7. 0 \in U
  OBVIOUS
<1>8. ASSUME NEW m \in Nat, m \in U PROVE m + 1 \in U
  <2> SUFFICES ASSUME m + 1 \in 1..n PROVE Good(m + 1)
    OBVIOUS
  <2>0. w[m + 1] \in Seq(A)
    BY <1>1
  <2>1. CASE m = 0
    <3>1. F[m + 1] = w[m + 1]
      BY <1>6, <2>1
    <3>2. 1..(m + 1) = {m + 1}
      BY <2>1
    <3> QED
      BY <2>0, <3>1, <3>2
  <2>2. CASE m # 0
    <3>0. m \in 1..n /\ m + 1 # 1 /\ (m + 1) - 1 = m
      BY <2>2
    <3>1. F[m + 1] = F[m] \o w[m + 1]
      <4>1. F[m + 1] = IF m + 1 = 1 THEN w[m + 1] ELSE F[(m + 1) - 1] \o w[m + 1]
        BY <1>6
      <4> QED
        BY <3>0, <4>1
    <3>2. Good(m)
      BY <1>8, <3>0
    <3>3. F[m + 1] \in Seq(A) /\ Elems(F[m + 1]) = Elems(F[m]) \cup Elems(w[m + 1])
      BY <2>0, <3>1, <3>2, ConcatElements
    <3>4. 1..(m + 1) = (1..m) \cup {m + 1}
      OBVIOUS
    <3>5. UNION {Elems(w[k]) : k \in 1..(m + 1)} = (UNION {Elems(w[k]) : k \in 1..m}) \cup Elems(w[m + 1])
      BY <3>4, Zenon
    <3> QED
      BY <3>2, <3>3, <3>5
  <2> QED
    BY <2>1, <2>2
<1>9. n # 0 => Good(n)
  <2> HIDE DEF U
  <2>1. Nat \subseteq U
    BY <1>7, <1>8, Induction
  <2> HIDE DEF Good
  <2> QED
    BY <1>1, <2>1 DEF U
<1>10. CASE n = 0
  <2>1. FlattenSeq(w) = <<>>
    BY <1>1, <1>2, <1>10
  <2>2. <<>> \in Seq(A) /\ Elems(<<>>) = {} /\ 1..n = {}
    BY <1>10 DEF Elems
  <2> QED
    BY <2>1, <2>2
<1>11. CASE n # 0
  BY <1>2, <1>9, <1>11
<1> QED
  BY <1>10, <1>11

-----------------------------------------------------------------------------
(* The windows of a stream.                                                *)
LEMMA WindowFacts ==
    ASSUME NEW S, NEW b \in Seq(S), NEW start \in 0..Len(b), NEW len \in Nat
    PROVE  /\ Window(b, start, len) \in Seq(S)
           /\ start + Len(Window(b, start, len)) = Least(Len(b), start + len)
           /\ start + Len(Window(b, start, len)) \in start..Len(b)
           /\ SubSeq(b, 1, start) \o Window(b, start, len)
                  = SubSeq(b, 1, start + Len(Window(b, start, len)))
           /\ len > 0 /\ Window(b, start, len) = <<>> => start = Len(b)
<1> DEFINE n == Len(b)
           e == Least(n, start + len)
           w == SubSeq(b, start + 1, e)
<1>0. w = Window(b, start, len)
  BY DEF Window
<1>1. n \in Nat /\ start \in Nat
  OBVIOUS
<1>2. e \in start..n /\ e \in Nat /\ (len > 0 /\ start # n => e # start)
  BY <1>1 DEF Least
<1>2a. n = Len(b)
  OBVIOUS
<1> HIDE DEF e, n
<1>3. \A i \in (start + 1)..e : b[i] \in S
  BY <1>1, <1>2, <1>2a
<1>4. start + 1 \in Int /\ e \in Int
  BY <1>1, <1>2
<1>5. w \in Seq(S) /\ Len(w) = IF start + 1 <= e THEN e - (start + 1) + 1 ELSE 0
  BY <1>3, <1>4, SubSeqProperties
<1>6. Len(w) = e - start
  BY <1>1, <1>2, <1>5
<1>7. SubSeq(b, 1, start) \o w = SubSeq(b, 1, e)
  <2>1. 1 \in 1..Len(b) + 1 /\ start \in (1 - 1)..Len(b) /\ e \in start..Len(b)
    BY <1>1, <1>2, <1>2a
  <2> QED
    BY <2>1, ConcatAdjacentSubSeq
<1> HIDE DEF w
<1>8. w = <<>> => Len(w) = 0
  OBVIOUS
<1>9. start + Len(w) = e
  BY <1>1, <1>2, <1>6
<1>10. len > 0 /\ w = <<>> => start = n
  BY <1>1, <1>2, <1>6, <1>8
<1> QED
  BY <1>0, <1>2, <1>2a, <1>5, <1>7, <1>9, <1>10 DEF e, n

-----------------------------------------------------------------------------
(* Images, and what is read of them.                                       *)
Cut(v, m) == [v EXCEPT !.len = m]

LEMMA CutFacts ==
    ASSUME NEW v, Image(v), NEW m \in 0..v.len
    PROVE  /\ Image(Cut(v, m)) /\ Cut(v, m).len = m
           /\ Cut(v, m).sb = v.sb /\ Cut(v, m).slots = v.slots /\ Cut(v, m).blocks = v.blocks
           /\ m = v.len => Cut(v, m) = v
<1> DEFINE c == Cut(v, m)
<1>1. v = [sb |-> v.sb, len |-> v.len, slots |-> v.slots, blocks |-> v.blocks]
  BY DEF Image
<1>2. c = [sb |-> v.sb, len |-> m, slots |-> v.slots, blocks |-> v.blocks]
  BY <1>1 DEF Cut
<1>3. c.len = m /\ c.sb = v.sb /\ c.slots = v.slots /\ c.blocks = v.blocks
  BY <1>2
<1>4. m = v.len => c = v
  BY <1>1, <1>2
<1> HIDE DEF c
<1>5. c = [sb |-> c.sb, len |-> c.len, slots |-> c.slots, blocks |-> c.blocks]
  BY <1>2, <1>3
<1>6. m \in 0..U64_MAX
  BY U64Assumption DEF Image
<1>7. Image(c)
  BY <1>3, <1>5, <1>6 DEF Image
<1> QED
  BY <1>3, <1>4, <1>7 DEF c

LEMMA LocationFacts ==
    ASSUME NEW g \in AnyGeometry, NEW ino \in Nat
    PROVE  InodeToLocation(g, ino) \in Nat
<1> DEFINE span == g.agspan * g.inopb
           agno == ino \div span
           agino == ino % span
           block == Sat(Sat(agno * g.agblocks) + agino \div g.inopb)
<1>1. \A n \in Nat : Sat(n) \in Nat
  BY U64Assumption DEF Sat
<1>2. /\ g.agblocks \in Nat /\ g.agspan \in Nat \ {0} /\ g.inopb \in Nat \ {0}
      /\ g.blocksize \in Nat /\ g.inodesize \in Nat
  BY DEF AnyGeometry
<1>3. span \in Nat \ {0}
  BY <1>2
<1>4. InodeToLocation(g, ino) = Sat(Sat(block * g.blocksize) + Sat((agino % g.inopb) * g.inodesize))
  BY DEF InodeToLocation
<1> HIDE DEF span
<1>5. agno \in Nat /\ agino \in Nat
  BY <1>3, Division
<1> HIDE DEF agno, agino
<1>6. agno * g.agblocks \in Nat /\ agino \div g.inopb \in Nat /\ agino % g.inopb \in Nat
  <2>1. agino \div g.inopb \in Nat /\ agino % g.inopb \in Nat
    BY <1>2, <1>5, Division
  <2>2. agno * g.agblocks \in Nat
    BY <1>2, <1>5
  <2> QED
    BY <2>1, <2>2
<1>7. Sat(agno * g.agblocks) \in Nat
  BY <1>1, <1>6
<1>8. block \in Nat
  BY <1>1, <1>6, <1>7
<1> HIDE DEF block
<1>9. block * g.blocksize \in Nat /\ (agino % g.inopb) * g.inodesize \in Nat
  BY <1>2, <1>6, <1>8
<1>10. Sat(block * g.blocksize) \in Nat /\ Sat((agino % g.inopb) * g.inodesize) \in Nat
  BY <1>1, <1>9
<1>11. Sat(block * g.blocksize) + Sat((agino % g.inopb) * g.inodesize) \in Nat
  BY <1>10
<1> QED
  BY <1>1, <1>4, <1>11

(* An inode that the slot at `at' holds.                                   *)
Decoded(v, at, inode) ==
    /\ at \in DOMAIN v.slots /\ at + v.sb.geo.inodesize <= v.len
    /\ inode.size \in Nat /\ inode.nextents \in Nat /\ inode.fork \in Fork
    /\ inode.fork_len \in 0..v.sb.geo.inodesize
    /\ \A k \in DOMAIN inode.fork.attrs : InPlace(v.sb.geo, at, inode.fork.attrs[k])

LEMMA InodeFacts ==
    ASSUME NEW v, Image(v), NEW ino \in Nat
    PROVE  LET read == ReadInode(v, ino)
           IN  /\ read.err \in {"none", "Truncated", "BadMagic"}
               /\ read.err = "none" => Decoded(v, InodeToLocation(v.sb.geo, ino), read.val)
<1> DEFINE at == InodeToLocation(v.sb.geo, ino)
           raw == v.slots[at]
           size == v.sb.geo.inodesize
           o == LitOffset(raw)
           read == ReadInode(v, ino)
<1>1. v.sb.geo \in AnyGeometry /\ size \in Nat
  BY DEF Image, AnyGeometry
<1>2. at \in Nat
  BY <1>1, LocationFacts
<1>3. read = IF at + size > v.len THEN Fail("Truncated")
             ELSE IF at \notin DOMAIN v.slots THEN Fail("BadMagic")
             ELSE Parse(raw, HasNrext64(v.sb), size)
  BY DEF ReadInode
<1>4. read.err \in {"none", "Truncated", "BadMagic"}
  BY <1>3 DEF Parse, Ok, Fail
<1>5. ASSUME read.err = "none" PROVE Decoded(v, at, read.val)
  <2>1. ~(at + size > v.len) /\ at \in DOMAIN v.slots /\ ~(size < o)
    BY <1>3, <1>5 DEF Parse, Ok, Fail
  <2>2a. read = Parse(raw, HasNrext64(v.sb), size) /\ read.err = "none"
    BY <1>3, <1>5, <2>1
  <2>2. /\ read.val.size = raw.size /\ read.val.nextents = Counts(raw, HasNrext64(v.sb)).data
        /\ read.val.fork = raw.lit[o] /\ read.val.fork_len = size - o
    BY ONLY <2>2a DEF Parse, Ok, Fail
  <2>3. raw \in RawInode
    BY <2>1 DEF Image
  <2>4. o \in {V2_LITINO_OFFSET, V3_LITINO_OFFSET}
    BY DEF LitOffset
  <2>5. \A k \in DOMAIN raw.lit[o].attrs : InPlace(v.sb.geo, at, raw.lit[o].attrs[k])
    BY <2>1, <2>4 DEF Image
  <2> HIDE DEF raw, o, at, size, read
  <2>6. /\ raw.size \in Nat /\ raw.be32_76 \in Nat /\ raw.be64_24 \in Nat
        /\ raw.lit \in [{V2_LITINO_OFFSET, V3_LITINO_OFFSET} -> Fork]
    BY <2>3 DEF RawInode
  <2>7. Counts(raw, HasNrext64(v.sb)).data \in Nat
    BY <2>6 DEF Counts
  <2>8. raw.lit[o] \in Fork
    BY <2>4, <2>6
  <2>9. size - o \in 0..size
    BY <1>1, <2>1, <2>4, InodeAssumption
  <2>10. v.len \in Nat
    BY U64Assumption DEF Image
  <2>11. at + size <= v.len
    BY <1>1, <1>2, <2>1, <2>10
  <2>12. \A k \in DOMAIN read.val.fork.attrs : InPlace(v.sb.geo, at, read.val.fork.attrs[k])
    BY <2>2, <2>5
  <2>13. read.val.size \in Nat /\ read.val.nextents \in Nat /\ read.val.fork \in Fork
    BY <2>2, <2>6, <2>7, <2>8
  <2>14. read.val.fork_len \in 0..v.sb.geo.inodesize
    BY <2>2, <2>9 DEF size
  <2>15. at \in DOMAIN v.slots /\ at + v.sb.geo.inodesize <= v.len
    BY <2>1, <2>11 DEF size
  <2> HIDE DEF InPlace, Fork
  <2> QED
    BY <2>12, <2>13, <2>14, <2>15 DEF Decoded
<1> QED
  BY <1>4, <1>5

(* No reader but read_by_path says that a path is not found.               *)
LEMMA ReadDirErrors ==
    ASSUME NEW v, NEW inode
    PROVE  /\ ReadFile(v, inode).err \in {"none", "Truncated"}
           /\ ReadDir(v, inode).err \in {"none", "Truncated", "UnsupportedDir"}
<1>1. ReadFile(v, inode).err \in {"none", "Truncated"}
  BY DEF ReadFile, Ok, Fail
<1>2. BlockDir(v, inode).err \in {"none", "Truncated", "UnsupportedDir"}
  BY <1>1 DEF BlockDir, Ok, Fail
<1>3. ReadDir(v, inode).err \in {"none", "Truncated", "UnsupportedDir"}
  BY <1>2 DEF ReadDir, Ok, Fail
<1> QED
  BY <1>1, <1>3

-----------------------------------------------------------------------------
(* Records and listings.                                                   *)
LEMMA WhenFacts ==
    ASSUME NEW A, NEW a \in A, NEW c
    PROVE  When(c, a) \in Seq(A) /\ When(c, a) = IF c THEN <<a>> ELSE <<>>
<1>1. <<a>> \in Seq(A) /\ <<>> \in Seq(A)
  OBVIOUS
<1>2. CASE c
  BY <1>1, <1>2 DEF When
<1>3. CASE ~c
  BY <1>1, <1>3 DEF When
<1> QED
  BY <1>2, <1>3

(* Those elements of a sequence that are kept.                             *)
LEMMA KeptWhen ==
    ASSUME NEW A, NEW s \in Seq(A), NEW c, NEW w,
           DOMAIN w = 1..Len(s), w = [k \in DOMAIN w |-> w[k]],
           \A k \in 1..Len(s) : w[k] = When(c[k], s[k])
    PROVE  /\ FlattenSeq(w) \in Seq(A)
           /\ \A x : x \in Elems(FlattenSeq(w)) <=> \E k \in 1..Len(s) : c[k] /\ x = s[k]
<1>1. Len(s) \in Nat /\ DOMAIN s = 1..Len(s) /\ \A k \in 1..Len(s) : s[k] \in A
  OBVIOUS
<1>2. \A k \in 1..Len(s) : w[k] \in Seq(A) /\ w[k] = IF c[k] THEN <<s[k]>> ELSE <<>>
  BY <1>1, WhenFacts
<1>3. w \in Seq(Seq(A)) /\ Len(w) = Len(s)
  BY <1>1, <1>2
<1>4. \A k \in 1..Len(s) : \A x : x \in Elems(w[k]) <=> c[k] /\ x = s[k]
  <2> SUFFICES ASSUME NEW k \in 1..Len(s), NEW x PROVE x \in Elems(w[k]) <=> c[k] /\ x = s[k]
    OBVIOUS
  <2>1. CASE ~c[k]
    <3>1. Elems(<<>>) = {}
      BY DEF Elems
    <3> QED
      BY <1>2, <2>1, <3>1
  <2>2. CASE c[k]
    <3> DEFINE u == <<s[k]>>
    <3>1. Len(u) = 1 /\ u[1] = s[k]
      OBVIOUS
    <3>2. w[k] = u
      BY <1>2, <2>2
    <3> HIDE DEF u
    <3>3. \A j : j \in 1..Len(u) <=> j = 1
      BY <3>1
    <3>4. Elems(u) = {s[k]}
      BY <3>1, <3>3 DEF Elems
    <3> QED
      BY <2>2, <3>2, <3>4
  <2> QED
    BY <2>1, <2>2
<1>5. /\ FlattenSeq(w) \in Seq(A)
      /\ Elems(FlattenSeq(w)) = UNION {Elems(w[k]) : k \in 1..Len(w)}
  BY <1>3, FlattenElements
<1>6. ASSUME NEW x
      PROVE  x \in Elems(FlattenSeq(w)) <=> \E k \in 1..Len(s) : c[k] /\ x = s[k]
  <2>1. x \in Elems(FlattenSeq(w)) <=> \E k \in 1..Len(w) : x \in Elems(w[k])
    BY <1>5
  <2> QED
    BY <1>3, <1>4, <2>1
<1> QED
  BY <1>5, <1>6

LEMMA RecsFacts ==
    ASSUME NEW v, NEW inode, inode.fork \in Fork, inode.nextents \in Nat
    PROVE  /\ ReadExtents(inode) \in Seq(Rec) /\ RecsOf(v, inode) \in Seq(Rec)
           /\ Elems(RecsOf(v, inode)) \subseteq Elems(inode.fork.recs)
           /\ inode.format = "Extents" => RecsOf(v, inode) = ReadExtents(inode)
           /\ inode.format = "Btree" =>
                \A x : x \in Elems(RecsOf(v, inode)) <=>
                         \E k \in 1..Len(inode.fork.recs) :
                            BlockInImage(v, inode.fork.recs[k].leaf) /\ x = inode.fork.recs[k]
           /\ inode.format \notin {"Extents", "Btree"} => RecsOf(v, inode) = <<>>
<1> DEFINE s == inode.fork.recs
           n == IF inode.nextents <= Len(s) THEN inode.nextents ELSE Len(s)
           sub == SubSeq(s, 1, n)
           c == [k \in DOMAIN s |-> BlockInImage(v, s[k].leaf)]
           w == [k \in DOMAIN s |-> When(c[k], s[k])]
<1>1. s \in Seq(Rec)
  BY DEF Fork
<1>2. Len(s) \in Nat /\ n \in 0..Len(s)
  BY <1>1
<1>3. sub = ReadExtents(inode)
  BY DEF ReadExtents
<1>3a. [k \in DOMAIN s |-> When(BlockInImage(v, s[k].leaf), s[k])] = w
  OBVIOUS
<1>4. RecsOf(v, inode) = CASE inode.format = "Extents" -> sub
                           [] inode.format = "Btree" -> FlattenSeq(w)
                           [] OTHER -> <<>>
  BY <1>3, <1>3a, Zenon DEF RecsOf
<1>4a. \A k \in 1..Len(s) : c[k] <=> BlockInImage(v, s[k].leaf)
  BY <1>1
<1> HIDE DEF s, n, c
<1>5. \A i \in 1..n : s[i] \in Rec
  BY <1>1, <1>2
<1>6. sub \in Seq(Rec) /\ Len(sub) = n /\ \A i \in 1..n : sub[i] = s[i]
  <2>1. 1 \in Int /\ n \in Int /\ n - 1 + 1 = n
    BY <1>2
  <2>2. /\ sub \in Seq(Rec) /\ Len(sub) = IF 1 <= n THEN n - 1 + 1 ELSE 0
        /\ \A i \in 1..(n - 1 + 1) : sub[i] = s[1 + i - 1]
    BY <1>5, <2>1, SubSeqProperties
  <2>3. Len(sub) = n
    BY <1>2, <2>2
  <2>4. \A i \in 1..n : 1 + i - 1 = i
    OBVIOUS
  <2> QED
    BY <2>1, <2>2, <2>3, <2>4
<1> HIDE DEF sub
<1>7. Elems(sub) \subseteq Elems(s)
  <2>1. \A i \in 1..n : i \in 1..Len(s)
    BY <1>2
  <2> QED
    BY <1>6, <2>1 DEF Elems
<1>7a. /\ DOMAIN w = 1..Len(s) /\ w = [k \in DOMAIN w |-> w[k]]
       /\ \A k \in 1..Len(s) : w[k] = When(c[k], s[k])
  BY <1>1
<1> HIDE DEF w
<1>8. /\ FlattenSeq(w) \in Seq(Rec)
      /\ \A x : x \in Elems(FlattenSeq(w)) <=> \E k \in 1..Len(s) : c[k] /\ x = s[k]
  BY <1>1, <1>7a, KeptWhen
<1>9. Elems(FlattenSeq(w)) \subseteq Elems(s)
  BY <1>8 DEF Elems
<1>10. <<>> \in Seq(Rec) /\ Elems(<<>>) = {}
  BY DEF Elems
<1>11. CASE inode.format = "Extents"
  BY <1>3, <1>4, <1>6, <1>7, <1>11 DEF s
<1>12. CASE inode.format = "Btree"
  <2>1. RecsOf(v, inode) = FlattenSeq(w)
    BY <1>4, <1>12
  <2> QED
    BY <1>3, <1>4a, <1>6, <1>8, <1>9, <1>12, <2>1 DEF s
<1>13. CASE inode.format \notin {"Extents", "Btree"}
  <2>1. RecsOf(v, inode) = <<>>
    BY <1>4, <1>13
  <2> QED
    BY <1>3, <1>6, <1>10, <1>13, <2>1
<1> QED
  BY <1>11, <1>12, <1>13

(* The entries of one data block, and of one record's blocks.              *)
Listed(v, n) ==
    IF BlockInImage(v, n) /\ n \in DOMAIN v.blocks /\ v.blocks[n].magic = "data"
    THEN v.blocks[n].entries[HasFtype(v.sb)] ELSE <<>>
RunOf(v, rec) ==
    IF rec.startoff >= LeafBoundary THEN <<>>
    ELSE FlattenSeq([m \in 1..rec.blockcount |-> Listed(v, rec.startblock + m - 1)])

LEMMA FtypeType ==
    ASSUME NEW sb
    PROVE  HasFtype(sb) \in BOOLEAN
<1> DEFINE p == "FTYPE" \in sb.features_incompat
           q == "FTYPE" \in sb.features2
<1>1. p \in BOOLEAN /\ q \in BOOLEAN
  OBVIOUS
<1>2. HasFtype(sb) = IF IsV5(sb) THEN p ELSE q
  BY DEF HasFtype
<1> HIDE DEF p, q
<1> QED
  BY <1>1, <1>2

LEMMA ListedType ==
    ASSUME NEW v, Image(v), NEW n
    PROVE  /\ Listed(v, n) \in Seq(Entry)
           /\ n \in DOMAIN v.blocks => v.blocks[n].entries[HasFtype(v.sb)] \in Seq(Entry)
<1>1. HasFtype(v.sb) \in BOOLEAN
  BY FtypeType
<1>2. <<>> \in Seq(Entry)
  OBVIOUS
<1>3. ASSUME n \in DOMAIN v.blocks PROVE v.blocks[n].entries[HasFtype(v.sb)] \in Seq(Entry)
  <2>1. v.blocks[n] \in Content
    BY <1>3 DEF Image
  <2>2. v.blocks[n].entries \in [BOOLEAN -> Seq(Entry)]
    BY <2>1 DEF Content
  <2> QED
    BY <1>1, <2>2
<1> QED
  BY <1>2, <1>3 DEF Listed

LEMMA RunFacts ==
    ASSUME NEW v, Image(v), NEW rec \in Rec
    PROVE  /\ RunOf(v, rec) \in Seq(Entry)
           /\ \A e : e \in Elems(RunOf(v, rec)) <=>
                /\ ~(rec.startoff >= LeafBoundary)
                /\ \E m \in 1..rec.blockcount : e \in Elems(Listed(v, rec.startblock + m - 1))
<1> DEFINE n == rec.blockcount
           w == [m \in 1..n |-> Listed(v, rec.startblock + m - 1)]
<1>1. n \in Nat
  BY DEF Rec
<1>2. DOMAIN w = 1..n /\ \A m \in 1..n : w[m] = Listed(v, rec.startblock + m - 1)
  OBVIOUS
<1>3. \A m \in 1..n : w[m] \in Seq(Entry)
  BY <1>2, ListedType
<1>4. w \in Seq(Seq(Entry)) /\ Len(w) = n
  <2> HIDE DEF n
  <2> QED
    BY <1>1, <1>3
<1>5. RunOf(v, rec) = IF rec.startoff >= LeafBoundary THEN <<>> ELSE FlattenSeq(w)
  BY DEF RunOf
<1> HIDE DEF w, n
<1>6. FlattenSeq(w) \in Seq(Entry) /\ Elems(FlattenSeq(w)) = UNION {Elems(w[m]) : m \in 1..Len(w)}
  BY <1>4, FlattenElements
<1>7. \A e : e \in Elems(FlattenSeq(w)) <=> \E m \in 1..n : e \in Elems(Listed(v, rec.startblock + m - 1))
  BY <1>2, <1>4, <1>6
<1>8. <<>> \in Seq(Entry) /\ Elems(<<>>) = {}
  BY DEF Elems
<1> QED
  BY <1>5, <1>6, <1>7, <1>8 DEF n

LEMMA MultiblockFacts ==
    ASSUME NEW v, Image(v), NEW recs \in Seq(Rec)
    PROVE  /\ MultiblockDir(v, recs) \in Seq(Entry)
           /\ \A e : e \in Elems(MultiblockDir(v, recs)) <=>
                \E k \in 1..Len(recs) :
                    /\ ~(recs[k].startoff >= LeafBoundary)
                    /\ \E m \in 1..recs[k].blockcount :
                          e \in Elems(Listed(v, recs[k].startblock + m - 1))
<1> DEFINE w == [k \in DOMAIN recs |-> RunOf(v, recs[k])]
<1>1. DOMAIN recs = 1..Len(recs) /\ Len(recs) \in Nat /\ \A k \in 1..Len(recs) : recs[k] \in Rec
  OBVIOUS
<1>2. MultiblockDir(v, recs) = FlattenSeq(w)
  BY DEF MultiblockDir, RunOf, Listed
<1>3. DOMAIN w = 1..Len(recs) /\ \A k \in 1..Len(recs) : w[k] = RunOf(v, recs[k])
  BY <1>1
<1>4. \A k \in 1..Len(recs) : w[k] \in Seq(Entry)
  BY <1>1, <1>3, RunFacts
<1>5. w \in Seq(Seq(Entry)) /\ Len(w) = Len(recs)
  BY <1>1, <1>4
<1> HIDE DEF w
<1>6. FlattenSeq(w) \in Seq(Entry) /\ Elems(FlattenSeq(w)) = UNION {Elems(w[k]) : k \in 1..Len(w)}
  BY <1>5, FlattenElements
<1>7. \A k \in 1..Len(recs) : \A e : e \in Elems(w[k]) <=>
          /\ ~(recs[k].startoff >= LeafBoundary)
          /\ \E m \in 1..recs[k].blockcount : e \in Elems(Listed(v, recs[k].startblock + m - 1))
  BY <1>1, <1>3, RunFacts
<1>8. ASSUME NEW e
      PROVE  e \in Elems(FlattenSeq(w)) <=> \E k \in 1..Len(recs) : e \in Elems(w[k])
  BY <1>5, <1>6
<1>9. ASSUME NEW e
      PROVE  e \in Elems(FlattenSeq(w)) <=>
                \E k \in 1..Len(recs) :
                    /\ ~(recs[k].startoff >= LeafBoundary)
                    /\ \E m \in 1..recs[k].blockcount :
                          e \in Elems(Listed(v, recs[k].startblock + m - 1))
  BY <1>7, <1>8
<1> QED
  BY <1>2, <1>6, <1>9

LEMMA ListingType ==
    ASSUME NEW v, Image(v), NEW at, NEW inode, Decoded(v, at, inode), ReadDir(v, inode).err = "none"
    PROVE  ReadDir(v, inode).val \in Seq(Entry)
<1> DEFINE n == ReadFile(v, inode).val[1] \div Blocksize(v)
           ftype == HasFtype(v.sb)
<1>1. inode.fork \in Fork /\ inode.nextents \in Nat
  BY DEF Decoded
<1>2. inode.fork.short[ftype] \in Seq(Entry)
  <2>1. ftype \in BOOLEAN
    BY FtypeType
  <2>2. inode.fork.short \in [BOOLEAN -> Seq(Entry)]
    BY <1>1 DEF Fork
  <2> QED
    BY <2>1, <2>2
<1>3. BlockDir(v, inode).err = "none" =>
          n \in DOMAIN v.blocks /\ BlockDir(v, inode).val = v.blocks[n].entries[ftype]
  BY DEF BlockDir, Ok, Fail
<1>4. BlockDir(v, inode).err = "none" => BlockDir(v, inode).val \in Seq(Entry)
  BY <1>3, ListedType
<1>5. MultiblockDir(v, RecsOf(v, inode)) \in Seq(Entry)
  BY <1>1, RecsFacts, MultiblockFacts
<1>6. \/ ReadDir(v, inode) = Ok(inode.fork.short[ftype])
      \/ ReadDir(v, inode) = BlockDir(v, inode)
      \/ ReadDir(v, inode) = Ok(MultiblockDir(v, RecsOf(v, inode)))
      \/ ReadDir(v, inode) = Fail("UnsupportedDir")
  BY DEF ReadDir
<1> HIDE DEF ftype, n
<1> QED
  BY <1>2, <1>4, <1>5, <1>6 DEF Ok, Fail

LEMMA FirstFacts ==
    ASSUME NEW es \in Seq(Entry), NEW name, Named(es, name) # {}
    PROVE  /\ First(es, name) \in Elems(es) /\ First(es, name) \in Entry
           /\ First(es, name).name = name /\ First(es, name).inode \in Nat
<1> DEFINE T == Named(es, name)
           k == CHOOSE k \in T : \A l \in T : k <= l
<1>1. T \subseteq 1..Len(es) /\ T \subseteq Nat /\ T # {}
  BY DEF Named
<1>2. \E x \in T : \A y \in T : x <= y
  BY <1>1, LeastNumber
<1>3. k \in T
  BY <1>2
<1>4. First(es, name) = es[k]
  BY DEF First
<1> HIDE DEF k
<1>5. k \in 1..Len(es) /\ es[k].name = name
  BY <1>1, <1>3 DEF Named
<1>6. es[k] \in Entry
  BY <1>5
<1> QED
  BY <1>4, <1>5, <1>6 DEF Elems, Entry

-----------------------------------------------------------------------------
(* Paths.  Where a name leads from an inode: lookup asks no more than that *)
(* the inode can be listed, read_by_path that it is a directory beyond the *)
(* root.                                                                   *)
Child(v, n, name) ==
    LET dir == ReadInode(v, n)
        listing == ReadDir(v, dir.val)
    IN  IF dir.err = "none" /\ listing.err = "none" /\ Named(listing.val, name) # {}
        THEN {First(listing.val, name).inode} ELSE {}
StepOf(v, p, how, n, k) ==
    IF how = "lax" \/ k <= 1 \/ IsDir(ReadInode(v, n).val) THEN Child(v, n, p[k]) ELSE {}
Chain(f, v, p, how) ==
    f = [k \in 0..Len(p) |-> IF k = 0 THEN {v.sb.rootino}
                             ELSE UNION {StepOf(v, p, how, n, k) : n \in f[k - 1]}]
(* The inodes the first k names lead to: at most one.                      *)
Reach(v, p, how) == CHOOSE f : Chain(f, v, p, how)

LEMMA ChildFacts ==
    ASSUME NEW v, Image(v), NEW n \in Nat, NEW name
    PROVE  Child(v, n, name) \subseteq Nat /\ \A a, b \in Child(v, n, name) : a = b
<1> DEFINE dir == ReadInode(v, n)
           listing == ReadDir(v, dir.val)
<1>1. CASE dir.err = "none" /\ listing.err = "none" /\ Named(listing.val, name) # {}
  <2>1. Decoded(v, InodeToLocation(v.sb.geo, n), dir.val)
    BY <1>1, InodeFacts
  <2>2. listing.val \in Seq(Entry)
    BY <1>1, <2>1, ListingType
  <2>3. First(listing.val, name).inode \in Nat
    BY <1>1, <2>2, FirstFacts
  <2>4. Child(v, n, name) = {First(listing.val, name).inode}
    BY <1>1 DEF Child
  <2> QED
    BY <2>3, <2>4
<1>2. CASE ~(dir.err = "none" /\ listing.err = "none" /\ Named(listing.val, name) # {})
  <2>1. Child(v, n, name) = {}
    BY <1>2 DEF Child
  <2> QED
    BY <2>1
<1> QED
  BY <1>1, <1>2

LEMMA StepFacts ==
    ASSUME NEW v, Image(v), NEW p, NEW how, NEW n \in Nat, NEW k
    PROVE  /\ StepOf(v, p, how, n, k) \subseteq Nat
           /\ \A a, b \in StepOf(v, p, how, n, k) : a = b
           /\ StepOf(v, p, how, n, k) \subseteq Child(v, n, p[k])
           /\ how = "lax" => StepOf(v, p, how, n, k) = Child(v, n, p[k])
<1>1. StepOf(v, p, how, n, k) = Child(v, n, p[k]) \/ StepOf(v, p, how, n, k) = {}
  BY DEF StepOf
<1>2. how = "lax" => StepOf(v, p, how, n, k) = Child(v, n, p[k])
  BY DEF StepOf
<1> QED
  BY <1>1, <1>2, ChildFacts

LEMMA ChainExists ==
    ASSUME NEW v, NEW p \in Seq(STRING), NEW how
    PROVE  Chain(Reach(v, p, how), v, p, how)
<1> DEFINE N == Len(p)
           S(f, k) == UNION {StepOf(v, p, how, n, k) : n \in f}
           Is(f, m) == f = [k \in 0..m |-> IF k = 0 THEN {v.sb.rootino} ELSE S(f[k - 1], k)]
           T == {m \in Nat : \E f : Is(f, m)}
<1>1. N \in Nat
  OBVIOUS
<1> HIDE DEF S
<1>2. 0 \in T
  <2>1. Is([k \in 0..0 |-> {v.sb.rootino}], 0)
    OBVIOUS
  <2> QED
    BY <2>1
<1>3. ASSUME NEW m \in Nat, m \in T PROVE m + 1 \in T
  <2>1. PICK f : Is(f, m)
    BY <1>3
  <2> DEFINE g == [k \in 0..(m + 1) |-> IF k = m + 1 THEN S(f[m], m + 1) ELSE f[k]]
  <2>2. DOMAIN f = 0..m /\ \A k \in 0..m : f[k] = IF k = 0 THEN {v.sb.rootino} ELSE S(f[k - 1], k)
    BY <2>1
  <2>3. \A k \in 0..(m + 1) : g[k] = IF k = 0 THEN {v.sb.rootino} ELSE S(g[k - 1], k)
    <3> SUFFICES ASSUME NEW k \in 0..(m + 1)
                 PROVE  g[k] = IF k = 0 THEN {v.sb.rootino} ELSE S(g[k - 1], k)
      OBVIOUS
    <3>1. CASE k = m + 1
      <4>1. k # 0 /\ g[k - 1] = f[m] /\ g[k] = S(f[m], m + 1)
        BY <3>1
      <4> QED
        BY <3>1, <4>1
    <3>2. CASE k \in 0..m
      <4>1. k # 0 => g[k - 1] = f[k - 1]
        BY <3>2
      <4>2. g[k] = f[k]
        BY <3>2
      <4> QED
        BY <2>2, <3>2, <4>1, <4>2
    <3> QED
      BY <3>1, <3>2
  <2>4. Is(g, m + 1)
    BY <2>3
  <2> HIDE DEF g, Is
  <2> QED
    BY <2>4
<1>4. \E f : Is(f, N)
  <2> HIDE DEF T, Is
  <2>1. Nat \subseteq T
    BY <1>2, <1>3, Induction
  <2> QED
    BY <1>1, <2>1 DEF T
<1>5. \E f : Chain(f, v, p, how)
  BY <1>4 DEF Chain, S
<1> QED
  BY <1>5 DEF Reach

LEMMA ReachFacts ==
    ASSUME NEW v, Image(v), NEW p \in Seq(STRING), NEW how
    PROVE  LET R == Reach(v, p, how)
           IN  /\ R[0] = {v.sb.rootino}
               /\ \A k \in 1..Len(p) : R[k] = UNION {StepOf(v, p, how, n, k) : n \in R[k - 1]}
               /\ \A k \in 0..Len(p) : R[k] \subseteq Nat /\ \A a, b \in R[k] : a = b
<1> DEFINE R == Reach(v, p, how)
<1>0. Len(p) \in Nat
  OBVIOUS
<1>1a. Chain(R, v, p, how)
  BY ChainExists
<1> HIDE DEF R
<1>1. \A k \in 0..Len(p) : R[k] = IF k = 0 THEN {v.sb.rootino}
                                  ELSE UNION {StepOf(v, p, how, n, k) : n \in R[k - 1]}
  BY <1>1a DEF Chain
<1>2. R[0] = {v.sb.rootino}
  <2>1. ASSUME NEW k \in 0..Len(p), k = 0 PROVE R[k] = {v.sb.rootino}
    BY <1>1, <2>1
  <2>2. 0 \in 0..Len(p)
    BY <1>0
  <2> QED
    BY <2>1, <2>2
<1>3. ASSUME NEW k \in 1..Len(p) PROVE R[k] = UNION {StepOf(v, p, how, n, k) : n \in R[k - 1]}
  <2>1. k \in 0..Len(p) /\ k # 0
    OBVIOUS
  <2> QED
    BY <1>1, <2>1
<1> DEFINE U == {k \in Nat : k <= Len(p) => R[k] \subseteq Nat /\ \A a, b \in R[k] : a = b}
<1>4. 0 \in U
  <2>1. v.sb.rootino \in Nat
    BY DEF Image
  <2> QED
    BY <1>2, <2>1
<1>5. ASSUME NEW k \in Nat, k \in U PROVE k + 1 \in U
  <2> SUFFICES ASSUME k + 1 <= Len(p) PROVE R[k + 1] \subseteq Nat /\ \A a, b \in R[k + 1] : a = b
    OBVIOUS
  <2>1. k + 1 \in 1..Len(p) /\ (k + 1) - 1 = k /\ k <= Len(p)
    BY <1>0
  <2>2. R[k + 1] = UNION {StepOf(v, p, how, n, k + 1) : n \in R[k]}
    BY <1>3, <2>1
  <2>3. R[k] \subseteq Nat /\ \A a, b \in R[k] : a = b
    BY <1>5, <2>1
  <2>4. \A n \in R[k] : /\ StepOf(v, p, how, n, k + 1) \subseteq Nat
                        /\ \A a, b \in StepOf(v, p, how, n, k + 1) : a = b
    BY <2>3, StepFacts
  <2> QED
    BY <2>2, <2>3, <2>4
<1>6. \A k \in 0..Len(p) : R[k] \subseteq Nat /\ \A a, b \in R[k] : a = b
  <2> HIDE DEF U
  <2>1. Nat \subseteq U
    BY <1>4, <1>5, Induction
  <2> QED
    BY <2>1 DEF U
<1> QED
  BY <1>2, <1>3, <1>6 DEF R

(* From the only inode reached, on.                                        *)
LEMMA Onward ==
    ASSUME NEW v, Image(v), NEW p \in Seq(STRING), NEW how,
           NEW k \in 1..Len(p), NEW n \in Reach(v, p, how)[k - 1]
    PROVE  n \in Nat /\ Reach(v, p, how)[k] = StepOf(v, p, how, n, k)
<1> DEFINE R == Reach(v, p, how)
<1>1. k - 1 \in 0..Len(p)
  OBVIOUS
<1>2. R[k - 1] \subseteq Nat /\ \A a, b \in R[k - 1] : a = b
  BY <1>1, ReachFacts
<1>3. R[k] = UNION {StepOf(v, p, how, m, k) : m \in R[k - 1]}
  BY ReachFacts
<1> HIDE DEF R
<1>4. R[k - 1] = {n}
  BY <1>2 DEF R
<1> QED
  BY <1>2, <1>3, <1>4 DEF R

(* Once the chain is broken it leads nowhere.                              *)
LEMMA Broken ==
    ASSUME NEW v, Image(v), NEW p \in Seq(STRING), NEW how,
           NEW k \in 0..Len(p), Reach(v, p, how)[k] = {}
    PROVE  Reach(v, p, how)[Len(p)] = {}
<1> DEFINE R == Reach(v, p, how)
           U == {m \in Nat : k + m <= Len(p) => R[k + m] = {}}
<1>0. Len(p) \in Nat /\ k \in Nat
  OBVIOUS
<1>1. \A m \in 1..Len(p) : R[m] = UNION {StepOf(v, p, how, n, m) : n \in R[m - 1]}
  BY ReachFacts
<1>2. R[k] = {}
  OBVIOUS
<1> HIDE DEF R
<1>3. 0 \in U
  BY <1>0, <1>2
<1>4. ASSUME NEW m \in Nat, m \in U PROVE m + 1 \in U
  <2> SUFFICES ASSUME k + (m + 1) <= Len(p) PROVE R[k + (m + 1)] = {}
    OBVIOUS
  <2>1. k + (m + 1) \in 1..Len(p) /\ (k + (m + 1)) - 1 = k + m /\ k + m <= Len(p)
    BY <1>0
  <2>2. R[k + m] = {}
    BY <1>4, <2>1
  <2>3. R[k + (m + 1)] = UNION {StepOf(v, p, how, n, k + (m + 1)) : n \in R[k + m]}
    BY <1>1, <2>1
  <2> QED
    BY <2>2, <2>3
<1>5. Len(p) - k \in U
  <2> HIDE DEF U
  <2>1. Nat \subseteq U
    BY <1>3, <1>4, Induction
  <2> QED
    BY <1>0, <2>1
<1>6. k + (Len(p) - k) = Len(p)
  BY <1>0
<1> QED
  BY <1>5, <1>6 DEF R

(* What read_by_path reaches, lookup reaches.                              *)
LEMMA StrictInLax ==
    ASSUME NEW v, Image(v), NEW p \in Seq(STRING)
    PROVE  \A k \in 0..Len(p) : Reach(v, p, "strict")[k] \subseteq Reach(v, p, "lax")[k]
<1> DEFINE R == Reach(v, p, "strict")
           L == Reach(v, p, "lax")
           U == {k \in Nat : k <= Len(p) => R[k] \subseteq L[k]}
<1>0. Len(p) \in Nat
  OBVIOUS
<1>1. /\ R[0] = {v.sb.rootino}
      /\ \A k \in 1..Len(p) : R[k] = UNION {StepOf(v, p, "strict", n, k) : n \in R[k - 1]}
      /\ \A k \in 0..Len(p) : R[k] \subseteq Nat
  BY ReachFacts
<1>2. /\ L[0] = {v.sb.rootino}
      /\ \A k \in 1..Len(p) : L[k] = UNION {StepOf(v, p, "lax", n, k) : n \in L[k - 1]}
  BY ReachFacts
<1>3. \A n \in Nat, k \in Nat : StepOf(v, p, "strict", n, k) \subseteq StepOf(v, p, "lax", n, k)
  BY StepFacts
<1> HIDE DEF R, L
<1>4. 0 \in U
  BY <1>1, <1>2
<1>5. ASSUME NEW k \in Nat, k \in U PROVE k + 1 \in U
  <2> SUFFICES ASSUME k + 1 <= Len(p) PROVE R[k + 1] \subseteq L[k + 1]
    OBVIOUS
  <2>1. k + 1 \in 1..Len(p) /\ (k + 1) - 1 = k /\ k \in 0..Len(p)
    BY <1>0
  <2>2. R[k + 1] = UNION {StepOf(v, p, "strict", n, k + 1) : n \in R[k]}
    BY <1>1, <2>1
  <2>3. L[k + 1] = UNION {StepOf(v, p, "lax", n, k + 1) : n \in L[k]}
    BY <1>2, <2>1
  <2>4. R[k] \subseteq L[k] /\ R[k] \subseteq Nat
    BY <1>1, <1>5, <2>1
  <2>5. \A n \in R[k] : StepOf(v, p, "strict", n, k + 1) \subseteq StepOf(v, p, "lax", n, k + 1)
    BY <1>3, <2>4
  <2> QED
    BY <2>2, <2>3, <2>4, <2>5
<1>6. Nat \subseteq U
  <2> HIDE DEF U
  <2> QED
    BY <1>4, <1>5, Induction
<1> QED
  BY <1>6 DEF R, L

LEMMA TargetReached ==
    ASSUME Image(volume), path \in Seq(STRING)
    PROVE  Target = Reach(volume, path, "strict")[Len(path)]
<1> DEFINE R == Reach(volume, path, "strict")
           N == Len(path)
           Step(n, k) ==
             LET dir == ReadInode(volume, n)
             IN  IF /\ dir.err = "none" /\ (k > 1 => IsDir(dir.val))
                    /\ ReadDir(volume, dir.val).err = "none"
                    /\ \E m \in DOMAIN ReadDir(volume, dir.val).val :
                         ReadDir(volume, dir.val).val[m].name = path[k]
                 THEN {First(ReadDir(volume, dir.val).val, path[k]).inode} ELSE {}
           Is(f) == f = [k \in 0..N |-> IF k = 0 THEN {volume.sb.rootino}
                                        ELSE UNION {Step(n, k) : n \in f[k - 1]}]
           F == CHOOSE f : Is(f)
<1>0. N \in Nat
  OBVIOUS
<1>1. Target = F[N]
  BY DEF Target
<1>2. \A n, k : k \in 1..N => Step(n, k) = StepOf(volume, path, "strict", n, k)
  <2> SUFFICES ASSUME NEW n, NEW k \in 1..N PROVE Step(n, k) = StepOf(volume, path, "strict", n, k)
    OBVIOUS
  <2> DEFINE dir == ReadInode(volume, n)
             listing == ReadDir(volume, dir.val)
  <2>1. k > 1 <=> ~(k <= 1)
    BY <1>0
  <2>2. Named(listing.val, path[k]) # {} <=> \E m \in DOMAIN listing.val : listing.val[m].name = path[k]
    BY DEF Named
  <2>3. StepOf(volume, path, "strict", n, k) =
          IF ~(k > 1) \/ IsDir(dir.val) THEN Child(volume, n, path[k]) ELSE {}
    BY <2>1 DEF StepOf
  <2>4. Child(volume, n, path[k]) =
          IF dir.err = "none" /\ listing.err = "none" /\ Named(listing.val, path[k]) # {}
          THEN {First(listing.val, path[k]).inode} ELSE {}
    BY DEF Child
  <2>5. Step(n, k) =
          IF dir.err = "none" /\ (k > 1 => IsDir(dir.val)) /\ listing.err = "none"
               /\ Named(listing.val, path[k]) # {}
          THEN {First(listing.val, path[k]).inode} ELSE {}
    BY <2>2
  <2> HIDE DEF Step, dir, listing
  <2> QED
    BY <2>3, <2>4, <2>5
<1> HIDE DEF Step
<1>3. Chain(R, volume, path, "strict")
  BY ChainExists
<1>4. R = [k \in 0..N |-> R[k]] /\ \A k \in 0..N : R[k] =
         IF k = 0 THEN {volume.sb.rootino} ELSE UNION {StepOf(volume, path, "strict", n, k) : n \in R[k - 1]}
  <2> HIDE DEF R
  <2> QED
    BY <1>3 DEF Chain
<1> HIDE DEF R
<1>5. \A k \in 0..N : R[k] = IF k = 0 THEN {volume.sb.rootino} ELSE UNION {Step(n, k) : n \in R[k - 1]}
  <2> SUFFICES ASSUME NEW k \in 0..N, k # 0
               PROVE  UNION {StepOf(volume, path, "strict", n, k) : n \in R[k - 1]}
                        = UNION {Step(n, k) : n \in R[k - 1]}
    BY <1>4
  <2>1. k \in 1..N
    BY <1>0
  <2> QED
    BY <1>2, <2>1
<1>6. Is(R)
  BY <1>4, <1>5
<1>7. Is(F)
  <2> HIDE DEF Is
  <2> QED
    BY <1>6
<1> HIDE DEF F
<1>8. \A k \in 0..N : F[k] = IF k = 0 THEN {volume.sb.rootino} ELSE UNION {Step(n, k) : n \in F[k - 1]}
  BY <1>7
<1> HIDE DEF Is
<1> DEFINE U == {k \in Nat : k <= N => F[k] = R[k]}
<1>9. 0 \in U
  <2>1. ASSUME NEW k \in 0..N, k = 0 PROVE F[k] = R[k]
    BY <1>5, <1>8, <2>1
  <2>2. 0 \in 0..N
    BY <1>0
  <2> QED
    BY <2>1, <2>2
<1>10. ASSUME NEW k \in Nat, k \in U PROVE k + 1 \in U
  <2> SUFFICES ASSUME k + 1 <= N PROVE F[k + 1] = R[k + 1]
    OBVIOUS
  <2>1. k + 1 \in 0..N /\ k + 1 # 0 /\ (k + 1) - 1 = k /\ F[k] = R[k]
    BY <1>0, <1>10
  <2>2. F[k + 1] = UNION {Step(n, k + 1) : n \in F[(k + 1) - 1]}
    BY <1>8, <2>1
  <2>3. R[k + 1] = UNION {Step(n, k + 1) : n \in R[(k + 1) - 1]}
    BY <1>5, <2>1
  <2> QED
    BY <2>1, <2>2, <2>3
<1>11. F[N] = R[N]
  <2> HIDE DEF U
  <2>1. Nat \subseteq U
    BY <1>9, <1>10, Induction
  <2> QED
    BY <1>0, <2>1 DEF U
<1> QED
  BY <1>1, <1>11 DEF R

(* Where the first entry of a name leads, as the property says it. *)
LeadsTo(v, n, name) ==
    LET inode == ReadInode(v, n)
        entries == IF inode.err = "none" THEN ReadDir(v, inode.val).val ELSE <<>>
    IN  {entries[k].inode : k \in {j \in DOMAIN entries :
            /\ entries[j].name = name
            /\ \A i \in 1..(j - 1) : entries[i].name # name}}

LEMMA NoListing ==
    ASSUME NEW v, NEW inode, ReadDir(v, inode).err # "none"
    PROVE  ReadDir(v, inode).val = <<>>
<1>1. ReadFile(v, inode).err # "none" => ReadFile(v, inode).val = <<>>
  BY DEF ReadFile, Ok, Fail
<1>2. BlockDir(v, inode).err # "none" => BlockDir(v, inode).val = <<>>
  BY <1>1 DEF BlockDir, Ok, Fail
<1> QED
  BY <1>2 DEF ReadDir, Ok, Fail

LEMMA LeadsToChild ==
    ASSUME NEW v, Image(v), NEW n \in Nat, NEW name
    PROVE  LeadsTo(v, n, name) = Child(v, n, name)
<1> DEFINE dir == ReadInode(v, n)
           listing == ReadDir(v, dir.val)
           es == IF dir.err = "none" THEN listing.val ELSE <<>>
           T == Named(es, name)
           Firsts == {j \in DOMAIN es : es[j].name = name /\ \A i \in 1..(j - 1) : es[i].name # name}
<1>1. LeadsTo(v, n, name) = {es[k].inode : k \in Firsts}
  BY DEF LeadsTo
<1>2. Child(v, n, name) =
        IF dir.err = "none" /\ listing.err = "none" /\ Named(listing.val, name) # {}
        THEN {First(listing.val, name).inode} ELSE {}
  BY DEF Child
<1>3. CASE ~(dir.err = "none" /\ listing.err = "none")
  <2>1. es = <<>>
    BY <1>3, NoListing
  <2> HIDE DEF es, dir, listing
  <2>2. Firsts = {}
    BY <2>1
  <2> QED
    BY <1>1, <1>2, <1>3, <2>2
<1>4. CASE dir.err = "none" /\ listing.err = "none"
  <2>1. es = listing.val /\ es \in Seq(Entry)
    BY <1>4, InodeFacts, ListingType
  <2> HIDE DEF es, dir, listing
  <2>2. DOMAIN es = 1..Len(es) /\ Len(es) \in Nat
    BY <2>1
  <2>3. \A k : k \in T <=> k \in 1..Len(es) /\ es[k].name = name
    BY <2>2 DEF Named
  <2>4. CASE T = {}
    <3>1. Firsts = {}
      BY <2>2, <2>3, <2>4
    <3> QED
      BY <1>1, <1>2, <2>1, <2>4, <3>1
  <2>5. CASE T # {}
    <3> HIDE DEF T
    <3>1. T \subseteq Nat
      BY <2>2, <2>3
    <3>2. \E k \in T : \A l \in T : k <= l
      BY <2>5, <3>1, LeastNumber
    <3>3. PICK k : k = CHOOSE x \in T : \A l \in T : x <= l
      OBVIOUS
    <3>4. k \in T /\ \A l \in T : k <= l
      BY <3>2, <3>3
    <3>5. First(es, name) = es[k]
      BY <3>3 DEF First, T
    <3>6. ASSUME NEW j PROVE j \in Firsts <=> j = k
      <4>1. ASSUME j \in Firsts PROVE j = k
        <5>1. j \in T /\ j \in Nat /\ k \in Nat
          BY <2>2, <2>3, <3>1, <3>4, <4>1
        <5>2. k <= j
          BY <3>4, <5>1
        <5>3. k \in 1..(j - 1) => es[k].name # name
          BY <4>1
        <5>4. es[k].name = name /\ k \in 1..Len(es)
          BY <2>3, <3>4
        <5> QED
          BY <5>1, <5>2, <5>3, <5>4
      <4>2. k \in Firsts
        <5>1. k \in 1..Len(es) /\ es[k].name = name
          BY <2>3, <3>4
        <5>2. ASSUME NEW i \in 1..(k - 1) PROVE es[i].name # name
          <6>1. i \in 1..Len(es) /\ i < k
            BY <2>2, <5>1
          <6>2. i \notin T
            BY <2>2, <3>4, <5>1, <6>1
          <6> QED
            BY <2>3, <6>1, <6>2
        <5> QED
          BY <2>2, <5>1, <5>2
      <4> QED
        BY <4>1, <4>2
    <3> HIDE DEF Firsts
    <3>7. Firsts = {k}
      BY <3>6
    <3> QED
      BY <1>1, <1>2, <1>4, <2>1, <2>5, <3>5, <3>7 DEF T
  <2> QED
    BY <2>4, <2>5
<1> QED
  BY <1>3, <1>4

LEMMA WayReached ==
    ASSUME Image(volume), path \in Seq(STRING)
    PROVE  \A k \in 0..Len(path) : Way[k] = Reach(volume, path, "lax")[k]
<1> DEFINE R == Reach(volume, path, "lax")
           N == Len(path)
           Led(n, name) ==
             LET inode == ReadInode(volume, n)
                 entries == IF inode.err = "none" THEN ReadDir(volume, inode.val).val ELSE <<>>
             IN  {entries[k].inode : k \in {j \in DOMAIN entries :
                     /\ entries[j].name = name
                     /\ \A i \in 1..(j - 1) : entries[i].name # name}}
           Is(f) == f = [k \in 0..N |-> IF k = 0 THEN {volume.sb.rootino}
                                        ELSE UNION {Led(n, path[k]) : n \in f[k - 1]}]
           F == CHOOSE f : Is(f)
<1>0. N \in Nat
  OBVIOUS
<1>1. Way = F
  BY DEF Way
<1>2. \A n \in Nat : \A k : Led(n, path[k]) = StepOf(volume, path, "lax", n, k)
  <2>1. \A n, name : Led(n, name) = LeadsTo(volume, n, name)
    BY DEF LeadsTo
  <2> HIDE DEF Led
  <2>2. \A n \in Nat : \A k : LeadsTo(volume, n, path[k]) = Child(volume, n, path[k])
    BY LeadsToChild
  <2>3. \A n \in Nat : \A k : StepOf(volume, path, "lax", n, k) = Child(volume, n, path[k])
    BY DEF StepOf
  <2> QED
    BY <2>1, <2>2, <2>3
<1> HIDE DEF Led
<1>3. /\ R[0] = {volume.sb.rootino}
      /\ \A k \in 1..N : R[k] = UNION {StepOf(volume, path, "lax", n, k) : n \in R[k - 1]}
      /\ \A k \in 0..N : R[k] \subseteq Nat
  BY ReachFacts
<1>4. Chain(R, volume, path, "lax")
  BY ChainExists
<1>5. R = [k \in 0..N |-> R[k]]
  <2> HIDE DEF R
  <2> QED
    BY <1>4 DEF Chain
<1> HIDE DEF R
<1>6. \A k \in 0..N : R[k] = IF k = 0 THEN {volume.sb.rootino} ELSE UNION {Led(n, path[k]) : n \in R[k - 1]}
  <2> SUFFICES ASSUME NEW k \in 0..N, k # 0
               PROVE  R[k] = UNION {Led(n, path[k]) : n \in R[k - 1]}
    BY <1>3
  <2>1. k \in 1..N /\ k - 1 \in 0..N
    BY <1>0
  <2>2. R[k - 1] \subseteq Nat
    BY <1>3, <2>1
  <2>3. R[k] = UNION {StepOf(volume, path, "lax", n, k) : n \in R[k - 1]}
    BY <1>3, <2>1
  <2>4. \A n \in R[k - 1] : Led(n, path[k]) = StepOf(volume, path, "lax", n, k)
    BY <1>2, <2>2
  <2>5. {Led(n, path[k]) : n \in R[k - 1]} = {StepOf(volume, path, "lax", n, k) : n \in R[k - 1]}
    BY <2>4
  <2> QED
    BY <2>3, <2>5
<1>7. Is(R)
  BY <1>5, <1>6
<1>8. Is(F)
  <2> HIDE DEF Is
  <2> QED
    BY <1>7
<1> HIDE DEF F
<1>9. \A k \in 0..N : F[k] = IF k = 0 THEN {volume.sb.rootino} ELSE UNION {Led(n, path[k]) : n \in F[k - 1]}
  BY <1>8
<1> HIDE DEF Is
<1> DEFINE U == {k \in Nat : k <= N => F[k] = R[k]}
<1>10. 0 \in U
  <2>1. ASSUME NEW k \in 0..N, k = 0 PROVE F[k] = R[k]
    BY <1>6, <1>9, <2>1
  <2>2. 0 \in 0..N
    BY <1>0
  <2> QED
    BY <2>1, <2>2
<1>11. ASSUME NEW k \in Nat, k \in U PROVE k + 1 \in U
  <2> SUFFICES ASSUME k + 1 <= N PROVE F[k + 1] = R[k + 1]
    OBVIOUS
  <2>1. k + 1 \in 0..N /\ k + 1 # 0 /\ (k + 1) - 1 = k /\ F[k] = R[k]
    BY <1>0, <1>11
  <2>2. F[k + 1] = UNION {Led(n, path[k + 1]) : n \in F[(k + 1) - 1]}
    BY <1>9, <2>1
  <2>3. R[k + 1] = UNION {Led(n, path[k + 1]) : n \in R[(k + 1) - 1]}
    BY <1>6, <2>1
  <2> QED
    BY <2>1, <2>2, <2>3
<1>12. \A k \in 0..N : F[k] = R[k]
  <2> HIDE DEF U
  <2>1. Nat \subseteq U
    BY <1>10, <1>11, Induction
  <2> QED
    BY <1>0, <2>1 DEF U
<1> QED
  BY <1>1, <1>12 DEF R

(* Through directories only, both ways lead to the same inode.             *)
LEMMA SameThroughDirectories ==
    ASSUME NEW v, Image(v), NEW p \in Seq(STRING),
           \A k \in 1..(Len(p) - 1) : \A n \in Reach(v, p, "lax")[k] : IsDir(ReadInode(v, n).val)
    PROVE  Reach(v, p, "strict")[Len(p)] = Reach(v, p, "lax")[Len(p)]
<1> DEFINE R == Reach(v, p, "strict")
           L == Reach(v, p, "lax")
           U == {k \in Nat : k <= Len(p) => R[k] = L[k]}
<1>0. Len(p) \in Nat
  OBVIOUS
<1>1. /\ R[0] = {v.sb.rootino}
      /\ \A k \in 1..Len(p) : R[k] = UNION {StepOf(v, p, "strict", n, k) : n \in R[k - 1]}
  BY ReachFacts
<1>2. /\ L[0] = {v.sb.rootino}
      /\ \A k \in 1..Len(p) : L[k] = UNION {StepOf(v, p, "lax", n, k) : n \in L[k - 1]}
  BY ReachFacts
<1>3. \A k \in 1..(Len(p) - 1) : \A n \in L[k] : IsDir(ReadInode(v, n).val)
  OBVIOUS
<1> HIDE DEF R, L
<1>4. 0 \in U
  BY <1>1, <1>2
<1>5. ASSUME NEW k \in Nat, k \in U PROVE k + 1 \in U
  <2> SUFFICES ASSUME k + 1 <= Len(p) PROVE R[k + 1] = L[k + 1]
    OBVIOUS
  <2>1. k + 1 \in 1..Len(p) /\ (k + 1) - 1 = k /\ k <= Len(p) /\ (k + 1 <= 1 \/ k \in 1..(Len(p) - 1))
    BY <1>0
  <2>2. R[k + 1] = UNION {StepOf(v, p, "strict", n, k + 1) : n \in R[k]}
    BY <1>1, <2>1
  <2>3. L[k + 1] = UNION {StepOf(v, p, "lax", n, k + 1) : n \in L[k]}
    BY <1>2, <2>1
  <2>4. R[k] = L[k]
    BY <1>5, <2>1
  <2>5. \A n \in L[k] : StepOf(v, p, "strict", n, k + 1) = StepOf(v, p, "lax", n, k + 1)
    BY <1>3, <2>1 DEF StepOf
  <2>6. {StepOf(v, p, "strict", n, k + 1) : n \in L[k]} = {StepOf(v, p, "lax", n, k + 1) : n \in L[k]}
    BY <2>5
  <2> QED
    BY <2>2, <2>3, <2>4, <2>6
<1>6. Nat \subseteq U
  <2> HIDE DEF U
  <2> QED
    BY <1>4, <1>5, Induction
<1> QED
  BY <1>0, <1>6 DEF R, L

-----------------------------------------------------------------------------
(* read_by_path.  While it walks, the inode in hand is the one the names   *)
(* before idx lead to; when it has returned, an error other than not found *)
(* says that what lookup reaches, if anything, cannot be read.             *)
Readable(v, n) ==
    ReadInode(v, n).err = "none" /\ ReadFile(v, ReadInode(v, n).val).err = "none"
Walking(v, p, i, inode) ==
    /\ \E n \in Reach(v, p, "strict")[i - 1] :
          ReadInode(v, n).err = "none" /\ inode = ReadInode(v, n).val
    /\ i > 1 => IsDir(inode)
    /\ i <= Len(p) \/ p = <<>>
Outcome(v, p, r) ==
    /\ r.err = "none" =>
         /\ p # <<>>
         /\ \E n \in Reach(v, p, "strict")[Len(p)] :
               Readable(v, n) /\ r = ReadFile(v, ReadInode(v, n).val)
    /\ r.err = "PathNotFound" => p = <<>> \/ Reach(v, p, "strict")[Len(p)] = {}
    /\ r.err \notin {"none", "PathNotFound"} =>
         \A n \in Reach(v, p, "lax")[Len(p)] : ~Readable(v, n)

PathInv ==
    /\ volume \in Volumes /\ path \in Paths
    /\ pc \in {"called", "walking", "returned"} /\ idx \in 1..(Len(path) + 1)
    /\ pc = "called" => idx = 1
    /\ pc = "walking" => Walking(volume, path, idx, current)
    /\ pc = "returned" => Outcome(volume, path, result)

LEMMA PathTypes ==
    ASSUME volume \in Volumes, path \in Paths
    PROVE  Image(volume) /\ path \in Seq(STRING) /\ Len(path) \in Nat
<1>1. Image(volume) /\ path \in Seq(STRING)
  BY PathsAssumption
<1> QED
  BY <1>1

LEMMA PathInit0 == PathInit => PathInv
<1> SUFFICES ASSUME PathInit PROVE PathInv
  OBVIOUS
<1>1. volume \in Volumes /\ path \in Paths /\ pc = "called" /\ idx = 1
  BY DEF PathInit
<1>2. Len(path) \in Nat
  BY <1>1, PathTypes
<1> QED
  BY <1>1, <1>2 DEF PathInv

LEMMA Halt ==
    ASSUME PathInv, NEW r, Return(r), Outcome(volume, path, r)
    PROVE  PathInv'
<1>1. pc' = "returned" /\ result' = r /\ volume' = volume /\ path' = path /\ idx' = idx
  BY DEF Return
<1>2. Outcome(volume, path, result)'
  BY <1>1
<1> QED
  BY <1>1, <1>2 DEF PathInv

(* In the loop at component idx, from the inode n in hand.                 *)
LEMMA LoopFacts ==
    ASSUME PathInv, InLoop
    PROVE  \E n \in Nat :
             /\ n \in Reach(volume, path, "strict")[idx - 1]
             /\ n \in Reach(volume, path, "lax")[idx - 1]
             /\ Reach(volume, path, "strict")[idx] = Child(volume, n, path[idx])
             /\ Reach(volume, path, "lax")[idx] = Child(volume, n, path[idx])
             /\ Child(volume, n, path[idx]) =
                  IF /\ ReadDir(volume, current).err = "none"
                     /\ Named(ReadDir(volume, current).val, path[idx]) # {}
                  THEN {First(ReadDir(volume, current).val, path[idx]).inode} ELSE {}
             /\ idx \in 1..Len(path)
<1>1. Image(volume) /\ path \in Seq(STRING) /\ Len(path) \in Nat
  BY PathTypes DEF PathInv
<1>2. idx \in 1..Len(path) /\ Walking(volume, path, idx, current) /\ idx - 1 \in 0..Len(path)
  BY <1>1 DEF PathInv, InLoop
<1>3. PICK n \in Reach(volume, path, "strict")[idx - 1] :
          ReadInode(volume, n).err = "none" /\ current = ReadInode(volume, n).val
  BY <1>2 DEF Walking
<1>4. n \in Reach(volume, path, "lax")[idx - 1]
  BY <1>1, <1>2, <1>3, StrictInLax
<1>5. /\ n \in Nat
      /\ Reach(volume, path, "strict")[idx] = StepOf(volume, path, "strict", n, idx)
  BY <1>1, <1>2, Onward
<1>6. Reach(volume, path, "lax")[idx] = StepOf(volume, path, "lax", n, idx)
  BY <1>1, <1>2, <1>4, Onward
<1>7. /\ StepOf(volume, path, "strict", n, idx) = Child(volume, n, path[idx])
      /\ StepOf(volume, path, "lax", n, idx) = Child(volume, n, path[idx])
  <2>1. idx <= 1 \/ IsDir(ReadInode(volume, n).val)
    BY <1>2, <1>3 DEF Walking
  <2> QED
    BY <2>1 DEF StepOf
<1>8. Child(volume, n, path[idx]) =
        IF /\ ReadDir(volume, current).err = "none"
           /\ Named(ReadDir(volume, current).val, path[idx]) # {}
        THEN {First(ReadDir(volume, current).val, path[idx]).inode} ELSE {}
  BY <1>3 DEF Child
<1> QED
  BY <1>2, <1>3, <1>4, <1>5, <1>6, <1>7, <1>8

(* The component leads to m, or to nothing.                                *)
LEMMA LoopChildren ==
    ASSUME PathInv, InLoop
    PROVE  /\ idx \in 1..Len(path)
           /\ Children = {} =>
                /\ Reach(volume, path, "strict")[Len(path)] = {}
                /\ Reach(volume, path, "lax")[Len(path)] = {}
           /\ \A child \in Children : \E m \in Nat :
                /\ child = ReadInode(volume, m)
                /\ m \in Reach(volume, path, "strict")[idx] /\ m \in Reach(volume, path, "lax")[idx]
<1> DEFINE listing == ReadDir(volume, current)
           found == listing.err = "none" /\ Named(listing.val, path[idx]) # {}
           m == First(listing.val, path[idx]).inode
<1>1. Image(volume) /\ path \in Seq(STRING) /\ Len(path) \in Nat
  BY PathTypes DEF PathInv
<1>2. PICK n \in Nat :
             /\ Reach(volume, path, "strict")[idx] = Child(volume, n, path[idx])
             /\ Reach(volume, path, "lax")[idx] = Child(volume, n, path[idx])
             /\ Child(volume, n, path[idx]) = IF found THEN {m} ELSE {}
             /\ idx \in 1..Len(path)
  BY LoopFacts
<1>3. Children = IF found THEN {ReadInode(volume, m)} ELSE {}
  BY DEF Children, Listings
<1> HIDE DEF m, found
<1>4. CASE found
  <2>1. m \in Child(volume, n, path[idx]) /\ Child(volume, n, path[idx]) \subseteq Nat
    BY <1>1, <1>2, <1>4, ChildFacts
  <2>2. Children = {ReadInode(volume, m)} /\ Children # {}
    BY <1>3, <1>4
  <2> QED
    BY <1>2, <2>1, <2>2
<1>5. CASE ~found
  <2>1. Reach(volume, path, "strict")[idx] = {} /\ Reach(volume, path, "lax")[idx] = {}
    BY <1>2, <1>5
  <2>2. idx \in 0..Len(path) /\ Children = {}
    BY <1>2, <1>3, <1>5
  <2>3. Reach(volume, path, "strict")[Len(path)] = {}
    BY <1>1, <2>1, <2>2, Broken
  <2>4. Reach(volume, path, "lax")[Len(path)] = {}
    BY <1>1, <2>1, <2>2, Broken
  <2> QED
    BY <1>2, <2>2, <2>3, <2>4
<1> QED
  BY <1>4, <1>5

LEMMA Stuck ==
    ASSUME NEW v, Image(v), NEW p \in Seq(STRING), NEW how, NEW k \in 0..Len(p),
           NEW n \in Reach(v, p, how)[k], ReadInode(v, n).err # "none"
    PROVE  \A x \in Reach(v, p, how)[Len(p)] : ReadInode(v, x).err # "none"
<1>0. Len(p) \in Nat
  OBVIOUS
<1>1. CASE k = Len(p)
  <2>1. \A a, b \in Reach(v, p, how)[k] : a = b
    BY ReachFacts
  <2>2. \A x \in Reach(v, p, how)[k] : x = n
    BY <2>1
  <2> QED
    BY <1>1, <2>2
<1>2. CASE k # Len(p)
  <2>1. k + 1 \in 1..Len(p) /\ (k + 1) - 1 = k /\ k + 1 \in 0..Len(p)
    BY <1>0, <1>2
  <2>2. Reach(v, p, how)[k + 1] = StepOf(v, p, how, n, k + 1)
    BY <2>1, Onward
  <2>3. Child(v, n, p[k + 1]) = {}
    BY DEF Child
  <2>4. StepOf(v, p, how, n, k + 1) = {}
    BY <2>3 DEF StepOf
  <2>5. Reach(v, p, how)[Len(p)] = {}
    BY <2>1, <2>2, <2>4, Broken
  <2> QED
    BY <2>5
<1> QED
  BY <1>1, <1>2

LEMMA ReadRootInv == PathInv /\ ReadRoot => PathInv'
<1> SUFFICES ASSUME PathInv, ReadRoot PROVE PathInv'
  OBVIOUS
<1> DEFINE root == ReadInode(volume, volume.sb.rootino)
<1>1. Image(volume) /\ path \in Seq(STRING) /\ Len(path) \in Nat /\ pc = "called" /\ idx = 1
  BY PathTypes DEF PathInv, ReadRoot
<1>2. volume.sb.rootino \in Nat
  BY <1>1 DEF Image
<1>3. CASE root.err # "none"
  <2>1. Return(root)
    BY <1>3 DEF ReadRoot
  <2>2. root.err \in {"Truncated", "BadMagic"}
    BY <1>1, <1>2, <1>3, InodeFacts
  <2>3. volume.sb.rootino \in Reach(volume, path, "lax")[0] /\ 0 \in 0..Len(path)
    BY <1>1, ReachFacts
  <2>4. \A x \in Reach(volume, path, "lax")[Len(path)] : ReadInode(volume, x).err # "none"
    BY <1>1, <1>3, <2>3, Stuck
  <2>5. Outcome(volume, path, root)
    BY <2>2, <2>4 DEF Outcome, Readable
  <2> QED
    BY <2>1, <2>5, Halt
<1>4. CASE root.err = "none"
  <2>1. /\ pc' = "walking" /\ current' = root.val /\ idx' = 1
        /\ UNCHANGED <<volume, path, result>>
    BY <1>1, <1>4 DEF ReadRoot
  <2>2. volume.sb.rootino \in Reach(volume, path, "strict")[0]
    BY <1>1, ReachFacts
  <2>3. 1 <= Len(path) \/ path = <<>>
    BY <1>1
  <2>4. Walking(volume, path, idx', current')
    <3>1. idx' - 1 = 0
      BY <2>1
    <3> QED
      BY <1>4, <2>1, <2>2, <2>3, <3>1 DEF Walking
  <2>5. Walking(volume, path, idx, current)'
    BY <2>1, <2>4
  <2> QED
    BY <1>1, <2>1, <2>5 DEF PathInv
<1> QED
  BY <1>3, <1>4

LEMMA NoEntryInv == PathInv /\ NoEntry => PathInv'
<1> SUFFICES ASSUME PathInv, NoEntry PROVE PathInv'
  OBVIOUS
<1> DEFINE listing == ReadDir(volume, current)
           r == IF listing.err # "none" THEN listing ELSE Fail("PathNotFound")
<1>1. InLoop /\ Children = {} /\ Return(r)
  BY DEF NoEntry, Listings
<1>2. /\ Reach(volume, path, "strict")[Len(path)] = {}
      /\ Reach(volume, path, "lax")[Len(path)] = {}
  BY <1>1, LoopChildren
<1>3. r.err # "none"
  BY DEF Fail
<1>4. Outcome(volume, path, r)
  BY <1>2, <1>3 DEF Outcome
<1> QED
  BY <1>1, <1>4, Halt

LEMMA NoChildInv == PathInv /\ NoChild => PathInv'
<1> SUFFICES ASSUME PathInv, NoChild PROVE PathInv'
  OBVIOUS
<1>1. PICK child \in Children : child.err # "none" /\ Return(child)
  BY DEF NoChild
<1>2. InLoop
  BY DEF NoChild
<1>3. PICK m \in Nat : child = ReadInode(volume, m) /\ m \in Reach(volume, path, "lax")[idx]
  BY <1>1, <1>2, LoopChildren
<1>4. Image(volume) /\ path \in Seq(STRING) /\ Len(path) \in Nat /\ idx \in 0..Len(path)
  BY <1>2, PathTypes, LoopChildren DEF PathInv
<1>5. child.err \in {"Truncated", "BadMagic"}
  BY <1>1, <1>3, <1>4, InodeFacts
<1>6. \A x \in Reach(volume, path, "lax")[Len(path)] : ReadInode(volume, x).err # "none"
  BY <1>1, <1>3, <1>4, Stuck
<1>7. Outcome(volume, path, child)
  BY <1>5, <1>6 DEF Outcome, Readable
<1> QED
  BY <1>1, <1>7, Halt

LEMMA ReadLastInv == PathInv /\ ReadLast => PathInv'
<1> SUFFICES ASSUME PathInv, ReadLast PROVE PathInv'
  OBVIOUS
<1>1. PICK child \in Children : child.err = "none" /\ Return(ReadFile(volume, child.val))
  BY DEF ReadLast
<1> DEFINE r == ReadFile(volume, child.val)
<1>2. InLoop /\ idx = Len(path)
  BY DEF ReadLast, IsLast
<1>3. PICK m \in Nat :
        /\ child = ReadInode(volume, m)
        /\ m \in Reach(volume, path, "strict")[idx] /\ m \in Reach(volume, path, "lax")[idx]
  BY <1>1, <1>2, LoopChildren
<1>4. Image(volume) /\ path \in Seq(STRING) /\ Len(path) \in 1..Len(path) /\ path # <<>>
  BY <1>2, PathTypes, LoopChildren DEF PathInv
<1>5. r.err \in {"none", "Truncated"}
  BY ReadDirErrors
<1>6. \A a, b \in Reach(volume, path, "lax")[Len(path)] : a = b
  <2>1. Len(path) \in 0..Len(path)
    BY <1>4
  <2> QED
    BY <1>4, <2>1, ReachFacts
<1>7. Outcome(volume, path, r)
  <2>1. CASE r.err = "none"
    <3>1. Readable(volume, m) /\ r = ReadFile(volume, ReadInode(volume, m).val)
      BY <1>1, <1>3, <2>1 DEF Readable
    <3> HIDE DEF r
    <3> QED
      BY <1>2, <1>3, <1>4, <2>1, <3>1 DEF Outcome
  <2>2. CASE r.err = "Truncated"
    <3>1. ~Readable(volume, m)
      BY <1>3, <2>2 DEF Readable
    <3>2. \A n \in Reach(volume, path, "lax")[Len(path)] : n = m
      BY <1>2, <1>3, <1>6
    <3> HIDE DEF r
    <3> QED
      BY <2>2, <3>1, <3>2 DEF Outcome
  <2> QED
    BY <1>5, <2>1, <2>2
<1> QED
  BY <1>1, <1>7, Halt

LEMMA NotADirectoryInv == PathInv /\ NotADirectory => PathInv'
<1> SUFFICES ASSUME PathInv, NotADirectory PROVE PathInv'
  OBVIOUS
<1>1. PICK child \in Children : child.err = "none" /\ ~IsDir(child.val)
  BY DEF NotADirectory
<1>2. InLoop /\ idx # Len(path) /\ Return(Fail("PathNotFound"))
  BY DEF NotADirectory, IsLast
<1>3. PICK m \in Nat : child = ReadInode(volume, m) /\ m \in Reach(volume, path, "strict")[idx]
  BY <1>1, <1>2, LoopChildren
<1>4. Image(volume) /\ path \in Seq(STRING) /\ Len(path) \in Nat /\ idx \in 1..Len(path)
  BY <1>2, PathTypes, LoopChildren DEF PathInv
<1>5. idx + 1 \in 1..Len(path) /\ idx + 1 \in 0..Len(path) /\ (idx + 1) - 1 = idx /\ ~(idx + 1 <= 1)
  BY <1>2, <1>4
<1>6. Reach(volume, path, "strict")[idx + 1] = StepOf(volume, path, "strict", m, idx + 1)
  BY <1>3, <1>4, <1>5, Onward
<1>7. StepOf(volume, path, "strict", m, idx + 1) = {}
  BY <1>1, <1>3, <1>5 DEF StepOf
<1>8. Reach(volume, path, "strict")[Len(path)] = {}
  BY <1>4, <1>5, <1>6, <1>7, Broken
<1>9. Outcome(volume, path, Fail("PathNotFound"))
  BY <1>8 DEF Outcome, Fail
<1> QED
  BY <1>2, <1>9, Halt

LEMMA DescendInv == PathInv /\ Descend => PathInv'
<1> SUFFICES ASSUME PathInv, Descend PROVE PathInv'
  OBVIOUS
<1>1. PICK child \in Children : child.err = "none" /\ IsDir(child.val) /\ current' = child.val
  BY DEF Descend
<1>2. /\ InLoop /\ idx # Len(path) /\ idx' = idx + 1 /\ pc = "walking"
      /\ volume' = volume /\ path' = path /\ pc' = pc /\ result' = result
  BY DEF Descend, IsLast, InLoop
<1>3. PICK m \in Nat : child = ReadInode(volume, m) /\ m \in Reach(volume, path, "strict")[idx]
  BY <1>1, <1>2, LoopChildren
<1>4. Len(path) \in Nat /\ idx \in 1..Len(path)
  BY <1>2, PathTypes, LoopChildren DEF PathInv
<1>5. idx' \in 1..(Len(path) + 1) /\ idx' - 1 = idx /\ idx' <= Len(path)
  BY <1>2, <1>4
<1>6. Walking(volume, path, idx', current')
  BY <1>1, <1>3, <1>5 DEF Walking
<1>7. Walking(volume, path, idx, current)'
  BY <1>2, <1>6
<1> QED
  BY <1>2, <1>5, <1>7 DEF PathInv

LEMMA EmptyPathInv == PathInv /\ EmptyPath => PathInv'
<1> SUFFICES ASSUME PathInv, EmptyPath PROVE PathInv'
  OBVIOUS
<1>1. Len(path) \in Nat
  BY PathTypes DEF PathInv
<1>2. path = <<>> /\ Return(Fail("PathNotFound"))
  BY <1>1 DEF EmptyPath, PathInv, Walking
<1>3. Outcome(volume, path, Fail("PathNotFound"))
  BY <1>2 DEF Outcome, Fail
<1> QED
  BY <1>2, <1>3, Halt

LEMMA PathStays == PathInv /\ UNCHANGED pathVars => PathInv'
<1> SUFFICES ASSUME PathInv, UNCHANGED pathVars PROVE PathInv'
  OBVIOUS
<1>1. /\ volume' = volume /\ path' = path /\ pc' = pc /\ idx' = idx /\ current' = current
      /\ result' = result
  BY DEF pathVars
<1> QED
  BY <1>1 DEF PathInv

LEMMA PathNextInv == PathInv /\ [PathNext]_pathVars => PathInv'
  BY ReadRootInv, NoEntryInv, NoChildInv, ReadLastInv, NotADirectoryInv, DescendInv, EmptyPathInv,
     PathStays DEF PathNext

LEMMA StepsArePathSteps == [Next]_vars => [PathNext]_pathVars
<1> SUFFICES ASSUME [Next]_vars PROVE PathNext \/ UNCHANGED pathVars
  OBVIOUS
<1>1. Next \/ UNCHANGED vars
  OBVIOUS
<1> QED
  BY <1>1 DEF Next, PathStep, SessionStep, vars


LEMMA OutcomeNames == PathInv => PathNamesTheFile
<1> SUFFICES ASSUME PathInv, pc = "returned" PROVE PathNamesTheFile
  BY DEF PathNamesTheFile, PathReturned
<1> DEFINE R == Reach(volume, path, "strict")[Len(path)]
           L == Reach(volume, path, "lax")[Len(path)]
<1>1. Image(volume) /\ path \in Seq(STRING) /\ Len(path) \in Nat
  BY PathTypes DEF PathInv
<1>2. Outcome(volume, path, result)
  BY DEF PathInv
<1>3. Target = R
  BY <1>1, TargetReached
<1>4. R \subseteq L
  BY <1>1, StrictInLax
<1>5. /\ result.err = "none" => path # <<>> /\ \E n \in R :
            Readable(volume, n) /\ result = ReadFile(volume, ReadInode(volume, n).val)
      /\ result.err = "PathNotFound" => path = <<>> \/ R = {}
      /\ result.err \notin {"none", "PathNotFound"} => \A n \in L : ~Readable(volume, n)
  BY <1>2 DEF Outcome
<1> HIDE DEF R, L
<1>6. result.err = "none" <=> path # <<>> /\ \E n \in R : Readable(volume, n)
  BY <1>4, <1>5
<1>7. \A n : Readable(volume, n) <=>
        ReadInode(volume, n).err = "none" /\ ReadFile(volume, ReadInode(volume, n).val).err = "none"
  BY DEF Readable
<1> HIDE DEF ReadInode, ReadFile
<1> QED
  BY <1>3, <1>5, <1>6, <1>7 DEF PathNamesTheFile

LEMMA PathInvariant == Spec => []PathInv
<1>1. Init => PathInv
  BY PathInit0 DEF Init
<1>2. PathInv /\ [Next]_vars => PathInv'
  BY PathNextInv, StepsArePathSteps
<1> QED
  BY <1>1, <1>2, PTL DEF Spec

(* read_by_path returns the bytes of the inode its path leads to, and of   *)
(* no other, exactly when there is one that can be read: for every volume, *)
(* whatever its inodes and directories hold, and every path.               *)
THEOREM PathAlwaysNamesTheFile == Spec => []PathNamesTheFile
  BY PathInvariant, OutcomeNames, PTL


-----------------------------------------------------------------------------
(* The bytes of a file and of an attribute.                                *)
LEMMA SuppliesFacts ==
    ASSUME NEW bs \in Nat, NEW len \in Nat, NEW size \in Nat, NEW rec \in Rec,
           NEW i \in 0..(size - 1), Supplies(bs, len, size, rec, i)
    PROVE  /\ Position(bs, rec, i) \in 0..(len - 1)
           /\ rec.startblock * bs \in Nat /\ rec.blockcount * bs \in Nat
           /\ Position(bs, rec, i) - rec.startblock * bs \in 0..(rec.blockcount * bs - 1)
<1> DEFINE A == rec.startoff * bs
           B == rec.startblock * bs
           C == rec.blockcount * bs
           E == (rec.startoff + rec.blockcount) * bs
<1>1. A \in Nat /\ B \in Nat /\ C \in Nat /\ E \in Nat /\ E = A + C
  BY DEF Rec
<1>2. A <= i /\ i < E
  BY DEF Supplies, Within
<1>3. B + ((IF E <= size THEN E ELSE size) - 1 - A) < len
  BY DEF Supplies, Position
<1>4. Position(bs, rec, i) = B + (i - A)
  BY DEF Position
<1> HIDE DEF A, B, C, E
<1>5. B + (i - A) \in 0..(len - 1) /\ (B + (i - A)) - B \in 0..(C - 1)
  BY <1>1, <1>2, <1>3
<1> QED
  BY <1>1, <1>4, <1>5 DEF B, C

LEMMA ByteFacts ==
    ASSUME NEW bs \in Nat, NEW len \in Nat, NEW size \in Nat, NEW recs \in Seq(Rec),
           NEW i \in 0..(size - 1)
    PROVE  LET byte == FileByte(bs, len, size, recs, i)
           IN  /\ byte \in {Hole} \cup 0..(len - 1)
               /\ byte # Hole => \E rec \in Elems(recs) :
                    Supplies(bs, len, size, rec, i) /\ byte = Position(bs, rec, i)
               /\ (\E rec \in Elems(recs) : Supplies(bs, len, size, rec, i)) => byte # Hole
<1> DEFINE S == {k \in DOMAIN recs : Supplies(bs, len, size, recs[k], i)}
           last == CHOOSE k \in S : \A l \in S : l <= k
           byte == FileByte(bs, len, size, recs, i)
<1>1. byte = IF S = {} THEN Hole ELSE Position(bs, recs[last], i)
  BY DEF FileByte
<1>2. /\ Len(recs) \in Nat /\ DOMAIN recs = 1..Len(recs)
      /\ \A k \in 1..Len(recs) : recs[k] \in Rec /\ recs[k] \in Elems(recs)
  BY DEF Elems
<1>3. S \subseteq 1..Len(recs) /\ \A k \in S : Supplies(bs, len, size, recs[k], i)
  BY <1>2
<1>4. (\E rec \in Elems(recs) : Supplies(bs, len, size, rec, i)) => S # {}
  BY <1>2 DEF Elems
<1>5. S # {} => last \in S
  <2> HIDE DEF S
  <2>1. S # {} => \E x \in S : \A y \in S : y <= x
    BY <1>2, <1>3, Greatest
  <2> QED
    BY <2>1
<1> HIDE DEF S, last, byte
<1>6. CASE S = {}
  <2>1. byte = Hole
    BY <1>1, <1>6
  <2> QED
    BY <1>4, <1>6, <2>1 DEF byte
<1>7. CASE S # {}
  <2>1. byte = Position(bs, recs[last], i) /\ recs[last] \in Rec /\ recs[last] \in Elems(recs)
        /\ Supplies(bs, len, size, recs[last], i)
    BY <1>1, <1>2, <1>3, <1>5, <1>7
  <2>2. byte \in 0..(len - 1)
    BY <2>1, SuppliesFacts
  <2>3. byte # Hole
    BY <2>2 DEF Hole
  <2> QED
    BY <2>1, <2>2, <2>3 DEF byte
<1> QED
  BY <1>6, <1>7

(* What a byte of an image is.                                             *)
Bytes(v) == {Hole} \cup 0..(v.len - 1)

LEMMA FileFacts ==
    ASSUME NEW v, Image(v), NEW at, NEW inode, Decoded(v, at, inode), ReadFile(v, inode).err = "none"
    PROVE  LET file == ReadFile(v, inode).val
           IN  /\ file \in Seq(Bytes(v)) /\ Len(file) = inode.size /\ inode.size <= v.len
               /\ \A i \in 1..inode.size :
                    file[i] = FileByte(Blocksize(v), v.len, inode.size, RecsOf(v, inode), i - 1)
<1> DEFINE Byte(i) == FileByte(Blocksize(v), v.len, inode.size, RecsOf(v, inode), i - 1)
           file == [i \in 1..inode.size |-> Byte(i)]
<1>1. ~(inode.size > v.len) /\ ReadFile(v, inode).val = file
  BY DEF ReadFile, Ok, Fail
<1>2. inode.size \in Nat /\ v.len \in Nat /\ Blocksize(v) \in Nat
  BY U64Assumption DEF Decoded, Image, AnyGeometry, Blocksize
<1>3. RecsOf(v, inode) \in Seq(Rec)
  BY RecsFacts DEF Decoded
<1>4. \A i \in 1..inode.size : Byte(i) \in Bytes(v)
  <2> SUFFICES ASSUME NEW i \in 1..inode.size PROVE Byte(i) \in Bytes(v)
    OBVIOUS
  <2>1. i - 1 \in 0..(inode.size - 1)
    BY <1>2
  <2> QED
    BY <1>2, <1>3, <2>1, ByteFacts DEF Bytes
<1> HIDE DEF Byte
<1>5. file \in Seq(Bytes(v)) /\ Len(file) = inode.size /\ \A i \in 1..inode.size : file[i] = Byte(i)
  BY <1>2, <1>4
<1> QED
  BY <1>1, <1>2, <1>5 DEF Byte


MappedBy(v, count, rec, n) == rec <= count /\ BlockInImage(v, n)
ValueOf(v, inode, a) ==
    IF a.storage = "LeafRemote" /\ ~MappedBy(v, inode.aextents, a.vrec, a.at \div Blocksize(v))
    THEN <<>> ELSE [i \in 1..a.size |-> a.at + i - 1]
HeldBy(v, inode, a) ==
    IF inode.aformat = 1 THEN a.storage = "Shortform"
    ELSE a.storage # "Shortform" /\ MappedBy(v, inode.aextents, a.rec, a.leaf)

LEMMA ValueFacts ==
    ASSUME NEW v, Image(v), NEW at, NEW inode, Decoded(v, at, inode),
           NEW a \in Attr, InPlace(v.sb.geo, at, a), HeldBy(v, inode, a)
    PROVE  ValueOf(v, inode, a) \in Seq(Bytes(v)) /\ Len(ValueOf(v, inode, a)) <= v.len
<1> DEFINE bs == Blocksize(v)
           L == (a.leaf + 1) * bs
           R == (a.at \div bs + 1) * bs
           val == [i \in 1..a.size |-> a.at + i - 1]
<1>1. /\ v.len \in Nat /\ bs = v.sb.geo.blocksize /\ v.sb.geo.inodesize \in Nat
      /\ a.at \in Nat /\ a.size \in Nat /\ at \in Nat /\ at + v.sb.geo.inodesize <= v.len
  BY U64Assumption DEF Decoded, Image, AnyGeometry, Blocksize, Attr
<1>2. BlockInImage(v, a.leaf) <=> L <= v.len
  BY DEF BlockInImage
<1>3. BlockInImage(v, a.at \div bs) <=> R <= v.len
  BY DEF BlockInImage
<1>4. \/ a.storage = "Shortform" /\ a.at + a.size <= at + v.sb.geo.inodesize
      \/ a.storage = "LeafLocal" /\ a.at + a.size <= L
      \/ a.storage = "LeafRemote" /\ a.at + a.size <= R
  BY DEF InPlace, Attr, Blocksize
<1>5. a.storage = "Shortform" \/ BlockInImage(v, a.leaf)
  BY DEF HeldBy, MappedBy
<1>6. \/ ValueOf(v, inode, a) = <<>>
      \/ ValueOf(v, inode, a) = val /\ (a.storage = "LeafRemote" => BlockInImage(v, a.at \div bs))
  BY DEF ValueOf, MappedBy
<1>7. L \in Int /\ R \in Int
  <2>1. bs \in Nat \ {0} /\ a.leaf \in Nat
    BY DEF Image, AnyGeometry, Blocksize, Attr
  <2>2. a.at \div bs \in Nat
    BY <1>1, <2>1, Division
  <2> HIDE DEF bs
  <2> QED
    BY <2>1, <2>2
<1> HIDE DEF L, R, bs
<1>8. (a.storage = "LeafRemote" => BlockInImage(v, a.at \div bs)) => a.at + a.size <= v.len
  BY <1>1, <1>2, <1>3, <1>4, <1>5, <1>7
<1>9. ASSUME a.at + a.size <= v.len PROVE val \in Seq(Bytes(v)) /\ Len(val) <= v.len
  <2>1. \A i \in 1..a.size : a.at + i - 1 \in Bytes(v)
    BY <1>1, <1>9 DEF Bytes
  <2>2. val \in Seq(Bytes(v)) /\ Len(val) = a.size
    BY <1>1, <2>1
  <2> QED
    BY <1>1, <1>9, <2>2
<1>10. <<>> \in Seq(Bytes(v)) /\ Len(<<>>) <= v.len
  BY <1>1
<1> HIDE DEF val
<1> QED
  BY <1>6, <1>8, <1>9, <1>10

(* The attribute listed as `item' is `a'. *)
Lists(v, inode, a, item) == item.storage = a.storage /\ item.value = ValueOf(v, inode, a)

LEMMA AttrsFacts ==
    ASSUME NEW v, Image(v), NEW at, NEW inode, Decoded(v, at, inode), ListXattrs(v, inode).err = "none"
    PROVE  LET attrs == ListXattrs(v, inode).val
           IN  /\ Len(attrs) \in Nat /\ DOMAIN attrs = 1..Len(attrs)
               /\ \A k \in 1..Len(attrs) :
                    attrs[k].value \in Seq(Bytes(v)) /\ Len(attrs[k].value) <= v.len
               /\ inode.forkoff # 0 /\ inode.aformat = 2 =>
                    /\ \A j \in DOMAIN inode.fork.attrs : HeldBy(v, inode, inode.fork.attrs[j]) =>
                         \E k \in 1..Len(attrs) : Lists(v, inode, inode.fork.attrs[j], attrs[k])
                    /\ \A k \in 1..Len(attrs) : \E j \in DOMAIN inode.fork.attrs :
                         /\ HeldBy(v, inode, inode.fork.attrs[j])
                         /\ Lists(v, inode, inode.fork.attrs[j], attrs[k])
<1> DEFINE s == inode.fork.attrs
           c == [k \in DOMAIN s |-> HeldBy(v, inode, s[k])]
           w == [k \in DOMAIN s |-> When(HeldBy(v, inode, s[k]), s[k])]
           kept == FlattenSeq(w)
           attrs == [k \in DOMAIN kept |-> [storage |-> kept[k].storage, value |-> ValueOf(v, inode, kept[k])]]
<1>1. s \in Seq(Attr) /\ \A k \in DOMAIN s : InPlace(v.sb.geo, at, s[k])
  BY DEF Decoded, Fork
<1>2. Len(s) \in Nat /\ DOMAIN s = 1..Len(s) /\ \A k \in 1..Len(s) : s[k] \in Attr
  BY <1>1
<1>3. /\ ListXattrs(v, inode).val = <<>> \/ ListXattrs(v, inode).val = attrs
      /\ inode.forkoff # 0 /\ inode.aformat = 2 => ListXattrs(v, inode).val = attrs
  <2>1. ListXattrs(v, inode) =
          CASE inode.forkoff = 0 \/ inode.aformat = 0 -> Ok(<<>>)
            [] inode.forkoff # 0 /\ inode.aformat \in 1..2 -> Ok(attrs)
            [] OTHER -> Fail("UnsupportedAttrFork")
    BY Zenon DEF ListXattrs, ValueOf, HeldBy, MappedBy
  <2> HIDE DEF attrs
  <2> QED
    BY <2>1 DEF Ok, Fail
<1>4. /\ DOMAIN w = 1..Len(s) /\ w = [k \in DOMAIN w |-> w[k]]
      /\ \A k \in 1..Len(s) : w[k] = When(c[k], s[k])
  BY <1>2
<1>5. \A k \in 1..Len(s) : c[k] <=> HeldBy(v, inode, s[k])
  BY <1>2
<1> HIDE DEF c, w, s
<1>6. kept \in Seq(Attr) /\ \A x : x \in Elems(kept) <=> \E k \in 1..Len(s) : c[k] /\ x = s[k]
  BY <1>1, <1>4, KeptWhen
<1> HIDE DEF kept
<1>7. Len(kept) \in Nat /\ DOMAIN kept = 1..Len(kept)
  BY <1>6
<1>8. ASSUME NEW k \in 1..Len(kept)
      PROVE  ValueOf(v, inode, kept[k]) \in Seq(Bytes(v)) /\ Len(ValueOf(v, inode, kept[k])) <= v.len
  <2>1. kept[k] \in Elems(kept)
    BY DEF Elems
  <2>2. PICK j \in 1..Len(s) : c[j] /\ kept[k] = s[j]
    BY <1>6, <2>1
  <2> QED
    BY <1>1, <1>2, <1>5, <2>2, ValueFacts
<1> DEFINE Both(list) ==
             /\ \A j \in DOMAIN s : HeldBy(v, inode, s[j]) =>
                  \E k \in 1..Len(list) : Lists(v, inode, s[j], list[k])
             /\ \A k \in 1..Len(list) : \E j \in DOMAIN s :
                  HeldBy(v, inode, s[j]) /\ Lists(v, inode, s[j], list[k])
<1>9. CASE ListXattrs(v, inode).val = <<>> /\ ListXattrs(v, inode).val # attrs
  <2> HIDE DEF attrs, Both
  <2> QED
    BY <1>3, <1>9 DEF s
<1>10. CASE ListXattrs(v, inode).val = attrs
  <2>1. Len(attrs) = Len(kept) /\ DOMAIN attrs = 1..Len(kept)
    BY <1>7
  <2>2. \A k \in 1..Len(kept) : attrs[k].value = ValueOf(v, inode, kept[k]) /\ attrs[k].storage = kept[k].storage
    BY <1>7
  <2> HIDE DEF attrs
  <2>3. ASSUME NEW j \in DOMAIN s, HeldBy(v, inode, s[j])
        PROVE  \E k \in 1..Len(attrs) : Lists(v, inode, s[j], attrs[k])
    <3>1. s[j] \in Elems(kept)
      BY <1>2, <1>5, <1>6, <2>3
    <3>2. PICK k \in 1..Len(kept) : kept[k] = s[j]
      BY <3>1 DEF Elems
    <3> QED
      BY <2>1, <2>2, <3>2 DEF Lists
  <2>4. ASSUME NEW k \in 1..Len(attrs)
        PROVE  \E j \in DOMAIN s : HeldBy(v, inode, s[j]) /\ Lists(v, inode, s[j], attrs[k])
    <3>1. kept[k] \in Elems(kept)
      BY <2>1 DEF Elems
    <3>2. PICK j \in 1..Len(s) : c[j] /\ kept[k] = s[j]
      BY <1>6, <3>1
    <3> QED
      BY <1>2, <1>5, <2>1, <2>2, <3>2 DEF Lists
  <2>5. Both(attrs)
    BY <2>3, <2>4
  <2> HIDE DEF Both
  <2>6. Both(ListXattrs(v, inode).val)
    BY <1>10, <2>5
  <2> QED
    BY <1>7, <1>8, <1>10, <2>1, <2>2, <2>6 DEF Both, s
<1> QED
  BY <1>3, <1>9, <1>10


-----------------------------------------------------------------------------
(* What a stream holds; a window is cut out of it.                         *)
Stream(v, inode, id) ==
    LET attrs == ListXattrs(v, inode)
    IN  CASE id[1] = "Xattr" ->
                IF attrs.err # "none" THEN attrs
                ELSE IF id[2] >= Len(attrs.val) THEN Fail("Unsupported")
                ELSE Ok(attrs.val[id[2] + 1].value)
          [] id[1] = "Default" -> ReadFile(v, inode)
          [] OTHER -> Fail("Unsupported")
IdOf(list, k) ==
    CASE k = 0 -> <<"Slack">> [] k = 1 -> <<"Default">> [] OTHER -> list.val[k].id

LEMMA StreamFacts ==
    ASSUME NEW v, Image(v), NEW at, NEW inode, Decoded(v, at, inode),
           NEW id, id[1] = "Xattr" => id[2] \in Nat
    PROVE  LET s == Stream(v, inode, id)
           IN  /\ s.err # "none" => s.val = <<>>
               /\ s.err = "none" => s.val \in Seq(Bytes(v)) /\ Len(s.val) <= v.len
<1> DEFINE s == Stream(v, inode, id)
           attrs == ListXattrs(v, inode)
           file == ReadFile(v, inode)
<1>1. /\ attrs.err # "none" => attrs.val = <<>>
      /\ file.err # "none" => file.val = <<>>
  BY DEF ListXattrs, ReadFile, Ok, Fail
<1>2. attrs.err = "none" =>
        /\ Len(attrs.val) \in Nat
        /\ \A k \in 1..Len(attrs.val) :
             attrs.val[k].value \in Seq(Bytes(v)) /\ Len(attrs.val[k].value) <= v.len
  BY AttrsFacts
<1>3. file.err = "none" => file.val \in Seq(Bytes(v)) /\ Len(file.val) <= v.len
  BY FileFacts
<1>4. s = CASE id[1] = "Xattr" ->
                IF attrs.err # "none" THEN attrs
                ELSE IF id[2] >= Len(attrs.val) THEN Fail("Unsupported")
                ELSE Ok(attrs.val[id[2] + 1].value)
            [] id[1] = "Default" -> file
            [] OTHER -> Fail("Unsupported")
  BY DEF Stream
<1> HIDE DEF s, attrs, file
<1>5. CASE id[1] = "Xattr" /\ attrs.err = "none" /\ ~(id[2] >= Len(attrs.val))
  <2>1. id[2] + 1 \in 1..Len(attrs.val)
    BY <1>2, <1>5
  <2>2. s = Ok(attrs.val[id[2] + 1].value)
    BY <1>4, <1>5
  <2> QED
    BY <1>2, <1>5, <2>1, <2>2 DEF Ok, s
<1>6. CASE id[1] = "Xattr" /\ attrs.err # "none"
  BY <1>1, <1>4, <1>6 DEF s
<1>7. CASE id[1] = "Xattr" /\ attrs.err = "none" /\ id[2] >= Len(attrs.val)
  BY <1>4, <1>7 DEF s, Fail
<1>8. CASE id[1] = "Default"
  BY <1>1, <1>3, <1>4, <1>8 DEF s
<1>9. CASE id[1] \notin {"Xattr", "Default"}
  BY <1>4, <1>9 DEF s, Fail
<1> QED
  BY <1>5, <1>6, <1>7, <1>8, <1>9

LEMMA ReadAtFacts ==
    ASSUME NEW inode, NEW id, NEW start, NEW len
    PROVE  ReadAt(inode, id, start, len) =
             IF Stream(image, inode, id).err # "none" THEN Stream(image, inode, id)
             ELSE Ok(Window(Stream(image, inode, id).val, start, len))
<1> DEFINE attrs == ListXattrs(image, inode)
           file == ReadFile(image, inode)
<1> HIDE DEF attrs, file
<1>1. Stream(image, inode, id) =
        CASE id[1] = "Xattr" ->
                IF attrs.err # "none" THEN attrs
                ELSE IF id[2] >= Len(attrs.val) THEN Fail("Unsupported")
                ELSE Ok(attrs.val[id[2] + 1].value)
          [] id[1] = "Default" -> file
          [] OTHER -> Fail("Unsupported")
  BY DEF Stream, attrs, file
<1>2. ReadAt(inode, id, start, len) =
        CASE id[1] = "Xattr" ->
                IF attrs.err # "none" THEN attrs
                ELSE IF id[2] >= Len(attrs.val) THEN Fail("Unsupported")
                ELSE Ok(Window(attrs.val[id[2] + 1].value, start, len))
          [] id[1] = "Default" ->
                IF file.err # "none" THEN file ELSE Ok(Window(file.val, start, len))
          [] OTHER -> Fail("Unsupported")
  BY DEF ReadAt, attrs, file
<1> QED
  BY <1>1, <1>2 DEF Ok, Fail

(* The list of streams: the data, then one for every attribute.            *)
LEMMA StreamsFacts ==
    ASSUME Image(image), NEW at, NEW inode, Decoded(image, at, inode)
    PROVE  LET attrs == ListXattrs(image, inode)
               list == StreamsOf(inode)
           IN  /\ list.err = attrs.err
               /\ list.err = "none" =>
                    /\ Len(list.val) = Len(attrs.val) + 1 /\ DOMAIN list.val = 1..(Len(attrs.val) + 1)
                    /\ list.val[1].size = inode.size
                    /\ \A k \in 2..(Len(attrs.val) + 1) :
                         /\ list.val[k].id = <<"Xattr", StreamId(k - 1)>>
                         /\ list.val[k].size = Len(attrs.val[k - 1].value)
                         /\ list.val[k].resident = (attrs.val[k - 1].storage # "LeafRemote")
<1> DEFINE attrs == ListXattrs(image, inode)
           Info(k) == [id |-> <<"Xattr", StreamId(k)>>, size |-> Len(attrs.val[k].value),
                       resident |-> attrs.val[k].storage # "LeafRemote"]
           data == [id |-> <<"Default">>, size |-> inode.size, resident |-> FALSE]
           infos == [k \in DOMAIN attrs.val |-> Info(k)]
           one == <<data>>
           all == one \o infos
<1>1. StreamsOf(inode) = IF attrs.err # "none" THEN attrs ELSE Ok(all)
  BY DEF StreamsOf
<1>2. CASE attrs.err # "none"
  BY <1>1, <1>2
<1>3. CASE attrs.err = "none"
  <2>1. Len(attrs.val) \in Nat /\ DOMAIN attrs.val = 1..Len(attrs.val)
    BY <1>3, AttrsFacts
  <2>2. DOMAIN infos = 1..Len(attrs.val) /\ \A k \in 1..Len(attrs.val) : infos[k] = Info(k)
    BY <2>1
  <2>3. \A k : /\ Info(k).id = <<"Xattr", StreamId(k)>> /\ Info(k).size = Len(attrs.val[k].value)
               /\ Info(k).resident = (attrs.val[k].storage # "LeafRemote")
    OBVIOUS
  <2>4. data.size = inode.size
    OBVIOUS
  <2> DEFINE A == {data} \cup {Info(k) : k \in DOMAIN attrs.val}
  <2>5. \A k \in 1..Len(attrs.val) : Info(k) \in A
    BY <2>1
  <2>5a. data \in A
    OBVIOUS
  <2>5b. infos = [k \in DOMAIN attrs.val |-> Info(k)]
    OBVIOUS
  <2> HIDE DEF A, Info, data
  <2>6. one \in Seq(A) /\ Len(one) = 1 /\ one[1] = data
    BY <2>5a
  <2>7. infos \in Seq(A) /\ Len(infos) = Len(attrs.val)
    BY <2>1, <2>5
  <2> HIDE DEF one, infos
  <2>8. /\ all \in Seq(A) /\ Len(all) = Len(one) + Len(infos)
        /\ \A i \in 1..Len(one) + Len(infos) :
              all[i] = IF i <= Len(one) THEN one[i] ELSE infos[i - Len(one)]
    BY <2>6, <2>7, ConcatProperties
  <2>9. DOMAIN all = 1..Len(all)
    BY <2>8
  <2> HIDE DEF all
  <2>10. all[1] = data
    BY <2>1, <2>6, <2>7, <2>8
  <2>11. ASSUME NEW k \in 2..(Len(attrs.val) + 1) PROVE all[k] = Info(k - 1)
    <3>1. k \in 1..Len(one) + Len(infos) /\ ~(k <= Len(one)) /\ k - Len(one) = k - 1
          /\ k - 1 \in 1..Len(attrs.val)
      BY <2>1, <2>6, <2>7
    <3> QED
      BY <2>2, <2>8, <3>1
  <2>12. StreamsOf(inode).err = "none" /\ StreamsOf(inode).val = all
    BY <1>1, <1>3 DEF Ok
  <2>13. Len(all) = Len(attrs.val) + 1
    BY <2>1, <2>6, <2>7, <2>8
  <2>14. \A k \in 2..(Len(attrs.val) + 1) :
             /\ all[k].id = <<"Xattr", StreamId(k - 1)>> /\ all[k].size = Len(attrs.val[k - 1].value)
             /\ all[k].resident = (attrs.val[k - 1].storage # "LeafRemote")
    BY <2>3, <2>11
  <2> HIDE DEF attrs
  <2> QED
    BY <1>3, <2>4, <2>9, <2>10, <2>12, <2>13, <2>14 DEF attrs
<1> QED
  BY <1>2, <1>3


-----------------------------------------------------------------------------
(* The client's session.  It holds what the source returned of the volume; *)
(* the inode it looks in is the one the names so far lead to; what it was  *)
(* told of a node fits its inode; what it has read is how the stream       *)
(* begins.                                                                 *)
Held == image = Cut(volume, image.len) /\ image.len \in 0..volume.len
Nowhere(v, p) == \A n \in Reach(v, p, "lax")[Len(p)] : ReadInode(v, n).err # "none"
Found(v, p, n) == n \in Reach(v, p, "lax")[Len(p)] /\ ReadInode(v, n).err = "none"
KindAt(v, n) ==
    IF ReadInode(v, n).err = "none" THEN NodeKind(FromMode(ReadInode(v, n).val.mode)) ELSE "Other"
Progress(v, inode, id, start, sofar, how) ==
    LET s == Stream(v, inode, id)
    IN  /\ s.err # "none" => start = 0 /\ sofar = <<>>
        /\ s.err = "none" => start \in 0..Len(s.val) /\ sofar = SubSeq(s.val, 1, start)
        /\ how = "refused" => s.err # "none"
        /\ how = "done" => s.err = "none" /\ start = Len(s.val)
Indices(list) == {0, 1} \cup (IF list.err = "none" THEN DOMAIN list.val ELSE {})
Answered(inode) ==
    /\ meta = MetaOf(inode) /\ runs = RunsOf(inode) /\ streams = StreamsOf(inode)
    /\ \E cap \in Caps : target = LinkOf(node, inode, cap)
    /\ stream \in Indices(streams)

SessionInv ==
    /\ session \in {"closed", "looking", "at", "reading"} \cup Ends
    /\ depth \in 1..(Len(path) + 1) /\ node \in Nat
    /\ session = "closed" => depth = 1 /\ kind = "unknown"
    /\ session \notin {"closed", "unopened"} => Held
    /\ session = "looking" => /\ SbParse(image).err = "none"
                              /\ node \in Reach(image, path, "lax")[depth - 1]
    /\ session \in {"missing", "failed"} => Nowhere(image, path)
    /\ session = "at" \/ Known => Found(image, path, node)
    /\ session \in {"looking", "at", "missing", "failed"} \/ Known => kind \in {"unknown", KindAt(image, node)}
    /\ ~Known => off = 0 /\ got = <<>>
    /\ Known => \E inode : /\ inode = ReadInode(image, node).val /\ Answered(inode)
                           /\ Progress(image, inode, IdOf(streams, stream), off, got, session)

Inv == PathInv /\ SessionInv

LEMMA HeldImage ==
    ASSUME PathInv, Held
    PROVE  Image(image) /\ Image(volume) /\ path \in Seq(STRING)
<1>1. Image(volume) /\ path \in Seq(STRING)
  BY PathTypes DEF PathInv
<1> QED
  BY <1>1, CutFacts DEF Held

LEMMA SessionInit0 == Init => SessionInv
<1> SUFFICES ASSUME Init PROVE SessionInv
  OBVIOUS
<1>1. /\ session = "closed" /\ depth = 1 /\ node = 0 /\ kind = "unknown" /\ off = 0 /\ got = <<>>
      /\ path \in Paths /\ volume \in Volumes
  BY DEF Init, SessionInit, PathInit
<1>2. Len(path) \in Nat
  BY <1>1, PathTypes
<1> QED
  BY <1>1, <1>2 DEF SessionInv, Known

LEMMA OpenFailsInv == Inv /\ OpenFails /\ UNCHANGED pathVars => SessionInv'
<1> SUFFICES ASSUME Inv, OpenFails, UNCHANGED pathVars PROVE SessionInv'
  OBVIOUS
<1>1. /\ session = "closed" /\ session' = "unopened" /\ depth' = depth /\ node' = node
      /\ off' = off /\ got' = got /\ path' = path
  BY DEF OpenFails, pathVars
<1>2. depth \in 1..(Len(path) + 1) /\ node \in Nat /\ off = 0 /\ got = <<>>
  BY <1>1 DEF Inv, SessionInv, Known
<1> QED
  BY <1>1, <1>2 DEF SessionInv, Known, Ends

LEMMA OpenInv == Inv /\ Open /\ UNCHANGED pathVars => SessionInv'
<1> SUFFICES ASSUME Inv, Open, UNCHANGED pathVars PROVE SessionInv'
  OBVIOUS
<1>1. /\ session = "closed" /\ depth = 1 /\ kind = "unknown" /\ off = 0 /\ got = <<>>
      /\ depth \in 1..(Len(path) + 1)
  BY DEF Inv, SessionInv, Known, Open
<1>2. PICK n \in SourceLens :
          /\ session' = IF SbParse(Cut(volume, Least(n, volume.len))).err = "none"
                        THEN "looking" ELSE "unopened"
          /\ image' = Cut(volume, Least(n, volume.len))
          /\ node' = volume.sb.rootino
  BY DEF Open, Cut
<1>3. depth' = depth /\ kind' = kind /\ off' = off /\ got' = got /\ path' = path /\ volume' = volume
  BY DEF Open, pathVars
<1>4. Image(volume) /\ path \in Seq(STRING)
  BY PathTypes DEF Inv, PathInv
<1> DEFINE m == Least(n, volume.len)
<1>5. m \in 0..volume.len
  <2>1. n \in Nat /\ volume.len \in Nat
    BY <1>4, VfsAssumption, U64Assumption DEF Image
  <2> QED
    BY <2>1 DEF Least
<1>6. Image(Cut(volume, m)) /\ Cut(volume, m).len = m /\ Cut(volume, m).sb = volume.sb
  BY <1>4, <1>5, CutFacts
<1>7. Reach(Cut(volume, m), path, "lax")[0] = {volume.sb.rootino}
  BY <1>4, <1>6, ReachFacts
<1>8. volume.sb.rootino \in Nat
  BY <1>4 DEF Image
<1> DEFINE im == Cut(volume, m)
<1>9. image' = im /\ session' = IF SbParse(im).err = "none" THEN "looking" ELSE "unopened"
  BY <1>2
<1>10. im = Cut(volume, im.len) /\ im.len \in 0..volume.len /\ node' \in Reach(im, path, "lax")[0]
  BY <1>2, <1>5, <1>6, <1>7
<1> HIDE DEF im, m
<1>11. Held'
  BY <1>3, <1>9, <1>10 DEF Held
<1>12. session' = "looking" => SbParse(image').err = "none" /\ node' \in Reach(image', path', "lax")[depth' - 1]
  BY <1>1, <1>3, <1>9, <1>10
<1>13. session' \in {"looking", "unopened"} /\ node' \in Nat /\ depth' \in 1..(Len(path') + 1)
       /\ kind' = "unknown" /\ off' = 0 /\ got' = <<>>
  BY <1>1, <1>2, <1>3, <1>8, <1>9
<1> QED
  BY <1>11, <1>12, <1>13 DEF SessionInv, Known, Ends


(* One name on: the entry listed leads where the names do, and where there *)
(* is none they lead nowhere.                                              *)
LEMMA LookFacts ==
    ASSUME Inv, Looking, NEW listing \in NodeListings
    PROVE  /\ depth \in 1..Len(path) /\ Held
           /\ listing.err = "none" /\ Named(listing.val, path[depth]) # {} =>
                LET n == First(listing.val, path[depth]).inode
                IN  n \in Nat /\ n \in Reach(image, path, "lax")[depth]
           /\ ~(listing.err = "none" /\ Named(listing.val, path[depth]) # {}) => Nowhere(image, path)
<1> DEFINE name == path[depth]
           read == ReadInode(image, node)
           kids == Child(image, node, name)
<1>1. session = "looking" /\ depth <= Len(path) /\ depth \in 1..(Len(path) + 1) /\ Held
      /\ node \in Reach(image, path, "lax")[depth - 1]
  BY DEF Inv, SessionInv, Looking
<1>2. Image(image) /\ path \in Seq(STRING) /\ Len(path) \in Nat
  BY <1>1, HeldImage DEF Inv
<1>3. depth \in 1..Len(path)
  BY <1>1, <1>2
<1>4. node \in Nat /\ Reach(image, path, "lax")[depth] = StepOf(image, path, "lax", node, depth)
  BY <1>1, <1>2, <1>3, Onward
<1>5. Reach(image, path, "lax")[depth] = kids
  BY <1>2, <1>4, StepFacts
<1>6. listing = IF read.err # "none" THEN read ELSE ReadDir(image, read.val)
  BY DEF NodeListings, Of
<1>7. kids = IF listing.err = "none" /\ Named(listing.val, name) # {}
             THEN {First(listing.val, name).inode} ELSE {}
  BY <1>6 DEF Child
<1>8. kids \subseteq Nat
  BY <1>2, <1>4, ChildFacts
<1>9. kids = {} => Nowhere(image, path)
  <2> SUFFICES ASSUME kids = {} PROVE Nowhere(image, path)
    OBVIOUS
  <2>1. depth \in 0..Len(path)
    BY <1>3
  <2>2. Reach(image, path, "lax")[Len(path)] = {}
    BY <1>2, <1>5, <2>1, Broken
  <2> QED
    BY <2>2 DEF Nowhere
<1> HIDE DEF kids, read
<1> QED
  BY <1>1, <1>3, <1>5, <1>7, <1>8, <1>9

LEMMA StopInv ==
    ASSUME Inv, NEW how \in {"missing", "failed"}, Looking \/ session = "looking",
           Stop(how), UNCHANGED pathVars, Nowhere(image, path)
    PROVE  SessionInv'
<1>1. session = "looking" /\ depth \in 1..(Len(path) + 1) /\ node \in Nat /\ Held /\ off = 0 /\ got = <<>>
      /\ kind \in {"unknown", KindAt(image, node)}
  BY DEF Inv, SessionInv, Looking, Known
<1>2. /\ kind' = kind /\ session' = how /\ image' = image /\ depth' = depth /\ node' = node /\ off' = off /\ got' = got
      /\ path' = path /\ volume' = volume
  BY DEF Stop, pathVars
<1>3. Held' /\ Nowhere(image', path') /\ kind' \in {"unknown", KindAt(image', node')}
  BY <1>1, <1>2 DEF Held
<1> QED
  BY <1>1, <1>2, <1>3 DEF SessionInv, Known, Ends

LEMMA GoInv ==
    ASSUME Inv, Looking, NEW entry, NEW said, Go(entry, said), UNCHANGED pathVars, Held,
           depth \in 1..Len(path), entry.inode \in Nat,
           entry.inode \in Reach(image, path, "lax")[depth],
           said \in {"unknown", KindAt(image, entry.inode)}
    PROVE  SessionInv'
<1>1. session = "looking" /\ off = 0 /\ got = <<>> /\ SbParse(image).err = "none"
  BY DEF Inv, SessionInv, Looking, Known
<1>2. /\ session' = session /\ image' = image /\ depth' = depth + 1 /\ node' = entry.inode
      /\ off' = off /\ got' = got /\ path' = path /\ volume' = volume /\ kind' = said
  BY DEF Go, pathVars
<1>3. Len(path) \in Nat
  BY PathTypes DEF Inv, PathInv
<1>4. depth + 1 \in 1..(Len(path) + 1) /\ (depth + 1) - 1 = depth
  BY <1>3
<1>5. Held'
  BY <1>2 DEF Held
<1>6. kind' \in {"unknown", KindAt(image', node')}
  BY <1>2
<1>7. node' \in Reach(image', path', "lax")[depth' - 1] /\ depth' \in 1..(Len(path') + 1)
      /\ SbParse(image').err = "none"
  BY <1>1, <1>2, <1>4
<1> QED
  BY <1>1, <1>2, <1>5, <1>6, <1>7 DEF SessionInv, Known, Ends

LEMMA LookupInv == Inv /\ Lookup /\ UNCHANGED pathVars => SessionInv'
<1> SUFFICES ASSUME Inv, Lookup, UNCHANGED pathVars PROVE SessionInv'
  OBVIOUS
<1>1. PICK listing \in NodeListings :
        CASE listing.err # "none" -> Stop("failed")
          [] listing.err = "none" /\ Named(listing.val, path[depth]) = {} -> Stop("missing")
          [] OTHER -> Go(First(listing.val, path[depth]), "unknown")
  BY DEF Lookup
<1>2. Looking
  BY DEF Lookup
<1> DEFINE found == listing.err = "none" /\ Named(listing.val, path[depth]) # {}
<1>3. CASE ~found
  <2>1. Stop("failed") \/ Stop("missing")
    BY <1>1, <1>3
  <2>2. Nowhere(image, path)
    BY <1>2, <1>3, LookFacts
  <2> QED
    BY <1>2, <2>1, <2>2, StopInv
<1>4. CASE found
  <2>1. Go(First(listing.val, path[depth]), "unknown")
    BY <1>1, <1>4
  <2> QED
    BY <1>2, <1>4, <2>1, LookFacts, GoInv
<1> QED
  BY <1>3, <1>4

LEMMA BrowseInv == Inv /\ Browse /\ UNCHANGED pathVars => SessionInv'
<1> SUFFICES ASSUME Inv, Browse, UNCHANGED pathVars PROVE SessionInv'
  OBVIOUS
<1>1. PICK listing \in NodeListings :
        /\ listing.err = "none" /\ Named(listing.val, path[depth]) # {}
        /\ \E entry \in {First(listing.val, path[depth])} : Go(entry, KindOf(entry.inode))
  BY DEF Browse
<1>2. Looking
  BY DEF Browse
<1> DEFINE entry == First(listing.val, path[depth])
<1>3. Go(entry, KindOf(entry.inode))
  BY <1>1
<1>4. KindOf(entry.inode) = KindAt(image, entry.inode)
  BY DEF KindOf, KindAt, Of
<1>5. depth \in 1..Len(path) /\ Held /\ entry.inode \in Nat /\ entry.inode \in Reach(image, path, "lax")[depth]
  BY <1>1, <1>2, LookFacts
<1> HIDE DEF entry
<1> QED
  BY <1>2, <1>3, <1>4, <1>5, GoInv

LEMMA ArriveInv == Inv /\ Arrive /\ UNCHANGED pathVars => SessionInv'
<1> SUFFICES ASSUME Inv, Arrive, UNCHANGED pathVars PROVE SessionInv'
  OBVIOUS
<1>1. session = "looking" /\ depth > Len(path)
      /\ Stop(IF ReadInode(image, node).err = "none" THEN "at" ELSE "failed")
  BY DEF Arrive, Of
<1>2. /\ depth \in 1..(Len(path) + 1) /\ node \in Nat /\ Held /\ off = 0 /\ got = <<>>
      /\ node \in Reach(image, path, "lax")[depth - 1] /\ kind \in {"unknown", KindAt(image, node)}
  BY <1>1 DEF Inv, SessionInv, Known
<1>3. Image(image) /\ path \in Seq(STRING) /\ Len(path) \in Nat
  BY <1>2, HeldImage DEF Inv
<1>4. depth - 1 = Len(path) /\ Len(path) \in 0..Len(path)
  BY <1>1, <1>2, <1>3
<1>5. \A a, b \in Reach(image, path, "lax")[Len(path)] : a = b
  BY <1>3, <1>4, ReachFacts
<1>6. CASE ReadInode(image, node).err # "none"
  <2>1. Nowhere(image, path)
    BY <1>2, <1>4, <1>5, <1>6 DEF Nowhere
  <2> QED
    BY <1>1, <1>6, <2>1, StopInv
<1>7. CASE ReadInode(image, node).err = "none"
  <2>1. Stop("at") /\ Found(image, path, node)
    BY <1>1, <1>2, <1>4, <1>7 DEF Found
  <2>2. /\ session' = "at" /\ image' = image /\ depth' = depth /\ node' = node /\ off' = off
        /\ got' = got /\ path' = path /\ volume' = volume /\ kind' = kind
    BY <2>1 DEF Stop, pathVars
  <2>3. Held' /\ Found(image', path', node') /\ kind' \in {"unknown", KindAt(image', node')}
    BY <1>2, <2>1, <2>2 DEF Held
  <2> QED
    BY <1>2, <2>2, <2>3 DEF SessionInv, Known, Ends
<1> QED
  BY <1>6, <1>7


LEMMA SameAnswers ==
    ASSUME NEW CONSTANT inode, image' = image, node' = node
    PROVE  /\ RunsOf(inode)' = RunsOf(inode) /\ StreamsOf(inode)' = StreamsOf(inode)
           /\ \A cap : LinkOf(node, inode, cap)' = LinkOf(node, inode, cap)
<1>1. RunsOf(inode)' = RunsOf(inode)
  BY DEF RunsOf
<1>2. StreamsOf(inode)' = StreamsOf(inode)
  BY DEF StreamsOf
<1>3. \A cap : LinkOf(node, inode, cap)' = LinkOf(node, inode, cap)
  BY DEF LinkOf
<1> QED
  BY <1>1, <1>2, <1>3

(* The stream a client reads can be asked for.                             *)
LEMMA IdFacts ==
    ASSUME Image(image), NEW at, NEW inode, Decoded(image, at, inode),
           NEW k \in Indices(StreamsOf(inode))
    PROVE  /\ IdOf(StreamsOf(inode), k)[1] = "Xattr" => IdOf(StreamsOf(inode), k)[2] \in Nat
           /\ k = 0 => IdOf(StreamsOf(inode), k)[1] = "Slack"
           /\ k = 1 => IdOf(StreamsOf(inode), k)[1] = "Default"
           /\ k \notin {0, 1} =>
                LET attrs == ListXattrs(image, inode)
                IN  /\ attrs.err = "none" /\ StreamsOf(inode).err = "none" /\ Len(attrs.val) \in Nat
                    /\ k \in 2..(Len(attrs.val) + 1)
                    /\ IdOf(StreamsOf(inode), k) = <<"Xattr", StreamId(k - 1)>>
                    /\ StreamId(k - 1) \in Nat
<1> DEFINE attrs == ListXattrs(image, inode)
           list == StreamsOf(inode)
           id == IdOf(list, k)
<1>1. list.err = attrs.err
  BY StreamsFacts
<1>2. list.err = "none" =>
         /\ DOMAIN list.val = 1..(Len(attrs.val) + 1) /\ Len(attrs.val) \in Nat
         /\ \A j \in 2..(Len(attrs.val) + 1) : list.val[j].id = <<"Xattr", StreamId(j - 1)>>
  BY <1>1, StreamsFacts, AttrsFacts
<1>3. k \in {0, 1} \cup (IF list.err = "none" THEN DOMAIN list.val ELSE {})
  BY DEF Indices
<1>4. id = CASE k = 0 -> <<"Slack">> [] k = 1 -> <<"Default">> [] OTHER -> list.val[k].id
  BY DEF IdOf
<1>5. \A j \in Nat \ {0} : StreamId(j) \in Nat
  BY VfsAssumption DEF StreamId, Least
<1> HIDE DEF attrs, list, id
<1>6. CASE k = 0
  BY <1>4, <1>6 DEF id, list
<1>7. CASE k = 1
  BY <1>4, <1>7 DEF id, list
<1>8. CASE k \notin {0, 1}
  <2>1. list.err = "none" /\ k \in 1..(Len(attrs.val) + 1) /\ Len(attrs.val) \in Nat
    BY <1>2, <1>3, <1>8
  <2>2. k \in 2..(Len(attrs.val) + 1) /\ k - 1 \in Nat \ {0}
    BY <1>8, <2>1
  <2>3. id = list.val[k].id
    BY <1>4, <1>8
  <2>4. id = <<"Xattr", StreamId(k - 1)>>
    BY <1>2, <2>1, <2>2, <2>3
  <2>5. StreamId(k - 1) \in Nat
    BY <1>5, <2>2
  <2>6. id[2] \in Nat
    BY <2>4, <2>5
  <2> QED
    BY <1>1, <1>8, <2>1, <2>2, <2>4, <2>5, <2>6 DEF id, list, attrs
<1> QED
  BY <1>6, <1>7, <1>8

LEMMA AskInv == Inv /\ Ask /\ UNCHANGED pathVars => SessionInv'
<1> SUFFICES ASSUME Inv, Ask, UNCHANGED pathVars PROVE SessionInv'
  OBVIOUS
<1>1. PICK inode \in NodeInodes, cap \in Caps :
        /\ meta' = MetaOf(inode) /\ runs' = RunsOf(inode)
        /\ target' = LinkOf(node, inode, cap) /\ streams' = StreamsOf(inode)
        /\ stream' \in {0, 1} \cup (IF streams'.err = "none" THEN DOMAIN streams'.val ELSE {})
  BY DEF Ask
<1>2. /\ session = "at" /\ session' = "reading" /\ image' = image /\ depth' = depth /\ node' = node
      /\ kind' = kind /\ off' = off /\ got' = got /\ path' = path /\ volume' = volume
  BY DEF Ask, pathVars
<1>3. /\ Held /\ Found(image, path, node) /\ kind \in {"unknown", KindAt(image, node)}
      /\ depth \in 1..(Len(path) + 1) /\ node \in Nat /\ off = 0 /\ got = <<>>
  BY <1>2 DEF Inv, SessionInv, Known
<1>4. inode = ReadInode(image, node).val
  BY <1>3 DEF NodeInodes, Of, Found
<1>5. Held' /\ Found(image', path', node') /\ kind' \in {"unknown", KindAt(image', node')}
  BY <1>2, <1>3 DEF Held
<1>6. Answered(inode)'
  <2>1. LinkOf(node, inode, cap)' = LinkOf(node, inode, cap)
    BY <1>2, SameAnswers
  <2>2. \E c \in Caps : target' = LinkOf(node, inode, c)'
    BY <1>1, <2>1
  <2> QED
    BY <1>1, <1>2, <2>2, SameAnswers DEF Answered, Indices
<1>7. Image(image) /\ path \in Seq(STRING)
  BY <1>3, HeldImage DEF Inv
<1>8. Decoded(image, InodeToLocation(image.sb.geo, node), inode)
  BY <1>3, <1>4, <1>7, InodeFacts DEF Found
<1>9. PICK id : id = IdOf(StreamsOf(inode), stream') /\ (id[1] = "Xattr" => id[2] \in Nat)
  BY <1>1, <1>7, <1>8, IdFacts DEF Indices
<1> DEFINE s == Stream(image, inode, id)
<1>10. s.err = "none" => s.val \in Seq(Bytes(image))
  BY <1>7, <1>8, <1>9, StreamFacts
<1>11. s.err = "none" => 0 \in 0..Len(s.val) /\ <<>> = SubSeq(s.val, 1, 0)
  <2> HIDE DEF s
  <2> QED
    BY <1>10
<1>12. Progress(image, inode, id, 0, <<>>, "reading")
  BY <1>11 DEF Progress
<1>13. Progress(image', inode, IdOf(streams', stream'), off', got', session')
  BY <1>1, <1>2, <1>3, <1>9, <1>12
<1>14. inode = ReadInode(image', node').val
  BY <1>2, <1>4
<1>15. \E x : x = ReadInode(image', node').val /\ Answered(x)'
              /\ Progress(image', x, IdOf(streams', stream'), off', got', session')
  BY <1>6, <1>13, <1>14
<1> QED
  BY <1>2, <1>3, <1>5, <1>15 DEF SessionInv, Known, Ends


(* What is known of an answered session.                                   *)
LEMMA AtTheNode ==
    ASSUME Inv, Known
    PROVE  \E inode, id, at :
             /\ inode = ReadInode(image, node).val /\ Answered(inode)
             /\ Image(image) /\ Decoded(image, at, inode) /\ at = InodeToLocation(image.sb.geo, node)
             /\ id = IdOf(StreamsOf(inode), stream) /\ id = Id /\ (id[1] = "Xattr" => id[2] \in Nat)
             /\ Progress(image, inode, id, off, got, session)
<1>1. Held /\ Found(image, path, node) /\ node \in Nat
  BY DEF Inv, SessionInv, Known
<1>2. PICK inode : /\ inode = ReadInode(image, node).val /\ Answered(inode)
                   /\ Progress(image, inode, IdOf(streams, stream), off, got, session)
  BY DEF Inv, SessionInv
<1>3. Image(image)
  BY <1>1, HeldImage DEF Inv
<1>4. PICK at : at = InodeToLocation(image.sb.geo, node)
  OBVIOUS
<1>5. Decoded(image, at, inode)
  BY <1>1, <1>2, <1>3, <1>4, InodeFacts DEF Found
<1>6. PICK id : id = IdOf(StreamsOf(inode), stream)
  OBVIOUS
<1>7. streams = StreamsOf(inode) /\ stream \in Indices(streams)
  BY <1>2 DEF Answered
<1>8. id[1] = "Xattr" => id[2] \in Nat
  BY <1>3, <1>5, <1>6, <1>7, IdFacts
<1>9. id = Id
  BY <1>6, <1>7 DEF Id, IdOf
<1> QED
  BY <1>2, <1>3, <1>4, <1>5, <1>6, <1>7, <1>8, <1>9

LEMMA ReadInv == Inv /\ Read /\ UNCHANGED pathVars => SessionInv'
<1> SUFFICES ASSUME Inv, Read, UNCHANGED pathVars PROVE SessionInv'
  OBVIOUS
<1>1. /\ session = "reading" /\ image' = image /\ depth' = depth /\ node' = node /\ kind' = kind
      /\ meta' = meta /\ runs' = runs /\ target' = target /\ streams' = streams /\ stream' = stream
      /\ path' = path /\ volume' = volume
  BY DEF Read, pathVars
<1>2. /\ Held /\ Found(image, path, node) /\ kind \in {"unknown", KindAt(image, node)}
      /\ depth \in 1..(Len(path) + 1) /\ node \in Nat /\ Known
  BY <1>1 DEF Inv, SessionInv, Known
<1>3. PICK inode, id, at :
             /\ inode = ReadInode(image, node).val /\ Answered(inode)
             /\ Image(image) /\ Decoded(image, at, inode)
             /\ id = IdOf(StreamsOf(inode), stream) /\ id = Id /\ (id[1] = "Xattr" => id[2] \in Nat)
             /\ Progress(image, inode, id, off, got, session)
  BY <1>2, AtTheNode
<1>4a. PICK len \in BufLens : \E bytes :
        /\ bytes = ReadAt(inode, id, off, len)
        /\ session' = CASE bytes.err # "none" -> "refused"
                        [] bytes.err = "none" /\ bytes.val = <<>> -> "done"
                        [] OTHER -> "reading"
        /\ got' = got \o bytes.val
        /\ off' = off + Len(bytes.val)
  <2>1. PICK len \in BufLens, other \in NodeInodes : \E bytes \in {ReadAt(other, Id, off, len)} :
        /\ session' = CASE bytes.err # "none" -> "refused"
                        [] bytes.err = "none" /\ bytes.val = <<>> -> "done"
                        [] OTHER -> "reading"
        /\ got' = got \o bytes.val
        /\ off' = off + Len(bytes.val)
    BY DEF Read
  <2>2. other = inode
    BY <1>2, <1>3 DEF NodeInodes, Of, Found
  <2> QED
    BY <1>3, <2>1, <2>2
<1>4. PICK bytes :
        /\ bytes = ReadAt(inode, id, off, len)
        /\ session' = CASE bytes.err # "none" -> "refused"
                        [] bytes.err = "none" /\ bytes.val = <<>> -> "done"
                        [] OTHER -> "reading"
        /\ got' = got \o bytes.val
        /\ off' = off + Len(bytes.val)
  BY <1>4a
<1> DEFINE s == Stream(image, inode, id)
           w == Window(s.val, off, len)
<1>5. bytes = IF s.err # "none" THEN s ELSE Ok(w)
  BY <1>4, ReadAtFacts
<1>6. /\ s.err # "none" => s.val = <<>>
      /\ s.err = "none" => s.val \in Seq(Bytes(image))
  BY <1>3, StreamFacts
<1>7. /\ s.err # "none" => off = 0 /\ got = <<>>
      /\ s.err = "none" => off \in 0..Len(s.val) /\ got = SubSeq(s.val, 1, off)
  BY <1>3 DEF Progress
<1>8. len \in Nat /\ len > 0
  BY VfsAssumption
<1> HIDE DEF s
<1>9. s.err = "none" =>
        /\ off + Len(w) \in 0..Len(s.val)
        /\ got \o w = SubSeq(s.val, 1, off + Len(w))
        /\ w = <<>> => off = Len(s.val) /\ Len(w) = 0
  <2> SUFFICES ASSUME s.err = "none"
               PROVE  /\ off + Len(w) \in 0..Len(s.val)
                      /\ got \o w = SubSeq(s.val, 1, off + Len(w))
                      /\ w = <<>> => off = Len(s.val) /\ Len(w) = 0
    OBVIOUS
  <2>1. s.val \in Seq(Bytes(image)) /\ off \in 0..Len(s.val) /\ got = SubSeq(s.val, 1, off)
    BY <1>6, <1>7
  <2>2. /\ off + Len(w) \in off..Len(s.val)
        /\ SubSeq(s.val, 1, off) \o w = SubSeq(s.val, 1, off + Len(w))
        /\ w = <<>> => off = Len(s.val)
    <3> DEFINE v == s.val
               S == Bytes(image)
    <3>1. v \in Seq(S) /\ off \in 0..Len(v) /\ len \in Nat /\ len > 0
      BY <1>8, <2>1
    <3> HIDE DEF v, S, w
    <3>2. /\ off + Len(Window(v, off, len)) \in off..Len(v)
          /\ SubSeq(v, 1, off) \o Window(v, off, len) = SubSeq(v, 1, off + Len(Window(v, off, len)))
          /\ Window(v, off, len) = <<>> => off = Len(v)
      BY ONLY <3>1, WindowFacts
    <3> QED
      BY <3>2 DEF v, w
  <2>3. Len(s.val) \in Nat
    BY <2>1
  <2> HIDE DEF w
  <2> QED
    BY <2>1, <2>2, <2>3
<1> HIDE DEF w
<1>10. session' \in {"reading", "refused", "done"} /\ Progress(image, inode, id, off', got', session')
  <2>1. CASE s.err # "none"
    <3>1. bytes = s /\ bytes.err # "none" /\ bytes.val = <<>>
      BY <1>5, <1>6, <2>1
    <3>2. session' = "refused"
      BY <1>4, <3>1
    <3>3. off' = 0 /\ got' = <<>>
      BY <1>4, <1>7, <2>1, <3>1
    <3> QED
      BY <2>1, <3>2, <3>3 DEF Progress, s
  <2>2. CASE s.err = "none"
    <3>1. bytes.err = "none" /\ bytes.val = w
      BY <1>5, <2>2 DEF Ok
    <3>2. session' = IF w = <<>> THEN "done" ELSE "reading"
      BY <1>4, <3>1
    <3>3. off' = off + Len(w) /\ got' = got \o w
      BY <1>4, <3>1
    <3>4. off' \in 0..Len(s.val) /\ got' = SubSeq(s.val, 1, off')
      BY <1>9, <2>2, <3>3
    <3>5. session' = "done" => off' = Len(s.val)
      BY <1>7, <1>9, <2>2, <3>2, <3>3
    <3> QED
      BY <2>2, <3>2, <3>4, <3>5 DEF Progress, s
  <2> QED
    BY <2>1, <2>2
<1>11. Held' /\ Found(image', path', node') /\ kind' \in {"unknown", KindAt(image', node')}
  BY <1>1, <1>2 DEF Held
<1>12. Answered(inode)'
  <2>1. \A cap : LinkOf(node, inode, cap)' = LinkOf(node, inode, cap)
    BY <1>1, SameAnswers
  <2> QED
    BY <1>1, <1>3, <2>1, SameAnswers DEF Answered
<1>13. IdOf(streams', stream') = id /\ inode = ReadInode(image', node').val
  BY <1>1, <1>3 DEF Answered
<1>14. \E x : x = ReadInode(image', node').val /\ Answered(x)'
              /\ Progress(image', x, IdOf(streams', stream'), off', got', session')
  BY <1>1, <1>10, <1>12, <1>13
<1> QED
  BY <1>1, <1>2, <1>10, <1>11, <1>14 DEF SessionInv, Known, Ends

LEMMA SessionStays == Inv /\ UNCHANGED <<volume, path>> /\ UNCHANGED sessionVars => SessionInv'
<1> SUFFICES ASSUME Inv, UNCHANGED <<volume, path>>, UNCHANGED sessionVars PROVE SessionInv'
  OBVIOUS
<1>1. /\ session' = session /\ image' = image /\ depth' = depth /\ node' = node /\ kind' = kind
      /\ meta' = meta /\ runs' = runs /\ target' = target /\ streams' = streams /\ stream' = stream
      /\ path' = path /\ volume' = volume /\ off' = off /\ got' = got
  BY DEF sessionVars
<1>2. SessionInv
  BY DEF Inv
<1>3. Held => Held'
  BY <1>1 DEF Held
<1>4. Known => \E x : x = ReadInode(image', node').val /\ Answered(x)'
                     /\ Progress(image', x, IdOf(streams', stream'), off', got', session')
  <2> SUFFICES ASSUME Known
               PROVE  \E x : x = ReadInode(image', node').val /\ Answered(x)'
                     /\ Progress(image', x, IdOf(streams', stream'), off', got', session')
    OBVIOUS
  <2>1. PICK x : x = ReadInode(image, node).val /\ Answered(x)
                 /\ Progress(image, x, IdOf(streams, stream), off, got, session)
    BY <1>2 DEF SessionInv
  <2>2. \A cap : LinkOf(node, x, cap)' = LinkOf(node, x, cap)
    BY <1>1, SameAnswers
  <2>3. Answered(x)'
    BY <1>1, <2>1, <2>2, SameAnswers DEF Answered
  <2> QED
    BY <1>1, <2>1, <2>3
<1> QED
  BY <1>1, <1>2, <1>3, <1>4 DEF SessionInv, Known

(* read_by_path writes nothing the session reads.                          *)
LEMMA PathStepKeeps == PathNext => UNCHANGED <<volume, path>>
  BY DEF PathNext, ReadRoot, NoEntry, NoChild, ReadLast, NotADirectory, Descend, EmptyPath, Return

LEMMA NextInv == Inv /\ [Next]_vars => Inv'
<1> SUFFICES ASSUME Inv, [Next]_vars PROVE Inv'
  OBVIOUS
<1>1. PathInv'
  BY PathNextInv, StepsArePathSteps DEF Inv
<1>2. SessionInv'
  <2>1. CASE PathNext /\ UNCHANGED sessionVars
    BY <2>1, PathStepKeeps, SessionStays
  <2>2. CASE SessionNext /\ UNCHANGED pathVars
    BY <2>2, OpenFailsInv, OpenInv, LookupInv, BrowseInv, ArriveInv, AskInv, ReadInv DEF SessionNext
  <2>3. CASE UNCHANGED vars
    BY <2>3, SessionStays DEF vars, pathVars
  <2> QED
    BY <2>1, <2>2, <2>3 DEF Next, PathStep, SessionStep
<1> QED
  BY <1>1, <1>2 DEF Inv

LEMMA Invariant == Spec => []Inv
<1>1. Init => Inv
  BY PathInit0, SessionInit0 DEF Init, Inv
<1> QED
  BY <1>1, NextInv, PTL DEF Spec


-----------------------------------------------------------------------------
(* What the invariant says.                                                *)
LEMMA Beginning ==
    ASSUME NEW S, NEW s \in Seq(S), NEW n \in 0..Len(s)
    PROVE  /\ SubSeq(s, 1, n) \in Seq(S) /\ Len(SubSeq(s, 1, n)) = n
           /\ \A i \in 1..n : SubSeq(s, 1, n)[i] = s[i]
           /\ n = Len(s) => SubSeq(s, 1, n) = s
<1> DEFINE t == SubSeq(s, 1, n)
<1>1. 1 \in Int /\ n \in Int /\ n \in Nat /\ \A i \in 1..n : s[i] \in S
  OBVIOUS
<1>2. /\ t \in Seq(S) /\ Len(t) = (IF 1 <= n THEN n - 1 + 1 ELSE 0)
      /\ \A i \in 1..(n - 1 + 1) : t[i] = s[1 + i - 1]
  BY <1>1, SubSeqProperties
<1> HIDE DEF t
<1>3. n - 1 + 1 = n /\ \A i \in 1..n : 1 + i - 1 = i
  BY <1>1
<1>4. Len(t) = n /\ \A i \in 1..n : t[i] = s[i]
  BY <1>1, <1>2, <1>3
<1>5. n = Len(s) => t = s
  <2> SUFFICES ASSUME n = Len(s) PROVE t = s
    OBVIOUS
  <2>1. s = [i \in 1..n |-> s[i]] /\ t = [i \in 1..n |-> t[i]]
    BY <1>2, <1>4
  <2> QED
    BY <1>4, <2>1
<1> QED
  BY <1>2, <1>4, <1>5 DEF t

LEMMA WhatWasRead ==
    ASSUME Inv, Known
    PROVE  /\ Len(got) = off /\ off \in Nat /\ DOMAIN got = 1..off
           /\ \A i \in 1..off : got[i] \in Bytes(image)
           /\ LET s == Stream(image, ReadInode(image, node).val, Id)
              IN  /\ s.err = "none" => off \in 0..Len(s.val) /\ Len(s.val) \in Nat
                                       /\ Len(s.val) <= image.len
                                       /\ got = SubSeq(s.val, 1, off)
                                       /\ \A i \in 1..off : got[i] = s.val[i]
                  /\ s.err # "none" => got = <<>> /\ off = 0 /\ s.val = <<>>
                  /\ session = "refused" => s.err # "none"
                  /\ session = "done" => s.err = "none" /\ got = s.val /\ off = Len(s.val)
<1>1. PICK inode, id, at :
             /\ inode = ReadInode(image, node).val /\ Answered(inode)
             /\ Image(image) /\ Decoded(image, at, inode)
             /\ id = IdOf(StreamsOf(inode), stream) /\ id = Id /\ (id[1] = "Xattr" => id[2] \in Nat)
             /\ Progress(image, inode, id, off, got, session)
  BY AtTheNode
<1> DEFINE s == Stream(image, inode, id)
<1>2. s = Stream(image, ReadInode(image, node).val, Id)
  BY <1>1
<1>3. /\ s.err # "none" => off = 0 /\ got = <<>>
      /\ s.err = "none" => off \in 0..Len(s.val) /\ got = SubSeq(s.val, 1, off)
      /\ session = "refused" => s.err # "none"
      /\ session = "done" => s.err = "none" /\ off = Len(s.val)
  BY <1>1 DEF Progress
<1>4. /\ s.err # "none" => s.val = <<>>
      /\ s.err = "none" => s.val \in Seq(Bytes(image)) /\ Len(s.val) <= image.len
  BY <1>1, StreamFacts
<1> HIDE DEF s
<1>5. CASE s.err # "none"
  BY <1>2, <1>3, <1>4, <1>5
<1>6. CASE s.err = "none"
  <2>1. s.val \in Seq(Bytes(image)) /\ off \in 0..Len(s.val) /\ got = SubSeq(s.val, 1, off)
        /\ Len(s.val) <= image.len
    BY <1>3, <1>4, <1>6
  <2>2. /\ got \in Seq(Bytes(image)) /\ Len(got) = off /\ \A i \in 1..off : got[i] = s.val[i]
        /\ off = Len(s.val) => got = s.val
    BY <2>1, Beginning
  <2>3. Len(s.val) \in Nat /\ \A i \in 1..off : s.val[i] \in Bytes(image)
    BY <2>1
  <2>4. DOMAIN got = 1..off
    BY <2>2
  <2> QED
    BY <1>2, <1>3, <1>6, <2>1, <2>2, <2>3, <2>4
<1> QED
  BY <1>5, <1>6

LEMMA InvTypes == Inv => TypeOK
<1> SUFFICES ASSUME Inv PROVE TypeOK
  OBVIOUS
<1>1. path \in Paths /\ pc \in {"called", "walking", "returned"} /\ idx \in 1..(Len(path) + 1)
  BY DEF Inv, PathInv
<1>2. /\ session \in {"closed", "looking", "at", "reading"} \cup Ends
      /\ depth \in 1..(Len(path) + 1) /\ node \in Nat
      /\ session = "looking" => SbParse(image).err = "none"
  BY DEF Inv, SessionInv
<1>3. session \in {"at", "reading", "refused", "done"} => Of(node).err = "none"
  BY DEF Inv, SessionInv, Found, Of, Known
<1>4. Known => stream \in {0, 1} \/ (streams.err = "none" /\ stream \in DOMAIN streams.val)
  BY DEF Inv, SessionInv, Answered, Indices
<1>5. off = Len(got) /\ \A i \in DOMAIN got : got[i] = Hole \/ got[i] \in 0..(image.len - 1)
  <2>1. CASE Known
    BY <2>1, WhatWasRead DEF Bytes
  <2>2. CASE ~Known
    BY <2>2 DEF Inv, SessionInv
  <2> QED
    BY <2>1, <2>2
<1> QED
  BY <1>1, <1>2, <1>3, <1>4, <1>5 DEF TypeOK

(* The adapter never hands out a byte from beyond what its source gave it, *)
(* nor asks an inode that it could not read.                               *)
THEOREM TypeCorrect == Spec => []TypeOK
  BY Invariant, InvTypes, PTL

LEMMA InvReadsBack == Inv => StreamsReadBack
<1> DEFINE all == ReadAt(Of(node).val, Id, 0, image.len)
           listed == IF stream - 2 > U16_MAX THEN U16_MAX + 2 ELSE stream
<1> SUFFICES ASSUME Inv, session \in {"reading", "done"}
             PROVE  /\ got = SubSeq(all.val, 1, Len(got))
                    /\ session = "done" =>
                         /\ got = all.val
                         /\ streams.err = "none" => Len(got) = streams.val[listed].size
  BY DEF StreamsReadBack
<1>1. Known
  BY DEF Known
<1>2. PICK inode, id, at :
             /\ inode = ReadInode(image, node).val /\ Answered(inode)
             /\ Image(image) /\ Decoded(image, at, inode)
             /\ id = IdOf(StreamsOf(inode), stream) /\ id = Id /\ (id[1] = "Xattr" => id[2] \in Nat)
             /\ Progress(image, inode, id, off, got, session)
  BY <1>1, AtTheNode
<1> DEFINE s == Stream(image, inode, id)
<1>3. /\ Len(got) = off /\ off \in Nat
      /\ s.err = "none" => off \in 0..Len(s.val) /\ Len(s.val) \in Nat /\ Len(s.val) <= image.len
                           /\ got = SubSeq(s.val, 1, off)
      /\ s.err # "none" => got = <<>> /\ off = 0 /\ s.val = <<>>
      /\ session = "done" => s.err = "none" /\ got = s.val /\ off = Len(s.val)
  BY <1>1, <1>2, WhatWasRead
<1>4. all = IF s.err # "none" THEN s ELSE Ok(Window(s.val, 0, image.len))
  BY <1>2, ReadAtFacts DEF Of
<1>5. s.err = "none" => s.val \in Seq(Bytes(image))
  BY <1>2, StreamFacts
<1>6. image.len \in Nat
  BY <1>2, U64Assumption DEF Image
<1>7. all.val = s.val
  <2> HIDE DEF s, all
  <2>1. CASE s.err # "none"
    BY <1>4, <2>1
  <2>2. CASE s.err = "none"
    <3>1. all.val = Window(s.val, 0, image.len)
      BY <1>4, <2>2 DEF Ok
    <3>2. Least(Len(s.val), 0 + image.len) = Len(s.val)
      BY <1>3, <1>6, <2>2 DEF Least
    <3>3. Window(s.val, 0, image.len) = SubSeq(s.val, 1, Len(s.val))
      BY <3>2 DEF Window
    <3>4. Len(s.val) \in 0..Len(s.val)
      BY <1>3, <2>2
    <3> QED
      BY <1>5, <2>2, <3>1, <3>3, <3>4, Beginning
  <2> QED
    BY <2>1, <2>2
<1>8. got = SubSeq(all.val, 1, Len(got))
  <2> HIDE DEF s, all
  <2>1. CASE s.err = "none"
    BY <1>3, <1>7, <2>1
  <2>2. CASE s.err # "none"
    <3>1. SubSeq(<<>>, 1, 0) = <<>>
      OBVIOUS
    <3> QED
      BY <1>3, <1>7, <2>2, <3>1
  <2> QED
    BY <2>1, <2>2
<1>9. ASSUME session = "done", streams.err = "none" PROVE Len(got) = streams.val[listed].size
  <2> DEFINE attrs == ListXattrs(image, inode)
             list == StreamsOf(inode)
  <2>1. list = streams /\ stream \in Indices(list)
    BY <1>2 DEF Answered
  <2>2. /\ Len(list.val) = Len(attrs.val) + 1 /\ attrs.err = "none"
        /\ list.val[1].size = inode.size
        /\ \A k \in 2..(Len(attrs.val) + 1) : list.val[k].size = Len(attrs.val[k - 1].value)
    BY <1>2, <1>9, <2>1, StreamsFacts
  <2>3. s.err = "none" /\ got = s.val
    BY <1>3, <1>9
  <2>1a. stream \in Indices(StreamsOf(inode))
    BY <2>1
  <2>1b. /\ stream = 0 => IdOf(StreamsOf(inode), stream)[1] = "Slack"
         /\ stream = 1 => IdOf(StreamsOf(inode), stream)[1] = "Default"
         /\ stream \notin {0, 1} =>
                /\ Len(attrs.val) \in Nat /\ stream \in 2..(Len(attrs.val) + 1)
                /\ IdOf(StreamsOf(inode), stream) = <<"Xattr", StreamId(stream - 1)>>
                /\ StreamId(stream - 1) \in Nat
    <3> HIDE DEF s, all, listed
    <3>1. PICK k : k = stream
      OBVIOUS
    <3>2. Image(image) /\ Decoded(image, at, inode) /\ k \in Indices(StreamsOf(inode))
      BY <1>2, <2>1a, <3>1
    <3>3. /\ k = 0 => IdOf(StreamsOf(inode), k)[1] = "Slack"
          /\ k = 1 => IdOf(StreamsOf(inode), k)[1] = "Default"
          /\ k \notin {0, 1} =>
                /\ Len(attrs.val) \in Nat /\ k \in 2..(Len(attrs.val) + 1)
                /\ IdOf(StreamsOf(inode), k) = <<"Xattr", StreamId(k - 1)>>
                /\ StreamId(k - 1) \in Nat
      BY <3>2, IdFacts
    <3> QED
      BY <3>1, <3>3
  <2>1c. id = IdOf(StreamsOf(inode), stream)
    BY <1>2
  <2>4. CASE stream = 0
    <3>1. id[1] = "Slack"
      BY <2>1b, <2>1c, <2>4
    <3>2. s.err # "none"
      BY <3>1 DEF Stream, Fail
    <3> QED
      BY <2>3, <3>2
  <2>5. CASE stream = 1
    <3>1. id[1] = "Default"
      BY <2>1b, <2>1c, <2>5
    <3>2. s = ReadFile(image, inode)
      BY <3>1 DEF Stream
    <3>3. Len(s.val) = inode.size
      <4> HIDE DEF s
      <4> QED
        BY <1>2, <2>3, <3>2, FileFacts
    <3>4. listed = 1
      BY <2>5, VfsAssumption
    <3> QED
      BY <2>1, <2>2, <2>3, <3>3, <3>4
  <2>6. CASE stream \notin {0, 1}
    <3>1. /\ Len(attrs.val) \in Nat /\ stream \in 2..(Len(attrs.val) + 1)
          /\ id = <<"Xattr", StreamId(stream - 1)>> /\ StreamId(stream - 1) \in Nat
      BY <2>1b, <2>1c, <2>6
    <3>2. id[1] = "Xattr" /\ id[2] = StreamId(stream - 1)
      BY <3>1
    <3>3. s = IF attrs.err # "none" THEN attrs
              ELSE IF id[2] >= Len(attrs.val) THEN Fail("Unsupported")
              ELSE Ok(attrs.val[id[2] + 1].value)
      BY <3>2 DEF Stream
    <3>4. s = Ok(attrs.val[id[2] + 1].value)
      BY <2>2, <2>3, <3>3 DEF Fail
    <3>5. id[2] + 2 = listed /\ listed \in 2..(Len(attrs.val) + 1)
      BY <3>1, <3>2, VfsAssumption DEF StreamId, Least
    <3>6. id[2] + 1 = listed - 1
      BY <3>1, <3>2, <3>5
    <3>7. got = attrs.val[listed - 1].value
      BY <2>3, <3>4, <3>6 DEF Ok
    <3> HIDE DEF listed, attrs
    <3> QED
      BY <2>1, <2>2, <3>5, <3>7
  <2> QED
    BY <2>4, <2>5, <2>6
<1> QED
  BY <1>3, <1>7, <1>8, <1>9

(* The windows of a stream tile it, whatever their lengths and however     *)
(* many they are, and the whole is as long as data_streams said.           *)
THEOREM StreamsAlwaysReadBack == Spec => []StreamsReadBack
  BY Invariant, InvReadsBack, PTL


LEMMA LinkFacts ==
    ASSUME Image(image), NEW at, NEW inode, Decoded(image, at, inode), NEW n \in Nat, NEW cap \in Caps,
           at = InodeToLocation(image.sb.geo, n), at \in Nat, LinkOf(n, inode, cap).val # <<>>
    PROVE  LET link == LinkOf(n, inode, cap).val
           IN  /\ FromMode(inode.mode) = "Symlink" /\ Len(link) <= inode.size
               /\ inode.format = "Local" =>
                    \A i \in DOMAIN link :
                       link[i] \in (at + image.sb.geo.inodesize - inode.fork_len)..
                                       (at + image.sb.geo.inodesize - 1)
<1> DEFINE link == LinkOf(n, inode, cap).val
           size == image.sb.geo.inodesize
           first == at + size - inode.fork_len
           m == Least(Least(inode.size, inode.fork_len), cap)
           inline == [i \in 1..m |-> first + i - 1]
           file == ReadFile(image, inode)
           cut == Least(Len(file.val), cap)
<1>1. /\ inode.size \in Nat /\ inode.fork_len \in 0..size /\ cap \in Nat /\ size \in Nat
  BY VfsAssumption DEF Decoded, Image, AnyGeometry
<1>2. LinkOf(n, inode, cap) =
        CASE FromMode(inode.mode) # "Symlink" -> Ok(<<>>)
          [] FromMode(inode.mode) = "Symlink" /\ inode.format = "Local" -> Ok(inline)
          [] OTHER -> IF file.err # "none" THEN file ELSE Ok(SubSeq(file.val, 1, cut))
  BY Zenon DEF LinkOf
<1>3. /\ m \in Nat /\ m <= inode.size /\ m <= inode.fork_len
  BY <1>1 DEF Least
<1>4. Len(inline) = m /\ DOMAIN inline = 1..m /\ \A i \in 1..m : inline[i] = first + i - 1
  <2> HIDE DEF m
  <2> QED
    BY <1>3
<1>5. \A i \in 1..m : first + i - 1 \in first..(at + size - 1)
  <2> DEFINE held == inode.fork_len
  <2>1. first = at + size - held /\ held \in Nat /\ size \in Nat
    BY <1>1
  <2>2. m \in Nat /\ m <= held
    BY <1>3
  <2> HIDE DEF first, m, size, held, inline, cut
  <2> SUFFICES ASSUME NEW i \in 1..m PROVE first + i - 1 \in first..(at + size - 1)
    OBVIOUS
  <2>3. i \in Int /\ 1 <= i /\ i <= m
    BY <2>2
  <2>4. first <= first + i - 1 /\ first + i - 1 <= at + size - 1 /\ first + i - 1 \in Int /\ first \in Int
    BY <2>1, <2>2, <2>3
  <2>5. at + size - 1 \in Int
    BY <2>1
  <2> QED
    BY <2>4, <2>5
<1>6. file.err # "none" => file.val = <<>>
  BY DEF ReadFile, Ok, Fail
<1>7. file.err = "none" => file.val \in Seq(Bytes(image)) /\ Len(file.val) = inode.size
  BY FileFacts
<1>8. file.err = "none" => Len(SubSeq(file.val, 1, cut)) <= inode.size
  <2> HIDE DEF file, cut
  <2> SUFFICES ASSUME file.err = "none" PROVE Len(SubSeq(file.val, 1, cut)) <= inode.size
    OBVIOUS
  <2>1. cut \in 0..Len(file.val)
    BY <1>1, <1>7 DEF Least, cut
  <2> QED
    BY <1>1, <1>7, <2>1, Beginning
<1> HIDE DEF inline, m, first, file, cut
<1>9. CASE FromMode(inode.mode) # "Symlink"
  <2>1. LinkOf(n, inode, cap).val = <<>>
    BY <1>2, <1>9 DEF Ok
  <2> QED
    BY <2>1
<1>10. CASE FromMode(inode.mode) = "Symlink" /\ inode.format = "Local"
  <2>1. link = inline
    BY <1>2, <1>10 DEF Ok
  <2> QED
    BY <1>3, <1>4, <1>5, <1>10, <2>1 DEF first
<1>11. CASE FromMode(inode.mode) = "Symlink" /\ inode.format # "Local"
  <2>1. LinkOf(n, inode, cap) = IF file.err # "none" THEN file ELSE Ok(SubSeq(file.val, 1, cut))
    BY <1>2, <1>11
  <2>2. file.err = "none"
    <3> SUFFICES ASSUME file.err # "none" PROVE FALSE
      OBVIOUS
    <3>1. LinkOf(n, inode, cap) = file
      BY <2>1
    <3> QED
      BY <1>6, <3>1
  <2>3. link = SubSeq(file.val, 1, cut)
    <3>1. PICK z : z = SubSeq(file.val, 1, cut)
      OBVIOUS
    <3>2. LinkOf(n, inode, cap) = Ok(z)
      BY <2>1, <2>2, <3>1
    <3>3. Ok(z).val = z
      BY DEF Ok
    <3> QED
      BY <3>1, <3>2, <3>3
  <2> QED
    BY <1>8, <1>11, <2>2, <2>3
<1> QED
  BY <1>9, <1>10, <1>11

LEMMA MetaFacts ==
    ASSUME NEW inode
    PROVE  /\ MetaOf(inode).kind = NodeKind(FromMode(inode.mode)) /\ MetaOf(inode).size = inode.size
           /\ \A len \in MetaOf(inode).resident : len = inode.fork_len /\ inode.format = "Local"
<1>1. /\ MetaOf(inode).kind = NodeKind(FromMode(inode.mode)) /\ MetaOf(inode).size = inode.size
      /\ MetaOf(inode).resident = IF inode.format = "Local" THEN {inode.fork_len} ELSE {}
  BY DEF MetaOf
<1> QED
  BY <1>1

LEMMA InvAnswers == Inv => AnswersAgree
<1>12. ASSUME Inv, session = "failed", Of(node).err # "none" PROVE kind \in {"unknown", "Other"}
  <2>1. kind \in {"unknown", KindAt(image, node)}
    BY <1>12 DEF Inv, SessionInv
  <2> QED
    BY <1>12, <2>1 DEF KindAt, Of
<1> SUFFICES ASSUME Inv, Known
             PROVE  /\ kind # "unknown" => kind = meta.kind
                    /\ streams.err = "none" => streams.val[1].size = meta.size
                    /\ ReadsTheData => Len(got) = meta.size
                    /\ target.val # <<>> => meta.kind = "Symlink" /\ Len(target.val) <= meta.size
                    /\ \A len \in meta.resident : \A i \in DOMAIN target.val :
                         LET at == InodeToLocation(image.sb.geo, node)
                         IN  target.val[i] \in (at + image.sb.geo.inodesize - len)..
                                                   (at + image.sb.geo.inodesize - 1)
  BY <1>12, Zenon DEF AnswersAgree
<1>1. PICK inode, id, at :
             /\ inode = ReadInode(image, node).val /\ Answered(inode)
             /\ Image(image) /\ Decoded(image, at, inode) /\ at = InodeToLocation(image.sb.geo, node)
             /\ id = IdOf(StreamsOf(inode), stream) /\ id = Id /\ (id[1] = "Xattr" => id[2] \in Nat)
             /\ Progress(image, inode, id, off, got, session)
  BY AtTheNode
<1>2. /\ kind \in {"unknown", KindAt(image, node)} /\ Found(image, path, node) /\ node \in Nat
  BY DEF Inv, SessionInv
<1>3. meta = MetaOf(inode) /\ streams = StreamsOf(inode) /\ \E cap \in Caps : target = LinkOf(node, inode, cap)
  BY <1>1 DEF Answered
<1>4. kind # "unknown" => kind = meta.kind
  BY <1>1, <1>2, <1>3, MetaFacts DEF KindAt, Found
<1>5. streams.err = "none" => streams.val[1].size = meta.size
  BY <1>1, <1>3, StreamsFacts, MetaFacts
<1>6. ReadsTheData => Len(got) = meta.size
  <2> SUFFICES ASSUME session = "done", stream = 1 PROVE Len(got) = meta.size
    BY DEF ReadsTheData
  <2>1. Id[1] = "Default"
    BY DEF Id
  <2>2. Stream(image, inode, Id) = ReadFile(image, inode)
    BY <2>1 DEF Stream
  <2>3. ReadFile(image, inode).err = "none" /\ got = ReadFile(image, inode).val
    BY <1>1, <2>2, WhatWasRead
  <2>4. Len(got) = inode.size
    BY <1>1, <2>3, FileFacts
  <2> QED
    BY <1>3, <2>4, MetaFacts
<1>7. PICK cap \in Caps : target = LinkOf(node, inode, cap)
  BY <1>3
<1>8. at \in Nat
  BY <1>1, <1>2, LocationFacts DEF Image
<1>9. target.val # <<>> =>
         /\ FromMode(inode.mode) = "Symlink" /\ Len(target.val) <= inode.size
         /\ inode.format = "Local" =>
              \A i \in DOMAIN target.val :
                 target.val[i] \in (at + image.sb.geo.inodesize - inode.fork_len)..
                                       (at + image.sb.geo.inodesize - 1)
  BY <1>1, <1>2, <1>7, <1>8, LinkFacts
<1>10. target.val # <<>> => meta.kind = "Symlink" /\ Len(target.val) <= meta.size
  <2>1. NodeKind("Symlink") = "Symlink"
    BY DEF NodeKind
  <2> QED
    BY <1>3, <1>9, <2>1, MetaFacts
<1>11. \A len \in meta.resident : \A i \in DOMAIN target.val :
             target.val[i] \in (at + image.sb.geo.inodesize - len)..(at + image.sb.geo.inodesize - 1)
  <2> SUFFICES ASSUME NEW len \in meta.resident, NEW i \in DOMAIN target.val
               PROVE  target.val[i] \in (at + image.sb.geo.inodesize - len)..(at + image.sb.geo.inodesize - 1)
    OBVIOUS
  <2>1. len = inode.fork_len /\ inode.format = "Local"
    BY <1>3, MetaFacts
  <2>2. target.val # <<>>
    OBVIOUS
  <2> QED
    BY <1>9, <2>1, <2>2
<1> QED
  BY <1>1, <1>4, <1>5, <1>6, <1>10, <1>11

(* meta, read_link, data_streams and the listing a node was found in agree *)
(* on its kind and its size, with each other and with what is read of it.  *)
THEOREM AnswersAlwaysAgree == Spec => []AnswersAgree
  BY Invariant, InvAnswers, PTL


LEMMA ExtentRuns ==
    ASSUME NEW inode, inode.format = "Extents", ReadExtents(inode) \in Seq(Rec)
    PROVE  LET recs == ReadExtents(inode)
               list == RunsOf(inode)
           IN  /\ DOMAIN list = 1..Len(recs)
               /\ \A k \in 1..Len(recs) :
                    /\ list[k].image_offset = Sat(recs[k].startblock * Blocksize(image))
                    /\ list[k].len = Sat(recs[k].blockcount * Blocksize(image))
<1> DEFINE recs == ReadExtents(inode)
           Run(k) == [image_offset |-> Sat(recs[k].startblock * Blocksize(image)),
                      len |-> Sat(recs[k].blockcount * Blocksize(image))]
           list == [k \in DOMAIN recs |-> Run(k)]
<1>1. RunsOf(inode) = list
  BY Zenon DEF RunsOf
<1>2. DOMAIN recs = 1..Len(recs)
  OBVIOUS
<1>3. \A k : /\ Run(k).image_offset = Sat(recs[k].startblock * Blocksize(image))
             /\ Run(k).len = Sat(recs[k].blockcount * Blocksize(image))
  OBVIOUS
<1> HIDE DEF Run, recs
<1>4. DOMAIN list = 1..Len(recs) /\ \A k \in 1..Len(recs) : list[k] = Run(k)
  BY <1>2
<1> HIDE DEF list
<1> QED
  BY <1>1, <1>3, <1>4 DEF recs

LEMMA InvRuns == Inv => RunsHoldTheFile
<1> SUFFICES ASSUME Inv, Known, stream = 1, Of(node).val.format = "Extents",
                    NEW i \in DOMAIN got, got[i] # Hole
             PROVE  \E k \in DOMAIN runs :
                       got[i] - runs[k].image_offset \in 0..(runs[k].len - 1)
  BY DEF RunsHoldTheFile
<1>1. PICK inode, id, at :
             /\ inode = ReadInode(image, node).val /\ Answered(inode)
             /\ Image(image) /\ Decoded(image, at, inode)
             /\ id = IdOf(StreamsOf(inode), stream) /\ id = Id /\ (id[1] = "Xattr" => id[2] \in Nat)
             /\ Progress(image, inode, id, off, got, session)
  BY AtTheNode
<1> DEFINE recs == ReadExtents(inode)
           file == ReadFile(image, inode)
           bs == Blocksize(image)
<1>2. inode.format = "Extents" /\ runs = RunsOf(inode)
  BY <1>1 DEF Of, Answered
<1>3. Id[1] = "Default"
  BY DEF Id
<1>4. Stream(image, inode, Id) = file
  BY <1>3 DEF Stream
<1>5. /\ i \in 1..off /\ off \in Nat
      /\ file.err = "none" => off \in 0..Len(file.val) /\ got[i] = file.val[i]
      /\ file.err # "none" => off = 0
  BY <1>1, <1>4, WhatWasRead
<1>6. file.err = "none"
  <2> HIDE DEF file
  <2> QED
    BY <1>5
<1>7. /\ Len(file.val) = inode.size
      /\ \A j \in 1..inode.size : file.val[j] = FileByte(bs, image.len, inode.size, RecsOf(image, inode), j - 1)
  BY <1>1, <1>6, FileFacts
<1>8. recs \in Seq(Rec) /\ RecsOf(image, inode) = recs
  BY <1>1, <1>2, RecsFacts DEF Decoded
<1>9. inode.size \in Nat /\ image.len \in Nat /\ bs \in Nat /\ image.len <= U64_MAX
  BY <1>1, U64Assumption DEF Decoded, Image, AnyGeometry, Blocksize
<1> HIDE DEF recs, file, bs
<1>10. i \in 1..inode.size
  BY <1>5, <1>6, <1>7, <1>9
<1>11. got[i] = FileByte(bs, image.len, inode.size, recs, i - 1)
  BY <1>5, <1>6, <1>7, <1>8, <1>10
<1>12. PICK j : j = i - 1 /\ j \in 0..(inode.size - 1)
  BY <1>9, <1>10
<1>13. PICK rec \in Elems(recs) : Supplies(bs, image.len, inode.size, rec, j) /\ got[i] = Position(bs, rec, j)
  BY <1>8, <1>9, <1>11, <1>12, ByteFacts
<1>14. PICK k \in 1..Len(recs) : rec = recs[k]
  BY DEF Elems
<1>15. rec \in Rec
  BY <1>8, <1>14
<1> DEFINE start == rec.startblock * bs
           long == rec.blockcount * bs
<1>16. /\ got[i] \in 0..(image.len - 1) /\ start \in Nat /\ long \in Nat
       /\ got[i] - start \in 0..(long - 1)
  BY <1>9, <1>12, <1>13, <1>15, SuppliesFacts
<1>17. runs[k].image_offset = Sat(start) /\ runs[k].len = Sat(long) /\ k \in DOMAIN runs
  BY <1>2, <1>8, <1>14, ExtentRuns DEF recs, bs
<1> HIDE DEF start, long
<1>18. got[i] - Sat(start) \in 0..(Sat(long) - 1)
  BY <1>9, <1>16, U64Assumption DEF Sat
<1> QED
  BY <1>17, <1>18

(* No byte read of an extent-list file lies outside the runs that extents  *)
(* reports of it.                                                          *)
THEOREM RunsAlwaysHoldTheFile == Spec => []RunsHoldTheFile
  BY Invariant, InvRuns, PTL

LEMMA InvAdapter == Inv => AdapterAgrees
<1> SUFFICES ASSUME Inv, pc = "returned", Whole PROVE AdapterAgrees
  BY DEF AdapterAgrees, PathReturned
<1>1. Held /\ session \notin {"closed", "unopened"}
  BY DEF Inv, SessionInv, Whole
<1>2. Image(volume) /\ path \in Seq(STRING) /\ Image(image) /\ Len(path) \in Nat
  BY <1>1, HeldImage DEF Inv
<1>3. volume.len \in Nat /\ volume.len \in 0..volume.len
  BY <1>2, U64Assumption DEF Image
<1>4. image = volume
  BY <1>1, <1>2, <1>3, CutFacts DEF Whole, Held
<1>5. Outcome(volume, path, result)
  BY DEF Inv, PathInv
<1> DEFINE L == Reach(image, path, "lax")[Len(path)]
<1>6. /\ \A a, b \in L : a = b
      /\ Reach(image, path, "strict")[Len(path)] \subseteq L
  <2>1. Len(path) \in 0..Len(path)
    BY <1>2
  <2> QED
    BY <1>2, <2>1, ReachFacts, StrictInLax
<1>7. /\ result.err = "none" => \E n \in L : Readable(image, n)
                                   /\ result = ReadFile(image, ReadInode(image, n).val)
      /\ result.err \notin {"none", "PathNotFound"} => \A n \in L : ~Readable(image, n)
  BY <1>4, <1>5, <1>6 DEF Outcome
<1>8. session \in {"missing", "failed"} => \A n \in L : ReadInode(image, n).err # "none"
  BY DEF Inv, SessionInv, Nowhere
<1>9. Known => node \in L /\ ReadInode(image, node).err = "none"
  BY DEF Inv, SessionInv, Found
<1>10. ASSUME Known, stream = 1
       PROVE  LET file == ReadFile(image, ReadInode(image, node).val)
              IN  /\ session = "refused" => file.err # "none"
                  /\ session = "done" => file.err = "none" /\ got = file.val
  <2>1. Id[1] = "Default"
    BY <1>10 DEF Id
  <2>2. Stream(image, ReadInode(image, node).val, Id) = ReadFile(image, ReadInode(image, node).val)
    BY <2>1 DEF Stream
  <2> QED
    BY <1>10, <2>2, WhatWasRead
<1> HIDE DEF L
<1>11. ASSUME result.err = "none"
       PROVE  /\ session \notin {"missing", "failed"} /\ ~(session = "refused" /\ stream = 1)
              /\ ReadsTheData => got = result.val
  <2>1. PICK n \in L : Readable(image, n) /\ result = ReadFile(image, ReadInode(image, n).val)
    BY <1>7, <1>11
  <2>2. ReadInode(image, n).err = "none" /\ ReadFile(image, ReadInode(image, n).val).err = "none"
    BY <2>1 DEF Readable
  <2>3. session \notin {"missing", "failed"}
    BY <1>8, <2>2
  <2>4. Known => node = n
    BY <1>6, <1>9
  <2>5. ~(session = "refused" /\ stream = 1)
    BY <1>10, <2>2, <2>4 DEF Known
  <2>6. ReadsTheData => got = result.val
    BY <1>10, <2>1, <2>4 DEF Known, ReadsTheData
  <2> QED
    BY <2>3, <2>5, <2>6
<1>12. ASSUME result.err # "none", ReadsTheData
       PROVE  /\ result.err = "PathNotFound"
              /\ \/ path = <<>>
                 \/ \E k \in 1..(Len(path) - 1) : \E n \in Way[k] : ~IsDir(ReadInode(volume, n).val)
  <2>1. Known /\ stream = 1 /\ session = "done"
    BY <1>12 DEF Known, ReadsTheData
  <2>2. node \in L /\ Readable(image, node)
    BY <1>9, <1>10, <2>1 DEF Readable
  <2>3. result.err = "PathNotFound"
    BY <1>7, <1>12, <2>2
  <2>4. path = <<>> \/ Reach(volume, path, "strict")[Len(path)] = {}
    BY <1>5, <2>3 DEF Outcome
  <2>5. Reach(volume, path, "strict")[Len(path)] # Reach(volume, path, "lax")[Len(path)] \/ path = <<>>
    BY <1>4, <2>2, <2>4 DEF L
  <2>6. path = <<>> \/ \E k \in 1..(Len(path) - 1) : \E n \in Reach(volume, path, "lax")[k] :
                          ~IsDir(ReadInode(volume, n).val)
    BY <1>2, <2>5, SameThroughDirectories
  <2>7. \A k \in 1..(Len(path) - 1) : Way[k] = Reach(volume, path, "lax")[k]
    BY <1>2, WayReached
  <2> QED
    BY <2>3, <2>6, <2>7
<1>13. Known => node \in Way[Len(path)]
  <2>1. Len(path) \in 0..Len(path)
    BY <1>2
  <2>2. Way[Len(path)] = L
    BY <1>2, <1>4, <2>1, WayReached DEF L
  <2> QED
    BY <1>9, <2>2
<1> QED
  BY <1>11, <1>12, <1>13, Zenon DEF AdapterAgrees

(* The two readers of a volume agree: the adapter's node is where the      *)
(* names lead; what read_by_path reads, the adapter finds by lookup or     *)
(* read_dir and its windows add up to; and only on the empty path, or      *)
(* through an inode that is no directory, does the adapter find a file     *)
(* that read_by_path does not.                                             *)
THEOREM AdapterAlwaysAgrees == Spec => []AdapterAgrees
  BY Invariant, InvAdapter, PTL


-----------------------------------------------------------------------------
(* A volume of which the source returned less.                             *)
Disjoint(recs) ==
    \A j, k \in DOMAIN recs : j # k =>
        \/ recs[j].startoff + recs[j].blockcount <= recs[k].startoff
        \/ recs[k].startoff + recs[k].blockcount <= recs[j].startoff
DistinctNames(es) == \A j, k \in DOMAIN es : es[j].name = es[k].name => j = k

LEMMA RecTypes ==
    ASSUME NEW r \in Rec, NEW bs \in Nat
    PROVE  /\ r.startoff \in Nat /\ r.startblock \in Nat /\ r.blockcount \in Nat /\ r.leaf \in Nat
           /\ r.startoff + r.blockcount \in Nat
           /\ r.startoff * bs \in Nat /\ r.startblock * bs \in Nat
           /\ (r.startoff + r.blockcount) * bs \in Nat
<1>1. r.startoff \in Nat /\ r.startblock \in Nat /\ r.blockcount \in Nat /\ r.leaf \in Nat
  BY DEF Rec
<1> QED
  BY <1>1

LEMMA CutByte ==
    ASSUME NEW bs \in Nat, NEW len \in Nat, NEW m \in 0..len, NEW size \in Nat,
           NEW all \in Seq(Rec), Disjoint(all), NEW few \in Seq(Rec), NEW many \in Seq(Rec),
           Elems(few) \subseteq Elems(many), Elems(many) \subseteq Elems(all),
           NEW i \in 0..(size - 1)
    PROVE  FileByte(bs, m, size, few, i) \in {FileByte(bs, len, size, many, i), Hole}
<1> DEFINE a == FileByte(bs, m, size, few, i)
           b == FileByte(bs, len, size, many, i)
<1> SUFFICES ASSUME a # Hole PROVE a = b
  OBVIOUS
<1>0. m \in Nat /\ m <= len
  OBVIOUS
<1>1. PICK r \in Elems(few) : Supplies(bs, m, size, r, i) /\ a = Position(bs, r, i)
  BY <1>0, ByteFacts
<1>2. r \in Elems(many) /\ r \in Elems(all)
  OBVIOUS
<1>3. PICK j \in 1..Len(all) : r = all[j]
  BY <1>2 DEF Elems
<1>4. r \in Rec /\ j \in DOMAIN all
  BY <1>3
<1>5. Supplies(bs, len, size, r, i)
  <2> DEFINE p == Position(bs, r, (IF (r.startoff + r.blockcount) * bs <= size
                                   THEN (r.startoff + r.blockcount) * bs ELSE size) - 1)
  <2>1. Within(bs, r, i) /\ p < m
    BY <1>1 DEF Supplies
  <2>2. p \in Int
    <3> DEFINE A == r.startblock * bs
               B == r.startoff * bs
               E == (r.startoff + r.blockcount) * bs
    <3>1. A \in Nat /\ B \in Nat /\ E \in Nat
      BY <1>4, RecTypes
    <3>2. p = A + ((IF E <= size THEN E ELSE size) - 1 - B)
      BY DEF Position
    <3> HIDE DEF A, B, E, p
    <3> QED
      BY <3>1, <3>2
  <2>3. p < len
    <3> HIDE DEF p
    <3> QED
      BY <1>0, <2>1, <2>2
  <2> QED
    BY <2>1, <2>3 DEF Supplies
<1>5a. bs \in Nat /\ len \in Nat /\ size \in Nat /\ many \in Seq(Rec) /\ i \in 0..(size - 1)
  OBVIOUS
<1>6. b # Hole
  BY ONLY <1>2, <1>5, <1>5a, ByteFacts
<1>7. PICK q \in Elems(many) : Supplies(bs, len, size, q, i) /\ b = Position(bs, q, i)
  BY ONLY <1>6, <1>5a, ByteFacts
<1>8. PICK k \in 1..Len(all) : q = all[k]
  <2>1. q \in Elems(all)
    OBVIOUS
  <2> QED
    BY <2>1 DEF Elems
<1>9. q \in Rec /\ k \in DOMAIN all
  BY <1>8
<1>10. j = k
  <2> DEFINE A == r.startoff * bs
             B == (r.startoff + r.blockcount) * bs
             C == q.startoff * bs
             D == (q.startoff + q.blockcount) * bs
  <2>1. A <= i /\ i < B /\ C <= i /\ i < D
    BY <1>5, <1>7 DEF Supplies, Within
  <2>2. /\ r.startoff \in Nat /\ q.startoff \in Nat
        /\ r.startoff + r.blockcount \in Nat /\ q.startoff + q.blockcount \in Nat
    BY <1>4, <1>9, RecTypes
  <2>3. A \in Nat /\ B \in Nat /\ C \in Nat /\ D \in Nat /\ i \in Nat
    BY <1>4, <1>9, RecTypes
  <2>4. r.startoff + r.blockcount <= q.startoff => B <= C
    BY <2>2, Monotone
  <2>5. q.startoff + q.blockcount <= r.startoff => D <= A
    BY <2>2, Monotone
  <2>6. j # k => \/ r.startoff + r.blockcount <= q.startoff
                 \/ q.startoff + q.blockcount <= r.startoff
    BY <1>3, <1>4, <1>8, <1>9 DEF Disjoint
  <2> HIDE DEF A, B, C, D
  <2> QED
    BY <2>1, <2>3, <2>4, <2>5, <2>6
<1> QED
  BY <1>1, <1>3, <1>7, <1>8, <1>10

LEMMA CutBlock ==
    ASSUME NEW v, Image(v), NEW m \in 0..v.len, NEW n \in Nat
    PROVE  /\ Blocksize(Cut(v, m)) = Blocksize(v)
           /\ BlockInImage(Cut(v, m), n) => BlockInImage(v, n)
<1>1. Cut(v, m).len = m /\ Cut(v, m).sb = v.sb
  BY CutFacts
<1>2. Blocksize(Cut(v, m)) = Blocksize(v)
  BY <1>1 DEF Blocksize
<1> DEFINE e == (n + 1) * Blocksize(v)
<1>3. e \in Nat /\ v.len \in Nat
  <2>1. Blocksize(v) \in Nat
    BY DEF Image, AnyGeometry, Blocksize
  <2> QED
    BY <2>1, U64Assumption DEF Image
<1>4. BlockInImage(Cut(v, m), n) <=> e <= m
  BY <1>1, <1>2 DEF BlockInImage
<1>5. BlockInImage(v, n) <=> e <= v.len
  BY DEF BlockInImage
<1> HIDE DEF e
<1> QED
  BY <1>2, <1>3, <1>4, <1>5

LEMMA CutRecs ==
    ASSUME NEW v, Image(v), NEW m \in 0..v.len, NEW inode, inode.fork \in Fork, inode.nextents \in Nat
    PROVE  Elems(RecsOf(Cut(v, m), inode)) \subseteq Elems(RecsOf(v, inode))
<1> DEFINE c == Cut(v, m)
           s == inode.fork.recs
<1>1. s \in Seq(Rec) /\ \A k \in 1..Len(s) : s[k].leaf \in Nat
  <2>1. s \in Seq(Rec)
    BY DEF Fork
  <2> HIDE DEF s
  <2>2. ASSUME NEW k \in 1..Len(s) PROVE s[k].leaf \in Nat
    <3>1. s[k] \in Rec
      BY <2>1
    <3> QED
      BY <3>1 DEF Rec
  <2> QED
    BY <2>1, <2>2
<1>2. CASE inode.format = "Extents"
  BY <1>2, RecsFacts
<1>3. CASE inode.format = "Btree"
  <2> SUFFICES ASSUME NEW x \in Elems(RecsOf(c, inode)) PROVE x \in Elems(RecsOf(v, inode))
    OBVIOUS
  <2>1. PICK k \in 1..Len(s) : BlockInImage(c, s[k].leaf) /\ x = s[k]
    BY <1>3, RecsFacts
  <2>2. BlockInImage(v, s[k].leaf)
    BY <1>1, <2>1, CutBlock
  <2> QED
    BY <1>3, <2>1, <2>2, RecsFacts
<1>4. CASE inode.format \notin {"Extents", "Btree"}
  BY <1>4, RecsFacts
<1> QED
  BY <1>2, <1>3, <1>4

LEMMA CutFile ==
    ASSUME NEW v, Image(v), NEW m \in 0..v.len, NEW at, NEW inode, Decoded(Cut(v, m), at, inode),
           Disjoint(inode.fork.recs), ReadFile(Cut(v, m), inode).err = "none"
    PROVE  LET part == ReadFile(Cut(v, m), inode).val
               file == ReadFile(v, inode).val
           IN  /\ ReadFile(v, inode).err = "none"
               /\ Len(part) = inode.size /\ Len(file) = inode.size /\ inode.size \in Nat
               /\ \A i \in 1..inode.size : part[i] \in {file[i], Hole}
<1> DEFINE c == Cut(v, m)
<1>1. /\ Image(c) /\ c.len = m /\ c.sb = v.sb /\ c.slots = v.slots /\ v.len \in Nat /\ m <= v.len
      /\ Blocksize(c) = Blocksize(v)
  <2>1. Blocksize(c) = Blocksize(v)
    BY CutFacts DEF Blocksize
  <2> QED
    BY <2>1, CutFacts, U64Assumption DEF Image
<1> HIDE DEF c
<1>2. Decoded(c, at, inode) /\ ReadFile(c, inode).err = "none"
  BY DEF c
<1>3. /\ inode.size \in Nat /\ inode.nextents \in Nat /\ inode.fork \in Fork
      /\ inode.fork.recs \in Seq(Rec)
  BY <1>2 DEF Decoded, Fork
<1>4. Decoded(v, at, inode)
  <2>1. /\ at \in DOMAIN v.slots /\ at + v.sb.geo.inodesize <= m
        /\ inode.fork_len \in 0..v.sb.geo.inodesize
        /\ \A k \in DOMAIN inode.fork.attrs : InPlace(v.sb.geo, at, inode.fork.attrs[k])
    BY <1>1, <1>2 DEF Decoded
  <2>2. at \in Nat /\ v.sb.geo.inodesize \in Nat
    BY <2>1 DEF Image, AnyGeometry
  <2>3. at + v.sb.geo.inodesize <= v.len
    BY <1>1, <2>1, <2>2
  <2> QED
    BY <1>3, <2>1, <2>3 DEF Decoded
<1>5. /\ Len(ReadFile(c, inode).val) = inode.size /\ inode.size <= m
      /\ \A i \in 1..inode.size : ReadFile(c, inode).val[i] =
            FileByte(Blocksize(v), m, inode.size, RecsOf(c, inode), i - 1)
  BY <1>1, <1>2, FileFacts
<1>6. ReadFile(v, inode).err = "none"
  <2>1. ~(inode.size > v.len)
    BY <1>1, <1>3, <1>5
  <2> QED
    BY <2>1 DEF ReadFile, Ok
<1>7. /\ Len(ReadFile(v, inode).val) = inode.size
      /\ \A i \in 1..inode.size : ReadFile(v, inode).val[i] =
            FileByte(Blocksize(v), v.len, inode.size, RecsOf(v, inode), i - 1)
  BY <1>4, <1>6, FileFacts
<1>8. /\ RecsOf(c, inode) \in Seq(Rec) /\ RecsOf(v, inode) \in Seq(Rec)
      /\ Elems(RecsOf(v, inode)) \subseteq Elems(inode.fork.recs)
      /\ Elems(RecsOf(c, inode)) \subseteq Elems(RecsOf(v, inode))
  BY <1>3, RecsFacts, CutRecs DEF c
<1>9. Blocksize(v) \in Nat
  BY DEF Image, AnyGeometry, Blocksize
<1>10. ASSUME NEW i \in 1..inode.size
       PROVE  ReadFile(c, inode).val[i] \in {ReadFile(v, inode).val[i], Hole}
  <2>1. PICK j : j = i - 1 /\ j \in 0..(inode.size - 1)
    BY <1>3
  <2>2. FileByte(Blocksize(v), m, inode.size, RecsOf(c, inode), j)
          \in {FileByte(Blocksize(v), v.len, inode.size, RecsOf(v, inode), j), Hole}
    BY <1>1, <1>3, <1>8, <1>9, <2>1, CutByte
  <2> QED
    BY <1>5, <1>7, <2>1, <2>2
<1> QED
  BY <1>3, <1>5, <1>6, <1>7, <1>10 DEF c


LEMMA BlockDirFacts ==
    ASSUME NEW v, NEW inode
    PROVE  LET block == ReadFile(v, inode)
               n == block.val[1] \div Blocksize(v)
               good == block.err = "none" /\ block.val[1] # Hole /\ n \in DOMAIN v.blocks
                          /\ v.blocks[n].magic = "block"
           IN  /\ BlockDir(v, inode).err = "none" <=> good
               /\ good => BlockDir(v, inode).val = v.blocks[n].entries[HasFtype(v.sb)]
<1> DEFINE block == ReadFile(v, inode)
           n == block.val[1] \div Blocksize(v)
           es == v.blocks[n].entries[HasFtype(v.sb)]
<1>1. BlockDir(v, inode) =
        CASE block.err # "none" -> block
          [] block.err = "none" /\ block.val[1] # Hole /\ n \in DOMAIN v.blocks
                /\ v.blocks[n].magic = "block" -> Ok(es)
          [] OTHER -> Fail("UnsupportedDir")
  BY Zenon DEF BlockDir
<1>2. Ok(es).err = "none" /\ Ok(es).val = es /\ Fail("UnsupportedDir").err # "none"
  BY DEF Ok, Fail
<1> HIDE DEF block, n, es
<1>3. CASE block.err # "none"
  BY <1>1, <1>3 DEF block, n, es
<1>4. CASE block.err = "none" /\ block.val[1] # Hole /\ n \in DOMAIN v.blocks /\ v.blocks[n].magic = "block"
  <2>1. BlockDir(v, inode) = Ok(es)
    BY <1>1, <1>4
  <2> QED
    BY <1>2, <1>4, <2>1 DEF block, n, es
<1>5. CASE block.err = "none" /\ ~(block.val[1] # Hole /\ n \in DOMAIN v.blocks /\ v.blocks[n].magic = "block")
  <2>1. BlockDir(v, inode) = Fail("UnsupportedDir")
    BY <1>1, <1>5
  <2> QED
    BY <1>2, <1>5, <2>1 DEF block, n, es
<1> QED
  BY <1>3, <1>4, <1>5

LEMMA DirKinds ==
    ASSUME NEW v, NEW inode
    PROVE  ReadDir(v, inode) =
             IF inode.format = "Local" THEN Ok(inode.fork.short[HasFtype(v.sb)])
             ELSE IF inode.format = "Extents" /\ inode.size = Blocksize(v) THEN BlockDir(v, inode)
             ELSE IF inode.format \in {"Extents", "Btree"} THEN Ok(MultiblockDir(v, RecsOf(v, inode)))
             ELSE Fail("UnsupportedDir")
  BY DEF ReadDir

(* What is still listed was listed of the whole volume.                    *)
LEMMA CutDir ==
    ASSUME NEW v, Image(v), NEW m \in 0..v.len, NEW at, NEW inode, Decoded(Cut(v, m), at, inode),
           Disjoint(inode.fork.recs), ReadDir(Cut(v, m), inode).err = "none"
    PROVE  /\ ReadDir(v, inode).err = "none"
           /\ Elems(ReadDir(Cut(v, m), inode).val) \subseteq Elems(ReadDir(v, inode).val)
<1> DEFINE c == Cut(v, m)
<1>1. /\ Image(c) /\ c.sb = v.sb /\ c.blocks = v.blocks /\ Blocksize(c) = Blocksize(v)
  BY CutFacts, CutBlock DEF Blocksize
<1>2. Decoded(c, at, inode) /\ ReadDir(c, inode).err = "none"
  OBVIOUS
<1>3. /\ inode.size \in Nat /\ inode.nextents \in Nat /\ inode.fork \in Fork
  BY <1>2 DEF Decoded
<1>4. CASE inode.format = "Local"
  <2>1. ReadDir(c, inode) = ReadDir(v, inode)
    BY <1>1, <1>4, DirKinds
  <2> QED
    BY <1>2, <2>1
<1>5. CASE inode.format = "Extents" /\ inode.size = Blocksize(v)
  <2> DEFINE part == ReadFile(c, inode)
             file == ReadFile(v, inode)
  <2>1. ReadDir(c, inode) = BlockDir(c, inode) /\ ReadDir(v, inode) = BlockDir(v, inode)
    BY <1>1, <1>5, DirKinds
  <2>2. part.err = "none" /\ part.val[1] # Hole
    BY <1>2, <2>1, BlockDirFacts
  <2>3. file.err = "none" /\ \A i \in 1..inode.size : part.val[i] \in {file.val[i], Hole}
    BY <2>2, CutFile
  <2>4. 1 \in 1..inode.size
    BY <1>3, <1>5 DEF Image, AnyGeometry, Blocksize
  <2>5. part.val[1] = file.val[1]
    BY <2>2, <2>3, <2>4
  <2> HIDE DEF c
  <2>6. BlockDir(v, inode).err = "none" /\ BlockDir(v, inode).val = BlockDir(c, inode).val
    BY <1>1, <1>2, <2>1, <2>3, <2>5, BlockDirFacts
  <2> QED
    BY <2>1, <2>6 DEF c
<1>6. CASE inode.format \in {"Extents", "Btree"} /\ ~(inode.format = "Extents" /\ inode.size = Blocksize(v))
  <2> DEFINE few == RecsOf(c, inode)
             many == RecsOf(v, inode)
  <2>1. ReadDir(c, inode) = Ok(MultiblockDir(c, few)) /\ ReadDir(v, inode) = Ok(MultiblockDir(v, many))
    BY <1>1, <1>6, DirKinds
  <2>2. few \in Seq(Rec) /\ many \in Seq(Rec) /\ Elems(few) \subseteq Elems(many)
    BY <1>3, RecsFacts, CutRecs
  <2>3. \A n \in Nat : BlockInImage(c, n) => BlockInImage(v, n)
    BY CutBlock
  <2> HIDE DEF c, few, many
  <2>4. ASSUME NEW e \in Elems(MultiblockDir(c, few)) PROVE e \in Elems(MultiblockDir(v, many))
    <3>0. PICK k \in 1..Len(few) :
             /\ ~(few[k].startoff >= LeafBoundary)
             /\ \E b \in 1..few[k].blockcount : e \in Elems(Listed(c, few[k].startblock + b - 1))
      BY <1>1, <2>2, MultiblockFacts
    <3>1. PICK b \in 1..few[k].blockcount :
             ~(few[k].startoff >= LeafBoundary) /\ e \in Elems(Listed(c, few[k].startblock + b - 1))
      BY <3>0
    <3>2. PICK j \in 1..Len(many) : few[k] = many[j]
      BY <2>2 DEF Elems
    <3>3. few[k] \in Rec
      BY <2>2
    <3>4. PICK n : n = few[k].startblock + b - 1
      OBVIOUS
    <3>5. n \in Nat
      <4>1. few[k].startblock \in Nat /\ b \in Nat \ {0}
        BY <3>3 DEF Rec
      <4> QED
        BY <3>4, <4>1
    <3>6. e \in Elems(Listed(v, n))
      <4>1. Elems(<<>>) = {}
        BY DEF Elems
      <4>2. e \in Elems(Listed(c, n))
        BY <3>1, <3>4
      <4>3. BlockInImage(c, n) /\ n \in DOMAIN c.blocks /\ c.blocks[n].magic = "data"
        BY <4>1, <4>2 DEF Listed
      <4>4. Listed(c, n) = c.blocks[n].entries[HasFtype(c.sb)]
        BY <4>3 DEF Listed
      <4>5. Listed(v, n) = v.blocks[n].entries[HasFtype(v.sb)]
        BY <1>1, <2>3, <3>5, <4>3 DEF Listed
      <4> QED
        BY <1>1, <4>2, <4>4, <4>5
    <3>7. \E i \in 1..Len(many) :
             /\ ~(many[i].startoff >= LeafBoundary)
             /\ \E x \in 1..many[i].blockcount : e \in Elems(Listed(v, many[i].startblock + x - 1))
      BY <3>1, <3>2, <3>4, <3>6
    <3> QED
      BY <2>2, <3>7, MultiblockFacts
  <2>5. ReadDir(v, inode).err = "none"
    BY <2>1 DEF Ok
  <2>6. ReadDir(c, inode).val = MultiblockDir(c, few) /\ ReadDir(v, inode).val = MultiblockDir(v, many)
    BY <2>1 DEF Ok
  <2>7. Elems(ReadDir(c, inode).val) \subseteq Elems(ReadDir(v, inode).val)
    BY <2>4, <2>6
  <2> QED
    BY <2>5, <2>7 DEF c
<1>7. CASE inode.format \notin {"Local", "Extents", "Btree"}
  <2>1. ReadDir(c, inode) = Fail("UnsupportedDir")
    BY <1>7, DirKinds
  <2> QED
    BY <1>2, <2>1 DEF Fail
<1> QED
  BY <1>4, <1>5, <1>6, <1>7


LEMMA CutInode ==
    ASSUME NEW v, Image(v), NEW m \in 0..v.len, NEW n \in Nat, ReadInode(Cut(v, m), n).err = "none"
    PROVE  ReadInode(v, n) = ReadInode(Cut(v, m), n)
<1> DEFINE c == Cut(v, m)
           at == InodeToLocation(v.sb.geo, n)
           size == v.sb.geo.inodesize
           parsed == Parse(v.slots[at], HasNrext64(v.sb), size)
<1>1. c.len = m /\ c.sb = v.sb /\ c.slots = v.slots /\ v.len \in Nat /\ m \in Nat /\ m <= v.len
  BY CutFacts, U64Assumption DEF Image
<1>2. at \in Nat /\ size \in Nat
  BY LocationFacts DEF Image, AnyGeometry
<1>3. ReadInode(c, n) = IF at + size > m THEN Fail("Truncated")
                        ELSE IF at \notin DOMAIN v.slots THEN Fail("BadMagic") ELSE parsed
  BY <1>1 DEF ReadInode
<1>4. ReadInode(v, n) = IF at + size > v.len THEN Fail("Truncated")
                        ELSE IF at \notin DOMAIN v.slots THEN Fail("BadMagic") ELSE parsed
  BY DEF ReadInode
<1>5. ReadInode(c, n).err = "none"
  OBVIOUS
<1> HIDE DEF c, at, size, parsed
<1>6. ~(at + size > m) /\ at \in DOMAIN v.slots
  BY <1>3, <1>5 DEF Fail
<1>7. ~(at + size > v.len)
  BY <1>1, <1>2, <1>6
<1> QED
  BY <1>3, <1>4, <1>6, <1>7 DEF c

LEMMA SaneFacts ==
    ASSUME Sane, NEW n, ReadInode(volume, n).err = "none"
    PROVE  LET inode == ReadInode(volume, n).val
           IN  /\ Disjoint(inode.fork.recs)
               /\ ReadDir(volume, inode).err = "none" => DistinctNames(ReadDir(volume, inode).val)
<1> DEFINE at == InodeToLocation(volume.sb.geo, n)
           parsed == Parse(volume.slots[at], HasNrext64(volume.sb), volume.sb.geo.inodesize)
<1>1. at \in DOMAIN volume.slots /\ ReadInode(volume, n) = parsed
  BY DEF ReadInode, Fail
<1>2. parsed.err = "none" =>
        LET recs == parsed.val.fork.recs
            listing == ReadDir(volume, parsed.val)
        IN  /\ \A j, k \in DOMAIN recs : j # k =>
                 \/ recs[j].startoff + recs[j].blockcount <= recs[k].startoff
                 \/ recs[k].startoff + recs[k].blockcount <= recs[j].startoff
            /\ listing.err = "none" =>
                 \A j, k \in DOMAIN listing.val : listing.val[j].name = listing.val[k].name => j = k
  BY <1>1 DEF Sane
<1> HIDE DEF parsed, at
<1> QED
  BY <1>1, <1>2 DEF Disjoint, DistinctNames

LEMMA CutChild ==
    ASSUME NEW v, Image(v), NEW m \in 0..v.len, NEW n \in Nat, NEW name,
           ReadInode(v, n).err = "none" =>
             /\ Disjoint(ReadInode(v, n).val.fork.recs)
             /\ ReadDir(v, ReadInode(v, n).val).err = "none" => DistinctNames(ReadDir(v, ReadInode(v, n).val).val)
    PROVE  Child(Cut(v, m), n, name) \subseteq Child(v, n, name)
<1> DEFINE c == Cut(v, m)
           inode == ReadInode(c, n).val
           few == ReadDir(c, inode).val
           many == ReadDir(v, inode).val
<1> SUFFICES ASSUME NEW x \in Child(c, n, name) PROVE x \in Child(v, n, name)
  OBVIOUS
<1>1. /\ ReadInode(c, n).err = "none" /\ ReadDir(c, inode).err = "none"
      /\ Named(few, name) # {} /\ x = First(few, name).inode
  BY DEF Child
<1>2. ReadInode(v, n).err = "none" /\ ReadInode(v, n).val = inode
  BY <1>1, CutInode
<1>3. Image(c)
  BY CutFacts
<1>4. PICK at : Decoded(c, at, inode)
  BY <1>1, <1>3, InodeFacts
<1>5. PICK vat : Decoded(v, vat, inode)
  BY <1>2, InodeFacts
<1>6. ReadDir(v, inode).err = "none" /\ Elems(few) \subseteq Elems(many)
  BY <1>1, <1>2, <1>4, CutDir
<1>7. few \in Seq(Entry) /\ many \in Seq(Entry)
  BY <1>1, <1>3, <1>4, <1>5, <1>6, ListingType
<1>8. DistinctNames(many)
  BY <1>2, <1>6
<1>9. Child(v, n, name) = IF Named(many, name) # {} THEN {First(many, name).inode} ELSE {}
  BY <1>2, <1>6 DEF Child
<1> HIDE DEF c, inode, few, many
<1>10. First(few, name) \in Elems(many) /\ First(few, name).name = name
  BY <1>1, <1>6, <1>7, FirstFacts
<1>11. PICK j \in 1..Len(many) : First(few, name) = many[j]
  BY <1>10 DEF Elems
<1>12. j \in Named(many, name)
  BY <1>7, <1>10, <1>11 DEF Named
<1>13. First(many, name) \in Elems(many) /\ First(many, name).name = name
  BY <1>7, <1>12, FirstFacts
<1>14. PICK k \in 1..Len(many) : First(many, name) = many[k]
  BY <1>13 DEF Elems
<1>15. j = k
  <2>1. j \in DOMAIN many /\ k \in DOMAIN many
    BY <1>7
  <2> QED
    BY <1>8, <1>10, <1>11, <1>13, <1>14, <2>1 DEF DistinctNames
<1> QED
  BY <1>1, <1>9, <1>11, <1>12, <1>14, <1>15

LEMMA CutReach ==
    ASSUME Image(volume), path \in Seq(STRING), Sane, NEW m \in 0..volume.len
    PROVE  \A k \in 0..Len(path) :
             Reach(Cut(volume, m), path, "lax")[k] \subseteq Reach(volume, path, "lax")[k]
<1> DEFINE c == Cut(volume, m)
           R == Reach(c, path, "lax")
           L == Reach(volume, path, "lax")
           U == {k \in Nat : k <= Len(path) => R[k] \subseteq L[k]}
<1>0. Len(path) \in Nat /\ Image(c) /\ c.sb = volume.sb
  BY CutFacts
<1>1. /\ R[0] = {volume.sb.rootino}
      /\ \A k \in 1..Len(path) : R[k] = UNION {StepOf(c, path, "lax", n, k) : n \in R[k - 1]}
      /\ \A k \in 0..Len(path) : R[k] \subseteq Nat
  BY <1>0, ReachFacts
<1>2. /\ L[0] = {volume.sb.rootino}
      /\ \A k \in 1..Len(path) : L[k] = UNION {StepOf(volume, path, "lax", n, k) : n \in L[k - 1]}
  BY ReachFacts
<1>3. \A n \in Nat, k \in Nat : StepOf(c, path, "lax", n, k) \subseteq StepOf(volume, path, "lax", n, k)
  <2> SUFFICES ASSUME NEW n \in Nat, NEW k \in Nat
               PROVE  StepOf(c, path, "lax", n, k) \subseteq StepOf(volume, path, "lax", n, k)
    OBVIOUS
  <2>1. ReadInode(volume, n).err = "none" =>
          /\ Disjoint(ReadInode(volume, n).val.fork.recs)
          /\ ReadDir(volume, ReadInode(volume, n).val).err = "none"
               => DistinctNames(ReadDir(volume, ReadInode(volume, n).val).val)
    BY SaneFacts
  <2>2. Child(c, n, path[k]) \subseteq Child(volume, n, path[k])
    BY <2>1, CutChild
  <2> HIDE DEF c
  <2> QED
    BY <1>0, <2>2, StepFacts
<1> HIDE DEF c, R, L
<1>4. 0 \in U
  BY <1>1, <1>2
<1>5. ASSUME NEW k \in Nat, k \in U PROVE k + 1 \in U
  <2> SUFFICES ASSUME k + 1 <= Len(path) PROVE R[k + 1] \subseteq L[k + 1]
    OBVIOUS
  <2>1. k + 1 \in 1..Len(path) /\ (k + 1) - 1 = k /\ k \in 0..Len(path)
    BY <1>0
  <2>2. R[k + 1] = UNION {StepOf(c, path, "lax", n, k + 1) : n \in R[k]}
    BY <1>1, <2>1
  <2>3. L[k + 1] = UNION {StepOf(volume, path, "lax", n, k + 1) : n \in L[k]}
    BY <1>2, <2>1
  <2>4. R[k] \subseteq L[k] /\ R[k] \subseteq Nat
    BY <1>1, <1>5, <2>1
  <2>5. \A n \in R[k] : StepOf(c, path, "lax", n, k + 1) \subseteq StepOf(volume, path, "lax", n, k + 1)
    BY <1>3, <2>4
  <2> QED
    BY <2>2, <2>3, <2>4, <2>5
<1>6. Nat \subseteq U
  <2> HIDE DEF U
  <2> QED
    BY <1>4, <1>5, Induction
<1> QED
  BY <1>6 DEF R, L, c

LEMMA InvOnlyLoses == Inv => ShortSourceOnlyLoses
<1> SUFFICES ASSUME Inv, pc = "returned", result.err = "none", session = "done", stream = 1, Sane
             PROVE  /\ Len(got) = Len(result.val)
                    /\ \A i \in DOMAIN got : got[i] \in {result.val[i], Hole}
  BY DEF ShortSourceOnlyLoses, PathReturned, ReadsTheData
<1>1. Known /\ Held /\ Found(image, path, node) /\ node \in Nat
  BY DEF Inv, SessionInv, Known
<1>2. Image(volume) /\ path \in Seq(STRING) /\ Image(image) /\ Len(path) \in Nat
  BY <1>1, HeldImage DEF Inv
<1>3. PICK m \in 0..volume.len : image = Cut(volume, m)
  BY <1>1 DEF Held
<1>4. /\ \A a, b \in Reach(volume, path, "lax")[Len(path)] : a = b
      /\ Reach(volume, path, "strict")[Len(path)] \subseteq Reach(volume, path, "lax")[Len(path)]
      /\ Reach(image, path, "lax")[Len(path)] \subseteq Reach(volume, path, "lax")[Len(path)]
  <2>1. Len(path) \in 0..Len(path)
    BY <1>2
  <2> QED
    BY <1>2, <1>3, <2>1, ReachFacts, StrictInLax, CutReach
<1>5. PICK n \in Reach(volume, path, "strict")[Len(path)] :
          Readable(volume, n) /\ result = ReadFile(volume, ReadInode(volume, n).val)
  BY DEF Inv, PathInv, Outcome
<1>6. node = n
  BY <1>1, <1>4, <1>5 DEF Found
<1>7. ReadInode(image, node).err = "none" /\ ReadInode(volume, node) = ReadInode(image, node)
  BY <1>1, <1>2, <1>3, CutInode DEF Found
<1>8. PICK inode : inode = ReadInode(image, node).val
  OBVIOUS
<1>9. result = ReadFile(volume, inode)
  BY <1>5, <1>6, <1>7, <1>8
<1>10. PICK at : Decoded(image, at, inode)
  BY <1>1, <1>2, <1>7, <1>8, InodeFacts
<1>11. Disjoint(inode.fork.recs)
  BY <1>7, <1>8, SaneFacts
<1>12. ReadFile(image, inode).err = "none" /\ got = ReadFile(image, inode).val
  <2>1. Id[1] = "Default"
    BY DEF Id
  <2>2. Stream(image, ReadInode(image, node).val, Id) = ReadFile(image, inode)
    BY <1>8, <2>1 DEF Stream
  <2> QED
    BY <1>1, <2>2, WhatWasRead
<1>13. /\ Len(got) = inode.size /\ Len(result.val) = inode.size /\ inode.size \in Nat
       /\ \A i \in 1..inode.size : got[i] \in {result.val[i], Hole}
  BY <1>2, <1>3, <1>9, <1>10, <1>11, <1>12, CutFile
<1>14. DOMAIN got = 1..Len(got)
  BY <1>1, WhatWasRead
<1> QED
  BY <1>13, <1>14

(* What the adapter reads of a file of a sane volume, of whatever part its *)
(* source returned, has the file's length, and each byte is the file's own *)
(* or a hole.                                                              *)
THEOREM ShortSourcesOnlyLose == Spec => []ShortSourceOnlyLoses
  BY Invariant, InvOnlyLoses, PTL


-----------------------------------------------------------------------------
(* A bigtime count begins at the least legacy second. *)
BigtimeStamp(t) == (t.secs + TWO_32 \div 2) * NSEC_PER_SEC + t.nsecs

(* Every legacy instant and every bigtime instant from the epoch of the    *)
(* encoding on is read back as it was written (inode.rs:150-171): none is  *)
(* moved by the sign of its seconds or by a carry between the parts.       *)
THEOREM InstantsReadBack ==
    /\ \A secs \in (-(TWO_32 \div 2))..(TWO_32 \div 2 - 1), nsecs \in 0..(TWO_32 - 1) :
          FromLegacy(LegacyOf([secs |-> secs, nsecs |-> nsecs])) = [secs |-> secs, nsecs |-> nsecs]
    /\ \A secs \in Int, nsecs \in 0..(NSEC_PER_SEC - 1) : secs >= -(TWO_32 \div 2) =>
          FromBigtime(BigtimeStamp([secs |-> secs, nsecs |-> nsecs])) = [secs |-> secs, nsecs |-> nsecs]
<1> DEFINE H == TWO_32 \div 2
<1>1. TWO_32 \in Nat \ {0} /\ NSEC_PER_SEC \in Nat \ {0} /\ H \in Nat /\ TWO_32 = H + H
  BY InodeAssumption
<1> HIDE DEF H
<1>2. ASSUME NEW secs \in (-H)..(H - 1), NEW nsecs \in 0..(TWO_32 - 1)
      PROVE  FromLegacy(LegacyOf([secs |-> secs, nsecs |-> nsecs])) = [secs |-> secs, nsecs |-> nsecs]
  <2> DEFINE word == IF secs < 0 THEN secs + TWO_32 ELSE secs
             raw == word * TWO_32 + nsecs
  <2>1. word \in Nat /\ nsecs \in Nat /\ nsecs < TWO_32
    BY <1>1
  <2>2. (IF word < H THEN word ELSE word - TWO_32) = secs
    BY <1>1
  <2>3. LegacyOf([secs |-> secs, nsecs |-> nsecs]) = raw
    BY DEF LegacyOf
  <2> HIDE DEF word
  <2>4. raw \in Nat
    BY <1>1, <2>1
  <2>5. raw \div TWO_32 = word /\ raw % TWO_32 = nsecs
    BY <1>1, <2>1, <2>4, Unique
  <2> HIDE DEF raw
  <2>6. Signed32(word) = secs
    BY <2>2 DEF Signed32, H
  <2> QED
    BY <2>3, <2>5, <2>6 DEF FromLegacy
<1>3. ASSUME NEW secs \in Int, NEW nsecs \in 0..(NSEC_PER_SEC - 1), secs >= -H
      PROVE  FromBigtime(BigtimeStamp([secs |-> secs, nsecs |-> nsecs])) = [secs |-> secs, nsecs |-> nsecs]
  <2> DEFINE count == secs + H
             raw == count * NSEC_PER_SEC + nsecs
  <2>1. count \in Nat /\ nsecs \in Nat /\ nsecs < NSEC_PER_SEC /\ count - H = secs
    BY <1>1, <1>3
  <2>2. BigtimeStamp([secs |-> secs, nsecs |-> nsecs]) = raw
    BY DEF BigtimeStamp, H
  <2> HIDE DEF count
  <2>3. raw \in Nat
    BY <1>1, <2>1
  <2>4. raw \div NSEC_PER_SEC = count /\ raw % NSEC_PER_SEC = nsecs
    BY <1>1, <2>1, <2>3, Unique
  <2> HIDE DEF raw
  <2> QED
    BY <2>1, <2>2, <2>4 DEF FromBigtime, H
<1> QED
  BY <1>2, <1>3 DEF H
(* A stamp is read as the instant it was written for. *)
LEMMA StampFacts ==
    ASSUME NEW raw, NEW stamp \in Nat
    PROVE  Tells(raw, stamp, ToTs(Decode(raw, stamp)))
<1> DEFINE H == TWO_32 \div 2
<1>1. NSEC_PER_SEC \in Nat \ {0} /\ H \in Nat
  BY InodeAssumption
<1>2. CASE Bigtime(raw)
  <2> DEFINE secs == stamp \div NSEC_PER_SEC
             nsecs == stamp % NSEC_PER_SEC
             N == NSEC_PER_SEC
  <2>1. secs \in Nat /\ nsecs \in Nat /\ stamp = N * secs + nsecs
    BY <1>1, Division
  <2>2. ToTs(Decode(raw, stamp)) = (secs - H) * N + nsecs
    BY <1>2 DEF Decode, FromBigtime, ToTs
  <2> HIDE DEF secs, nsecs, N, H
  <2>3. N \in Nat /\ H \in Nat
    BY <1>1 DEF N
  <2>4. (secs - H) * N + nsecs + H * N = N * secs + nsecs
    BY ONLY <2>1, <2>3
  <2>5. stamp = ToTs(Decode(raw, stamp)) + H * N
    BY <2>1, <2>2, <2>4
  <2> QED
    BY <1>2, <2>5 DEF Tells, Bigtime, IsV3, H, N
<1>3. CASE ~Bigtime(raw)
  <2> SUFFICES ASSUME NEW t \in Instants, stamp = LegacyOf(t)
               PROVE  ToTs(Decode(raw, stamp)) = t.secs * NSEC_PER_SEC + t.nsecs
    BY <1>3 DEF Tells, Bigtime, IsV3
  <2>1. /\ t.secs \in (-(TWO_32 \div 2))..(TWO_32 \div 2 - 1) /\ t.nsecs \in 0..(TWO_32 - 1)
        /\ t = [secs |-> t.secs, nsecs |-> t.nsecs]
    BY DEF Instants
  <2>2. FromLegacy(stamp) = [secs |-> t.secs, nsecs |-> t.nsecs]
    BY <2>1, InstantsReadBack
  <2> QED
    BY <1>3, <2>2 DEF Decode, ToTs
<1> QED
  BY <1>2, <1>3

(* The fields of an inode that is read. *)
Fields(v, raw, inode) ==
    /\ inode.atime = Decode(raw, raw.atime) /\ inode.mtime = Decode(raw, raw.mtime)
    /\ inode.ctime = Decode(raw, raw.ctime)
    /\ inode.crtime = IF raw.version >= 3 THEN {Decode(raw, raw.crtime)} ELSE {}
    /\ inode.mode = raw.mode /\ inode.format = FormatOf(raw.format)
    /\ inode.nextents = Counts(raw, HasNrext64(v.sb)).data
    /\ inode.aextents = Counts(raw, HasNrext64(v.sb)).attr
    /\ inode.forkoff = raw.forkoff /\ inode.aformat = raw.aformat
    /\ inode.fork = raw.lit[LitOffset(raw)]

LEMMA ParsedFields ==
    ASSUME NEW v, NEW ino, ReadInode(v, ino).err = "none"
    PROVE  Fields(v, v.slots[InodeToLocation(v.sb.geo, ino)], ReadInode(v, ino).val)
<1> DEFINE at == InodeToLocation(v.sb.geo, ino)
           raw == v.slots[at]
           read == ReadInode(v, ino)
<1>1. read = Parse(raw, HasNrext64(v.sb), v.sb.geo.inodesize) /\ read.err = "none"
  BY DEF ReadInode, Fail
<1> HIDE DEF raw, read
<1>2. Fields(v, raw, read.val)
  BY ONLY <1>1 DEF Parse, Ok, Fail, IsV3, Fields
<1> QED
  BY <1>2 DEF raw, read

(* A listing holds what the short form or a block reads as in the layout   *)
(* of the volume.                                                          *)
LEMMA ListingLaid ==
    ASSUME NEW v, Image(v), NEW at, NEW inode, Decoded(v, at, inode)
    PROVE  LET ftype == HasFtype(v.sb)
               list == ReadDir(v, inode).val
           IN  \A k \in DOMAIN list :
                  \/ \E j \in DOMAIN inode.fork.short[ftype] : inode.fork.short[ftype][j] = list[k]
                  \/ \E n \in DOMAIN v.blocks : \E j \in DOMAIN v.blocks[n].entries[ftype] :
                        v.blocks[n].entries[ftype][j] = list[k]
<1> DEFINE ftype == HasFtype(v.sb)
           list == ReadDir(v, inode).val
           m == ReadFile(v, inode).val[1] \div Blocksize(v)
           In(s, e) == \E j \in DOMAIN s : s[j] = e
           multi == MultiblockDir(v, RecsOf(v, inode))
<1>1. \/ ReadDir(v, inode) = Ok(inode.fork.short[ftype])
      \/ ReadDir(v, inode) = BlockDir(v, inode)
      \/ ReadDir(v, inode) = Ok(multi)
      \/ ReadDir(v, inode) = Fail("UnsupportedDir")
  BY DEF ReadDir
<1>2. \/ BlockDir(v, inode) = Ok(v.blocks[m].entries[ftype]) /\ m \in DOMAIN v.blocks
      \/ BlockDir(v, inode).val = <<>>
  <2>1. ReadFile(v, inode).err # "none" => ReadFile(v, inode).val = <<>>
    BY DEF ReadFile, Ok, Fail
  <2> QED
    BY <2>1 DEF BlockDir, Fail
<1>3. /\ multi \in Seq(Entry)
      /\ \A e : e \in Elems(multi) => \E n : e \in Elems(Listed(v, n))
  BY RecsFacts, MultiblockFacts DEF Decoded
<1>4. \A n, e : e \in Elems(Listed(v, n)) => n \in DOMAIN v.blocks /\ In(v.blocks[n].entries[ftype], e)
  <2> SUFFICES ASSUME NEW n, NEW e, e \in Elems(Listed(v, n))
               PROVE  n \in DOMAIN v.blocks /\ In(v.blocks[n].entries[ftype], e)
    OBVIOUS
  <2>1. Listed(v, n) \in Seq(Entry)
    BY ListedType
  <2>2. \E j \in DOMAIN Listed(v, n) : Listed(v, n)[j] = e
    BY <2>1 DEF Elems
  <2>3. Listed(v, n) # <<>>
    BY <2>2
  <2>4. n \in DOMAIN v.blocks /\ Listed(v, n) = v.blocks[n].entries[ftype]
    BY <2>3 DEF Listed
  <2> QED
    BY <2>2, <2>4
<1> SUFFICES ASSUME NEW k \in DOMAIN list
             PROVE  \/ In(inode.fork.short[ftype], list[k])
                    \/ \E n \in DOMAIN v.blocks : In(v.blocks[n].entries[ftype], list[k])
  OBVIOUS
<1> HIDE DEF ftype, m, multi
<1>5. DOMAIN <<>> = {}
  OBVIOUS
<1>6. list # <<>>
  BY <1>5
<1>7. CASE ReadDir(v, inode) = Ok(inode.fork.short[ftype])
  BY <1>7 DEF Ok
<1>8. CASE ReadDir(v, inode) = BlockDir(v, inode)
  BY <1>2, <1>6, <1>8 DEF Ok
<1>9. CASE ReadDir(v, inode) = Ok(multi)
  <2>1. list = multi /\ k \in 1..Len(multi)
    BY <1>3, <1>9 DEF Ok
  <2>2. list[k] \in Elems(multi)
    BY <2>1 DEF Elems
  <2> QED
    BY <1>3, <1>4, <2>2
<1>10. CASE ReadDir(v, inode) = Fail("UnsupportedDir")
  BY <1>6, <1>10 DEF Fail
<1> QED
  BY <1>1, <1>7, <1>8, <1>9, <1>10

LEMMA RunsCount ==
    ASSUME NEW inode, inode.format = "Extents", inode.fork \in Fork, inode.nextents \in Nat
    PROVE  Len(RunsOf(inode)) = Least(inode.nextents, Len(inode.fork.recs))
<1> DEFINE s == inode.fork.recs
           n == IF inode.nextents <= Len(s) THEN inode.nextents ELSE Len(s)
           recs == ReadExtents(inode)
<1>1. s \in Seq(Rec)
  BY DEF Fork
<1>2. n \in Nat /\ n <= Len(s) /\ n = Least(inode.nextents, Len(s))
  BY <1>1 DEF Least
<1>3. recs = SubSeq(s, 1, n)
  BY DEF ReadExtents
<1>4. recs \in Seq(Rec)
  BY RecsFacts
<1>5. DOMAIN RunsOf(inode) = 1..Len(recs)
  BY <1>4, ExtentRuns
<1>6. Len(recs) = n
  <2> HIDE DEF s, n, recs
  <2> QED
    BY <1>1, <1>2, <1>3
<1>7. RunsOf(inode) = [k \in 1..n |-> RunsOf(inode)[k]]
  <2>1. RunsOf(inode) = [k \in DOMAIN RunsOf(inode) |-> RunsOf(inode)[k]]
    BY DEF RunsOf
  <2> QED
    BY <1>5, <1>6, <2>1
<1> HIDE DEF n
<1> QED
  BY <1>2, <1>7

(* The streams of attributes in leaves are those that the first `count'    *)
(* records hold.                                                           *)
KeptBy(v, count, a) == a.storage # "Shortform" /\ MappedBy(v, count, a.rec, a.leaf)
ToldBy(v, count, a, info) ==
    IF a.storage = "LeafRemote"
    THEN ~info.resident /\
         info.size = IF MappedBy(v, count, a.vrec, a.at \div Blocksize(v)) THEN a.size ELSE 0
    ELSE info.resident /\ info.size = a.size

LEMMA ValueLength ==
    ASSUME NEW v, NEW inode, NEW a \in Attr
    PROVE  Len(ValueOf(v, inode, a)) =
             IF a.storage = "LeafRemote" /\ ~MappedBy(v, inode.aextents, a.vrec, a.at \div Blocksize(v))
             THEN 0 ELSE a.size
<1> DEFINE val == [i \in 1..a.size |-> a.at + i - 1]
<1>1. a.at \in Nat /\ a.size \in Nat
  BY DEF Attr
<1>2. Len(val) = a.size
  <2>1. val \in Seq(Int)
    BY <1>1
  <2> QED
    BY <1>1, <2>1
<1>3. Len(<<>>) = 0
  OBVIOUS
<1>4. ValueOf(v, inode, a) =
        IF a.storage = "LeafRemote" /\ ~MappedBy(v, inode.aextents, a.vrec, a.at \div Blocksize(v))
        THEN <<>> ELSE val
  BY DEF ValueOf
<1> HIDE DEF val
<1> QED
  BY <1>2, <1>3, <1>4

LEMMA AttrStreams ==
    ASSUME Image(image), NEW at, NEW inode, Decoded(image, at, inode),
           inode.forkoff # 0, inode.aformat = 2
    PROVE  LET s == inode.fork.attrs
               n == inode.aextents
               list == StreamsOf(inode)
           IN  /\ list.err = "none"
               /\ \A k \in DOMAIN s : KeptBy(image, n, s[k]) =>
                    \E j \in 2..Len(list.val) : ToldBy(image, n, s[k], list.val[j])
               /\ \A j \in 2..Len(list.val) :
                    \E k \in DOMAIN s : KeptBy(image, n, s[k]) /\ ToldBy(image, n, s[k], list.val[j])
<1> DEFINE s == inode.fork.attrs
           n == inode.aextents
           list == StreamsOf(inode)
           attrs == ListXattrs(image, inode)
<1>1. attrs.err = "none"
  <2> DEFINE kept == FlattenSeq([k \in DOMAIN s |-> When(HeldBy(image, inode, s[k]), s[k])])
             all == [k \in DOMAIN kept |-> [storage |-> kept[k].storage, value |-> ValueOf(image, inode, kept[k])]]
  <2>1. attrs = CASE inode.forkoff = 0 \/ inode.aformat = 0 -> Ok(<<>>)
                  [] inode.forkoff # 0 /\ inode.aformat \in 1..2 -> Ok(all)
                  [] OTHER -> Fail("UnsupportedAttrFork")
    BY Zenon DEF ListXattrs, ValueOf, HeldBy, MappedBy
  <2> HIDE DEF all, attrs
  <2> QED
    BY <2>1 DEF Ok
<1>2. /\ Len(attrs.val) \in Nat
      /\ \A j \in DOMAIN s : HeldBy(image, inode, s[j]) =>
           \E k \in 1..Len(attrs.val) : Lists(image, inode, s[j], attrs.val[k])
      /\ \A k \in 1..Len(attrs.val) : \E j \in DOMAIN s :
           HeldBy(image, inode, s[j]) /\ Lists(image, inode, s[j], attrs.val[k])
  BY <1>1, AttrsFacts
<1>3. /\ list.err = "none" /\ Len(list.val) = Len(attrs.val) + 1
      /\ \A k \in 2..(Len(attrs.val) + 1) :
           /\ list.val[k].size = Len(attrs.val[k - 1].value)
           /\ list.val[k].resident = (attrs.val[k - 1].storage # "LeafRemote")
  BY <1>1, StreamsFacts
<1>4. \A k \in DOMAIN s : s[k] \in Attr
  BY DEF Decoded, Fork
<1>5. \A k \in DOMAIN s : HeldBy(image, inode, s[k]) <=> KeptBy(image, n, s[k])
  BY DEF HeldBy, KeptBy
<1> HIDE DEF s, list, attrs
<1>6. ASSUME NEW k \in DOMAIN s, NEW j \in 1..Len(attrs.val), Lists(image, inode, s[k], attrs.val[j])
      PROVE  j + 1 \in 2..Len(list.val) /\ ToldBy(image, n, s[k], list.val[j + 1])
  <2>1. j + 1 \in 2..(Len(attrs.val) + 1) /\ (j + 1) - 1 = j
    BY <1>2
  <2>2. /\ list.val[j + 1].size = Len(ValueOf(image, inode, s[k]))
        /\ list.val[j + 1].resident = (s[k].storage # "LeafRemote")
    BY <1>3, <1>6, <2>1 DEF Lists
  <2>3. Len(ValueOf(image, inode, s[k])) =
             IF s[k].storage = "LeafRemote" /\ ~MappedBy(image, n, s[k].vrec, s[k].at \div Blocksize(image))
             THEN 0 ELSE s[k].size
    BY <1>4, ValueLength
  <2> QED
    BY <1>3, <2>1, <2>2, <2>3 DEF ToldBy
<1>7. ASSUME NEW k \in DOMAIN s, KeptBy(image, n, s[k])
      PROVE  \E j \in 2..Len(list.val) : ToldBy(image, n, s[k], list.val[j])
  BY <1>2, <1>5, <1>6, <1>7
<1>8. ASSUME NEW j \in 2..Len(list.val)
      PROVE  \E k \in DOMAIN s : KeptBy(image, n, s[k]) /\ ToldBy(image, n, s[k], list.val[j])
  <2>1. j - 1 \in 1..Len(attrs.val) /\ (j - 1) + 1 = j
    BY <1>2, <1>3
  <2>2. PICK k \in DOMAIN s : HeldBy(image, inode, s[k]) /\ Lists(image, inode, s[k], attrs.val[j - 1])
    BY <1>2, <2>1
  <2>3. ToldBy(image, n, s[k], list.val[(j - 1) + 1])
    BY <1>6, <2>1, <2>2
  <2> QED
    BY <1>5, <2>1, <2>2, <2>3
<1> QED
  BY <1>3, <1>7, <1>8 DEF s, list

LEMMA InvWritten == Inv => ReadAsWritten
<1> SUFFICES ASSUME Inv, Known
             PROVE  /\ KindAsWritten /\ TimesAsWritten
                    /\ RunsAsWritten /\ AttrsAsWritten /\ EntriesAsWritten
  BY DEF ReadAsWritten
<1>1. PICK inode, at :
             /\ inode = ReadInode(image, node).val /\ Answered(inode)
             /\ Image(image) /\ Decoded(image, at, inode) /\ at = InodeToLocation(image.sb.geo, node)
  BY AtTheNode
<1>2. ReadInode(image, node).err = "none"
  BY DEF Inv, SessionInv, Found
<1>3. meta = MetaOf(inode) /\ runs = RunsOf(inode) /\ streams = StreamsOf(inode)
  BY <1>1 DEF Answered
<1> DEFINE raw == Written
           count == IF Moved THEN raw.be64_24 ELSE raw.be32_76
           acount == IF Moved THEN raw.be32_76 ELSE raw.be16_80
           ftype == "FTYPE" \in IF image.sb.version = 5 THEN image.sb.features_incompat
                                ELSE image.sb.features2
<1>4. Fields(image, raw, inode)
  BY <1>1, <1>2, ParsedFields DEF Written
<1>5. inode.fork = WrittenFork
  BY <1>4 DEF Fields, LitOffset, IsV3, WrittenFork
<1>6. inode.nextents = count /\ inode.aextents = acount
  BY <1>4 DEF Fields, Counts, HasNrext64, IsV5, Moved
<1>7. ftype <=> HasFtype(image.sb)
  BY DEF HasFtype, IsV5
<1>8. /\ raw.atime \in Nat /\ raw.mtime \in Nat /\ raw.ctime \in Nat /\ raw.crtime \in Nat
  <2>1. raw \in RawInode
    BY <1>1 DEF Decoded, Image, Written
  <2> HIDE DEF raw
  <2> QED
    BY <2>1 DEF RawInode
<1>9. /\ meta.times.accessed = ToTs(inode.atime) /\ meta.times.modified = ToTs(inode.mtime)
      /\ meta.times.changed = ToTs(inode.ctime)
      /\ meta.times.born = {ToTs(t) : t \in inode.crtime}
  BY <1>3 DEF MetaOf
<1>10. KindAsWritten
  <2>1. meta.kind = NodeKind(FromMode(raw.mode))
    BY <1>3, <1>4, MetaFacts DEF Fields
  <2> QED
    BY <2>1 DEF NodeKind, FromMode, KindAsWritten
<1>11. TimesAsWritten
  <2>1. /\ Tells(raw, raw.atime, meta.times.accessed)
        /\ Tells(raw, raw.mtime, meta.times.modified)
        /\ Tells(raw, raw.ctime, meta.times.changed)
    BY <1>4, <1>8, <1>9, StampFacts DEF Fields
  <2>2. Tells(raw, raw.crtime, ToTs(Decode(raw, raw.crtime)))
    BY <1>8, StampFacts
  <2>3. meta.times.born = IF raw.version >= 3 THEN {ToTs(Decode(raw, raw.crtime))} ELSE {}
    BY <1>4, <1>9 DEF Fields
  <2>4. /\ meta.times.born # {} <=> raw.version >= 3
        /\ \A nanos \in meta.times.born : Tells(raw, raw.crtime, nanos)
    BY <2>2, <2>3
  <2> QED
    BY <2>1, <2>4 DEF TimesAsWritten
<1>12. RunsAsWritten
  <2> SUFFICES ASSUME raw.format = 2 PROVE Len(runs) = Least(count, Len(WrittenFork.recs))
    BY DEF RunsAsWritten
  <2>1. inode.format = "Extents"
    BY <1>4 DEF Fields, FormatOf
  <2>2. inode.fork \in Fork /\ inode.nextents \in Nat
    BY <1>1 DEF Decoded
  <2> HIDE DEF count
  <2> QED
    BY <1>3, <1>5, <1>6, <2>1, <2>2, RunsCount
<1>13. AttrsAsWritten
  <2> SUFFICES ASSUME raw.forkoff # 0, raw.aformat = 2
               PROVE  /\ streams.err = "none"
                      /\ \A k \in DOMAIN WrittenFork.attrs : Kept(WrittenFork.attrs[k]) =>
                           \E j \in 2..Len(streams.val) : Told(WrittenFork.attrs[k], streams.val[j])
                      /\ \A j \in 2..Len(streams.val) : \E k \in DOMAIN WrittenFork.attrs :
                           Kept(WrittenFork.attrs[k]) /\ Told(WrittenFork.attrs[k], streams.val[j])
    BY DEF AttrsAsWritten
  <2>1. \A a : Kept(a) <=> KeptBy(image, acount, a)
    BY DEF Kept, Counted, KeptBy, MappedBy
  <2>2. \A a, info : Told(a, info) <=> ToldBy(image, acount, a, info)
    BY DEF Told, Counted, ToldBy, MappedBy
  <2>3. inode.forkoff # 0 /\ inode.aformat = 2
    BY <1>4 DEF Fields
  <2> HIDE DEF acount
  <2> QED
    BY <1>1, <1>3, <1>5, <1>6, <2>1, <2>2, <2>3, AttrStreams
<1>14. EntriesAsWritten
  <2>1. \A listing \in NodeListings : listing = ReadDir(image, inode)
    BY <1>1, <1>2 DEF NodeListings, Of
  <2>2. HasFtype(image.sb) = ftype
    <3>1. HasFtype(image.sb) \in BOOLEAN /\ ftype \in BOOLEAN
      BY FtypeType
    <3> QED
      BY <1>7, <3>1
  <2> HIDE DEF ftype
  <2>3. \A listing \in NodeListings : \A k \in DOMAIN listing.val :
           \/ IsEntry(WrittenFork.short[ftype], listing.val[k])
           \/ \E n \in DOMAIN image.blocks : IsEntry(image.blocks[n].entries[ftype], listing.val[k])
    BY <1>1, <1>5, <2>1, <2>2, ListingLaid DEF IsEntry
  <2> QED
    BY <2>3 DEF EntriesAsWritten, ftype
<1> QED
  BY <1>10, <1>11, <1>12, <1>13, <1>14

(* What the adapter says of an inode is what its slot and its volume say,  *)
(* of every volume: its kind is the mode's, no time is moved, no counter   *)
(* of either fork or entry read from the place of the other version        *)
(* (inode.rs:118-134, 149-180 and 301-357, xattr.rs:278-290).              *)
THEOREM AlwaysReadAsWritten == Spec => []ReadAsWritten
  BY Invariant, InvWritten, PTL
=============================================================================
