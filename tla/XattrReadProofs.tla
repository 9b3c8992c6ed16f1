-------------------------- MODULE XattrReadProofs ---------------------------
(***************************************************************************)
(* Theorems about XattrRead for every block size, image and inode, hostile *)
(* ones included.                                                          *)
(***************************************************************************)
EXTENDS XattrRead, DataLemmas, FiniteSetTheorems

USE ConstantsAssumption

Storage == {<<"Shortform">>, <<"LeafLocal">>} \cup ({"LeafRemote"} \X Nat)
Attr == [name : Piece, namespace : {"trusted", "security", "user"}, value : Seq(Piece),
         storage : Storage, incomplete : BOOLEAN]
-----------------------------------------------------------------------------
(* The number of bytes in the first pieces of a value, piece by piece.     *)
LEMMA LengthSums ==
    ASSUME NEW v \in Seq(Piece)
    PROVE  /\ Length(v, 0) = 0
           /\ \A k \in 1..Len(v) : Length(v, k) = Length(v, k - 1) + v[k].len
           /\ \A k \in 0..Len(v) : Length(v, k) \in Nat
<1> DEFINE Is(f, n) == f = [k \in 0..n |-> IF k = 0 THEN 0 ELSE f[k - 1] + v[k].len]
           T == {n \in Nat : \E f : Is(f, n)}
           S == CHOOSE f : Is(f, Len(v))
<1>0. Len(v) \in Nat
  OBVIOUS
<1>1. 0 \in T
  <2>1. Is([k \in 0..0 |-> 0], 0)
    OBVIOUS
  <2> QED
    BY <2>1
<1>2. ASSUME NEW n \in Nat, n \in T PROVE n + 1 \in T
  <2>1. PICK f : Is(f, n)
    BY <1>2
  <2> DEFINE g == [k \in 0..(n + 1) |-> IF k = n + 1 THEN f[n] + v[n + 1].len ELSE f[k]]
  <2>2. DOMAIN f = 0..n /\ \A k \in 0..n : f[k] = IF k = 0 THEN 0 ELSE f[k - 1] + v[k].len
    BY <2>1
  <2>3. \A k \in 0..(n + 1) : g[k] = IF k = 0 THEN 0 ELSE g[k - 1] + v[k].len
    BY <2>2
  <2>4. Is(g, n + 1)
    BY <2>3
  <2> HIDE DEF g, Is
  <2> QED
    BY <2>4
<1>3. \E f : Is(f, Len(v))
  <2> HIDE DEF T
  <2>1. Nat \subseteq T
    BY <1>1, <1>2, Induction
  <2> QED
    BY <1>0, <2>1 DEF T
<1>4. Is(S, Len(v))
  <2> HIDE DEF Is
  <2> QED
    BY <1>3
<1>5. \A n : Length(v, n) = S[n]
  BY DEF Length
<1> HIDE DEF S
<1>6. S[0] = 0 /\ \A k \in 1..Len(v) : S[k] = S[k - 1] + v[k].len
  BY <1>0, <1>4
<1> DEFINE U == {n \in Nat : n <= Len(v) => S[n] \in Nat}
<1>7. 0 \in U
  BY <1>6
<1>8. ASSUME NEW n \in Nat, n \in U PROVE n + 1 \in U
  <2> SUFFICES ASSUME n + 1 <= Len(v) PROVE S[n + 1] \in Nat
    OBVIOUS
  <2>1. n + 1 \in 1..Len(v) /\ (n + 1) - 1 = n /\ n <= Len(v)
    BY <1>0
  <2>2. S[n + 1] = S[n] + v[n + 1].len
    BY <1>6, <2>1
  <2>3. v[n + 1] \in Piece
    BY <2>1
  <2>4. v[n + 1].len \in Nat
    BY <2>3 DEF Piece
  <2> QED
    BY <1>8, <2>1, <2>2, <2>4
<1>9. \A k \in 0..Len(v) : S[k] \in Nat
  <2> HIDE DEF U
  <2>1. Nat \subseteq U
    BY <1>7, <1>8, Induction
  <2> QED
    BY <1>0, <2>1 DEF U
<1> QED
  BY <1>5, <1>6, <1>9

LEMMA LengthAppend ==
    ASSUME NEW v \in Seq(Piece), NEW p \in Piece
    PROVE  Length(Append(v, p), Len(v) + 1) = Length(v, Len(v)) + p.len
<1> DEFINE w == Append(v, p)
           T == {n \in Nat : n <= Len(v) => Length(w, n) = Length(v, n)}
<1>1. /\ w \in Seq(Piece) /\ Len(w) = Len(v) + 1 /\ Len(v) \in Nat
      /\ \A k \in 1..Len(v) : w[k] = v[k]
      /\ w[Len(v) + 1] = p
  BY AppendProperties
<1> HIDE DEF w
<1>2. 0 \in T
  BY <1>1, LengthSums
<1>3. ASSUME NEW n \in Nat, n \in T PROVE n + 1 \in T
  <2> SUFFICES ASSUME n + 1 <= Len(v) PROVE Length(w, n + 1) = Length(v, n + 1)
    OBVIOUS
  <2>1. n + 1 \in 1..Len(v) /\ n + 1 \in 1..Len(w) /\ (n + 1) - 1 = n /\ n <= Len(v)
    BY <1>1
  <2>2. Length(w, n + 1) = Length(w, n) + w[n + 1].len
    BY <1>1, <2>1, LengthSums
  <2>3. Length(v, n + 1) = Length(v, n) + v[n + 1].len
    BY <1>1, <2>1, LengthSums
  <2> QED
    BY <1>1, <1>3, <2>1, <2>2, <2>3
<1>4. Length(w, Len(v)) = Length(v, Len(v))
  <2> HIDE DEF T
  <2>1. Nat \subseteq T
    BY <1>2, <1>3, Induction
  <2> QED
    BY <1>1, <2>1 DEF T
<1>5. Length(w, Len(v) + 1) = Length(w, Len(v)) + p.len
  <2>1. Len(v) + 1 \in 1..Len(w) /\ (Len(v) + 1) - 1 = Len(v)
    BY <1>1
  <2> QED
    BY <1>1, <2>1, LengthSums
<1> QED
  BY <1>4, <1>5 DEF w

-----------------------------------------------------------------------------
(* What the inodes and their blocks consist of.                            *)
LEMMA RecsFacts ==
    ASSUME inode \in Inodes
    PROVE  /\ AttrForkLen \in Nat
           /\ Recs \in Seq(Rec) /\ Len(Recs) \in Nat
           /\ \A k \in 1..Len(Recs) : /\ Recs[k] \in Rec
                                      /\ Recs[k].startoff \in Nat
                                      /\ Recs[k].startblock \in Nat
                                      /\ Recs[k].blockcount \in Nat
<1>1. /\ inode.recs \in Seq(Rec) /\ inode.litlen \in Nat /\ inode.forkoff \in Nat
      /\ inode.aextents \in Nat
  BY InodesAssumption
<1>2. AttrForkLen \in Nat
  BY <1>1 DEF AttrForkLen, LargerOf
<1> DEFINE n == AtMost(inode.aextents, AtMost(Len(inode.recs), AttrForkLen \div 16))
<1>3. n \in 0..Len(inode.recs)
  <2>1. Len(inode.recs) \in Nat /\ AttrForkLen \div 16 \in Nat
    BY <1>1, <1>2
  <2> QED
    BY <1>1, <2>1 DEF AtMost
<1> HIDE DEF n
<1>4. Recs = SubSeq(inode.recs, 1, n)
  BY DEF Recs, n
<1>5. Recs \in Seq(Rec) /\ Len(Recs) \in Nat
  <2>1. \A i \in 1..n : inode.recs[i] \in Rec
    BY <1>1, <1>3, ElementOfSeq
  <2> QED
    BY <1>1, <1>3, <1>4, <2>1, SubSeqProperties
<1>6. \A k \in 1..Len(Recs) : Recs[k] \in Rec
  BY <1>5, ElementOfSeq
<1> QED
  BY <1>2, <1>5, <1>6 DEF Rec

LEMMA NameFacts ==
    ASSUME inode \in Inodes, NEW n \in 0..(ImageBlocks - 1), NEW o
    PROVE  /\ inode.blocks[n].leaf \in Leaves /\ inode.blocks[n].count \in Nat
           /\ inode.blocks[n].entries \in Seq(Entry)
           /\ NameAt(inode.blocks[n], o).local.namelen \in Nat
           /\ NameAt(inode.blocks[n], o).local.valuelen \in Nat
           /\ NameAt(inode.blocks[n], o).remote.namelen \in Nat
           /\ NameAt(inode.blocks[n], o).remote.valuelen \in Nat
           /\ NameAt(inode.blocks[n], o).remote.valueblk \in Nat
<1>1. /\ inode.blocks[n].leaf \in Leaves /\ inode.blocks[n].count \in Nat
      /\ inode.blocks[n].entries \in Seq(Entry)
      /\ \A p \in DOMAIN inode.blocks[n].at : inode.blocks[n].at[p] \in Name
  BY InodesAssumption
<1>2. NameAt(inode.blocks[n], o) \in Name
  BY <1>1 DEF NameAt, ZeroName, Name
<1> DEFINE m == NameAt(inode.blocks[n], o)
<1> HIDE DEF m
<1>3. /\ m.local.namelen \in Nat /\ m.local.valuelen \in Nat
      /\ m.remote.namelen \in Nat /\ m.remote.valuelen \in Nat /\ m.remote.valueblk \in Nat
  BY <1>2 DEF m, Name
<1> QED
  BY <1>1, <1>3 DEF m

(* The entry of a leaf that comes next, and the name it points to.         *)
LEMMA CurFacts ==
    ASSUME inode \in Inodes, at \in 0..(ImageBlocks - 1), entry \in Nat \ {0}
    PROVE  /\ Cur.nameidx \in Nat
           /\ Local.namelen \in Nat /\ Local.valuelen \in Nat
           /\ Remote.namelen \in Nat /\ Remote.valuelen \in Nat /\ Remote.valueblk \in Nat
<1>1. Leaf.entries \in Seq(Entry)
  BY NameFacts DEF Leaf
<1>2. entry <= Len(Leaf.entries) => Leaf.entries[entry] \in Entry
  BY <1>1, ElementOfSeq
<1>3. Cur.nameidx \in Nat
  BY <1>2 DEF Cur, Entry
<1>4. /\ Local.namelen \in Nat /\ Local.valuelen \in Nat
      /\ Remote.namelen \in Nat /\ Remote.valuelen \in Nat /\ Remote.valueblk \in Nat
  BY NameFacts DEF Local, Remote, Leaf
<1> QED
  BY <1>3, <1>4

(* A leaf whose count is believed has room behind its header: the payload  *)
(* of a value block that goes with it is then not empty.                   *)
HdrOf(n) == IF inode.blocks[n].leaf = "v5" THEN LEAF_HDR_LEN ELSE LEAF_HDR_LEN_V4
Cap(n) == LargerOf(BlockSize - HdrOf(n), 0) \div LEAF_ENTRY_LEN

LEMMA CapFacts ==
    /\ \A n : Cap(n) \in Nat /\ LEAF_ENTRY_LEN * Cap(n) <= LargerOf(BlockSize - HdrOf(n), 0)
    /\ \A n : LargerOf(BlockSize - HdrOf(n), 0) \in Nat
    /\ inode \in Inodes /\ at \in 0..(ImageBlocks - 1) =>
          EntryCount \in Nat /\ EntryCount <= Cap(at)
    /\ Payload \in Nat
    /\ EntryCount > 0 /\ inode \in Inodes /\ at \in 0..(ImageBlocks - 1) =>
          Payload > 0 /\ BodyOff + Payload = BlockSize
    /\ BodyOff \in Nat
<1>1. ASSUME NEW n
      PROVE  /\ LargerOf(BlockSize - HdrOf(n), 0) \in Nat
             /\ Cap(n) \in Nat /\ LEAF_ENTRY_LEN * Cap(n) <= LargerOf(BlockSize - HdrOf(n), 0)
  <2>1. HdrOf(n) \in {80, 32}
    BY DEF HdrOf, LEAF_HDR_LEN, LEAF_HDR_LEN_V4
  <2>2. LargerOf(BlockSize - HdrOf(n), 0) \in Nat
    BY <2>1 DEF LargerOf
  <2> QED
    BY <2>2 DEF Cap, LEAF_ENTRY_LEN
<1>2. ASSUME inode \in Inodes, at \in 0..(ImageBlocks - 1)
      PROVE  /\ EntryCount \in Nat /\ EntryCount <= Cap(at)
             /\ EntryCount > 0 => BlockSize - HdrLen >= 8
  <2>1. HdrLen = HdrOf(at) /\ HdrLen \in {80, 32}
    BY DEF HdrLen, HdrOf, V5, Leaf, LEAF_HDR_LEN, LEAF_HDR_LEN_V4
  <2>2. Leaf.count \in Nat
    BY <1>2, NameFacts DEF Leaf
  <2>3. EntryCount = AtMost(Leaf.count, Cap(at))
    BY <2>1 DEF EntryCount, Cap
  <2>4. EntryCount \in Nat /\ EntryCount <= Cap(at)
    BY <1>1, <2>2, <2>3 DEF AtMost
  <2>5. Cap(at) > 0 => BlockSize - HdrLen >= 8
    BY <2>1 DEF Cap, LargerOf, LEAF_ENTRY_LEN
  <2> QED
    BY <1>1, <2>4, <2>5
<1>3. BodyOff \in {56, 0} /\ (BodyOff = 56 => V5)
  BY DEF BodyOff, RMT_HDR_LEN
<1>4. Payload \in Nat
  BY <1>3 DEF Payload, LargerOf
<1>5. ASSUME EntryCount > 0, inode \in Inodes, at \in 0..(ImageBlocks - 1)
      PROVE  Payload > 0 /\ BodyOff + Payload = BlockSize
  <2>1. BlockSize - HdrLen >= 8
    BY <1>2, <1>5
  <2>2. HdrLen \in {80, 32} /\ (V5 => HdrLen = 80)
    BY DEF HdrLen, LEAF_HDR_LEN, LEAF_HDR_LEN_V4
  <2> QED
    BY <1>3, <2>1, <2>2 DEF Payload, LargerOf
<1> QED
  BY <1>1, <1>2, <1>3, <1>4, <1>5

(* map_logical finds a block if the fork maps one.                         *)
LEMMA MapFacts ==
    ASSUME inode \in Inodes, NEW l \in Nat
    PROVE  /\ Mapped(l) => MapLogical(l) \in Places(l) /\ MapLogical(l) \in Nat
           /\ ~Mapped(l) => Places(l) = {}
<1> DEFINE M == {j \in 1..Len(Recs) : Maps(Recs[j], l)}
           k == CHOOSE j \in 1..Len(Recs) : Maps(Recs[j], l) /\ \A m \in 1..(j - 1) : ~Maps(Recs[m], l)
<1>1. \A j \in 1..Len(Recs) : Maps(Recs[j], l) <=> l - Recs[j].startoff \in 0..(Recs[j].blockcount - 1)
  BY RecsFacts DEF Maps
<1>2. Mapped(l) <=> M # {}
  BY DEF Mapped
<1>3. ASSUME Mapped(l) PROVE MapLogical(l) \in Places(l) /\ MapLogical(l) \in Nat
  <2>1. M \subseteq Nat
    OBVIOUS
  <2>2. PICK x \in M : \A y \in M : x <= y
    BY <1>2, <1>3, <2>1, LeastNumber
  <2>3. \A m \in 1..(x - 1) : ~Maps(Recs[m], l)
    <3> SUFFICES ASSUME NEW m \in 1..(x - 1), Maps(Recs[m], l) PROVE FALSE
      OBVIOUS
    <3>1. x \in 1..Len(Recs) /\ Len(Recs) \in Nat
      BY RecsFacts
    <3>2. m \in M /\ ~(x <= m)
      BY <3>1
    <3> QED
      BY <2>2, <3>2
  <2>4. k \in 1..Len(Recs) /\ Maps(Recs[k], l)
    BY <2>2, <2>3
  <2>5. MapLogical(l) = Recs[k].startblock + (l - Recs[k].startoff)
    BY DEF MapLogical
  <2> HIDE DEF k
  <2>6. MapLogical(l) \in Places(l)
    BY <1>1, <2>4, <2>5 DEF Places
  <2>7. l - Recs[k].startoff \in Nat
    BY <2>4, RecsFacts DEF Maps
  <2> QED
    BY <2>4, <2>5, <2>6, <2>7, RecsFacts
<1>4. ASSUME ~Mapped(l) PROVE Places(l) = {}
  BY <1>1, <1>2, <1>4 DEF Places
<1> QED
  BY <1>3, <1>4

-----------------------------------------------------------------------------
(* One attribute of AttributesGenuine, `before' being the one listed       *)
(* before it, and one of ValuesGenuine.                                    *)
Genuine(k, attr, before) ==
    LET val == attr.value
    IN  CASE attr.storage[1] = "Shortform" ->
               /\ attr.name.block = Inline /\ val[1].block = Inline
               /\ attr.name.off = (IF k = 1 THEN SHORT_HDR_LEN ELSE End(before.value[1])) + 3
               /\ val[1].off = End(attr.name)
               /\ End(val[1]) <= AttrForkLen
          [] attr.storage[1] = "LeafLocal" ->
               /\ ForkMaps(attr.name.block) /\ IsLeaf(attr.name.block)
               /\ attr.name.len = NameOf(attr).local.namelen
               /\ val = <<P(attr.name.block, End(attr.name), NameOf(attr).local.valuelen)>>
               /\ End(val[1]) <= BlockSize
          [] OTHER ->
               /\ ForkMaps(attr.name.block) /\ IsLeaf(attr.name.block)
               /\ attr.name.len = NameOf(attr).remote.namelen
               /\ End(attr.name) <= BlockSize

Readable(p, v5) == InImage(p) /\ (v5 => inode.blocks[p].rmt)
PieceGenuine(piece, l, v5) ==
    /\ piece.block \in Places(l) /\ Readable(piece.block, v5)
    /\ piece.off = (IF v5 THEN RMT_HDR_LEN ELSE 0)
    /\ End(piece) <= BlockSize
ValueGenuine(attr) ==
    attr.storage[1] = "LeafRemote" =>
        LET val == attr.value
            n == Len(val)
            rec == NameOf(attr).remote
            v5 == inode.blocks[attr.name.block].leaf = "v5"
        IN  /\ attr.storage[2] = rec.valueblk
            /\ \A j \in 1..n : /\ PieceGenuine(val[j], rec.valueblk + j - 1, v5)
                               /\ j < n => End(val[j]) = BlockSize
            /\ Length(val, n) <= AtMost(rec.valuelen, MAX_VALUE_LEN)
            /\ Length(val, n) < rec.valuelen =>
                 \/ rec.valuelen > MAX_VALUE_LEN
                 \/ Places(rec.valueblk + n) = {}
                 \/ \E p \in Places(rec.valueblk + n) : ~Readable(p, v5)

(* Where the walk is: the short form goes on where the last entry ended,   *)
(* a leaf is mapped by the fork, and the value read so far is whole but    *)
(* for its end.                                                            *)
InLoops == pc \in {"leaf", "value"}
ValueSoFar ==
    /\ value \in Seq(Piece)
    /\ \A j \in 1..Len(value) : PieceGenuine(value[j], Remote.valueblk + j - 1, V5)
    /\ \A j \in 1..Len(value) : j < Len(value) \/ have < Remote.valuelen => End(value[j]) = BlockSize
    /\ logical = Remote.valueblk + Len(value)
    /\ have = Length(value, Len(value)) /\ have <= Remote.valuelen
Place ==
    /\ pc = "called" => out = <<>>
    /\ pc = "short" =>
          /\ \A k \in 1..Len(out) : out[k].name.block = Inline
          /\ off = IF out = <<>> THEN SHORT_HDR_LEN ELSE End(out[Len(out)].value[1])
    /\ InLoops => ForkMaps(at) /\ entry <= EntryCount + 1
    /\ pc = "value" => entry <= EntryCount /\ ~IsLocal /\ RemoteFits /\ ValueSoFar

(* The visits to a block so far, and the attributes it has given: of the   *)
(* leaf the walk is in, those still to come are reserved.                  *)
Seen(n) ==
    {k \in 1..Len(Recs) : InRun(Recs[k], n)
                          /\ (k < next \/ (k = next /\ n - Recs[k].startblock < b))}
Given(n) == {k \in 1..Len(out) : out[k].name.block = n}
Reserved(n) == IF InLoops /\ at = n THEN Cap(n) - (entry - 1) ELSE 0
Counted ==
    \A n \in 0..(ImageBlocks - 1) :
        Cardinality(Given(n)) + Reserved(n) <= Cardinality(Seen(n)) * Cap(n)

Inv ==
    /\ inode \in Inodes /\ TypeOK /\ out \in Seq(Attr)
    /\ Place /\ AttributesGenuine /\ ValuesGenuine /\ Counted

LEMMA GenuineMeans ==
    ASSUME out \in Seq(Attr)
    PROVE  /\ AttributesGenuine <=> \A k \in 1..Len(out) : Genuine(k, out[k], out[k - 1])
           /\ ValuesGenuine <=> \A k \in 1..Len(out) : ValueGenuine(out[k])
<1>1. DOMAIN out = 1..Len(out)
  OBVIOUS
<1>2. AttributesGenuine <=> \A k \in 1..Len(out) : Genuine(k, out[k], out[k - 1])
  BY <1>1 DEF AttributesGenuine, Genuine
<1>3. ValuesGenuine <=> \A k \in 1..Len(out) : ValueGenuine(out[k])
  BY <1>1 DEF ValuesGenuine, ValueGenuine, PieceGenuine, Readable
<1> QED
  BY <1>2, <1>3

(* What is said of attributes and pieces depends on the inode alone.       *)
LEMMA SameInode ==
    ASSUME inode' = inode
    PROVE  /\ Recs' = Recs /\ AttrForkLen' = AttrForkLen
           /\ \A k, attr, before : Genuine(k, attr, before)' <=> Genuine(k, attr, before)
           /\ \A l : Places(l)' = Places(l)
           /\ \A p, l, v5 : PieceGenuine(p, l, v5)' <=> PieceGenuine(p, l, v5)
           /\ \A attr : ValueGenuine(attr)' <=> ValueGenuine(attr)
           /\ \A n : (IsLeaf(n)' <=> IsLeaf(n)) /\ (ForkMaps(n)' <=> ForkMaps(n))
           /\ \A n : Cap(n)' = Cap(n)
<1>1. Recs' = Recs /\ AttrForkLen' = AttrForkLen
  BY DEF Recs, AttrForkLen
<1>2. \A n : (IsLeaf(n)' <=> IsLeaf(n)) /\ (ForkMaps(n)' <=> ForkMaps(n)) /\ Cap(n)' = Cap(n)
  BY <1>1 DEF IsLeaf, ForkMaps, InImage, Cap, HdrOf
<1>3. \A attr : NameOf(attr)' = NameOf(attr)
  BY DEF NameOf, NameAt
<1>4. \A l : Places(l)' = Places(l)
  BY <1>1 DEF Places
<1>5. \A k, attr, before : Genuine(k, attr, before)' <=> Genuine(k, attr, before)
  BY <1>1, <1>2, <1>3 DEF Genuine
<1>6. \A p, l, v5 : PieceGenuine(p, l, v5)' <=> PieceGenuine(p, l, v5)
  BY <1>4 DEF PieceGenuine, Readable, InImage
<1>7. \A attr : ValueGenuine(attr)' <=> ValueGenuine(attr)
  BY <1>3, <1>4, <1>6 DEF ValueGenuine, Readable, InImage
<1> QED
  BY <1>1, <1>2, <1>4, <1>5, <1>6, <1>7

LEMMA GenuineMeansNext ==
    ASSUME inode' = inode, out' \in Seq(Attr)
    PROVE  /\ (\A k \in 1..Len(out') : Genuine(k, out'[k], out'[k - 1])) => AttributesGenuine'
           /\ (\A k \in 1..Len(out') : ValueGenuine(out'[k])) => ValuesGenuine'
<1>1. DOMAIN out' = 1..Len(out')
  OBVIOUS
<1>2. AttributesGenuine' <=> \A k \in 1..Len(out') : (Genuine(k, out[k], out[k - 1]))'
  BY <1>1 DEF AttributesGenuine, Genuine
<1>3. ValuesGenuine' <=> \A k \in 1..Len(out') : ValueGenuine(out[k])'
  BY <1>1 DEF ValuesGenuine, ValueGenuine, PieceGenuine, Readable
<1> QED
  BY <1>2, <1>3, SameInode

LEMMA KeepOut ==
    ASSUME Inv, UNCHANGED <<inode, out>>
    PROVE  /\ out' \in Seq(Attr) /\ AttributesGenuine' /\ ValuesGenuine'
           /\ \A n : Given(n)' = Given(n)
<1>1. out' \in Seq(Attr) /\ out' = out
  BY DEF Inv
<1>2. /\ \A k \in 1..Len(out) : Genuine(k, out[k], out[k - 1])
      /\ \A k \in 1..Len(out) : ValueGenuine(out[k])
  BY GenuineMeans DEF Inv
<1> QED
  BY <1>1, <1>2, GenuineMeansNext DEF Given

LEMMA AppendOut ==
    ASSUME Inv, inode' = inode, NEW a \in Attr, out' = Append(out, a),
           Genuine(Len(out) + 1, a, out[Len(out)]), ValueGenuine(a)
    PROVE  /\ out' \in Seq(Attr) /\ Len(out') = Len(out) + 1
           /\ out'[Len(out')] = a
           /\ \A k \in 1..Len(out) : out'[k] = out[k]
           /\ AttributesGenuine' /\ ValuesGenuine'
           /\ \A n : Cardinality(Given(n)') =
                        Cardinality(Given(n)) + (IF a.name.block = n THEN 1 ELSE 0)
<1>0. out \in Seq(Attr) /\ Len(out) \in Nat
  BY DEF Inv
<1>1. /\ out' \in Seq(Attr) /\ Len(out') = Len(out) + 1
      /\ \A k \in 1..Len(out) : out'[k] = out[k]
      /\ out'[Len(out) + 1] = a
  BY <1>0, AppendProperties
<1>2. /\ \A k \in 1..Len(out) : Genuine(k, out[k], out[k - 1])
      /\ \A k \in 1..Len(out) : ValueGenuine(out[k])
  BY GenuineMeans DEF Inv
<1>3. \A k \in 1..Len(out') : Genuine(k, out'[k], out'[k - 1])
  <2> SUFFICES ASSUME NEW k \in 1..Len(out') PROVE Genuine(k, out'[k], out'[k - 1])
    OBVIOUS
  <2>1. CASE k = 1
    <3>1. \A m, n : Genuine(1, out'[1], m) <=> Genuine(1, out'[1], n)
      BY DEF Genuine
    <3>2. Genuine(1, out'[1], IF Len(out) = 0 THEN out[Len(out)] ELSE out[0])
      BY <1>0, <1>1, <1>2
    <3> QED
      BY <2>1, <3>1, <3>2
  <2>2. CASE k \in 2..Len(out)
    <3>1. k \in 1..Len(out) /\ k - 1 \in 1..Len(out)
      BY <1>0, <2>2
    <3> QED
      BY <1>1, <1>2, <3>1
  <2>3. CASE k = Len(out) + 1 /\ k # 1
    <3>1. k - 1 = Len(out) /\ Len(out) \in 1..Len(out)
      BY <1>0, <2>3
    <3> QED
      BY <1>1, <2>3, <3>1
  <2>4. k = 1 \/ k \in 2..Len(out) \/ (k = Len(out) + 1 /\ k # 1)
    BY <1>0, <1>1
  <2> QED
    BY <2>1, <2>2, <2>3, <2>4
<1>4. \A k \in 1..Len(out') : ValueGenuine(out'[k])
  <2>1. \A k \in 1..Len(out') : k \in 1..Len(out) \/ k = Len(out) + 1
    BY <1>0, <1>1
  <2> QED
    BY <1>1, <1>2, <2>1
<1>5. ASSUME NEW n
      PROVE  Cardinality(Given(n)') =
                Cardinality(Given(n)) + (IF a.name.block = n THEN 1 ELSE 0)
  <2>1. IsFiniteSet(Given(n))
    <3>1. IsFiniteSet(1..Len(out))
      BY <1>0, FS_Interval
    <3>2. Given(n) \subseteq 1..Len(out)
      BY DEF Given
    <3> QED
      BY <3>1, <3>2, FS_Subset
  <2>2. Given(n)' = IF a.name.block = n THEN Given(n) \cup {Len(out) + 1} ELSE Given(n)
    <3>1. \A k : k \in 1..Len(out') <=> k \in 1..Len(out) \/ k = Len(out) + 1
      BY <1>0, <1>1
    <3> QED
      BY <1>1, <3>1 DEF Given
  <2>3. Len(out) + 1 \notin Given(n)
    BY <1>0 DEF Given
  <2>4. Cardinality(Given(n)) \in Nat
    BY <2>1, FS_CardinalityType
  <2>5. Cardinality(Given(n) \cup {Len(out) + 1}) = Cardinality(Given(n)) + 1
    BY <2>1, <2>3, FS_AddElement
  <2>6. Cardinality(Given(n)') = IF a.name.block = n THEN Cardinality(Given(n) \cup {Len(out) + 1})
                                 ELSE Cardinality(Given(n))
    BY <2>2
  <2> QED
    BY <2>4, <2>5, <2>6
<1> QED
  BY <1>1, <1>3, <1>4, <1>5, GenuineMeansNext

-----------------------------------------------------------------------------
(* Counting. *)
LEMMA SeenFacts ==
    ASSUME inode \in Inodes, out \in Seq(Attr), NEW n
    PROVE  /\ IsFiniteSet(Seen(n)) /\ Cardinality(Seen(n)) \in Nat
           /\ IsFiniteSet(Given(n)) /\ Cardinality(Given(n)) \in Nat
<1>1. Len(Recs) \in Nat /\ IsFiniteSet(1..Len(Recs)) /\ Seen(n) \subseteq 1..Len(Recs)
  BY RecsFacts, FS_Interval DEF Seen
<1>2. IsFiniteSet(Seen(n)) /\ Cardinality(Seen(n)) \in Nat
  BY <1>1, FS_Subset, FS_CardinalityType
<1>3. Len(out) \in Nat /\ IsFiniteSet(1..Len(out)) /\ Given(n) \subseteq 1..Len(out)
  BY FS_Interval DEF Given
<1>4. IsFiniteSet(Given(n)) /\ Cardinality(Given(n)) \in Nat
  BY <1>3, FS_Subset, FS_CardinalityType
<1> QED
  BY <1>2, <1>4

(* A step that lists no more than it had reserved, and visits no less,     *)
(* keeps the count.                                                        *)
LEMMA Reserve ==
    ASSUME Inv, inode' = inode,
           \A n \in 0..(ImageBlocks - 1) :
               /\ Cardinality(Given(n)') \in Nat /\ Reserved(n)' \in Int
               /\ Cardinality(Given(n)') + Reserved(n)' <= Cardinality(Given(n)) + Reserved(n),
           UNCHANGED <<next, b>>
    PROVE  Counted'
<1>1. \A n : Seen(n)' = Seen(n) /\ Cap(n)' = Cap(n)
  BY SameInode DEF Seen, InRun
<1> SUFFICES ASSUME NEW n \in 0..(ImageBlocks - 1)
             PROVE  Cardinality(Given(n)') + Reserved(n)' <= Cardinality(Seen(n)) * Cap(n)
  BY <1>1 DEF Counted
<1>2. Cardinality(Given(n)) + Reserved(n) <= Cardinality(Seen(n)) * Cap(n)
  BY DEF Inv, Counted
<1> DEFINE g == Cardinality(Given(n))
           h == Cardinality(Given(n)')
           p == Cardinality(Seen(n)) * Cap(n)
           r == Reserved(n)
           q == Reserved(n)'
<1>3. g \in Nat /\ h \in Nat /\ p \in Nat /\ r \in Int /\ q \in Int
  <2>1. g \in Nat /\ Cardinality(Seen(n)) \in Nat
    BY SeenFacts DEF Inv
  <2>2. Cap(n) \in Nat
    BY CapFacts
  <2>3. r \in Int
    BY <2>2 DEF Reserved, Inv, TypeOK
  <2>4. h \in Nat /\ q \in Int
    OBVIOUS
  <2> HIDE DEF g, h, r, q
  <2> QED
    BY <2>1, <2>2, <2>3, <2>4
<1>4. h + q <= g + r /\ g + r <= p
  BY <1>2
<1> HIDE DEF g, h, p, r, q
<1>5. h + q <= p
  BY <1>3, <1>4
<1> QED
  BY <1>5 DEF h, p, q

-----------------------------------------------------------------------------
(***************************************************************************)
(* The steps.                                                              *)
(***************************************************************************)
LEMMA InitInv == Init => Inv
<1> SUFFICES ASSUME Init PROVE Inv
  OBVIOUS
<1>1. /\ inode \in Inodes /\ out = <<>> /\ Len(out) = 0 /\ out \in Seq(Attr)
      /\ pc = "called" /\ next = 1 /\ b = 0
  BY DEF Init
<1>2. TypeOK
  <2>1. Len(Recs) \in Nat /\ \A k \in 1..Len(Recs) : Recs[k].blockcount \in Nat
    BY <1>1, RecsFacts
  <2>2. next \in 1..(Len(Recs) + 1) /\ (next <= Len(Recs) => b <= Recs[next].blockcount)
    BY <1>1, <2>1
  <2> QED
    BY <2>2 DEF Init, TypeOK
<1>3. Place
  BY <1>1 DEF Place, InLoops
<1>4. AttributesGenuine /\ ValuesGenuine
  BY <1>1, GenuineMeans
<1>5. Counted
  <2> SUFFICES ASSUME NEW n \in 0..(ImageBlocks - 1)
               PROVE  Cardinality(Given(n)) + Reserved(n) <= Cardinality(Seen(n)) * Cap(n)
    BY DEF Counted
  <2>1. Given(n) = {} /\ Reserved(n) = 0
    BY <1>1 DEF Given, Reserved, InLoops
  <2>2. Cardinality(Given(n)) = 0
    BY <2>1, FS_EmptySet
  <2>3. Cardinality(Seen(n)) \in Nat /\ Cap(n) \in Nat
    BY <1>1, SeenFacts, CapFacts
  <2>4. Cardinality(Seen(n)) * Cap(n) \in Nat
    BY <2>3
  <2> QED
    BY <2>1, <2>2, <2>4
<1> QED
  BY <1>1, <1>2, <1>3, <1>4, <1>5 DEF Inv

(* Steps outside the leaves that list nothing: the call is refused or its  *)
(* reader begins or ends.                                                  *)
LEMMA LeaveInv ==
    ASSUME Inv,
           \/ NoAttributes \/ RefuseFormat \/ StartShort \/ StartLeafFork
           \/ EndShort \/ EndExtents
    PROVE  Inv'
<1>1. /\ UNCHANGED <<inode, next, b, at, entry, logical, value, have, out>>
      /\ pc \notin {"leaf", "value"}
      /\ pc' \in {"short", "extents", "returned", "unsupported"}
  BY DEF NoAttributes, RefuseFormat, StartShort, StartLeafFork, EndShort, EndExtents
<1>2. /\ off' \in Nat
      /\ pc' = "short" => off' = SHORT_HDR_LEN /\ off' <= AttrForkLen /\ out = <<>>
  <2>1. CASE StartShort
    <3>1. AttrForkLen \in Nat
      BY RecsFacts DEF Inv
    <3> QED
      BY <2>1, <3>1 DEF StartShort, SHORT_HDR_LEN, Inv, Place
  <2>2. CASE NoAttributes \/ RefuseFormat \/ StartLeafFork \/ EndShort \/ EndExtents
    BY <2>2 DEF NoAttributes, RefuseFormat, StartLeafFork, EndShort, EndExtents, Inv, TypeOK
  <2> QED
    BY <2>1, <2>2
<1>3. out' \in Seq(Attr) /\ AttributesGenuine' /\ ValuesGenuine' /\ \A n : Given(n)' = Given(n)
  BY <1>1, KeepOut
<1>4. TypeOK'
  BY <1>1, <1>2, SameInode DEF Inv, TypeOK
<1>5. Place'
  <2>1. pc' = "short" => \A k \in 1..Len(out) : out[k].name.block = Inline
    BY <1>2
  <2> QED
    BY <1>1, <1>2, <2>1 DEF Place, InLoops
<1>6. Counted'
  <2>1. \A n : Reserved(n) = 0 /\ Reserved(n)' = 0
    BY <1>1 DEF Reserved, InLoops
  <2>2. \A n : Cardinality(Given(n)) \in Nat /\ Given(n)' = Given(n)
    BY <1>3, SeenFacts DEF Inv
  <2> QED
    BY <1>1, <2>1, <2>2, Reserve
<1> QED
  BY <1>1, <1>3, <1>4, <1>5, <1>6 DEF Inv

LEMMA XattrType ==
    ASSUME NEW name \in Piece, NEW flags, NEW val \in Seq(Piece),
           NEW storage \in Storage
    PROVE  /\ Xattr(name, flags, val, storage) \in Attr
           /\ Xattr(name, flags, val, storage).name = name
           /\ Xattr(name, flags, val, storage).value = val
           /\ Xattr(name, flags, val, storage).storage = storage
<1>1. FromFlags(flags) \in {"trusted", "security", "user"}
  BY DEF FromFlags
<1>2. ("INCOMPLETE" \in flags) \in BOOLEAN
  OBVIOUS
<1> QED
  BY <1>1, <1>2 DEF Xattr, Attr

(* parse_shortform. *)
LEMMA TakeShortInv ==
    ASSUME Inv, TakeShort
    PROVE  Inv'
<1> DEFINE nl == ShortItem.namelen
           vl == ShortItem.valuelen
           name == P(Inline, off + 3, nl)
           val == P(Inline, off + 3 + nl, vl)
           a == Xattr(name, ShortItem.flags, <<val>>, <<"Shortform">>)
<1>1. /\ inode \in Inodes /\ inode' = inode /\ pc = "short" /\ out' = Append(out, a)
      /\ off' = off + 3 + nl + vl /\ off' <= AttrForkLen /\ entry' = entry + 1
      /\ UNCHANGED <<pc, next, b, at, logical, value, have>>
      /\ entry <= inode.short.count /\ entry \in Nat \ {0} /\ off \in Nat
      /\ out \in Seq(Attr)
  BY DEF Inv, TypeOK, TakeShort, MoreShort, ShortEnd
<1>2. nl \in Nat /\ vl \in Nat
  <2>1. /\ inode.short.items \in Seq(ShortEntry) /\ Len(inode.short.items) >= inode.short.count
        /\ inode.short.count \in Nat
    BY <1>1, InodesAssumption
  <2>2. entry <= Len(inode.short.items)
    BY <1>1, <2>1, LenProperties
  <2>3. inode.short.items[entry] \in ShortEntry
    BY <1>1, <2>1, <2>2, ElementOfSeq
  <2> QED
    BY <2>3 DEF ShortItem, ShortEntry
<1> HIDE DEF nl, vl
<1>3. /\ name \in Piece /\ val \in Piece
      /\ name.block = Inline /\ name.off = off + 3 /\ End(name) = off + 3 + nl
      /\ val.block = Inline /\ val.off = off + 3 + nl /\ End(val) = off + 3 + nl + vl
  BY <1>1, <1>2 DEF P, Piece, End
<1> HIDE DEF name, val
<1>4. /\ a \in Attr /\ a.name = name /\ a.value = <<val>> /\ a.value[1] = val
      /\ a.storage = <<"Shortform">> /\ a.storage[1] = "Shortform"
  <2> DEFINE v == <<val>>
             f == ShortItem.flags
             s == <<"Shortform">>
  <2>1. v \in Seq(Piece) /\ s \in Storage
    BY <1>3 DEF Storage
  <2> HIDE DEF v, f, s
  <2>2. /\ Xattr(name, f, v, s) \in Attr /\ Xattr(name, f, v, s).name = name
        /\ Xattr(name, f, v, s).value = v /\ Xattr(name, f, v, s).storage = s
    BY <1>3, <2>1, XattrType
  <2>3. a = Xattr(name, f, v, s)
    BY DEF v, f, s
  <2>4. v[1] = val /\ s[1] = "Shortform"
    BY DEF v, s
  <2> HIDE DEF a
  <2> QED
    BY <2>2, <2>3, <2>4 DEF v, s
<1> HIDE DEF a
<1>5. off = IF out = <<>> THEN SHORT_HDR_LEN ELSE End(out[Len(out)].value[1])
  BY <1>1 DEF Inv, Place
<1>6. Genuine(Len(out) + 1, a, out[Len(out)])
  <2>1. Len(out) \in Nat /\ (out = <<>> <=> Len(out) + 1 = 1)
    BY <1>1
  <2> QED
    BY <1>1, <1>3, <1>4, <1>5, <2>1 DEF Genuine
<1>7. ValueGenuine(a)
  BY <1>4 DEF ValueGenuine
<1>8. /\ out' \in Seq(Attr) /\ Len(out') = Len(out) + 1 /\ out'[Len(out')] = a
      /\ \A k \in 1..Len(out) : out'[k] = out[k]
      /\ AttributesGenuine' /\ ValuesGenuine'
      /\ \A n : Cardinality(Given(n)') =
                   Cardinality(Given(n)) + (IF a.name.block = n THEN 1 ELSE 0)
  BY <1>1, <1>4, <1>6, <1>7, AppendOut
<1>9. TypeOK'
  BY <1>1, <1>2, SameInode DEF Inv, TypeOK
<1>10. Place'
  <2>1. \A k \in 1..Len(out') : k \in 1..Len(out) \/ k = Len(out')
    BY <1>1, <1>8
  <2>2. \A k \in 1..Len(out') : out'[k].name.block = Inline
    BY <1>1, <1>3, <1>4, <1>8, <2>1 DEF Inv, Place
  <2>3. out' # <<>>
    BY <1>1, <1>8
  <2>4. off' = End(out'[Len(out')].value[1])
    BY <1>1, <1>3, <1>4, <1>8
  <2> QED
    BY <1>1, <2>2, <2>3, <2>4 DEF Place, InLoops, End
<1>11. Counted'
  <2>1. \A n : Reserved(n) = 0 /\ Reserved(n)' = 0
    BY <1>1 DEF Reserved, InLoops
  <2>2. \A n \in 0..(ImageBlocks - 1) : a.name.block # n
    BY <1>3, <1>4 DEF Inline
  <2>3. \A n : Cardinality(Given(n)) \in Nat
    BY <1>1, SeenFacts
  <2>4. \A n \in 0..(ImageBlocks - 1) : Cardinality(Given(n)') = Cardinality(Given(n))
    BY <1>8, <2>2, <2>3
  <2> QED
    BY <1>1, <2>1, <2>3, <2>4, Reserve
<1> QED
  BY <1>1, <1>8, <1>9, <1>10, <1>11 DEF Inv

LEMMA Products ==
    ASSUME NEW s \in Nat, NEW t \in Nat, NEW c \in Nat
    PROVE  /\ s * c \in Nat /\ (s + 1) * c = s * c + c
           /\ s <= t => s * c <= t * c
<1>1. s * c \in Nat /\ (s + 1) * c = s * c + c
  OBVIOUS
<1>2. ASSUME s <= t PROVE s * c <= t * c
  <2>1. PICK d \in Nat : t = s + d
    <3>1. t - s \in Nat /\ t = s + (t - s)
      BY <1>2
    <3> QED
      BY <3>1
  <2>2. t * c = s * c + d * c /\ d * c \in Nat
    BY <2>1
  <2> DEFINE x == s * c
             y == d * c
  <2>3. x \in Nat /\ y \in Nat /\ t * c = x + y
    BY <1>1, <2>2
  <2> HIDE DEF x, y
  <2> QED
    BY <2>3 DEF x
<1> QED
  BY <1>1, <1>2

(* A step that lists nothing and goes on in the map, if need be with a     *)
(* visit to a leaf.                                                        *)
LEMMA Visit ==
    ASSUME Inv, UNCHANGED <<inode, out>>, ~InLoops,
           \A n \in 0..(ImageBlocks - 1) :
               \/ Seen(n) \subseteq Seen(n)' /\ Reserved(n)' = 0
               \/ Cardinality(Seen(n)') = Cardinality(Seen(n)) + 1 /\ Reserved(n)' = Cap(n),
           \A n : IsFiniteSet(Seen(n)') /\ Cardinality(Seen(n)') \in Nat
    PROVE  Counted'
<1>1. \A n : Cap(n)' = Cap(n) /\ Given(n)' = Given(n)
  BY SameInode DEF Given
<1> SUFFICES ASSUME NEW n \in 0..(ImageBlocks - 1)
             PROVE  Cardinality(Given(n)) + Reserved(n)' <= Cardinality(Seen(n)') * Cap(n)
  BY <1>1 DEF Counted
<1> DEFINE g == Cardinality(Given(n))
           s == Cardinality(Seen(n))
           t == Cardinality(Seen(n)')
           c == Cap(n)
<1>2. g \in Nat /\ s \in Nat /\ t \in Nat /\ c \in Nat
  BY SeenFacts, CapFacts DEF Inv
<1>3. g <= s * c
  <2>1. Reserved(n) = 0
    BY DEF Reserved
  <2>2. g + Reserved(n) <= s * c
    BY DEF Inv, Counted
  <2> QED
    BY <1>2, <2>1, <2>2
<1>4. (s <= t /\ Reserved(n)' = 0) \/ (t = s + 1 /\ Reserved(n)' = c)
  <2>1. Seen(n) \subseteq Seen(n)' => s <= t
    BY FS_Subset
  <2> QED
    BY <2>1
<1> HIDE DEF g, s, t, c
<1>5. CASE s <= t /\ Reserved(n)' = 0
  <2>1. s * c \in Nat /\ t * c \in Nat /\ s * c <= t * c
    BY <1>2, <1>5, Products
  <2>2. g + Reserved(n)' <= t * c
    BY <1>2, <1>3, <1>5, <2>1
  <2> QED
    BY <2>2 DEF g, t, c
<1>6. CASE t = s + 1 /\ Reserved(n)' = c
  <2>1. s * c \in Nat /\ t * c = s * c + c
    BY <1>2, <1>6, Products
  <2>2. g + Reserved(n)' <= t * c
    BY <1>2, <1>3, <1>6, <2>1
  <2> QED
    BY <2>2 DEF g, t, c
<1> QED
  BY <1>4, <1>5, <1>6

LEMMA SeenNext ==
    ASSUME Inv, inode' = inode
    PROVE  \A n : IsFiniteSet(Seen(n)') /\ Cardinality(Seen(n)') \in Nat
<1> SUFFICES ASSUME NEW n PROVE IsFiniteSet(Seen(n)') /\ Cardinality(Seen(n)') \in Nat
  OBVIOUS
<1>1. Len(Recs) \in Nat /\ IsFiniteSet(1..Len(Recs)) /\ Seen(n)' \subseteq 1..Len(Recs)
  BY RecsFacts, SameInode, FS_Interval DEF Seen, Inv
<1> QED
  BY <1>1, FS_Subset, FS_CardinalityType

(* parse_leaf_fork goes on in its map. *)
LEMMA WalkMapInv ==
    ASSUME Inv, NextExtent \/ SkipBlock
    PROVE  Inv'
<1>1. /\ inode \in Inodes /\ UNCHANGED <<inode, pc, at, entry, off, logical, value, have, out>>
      /\ pc = "extents" /\ next \in 1..Len(Recs) /\ b \in Nat
  BY RecsFacts DEF Inv, TypeOK, NextExtent, SkipBlock, InExtents
<1>2. /\ Len(Recs) \in Nat /\ Recs' = Recs
      /\ \A k \in 1..Len(Recs) : Recs[k].startblock \in Nat /\ Recs[k].blockcount \in Nat
  BY <1>1, RecsFacts, SameInode
<1>3. out' \in Seq(Attr) /\ AttributesGenuine' /\ ValuesGenuine' /\ \A n : Given(n)' = Given(n)
  BY <1>1, KeepOut
<1>4. \/ b = Recs[next].blockcount /\ next' = next + 1 /\ b' = 0
      \/ b < Recs[next].blockcount /\ next' = next /\ b' = b + 1
  BY DEF NextExtent, SkipBlock
<1>5. TypeOK'
  <2>1. /\ next' \in 1..(Len(Recs) + 1) /\ b' \in Nat
        /\ next' <= Len(Recs) => b' <= Recs[next'].blockcount
    BY <1>1, <1>2, <1>4
  <2> QED
    BY <1>1, <1>2, <2>1, SameInode DEF Inv, TypeOK
<1>6. Place'
  BY <1>1 DEF Place, InLoops
<1>7. Counted'
  <2>1. \A n : Reserved(n)' = 0
    BY <1>1 DEF Reserved, InLoops
  <2>2. ASSUME NEW n \in 0..(ImageBlocks - 1) PROVE Seen(n) \subseteq Seen(n)'
    <3> SUFFICES ASSUME NEW k \in Seen(n) PROVE k \in Seen(n)'
      OBVIOUS
    <3>1. /\ k \in 1..Len(Recs) /\ InRun(Recs[k], n)
          /\ k < next \/ (k = next /\ n - Recs[k].startblock < b)
      BY DEF Seen
    <3>2. k < next' \/ (k = next' /\ n - Recs[k].startblock < b')
      BY <1>1, <1>2, <1>4, <3>1
    <3> QED
      BY <1>2, <3>1, <3>2 DEF Seen, InRun
  <2> QED
    BY <1>1, <2>1, <2>2, SeenNext, Visit DEF InLoops
<1> QED
  BY <1>1, <1>3, <1>5, <1>6, <1>7 DEF Inv

LEMMA EnterLeafInv ==
    ASSUME Inv, EnterLeaf
    PROVE  Inv'
<1>0. PICK f : f = Fsblock
  OBVIOUS
<1>1. /\ inode \in Inodes /\ UNCHANGED <<inode, next, off, logical, value, have, out>>
      /\ pc = "extents" /\ pc' = "leaf" /\ at' = f /\ entry' = 1 /\ b' = b + 1
      /\ next \in 1..Len(Recs) /\ b \in Nat /\ b < Recs[next].blockcount
      /\ f = Recs[next].startblock + b /\ IsLeaf(f)
  BY <1>0, RecsFacts DEF Inv, TypeOK, EnterLeaf, InExtents, Fsblock
<1>2. /\ Len(Recs) \in Nat /\ Recs' = Recs
      /\ \A k \in 1..Len(Recs) : Recs[k].startblock \in Nat /\ Recs[k].blockcount \in Nat
  BY <1>1, RecsFacts, SameInode
<1>3. out' \in Seq(Attr) /\ AttributesGenuine' /\ ValuesGenuine' /\ \A n : Given(n)' = Given(n)
  BY <1>1, KeepOut
<1>4. f \in 0..(ImageBlocks - 1) /\ ForkMaps(f)
  <2>1. f \in 0..(ImageBlocks - 1)
    BY <1>1 DEF IsLeaf, InImage
  <2>2. Recs[next].startblock <= f /\ f < Recs[next].startblock + Recs[next].blockcount
    <3> DEFINE s == Recs[next].startblock
               c == Recs[next].blockcount
    <3>1. s \in Nat /\ c \in Nat /\ b \in Nat /\ b < c /\ f = s + b
      BY <1>1, <1>2
    <3> HIDE DEF s, c
    <3>2. s <= f /\ f < s + c
      BY ONLY <3>1
    <3> QED
      BY <3>2 DEF s, c
  <2> QED
    BY <1>1, <2>1, <2>2 DEF ForkMaps
<1>5. TypeOK'
  <2>1. b' <= Recs[next].blockcount
    BY <1>1, <1>2
  <2>2. IsLeaf(at)'
    BY <1>1, SameInode DEF IsLeaf, InImage
  <2> QED
    BY <1>1, <1>2, <1>4, <2>1, <2>2, SameInode DEF Inv, TypeOK
<1>6. Place'
  <2>1. ForkMaps(at)'
    BY <1>1, <1>2, <1>4 DEF ForkMaps
  <2>2. 1 <= EntryCount' + 1
    <3>1. inode' \in Inodes /\ at' \in 0..(ImageBlocks - 1)
      BY <1>1, <1>4
    <3>2. Leaf.count' \in Nat
      BY <3>1, InodesAssumption DEF Leaf
    <3>3. PICK h \in {80, 32} : h = HdrLen'
      BY DEF HdrLen, LEAF_HDR_LEN, LEAF_HDR_LEN_V4
    <3>4. PICK c \in Nat : c = LargerOf(BlockSize - h, 0) \div 8
      <4>1. LargerOf(BlockSize - h, 0) \in Nat
        <5>1. BlockSize \in Nat /\ h \in Nat
          OBVIOUS
        <5> QED
          BY <5>1 DEF LargerOf
      <4>2. LargerOf(BlockSize - h, 0) \div 8 \in Nat
        BY <4>1
      <4> QED
        BY <4>2
    <3>5. EntryCount' = AtMost(Leaf.count', c)
      BY <3>3, <3>4 DEF EntryCount, LEAF_ENTRY_LEN
    <3>6. AtMost(Leaf.count', c) \in Nat
      BY <3>2 DEF AtMost
    <3> QED
      BY <3>5, <3>6
  <2> QED
    BY <1>1, <2>1, <2>2 DEF Place, InLoops
<1>7. Counted'
  <2>1. ASSUME NEW n \in 0..(ImageBlocks - 1), n # f
        PROVE  Seen(n) \subseteq Seen(n)' /\ Reserved(n)' = 0
    <3>1. Reserved(n)' = 0
      BY <1>1, <2>1 DEF Reserved
    <3>2. \A k \in Seen(n) : k \in Seen(n)'
      <4> SUFFICES ASSUME NEW k \in Seen(n) PROVE k \in Seen(n)'
        OBVIOUS
      <4>1. /\ k \in 1..Len(Recs) /\ InRun(Recs[k], n)
            /\ k < next \/ (k = next /\ n - Recs[k].startblock < b)
        BY DEF Seen
      <4>2. k < next' \/ (k = next' /\ n - Recs[k].startblock < b')
        BY <1>1, <1>2, <4>1
      <4> QED
        BY <1>2, <4>1, <4>2 DEF Seen, InRun
    <3> QED
      BY <3>1, <3>2
  <2>2. Reserved(f)' = Cap(f)
    <3>1. Cap(f)' = Cap(f) /\ Cap(f) \in Nat
      BY <1>1, SameInode, CapFacts
    <3> QED
      BY <1>1, <3>1 DEF Reserved, InLoops
  <2>3. Cardinality(Seen(f)') = Cardinality(Seen(f)) + 1
    <3>1. next \notin Seen(f)
      BY <1>1, <1>2 DEF Seen
    <3>2. ASSUME NEW k \in 1..Len(Recs)
          PROVE  k \in Seen(f)' <=> k \in Seen(f) \/ k = next
      <4>1. k \in Seen(f) <=> /\ InRun(Recs[k], f)
                              /\ (k < next \/ (k = next /\ f - Recs[k].startblock < b))
        BY DEF Seen
      <4>2. k \in Seen(f)' <=> /\ InRun(Recs[k], f)
                               /\ (k < next \/ (k = next /\ f - Recs[k].startblock < b + 1))
        BY <1>1, <1>2 DEF Seen, InRun
      <4>3. k = next => InRun(Recs[k], f) /\ f - Recs[k].startblock < b + 1
        BY <1>1, <1>2 DEF InRun
      <4>4. k # next => (k \in Seen(f)' <=> k \in Seen(f))
        BY <4>1, <4>2
      <4> QED
        BY <4>2, <4>3, <4>4
    <3>3. Seen(f)' = Seen(f) \cup {next}
      <4>1. Seen(f) \subseteq 1..Len(Recs) /\ Seen(f)' \subseteq 1..Len(Recs)
        BY <1>2 DEF Seen
      <4> QED
        BY <1>1, <3>2, <4>1
    <3> QED
      BY <1>1, <3>1, <3>3, SeenFacts, FS_AddElement DEF Inv
  <2> QED
    BY <1>1, <2>1, <2>2, <2>3, SeenNext, Visit DEF InLoops
<1> QED
  BY <1>1, <1>3, <1>5, <1>6, <1>7 DEF Inv

(* parse_leaf_block. *)
LEMMA SameLeaf ==
    ASSUME UNCHANGED <<inode, at>>
    PROVE  /\ V5' <=> V5
           /\ EntryCount' = EntryCount /\ BodyOff' = BodyOff /\ Payload' = Payload
           /\ entry' = entry => /\ IsLocal' <=> IsLocal
                                /\ RemoteFits' <=> RemoteFits
                                /\ Remote' = Remote /\ Cur' = Cur
<1>1. V5' <=> V5
  BY DEF V5, Leaf
<1>2. EntryCount' = EntryCount
  BY <1>1 DEF EntryCount, HdrLen, Leaf
<1>3. BodyOff' = BodyOff /\ Payload' = Payload
  BY <1>1 DEF BodyOff, Payload
<1>4. ASSUME entry' = entry PROVE Cur' = Cur /\ Remote' = Remote
  BY <1>4 DEF Cur, Leaf, Remote, NameAt
<1>5. entry' = entry => (IsLocal' <=> IsLocal) /\ (RemoteFits' <=> RemoteFits)
  BY <1>4 DEF IsLocal, RemoteFits
<1> QED
  BY <1>1, <1>2, <1>3, <1>4, <1>5

LEMMA InLeafFacts ==
    ASSUME Inv, InLoops
    PROVE  /\ inode \in Inodes /\ at \in 0..(ImageBlocks - 1) /\ entry \in Nat \ {0}
           /\ EntryCount \in Nat /\ EntryCount <= Cap(at) /\ entry <= EntryCount + 1
           /\ IsLeaf(at) /\ ForkMaps(at)
           /\ \A n : Reserved(n) \in Int
<1>1. /\ inode \in Inodes /\ at \in 0..(ImageBlocks - 1) /\ entry \in Nat \ {0}
      /\ entry <= EntryCount + 1 /\ IsLeaf(at) /\ ForkMaps(at)
  BY DEF Inv, TypeOK, Place, InLoops
<1>2. EntryCount \in Nat /\ EntryCount <= Cap(at) /\ \A n : Cap(n) \in Nat
  BY <1>1, CapFacts
<1> QED
  BY <1>1, <1>2 DEF Reserved

LEMMA LeafMoveInv ==
    ASSUME Inv, SkipEntry \/ EndLeaf
    PROVE  Inv'
<1>1. /\ UNCHANGED <<inode, next, b, at, off, logical, value, have, out>>
      /\ pc = "leaf" /\ InLoops
      /\ \/ pc' = "leaf" /\ entry' = entry + 1 /\ entry <= EntryCount
         \/ pc' = "extents" /\ entry' = entry /\ entry > EntryCount
  BY DEF SkipEntry, EndLeaf, InLeaf, InLoops
<1>2. /\ at \in 0..(ImageBlocks - 1) /\ entry \in Nat \ {0}
      /\ EntryCount \in Nat /\ EntryCount <= Cap(at) /\ entry <= EntryCount + 1
      /\ IsLeaf(at) /\ ForkMaps(at) /\ \A n : Reserved(n) \in Int
  BY <1>1, InLeafFacts
<1>3. out' \in Seq(Attr) /\ AttributesGenuine' /\ ValuesGenuine' /\ \A n : Given(n)' = Given(n)
  BY <1>1, KeepOut
<1>4. entry' \in Nat \ {0}
  BY <1>1, <1>2
<1>5. TypeOK'
  BY <1>1, <1>4, SameInode DEF Inv, TypeOK, IsLeaf, InImage
<1>6. Place'
  <2>1. ForkMaps(at)' /\ EntryCount' = EntryCount
    BY <1>1, <1>2, SameLeaf, SameInode DEF ForkMaps
  <2>2. pc' = "leaf" => entry' <= EntryCount' + 1
    BY <1>1, <1>2, <2>1
  <2> QED
    BY <1>1, <2>1, <2>2 DEF Place, InLoops
<1>7. Counted'
  <2> SUFFICES ASSUME NEW n \in 0..(ImageBlocks - 1)
               PROVE  /\ Cardinality(Given(n)') \in Nat /\ Reserved(n)' \in Int
                      /\ Cardinality(Given(n)') + Reserved(n)' <= Cardinality(Given(n)) + Reserved(n)
    BY <1>1, Reserve
  <2>1. Cardinality(Given(n)') = Cardinality(Given(n)) /\ Cardinality(Given(n)) \in Nat
    BY <1>3, SeenFacts DEF Inv
  <2>2. Cap(n) \in Nat /\ Cap(n)' = Cap(n)
    BY <1>1, CapFacts, SameInode
  <2>3. Reserved(n)' \in Int /\ Reserved(n)' <= Reserved(n)
    BY <1>1, <1>2, <2>2 DEF Reserved, InLoops
  <2> QED
    BY <1>2, <2>1, <2>3
<1> QED
  BY <1>1, <1>3, <1>5, <1>6, <1>7 DEF Inv

(* An attribute of the leaf is listed, and its entry is done.              *)
LEMMA ListInv ==
    ASSUME Inv, InLoops, NEW a \in Attr, a.name.block = at, entry <= EntryCount,
           Genuine(Len(out) + 1, a, out[Len(out)]), ValueGenuine(a),
           out' = Append(out, a), pc' = "leaf", entry' = entry + 1,
           UNCHANGED <<inode, next, b, at, off, logical, value, have>>
    PROVE  Inv'
<1>1. InLoops' /\ pc' = "leaf"
  BY DEF InLoops
<1>2. /\ at \in 0..(ImageBlocks - 1) /\ entry \in Nat \ {0}
      /\ EntryCount \in Nat /\ EntryCount <= Cap(at)
      /\ IsLeaf(at) /\ ForkMaps(at) /\ \A n : Reserved(n) \in Int
  BY InLeafFacts
<1>3. /\ out' \in Seq(Attr) /\ AttributesGenuine' /\ ValuesGenuine'
      /\ \A n : Cardinality(Given(n)') =
                   Cardinality(Given(n)) + (IF a.name.block = n THEN 1 ELSE 0)
  BY AppendOut
<1>4. TypeOK'
  BY <1>1, <1>2, SameInode DEF Inv, TypeOK, IsLeaf, InImage
<1>5. Place'
  <2>1. ForkMaps(at)' /\ EntryCount' = EntryCount
    BY <1>2, SameLeaf, SameInode DEF ForkMaps
  <2>2. entry' <= EntryCount' + 1
    BY <1>2, <2>1
  <2> QED
    BY <1>1, <2>1, <2>2 DEF Place, InLoops
<1>6. Counted'
  <2> SUFFICES ASSUME NEW n \in 0..(ImageBlocks - 1)
               PROVE  /\ Cardinality(Given(n)') \in Nat /\ Reserved(n)' \in Int
                      /\ Cardinality(Given(n)') + Reserved(n)' <= Cardinality(Given(n)) + Reserved(n)
    BY Reserve
  <2> DEFINE g == Cardinality(Given(n))
             h == Cardinality(Given(n)')
  <2>1. g \in Nat /\ h = g + (IF at = n THEN 1 ELSE 0)
    BY <1>3, SeenFacts DEF Inv
  <2>2. Cap(n) \in Nat /\ Cap(n)' = Cap(n)
    BY CapFacts, SameInode
  <2>3. Reserved(n) = (IF at = n THEN Cap(n) - (entry - 1) ELSE 0)
    BY DEF Reserved
  <2>4. Reserved(n)' = (IF at = n THEN Cap(n) - (entry + 1 - 1) ELSE 0)
    <3>1. InLoops' /\ at' = at /\ entry' = entry + 1 /\ Cap(n)' = Cap(n)
      BY <1>1, <2>2
    <3>2. Reserved(n)' = IF InLoops' /\ at' = n THEN Cap(n)' - (entry' - 1) ELSE 0
      BY DEF Reserved
    <3> QED
      BY <1>2, <2>2, <3>1, <3>2
  <2> HIDE DEF g, h
  <2>5. h \in Nat /\ Reserved(n)' \in Int /\ h + Reserved(n)' <= g + Reserved(n)
    BY <1>2, <2>1, <2>2, <2>3, <2>4
  <2> QED
    BY <2>5 DEF g, h
<1> QED
  BY <1>3, <1>4, <1>5, <1>6 DEF Inv

LEMMA TakeLocalInv ==
    ASSUME Inv, TakeLocal
    PROVE  Inv'
<1>0. PICK idx, nl, vl, f :
         idx = Cur.nameidx /\ nl = Local.namelen /\ vl = Local.valuelen /\ f = Cur.flags
  OBVIOUS
<1> DEFINE name == P(at, idx + 3, nl)
           val == P(at, idx + 3 + nl, vl)
           v == <<val>>
           s == <<"LeafLocal">>
           a == Xattr(name, f, v, s)
<1>1. /\ InLoops /\ entry <= EntryCount /\ pc' = "leaf" /\ entry' = entry + 1
      /\ UNCHANGED <<inode, next, b, at, off, logical, value, have>>
      /\ out' = Append(out, a) /\ idx + 3 + nl + vl <= BlockSize
  BY <1>0 DEF TakeLocal, InLeaf, InLoops, LocalFits
<1>2. /\ inode \in Inodes /\ at \in 0..(ImageBlocks - 1) /\ entry \in Nat \ {0}
      /\ IsLeaf(at) /\ ForkMaps(at)
  BY <1>1, InLeafFacts
<1>3. idx \in Nat /\ nl \in Nat /\ vl \in Nat
  BY <1>0, <1>2, CurFacts
<1>4. /\ name \in Piece /\ name.block = at /\ name.off = idx + 3 /\ name.len = nl
      /\ val \in Piece /\ End(name) = idx + 3 + nl /\ End(val) = idx + 3 + nl + vl
      /\ val = P(at, End(name), vl)
  <2>1. at \in {Inline} \cup Nat
    BY <1>2
  <2>2. name \in Piece /\ val \in Piece
    BY <1>3, <2>1 DEF P, Piece
  <2> QED
    BY <2>2 DEF P, End
<1> HIDE DEF name, val
<1>5. v \in Seq(Piece) /\ v[1] = val /\ s \in Storage /\ s[1] = "LeafLocal"
  BY <1>4 DEF Storage
<1>6. a \in Attr /\ a.name = name /\ a.value = v /\ a.storage = s
  <2> HIDE DEF v, s
  <2> QED
    BY <1>4, <1>5, XattrType
<1>7. NameOf(a).local.namelen = nl /\ NameOf(a).local.valuelen = vl
  <2>1. (idx + 3) - 3 = idx
    BY <1>3
  <2>2. NameOf(a) = NameAt(inode.blocks[at], idx)
    <3> HIDE DEF v, s, a
    <3> QED
      BY <1>4, <1>5, <1>6, <2>1 DEF NameOf
  <2> QED
    BY <1>0, <2>2 DEF Local, Leaf
<1>8. Genuine(Len(out) + 1, a, out[Len(out)])
  <2>1. /\ a.storage[1] = "LeafLocal" /\ a.name.block = at /\ a.name.len = nl
        /\ End(a.name) = idx + 3 + nl
        /\ a.value = <<P(a.name.block, End(a.name), vl)>> /\ a.value[1] = val
    BY <1>4, <1>5, <1>6
  <2> HIDE DEF a
  <2> QED
    BY <1>1, <1>2, <1>4, <1>7, <2>1 DEF Genuine
<1>9. ValueGenuine(a)
  <2> HIDE DEF a, v
  <2> QED
    BY <1>5, <1>6 DEF ValueGenuine
<1>10. a \in Attr /\ a.name.block = at
  BY <1>4, <1>6
<1> HIDE DEF a
<1> QED
  BY <1>1, <1>8, <1>9, <1>10, ListInv

(* read_remote_value. *)
LEMMA BeginValueInv ==
    ASSUME Inv, BeginValue
    PROVE  Inv'
<1>1. /\ InLoops /\ pc = "leaf" /\ pc' = "value" /\ entry <= EntryCount /\ ~IsLocal /\ RemoteFits
      /\ UNCHANGED <<inode, next, b, at, entry, off, out>>
      /\ logical' = Remote.valueblk /\ value' = <<>> /\ have' = 0
  BY DEF BeginValue, InLeaf, InLoops
<1>2. /\ inode \in Inodes /\ at \in 0..(ImageBlocks - 1) /\ entry \in Nat \ {0}
      /\ IsLeaf(at) /\ ForkMaps(at) /\ \A n : Reserved(n) \in Int
  BY <1>1, InLeafFacts
<1>3. out' \in Seq(Attr) /\ AttributesGenuine' /\ ValuesGenuine' /\ \A n : Given(n)' = Given(n)
  BY <1>1, KeepOut
<1>4. Remote.valueblk \in Nat /\ Remote.valuelen \in Nat
  BY <1>2, CurFacts
<1>5. TypeOK'
  BY <1>1, <1>2, <1>4, SameInode DEF Inv, TypeOK, IsLeaf, InImage
<1>6. Place'
  <2>1. ForkMaps(at)' /\ EntryCount' = EntryCount /\ Remote' = Remote
        /\ (IsLocal' <=> IsLocal) /\ (RemoteFits' <=> RemoteFits)
    BY <1>1, <1>2, SameLeaf, SameInode DEF ForkMaps
  <2>2. ValueSoFar'
    <3>1. value' \in Seq(Piece) /\ Len(value') = 0
      BY <1>1
    <3>2. Length(value', Len(value')) = 0
      BY <3>1, LengthSums
    <3>3. logical' = Remote'.valueblk + Len(value') /\ have' <= Remote'.valuelen
      BY <1>1, <1>4, <2>1, <3>1
    <3> QED
      BY <1>1, <3>1, <3>2, <3>3 DEF ValueSoFar
  <2>3. EntryCount \in Nat
    BY <1>2, CapFacts
  <2>4. entry <= EntryCount + 1
    BY <1>1, <1>2, <2>3
  <2> QED
    BY <1>1, <2>1, <2>2, <2>4 DEF Place, InLoops
<1>7. Counted'
  <2>1. \A n : Reserved(n)' = Reserved(n)
    BY <1>1, SameInode DEF Reserved, InLoops
  <2>2. \A n : Cardinality(Given(n)) \in Nat
    BY SeenFacts DEF Inv
  <2> QED
    BY <1>1, <1>2, <1>3, <2>1, <2>2, Reserve
<1> QED
  BY <1>1, <1>3, <1>5, <1>6, <1>7 DEF Inv

(* What MoreValue says of the block that comes next.                       *)
LEMMA NextPlace ==
    ASSUME Inv, pc = "value"
    PROVE  /\ logical \in Nat
           /\ Mapped(logical) => MapLogical(logical) \in Places(logical)
                                 /\ MapLogical(logical) \in Nat
           /\ ~Mapped(logical) => Places(logical) = {}
           /\ \A n : IsValueBlock(n) <=> Readable(n, V5)
           /\ BodyOff = (IF V5 THEN RMT_HDR_LEN ELSE 0)
           /\ Payload > 0 /\ Payload \in Nat /\ BodyOff \in Nat /\ BodyOff + Payload = BlockSize
           /\ Remote.valuelen \in Nat /\ Remote.valueblk \in Nat /\ Remote.namelen \in Nat
           /\ Cur.nameidx \in Nat
           /\ have \in Nat /\ have <= Remote.valuelen /\ have <= MAX_VALUE_LEN
<1>1. /\ inode \in Inodes /\ logical \in Nat /\ InLoops /\ entry \in Nat \ {0}
      /\ have \in Nat /\ have <= Remote.valuelen /\ have <= MAX_VALUE_LEN /\ entry <= EntryCount
  BY DEF Inv, TypeOK, InLoops, Place, ValueSoFar
<1>2. at \in 0..(ImageBlocks - 1) /\ EntryCount \in Nat
  BY <1>1, InLeafFacts
<1>3. EntryCount > 0
  BY <1>1, <1>2
<1> QED
  BY <1>1, <1>2, <1>3, CapFacts, MapFacts, CurFacts DEF IsValueBlock, Readable, BodyOff

LEMMA ReadValueBlockInv ==
    ASSUME Inv, ReadValueBlock
    PROVE  Inv'
<1>0. PICK block, want :
         block = MapLogical(logical) /\ want = AtMost(Remote.valuelen - have, Payload)
  OBVIOUS
<1> DEFINE p == P(block, BodyOff, want)
<1>1. /\ pc = "value" /\ pc' = pc /\ InLoops /\ have < Remote.valuelen
      /\ Remote.valuelen <= MAX_VALUE_LEN
      /\ Mapped(logical) /\ IsValueBlock(block)
      /\ value' = Append(value, p) /\ have' = have + want /\ logical' = logical + 1
      /\ UNCHANGED <<inode, next, b, at, entry, off, out>>
  BY <1>0 DEF ReadValueBlock, MoreValue, InLoops
<1>2. /\ block \in Places(logical) /\ block \in Nat /\ Readable(block, V5)
      /\ logical \in Nat /\ BodyOff = (IF V5 THEN RMT_HDR_LEN ELSE 0)
      /\ Payload > 0 /\ Payload \in Nat /\ BodyOff \in Nat /\ BodyOff + Payload = BlockSize
      /\ Remote.valuelen \in Nat /\ Remote.valueblk \in Nat /\ have \in Nat
  BY <1>0, <1>1, NextPlace
<1>3. /\ want \in Nat /\ want <= Payload /\ have + want <= Remote.valuelen
      /\ have + want < Remote.valuelen => want = Payload
  <2> DEFINE x == Remote.valuelen
             y == Payload
  <2>1. x \in Nat /\ y \in Nat /\ have \in Nat /\ have < x /\ want = AtMost(x - have, y)
    BY <1>0, <1>1, <1>2
  <2> HIDE DEF x, y
  <2>2. /\ want \in Nat /\ want <= y /\ have + want <= x
        /\ have + want < x => want = y
    BY <2>1 DEF AtMost
  <2> QED
    BY <2>2 DEF x, y
<1>4. /\ p \in Piece /\ p.block = block /\ p.off = BodyOff /\ p.len = want
      /\ End(p) = BodyOff + want
  BY <1>2, <1>3 DEF P, Piece, End
<1> HIDE DEF p
<1>5. End(p) <= BlockSize /\ (have + want < Remote.valuelen => End(p) = BlockSize)
  BY <1>2, <1>3, <1>4
<1>6. PieceGenuine(p, logical, V5)
  BY <1>2, <1>4, <1>5 DEF PieceGenuine
<1>7. /\ value \in Seq(Piece) /\ Len(value) \in Nat
      /\ \A j \in 1..Len(value) : /\ PieceGenuine(value[j], Remote.valueblk + j - 1, V5)
                                  /\ End(value[j]) = BlockSize
      /\ logical = Remote.valueblk + Len(value)
      /\ have = Length(value, Len(value))
  BY <1>1 DEF Inv, Place, ValueSoFar
<1>8. /\ value' \in Seq(Piece) /\ Len(value') = Len(value) + 1
      /\ \A j \in 1..Len(value) : value'[j] = value[j]
      /\ value'[Len(value) + 1] = p
  BY <1>1, <1>4, <1>7, AppendProperties
<1>9. Length(value', Len(value')) = have'
  BY <1>1, <1>4, <1>7, <1>8, LengthAppend
<1>10. /\ inode \in Inodes /\ at \in 0..(ImageBlocks - 1) /\ entry \in Nat \ {0}
       /\ entry <= EntryCount + 1
       /\ IsLeaf(at) /\ ForkMaps(at) /\ \A n : Reserved(n) \in Int
  BY <1>1, InLeafFacts
<1>11. out' \in Seq(Attr) /\ AttributesGenuine' /\ ValuesGenuine' /\ \A n : Given(n)' = Given(n)
  BY <1>1, KeepOut
<1>12. TypeOK'
  <2>1. logical' \in Nat /\ have' \in 0..MAX_VALUE_LEN
    BY <1>1, <1>2, <1>3
  <2> QED
    BY <1>1, <1>8, <1>10, <2>1, SameInode DEF Inv, TypeOK, IsLeaf, InImage
<1>13. /\ ForkMaps(at)' /\ EntryCount' = EntryCount /\ Remote' = Remote /\ (V5' <=> V5)
       /\ (IsLocal' <=> IsLocal) /\ (RemoteFits' <=> RemoteFits)
  BY <1>1, <1>10, SameLeaf, SameInode DEF ForkMaps
<1>14. ValueSoFar'
  <2>0. PICK blk \in Nat, v5 \in BOOLEAN : blk = Remote.valueblk /\ v5 = V5
    <3>1. V5 \in BOOLEAN
      BY DEF V5
    <3> QED
      BY <1>2, <3>1
  <2>a. Remote'.valueblk = blk /\ V5' = v5 /\ Remote'.valuelen = Remote.valuelen
    BY <1>13, <2>0 DEF V5
  <2>1. ASSUME NEW j \in 1..Len(value')
        PROVE  /\ PieceGenuine(value'[j], blk + j - 1, v5)
               /\ j < Len(value') \/ have' < Remote.valuelen => End(value'[j]) = BlockSize
    <3>1. CASE j \in 1..Len(value)
      BY <1>7, <1>8, <2>0, <3>1
    <3>2. CASE j = Len(value) + 1
      <4>1. logical = blk + j - 1
        BY <1>2, <1>7, <2>0, <3>2
      <4>2. ~(j < Len(value'))
        BY <1>7, <1>8, <3>2
      <4> QED
        BY <1>1, <1>5, <1>6, <1>8, <2>0, <3>2, <4>1, <4>2
    <3> QED
      BY <1>7, <1>8, <3>1, <3>2
  <2>2. \A j \in 1..Len(value') : PieceGenuine(value[j], Remote.valueblk + j - 1, V5)'
    <3> SUFFICES ASSUME NEW j \in 1..Len(value')
                 PROVE  PieceGenuine(value[j], Remote.valueblk + j - 1, V5)'
      OBVIOUS
    <3>1. PieceGenuine(value'[j], blk + j - 1, v5)
      BY <2>1
    <3>2. \A x, l, v : PieceGenuine(x, l, v)' <=> PieceGenuine(x, l, v)
      BY <1>1, SameInode
    <3>3. PieceGenuine(value[j], blk + j - 1, v5)'
      BY <3>1, <3>2
    <3> QED
      BY <2>a, <3>3
  <2>3. logical' = Remote'.valueblk + Len(value')
    <3>0. PICK n \in Nat : n = Len(value)
      BY <1>7
    <3>1. logical' = blk + Len(value')
      <4>1. logical = blk + n
        BY <1>7, <2>0, <3>0
      <4>2. Len(value') = n + 1 /\ logical' = logical + 1
        BY <1>1, <1>8, <3>0
      <4> QED
        BY <4>1, <4>2
    <3> QED
      BY <2>a, <3>1
  <2>4. have' <= Remote'.valuelen
    BY <1>1, <1>3, <2>a
  <2>5. \A j \in 1..Len(value') : j < Len(value') \/ have' < Remote'.valuelen => End(value'[j]) = BlockSize
    BY <2>1, <2>a
  <2>6. \A j \in 1..Len(value') : (j < Len(value) \/ have < Remote.valuelen => End(value[j]) = BlockSize)'
    BY <2>5 DEF End
  <2> QED
    BY <1>8, <1>9, <2>2, <2>3, <2>4, <2>6 DEF ValueSoFar
<1>15. Place'
  <2>1. entry <= EntryCount /\ ~IsLocal /\ RemoteFits
    BY <1>1 DEF Inv, Place
  <2> QED
    BY <1>1, <1>10, <1>13, <1>14, <2>1 DEF Place, InLoops
<1>16. Counted'
  <2>1. \A n : Reserved(n)' = Reserved(n)
    BY <1>1, SameInode DEF Reserved, InLoops
  <2>2. \A n : Cardinality(Given(n)) \in Nat
    BY SeenFacts DEF Inv
  <2> QED
    BY <1>1, <1>10, <1>11, <2>1, <2>2, Reserve
<1> QED
  BY <1>1, <1>11, <1>12, <1>15, <1>16 DEF Inv

(* The remote value is whole, or its next block cannot be read.            *)
LEMMA EndValueInv ==
    ASSUME Inv, EndValue
    PROVE  Inv'
<1>0. PICK idx, nl, f, blk, rec :
         /\ idx = Cur.nameidx /\ rec = Remote /\ nl = rec.namelen /\ f = Cur.flags
         /\ blk = rec.valueblk
  OBVIOUS
<1> DEFINE name == P(at, idx + 9, nl)
           s == <<"LeafRemote", blk>>
           a == Xattr(name, f, value, s)
<1>1. /\ pc = "value" /\ InLoops /\ ~MoreValue /\ pc' = "leaf" /\ entry' = entry + 1
      /\ UNCHANGED <<inode, next, b, at, off, logical, value, have>>
      /\ out' = Append(out, a)
  BY <1>0 DEF EndValue, InLoops
<1>2. /\ entry <= EntryCount /\ idx + 9 + nl <= BlockSize /\ ValueSoFar
  BY <1>0, <1>1 DEF Inv, Place, RemoteFits
<1>3. /\ inode \in Inodes /\ at \in 0..(ImageBlocks - 1) /\ entry \in Nat \ {0}
      /\ IsLeaf(at) /\ ForkMaps(at)
  BY <1>1, InLeafFacts
<1>4. idx \in Nat /\ nl \in Nat /\ blk \in Nat /\ rec.valuelen \in Nat
  BY <1>0, <1>3, CurFacts
<1>5. /\ name \in Piece /\ name.block = at /\ name.off = idx + 9 /\ name.len = nl
      /\ End(name) = idx + 9 + nl
  <2>1. at \in {Inline} \cup Nat
    BY <1>3
  <2>2. name \in Piece
    BY <1>4, <2>1 DEF P, Piece
  <2> QED
    BY <2>2 DEF P, End
<1> HIDE DEF name
<1>6. value \in Seq(Piece) /\ s \in Storage /\ s[1] = "LeafRemote" /\ s[2] = blk
  BY <1>2, <1>4 DEF Storage, ValueSoFar
<1>7. a \in Attr /\ a.name = name /\ a.value = value /\ a.storage = s
  <2> HIDE DEF s
  <2> QED
    BY <1>5, <1>6, XattrType
<1>8. /\ a \in Attr /\ a.name.block = at /\ a.name.off = idx + 9 /\ a.name.len = nl
      /\ End(a.name) <= BlockSize /\ a.storage[1] = "LeafRemote" /\ a.storage[2] = blk
      /\ a.value = value
  BY <1>2, <1>5, <1>6, <1>7
<1> HIDE DEF a, s
<1>9. NameOf(a).remote = rec
  <2>1. (idx + 9) - 9 = idx
    BY <1>4
  <2>2. NameOf(a) = NameAt(inode.blocks[at], idx)
    BY <1>8, <2>1 DEF NameOf
  <2> QED
    BY <1>0, <2>2 DEF Remote, Leaf
<1>10. Genuine(Len(out) + 1, a, out[Len(out)])
  BY <1>0, <1>3, <1>8, <1>9 DEF Genuine
<1>11. ValueGenuine(a)
  <2> DEFINE v5 == inode.blocks[a.name.block].leaf = "v5"
  <2>0. v5 = V5
    BY <1>8 DEF V5, Leaf
  <2> HIDE DEF v5
  <2>2. \A j \in 1..Len(value) : /\ PieceGenuine(value[j], blk + j - 1, v5)
                                 /\ j < Len(value) => End(value[j]) = BlockSize
    BY <1>0, <1>2, <2>0 DEF ValueSoFar
  <2>3. /\ Length(value, Len(value)) = have /\ have \in Nat
        /\ have <= rec.valuelen /\ have <= MAX_VALUE_LEN
    BY <1>0, <1>1, <1>2, NextPlace DEF ValueSoFar
  <2>4. have <= AtMost(rec.valuelen, MAX_VALUE_LEN)
    BY <2>3 DEF AtMost
  <2>5. ASSUME have < rec.valuelen
        PROVE  \/ rec.valuelen > MAX_VALUE_LEN
               \/ Places(blk + Len(value)) = {}
               \/ \E p \in Places(blk + Len(value)) : ~Readable(p, v5)
    <3>1. blk + Len(value) = logical
      BY <1>0, <1>2 DEF ValueSoFar
    <3>2. Payload > 0 /\ have < Remote.valuelen
      BY <1>0, <1>1, <2>5, NextPlace
    <3>3. \/ ~(Remote.valuelen <= MAX_VALUE_LEN)
          \/ ~Mapped(logical) \/ ~IsValueBlock(MapLogical(logical))
      BY <1>1, <3>2 DEF MoreValue
    <3>4. CASE ~(Remote.valuelen <= MAX_VALUE_LEN)
      BY <1>0, <1>4, <3>4
    <3>5. CASE ~Mapped(logical)
      BY <1>1, <3>1, <3>5, NextPlace
    <3>6. CASE Mapped(logical) /\ ~IsValueBlock(MapLogical(logical))
      BY <1>1, <2>0, <3>1, <3>6, NextPlace
    <3> QED
      BY <3>3, <3>4, <3>5, <3>6
  <2> QED
    BY <1>0, <1>8, <1>9, <2>2, <2>3, <2>4, <2>5 DEF ValueGenuine, v5
<1> QED
  BY <1>1, <1>2, <1>8, <1>10, <1>11, ListInv

-----------------------------------------------------------------------------
(***************************************************************************)
(* The theorems.                                                           *)
(***************************************************************************)
LEMMA StutterInv ==
    ASSUME Inv, UNCHANGED vars
    PROVE  Inv'
<1>1. UNCHANGED <<inode, pc, next, b, at, entry, off, logical, value, have, out>>
  BY DEF vars
<1>2. out' \in Seq(Attr) /\ AttributesGenuine' /\ ValuesGenuine' /\ \A n : Given(n)' = Given(n)
  BY <1>1, KeepOut
<1>3. TypeOK'
  BY <1>1, SameInode DEF Inv, TypeOK, IsLeaf, InImage
<1>4. Place'
  <2>1. /\ EntryCount' = EntryCount /\ (IsLocal' <=> IsLocal) /\ (RemoteFits' <=> RemoteFits)
        /\ Remote' = Remote /\ (V5' <=> V5)
    BY <1>1, SameLeaf
  <2>2. ForkMaps(at)' <=> ForkMaps(at)
    BY <1>1, SameInode DEF ForkMaps
  <2>3. ValueSoFar => ValueSoFar'
    <3>1. PICK v, blk, v5 : v = value /\ blk = Remote.valueblk /\ v5 = V5
      OBVIOUS
    <3>2. v = value' /\ blk = Remote'.valueblk /\ v5 = V5'
      BY <1>1, <2>1, <3>1 DEF V5
    <3>3. \A x, l, w : PieceGenuine(x, l, w)' <=> PieceGenuine(x, l, w)
      BY <1>1, SameInode
    <3>4. (\A j \in 1..Len(value) : PieceGenuine(value[j], Remote.valueblk + j - 1, V5))
             => (\A j \in 1..Len(value) : PieceGenuine(value[j], Remote.valueblk + j - 1, V5))'
      BY <3>1, <3>2, <3>3
    <3> QED
      BY <1>1, <2>1, <3>4 DEF ValueSoFar, End, Length
  <2> QED
    BY <1>1, <2>1, <2>2, <2>3 DEF Inv, Place, InLoops, End
<1>5. Counted'
  <2>1. \A n : Reserved(n)' = Reserved(n) /\ Seen(n)' = Seen(n) /\ Cap(n)' = Cap(n)
    BY <1>1, SameInode DEF Reserved, Seen, InRun, InLoops
  <2> QED
    BY <1>2, <2>1 DEF Inv, Counted
<1> QED
  BY <1>1, <1>2, <1>3, <1>4, <1>5 DEF Inv

(* The invariant: the state is of its type, the walk is where its last     *)
(* step left it, what it has listed and read is genuine, and no block has  *)
(* given more attributes than its visits so far allow.                     *)
THEOREM InvHolds == Spec => []Inv
<1>1. Inv /\ [Next]_vars => Inv'
  <2> SUFFICES ASSUME Inv, [Next]_vars PROVE Inv'
    OBVIOUS
  <2>1. CASE NoAttributes \/ RefuseFormat \/ StartShort \/ StartLeafFork \/ EndShort \/ EndExtents
    BY <2>1, LeaveInv
  <2>2. CASE TakeShort
    BY <2>2, TakeShortInv
  <2>3. CASE NextExtent \/ SkipBlock
    BY <2>3, WalkMapInv
  <2>4. CASE EnterLeaf
    BY <2>4, EnterLeafInv
  <2>5. CASE SkipEntry \/ EndLeaf
    BY <2>5, LeafMoveInv
  <2>6. CASE TakeLocal
    BY <2>6, TakeLocalInv
  <2>7. CASE BeginValue
    BY <2>7, BeginValueInv
  <2>8. CASE ReadValueBlock
    BY <2>8, ReadValueBlockInv
  <2>9. CASE EndValue
    BY <2>9, EndValueInv
  <2>10. CASE UNCHANGED vars
    BY <2>10, StutterInv
  <2> QED
    BY <2>1, <2>2, <2>3, <2>4, <2>5, <2>6, <2>7, <2>8, <2>9, <2>10 DEF Next
<1> QED
  BY <1>1, InitInv, PTL DEF Spec

(* Every state of a listing is of its type: the walk stays inside the      *)
(* records of the attribute fork, the leaf it reads is one, and a value    *)
(* never outgrows MAX_VALUE_LEN.                                           *)
THEOREM TypeCorrect == Spec => []TypeOK
<1>1. Inv => TypeOK
  BY DEF Inv
<1> QED
  BY <1>1, InvHolds, PTL

(* What list_xattrs lists lies where the records of the image say, whole   *)
(* in the attribute fork or in a leaf the fork maps, for every image.      *)
THEOREM AttributesAreGenuine == Spec => []AttributesGenuine
<1>1. Inv => AttributesGenuine
  BY DEF Inv
<1> QED
  BY <1>1, InvHolds, PTL

(* read_remote_value takes a value's bytes from the blocks its logical     *)
(* numbers are mapped to, in their order and without a gap, and stops      *)
(* short only where there is nothing to read.                              *)
THEOREM ValuesAreGenuine == Spec => []ValuesGenuine
<1>1. Inv => ValuesGenuine
  BY DEF Inv
<1> QED
  BY <1>1, InvHolds, PTL

(* parse_leaf_block lists no more of a leaf at each visit than the entries *)
(* that fit in the block behind its header, whatever count it claims.      *)
THEOREM ListingIsBounded == Spec => []ListingBounded
<1>1. Inv => ListingBounded
  <2> SUFFICES ASSUME Inv, NEW n \in 0..(ImageBlocks - 1)
               PROVE  LEAF_ENTRY_LEN * Cardinality({k \in 1..Len(out) : out[k].name.block = n})
                        <= Cardinality({k \in 1..Len(Recs) : InRun(Recs[k], n)})
                             * LargerOf(BlockSize - HdrOf(n), 0)
    BY DEF ListingBounded, HdrOf
  <2> DEFINE V == {k \in 1..Len(Recs) : InRun(Recs[k], n)}
             room == LargerOf(BlockSize - HdrOf(n), 0)
             g == Cardinality(Given(n))
             s == Cardinality(Seen(n))
             t == Cardinality(V)
             c == Cap(n)
  <2>1. {k \in 1..Len(out) : out[k].name.block = n} = Given(n)
    BY DEF Given
  <2>2. g \in Nat /\ s \in Nat
    BY SeenFacts DEF Inv
  <2>3. t \in Nat /\ s <= t
    <3>1. Seen(n) \subseteq V
      BY DEF Seen
    <3>2. Len(Recs) \in Nat
      BY RecsFacts DEF Inv
    <3>3. IsFiniteSet(V)
      <4>1. IsFiniteSet(1..Len(Recs)) /\ V \subseteq 1..Len(Recs)
        BY <3>2, FS_Interval
      <4> HIDE DEF V
      <4> QED
        BY <4>1, FS_Subset
    <3> HIDE DEF V
    <3> QED
      BY <3>1, <3>3, FS_Subset, FS_CardinalityType
  <2>4. c \in Nat /\ room \in Nat /\ LEAF_ENTRY_LEN * c <= room
    BY CapFacts
  <2>5. g <= s * c
    <3>1. g + Reserved(n) <= s * c
      BY DEF Inv, Counted
    <3>2. Reserved(n) \in Nat
      <4>1. CASE InLoops /\ at = n
        <5>1. entry \in Nat \ {0} /\ EntryCount \in Nat /\ EntryCount <= c /\ entry <= EntryCount + 1
          BY <4>1, InLeafFacts
        <5>2. Reserved(n) = c - (entry - 1)
          BY <4>1 DEF Reserved
        <5> HIDE DEF c
        <5> QED
          BY <2>4, <5>1, <5>2
      <4>2. CASE ~(InLoops /\ at = n)
        BY <4>2 DEF Reserved
      <4> QED
        BY <4>1, <4>2
    <3>3. s * c \in Nat
      BY <2>2, <2>4, Products
    <3> HIDE DEF g, s, c
    <3> QED
      BY <2>2, <3>1, <3>2, <3>3
  <2> HIDE DEF V, g, s, t, c, room
  <2>6. 8 * c <= room
    BY <2>4 DEF LEAF_ENTRY_LEN
  <2>7. 8 * (s * c) <= t * room
    <3>1. s * c <= t * c /\ s * c \in Nat /\ t * c \in Nat
      BY <2>2, <2>3, <2>4, Products
    <3>2. (8 * c) * t <= room * t
      <4>1. 8 * c \in Nat
        BY <2>4
      <4> DEFINE d == 8 * c
      <4> HIDE DEF d
      <4> QED
        BY <2>3, <2>4, <2>6, <4>1, Products DEF d
    <3>3. (8 * c) * t = 8 * (t * c) /\ room * t = t * room
      BY <2>3, <2>4
    <3>4. 8 * (s * c) <= 8 * (t * c)
      BY <3>1
    <3>5. 8 * (t * c) <= t * room
      BY <3>2, <3>3
    <3> DEFINE x == s * c
               y == t * c
               z == t * room
    <3>6. z \in Nat
      BY <2>3, <2>4
    <3> HIDE DEF x, y, z
    <3>7. x \in Nat /\ y \in Nat /\ 8 * x <= 8 * y /\ 8 * y <= z
      BY <3>1, <3>4, <3>5 DEF x, y, z
    <3>8. 8 * x <= z
      BY <3>6, <3>7
    <3> QED
      BY <3>8 DEF x, z
  <2>8. 8 * g <= t * room
    <3> DEFINE x == s * c
               z == t * room
    <3>1. x \in Nat /\ z \in Nat /\ g <= x /\ 8 * x <= z
      BY <2>2, <2>3, <2>4, <2>5, <2>7
    <3> HIDE DEF x, z
    <3>2. 8 * g <= z
      BY <2>2, <3>1
    <3> QED
      BY <3>2 DEF z
  <2> QED
    BY <2>1, <2>8 DEF LEAF_ENTRY_LEN, g, t, room, V
<1> QED
  BY <1>1, InvHolds, PTL
-----------------------------------------------------------------------------
(***************************************************************************)
(* The listing, attribute by attribute.  What is left of it, from a block  *)
(* of a record or an entry of a leaf on, is read from its end.             *)
(***************************************************************************)
All == Attr \cup {Listed(n, k) : n \in LeafBlocks, k \in Nat} \cup {ShortListed(k) : k \in Nat}

Rest(w) == CHOOSE R : IsRest(All, w, R) /\ R[1] = FlattenSeq(w)
RecBlocks(rec) == [i \in 1..rec.blockcount |-> LeafPart(rec.startblock + i - 1)]
Parts == [k \in 1..Len(Recs) |-> RecPart(Recs[k])]
BlocksLeft(k, c) ==
    IF k > Len(Recs) THEN <<>> ELSE Rest(RecBlocks(Recs[k]))[c + 1] \o Rest(Parts)[k + 1]
LeafLeft(n, e) == [k \in 1..(inode.blocks[n].count - e + 1) |-> Listed(n, e + k - 1)]

LEMMA RestFacts ==
    ASSUME NEW w \in Seq(Seq(All))
    PROVE  IsRest(All, w, Rest(w)) /\ Rest(w)[1] = FlattenSeq(w)
<1>1. \E R : IsRest(All, w, R) /\ R[1] = FlattenSeq(w)
  <2> HIDE DEF All
  <2> QED
    BY FlattenRest
<1> QED
  BY <1>1 DEF Rest

LEMMA LeafLeftFacts ==
    ASSUME inode \in Inodes, NEW n \in LeafBlocks, NEW e \in Nat \ {0}
    PROVE  /\ LeafLeft(n, e) \in Seq(All)
           /\ LeafLeft(n, 1) = LeafPart(n)
           /\ e <= inode.blocks[n].count =>
                 /\ Listed(n, e) \in All
                 /\ LeafLeft(n, e) = <<Listed(n, e)>> \o LeafLeft(n, e + 1)
           /\ e > inode.blocks[n].count => LeafLeft(n, e) = <<>>
<1> DEFINE c == inode.blocks[n].count
           L(k) == Listed(n, k)
           s == LeafLeft(n, e)
           t == LeafLeft(n, e + 1)
<1>1. c \in Nat
  BY NameFacts DEF LeafBlocks
<1>2. \A k \in Nat : L(k) \in All
  BY DEF All
<1>3. LeafLeft(n, 1) = LeafPart(n)
  <2>1. LeafLeft(n, 1) = [k \in 1..(c - 1 + 1) |-> L(1 + k - 1)]
    BY DEF LeafLeft
  <2>2. LeafPart(n) = [k \in 1..c |-> L(k)]
    BY DEF LeafPart
  <2>3. c - 1 + 1 = c /\ \A k \in 1..c : 1 + k - 1 = k
    BY <1>1
  <2> HIDE DEF c, L
  <2> QED
    BY <2>1, <2>2, <2>3
<1>4. s = [k \in 1..(c - e + 1) |-> L(e + k - 1)] /\ t = [k \in 1..(c - (e + 1) + 1) |-> L((e + 1) + k - 1)]
  BY DEF LeafLeft
<1> HIDE DEF c, L, s, t, All
<1>5. ASSUME e > c PROVE s = <<>>
  <2>1. 1..(c - e + 1) = {}
    BY <1>1, <1>5
  <2> QED
    BY <1>4, <2>1
<1>6. ASSUME e <= c
      PROVE  /\ s \in Seq(All) /\ Len(s) = c - e + 1 /\ \A k \in 1..(c - e + 1) : s[k] = L(e + k - 1)
             /\ t \in Seq(All) /\ Len(t) = c - e /\ \A k \in 1..(c - e) : t[k] = L(e + k)
  <2>1. c - e \in Nat /\ c - e + 1 \in Nat /\ c - (e + 1) + 1 = c - e
    BY <1>1, <1>6
  <2>2. \A k \in 1..(c - e + 1) : e + k - 1 \in Nat
    BY <2>1
  <2>3. \A k \in 1..(c - e) : (e + 1) + k - 1 = e + k /\ e + k \in Nat
    BY <2>1
  <2>4. t = [k \in 1..(c - e) |-> L(e + k)]
    BY <1>4, <2>1, <2>3
  <2>5. s \in Seq(All) /\ Len(s) = c - e + 1 /\ \A k \in 1..(c - e + 1) : s[k] = L(e + k - 1)
    BY ONLY <1>2, <1>4, <2>1, <2>2
  <2>6. t \in Seq(All) /\ Len(t) = c - e /\ \A k \in 1..(c - e) : t[k] = L(e + k)
    BY ONLY <1>2, <2>1, <2>3, <2>4
  <2> QED
    BY <2>5, <2>6
<1>7. s \in Seq(All)
  <2>1. <<>> \in Seq(All)
    OBVIOUS
  <2>2. e > c \/ e <= c
    BY <1>1
  <2> QED
    BY <1>5, <1>6, <2>1, <2>2
<1>8. ASSUME e <= c PROVE s = <<L(e)>> \o t
  <2> DEFINE u == <<L(e)>> \o t
  <2>1. L(e) \in All /\ <<L(e)>> \in Seq(All) /\ Len(<<L(e)>>) = 1 /\ <<L(e)>>[1] = L(e)
    BY <1>2
  <2>2. c - e \in Nat /\ e + 1 - 1 = e
    BY <1>1, <1>8
  <2>3. u \in Seq(All) /\ Len(u) = 1 + Len(t)
        /\ \A i \in 1..(1 + Len(t)) : u[i] = IF i <= 1 THEN <<L(e)>>[i] ELSE t[i - 1]
    <3>1. t \in Seq(All)
      BY <1>6, <1>8
    <3> HIDE DEF u
    <3>2. u = <<L(e)>> \o t
      BY DEF u
    <3> QED
      BY ONLY <2>1, <3>1, <3>2, ConcatProperties
  <2> HIDE DEF u
  <2>4. Len(u) = Len(s) /\ Len(s) = c - e + 1 /\ Len(t) = c - e
    BY <1>6, <1>8, <2>2, <2>3
  <2>5. ASSUME NEW i \in 1..(c - e + 1) PROVE u[i] = s[i]
    <3>1. u[i] = IF i <= 1 THEN <<L(e)>>[i] ELSE t[i - 1]
      BY <2>2, <2>3, <2>4
    <3>2. CASE i = 1
      <4>1. s[1] = L(e)
        BY <1>6, <1>8, <2>2, <2>5, <3>2
      <4> QED
        BY <2>1, <3>1, <3>2, <4>1
    <3>3. CASE i # 1
      <4>1. i - 1 \in 1..(c - e) /\ e + (i - 1) = e + i - 1 /\ ~(i <= 1)
        BY <2>2, <3>3
      <4>2. t[i - 1] = L(e + (i - 1)) /\ s[i] = L(e + i - 1)
        BY <1>6, <1>8, <4>1
      <4> QED
        BY <3>1, <4>1, <4>2
    <3> QED
      BY <3>2, <3>3
  <2>6. s = u
    BY <1>6, <1>8, <2>3, <2>4, <2>5, SeqEqual
  <2> QED
    BY <2>6 DEF u
<1>9. ASSUME e <= c PROVE L(e) \in All
  BY <1>2
<1> QED
  BY <1>3, <1>5, <1>7, <1>8, <1>9 DEF c, L, s, t

LEMMA LeafPartType ==
    ASSUME inode \in Inodes, NEW n
    PROVE  LeafPart(n) \in Seq(All)
<1>1. ASSUME n \in LeafBlocks PROVE LeafPart(n) \in Seq(All)
  <2>1. 1 \in Nat \ {0}
    OBVIOUS
  <2>2. LeafLeft(n, 1) \in Seq(All) /\ LeafLeft(n, 1) = LeafPart(n)
    BY <1>1, <2>1, LeafLeftFacts
  <2> QED
    BY <2>2
<1>2. <<>> \in Seq(All)
  OBVIOUS
<1> QED
  BY <1>1, <1>2 DEF LeafPart

LEMMA RecPartFacts ==
    ASSUME inode \in Inodes, NEW rec, rec.blockcount \in Nat
    PROVE  /\ RecBlocks(rec) \in Seq(Seq(All)) /\ Len(RecBlocks(rec)) = rec.blockcount
           /\ \A i \in 1..rec.blockcount : RecBlocks(rec)[i] = LeafPart(rec.startblock + i - 1)
           /\ RecPart(rec) = FlattenSeq(RecBlocks(rec))
           /\ RecPart(rec) \in Seq(All)
<1> DEFINE w == RecBlocks(rec)
           c == rec.blockcount
           Part(i) == LeafPart(rec.startblock + i - 1)
<1>1. w = [i \in 1..c |-> Part(i)]
  BY DEF RecBlocks
<1>2. \A i \in 1..c : Part(i) \in Seq(All)
  BY LeafPartType
<1>3. RecPart(rec) = FlattenSeq(w)
  BY DEF RecPart, RecBlocks
<1> HIDE DEF w, Part, c, All
<1>4. w \in Seq(Seq(All)) /\ Len(w) = c /\ \A i \in 1..c : w[i] = Part(i)
  <2>1. c \in Nat
    BY DEF c
  <2> QED
    BY ONLY <1>1, <1>2, <2>1
<1>5. FlattenSeq(w) \in Seq(All)
  BY <1>4, FlattenType
<1> QED
  BY <1>3, <1>4, <1>5 DEF w, Part, c

LEMMA PartsFacts ==
    ASSUME inode \in Inodes
    PROVE  LET R == Rest(Parts)
               n == Len(Recs)
           IN  /\ R[1] = FlattenSeq(Parts) /\ R[n + 1] = <<>>
               /\ \A k \in 1..(n + 1) : R[k] \in Seq(All)
               /\ \A k \in 1..n : R[k] = RecPart(Recs[k]) \o R[k + 1]
<1> DEFINE w == Parts
           R == Rest(w)
           n == Len(Recs)
<1>1. n \in Nat /\ \A k \in 1..n : RecPart(Recs[k]) \in Seq(All)
  BY RecsFacts, RecPartFacts
<1>2. w = [k \in 1..n |-> RecPart(Recs[k])]
  BY DEF Parts
<1> HIDE DEF w, n, All
<1>3. w \in Seq(Seq(All)) /\ Len(w) = n /\ \A k \in 1..n : w[k] = RecPart(Recs[k])
  BY <1>1, <1>2
<1>4. IsRest(All, w, R) /\ R[1] = FlattenSeq(w)
  BY <1>3, RestFacts
<1> HIDE DEF R
<1>5. /\ R \in [1..(n + 1) -> Seq(All)] /\ R[n + 1] = <<>>
      /\ \A k \in 1..n : R[k] = w[k] \o R[k + 1]
  BY <1>3, <1>4 DEF IsRest
<1>6. \A k \in 1..n : R[k] = RecPart(Recs[k]) \o R[k + 1]
  BY <1>3, <1>5
<1>7. \A k \in 1..(n + 1) : R[k] \in Seq(All)
  BY <1>5
<1> QED
  BY <1>4, <1>5, <1>6, <1>7 DEF w, R, n

(* Before the first block of a record, all of it is left. *)
LEMMA WholeRecord ==
    ASSUME inode \in Inodes, NEW k \in 1..(Len(Recs) + 1)
    PROVE  BlocksLeft(k, 0) = Rest(Parts)[k] /\ BlocksLeft(k, 0) \in Seq(All)
<1> DEFINE R == Rest(Parts)
           n == Len(Recs)
<1>1. /\ n \in Nat /\ R[n + 1] = <<>> /\ \A i \in 1..(n + 1) : R[i] \in Seq(All)
      /\ \A i \in 1..n : R[i] = RecPart(Recs[i]) \o R[i + 1]
  BY PartsFacts, RecsFacts
<1> HIDE DEF R
<1>2. CASE k = n + 1
  <2>1. BlocksLeft(k, 0) = <<>>
    BY <1>1, <1>2 DEF BlocksLeft
  <2> QED
    BY <1>1, <1>2, <2>1 DEF R
<1>3. CASE k \in 1..n
  <2> DEFINE rec == Recs[k]
             w == RecBlocks(rec)
             f == RecPart(rec)
  <2>1. rec.blockcount \in Nat /\ ~(k > n) /\ k + 1 \in 1..(n + 1)
    BY <1>1, <1>3, RecsFacts
  <2>2. w \in Seq(Seq(All)) /\ f = FlattenSeq(w)
    BY <2>1, RecPartFacts
  <2>3. Rest(w)[1] = FlattenSeq(w)
    BY <2>2, RestFacts
  <2>4. R[k] = f \o R[k + 1] /\ R[k] \in Seq(All)
    BY <1>1, <1>3, <2>1
  <2>5. BlocksLeft(k, 0) = Rest(w)[0 + 1] \o R[k + 1]
    BY <2>1 DEF BlocksLeft, R
  <2> HIDE DEF w, f, rec
  <2>6. 0 + 1 = 1
    OBVIOUS
  <2>7. BlocksLeft(k, 0) = R[k]
    BY ONLY <2>2, <2>3, <2>4, <2>5, <2>6
  <2> QED
    BY <2>4, <2>7 DEF R
<1>4. k = n + 1 \/ k \in 1..n
  <2> HIDE DEF n
  <2>1. k \in 1..(n + 1)
    BY DEF n
  <2> QED
    BY ONLY <1>1, <2>1
<1> QED
  BY <1>2, <1>3, <1>4

(* A record that is through leaves what the next one does. *)
LEMMA RecordDone ==
    ASSUME inode \in Inodes, NEW k \in 1..Len(Recs), NEW c, c = Recs[k].blockcount
    PROVE  BlocksLeft(k, c) = BlocksLeft(k + 1, 0)
<1> DEFINE R == Rest(Parts)
           n == Len(Recs)
           rec == Recs[k]
           w == RecBlocks(rec)
<1>1. n \in Nat /\ ~(k > n) /\ k + 1 \in 1..(n + 1) /\ rec.blockcount \in Nat
  BY RecsFacts
<1>2. BlocksLeft(k + 1, 0) = R[k + 1] /\ R[k + 1] \in Seq(All)
  BY <1>1, WholeRecord, PartsFacts
<1>3. w \in Seq(Seq(All)) /\ Len(w) = rec.blockcount
  BY <1>1, RecPartFacts
<1>4. BlocksLeft(k, c) = Rest(w)[c + 1] \o R[k + 1]
  BY <1>1 DEF BlocksLeft
<1>5. Rest(w)[c + 1] = <<>>
  <2> HIDE DEF w
  <2> QED
    BY <1>3, RestFacts DEF IsRest
<1> HIDE DEF R, w, All
<1> QED
  BY <1>2, <1>4, <1>5, ConcatEmptySeq

(* Otherwise the next block comes before what is left behind it. *)
LEMMA BlockNext ==
    ASSUME inode \in Inodes, NEW k \in 1..Len(Recs), NEW c \in Nat, c < Recs[k].blockcount
    PROVE  /\ BlocksLeft(k, c) = LeafPart(Recs[k].startblock + c) \o BlocksLeft(k, c + 1)
           /\ BlocksLeft(k, c + 1) \in Seq(All)
<1> DEFINE D == Rest(Parts)
           n == Len(Recs)
           rec == Recs[k]
           w == RecBlocks(rec)
           R == Rest(w)
           part == LeafPart(rec.startblock + c)
           m == rec.blockcount
<1>1. n \in Nat /\ ~(k > n) /\ k + 1 \in 1..(n + 1) /\ m \in Nat /\ rec.startblock \in Nat
  BY RecsFacts
<1>2. D[k + 1] \in Seq(All)
  BY <1>1, PartsFacts
<1>3. /\ w \in Seq(Seq(All)) /\ Len(w) = m
      /\ \A i \in 1..m : w[i] = LeafPart(rec.startblock + i - 1)
  BY <1>1, RecPartFacts
<1>4. BlocksLeft(k, c) = R[c + 1] \o D[k + 1] /\ BlocksLeft(k, c + 1) = R[(c + 1) + 1] \o D[k + 1]
  BY <1>1 DEF BlocksLeft
<1>5. part \in Seq(All)
  BY LeafPartType
<1>6. c + 1 \in 1..m /\ (c + 1) + 1 \in 1..(m + 1) /\ rec.startblock + (c + 1) - 1 = rec.startblock + c
  <2>1. c \in Nat /\ c < m /\ m \in Nat /\ rec.startblock \in Nat
    BY <1>1
  <2> HIDE DEF rec, m
  <2> QED
    BY ONLY <2>1
<1> HIDE DEF w, rec, All
<1>7. IsRest(All, w, R)
  BY <1>3, RestFacts
<1> HIDE DEF R, D, m
<1>8. R[c + 1] = w[c + 1] \o R[(c + 1) + 1] /\ R[(c + 1) + 1] \in Seq(All)
  BY <1>3, <1>6, <1>7 DEF IsRest
<1>9. w[c + 1] = part
  BY <1>3, <1>6
<1> HIDE DEF part
<1> DEFINE r == R[(c + 1) + 1]
           d == D[k + 1]
<1>10. part \in Seq(All) /\ r \in Seq(All) /\ d \in Seq(All)
  BY <1>2, <1>5, <1>8
<1> HIDE DEF r, d
<1>11. (part \o r) \o d = part \o (r \o d)
  BY ONLY <1>10, ConcatAssociative
<1>12. r \o d \in Seq(All)
  BY ONLY <1>10, ConcatProperties
<1> QED
  BY <1>4, <1>8, <1>9, <1>11, <1>12 DEF r, d, part, rec

(* The places of a short form's entries, one behind the other. *)
LEMMA ShortFacts ==
    ASSUME inode \in Inodes
    PROVE  LET c == inode.short.count
           IN  /\ c \in Nat /\ ShortPlaces[1] = 4
               /\ \A k \in 1..c : /\ inode.short.items[k].namelen \in Nat
                                  /\ inode.short.items[k].valuelen \in Nat
                                  /\ ShortPlaces[k + 1] = ShortPlaces[k] + ShortSize(k)
               /\ \A k \in 1..(c + 1) : ShortPlaces[k] \in Nat /\ ShortPlaces[k] <= ShortPlaces[c + 1]
<1> DEFINE n == inode.short.count
           d == [k \in 1..n |-> ShortSize(k)]
           Is(f) == f = [k \in 1..(n + 1) |-> IF k = 1 THEN 4 ELSE f[k - 1] + ShortSize(k - 1)]
<1>1. n \in Nat /\ inode.short.items \in Seq(ShortEntry) /\ Len(inode.short.items) >= n
  BY InodesAssumption
<1>2. \A k \in 1..n : inode.short.items[k] \in ShortEntry
  BY <1>1, ElementOfSeq
<1>3. \A k \in 1..n : inode.short.items[k].namelen \in Nat /\ inode.short.items[k].valuelen \in Nat
  BY <1>2 DEF ShortEntry
<1>4. \A k \in 1..n : ShortSize(k) \in Nat
  BY <1>3 DEF ShortSize
<1>5. ShortPlaces = CHOOSE f : Is(f)
  BY DEF ShortPlaces
<1> HIDE DEF n
<1>6. \E f : Is(f)
  <2>1. d \in [1..n -> Nat]
    BY <1>4
  <2>2. PICK f : IsSums(f, n, 4, d)
    <3> HIDE DEF d
    <3>1. n \in Nat /\ 4 \in Nat
      BY <1>1
    <3> QED
      BY ONLY <2>1, <3>1, SumsExist
  <2>3. \A k \in 1..(n + 1) : k # 1 => d[k - 1] = ShortSize(k - 1)
    BY <1>1 DEF n
  <2>4. Is(f)
    <3> HIDE DEF d
    <3> QED
      BY <2>2, <2>3 DEF IsSums
  <2> QED
    BY <2>4
<1> DEFINE p == ShortPlaces
<1>7. Is(p)
  BY <1>5, <1>6
<1> HIDE DEF p
<1>8. \A k \in 1..(n + 1) : p[k] = IF k = 1 THEN 4 ELSE p[k - 1] + ShortSize(k - 1)
  BY <1>7
<1>9. p[1] = 4
  BY <1>1, <1>8
<1>10. \A k \in 1..n : p[k + 1] = p[k] + ShortSize(k)
  <2> SUFFICES ASSUME NEW k \in 1..n PROVE p[k + 1] = p[k] + ShortSize(k)
    OBVIOUS
  <2>1. k + 1 \in 1..(n + 1) /\ k + 1 # 1 /\ (k + 1) - 1 = k
    BY <1>1
  <2> QED
    BY <1>8, <2>1
<1>11. \A k \in 1..(n + 1) : p[k] \in Nat
  <2> DEFINE T == {k \in Nat : k + 1 \in 1..(n + 1) => p[k + 1] \in Nat}
  <2>1. 0 \in T
    BY <1>9
  <2>2. ASSUME NEW k \in Nat, k \in T PROVE k + 1 \in T
    <3> SUFFICES ASSUME (k + 1) + 1 \in 1..(n + 1) PROVE p[(k + 1) + 1] \in Nat
      OBVIOUS
    <3>1. k + 1 \in 1..n /\ k + 1 \in 1..(n + 1)
      BY <1>1
    <3> QED
      BY <1>4, <1>10, <2>2, <3>1
  <2> HIDE DEF T
  <2>3. Nat \subseteq T
    BY <2>1, <2>2, Induction
  <2>4. \A k \in 1..(n + 1) : k - 1 \in Nat /\ (k - 1) + 1 = k
    OBVIOUS
  <2> QED
    BY <2>3, <2>4 DEF T
<1>12. \A k \in 1..(n + 1) : p[k] <= p[n + 1]
  <2> DEFINE T == {m \in Nat : m <= n => p[(n - m) + 1] <= p[n + 1]}
  <2>1. 0 \in T
    <3>1. n + 1 \in 1..(n + 1) /\ (n - 0) + 1 = n + 1
      BY <1>1
    <3>2. p[n + 1] \in Nat
      BY <1>11, <3>1
    <3> QED
      BY <3>1, <3>2
  <2>2. ASSUME NEW m \in Nat, m \in T PROVE m + 1 \in T
    <3> SUFFICES ASSUME m + 1 <= n PROVE p[(n - (m + 1)) + 1] <= p[n + 1]
      OBVIOUS
    <3> DEFINE k == (n - (m + 1)) + 1
    <3>1. k \in 1..n /\ k + 1 = (n - m) + 1 /\ k + 1 \in 1..(n + 1) /\ k \in 1..(n + 1) /\ m <= n
          /\ n + 1 \in 1..(n + 1)
      BY <1>1
    <3> HIDE DEF k
    <3>2. p[k + 1] = p[k] + ShortSize(k) /\ ShortSize(k) \in Nat /\ p[k + 1] <= p[n + 1]
      BY <1>4, <1>10, <2>2, <3>1
    <3>3. p[k] \in Nat /\ p[k + 1] \in Nat /\ p[n + 1] \in Nat
      BY <1>11, <3>1
    <3>4. p[k] <= p[n + 1]
      BY ONLY <3>2, <3>3
    <3> QED
      BY <3>4 DEF k
  <2> HIDE DEF T
  <2>3. Nat \subseteq T
    BY <2>1, <2>2, Induction
  <2>4. \A k \in 1..(n + 1) : (n + 1) - k \in Nat /\ (n + 1) - k <= n /\ (n - ((n + 1) - k)) + 1 = k
    BY <1>1
  <2> QED
    BY <2>3, <2>4 DEF T
<1> QED
  BY <1>1, <1>3, <1>9, <1>10, <1>11, <1>12 DEF n, p

(* A sequence begins with its first elements. *)
LEMMA InitialPrefix ==
    ASSUME NEW S, NEW t \in Seq(S), NEW m \in 0..Len(t), NEW s, s = [k \in 1..m |-> t[k]]
    PROVE  IsPrefix(s, t)
<1>1. /\ m \in Nat /\ Len(t) \in Nat /\ m <= Len(t) /\ 0 \in Nat /\ 0 + 1 = 1 /\ 0 + m = m
      /\ \A i \in 1..m : 0 + i = i /\ i \in 1..Len(t)
  OBVIOUS
<1>2. \A i \in 1..m : t[i] \in S
  BY <1>1, ElementOfSeq
<1>3. s \in Seq(S) /\ Len(s) = m /\ \A i \in 1..m : s[i] = t[i]
  BY <1>1, <1>2
<1>4. SubSeq(t, 0 + 1, 0 + m) = [i \in 1..m |-> t[0 + i]]
  <2>1. \A i \in 1..m : t[0 + i] \in S
    BY <1>1, <1>2
  <2> QED
    BY ONLY <1>1, <2>1, Slice
<1>5. SubSeq(s, 0 + 1, 0 + m) = [i \in 1..m |-> s[0 + i]]
  <2>1. \A i \in 1..m : s[0 + i] \in S
    BY <1>1, <1>2, <1>3
  <2> QED
    BY ONLY <1>1, <2>1, Slice
<1>6. [i \in 1..m |-> s[0 + i]] = [i \in 1..m |-> t[0 + i]]
  BY <1>1, <1>3
<1>7. SubSeq(s, 1, Len(s)) = SubSeq(t, 1, Len(s))
  BY <1>1, <1>3, <1>4, <1>5, <1>6
<1> QED
  BY <1>1, <1>3, <1>7 DEF IsPrefix

Shorts(m) == [k \in 1..m |-> ShortListed(k)]

LEMMA ShortsFacts ==
    ASSUME NEW c \in Nat, NEW m \in 0..c
    PROVE  Shorts(c) \in Seq(All) /\ IsPrefix(Shorts(m), Shorts(c))
<1>1. \A k \in 1..c : ShortListed(k) \in All
  BY DEF All
<1> DEFINE t == Shorts(c)
           L(k) == ShortListed(k)
<1>2. t = [k \in 1..c |-> L(k)] /\ Shorts(m) = [k \in 1..m |-> L(k)]
  BY DEF Shorts
<1> HIDE DEF t, L, All
<1>3. t \in Seq(All) /\ Len(t) = c /\ \A k \in 1..c : t[k] = L(k)
  BY <1>1, <1>2 DEF L
<1>4. m \in 0..Len(t) /\ Shorts(m) = [k \in 1..m |-> t[k]]
  BY <1>2, <1>3
<1>5. IsPrefix(Shorts(m), t)
  <2> DEFINE s == Shorts(m)
  <2>1. m \in 0..Len(t) /\ s = [k \in 1..m |-> t[k]]
    BY <1>4
  <2> HIDE DEF s
  <2>2. IsPrefix(s, t)
    BY <1>3, <2>1, InitialPrefix
  <2> QED
    BY <2>2 DEF s
<1> QED
  BY <1>3, <1>5 DEF t

-----------------------------------------------------------------------------
(* An entry of a sound leaf is read as its reference says.                 *)
LEMMA SoundLeafFacts ==
    ASSUME inode \in Inodes, at \in 0..(ImageBlocks - 1), IsLeaf(at), SoundLeaf(at),
           entry \in Nat \ {0}
    PROVE  /\ at \in LeafBlocks /\ EntryCount = inode.blocks[at].count
           /\ entry <= EntryCount =>
                 /\ Cur = inode.blocks[at].entries[entry]
                 /\ Local = RecordOf(at, entry).local /\ Remote = RecordOf(at, entry).remote
                 /\ IsLocal <=> LocalEntry(at, entry)
                 /\ IsLocal => LocalFits
                 /\ ~IsLocal => RemoteFits /\ ValueLies(Remote, at)
<1> DEFINE block == inode.blocks[at]
<1>1. block.leaf \in Leaves /\ block.count \in Nat /\ block.entries \in Seq(Entry)
  BY NameFacts
<1>2. at \in LeafBlocks
  BY <1>1 DEF LeafBlocks, IsLeaf, Leaves
<1>3. /\ (IF IsV5(at) THEN 80 ELSE 32) + 8 * block.count <= BlockSize
      /\ block.count <= Len(block.entries)
      /\ \A k \in 1..block.count : SoundEntry(at, k)
  BY DEF SoundLeaf
<1>4. EntryCount = block.count
  <2> DEFINE h == HdrLen
             c == block.count
  <2>1. h \in {80, 32} /\ h = (IF IsV5(at) THEN 80 ELSE 32)
    BY DEF HdrLen, V5, Leaf, IsV5, LEAF_HDR_LEN, LEAF_HDR_LEN_V4
  <2>2. EntryCount = AtMost(c, LargerOf(BlockSize - h, 0) \div 8)
    BY DEF EntryCount, Leaf, LEAF_ENTRY_LEN
  <2>3. c \in Nat /\ h + 8 * c <= BlockSize
    BY <1>1, <1>3, <2>1
  <2> HIDE DEF h, c
  <2>4. LargerOf(BlockSize - h, 0) = BlockSize - h
    BY <2>1, <2>3 DEF LargerOf
  <2>5. c <= (BlockSize - h) \div 8
    BY <2>1, <2>3
  <2>6. EntryCount = c
    BY <2>2, <2>4, <2>5 DEF AtMost
  <2> QED
    BY <2>6 DEF c
<1>5. ASSUME entry <= EntryCount
      PROVE  /\ Cur = block.entries[entry]
             /\ Local = RecordOf(at, entry).local /\ Remote = RecordOf(at, entry).remote
             /\ IsLocal <=> LocalEntry(at, entry)
             /\ IsLocal => LocalFits
             /\ ~IsLocal => RemoteFits /\ ValueLies(Remote, at)
  <2>1. entry \in 1..block.count /\ entry <= Len(block.entries)
    <3>1. Len(block.entries) \in Nat
      BY <1>1
    <3> DEFINE c == block.count
               l == Len(block.entries)
    <3>2. c \in Nat /\ l \in Nat /\ c <= l /\ entry <= c /\ entry \in Nat \ {0}
      BY <1>1, <1>3, <1>4, <1>5, <3>1
    <3> HIDE DEF c, l
    <3>3. entry \in 1..c /\ entry <= l
      BY ONLY <3>2
    <3> QED
      BY <3>3 DEF c, l
  <2>2. Cur = block.entries[entry]
    BY <2>1 DEF Cur, Leaf
  <2>3. SoundEntry(at, entry)
    BY <1>3, <2>1
  <2>4. Cur.nameidx \in DOMAIN block.at
    BY <2>2, <2>3 DEF SoundEntry
  <2>5. Local = RecordOf(at, entry).local /\ Remote = RecordOf(at, entry).remote
    BY <2>2, <2>4 DEF Local, Remote, NameAt, RecordOf, Leaf
  <2>6. IsLocal <=> LocalEntry(at, entry)
    BY <2>2 DEF IsLocal, LocalEntry
  <2>7. IsLocal => LocalFits
    <3>1. LocalEntry(at, entry) => LET name == RecordOf(at, entry)
                                   IN  Cur.nameidx + 3 + name.local.namelen + name.local.valuelen
                                         <= BlockSize
      BY <2>2, <2>3, Zenon DEF SoundEntry, RecordOf
    <3> QED
      BY <2>5, <2>6, <3>1 DEF LocalFits
  <2>8. ~IsLocal => RemoteFits /\ ValueLies(Remote, at)
    <3>1. ~LocalEntry(at, entry) => LET name == RecordOf(at, entry)
                                    IN  /\ Cur.nameidx + 9 + name.remote.namelen <= BlockSize
                                        /\ ValueLies(name.remote, at)
      BY <2>2, <2>3, Zenon DEF SoundEntry, RecordOf
    <3> QED
      BY <2>5, <2>6, <3>1 DEF RemoteFits
  <2> QED
    BY <2>2, <2>5, <2>6, <2>7, <2>8
<1> QED
  BY <1>2, <1>4, <1>5

(* A value needs one block more as long as those it has do not hold it. *)
LEMMA ValueUnits ==
    ASSUME NEW len \in Nat, NEW room \in Nat \ {0}
    PROVE  /\ ValueBlocks(len, room) \in Nat
           /\ \A m \in Nat : m < ValueBlocks(len, room) <=> m * room < len
<1> DEFINE full == ValueBlocks(len, room)
           n == len + room - 1
<1>1. n \in Nat /\ full = n \div room
  BY DEF ValueBlocks
<1>2. full \in Nat
  <2> HIDE DEF n, full
  <2> QED
    BY <1>1, Division
<1>3. ASSUME NEW m \in Nat PROVE m < full <=> m * room < len
  <2> DEFINE mr == m * room
             mr1 == (m + 1) * room
  <2>1. mr \in Nat /\ mr1 = mr + room
    OBVIOUS
  <2>2. mr1 <= n <=> m + 1 <= full
    <3> HIDE DEF n, full
    <3> QED
      BY <1>1, WholeUnits
  <2> HIDE DEF mr, mr1, full
  <2>3. mr < len <=> m < full
    BY <1>2, <2>1, <2>2
  <2> QED
    BY <2>3 DEF mr
<1> QED
  BY <1>2, <1>3

(* The payload of the value blocks that go with a leaf.                    *)
LEMMA RoomFacts ==
    ASSUME inode \in Inodes, at \in 0..(ImageBlocks - 1), EntryCount > 0
    PROVE  Payload = RoomOf(at) /\ BodyOff = BlockSize - RoomOf(at) /\ RoomOf(at) \in Nat \ {0}
<1>1. Payload > 0 /\ BodyOff + Payload = BlockSize /\ BodyOff \in Nat /\ Payload \in Nat
  BY CapFacts
<1>2. (V5 <=> IsV5(at)) /\ BodyOff = (IF V5 THEN 56 ELSE 0)
  BY DEF V5, IsV5, Leaf, BodyOff, RMT_HDR_LEN
<1>3. RoomOf(at) = IF IsV5(at) THEN BlockSize - 56 ELSE BlockSize
  BY DEF RoomOf
<1>4. RoomOf(at) = BlockSize - BodyOff
  BY <1>2, <1>3
<1> HIDE DEF RoomOf
<1> DEFINE r == RoomOf(at)
           y == Payload
           o == BodyOff
<1>5. y = r /\ o = BlockSize - r /\ r \in Nat \ {0}
  <2>1. y > 0 /\ o + y = BlockSize /\ o \in Nat /\ y \in Nat /\ r = BlockSize - o /\ BlockSize \in Nat
    BY <1>1, <1>4
  <2> HIDE DEF r, y, o
  <2> QED
    BY ONLY <2>1
<1> QED
  BY <1>5

(***************************************************************************)
(* The invariant: what is listed and what the walk has yet to come by are  *)
(* the listing.  The value being read has its first blocks.                *)
(***************************************************************************)
Pieces(rec, n, m) == [j \in 1..m |-> ValuePiece(rec, n, j)]
ValueExact(rec, n, m) ==
    LET full == ValueBlocks(rec.valuelen, RoomOf(n))
    IN  /\ m <= full
        /\ value = Pieces(rec, n, m) /\ logical = rec.valueblk + m
        /\ have = IF m < full THEN m * RoomOf(n) ELSE rec.valuelen

(* The state of a listing of a sound fork. *)
Exact ==
    /\ pc # "unsupported"
    /\ pc = "short" => /\ entry <= inode.short.count + 1 /\ off = ShortPlaces[entry]
                       /\ out = Shorts(entry - 1)
    /\ pc = "extents" => out \o BlocksLeft(next, b) = AttrListing
    /\ InLoops => /\ SoundLeaf(at)
                  /\ out \o (LeafLeft(at, entry) \o BlocksLeft(next, b)) = AttrListing
    /\ pc = "value" => \E m \in Nat : ValueExact(Remote, at, m)
    /\ pc = "returned" => out = AttrListing

AttrsInv ==
    /\ pc = "called" => next = 1 /\ b = 0 /\ entry = 1
    /\ pc = "short" => inode.forkoff # 0 /\ inode.aformat = 1
    /\ pc \in {"extents", "leaf", "value"} => inode.forkoff # 0 /\ inode.aformat = 2
    /\ pc = "returned" => inode.aformat \in 0..2 \/ inode.forkoff = 0
    /\ SoundAttrs => Exact

LEMMA SameFork ==
    ASSUME inode' = inode
    PROVE  /\ SoundAttrs' <=> SoundAttrs
           /\ AttrListing' = AttrListing
           /\ \A n : SoundLeaf(n)' <=> SoundLeaf(n)
           /\ \A k : ShortPlaces[k]' = ShortPlaces[k]
           /\ \A m : Shorts(m)' = Shorts(m)
           /\ \A n, e : LeafLeft(n, e)' = LeafLeft(n, e)
           /\ \A k, c : BlocksLeft(k, c)' = BlocksLeft(k, c)
           /\ \A rec, n, m : Pieces(rec, n, m)' = Pieces(rec, n, m)
           /\ \A n : RoomOf(n)' = RoomOf(n)
<1>1. Recs' = Recs /\ \A l : Places(l)' = Places(l)
  BY SameInode
<1>2. \A n : RoomOf(n)' = RoomOf(n) /\ (IsV5(n)' <=> IsV5(n))
  BY DEF RoomOf, IsV5
<1>3. \A rec, n, j : ValuePiece(rec, n, j)' = ValuePiece(rec, n, j)
  BY <1>1, <1>2, Zenon DEF ValuePiece, P, ValueBlocks
<1>4. \A rec, n, m : Pieces(rec, n, m)' = Pieces(rec, n, m)
  BY <1>3 DEF Pieces
<1>5. \A n : SoundLeaf(n)' <=> SoundLeaf(n)
  <2>1. \A rec, n : ValueLies(rec, n)' <=> ValueLies(rec, n)
    BY <1>1, <1>2 DEF ValueLies, ValueBlocks
  <2>2. \A n, k : SoundEntry(n, k)' <=> SoundEntry(n, k)
    BY <2>1, ZenonT(60) DEF SoundEntry, LocalEntry
  <2> QED
    BY <1>2, <2>2 DEF SoundLeaf
<1>6. \A n, k : Listed(n, k)' = Listed(n, k)
  <2>1. \A n, k : RecordOf(n, k)' = RecordOf(n, k) /\ (LocalEntry(n, k)' <=> LocalEntry(n, k))
    BY Zenon DEF RecordOf, LocalEntry
  <2> SUFFICES ASSUME NEW n, NEW k PROVE Listed(n, k)' = Listed(n, k)
    OBVIOUS
  <2>2. CASE LocalEntry(n, k)
    BY <2>1, <2>2, Zenon DEF Listed, P, NamespaceOf
  <2>3. CASE ~LocalEntry(n, k)
    BY <1>1, <1>2, <2>1, <2>3, Zenon DEF Listed, P, NamespaceOf, ValuePiece, ValueBlocks
  <2> QED
    BY <2>2, <2>3
<1>7. LeafBlocks' = LeafBlocks
  BY DEF LeafBlocks
<1>8. \A n : LeafPart(n)' = LeafPart(n)
  BY <1>6, <1>7 DEF LeafPart
<1>9. \A rec : RecPart(rec)' = RecPart(rec) /\ RecBlocks(rec)' = RecBlocks(rec)
  BY <1>8 DEF RecPart, RecBlocks
<1>10. ShortPlaces' = ShortPlaces
  BY DEF ShortPlaces, ShortSize
<1>11. \A k : ShortListed(k)' = ShortListed(k)
  BY <1>10 DEF ShortListed
<1>12. All' = All
  BY <1>6, <1>7, <1>11 DEF All
<1>13. \A w : Rest(w)' = Rest(w)
  BY <1>12 DEF Rest, IsRest
<1>14. Parts' = Parts
  BY <1>1, <1>9 DEF Parts
<1>15. \A k, c : BlocksLeft(k, c)' = BlocksLeft(k, c)
  BY <1>1, <1>9, <1>13, <1>14 DEF BlocksLeft
<1>16. \A n, e : LeafLeft(n, e)' = LeafLeft(n, e)
  BY <1>6 DEF LeafLeft
<1>17. \A m : Shorts(m)' = Shorts(m)
  BY <1>11 DEF Shorts
<1>18. (HasFork' <=> HasFork) /\ (SoundFork' <=> SoundFork)
  BY <1>1, <1>5, <1>7 DEF HasFork, SoundFork, InRun
<1>19. SoundAttrs' <=> SoundAttrs
  BY <1>10, <1>18 DEF SoundAttrs
<1>20. AttrListing' = AttrListing
  BY <1>1, <1>9, <1>11, <1>18 DEF AttrListing
<1> QED
  BY <1>2, <1>4, <1>5, <1>10, <1>15, <1>16, <1>17, <1>19, <1>20

LEMMA SoundCases ==
    ASSUME inode \in Inodes, SoundAttrs, inode.forkoff # 0
    PROVE  /\ inode.aformat \in 0..2
           /\ inode.aformat = 0 => AttrListing = <<>>
           /\ inode.aformat = 1 => /\ AttrListing = Shorts(inode.short.count)
                                   /\ ShortPlaces[inode.short.count + 1] <= AttrForkLen
           /\ inode.aformat = 2 => /\ AttrListing = FlattenSeq(Parts)
                                   /\ SoundFork
<1>1. inode.aformat \in Nat /\ inode.forkoff \in Nat /\ inode.litlen \in Nat
  BY InodesAssumption
<1>2. inode.aformat \in 0..2
  BY DEF SoundAttrs, HasFork
<1>3. inode.aformat = 0 => AttrListing = <<>>
  BY DEF AttrListing, HasFork
<1>4. ASSUME inode.aformat = 1
      PROVE  /\ AttrListing = Shorts(inode.short.count)
             /\ ShortPlaces[inode.short.count + 1] <= AttrForkLen
  <2>1. HasFork
    BY <1>4 DEF HasFork
  <2>2. AttrListing = Shorts(inode.short.count)
    BY <1>4, <2>1 DEF AttrListing, Shorts
  <2>3. ShortPlaces[inode.short.count + 1] <= inode.litlen - 8 * inode.forkoff
    BY <1>4, <2>1 DEF SoundAttrs
  <2> DEFINE p == ShortPlaces[inode.short.count + 1]
             l == inode.litlen - 8 * inode.forkoff
  <2>4. p \in Nat /\ l \in Int /\ p <= l /\ AttrForkLen = LargerOf(l, 0)
    <3>1. inode.short.count \in Nat /\ inode.short.count + 1 \in 1..(inode.short.count + 1)
      BY ShortFacts
    <3> QED
      BY <1>1, <2>3, <3>1, ShortFacts DEF AttrForkLen
  <2> HIDE DEF p, l
  <2>5. p <= AttrForkLen
    BY <2>4 DEF LargerOf
  <2> QED
    BY <2>2, <2>5 DEF p
<1>5. ASSUME inode.aformat = 2 PROVE AttrListing = FlattenSeq(Parts) /\ SoundFork
  BY <1>5 DEF AttrListing, SoundAttrs, HasFork, Parts
<1> QED
  BY <1>2, <1>3, <1>4, <1>5

LEMMA OutType ==
    ASSUME Inv
    PROVE  out \in Seq(All)
<1>1. out \in Seq(Attr)
  BY DEF Inv
<1>2. Attr \subseteq All
  BY DEF All
<1> HIDE DEF All, Attr
<1>3. out \in [1..Len(out) -> Attr] /\ Len(out) \in Nat
  BY <1>1
<1>4. out \in [1..Len(out) -> All]
  BY <1>2, <1>3
<1> QED
  BY <1>3, <1>4

LEMMA EmptyLeft ==
    ASSUME NEW s \in Seq(All)
    PROVE  s \o <<>> = s /\ <<>> \o s = s
<1> HIDE DEF All
<1> QED
  BY ConcatEmptySeq

(* A sound fork lists attributes. *)
LEMMA ListingType ==
    ASSUME inode \in Inodes, SoundAttrs
    PROVE  AttrListing \in Seq(All)
<1>1. <<>> \in Seq(All)
  <2> HIDE DEF All
  <2> QED
    OBVIOUS
<1>2. CASE inode.forkoff = 0
  BY <1>1, <1>2 DEF AttrListing, HasFork
<1>3. CASE inode.forkoff # 0 /\ inode.aformat = 0
  BY <1>1, <1>3, SoundCases
<1>4. CASE inode.forkoff # 0 /\ inode.aformat = 1
  <2> DEFINE c == inode.short.count
  <2>1. c \in Nat /\ AttrListing = Shorts(c)
    BY <1>4, SoundCases, InodesAssumption
  <2> HIDE DEF c
  <2>2. c \in 0..c
    BY <2>1
  <2> QED
    BY <2>1, <2>2, ShortsFacts
<1>5. CASE inode.forkoff # 0 /\ inode.aformat = 2
  <2>1. AttrListing = Rest(Parts)[1]
    BY <1>5, SoundCases, PartsFacts
  <2>2. 1 \in 1..(Len(Recs) + 1)
    BY RecsFacts
  <2> QED
    BY <2>1, <2>2, PartsFacts
<1>6. inode.aformat \in 0..2 \/ inode.forkoff = 0
  BY SoundCases
<1> QED
  BY <1>2, <1>3, <1>4, <1>5, <1>6

(* The call returns at once, is refused, or a reader begins. *)
LEMMA StartAttrs ==
    ASSUME Inv, AttrsInv, NoAttributes \/ RefuseFormat \/ StartShort \/ StartLeafFork
    PROVE  AttrsInv'
<1>1. /\ inode \in Inodes /\ inode' = inode /\ out' = out /\ out = <<>> /\ pc = "called"
      /\ next' = next /\ b' = b /\ entry' = entry /\ next = 1 /\ b = 0 /\ entry = 1
  BY DEF Inv, Place, AttrsInv, NoAttributes, RefuseFormat, StartShort, StartLeafFork
<1>2. inode.aformat \in Nat
  BY <1>1, InodesAssumption
<1>3. CASE NoAttributes
  <2>1. pc' = "returned" /\ (inode.forkoff = 0 \/ inode.aformat = 0)
    BY <1>3 DEF NoAttributes
  <2>2. AttrListing = <<>>
    BY <2>1 DEF AttrListing, HasFork
  <2> QED
    BY <1>1, <2>1, <2>2, SameFork DEF AttrsInv, Exact, InLoops
<1>4. CASE RefuseFormat
  <2>1. pc' = "unsupported" /\ inode.forkoff # 0 /\ inode.aformat \notin 0..2
    BY <1>4 DEF RefuseFormat
  <2>2. ~SoundAttrs
    BY <1>1, <2>1, SoundCases
  <2> QED
    BY <1>1, <2>1, <2>2, SameFork DEF AttrsInv
<1>5. CASE StartShort
  <2>1. /\ inode.forkoff # 0 /\ inode.aformat = 1 /\ off' = 4
        /\ pc' = IF AttrForkLen < 4 THEN "returned" ELSE "short"
    BY <1>5 DEF StartShort, SHORT_HDR_LEN
  <2>2. SoundAttrs => ~(AttrForkLen < 4)
    <3> SUFFICES ASSUME SoundAttrs PROVE ~(AttrForkLen < 4)
      OBVIOUS
    <3> DEFINE c == inode.short.count
    <3>1. c \in Nat /\ ShortPlaces[1] = 4
          /\ \A k \in 1..(c + 1) : ShortPlaces[k] \in Nat /\ ShortPlaces[k] <= ShortPlaces[c + 1]
      BY <1>1, ShortFacts
    <3>2. ShortPlaces[c + 1] <= AttrForkLen
      BY <1>1, <2>1, SoundCases
    <3>3. AttrForkLen \in Nat
      BY <1>1, RecsFacts
    <3> HIDE DEF c
    <3>4. 1 \in 1..(c + 1) /\ c + 1 \in 1..(c + 1)
      BY <3>1
    <3>5. 4 <= ShortPlaces[c + 1] /\ ShortPlaces[c + 1] \in Nat
      BY <3>1, <3>4
    <3> DEFINE p == ShortPlaces[c + 1]
               l == AttrForkLen
    <3>6. p \in Nat /\ l \in Nat /\ 4 <= p /\ p <= l
      BY <3>2, <3>3, <3>5
    <3> HIDE DEF p, l
    <3>7. ~(l < 4)
      BY ONLY <3>6
    <3> QED
      BY <3>7 DEF l
  <2>3. inode.short.count \in Nat /\ ShortPlaces[1] = 4
    BY <1>1, ShortFacts
  <2>4. Shorts(1 - 1) = <<>>
    BY DEF Shorts
  <2>5. SoundAttrs => Exact'
    BY <1>1, <2>1, <2>2, <2>3, <2>4, SameFork DEF Exact, InLoops
  <2> QED
    BY <1>1, <2>1, <2>5, SameFork DEF AttrsInv
<1>6. CASE StartLeafFork
  <2>1. inode.forkoff # 0 /\ inode.aformat = 2 /\ pc' = "extents"
    BY <1>6 DEF StartLeafFork
  <2>2. SoundAttrs => out \o BlocksLeft(1, 0) = AttrListing
    <3> SUFFICES ASSUME SoundAttrs PROVE out \o BlocksLeft(1, 0) = AttrListing
      OBVIOUS
    <3>1. 1 \in 1..(Len(Recs) + 1)
      BY <1>1, RecsFacts
    <3>2. BlocksLeft(1, 0) = Rest(Parts)[1] /\ BlocksLeft(1, 0) \in Seq(All)
      BY <1>1, <3>1, WholeRecord
    <3>3. Rest(Parts)[1] = FlattenSeq(Parts) /\ AttrListing = FlattenSeq(Parts)
      BY <1>1, <2>1, PartsFacts, SoundCases
    <3> QED
      BY <1>1, <3>2, <3>3, EmptyLeft
  <2>3. SoundAttrs => Exact'
    BY <1>1, <2>1, <2>2, SameFork DEF Exact, InLoops
  <2> QED
    BY <1>1, <2>1, <2>3, SameFork DEF AttrsInv
<1> QED
  BY <1>3, <1>4, <1>5, <1>6

(* parse_shortform. *)
LEMMA ShortAttrs ==
    ASSUME Inv, AttrsInv, TakeShort \/ EndShort
    PROVE  AttrsInv'
<1> DEFINE c == inode.short.count
<1>1. /\ inode \in Inodes /\ inode' = inode /\ pc = "short" /\ entry \in Nat \ {0} /\ off \in Nat
      /\ inode.forkoff # 0 /\ inode.aformat = 1
  BY DEF Inv, TypeOK, AttrsInv, TakeShort, EndShort
<1>2. pc' \in {"short", "returned"}
  BY <1>1 DEF TakeShort, EndShort
<1> SUFFICES ASSUME SoundAttrs
             PROVE  /\ pc' = "short" => /\ entry' <= c + 1 /\ off' = ShortPlaces[entry']
                                        /\ out' = Shorts(entry' - 1)
                    /\ pc' = "returned" => out' = AttrListing
  BY <1>1, <1>2, SameFork DEF AttrsInv, Exact, InLoops
<1>3. entry <= c + 1 /\ off = ShortPlaces[entry] /\ out = Shorts(entry - 1)
  BY <1>1 DEF AttrsInv, Exact
<1>4. /\ c \in Nat
      /\ \A k \in 1..c : /\ inode.short.items[k].namelen \in Nat
                         /\ inode.short.items[k].valuelen \in Nat
                         /\ ShortPlaces[k + 1] = ShortPlaces[k] + ShortSize(k)
      /\ \A k \in 1..(c + 1) : ShortPlaces[k] \in Nat /\ ShortPlaces[k] <= ShortPlaces[c + 1]
  BY <1>1, ShortFacts
<1>5. AttrListing = Shorts(c) /\ ShortPlaces[c + 1] <= AttrForkLen /\ AttrForkLen \in Nat
  BY <1>1, SoundCases, RecsFacts
<1> HIDE DEF c
<1>6. ASSUME entry <= c PROVE ShortEnd = ShortPlaces[entry + 1] /\ ShortEnd <= AttrForkLen
  <2>1. entry \in 1..c /\ entry + 1 \in 1..(c + 1) /\ c + 1 \in 1..(c + 1)
    BY <1>1, <1>4, <1>6
  <2> DEFINE m == inode.short.items[entry].namelen
             v == inode.short.items[entry].valuelen
             p == ShortPlaces[entry + 1]
             q == ShortPlaces[c + 1]
             l == AttrForkLen
  <2>2. m \in Nat /\ v \in Nat /\ p = off + (3 + m + v) /\ ShortEnd = off + 3 + m + v /\ off \in Nat
    BY <1>1, <1>3, <1>4, <2>1 DEF ShortSize, ShortEnd, ShortItem
  <2>3. p \in Nat /\ p <= q /\ q \in Nat /\ q <= l /\ l \in Nat
    BY <1>4, <1>5, <2>1
  <2> HIDE DEF m, v, p, q, l
  <2>4. ShortEnd = p /\ ShortEnd <= l
    BY ONLY <2>2, <2>3
  <2> QED
    BY <2>4 DEF p, l
<1>7. CASE TakeShort
  <2> DEFINE a == Xattr(P(Inline, off + 3, ShortItem.namelen), ShortItem.flags,
                        <<P(Inline, off + 3 + ShortItem.namelen, ShortItem.valuelen)>>,
                        <<"Shortform">>)
  <2>1. /\ pc' = "short" /\ entry <= c /\ out' = Append(out, a)
        /\ off' = ShortEnd /\ entry' = entry + 1
    BY <1>1, <1>7 DEF TakeShort, MoreShort, c
  <2>2. a = ShortListed(entry)
    <3>1. FromFlags(ShortItem.flags) = NamespaceOf(ShortItem.flags)
      BY Zenon DEF FromFlags, NamespaceOf
    <3> QED
      BY <1>3, <3>1 DEF Xattr, ShortListed, ShortItem
  <2>3. /\ entry - 1 \in Nat /\ entry \in Nat /\ (entry - 1) + 1 = entry
        /\ entry + 1 <= c + 1 /\ (entry + 1) - 1 = entry
    BY <1>1, <1>4, <2>1
  <2>4. out' = Shorts(entry)
    <3>1. out = [k \in 1..(entry - 1) |-> ShortListed(k)]
      BY <1>3 DEF Shorts
    <3>2. out \in Seq(All) /\ Len(out) = entry - 1
      BY <2>3, <3>1, OutType
    <3>3. a \in All
      BY <2>2, <2>3 DEF All
    <3> DEFINE u == Append(out, a)
    <3> HIDE DEF a, All, u
    <3>4. /\ u \in Seq(All) /\ Len(u) = entry
          /\ \A k \in 1..(entry - 1) : u[k] = out[k]
          /\ u[entry] = a
      <4>1. /\ u \in Seq(All) /\ Len(u) = Len(out) + 1
            /\ \A k \in 1..Len(out) : u[k] = out[k]
            /\ u[Len(out) + 1] = a
        BY ONLY <3>2, <3>3, AppendProperties DEF u
      <4> QED
        BY ONLY <2>3, <3>2, <4>1
    <3>5. \A k \in 1..entry : u[k] = ShortListed(k)
      <4> SUFFICES ASSUME NEW k \in 1..entry PROVE u[k] = ShortListed(k)
        OBVIOUS
      <4>1. CASE k = entry
        BY <2>2, <3>4, <4>1
      <4>2. CASE k # entry
        <5>1. k \in 1..(entry - 1)
          BY <2>3, <4>2
        <5> QED
          BY <3>1, <3>4, <5>1
      <4> QED
        BY <4>1, <4>2
    <3>6. u = [k \in 1..entry |-> ShortListed(k)]
      BY <3>4, <3>5
    <3> QED
      BY <2>1, <3>6 DEF Shorts, u
  <2> QED
    BY <1>6, <2>1, <2>3, <2>4
<1>8. CASE EndShort
  <2>1. pc' = "returned" /\ out' = out /\ ~(entry <= c /\ ShortEnd <= AttrForkLen)
    BY <1>8 DEF EndShort, MoreShort, c
  <2>2. ~(entry <= c)
    BY <1>6, <2>1
  <2>3. entry - 1 = c
    <3>1. entry \in Nat \ {0} /\ entry <= c + 1 /\ c \in Nat
      BY <1>1, <1>3, <1>4
    <3> QED
      BY ONLY <2>2, <3>1
  <2> QED
    BY <1>3, <1>5, <2>1, <2>3
<1> QED
  BY <1>7, <1>8

(* What the walk of the map knows where it stands. *)
LEMMA MapState ==
    ASSUME Inv, pc \in {"extents", "leaf", "value"}
    PROVE  /\ inode \in Inodes /\ next \in 1..(Len(Recs) + 1) /\ Len(Recs) \in Nat /\ b \in Nat
           /\ out \in Seq(All) /\ BlocksLeft(next, b) \in Seq(All)
           /\ next <= Len(Recs) => /\ next \in 1..Len(Recs) /\ b <= Recs[next].blockcount
                                   /\ Recs[next].blockcount \in Nat /\ Recs[next].startblock \in Nat
<1>1. /\ inode \in Inodes /\ next \in 1..(Len(Recs) + 1) /\ b \in Nat
      /\ next <= Len(Recs) => b <= Recs[next].blockcount
  BY DEF Inv, TypeOK
<1>2. Len(Recs) \in Nat
  BY <1>1, RecsFacts
<1>3. out \in Seq(All)
  BY OutType
<1>4. next <= Len(Recs) => /\ next \in 1..Len(Recs) /\ Recs[next].blockcount \in Nat
                           /\ Recs[next].startblock \in Nat
  BY <1>1, <1>2, RecsFacts
<1>5. CASE next > Len(Recs)
  <2>1. BlocksLeft(next, b) = <<>>
    BY <1>5 DEF BlocksLeft
  <2>2. <<>> \in Seq(All)
    OBVIOUS
  <2> QED
    BY <1>1, <1>2, <1>3, <1>4, <2>1, <2>2
<1>6. CASE next <= Len(Recs)
  <2> DEFINE m == Recs[next].blockcount
  <2>1. next \in 1..Len(Recs) /\ m \in Nat /\ b <= m /\ next + 1 \in 1..(Len(Recs) + 1)
    BY <1>1, <1>2, <1>4, <1>6
  <2>2. CASE b = m
    BY <1>1, <1>2, <1>3, <1>4, <2>1, <2>2, RecordDone, WholeRecord
  <2>3. CASE b < m
    <3> DEFINE part == LeafPart(Recs[next].startblock + b)
               left == BlocksLeft(next, b + 1)
    <3>1. BlocksLeft(next, b) = part \o left /\ left \in Seq(All)
      BY <1>1, <2>1, <2>3, BlockNext
    <3>2. part \in Seq(All)
      BY <1>1, LeafPartType
    <3> HIDE DEF part, left, All
    <3>3. BlocksLeft(next, b) \in Seq(All)
      BY ONLY <3>1, <3>2, ConcatProperties
    <3> QED
      BY <1>1, <1>2, <1>3, <1>4, <3>3
  <2>4. b = m \/ b < m
    <3> HIDE DEF m
    <3> QED
      BY <1>1, <2>1
  <2> QED
    BY <2>2, <2>3, <2>4
<1>7. next > Len(Recs) \/ next <= Len(Recs)
  BY <1>1, <1>2
<1> QED
  BY <1>5, <1>6, <1>7

(* parse_leaf_fork passes over a record or a block. *)
LEMMA SkipAttrs ==
    ASSUME Inv, AttrsInv, NextExtent \/ SkipBlock \/ EndExtents
    PROVE  AttrsInv'
<1>1. /\ inode' = inode /\ out' = out /\ pc = "extents" /\ pc' \in {"extents", "returned"}
  BY DEF NextExtent, SkipBlock, EndExtents, InExtents
<1>2. /\ inode \in Inodes /\ next \in 1..(Len(Recs) + 1) /\ Len(Recs) \in Nat /\ b \in Nat
      /\ out \in Seq(All)
      /\ next <= Len(Recs) => next \in 1..Len(Recs)
  BY <1>1, MapState
<1> SUFFICES ASSUME SoundAttrs
             PROVE  /\ pc' = "extents" => out \o BlocksLeft(next', b') = AttrListing
                    /\ pc' = "returned" => out = AttrListing
  <2>1. inode.forkoff # 0 /\ inode.aformat = 2
    BY <1>1 DEF AttrsInv
  <2>2. /\ SoundAttrs' <=> SoundAttrs
        /\ AttrListing' = AttrListing
        /\ \A k, c : BlocksLeft(k, c)' = BlocksLeft(k, c)
    BY <1>1, SameFork
  <2>3. CASE pc' = "extents"
    <3>1. SoundAttrs => Exact'
      BY <1>1, <2>2, <2>3 DEF Exact, InLoops
    <3> QED
      BY <1>1, <2>1, <2>2, <2>3, <3>1 DEF AttrsInv
  <2>4. CASE pc' = "returned"
    <3>1. SoundAttrs => Exact'
      BY <1>1, <2>2, <2>4 DEF Exact, InLoops
    <3> QED
      BY <1>1, <2>1, <2>2, <2>4, <3>1 DEF AttrsInv
  <2> QED
    BY <1>1, <2>3, <2>4
<1>3. out \o BlocksLeft(next, b) = AttrListing
  BY <1>1 DEF AttrsInv, Exact
<1>4. CASE NextExtent
  <2>1. /\ pc' = "extents" /\ next <= Len(Recs) /\ next' = next + 1 /\ b' = 0
        /\ b = Recs[next].blockcount
    BY <1>1, <1>4 DEF NextExtent, InExtents
  <2>2. BlocksLeft(next, b) = BlocksLeft(next + 1, 0)
    BY <1>2, <2>1, RecordDone
  <2> QED
    BY <1>3, <2>1, <2>2
<1>5. CASE SkipBlock
  <2>1. /\ pc' = "extents" /\ next <= Len(Recs) /\ next' = next /\ b' = b + 1
        /\ b < Recs[next].blockcount /\ ~IsLeaf(Recs[next].startblock + b)
    BY <1>1, <1>5 DEF SkipBlock, InExtents, Fsblock
  <2> DEFINE part == LeafPart(Recs[next].startblock + b)
             left == BlocksLeft(next, b + 1)
  <2>2. BlocksLeft(next, b) = part \o left /\ left \in Seq(All)
    BY <1>2, <2>1, BlockNext
  <2>3. part = <<>>
    BY <2>1 DEF LeafPart, LeafBlocks, IsLeaf, InImage
  <2>4. BlocksLeft(next, b) = left
    <3> HIDE DEF left, part
    <3> QED
      BY <2>2, <2>3, EmptyLeft
  <2> QED
    BY <1>3, <2>1, <2>4
<1>6. CASE EndExtents
  <2>1. pc' = "returned" /\ BlocksLeft(next, b) = <<>>
    BY <1>6 DEF EndExtents, BlocksLeft
  <2> QED
    BY <1>2, <1>3, <2>1, EmptyLeft
<1> QED
  BY <1>4, <1>5, <1>6

(* A leaf is entered at its first entry. *)
LEMMA EnterAttrs ==
    ASSUME Inv, AttrsInv, EnterLeaf
    PROVE  AttrsInv'
<1> DEFINE f == Recs[next].startblock + b
<1>1. /\ inode' = inode /\ out' = out /\ pc = "extents" /\ pc' = "leaf" /\ next' = next
      /\ next <= Len(Recs) /\ b < Recs[next].blockcount /\ IsLeaf(f)
      /\ at' = f /\ entry' = 1 /\ b' = b + 1
  BY DEF EnterLeaf, InExtents, Fsblock
<1>2. /\ inode \in Inodes /\ next \in 1..Len(Recs) /\ b \in Nat
      /\ out \in Seq(All)
      /\ Recs[next].blockcount \in Nat /\ Recs[next].startblock \in Nat
  BY <1>1, MapState
<1>3. inode.forkoff # 0 /\ inode.aformat = 2
  BY <1>1 DEF AttrsInv
<1> DEFINE left == BlocksLeft(next, b + 1)
<1> SUFFICES ASSUME SoundAttrs
             PROVE  SoundLeaf(f) /\ out \o (LeafLeft(f, 1) \o left) = AttrListing
  <2> HIDE DEF f
  <2> QED
    BY <1>1, <1>3, SameFork DEF AttrsInv, Exact, InLoops
<1>4. out \o BlocksLeft(next, b) = AttrListing
  BY <1>1 DEF AttrsInv, Exact
<1>5. BlocksLeft(next, b) = LeafPart(f) \o left
  BY <1>1, <1>2, BlockNext
<1>6. f \in LeafBlocks
  <2> HIDE DEF f
  <2>1. f \in 0..(ImageBlocks - 1) /\ inode.blocks[f].leaf # "none"
    BY <1>1 DEF IsLeaf, InImage
  <2>2. inode.blocks[f].leaf \in Leaves
    BY <1>2, <2>1, NameFacts
  <2> QED
    BY <2>1, <2>2 DEF Leaves, LeafBlocks
<1>7. SoundLeaf(f)
  <2>1. SoundFork
    BY <1>2, <1>3, SoundCases
  <2>2. InRun(Recs[next], f)
    <3> DEFINE s == Recs[next].startblock
               m == Recs[next].blockcount
    <3>1. s \in Nat /\ m \in Nat /\ b \in Nat /\ b < m
      BY <1>1, <1>2
    <3> HIDE DEF s, m
    <3>2. (s + b) - s \in 0..(m - 1)
      BY ONLY <3>1
    <3> QED
      BY <3>2 DEF s, m, InRun
  <2> HIDE DEF f
  <2> QED
    BY <1>2, <1>6, <2>1, <2>2 DEF SoundFork
<1>8. LeafLeft(f, 1) = LeafPart(f)
  <2>1. 1 \in Nat \ {0}
    OBVIOUS
  <2> HIDE DEF f
  <2> QED
    BY <1>2, <1>6, <2>1, LeafLeftFacts
<1> QED
  BY <1>4, <1>5, <1>7, <1>8

(* In a leaf of a sound fork. *)
LEMMA LeafState ==
    ASSUME Inv, AttrsInv, InLoops, SoundAttrs
    PROVE  /\ inode.forkoff # 0 /\ inode.aformat = 2
           /\ inode \in Inodes /\ at \in 0..(ImageBlocks - 1) /\ entry \in Nat \ {0}
           /\ out \in Seq(All) /\ BlocksLeft(next, b) \in Seq(All) /\ LeafLeft(at, entry) \in Seq(All)
           /\ SoundLeaf(at) /\ at \in LeafBlocks /\ EntryCount = inode.blocks[at].count
           /\ EntryCount \in Nat /\ entry <= EntryCount + 1
           /\ out \o (LeafLeft(at, entry) \o BlocksLeft(next, b)) = AttrListing
<1>1. pc \in {"leaf", "value"}
  BY DEF InLoops
<1>2. /\ inode.forkoff # 0 /\ inode.aformat = 2
      /\ SoundLeaf(at) /\ out \o (LeafLeft(at, entry) \o BlocksLeft(next, b)) = AttrListing
  BY <1>1 DEF AttrsInv, Exact
<1>3. /\ inode \in Inodes /\ at \in 0..(ImageBlocks - 1) /\ entry \in Nat \ {0}
      /\ EntryCount \in Nat /\ entry <= EntryCount + 1 /\ IsLeaf(at)
  BY InLeafFacts
<1>4. at \in LeafBlocks /\ EntryCount = inode.blocks[at].count
  BY <1>2, <1>3, SoundLeafFacts
<1>5. LeafLeft(at, entry) \in Seq(All)
  BY <1>3, <1>4, LeafLeftFacts
<1>6. out \in Seq(All) /\ BlocksLeft(next, b) \in Seq(All)
  BY <1>1, MapState
<1> QED
  BY <1>2, <1>3, <1>4, <1>5, <1>6

(* The entry that is listed was the next of those left. *)
LEMMA ListOne ==
    ASSUME Inv, AttrsInv, InLoops, SoundAttrs, entry <= EntryCount,
           out' = Append(out, Listed(at, entry))
    PROVE  out' \o (LeafLeft(at, entry + 1) \o BlocksLeft(next, b)) = AttrListing
<1> DEFINE x == Listed(at, entry)
           s == LeafLeft(at, entry)
           t == LeafLeft(at, entry + 1)
           left == BlocksLeft(next, b)
<1>1. /\ inode \in Inodes /\ at \in LeafBlocks /\ entry \in Nat \ {0}
      /\ EntryCount = inode.blocks[at].count
      /\ out \in Seq(All) /\ left \in Seq(All) /\ out \o (s \o left) = AttrListing
  BY LeafState
<1>2. x \in All /\ s = <<x>> \o t
  BY <1>1, LeafLeftFacts
<1>3. t \in Seq(All)
  <2>1. entry + 1 \in Nat \ {0}
    BY <1>1
  <2> QED
    BY <1>1, <2>1, LeafLeftFacts
<1> HIDE DEF x, s, t, left, All
<1>4. <<x>> \in Seq(All)
  BY <1>2
<1>5. (<<x>> \o t) \o left = <<x>> \o (t \o left)
  BY ONLY <1>1, <1>3, <1>4, ConcatAssociative
<1>6. t \o left \in Seq(All)
  BY ONLY <1>1, <1>3, ConcatProperties
<1>7. (out \o <<x>>) \o (t \o left) = out \o (<<x>> \o (t \o left))
  BY ONLY <1>1, <1>4, <1>6, ConcatAssociative
<1>8. Append(out, x) = out \o <<x>>
  BY ONLY <1>1, <1>2, AppendIsConcat
<1>9. out' \o (t \o left) = AttrListing
  <2>1. out' = Append(out, x)
    BY DEF x
  <2> QED
    BY <1>1, <1>2, <1>5, <1>7, <1>8, <2>1
<1> QED
  BY <1>9 DEF t, left

(* In a leaf the invariant asks for what is left of it, and for the value  *)
(* that is read.                                                           *)
LEMMA StayInLeaf ==
    ASSUME Inv, AttrsInv, UNCHANGED <<inode, at, next, b>>, InLoops, pc' \in {"leaf", "value"},
           SoundAttrs =>
              /\ out' \o (LeafLeft(at, entry') \o BlocksLeft(next, b)) = AttrListing
              /\ pc' = "value" => \E m \in Nat : ValueExact(Remote, at, m)'
    PROVE  AttrsInv'
<1>1. inode.forkoff # 0 /\ inode.aformat = 2
  BY DEF AttrsInv, InLoops
<1>2. SoundAttrs => SoundLeaf(at)
  BY DEF AttrsInv, Exact
<1>3. SoundAttrs => Exact'
  BY <1>2, SameFork DEF Exact
<1> QED
  BY <1>1, <1>3, SameFork DEF AttrsInv

(* parse_leaf_block skips no entry of a sound leaf, and ends when none is  *)
(* left.                                                                   *)
LEMMA LeafAttrs ==
    ASSUME Inv, AttrsInv, SkipEntry \/ TakeLocal \/ EndLeaf
    PROVE  AttrsInv'
<1>1. InLoops /\ pc = "leaf" /\ UNCHANGED <<inode, at, next, b>>
  BY DEF SkipEntry, TakeLocal, EndLeaf, InLeaf, InLoops
<1>2. CASE SkipEntry
  <2>1. ~SoundAttrs
    <3> SUFFICES ASSUME SoundAttrs PROVE FALSE
      OBVIOUS
    <3>1. entry <= EntryCount /\ (IF IsLocal THEN ~LocalFits ELSE ~RemoteFits)
      BY <1>2 DEF SkipEntry, InLeaf
    <3>2. inode \in Inodes /\ at \in 0..(ImageBlocks - 1) /\ IsLeaf(at) /\ SoundLeaf(at)
          /\ entry \in Nat \ {0}
      BY <1>1, LeafState, InLeafFacts
    <3> QED
      BY <3>1, <3>2, SoundLeafFacts
  <2>2. pc' = "leaf"
    BY <1>1, <1>2 DEF SkipEntry
  <2> QED
    BY <1>1, <2>1, <2>2, StayInLeaf
<1>3. CASE TakeLocal
  <2> DEFINE a == Xattr(P(at, Cur.nameidx + 3, Local.namelen), Cur.flags,
                        <<P(at, Cur.nameidx + 3 + Local.namelen, Local.valuelen)>>,
                        <<"LeafLocal">>)
  <2>1. /\ pc' = "leaf" /\ entry' = entry + 1 /\ out' = Append(out, a)
        /\ entry <= EntryCount /\ IsLocal
    BY <1>1, <1>3 DEF TakeLocal, InLeaf
  <2>2. ASSUME SoundAttrs PROVE out' \o (LeafLeft(at, entry + 1) \o BlocksLeft(next, b)) = AttrListing
    <3>1. inode \in Inodes /\ at \in 0..(ImageBlocks - 1) /\ IsLeaf(at) /\ SoundLeaf(at)
          /\ entry \in Nat \ {0}
      BY <1>1, <2>2, LeafState, InLeafFacts
    <3>2. /\ Cur = inode.blocks[at].entries[entry] /\ Local = RecordOf(at, entry).local
          /\ LocalEntry(at, entry)
      BY <2>1, <3>1, SoundLeafFacts
    <3>3. a = Listed(at, entry)
      BY <3>2, Zenon DEF Xattr, Listed, FromFlags, NamespaceOf
    <3> HIDE DEF a
    <3> QED
      BY <1>1, <2>1, <2>2, <3>3, ListOne
  <2> QED
    BY <1>1, <2>1, <2>2, StayInLeaf
<1>4. CASE EndLeaf
  <2>1. pc' = "extents" /\ entry > EntryCount /\ out' = out
    BY <1>4 DEF EndLeaf
  <2>2. ASSUME SoundAttrs PROVE out \o BlocksLeft(next, b) = AttrListing
    <3>1. /\ inode \in Inodes /\ at \in LeafBlocks /\ entry \in Nat \ {0}
          /\ EntryCount = inode.blocks[at].count
          /\ out \in Seq(All) /\ BlocksLeft(next, b) \in Seq(All)
          /\ out \o (LeafLeft(at, entry) \o BlocksLeft(next, b)) = AttrListing
      BY <1>1, <2>2, LeafState
    <3>2. LeafLeft(at, entry) = <<>>
      BY <2>1, <3>1, LeafLeftFacts
    <3>3. LeafLeft(at, entry) \o BlocksLeft(next, b) = BlocksLeft(next, b)
      BY <3>1, <3>2, EmptyLeft
    <3> QED
      BY <3>1, <3>3
  <2>3. inode.forkoff # 0 /\ inode.aformat = 2
    BY <1>1 DEF AttrsInv
  <2> QED
    BY <1>1, <2>1, <2>2, <2>3, SameFork DEF AttrsInv, Exact, InLoops
<1> QED
  BY <1>2, <1>3, <1>4

(* The value of an entry of a sound leaf, as far as it is read.            *)
LEMMA ValueState ==
    ASSUME Inv, AttrsInv, SoundAttrs, InLoops, entry <= EntryCount, ~IsLocal
    PROVE  LET rec == Remote
               room == RoomOf(at)
               full == ValueBlocks(rec.valuelen, room)
           IN  /\ Cur = inode.blocks[at].entries[entry] /\ rec = RecordOf(at, entry).remote
               /\ ~LocalEntry(at, entry) /\ ValueLies(rec, at)
               /\ rec.valuelen \in Nat /\ rec.valueblk \in Nat
               /\ room \in Nat \ {0} /\ Payload = room /\ BodyOff = BlockSize - room
               /\ full \in Nat /\ \A m \in Nat : m < full <=> m * room < rec.valuelen
<1>1. /\ inode \in Inodes /\ at \in 0..(ImageBlocks - 1) /\ IsLeaf(at) /\ SoundLeaf(at)
      /\ entry \in Nat \ {0} /\ EntryCount \in Nat
  BY LeafState, InLeafFacts
<1>2. /\ Cur = inode.blocks[at].entries[entry] /\ Remote = RecordOf(at, entry).remote
      /\ ~LocalEntry(at, entry) /\ ValueLies(Remote, at)
  BY <1>1, SoundLeafFacts
<1>3. Remote.valuelen \in Nat /\ Remote.valueblk \in Nat
  BY <1>1, CurFacts
<1>4. EntryCount > 0
  BY <1>1
<1>5. RoomOf(at) \in Nat \ {0} /\ Payload = RoomOf(at) /\ BodyOff = BlockSize - RoomOf(at)
  BY <1>1, <1>4, RoomFacts
<1> DEFINE len == Remote.valuelen
           room == RoomOf(at)
<1>6. len \in Nat /\ room \in Nat \ {0}
  BY <1>3, <1>5
<1> HIDE DEF len, room
<1>7. /\ ValueBlocks(len, room) \in Nat
      /\ \A m \in Nat : m < ValueBlocks(len, room) <=> m * room < len
  BY <1>6, ValueUnits
<1> QED
  BY <1>2, <1>3, <1>5, <1>7 DEF len, room

(* read_remote_value begins. *)
LEMMA BeginAttrs ==
    ASSUME Inv, AttrsInv, BeginValue
    PROVE  AttrsInv'
<1>1. /\ InLoops /\ pc = "leaf" /\ pc' = "value" /\ UNCHANGED <<inode, at, next, b, entry, out>>
      /\ entry <= EntryCount /\ ~IsLocal
      /\ logical' = Remote.valueblk /\ value' = <<>> /\ have' = 0
  BY DEF BeginValue, InLeaf, InLoops
<1>2. ASSUME SoundAttrs PROVE \E m \in Nat : ValueExact(Remote, at, m)'
  <2> DEFINE rec == Remote
             room == RoomOf(at)
             full == ValueBlocks(rec.valuelen, room)
  <2>1. /\ rec.valuelen \in Nat /\ rec.valueblk \in Nat /\ room \in Nat \ {0}
        /\ full \in Nat /\ \A m \in Nat : m < full <=> m * room < rec.valuelen
    BY <1>1, <1>2, ValueState
  <2>2. Remote' = Remote /\ RoomOf(at)' = RoomOf(at)
    BY <1>1, SameLeaf, SameFork
  <2>3. Pieces(rec, at, 0) = <<>>
    BY DEF Pieces
  <2>4. 0 <= full /\ logical' = rec.valueblk + 0 /\ 0 \in Nat
        /\ have' = IF 0 < full THEN 0 * room ELSE rec.valuelen
    <3> DEFINE l == rec.valuelen
               v == rec.valueblk
    <3>1. l \in Nat /\ v \in Nat /\ room \in Nat /\ full \in Nat /\ (0 < full <=> 0 * room < l)
          /\ logical' = v /\ have' = 0
      BY <1>1, <2>1
    <3> HIDE DEF l, v, room, full
    <3>2. 0 <= full /\ logical' = v + 0 /\ have' = IF 0 < full THEN 0 * room ELSE l
      BY ONLY <3>1
    <3> QED
      BY <3>2 DEF l, v
  <2>5. ValueExact(Remote, at, 0)'
    <3>1. Pieces(Remote, at, 0)' = <<>>
      BY DEF Pieces
    <3> QED
      BY <1>1, <2>2, <2>4, <3>1 DEF ValueExact, ValueBlocks
  <2> QED
    BY <2>4, <2>5
<1>3. ASSUME SoundAttrs
      PROVE  out' \o (LeafLeft(at, entry') \o BlocksLeft(next, b)) = AttrListing
  BY <1>1, <1>3, LeafState
<1> QED
  BY <1>1, <1>2, <1>3, StayInLeaf

(* While a value is not whole its next block can be read, at the one place *)
(* its number is mapped to.                                                *)
LEMMA ValueNext ==
    ASSUME Inv, AttrsInv, SoundAttrs, pc = "value", NEW m \in Nat, ValueExact(Remote, at, m)
    PROVE  /\ MoreValue <=> m < ValueBlocks(Remote.valuelen, RoomOf(at))
           /\ MoreValue => MapLogical(logical)
                              = CHOOSE p \in Places(Remote.valueblk + (m + 1) - 1) : TRUE
<1> DEFINE rec == Remote
           room == RoomOf(at)
           full == ValueBlocks(rec.valuelen, room)
           len == rec.valuelen
<1>1. InLoops /\ entry <= EntryCount /\ ~IsLocal /\ inode \in Inodes
  BY DEF InLoops, Inv, Place
<1>2. /\ ValueLies(rec, at) /\ len \in Nat /\ rec.valueblk \in Nat
      /\ room \in Nat \ {0} /\ Payload = room
      /\ full \in Nat /\ \A i \in Nat : i < full <=> i * room < len
  BY <1>1, ValueState
<1>3. m <= full /\ logical = rec.valueblk + m /\ have = IF m < full THEN m * room ELSE len
  BY DEF ValueExact
<1>4. ASSUME m < full
      PROVE  MoreValue /\ MapLogical(logical) = CHOOSE p \in Places(rec.valueblk + (m + 1) - 1) : TRUE
  <2>1. m + 1 \in 1..full /\ rec.valueblk + (m + 1) - 1 = logical /\ logical \in Nat
    <3> DEFINE v == rec.valueblk
    <3>1. v \in Nat /\ full \in Nat /\ m \in Nat /\ m < full /\ logical = v + m
      BY <1>2, <1>3, <1>4
    <3> HIDE DEF v, full
    <3>2. m + 1 \in 1..full /\ v + (m + 1) - 1 = logical /\ logical \in Nat
      BY ONLY <3>1
    <3> QED
      BY <3>2 DEF v
  <2>2. PICK p \in 0..(ImageBlocks - 1) : Places(logical) = {p} /\ (IsV5(at) => inode.blocks[p].rmt)
    <3>1. \A j \in 1..full :
             \E p \in 0..(ImageBlocks - 1) :
                /\ Places(rec.valueblk + j - 1) = {p}
                /\ IsV5(at) => inode.blocks[p].rmt
      BY <1>2 DEF ValueLies
    <3> HIDE DEF full
    <3> QED
      BY <2>1, <3>1
  <2>3. Mapped(logical) /\ MapLogical(logical) = p
    BY <1>1, <2>1, <2>2, MapFacts
  <2>4. IsValueBlock(p)
    BY <2>2 DEF IsValueBlock, InImage, V5, IsV5, Leaf
  <2>5. have < len
    BY <1>2, <1>3, <1>4
  <2>6. len <= MAX_VALUE_LEN /\ Payload > 0
    BY <1>2 DEF ValueLies
  <2>7. MoreValue
    BY <2>3, <2>4, <2>5, <2>6 DEF MoreValue
  <2>8. MapLogical(logical) = CHOOSE q \in Places(logical) : TRUE
    BY <2>2, <2>3
  <2> QED
    BY <2>1, <2>7, <2>8
<1>5. ASSUME ~(m < full) PROVE ~MoreValue
  <2>1. have = len
    BY <1>3, <1>5
  <2>2. ~(have < len)
    <3> HIDE DEF len
    <3> QED
      BY <1>2, <2>1
  <2> QED
    BY <2>2 DEF MoreValue
<1> QED
  BY <1>4, <1>5

(* The block that is read is the next piece of the value.                  *)
LEMMA ReadAttrs ==
    ASSUME Inv, AttrsInv, ReadValueBlock
    PROVE  AttrsInv'
<1>0. PICK want : want = AtMost(Remote.valuelen - have, Payload)
  OBVIOUS
<1> DEFINE x == P(MapLogical(logical), BodyOff, want)
<1>1. /\ pc = "value" /\ pc' = "value" /\ InLoops /\ MoreValue
      /\ UNCHANGED <<inode, at, next, b, entry, out>>
      /\ value' = Append(value, x) /\ have' = have + want /\ logical' = logical + 1
  BY <1>0 DEF ReadValueBlock, InLoops
<1>2. ASSUME SoundAttrs PROVE \E m \in Nat : ValueExact(Remote, at, m)'
  <2> DEFINE rec == Remote
             room == RoomOf(at)
             full == ValueBlocks(rec.valuelen, room)
             len == rec.valuelen
             v == rec.valueblk
  <2>1. PICK m \in Nat : ValueExact(rec, at, m)
    BY <1>1, <1>2 DEF AttrsInv, Exact
  <2>2. entry <= EntryCount /\ ~IsLocal /\ value \in Seq(Piece)
    BY <1>1 DEF Inv, Place, TypeOK
  <2>3. /\ len \in Nat /\ v \in Nat
        /\ room \in Nat \ {0} /\ Payload = room /\ BodyOff = BlockSize - room
        /\ full \in Nat /\ \A i \in Nat : i < full <=> i * room < len
    BY <1>1, <1>2, <2>2, ValueState
  <2>4. m < full /\ MapLogical(logical) = CHOOSE p \in Places(v + (m + 1) - 1) : TRUE
    BY <1>1, <1>2, <2>1, ValueNext
  <2>5. /\ value = Pieces(rec, at, m) /\ logical = v + m
        /\ have = m * room
    BY <2>1, <2>4 DEF ValueExact
  <2>6. /\ want = IF m + 1 < full THEN room ELSE len - m * room
        /\ have' = IF m + 1 < full THEN (m + 1) * room ELSE len
        /\ m + 1 <= full /\ logical' = v + (m + 1)
    <3> DEFINE mr == m * room
               mr1 == (m + 1) * room
    <3>1. mr \in Nat /\ mr1 = mr + room
      <4> HIDE DEF room
      <4> QED
        BY <2>3
    <3>2. (m + 1 < full <=> mr1 < len) /\ mr < len
      BY <2>3, <2>4
    <3>3. want = AtMost(len - mr, room) /\ have' = mr + want /\ logical' = v + m + 1
      BY <1>0, <1>1, <2>3, <2>5
    <3>4. room \in Nat \ {0} /\ len \in Nat /\ full \in Nat /\ v \in Nat /\ m < full
      BY <2>3, <2>4
    <3> HIDE DEF mr, mr1, room, len, full, v
    <3>5. CASE m + 1 < full
      <4>1. mr + room < len
        BY <3>1, <3>2, <3>5
      <4>2. want = room
        BY ONLY <3>1, <3>3, <3>4, <4>1 DEF AtMost
      <4>3. have' = mr1 /\ m + 1 <= full /\ logical' = v + (m + 1)
        BY ONLY <3>1, <3>3, <3>4, <4>2
      <4> QED
        BY <3>5, <4>2, <4>3 DEF mr1
    <3>6. CASE ~(m + 1 < full)
      <4>1. ~(mr + room < len) /\ mr < len
        BY <3>1, <3>2, <3>6
      <4>2. want = len - mr
        BY ONLY <3>1, <3>3, <3>4, <4>1 DEF AtMost
      <4>3. have' = len /\ m + 1 <= full /\ logical' = v + (m + 1)
        BY ONLY <3>1, <3>3, <3>4, <4>2
      <4> QED
        BY <3>6, <4>2, <4>3 DEF mr
    <3>7. mr = m * room /\ mr1 = (m + 1) * room
      BY DEF mr, mr1
    <3> QED
      BY <3>5, <3>6, <3>7
  <2>7. x = ValuePiece(rec, at, m + 1)
    <3>1. (m + 1) - 1 = m
      OBVIOUS
    <3> HIDE DEF rec
    <3> QED
      BY <2>3, <2>4, <2>6, <3>1 DEF ValuePiece
  <2>8. value' = Pieces(rec, at, m + 1)
    <3> DEFINE V(j) == ValuePiece(rec, at, j)
    <3>1. value = [j \in 1..m |-> V(j)] /\ Pieces(rec, at, m + 1) = [j \in 1..(m + 1) |-> V(j)]
      BY <2>5 DEF Pieces
    <3>2. value' = Append(value, V(m + 1))
      BY <1>1, <2>7
    <3> HIDE DEF V
    <3>3. Len(value) = m /\ m \in Nat
      BY <3>1
    <3>4. \A j \in 1..m : value[j] = V(j)
      BY <3>1
    <3>5. V(m + 1) \in Piece \cup {V(m + 1)} /\ value \in Seq(Piece \cup {V(m + 1)})
      BY <2>2
    <3> DEFINE u == Append(value, V(m + 1))
    <3>6. /\ u \in Seq(Piece \cup {V(m + 1)}) /\ Len(u) = m + 1
          /\ \A j \in 1..m : u[j] = value[j]
          /\ u[m + 1] = V(m + 1)
      BY ONLY <3>3, <3>5, AppendProperties
    <3> HIDE DEF u
    <3>7. \A j \in 1..(m + 1) : u[j] = V(j)
      <4>1. \A j \in 1..(m + 1) : j \in 1..m \/ j = m + 1
        BY <3>3
      <4> QED
        BY <3>4, <3>6, <4>1
    <3>8. u = [j \in 1..(m + 1) |-> V(j)]
      BY <3>6, <3>7
    <3> QED
      BY <3>1, <3>2, <3>8 DEF u
  <2>9. Remote' = Remote /\ RoomOf(at)' = RoomOf(at) /\ \A r, i : Pieces(r, at, i)' = Pieces(r, at, i)
    BY <1>1, SameLeaf, SameFork
  <2>10. ValueExact(Remote, at, m + 1)'
    <3>1. RoomOf(at)' = RoomOf(at) /\ \A l : Places(l)' = Places(l)
      BY <1>1, SameInode, SameFork
    <3>2. Pieces(Remote, at, m + 1)' = Pieces(rec, at, m + 1)
      BY <1>1, <2>9, <3>1, Zenon DEF Pieces, ValuePiece, P, ValueBlocks
    <3> QED
      BY <1>1, <2>6, <2>8, <2>9, <3>1, <3>2 DEF ValueExact, ValueBlocks
  <2>11. m + 1 \in Nat
    OBVIOUS
  <2> QED
    BY <2>10, <2>11
<1>3. ASSUME SoundAttrs
      PROVE  out' \o (LeafLeft(at, entry') \o BlocksLeft(next, b)) = AttrListing
  BY <1>1, <1>3, LeafState
<1> QED
  BY <1>1, <1>2, <1>3, StayInLeaf

(* Of a sound fork a value is only ever listed whole.                      *)
LEMMA EndAttrs ==
    ASSUME Inv, AttrsInv, EndValue
    PROVE  AttrsInv'
<1> DEFINE a == Xattr(P(at, Cur.nameidx + 9, Remote.namelen), Cur.flags, value,
                      <<"LeafRemote", Remote.valueblk>>)
<1>1. /\ pc = "value" /\ pc' = "leaf" /\ InLoops /\ ~MoreValue
      /\ UNCHANGED <<inode, at, next, b>>
      /\ out' = Append(out, a) /\ entry' = entry + 1
  BY DEF EndValue, InLoops
<1>2. ASSUME SoundAttrs
      PROVE  out' \o (LeafLeft(at, entry + 1) \o BlocksLeft(next, b)) = AttrListing
  <2> DEFINE rec == Remote
             full == ValueBlocks(rec.valuelen, RoomOf(at))
  <2>1. PICK m \in Nat : ValueExact(rec, at, m)
    BY <1>1, <1>2 DEF AttrsInv, Exact
  <2>2. entry <= EntryCount /\ ~IsLocal
    BY <1>1 DEF Inv, Place
  <2>3. /\ Cur = inode.blocks[at].entries[entry] /\ rec = RecordOf(at, entry).remote
        /\ ~LocalEntry(at, entry) /\ full \in Nat
    BY <1>1, <1>2, <2>2, ValueState
  <2>4. ~(m < full)
    BY <1>1, <1>2, <2>1, ValueNext
  <2>5. m = full
    <3>1. m <= full
      BY <2>1 DEF ValueExact
    <3> HIDE DEF full
    <3> QED
      BY <2>3, <2>4, <3>1
  <2>6. value = [j \in 1..full |-> ValuePiece(rec, at, j)]
    BY <2>1, <2>5 DEF ValueExact, Pieces
  <2>7. a = Listed(at, entry)
    BY <2>3, <2>6, Zenon DEF Xattr, Listed, FromFlags, NamespaceOf
  <2> HIDE DEF a
  <2> QED
    BY <1>1, <1>2, <2>2, <2>7, ListOne
<1> QED
  BY <1>1, <1>2, StayInLeaf

(* The invariant holds of every behaviour. *)
LEMMA AttrsInvHolds == Spec => [](Inv /\ AttrsInv)
<1>1. Init => AttrsInv
  BY DEF Init, AttrsInv, Exact, InLoops
<1>2. Inv /\ AttrsInv /\ [Next]_vars => AttrsInv'
  <2> SUFFICES ASSUME Inv, AttrsInv, [Next]_vars PROVE AttrsInv'
    OBVIOUS
  <2>1. CASE NoAttributes \/ RefuseFormat \/ StartShort \/ StartLeafFork
    BY <2>1, StartAttrs
  <2>2. CASE TakeShort \/ EndShort
    BY <2>2, ShortAttrs
  <2>3. CASE NextExtent \/ SkipBlock \/ EndExtents
    BY <2>3, SkipAttrs
  <2>4. CASE EnterLeaf
    BY <2>4, EnterAttrs
  <2>5. CASE SkipEntry \/ TakeLocal \/ EndLeaf
    BY <2>5, LeafAttrs
  <2>6. CASE BeginValue
    BY <2>6, BeginAttrs
  <2>7. CASE ReadValueBlock
    BY <2>7, ReadAttrs
  <2>8. CASE EndValue
    BY <2>8, EndAttrs
  <2>9. CASE UNCHANGED vars
    <3>1. UNCHANGED <<inode, pc, next, b, at, entry, off, logical, value, have, out>>
      BY <2>9 DEF vars
    <3>2. Remote' = Remote
      BY <3>1, SameLeaf
    <3>3. \A m : ValueExact(Remote, at, m)' <=> ValueExact(Remote, at, m)
      BY <3>1, <3>2, SameFork DEF ValueExact, ValueBlocks, Pieces
    <3>4. Exact => Exact'
      BY <3>1, <3>3, SameFork DEF Exact, InLoops
    <3> QED
      BY <3>1, <3>4, SameFork DEF AttrsInv
  <2> QED
    BY <2>1, <2>2, <2>3, <2>4, <2>5, <2>6, <2>7, <2>8, <2>9 DEF Next
<1> QED
  BY <1>1, <1>2, InvHolds, PTL DEF Spec

(* A sound attribute fork is listed exactly, short-form, in leaves or with *)
(* values in blocks of their own, for every block size, image and map      *)
(* (xattr.rs:201-231).                                                     *)
THEOREM AttributesAlwaysListed == Spec => []ListsTheAttributes
<1>1. Inv /\ AttrsInv => ListsTheAttributes
  <2> SUFFICES ASSUME Inv, AttrsInv PROVE ListsTheAttributes
    OBVIOUS
  <2>1. pc = "returned" => inode.aformat \in 0..2 \/ inode.forkoff = 0
    BY DEF AttrsInv
  <2>2. ASSUME SoundAttrs
        PROVE  IsPrefix(out, AttrListing) /\ (Returned => pc = "returned" /\ out = AttrListing)
    <3>1. /\ inode \in Inodes /\ Exact /\ out \in Seq(All)
          /\ pc \in {"called", "short", "extents", "leaf", "value", "returned"}
      BY <2>2, OutType DEF Inv, TypeOK, AttrsInv, Exact
    <3>2. Returned => pc = "returned" /\ out = AttrListing
      BY <3>1 DEF Exact, Returned
    <3>3. ASSUME NEW s \in Seq(All), out \o s = AttrListing PROVE IsPrefix(out, AttrListing)
      <4> HIDE DEF All
      <4>1. IsPrefix(out, out \o s)
        BY <3>1, <3>3, PrefixOfConcat
      <4> QED
        BY <3>3, <4>1
    <3> SUFFICES IsPrefix(out, AttrListing)
      BY <3>2
    <3>4. CASE pc = "called"
      <4>1. out = <<>> /\ AttrListing \in Seq(All)
        BY <2>2, <3>1, <3>4, ListingType DEF Inv, Place
      <4>2. out \o AttrListing = AttrListing
        BY <4>1, EmptyLeft
      <4> QED
        BY <3>3, <4>1, <4>2
    <3>5. CASE pc = "short"
      <4> DEFINE c == inode.short.count
      <4>1. inode.forkoff # 0 /\ inode.aformat = 1 /\ entry \in Nat \ {0} /\ entry <= c + 1
            /\ out = Shorts(entry - 1) /\ c \in Nat
        BY <3>1, <3>5, ShortFacts DEF Inv, TypeOK, AttrsInv, Exact
      <4>2. AttrListing = Shorts(c)
        BY <2>2, <3>1, <4>1, SoundCases
      <4> HIDE DEF c
      <4>3. entry - 1 \in 0..c
        BY <4>1
      <4> QED
        BY <4>1, <4>2, <4>3, ShortsFacts
    <3>6. CASE pc = "extents"
      BY <3>1, <3>3, <3>6, MapState DEF Exact
    <3>7. CASE InLoops
      <4> DEFINE l == LeafLeft(at, entry)
                 left == BlocksLeft(next, b)
      <4>1. l \in Seq(All) /\ left \in Seq(All) /\ out \o (l \o left) = AttrListing
        BY <2>2, <3>7, LeafState
      <4> HIDE DEF l, left, All
      <4>2. l \o left \in Seq(All)
        BY ONLY <4>1, ConcatProperties
      <4> QED
        BY <3>3, <4>1, <4>2
    <3>8. CASE pc = "returned"
      <4>1. out = AttrListing /\ out \o <<>> = out /\ <<>> \in Seq(All)
        BY <3>1, <3>8, EmptyLeft DEF Exact
      <4> QED
        BY <3>3, <4>1
    <3> QED
      BY <3>1, <3>2, <3>4, <3>5, <3>6, <3>7, <3>8 DEF InLoops
  <2> QED
    BY <2>1, <2>2 DEF ListsTheAttributes
<1> QED
  BY <1>1, AttrsInvHolds, PTL
=============================================================================
