---------------------------- MODULE XattrReadMC -----------------------------
(***************************************************************************)
(* XattrRead on an image of four blocks of 128 bytes: a v5 leaf has 48     *)
(* bytes behind its header and a v5 value block carries 72, a v4 one 128.  *)
(* A leaf is made from a list of attributes, sound or hostile.             *)
(***************************************************************************)
EXTENDS XattrRead, TLC

L(namelen, valuelen, flags) ==
    [flags |-> {"LOCAL"} \cup flags, bytes |-> 3 + namelen + valuelen,
     name |-> [local |-> [valuelen |-> valuelen, namelen |-> namelen],
               remote |-> [valueblk |-> 65536 * valuelen + 256 * namelen + 97,
                           valuelen |-> 1633771873, namelen |-> 97]]]
R(namelen, valueblk, valuelen, flags) ==
    [flags |-> flags, bytes |-> 9 + namelen,
     name |-> [local |-> [valuelen |-> 0, namelen |-> 0],
               remote |-> [valueblk |-> valueblk, valuelen |-> valuelen, namelen |-> namelen]]]

(* Names are laid down from the end of the block towards its entries. *)
NameIdx(items, k) ==
    LET Place[j \in 0..Len(items)] == IF j = 0 THEN BlockSize ELSE Place[j - 1] - items[j].bytes
    IN  Place[k]
(* What the link and the magic at the start of a block read as. *)
Front0(leaf) == [local |-> [valuelen |-> 0, namelen |-> 0],
                 remote |-> [valueblk |-> 0, valuelen |-> 0,
                             namelen |-> IF leaf = "v5" THEN 59 ELSE 251]]
Made(leaf, items) ==
    [leaf |-> leaf, rmt |-> FALSE, count |-> Len(items),
     entries |-> [k \in DOMAIN items |-> [nameidx |-> NameIdx(items, k), flags |-> items[k].flags]],
     at |-> [o \in {0} \cup {NameIdx(items, k) : k \in DOMAIN items} |->
                IF o = 0 THEN Front0(leaf)
                ELSE items[CHOOSE k \in DOMAIN items : NameIdx(items, k) = o].name]]

Lists(leaf) ==
    LET p == IF leaf = "v5" THEN 72 ELSE 128
    IN  {<<L(2, 5, {"SECURE"}), R(1, 1, len, {})>> : len \in {0, p - 1, p, p + 1, 2 * p, 2 * p + 1, 250}}
        \cup {<<R(1, 2, p + 1, {"ROOT", "INCOMPLETE"}), R(1, 1, p, {})>>, <<L(1, 0, {"ROOT", "SECURE"})>>}
(* A count beyond the block, with entries that point to its links, to its  *)
(* uuid and past its end; names and values that run past the end.          *)
Hostile(leaf) ==
    LET Base(count, entries, places) ==
            [leaf |-> leaf, rmt |-> FALSE, count |-> count, entries |-> entries,
             at |-> [o \in {0} \cup DOMAIN places |-> IF o = 0 THEN Front0(leaf) ELSE places[o]]]
        En(nameidx, flags) == [nameidx |-> nameidx, flags |-> flags]
    IN  {Base(99, <<En(125, {"LOCAL"}), En(126, {"LOCAL"}), En(400, {}), En(119, {})>>, <<>>),
         Base(3, <<En(24, {"LOCAL"}), En(20, {"LOCAL"}), En(20, {})>>,
              (24 :> L(100, 1, {}).name) @@ (20 :> L(90, 20, {}).name))}

Value == [leaf |-> "none", rmt |-> TRUE, count |-> 0, entries |-> <<>>, at |-> <<>>]
Plain == [Value EXCEPT !.rmt = FALSE]

Ext(startoff, startblock, blockcount) ==
    [startoff |-> startoff, startblock |-> startblock, blockcount |-> blockcount]
MCRecs == {<<>>, <<Ext(0, 1, 3)>>, <<Ext(0, 1, 1), Ext(1, 3, 1), Ext(2, 2, 1)>>,
           <<Ext(0, 1, 1), Ext(2, 2, 2)>>, <<Ext(0, 1, 1), Ext(1, 9, 1), Ext(2, 3, 1)>>,
           <<Ext(0, 1, 1), Ext(1, 1, 1), Ext(2, 2, 1)>>, <<Ext(0, 1, 2), Ext(1, 3, 1)>>,
           <<Ext(4, 0, 1), Ext(0, 1, 2), Ext(2, 3, 2)>>}
NoShort == [count |-> 0, items |-> <<>>]
Item(namelen, valuelen, flags) == [namelen |-> namelen, valuelen |-> valuelen, flags |-> flags]
MCShorts ==
    {[count |-> n, items |-> <<Item(1, 2, {"ROOT"}), Item(3, 0, f), Item(0, 1, {})>>] :
        n \in 0..3, f \in {{}, {"INCOMPLETE"}}}
    \cup {[count |-> 2, items |-> <<Item(200, 1, {}), Item(1, 200, {})>>]}

LeafFork(forkoff, aextents, recs, blocks) ==
    [litlen |-> 336, forkoff |-> forkoff, aformat |-> 2, aextents |-> aextents,
     short |-> NoShort, recs |-> recs, blocks |-> blocks]
Blank == [n \in 0..3 |-> Plain]
Images(leaf) ==
    {0 :> zero @@ 1 :> one @@ 2 :> two @@ 3 :> three :
        zero \in {Plain, Made(leaf, <<L(2, 1, {}), R(2, 3, 60, {})>>)},
        one \in {Made(leaf, s) : s \in Lists(leaf)} \cup Hostile(leaf),
        two \in {Value, Plain}, three \in {Value, Plain, Made("v4", <<L(1, 0, {"ROOT", "SECURE"})>>)}}
MCInodes == UNION {
    {LeafFork(30, Len(recs), recs, image) : recs \in MCRecs, image \in Images("v5") \cup Images("v4")},
    {LeafFork(forkoff, aextents, <<Ext(0, 1, 1), Ext(1, 2, 2)>>, image) :
        forkoff \in {0, 30, 40, 50}, aextents \in 1..2, image \in Images("v5")},
    {[litlen |-> litlen, forkoff |-> forkoff, aformat |-> aformat, aextents |-> 0,
      short |-> short, recs |-> <<>>, blocks |-> Blank] :
        litlen \in {321, 325, 331, 332, 335, 336, 341}, forkoff \in {0, 40, 99},
        aformat \in 0..4, short \in MCShorts}}
=============================================================================
