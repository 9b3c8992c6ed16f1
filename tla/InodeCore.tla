----------------------------- MODULE InodeCore ------------------------------
(***************************************************************************)
(* Inode::parse: what an inode's bytes say (src/core/src/inode.rs).        *)
(*                                                                         *)
(* A field whose place depends on the version or on a feature is named by  *)
(* the place: be64_24, be32_76 and be16_80 are the big-endian words at     *)
(* these offsets, and `lit' is the literal area as it reads from either of *)
(* the two offsets it can begin at.                                        *)
(***************************************************************************)
EXTENDS Integers

CONSTANTS
    TWO_32,             \* 2^32: a timestamp is two such words
    NSEC_PER_SEC,
    V2_LITINO_OFFSET,   \* 100, also the least length of a v2 inode
    V3_LITINO_OFFSET    \* 176, also the least length of a v3 inode

ASSUME InodeAssumption ==
    /\ TWO_32 \in Nat \ {0} /\ TWO_32 % 2 = 0
    /\ NSEC_PER_SEC \in 1..(TWO_32 - 1)
    /\ V2_LITINO_OFFSET \in Nat /\ V3_LITINO_OFFSET \in Nat

Ok(result) == [err |-> "none", val |-> result]
Fail(error) == [err |-> error, val |-> <<>>]

FormatOf(byte) ==
    CASE byte = 0 -> "Dev" [] byte = 1 -> "Local" [] byte = 2 -> "Extents" [] byte = 3 -> "Btree"
      [] OTHER -> "Other"

(* FileType::from_mode: the type is the mode without its low twelve bits. *)
FromMode(mode) ==
    LET type == mode \div 4096
    IN  CASE type = 1 -> "Fifo" [] type = 2 -> "CharDevice" [] type = 4 -> "Directory"
          [] type = 6 -> "BlockDevice" [] type = 8 -> "Regular" [] type = 10 -> "Symlink"
          [] type = 12 -> "Socket" [] OTHER -> "Other"
-----------------------------------------------------------------------------
Signed32(word) == IF word < TWO_32 \div 2 THEN word ELSE word - TWO_32
FromLegacy(raw) == [secs |-> Signed32(raw \div TWO_32), nsecs |-> raw % TWO_32]
FromBigtime(raw) == [secs |-> raw \div NSEC_PER_SEC - TWO_32 \div 2, nsecs |-> raw % NSEC_PER_SEC]

IsV3(raw) == raw.version >= 3
BigtimeMut(raw) == FALSE  \* mutant: the flag is not looked at
Bigtime(raw) == IsV3(raw) /\ "BIGTIME" \in raw.flags2
Decode(raw, stamp) == IF Bigtime(raw) THEN FromBigtime(stamp) ELSE FromLegacy(stamp)

LitOffset(raw) == IF IsV3(raw) THEN V3_LITINO_OFFSET ELSE V2_LITINO_OFFSET

CountsMut(raw, nrext64) == [data |-> raw.be32_76, attr |-> raw.be16_80]  \* mutant: the old offsets
(* NREXT64 moves both extent counters. *)
Counts(raw, nrext64) ==
    IF nrext64 THEN [data |-> raw.be64_24, attr |-> raw.be32_76]
               ELSE [data |-> raw.be32_76, attr |-> raw.be16_80]

(* `have' is the length of the slice; an Option is a set of at most one.   *)
Parse(raw, nrext64, have) ==
    IF ~raw.magic THEN Fail("BadMagic")
    ELSE IF have < LitOffset(raw) THEN Fail("Truncated")
    ELSE Ok([mode |-> raw.mode, format |-> FormatOf(raw.format), size |-> raw.size,
             nextents |-> Counts(raw, nrext64).data, aextents |-> Counts(raw, nrext64).attr,
             forkoff |-> raw.forkoff, aformat |-> raw.aformat,
             atime |-> Decode(raw, raw.atime), mtime |-> Decode(raw, raw.mtime),
             ctime |-> Decode(raw, raw.ctime),
             crtime |-> IF IsV3(raw) THEN {Decode(raw, raw.crtime)} ELSE {},
             fork |-> raw.lit[LitOffset(raw)], fork_len |-> have - LitOffset(raw)])
=============================================================================
