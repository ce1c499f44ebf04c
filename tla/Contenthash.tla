------------------------------ MODULE Contenthash ------------------------------
(***************************************************************************)
(* The contenthash record of a name (src/ens.rs): a prefix that names a codec *)
(* as a varint, then the bytes of a CID.  A byte carries GroupBits bits and,    *)
(* above them, the flag that another one follows; the decoder accumulates     *)
(* the groups in an unsigned integer of Width bits.  In the code a group has 7 *)
(* bits and the integer 64; the definitions hold for any two widths, so that  *)
(* a small instance reaches the last group that still fits.                   *)
(***************************************************************************)
EXTENDS Integers, Sequences

CONSTANTS
    GroupBits,      \* bits of the value in one byte: 7
    Width,          \* bits of the accumulator: 64
    IPFS_CODEC,
    IPNS_CODEC,
    Cids            \* external: the byte sequences that are CIDs

(* The weight of bit n, a function that the proofs can unfold.                   *)
TwoTo[n \in Nat] == IF n = 0 THEN 1 ELSE 2 * TwoTo[n - 1]

ASSUME ContenthashAssumption ==
    /\ GroupBits \in Nat \ {0}
    /\ Width \in Nat /\ Width >= GroupBits
    /\ IPFS_CODEC \in 0..TwoTo[Width] - 1
    /\ IPNS_CODEC \in 0..TwoTo[Width] - 1 \ {IPFS_CODEC}

Continues(byte) == byte >= TwoTo[GroupBits]
LowBits(byte) == byte % TwoTo[GroupBits]

(* Mutant: the shift is compared with the width after the group is lost.       *)
AddGroupLate(acc, byte) ==
    IF acc.state # "reading" THEN acc
    ELSE LET read == [acc EXCEPT !.value = (@ + LowBits(byte) * TwoTo[acc.shift]) % TwoTo[Width],
                                 !.index = @ + 1]
         IN  IF ~Continues(byte) THEN [read EXCEPT !.state = "ended"]
             ELSE IF acc.shift > Width - 1 THEN [read EXCEPT !.state = "overlong"]
             ELSE [read EXCEPT !.shift = @ + GroupBits]

(* One turn of the loop.  The groups do not overlap, so that "or" adds; bits    *)
(* shifted past the width are lost.                                          *)
AddGroup(acc, byte) ==
    IF acc.state # "reading" THEN acc
    ELSE LET read == [acc EXCEPT !.value = (@ + LowBits(byte) * TwoTo[acc.shift]) % TwoTo[Width],
                                 !.index = @ + 1]
         IN  IF ~Continues(byte) THEN [read EXCEPT !.state = "ended"]
             ELSE IF acc.shift + GroupBits > Width - 1 THEN [read EXCEPT !.state = "overlong"]
             ELSE [read EXCEPT !.shift = @ + GroupBits]

Undecodable == [value |-> 0, index |-> 0]

BeforeLoop == [value |-> 0, shift |-> 0, index |-> 0, state |-> "reading"]

(* The accumulator after each turn.                                          *)
Turns(bytes) ==
    LET turn[i \in 0..Len(bytes)] == IF i = 0 THEN BeforeLoop ELSE AddGroup(turn[i - 1], bytes[i])
    IN  turn

(* A prefix must be followed by at least one byte.                             *)
decode_varint(bytes) ==
    LET end == Turns(bytes)[Len(bytes)]
    IN  IF end.state = "overlong" \/ end.index = 0 \/ end.index >= Len(bytes) THEN Undecodable
        ELSE [value |-> end.value, index |-> end.index]

NoContent == [protocol |-> "none", target |-> <<>>]
Contents == [protocol : {"ipfs", "ipns"}, target : Cids]

Record(kind) == [kind |-> kind, content |-> NoContent]
Supported(content) == [kind |-> "supported", content |-> content]
Records == {Record(k) : k \in {"missing", "unsupported", "invalid"}} \cup {Supported(c) : c \in Contents}

inspect_contenthash(bytes) ==
    LET prefix == decode_varint(bytes)
        payload == SubSeq(bytes, prefix.index + 1, Len(bytes))
    IN  IF bytes = <<>> THEN Record("missing")
        ELSE IF prefix = Undecodable THEN Record("invalid")
        ELSE IF prefix.value \notin {IPFS_CODEC, IPNS_CODEC} THEN Record("unsupported")
        ELSE IF payload \notin Cids THEN Record("invalid")
        ELSE Supported([protocol |-> IF prefix.value = IPFS_CODEC THEN "ipfs" ELSE "ipns",
                        target |-> payload])
================================================================================
