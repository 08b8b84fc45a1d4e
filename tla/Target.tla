------------------------------- MODULE Target -------------------------------
(***************************************************************************)
(* The proof-of-work target on its way around: the node expands the tip's  *)
(* compact bits into a template's target (next_work_target), the miner     *)
(* compacts the target again for the header it mines (target_to_bits), and *)
(* check_pow expands those bits to judge the block, whose bits the next    *)
(* template starts from. The bits of a header are never compared with the  *)
(* tip's, so whatever drifts here drifts in the chain.                     *)
(*                                                                         *)
(* A target has Length bytes (32), a byte has Radix values (256).          *)
(***************************************************************************)
EXTENDS Naturals

CONSTANTS Length, Radix

ASSUME SizeAssumption ==
    /\ Length \in Nat \ 0 .. 3
    /\ Radix \in Nat \ 0 .. 1
    /\ Radix % 2 = 0

VARIABLES
    at,     \* "foreign": a template from elsewhere, with any target;
            \* "template": one this node made; "header": a mined header
    target, \* the target of the template
    bits    \* the bits of the header, as [exponent, mantissa]

targetVars == <<at, target, bits>>
-----------------------------------------------------------------------------
Byte == 0 .. Radix - 1
SignBit == Radix \div 2

Targets == [1 .. Length -> Byte]
Bits == [exponent : 0 .. Length + 1, mantissa : [1 .. 3 -> Byte]]

Zero == [i \in 1 .. Length |-> 0]

(* MAX_TARGET_BITS: 0x1f00ffff                                             *)
MaxBits == [exponent |-> Length - 1, mantissa |-> <<0, Radix - 1, Radix - 1>>]

(* difficulty::compact_to_target, as the set of its results: empty on      *)
(* InvalidCompactBits. The sign bit of the mantissa is masked.             *)
compact_to_target(b) ==
    LET m == [b.mantissa EXCEPT ![1] = @ % SignBit]
        shift_index == Length - b.exponent
    IN  IF b.exponent > Length \/ (b.exponent < 3 /\ m # <<0, 0, 0>>) THEN {}
        ELSE IF b.exponent = 0 THEN {Zero}
        ELSE IF shift_index + 3 > Length THEN {}
        ELSE {[i \in 1 .. Length |->
                  IF i - shift_index \in 1 .. 3 THEN m[i - shift_index] ELSE 0]}

(* The index of the first byte of the mantissa, and the exponent, before   *)
(* normalisation: at least three bytes are taken.                          *)
Leading(t) == CHOOSE i \in DOMAIN t : t[i] # 0 /\ \A j \in 1 .. i - 1 : t[j] = 0

Start(t) == IF Leading(t) > Length - 2 THEN Length - 2 ELSE Leading(t)

Raw(t) ==
    [exponent |-> Length + 1 - Start(t),
     mantissa |-> <<t[Start(t)], t[Start(t) + 1], t[Start(t) + 2]>>]

(* The mantissa moves one byte to the right.                               *)
Shifted(b) ==
    [exponent |-> b.exponent + 1, mantissa |-> <<0, b.mantissa[1], b.mantissa[2]>>]

(* Mutants: the sign bit is left in the mantissa; it is moved out of the   *)
(* way at the top of the range too; the exponent moves, the mantissa does  *)
(* not.                                                                    *)
target_to_bits_signed(t) ==
    IF t = Zero THEN [exponent |-> 0, mantissa |-> <<0, 0, 0>>] ELSE Raw(t)

target_to_bits_unbounded(t) ==
    IF t = Zero THEN [exponent |-> 0, mantissa |-> <<0, 0, 0>>]
    ELSE IF Raw(t).mantissa[1] >= SignBit THEN Shifted(Raw(t))
    ELSE Raw(t)

target_to_bits_unshifted(t) ==
    IF t = Zero THEN [exponent |-> 0, mantissa |-> <<0, 0, 0>>]
    ELSE IF Raw(t).mantissa[1] >= SignBit /\ Raw(t).exponent < Length
    THEN [Raw(t) EXCEPT !.exponent = @ + 1]
    ELSE Raw(t)

(* engine::target_to_bits                                                  *)
target_to_bits(t) ==
    IF t = Zero THEN [exponent |-> 0, mantissa |-> <<0, 0, 0>>]
    ELSE IF Raw(t).mantissa[1] >= SignBit /\ Raw(t).exponent < Length
    THEN Shifted(Raw(t))
    ELSE Raw(t)

(* AurionNodeService::next_work_target                                     *)
next_work_target(b) ==
    IF compact_to_target(b) = {} THEN compact_to_target(MaxBits) ELSE compact_to_target(b)
-----------------------------------------------------------------------------
(* Any template a miner may be given, and any tip a node may have.         *)
TargetInit ==
    \/ at = "foreign" /\ target \in Targets /\ bits = MaxBits
    \/ at = "header" /\ target = Zero /\ bits \in Bits

(* run_miner: the candidate header.                                        *)
MakeHeader ==
    /\ at \in {"foreign", "template"}
    /\ at' = "header"
    /\ bits' = target_to_bits(target)
    /\ UNCHANGED target

(* handle_get_block_template on a tip with these bits.                     *)
MakeTemplate ==
    /\ at = "header"
    /\ at' = "template"
    /\ target' \in next_work_target(bits)
    /\ UNCHANGED bits
-----------------------------------------------------------------------------
(* The variables have their types, and the bits a miner writes for a       *)
(* target name three bytes of it.                                          *)
TargetTypeOK ==
    /\ at \in {"foreign", "template", "header"}
    /\ target \in Targets
    /\ bits \in Bits
    /\ at = "header" /\ target # Zero => bits.exponent \in 3 .. Length
=============================================================================
