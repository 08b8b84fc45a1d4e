------------------------------- MODULE Codec -------------------------------
(***************************************************************************)
(* CanonicalCodec: how values become bytes and back.                       *)
(*                                                                         *)
(* A type is its two functions: enc, encode_canonical, whose domain is the *)
(* set of the type's values (those within the limits: what is over them is *)
(* encoded too, but nothing decodes it), and dec, decode_from_cursor,      *)
(* which gives the set of its results: one <<value, rest of the cursor>>,  *)
(* or none on an error.                                                    *)
(*                                                                         *)
(* A byte has Radix values. Widths are scaled: W16 and W32 are the bytes   *)
(* of a u16 and a u32, W64 those of everything larger (u64, Quantum,       *)
(* Hash256), which only ever carries a number.                             *)
(***************************************************************************)
EXTENDS Naturals, Sequences, SequencesExt

CONSTANTS
    Radix,
    W16, W32, W64,
    MaxDatum,   \* MAX_DATUM_SIZE
    MaxRedeemer \* MAX_REDEEMER_SIZE

Byte == 0 .. Radix - 1

(* How many numbers n bytes can hold.                                      *)
Numbers[n \in Nat] == IF n = 0 THEN 1 ELSE Radix * Numbers[n - 1]

(* Tags go up to 4; the length of a datum or redeemer fits in a u16.       *)
ASSUME CodecAssumption ==
    /\ Radix \in Nat /\ Radix > 4
    /\ {W16, W32, W64} \subseteq Nat \ {0}
    /\ {MaxDatum, MaxRedeemer} \subseteq 0 .. Numbers[W16] - 1

Values(type) == DOMAIN type.enc
-----------------------------------------------------------------------------
(* to_be_bytes and from_be_bytes.                                          *)
BytesOf[width \in Nat] ==
    [n \in Nat |-> IF width = 0 THEN <<>>
                   ELSE Append(BytesOf[width - 1][n \div Radix], n % Radix)]

NumberOf[width \in Nat] ==
    [bytes \in Seq(Byte) |->
        IF width = 0 \/ bytes = <<>> THEN 0
        ELSE NumberOf[width - 1][Front(bytes)] * Radix + Last(bytes)]

BE(n, width) == BytesOf[width][n]

Num(bytes) == NumberOf[Len(bytes)][bytes]

(* n bytes off the cursor; none at UnexpectedEof.                          *)
Take(n, cursor) ==
    IF Len(cursor) < n THEN {}
    ELSE {<<SubSeq(cursor, 1, n), SubSeq(cursor, n + 1, Len(cursor))>>}

Uint(width) ==
    [enc |-> [n \in 0 .. Numbers[width] - 1 |-> BE(n, width)],
     dec |-> [c \in Seq(Byte) |-> {<<Num(t[1]), t[2]>> : t \in Take(width, c)}]]

(* A length, and that many bytes; the length is looked at first.           *)
Vec(width, max) ==
    [enc |-> [v \in {s \in Seq(Byte) : Len(s) <= max} |-> BE(Len(v), width) \o v],
     dec |-> [c \in Seq(Byte) |->
                 UNION {Take(l[1], l[2]) : l \in {m \in Uint(width).dec[c] : m[1] <= max}}]]

Unit ==
    [enc |-> [v \in {<<>>} |-> <<>>],
     dec |-> [c \in Seq(Byte) |-> {<<<<>>, c>>}]]

(* A struct is built of pairs: its fields follow one another.              *)
Pair(a, b) ==
    [enc |-> [v \in Values(a) \X Values(b) |-> a.enc[v[1]] \o b.enc[v[2]]],
     dec |-> [c \in Seq(Byte) |->
                 UNION {{<<<<p[1], q[1]>>, q[2]>> : q \in b.dec[p[2]]} : p \in a.dec[c]}]]

Triple(a, b, c) == Pair(Pair(a, b), c)
Quad(a, b, c, d) == Pair(Triple(a, b, c), d)

(* An enum is built of cases: a tag of one byte, and what follows it.      *)
Case(tag, type) ==
    [enc |-> [v \in {tag} \X Values(type) |-> <<tag>> \o type.enc[v[2]]],
     dec |-> [c \in Seq(Byte) |->
                 IF c # <<>> /\ Head(c) = tag
                 THEN {<<<<tag, d[1]>>, d[2]>> : d \in type.dec[Tail(c)]} ELSE {}]]

Either(a, b) ==
    [enc |-> [v \in Values(a) \cup Values(b) |-> IF v \in Values(a) THEN a.enc[v] ELSE b.enc[v]],
     dec |-> [c \in Seq(Byte) |-> a.dec[c] \cup b.dec[c]]]

(* The loop over n elements, and a list with its length before it.         *)
Elements(type) ==
    LET elements[n \in Nat] ==
            [c \in Seq(Byte) |->
                IF n = 0 THEN {<<<<>>, c>>}
                ELSE UNION {{<<Append(p[1], q[1]), q[2]>> : q \in type.dec[p[2]]} :
                            p \in elements[n - 1][c]}]
    IN  elements

(* The code reserves memory for the count that is claimed before it reads  *)
(* an element (Vec::with_capacity). Memory is not modelled: a claim beyond *)
(* what follows is a decoding error here, where the program may die of it. *)
ListOf(type) ==
    [enc |-> [v \in {s \in Seq(Values(type)) : Len(s) < Numbers[W32]} |->
                 BE(Len(v), W32) \o FlattenSeq([i \in DOMAIN v |-> type.enc[v[i]]])],
     dec |-> [c \in Seq(Byte) |->
                 UNION {Elements(type)[l[1]][l[2]] : l \in Uint(W32).dec[c]}]]
-----------------------------------------------------------------------------
U32 == Uint(W32)
U64 == Uint(W64)
Quantum == Uint(W64)
Hash256 == Uint(W64)
VecU8 == Vec(W32, Numbers[W32] - 1)

(* A String is a vector that is valid UTF-8; the last byte never is.       *)
IsText(bytes) == Radix - 1 \notin ToSet(bytes)

Text ==
    [enc |-> [v \in {u \in Values(VecU8) : IsText(u)} |-> VecU8.enc[v]],
     dec |-> [c \in Seq(Byte) |-> {d \in VecU8.dec[c] : IsText(d[1])}]]

OutPoint == Pair(Hash256, U32)
Datum == Either(Either(Case(0, Unit), Case(1, Hash256)), Case(2, Vec(W16, MaxDatum)))
Redeemer == Either(Case(0, Unit), Case(1, Vec(W16, MaxRedeemer)))
TxInput == Quad(OutPoint, VecU8, U32, Redeemer)
TxOutput == Triple(Quantum, VecU8, Datum)
Transaction == Quad(U32, ListOf(TxInput), ListOf(TxOutput), U64)

BlockHeader == Pair(Quad(U32, Hash256, Hash256, U64), Triple(U32, U64, U64))
Block == Pair(BlockHeader, ListOf(Transaction))

BlockTemplate ==
    Pair(Quad(U64, Hash256, Hash256, U64), Triple(Quantum, Quantum, ListOf(Transaction)))
SubmitResult == Either(Case(0, Pair(Hash256, U64)), Case(1, Text))

(* GetBlockTemplate, SubmitBlock, SendRawTransaction, GetTipStatus         *)
RpcRequest ==
    Either(Either(Case(0, VecU8), Case(1, Block)), Either(Case(2, Transaction), Case(3, Unit)))

(* BlockTemplate, SubmitBlock, TransactionAccepted, TipStatus, Error       *)
RpcResponse ==
    Either(Either(Either(Case(0, BlockTemplate), Case(1, SubmitResult)),
                  Either(Case(2, Hash256), Case(3, Triple(U64, Hash256, U64)))),
           Case(4, Text))
-----------------------------------------------------------------------------
Encode(type, v) == type.enc[v]

(* Mutant: what follows the value is not looked at.                        *)
decode_canonical_trailing(type, bytes) == {d[1] : d \in type.dec[bytes]}

decode_canonical(type, bytes) == {d[1] : d \in {e \in type.dec[bytes] : e[2] = <<>>}}
-----------------------------------------------------------------------------
(* The values of TxInput and Transaction, and their parts.                 *)
Input(previous_output, unlocking_script, sequence, redeemer) ==
    <<<<<<previous_output, unlocking_script>>, sequence>>, redeemer>>

Tx(version, inputs, outputs, locktime) == <<<<<<version, inputs>>, outputs>>, locktime>>

previous_output(input) == input[1][1][1]
sequence(input) == input[1][2]
redeemer(input) == input[2]

version(tx) == tx[1][1][1]
inputs(tx) == tx[1][1][2]
outputs(tx) == tx[1][2]
locktime(tx) == tx[2]

(* Mutant: the redeemers are left out of what is signed, too.              *)
sighash_without_redeemers(tx, input_index) ==
    LET cleared(input) == Input(previous_output(input), <<>>, sequence(input), <<0, <<>>>>)
        copy == Tx(version(tx), [i \in DOMAIN inputs(tx) |-> cleared(inputs(tx)[i])],
                   outputs(tx), locktime(tx))
    IN  Encode(Transaction, copy) \o BE(input_index, W32)

(* Transaction::sighash: the unlocking scripts are cleared and the index   *)
(* is appended. A hash is the value it is taken of.                        *)
sighash(tx, input_index) ==
    LET cleared(input) == Input(previous_output(input), <<>>, sequence(input), redeemer(input))
        copy == Tx(version(tx), [i \in DOMAIN inputs(tx) |-> cleared(inputs(tx)[i])],
                   outputs(tx), locktime(tx))
    IN  Encode(Transaction, copy) \o BE(input_index, W32)
=============================================================================
