------------------------------- MODULE Script -------------------------------
(***************************************************************************)
(* The contract VM (aurion-script): execute_contract of ScriptEngine over  *)
(* its bounded Stack.                                                      *)
(*                                                                         *)
(* There are no jumps, so a script is what it pushes and does, in order.   *)
(* The locking script belongs to the output and is a constant; the         *)
(* unlocking script is the spender's and is revealed one operation at a    *)
(* time, so that every unlocking script is covered.                        *)
(*                                                                         *)
(* A stack element is a byte string. It is kept as its length and its      *)
(* little-endian value, which identify it; `of` is what a digest is the    *)
(* digest of (Blake3 is taken as injective) and is empty for other data.   *)
(* A byte has Radix values here, so that the widths can be small.          *)
(***************************************************************************)
EXTENDS Integers, Sequences, SequencesExt

CONSTANTS
    Radix,       \* 256
    IntBytes,    \* 8, the bytes of an i64 or u64
    IndexBytes,  \* 4, the bytes of a u32
    ValueBytes,  \* 16, the bytes of a Quantum
    HashBytes,   \* 32
    MaxElement,  \* MAX_ELEMENT_SIZE
    MaxDepth,    \* MAX_STACK_DEPTH
    MaxOps,      \* MAX_OPS_PER_SCRIPT
    Data,        \* what the unlocking script may push directly
    Signed,      \* the pairs <<pubkey, signature>> that verify for the sighash
    Contracts,   \* the spent outputs: [locking, datum, redeemer, needs, met], datum
                 \* and redeemer being sequences of at most one element; needs and
                 \* met say what the contract is written to demand of the spender
                 \* and of the Context
    Context,     \* [inputs, index, outputs, locktime, height]: what the
                 \* ScriptContext says, outputs being [value, script, datum]
    Secrets      \* the elements whose use the properties follow

ASSUME WidthAssumption ==
    /\ Radix \in Nat \ {0, 1}
    /\ {IntBytes, IndexBytes, ValueBytes, HashBytes} \subseteq Nat \ {0}
    /\ {MaxElement, MaxDepth, MaxOps} \subseteq Nat

VARIABLES
    contract,  \* the output being spent
    stack,     \* ScriptEngine.stack, top last
    op_count,  \* shared by the two scripts
    phase,     \* "unlocking", "locking", or the verdict: "true", "false", "error"
    position,  \* the next operation of the locking script
    supplied   \* the secrets the spender has put on the stack so far

scriptVars == <<contract, stack, op_count, phase, position, supplied>>
-----------------------------------------------------------------------------
Bytes(len, val) == [len |-> len, val |-> val, of |-> <<>>]

(* How many strings of n bytes there are.                                  *)
Values[n \in Nat] == IF n = 0 THEN 1 ELSE Radix * Values[n - 1]

IsElement(item) == item.len \in Nat /\ item.val \in 0 .. Values[item.len] - 1

(* Hash256::digest. It is never zero.                                      *)
Digest(item) == [len |-> HashBytes, val |-> 1, of |-> <<item>>]

is_truthy(item) == item.val # 0

True == Bytes(1, 1)
False == Bytes(0, 0)
Bool(b) == IF b THEN True ELSE False

(* i64 arithmetic: decode_script_int and to_le_bytes. A shorter element is *)
(* padded with zero bytes, so only a full one can be negative.             *)
IntModulus == Values[IntBytes]

DecodesAsInt(item) == item.len <= IntBytes

decode_script_int(item) ==
    IF 2 * item.val >= IntModulus THEN item.val - IntModulus ELSE item.val

FitsInt(n) == -IntModulus <= 2 * n /\ 2 * n < IntModulus

Int64(n) == Bytes(IntBytes, n % IntModulus)
-----------------------------------------------------------------------------
(* Stack operations give the set of resulting stacks: empty on an error.   *)
push(s, item) ==
    IF Len(s) < MaxDepth /\ item.len <= MaxElement THEN {Append(s, item)} ELSE {}

(* n elements are popped and item is pushed.                               *)
Replace(s, n, item) == push(SubSeq(s, 1, Len(s) - n), item)

Top(s) == s[Len(s)]
Second(s) == s[Len(s) - 1]

Has(s, n) == Len(s) >= n

(* Mutant: the sum wraps around.                                           *)
Arithmetic_wraps(s, n) == Replace(s, 2, Int64(n))

(* checked_add and checked_sub on the two topmost elements.                *)
Arithmetic(s, n) == IF FitsInt(n) THEN Replace(s, 2, Int64(n)) ELSE {}

Operands(s) == Has(s, 2) /\ DecodesAsInt(Top(s)) /\ DecodesAsInt(Second(s))

(* verify_ed25519 of a public key and, below it, a signature.              *)
verify_ed25519(s) == <<Top(s), Second(s)>> \in Signed

(* decode_u32_index names an output of the spending transaction.           *)
NamesOutput(s) ==
    Has(s, 1) /\ Top(s).len <= IndexBytes /\ Top(s).val < Len(Context.outputs)

Output(s) == Context.outputs[Top(s).val + 1]

(* Mutant: OP_VERIFY drops its argument without looking at it.             *)
Consumes_anything(op, s) ==
    /\ Has(s, IF op.name \in {"Verify", "Drop"} THEN 1 ELSE 2)
    /\ op.name = "EqualVerify" => Top(s) = Second(s)

(* The operations that only consume: how many elements, and on which       *)
(* condition.                                                              *)
Consumes(op, s) ==
    /\ Has(s, IF op.name \in {"Verify", "Drop"} THEN 1 ELSE 2)
    /\ op.name = "Verify" => is_truthy(Top(s))
    /\ op.name = "EqualVerify" => Top(s) = Second(s)
    /\ op.name = "CheckSigVerify" => verify_ed25519(s)

(* The elements that the operations without arguments push.                *)
Constant ==
    [False |-> False, True |-> True,
     TxInputsCount |-> Bytes(IndexBytes, Context.inputs),
     CurrentInputIdx |-> Bytes(IndexBytes, Context.index),
     TxOutputsCount |-> Bytes(IndexBytes, Len(Context.outputs)),
     TxLocktime |-> Bytes(IntBytes, Context.locktime),
     ValidationHeight |-> Bytes(IntBytes, Context.height)]

(* What the operations that read an output push of it.                     *)
OutputFields == {"TxOutputValue", "TxOutputScript", "TxOutputDatum"}

Field(name, output) ==
    CASE name = "TxOutputValue" -> Bytes(ValueBytes, output.value)
      [] name = "TxOutputScript" -> output.script
      [] name = "TxOutputDatum" -> output.datum

(* One iteration of execute_bytecode on the stack s. "Push" is a direct    *)
(* push; "Invalid" an unassigned opcode or a truncated push.               *)
execute(op, s) ==
    CASE op.name = "Push" -> push(s, op.data)
      [] op.name \in DOMAIN Constant -> push(s, Constant[op.name])
      [] op.name = "Nop" -> {s}
      [] op.name \in {"Return", "Invalid"} -> {}
      [] op.name \in {"Verify", "Drop"} ->
             IF Consumes(op, s) THEN {Front(s)} ELSE {}
      [] op.name \in {"EqualVerify", "CheckSigVerify"} ->
             IF Consumes(op, s) THEN {Front(Front(s))} ELSE {}
      [] op.name = "Dup" -> IF Has(s, 1) THEN push(s, Top(s)) ELSE {}
      [] op.name = "Swap" ->
             IF Has(s, 2) THEN {Front(Front(s)) \o <<Top(s), Second(s)>>} ELSE {}
      [] op.name = "Equal" ->
             IF Has(s, 2) THEN Replace(s, 2, Bool(Top(s) = Second(s))) ELSE {}
      [] op.name = "CheckSig" ->
             IF Has(s, 2) THEN Replace(s, 2, Bool(verify_ed25519(s))) ELSE {}
      [] op.name = "Add" ->
             IF Operands(s)
             THEN Arithmetic(s, decode_script_int(Second(s)) + decode_script_int(Top(s)))
             ELSE {}
      [] op.name = "Sub" ->
             IF Operands(s)
             THEN Arithmetic(s, decode_script_int(Second(s)) - decode_script_int(Top(s)))
             ELSE {}
      [] op.name = "Hash256" -> IF Has(s, 1) THEN Replace(s, 1, Digest(Top(s))) ELSE {}
      [] op.name \in OutputFields ->
             IF NamesOutput(s) THEN Replace(s, 1, Field(op.name, Output(s))) ELSE {}

Op(name) == [name |-> name, data |-> False]
Push(item) == [name |-> "Push", data |-> item]

(* OpCode::from_u8, with everything else as "Invalid".                     *)
OpNames ==
    DOMAIN Constant \cup OutputFields \cup
    {"Nop", "Return", "Invalid", "Verify", "Drop", "EqualVerify", "CheckSigVerify",
     "Dup", "Swap", "Equal", "CheckSig", "Add", "Sub", "Hash256"}

Operations == {Op(n) : n \in OpNames} \cup {Push(d) : d \in Data}

IsOperation(op) == op.name \in OpNames \cup {"Push"} /\ IsElement(op.data)

(* An output has at most one datum, an input at most one redeemer.         *)
ASSUME ContractAssumption ==
    /\ \A d \in Data : IsElement(d)
    /\ \A c \in Contracts :
           /\ c.locking \in Seq(ToSet(c.locking))
           /\ \A i \in DOMAIN c.locking : IsOperation(c.locking[i])
           /\ \A given \in {c.datum, c.redeemer} :
                  given = <<>> \/ (given = <<given[1]>> /\ IsElement(given[1]))

(* Counts are u32, times and heights u64, values u128.                     *)
ASSUME ContextAssumption ==
    /\ {Context.inputs, Context.index, Len(Context.outputs)} \subseteq 0 .. Values[IndexBytes] - 1
    /\ {Context.locktime, Context.height} \subseteq 0 .. Values[IntBytes] - 1
    /\ \A i \in 1 .. Len(Context.outputs) :
           /\ Context.outputs[i].value \in 0 .. Values[ValueBytes] - 1
           /\ IsElement(Context.outputs[i].script) /\ IsElement(Context.outputs[i].datum)
-----------------------------------------------------------------------------
(***************************************************************************)
(* How a locking script L makes a demand. A check is enforced when nothing *)
(* is accepted unless it holds: it aborts the script, or its answer is     *)
(* what OP_VERIFY or the final verdict looks at.                           *)
(***************************************************************************)
Equalities == {"Equal", "EqualVerify"}
Signatures == {"CheckSig", "CheckSigVerify"}

Enforced(L, j) ==
    \/ L[j].name \in {"EqualVerify", "CheckSigVerify"}
    \/ /\ L[j].name \in {"Equal", "CheckSig"}
       /\ j = Len(L) \/ L[j + 1].name = "Verify"

(* What operation i leaves on top of whatever stack it succeeds on; empty  *)
(* when that depends on the stack.                                         *)
Shown(L, i) ==
    CASE L[i].name = "Push" -> {L[i].data}
      [] L[i].name \in DOMAIN Constant -> {Constant[L[i].name]}
      [] L[i].name \in OutputFields /\ i > 1 ->
             {Field(L[i].name, Context.outputs[k]) :
                 k \in {k \in 1 .. Len(Context.outputs) :
                           L[i - 1].name = "Push" /\ L[i - 1].data.val = k - 1}}
      [] OTHER -> {}

(* The script names the one signature, or the digest of the one preimage,  *)
(* that x is.                                                              *)
Demands(L, x) ==
    \E j \in 2 .. Len(L) :
        /\ Enforced(L, j) /\ L[j - 1].name = "Push"
        /\ \/ /\ L[j].name \in Signatures
              /\ \A pair \in Signed : pair[1] = L[j - 1].data => pair[2] = x
           \/ /\ L[j].name \in Equalities /\ j > 2
              /\ L[j - 2].name = "Hash256" /\ L[j - 1].data = Digest(x)

(* The script compares what the Context says with something else.          *)
Refuses(L) ==
    \E j \in 3 .. Len(L) :
        /\ Enforced(L, j) /\ L[j].name \in Equalities /\ L[j - 1].name = "Push"
        /\ Shown(L, j - 2) # {} /\ L[j - 1].data \notin Shown(L, j - 2)

(* needs and met are what the locking script says, and a secret is nothing *)
(* that the locking script shows or that can be computed without it: an    *)
(* eight-byte string is, by OP_ADD.                                        *)
ASSUME DemandAssumption ==
    /\ \A c \in Contracts :
           /\ \A x \in c.needs : x \in Secrets /\ Demands(c.locking, x)
           /\ c.met \/ Refuses(c.locking)
           /\ \A i \in DOMAIN c.locking : c.locking[i].data \notin Secrets
    /\ \A x \in Secrets : x.of = <<>> /\ x.len # IntBytes
    /\ \A name \in DOMAIN Constant : Constant[name] \notin Secrets
    /\ \A i \in 1 .. Len(Context.outputs), name \in OutputFields :
           Field(name, Context.outputs[i]) \notin Secrets
-----------------------------------------------------------------------------
(* A new stack, then the datum and the redeemer, if there are any: each is *)
(* pushed, and may be too long.                                            *)
ScriptInit ==
    /\ contract \in Contracts
    /\ LET given == contract.datum \o contract.redeemer
           fits == Len(given) <= MaxDepth /\ \A i \in DOMAIN given : given[i].len <= MaxElement
       IN  /\ stack = IF fits THEN given ELSE <<>>
           /\ phase = IF fits THEN "unlocking" ELSE "error"
           /\ supplied = Secrets \cap ToSet(given)
    /\ op_count = 0
    /\ position = 1

(* Mutant: each script has a budget of its own.                            *)
Run_budget_per_script(op) ==
    \E s \in execute(op, stack) :
        /\ phase = "unlocking" => op_count < MaxOps
        /\ stack' = s
        /\ op_count' = op_count + 1
        /\ UNCHANGED phase

(* One operation of either script within the shared budget.                *)
Run(op) ==
    \E s \in execute(op, stack) :
        /\ op_count < MaxOps
        /\ stack' = s
        /\ op_count' = op_count + 1
        /\ UNCHANGED phase

(* MaxOpCountExceeded, or what the operation reports. The engine is        *)
(* dropped.                                                                *)
Abort(op) ==
    /\ op_count >= MaxOps \/ execute(op, stack) = {}
    /\ phase' = "error"
    /\ stack' = <<>>
    /\ op_count' = 0

StepUnlocking(op) ==
    /\ phase = "unlocking"
    /\ Run(op) \/ Abort(op)
    /\ supplied' = supplied \cup (Secrets \cap {op.data})
    /\ UNCHANGED <<contract, position>>

(* The unlocking script ends.                                              *)
BeginLocking ==
    /\ phase = "unlocking"
    /\ phase' = "locking"
    /\ UNCHANGED <<contract, stack, op_count, position, supplied>>

StepLocking ==
    /\ phase = "locking"
    /\ position <= Len(contract.locking)
    /\ LET op == contract.locking[position] IN Run(op) \/ Abort(op)
    /\ position' = position + 1
    /\ UNCHANGED <<contract, supplied>>

(* Exactly one element is left and it is truthy.                           *)
Judge ==
    /\ phase = "locking"
    /\ position > Len(contract.locking)
    /\ phase' = IF Len(stack) = 1 /\ is_truthy(Top(stack)) THEN "true" ELSE "false"
    /\ UNCHANGED <<contract, stack, op_count, position, supplied>>

ScriptNext ==
    \/ \E op \in Operations : StepUnlocking(op)
    \/ BeginLocking
    \/ StepLocking
    \/ Judge

ScriptSpec == ScriptInit /\ [][ScriptNext]_scriptVars
-----------------------------------------------------------------------------
(* SPEC-05: however the two scripts push, duplicate and compute, the stack *)
(* stays within its depth, each element within its size and the operations *)
(* of both scripts together within their budget.                           *)
ScriptTypeOK ==
    /\ contract \in Contracts
    /\ Len(stack) <= MaxDepth
    /\ \A i \in DOMAIN stack :
           IsElement(stack[i]) /\ stack[i].len <= MaxElement
    /\ op_count \in 0 .. MaxOps
    /\ phase \in {"unlocking", "locking", "true", "false", "error"}
    /\ position \in 1 .. Len(contract.locking) + 1
    /\ supplied \subseteq Secrets

(***************************************************************************)
(* A contract is only satisfied by what it is written to demand: whatever  *)
(* unlocking script runs before it on the same stack, execute_contract     *)
(* accepts only if the spender has supplied the signature or the preimage  *)
(* and the spending transaction is the one the covenant asks for.          *)
(***************************************************************************)
Guarded == phase = "true" => contract.needs \subseteq supplied /\ contract.met

(* OP_ADD and OP_SUB compute with signed integers: what they push decodes  *)
(* to the sum or the difference of what they popped, at the ends of the    *)
(* range and for short operands too, or they fail.                         *)
ArithmeticExact ==
    Operands(stack) =>
        LET a == decode_script_int(Second(stack))
            b == decode_script_int(Top(stack))
        IN  /\ \A s \in execute(Op("Add"), stack) : decode_script_int(Top(s)) = a + b
            /\ \A s \in execute(Op("Sub"), stack) : decode_script_int(Top(s)) = a - b
=============================================================================
