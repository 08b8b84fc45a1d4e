---------------------------- MODULE ScriptProofs ----------------------------
(***************************************************************************)
(* Machine-checked proofs about the contract VM, for bytes of any radix,   *)
(* any widths and limits, any contracts and any unlocking script.          *)
(***************************************************************************)
EXTENDS Script, DataLemmas

(* The number of strings of n bytes.                                       *)
LEMMA ValuesDef ==
    \A n \in Nat : Values[n] = IF n = 0 THEN 1 ELSE Radix * Values[n - 1]
<1> DEFINE e(f, n) == IF n = 0 THEN 1 ELSE Radix * f[n - 1]
    IsPower(f, m) == f = [n \in 0 .. m |-> e(f, n)]
    Exists(m) == \E f : IsPower(f, m)
    Good == {m \in Nat : Exists(m)}
<1>1. Exists(0)
  <2>1. IsPower([n \in 0 .. 0 |-> 1], 0)
    OBVIOUS
  <2> QED BY <2>1
<1>2. ASSUME NEW m \in Nat, Exists(m) PROVE Exists(m + 1)
  <2>1. PICK f : IsPower(f, m)
    BY <1>2
  <2> DEFINE g == [n \in 0 .. m + 1 |-> IF n = m + 1 THEN e(f, n) ELSE f[n]]
  <2>2. ASSUME NEW n \in 0 .. m + 1 PROVE g[n] = e(g, n)
    <3>1. n # 0 => n - 1 \in 0 .. m /\ g[n - 1] = f[n - 1]
      OBVIOUS
    <3>2. e(g, n) = e(f, n)
      <4> HIDE DEF g
      <4> QED BY <3>1
    <3>3. ASSUME n # m + 1 PROVE f[n] = e(f, n)
      <4>1. n \in 0 .. m
        BY <3>3
      <4> QED BY <2>1, <4>1
    <3> HIDE DEF e
    <3> QED BY <3>2, <3>3
  <2> HIDE DEF e
  <2>3. g = [n \in 0 .. m + 1 |-> e(g, n)]
    BY <2>2
  <2> QED BY <2>3
<1>3. \A m \in Nat : Exists(m)
  <2> HIDE DEF Exists
  <2>1. 0 \in Good /\ \A m \in Nat : m \in Good => m + 1 \in Good
    BY <1>1, <1>2
  <2> HIDE DEF Good
  <2>2. Nat \subseteq Good
    BY <2>1, SetInduction
  <2> QED BY <2>2 DEF Good
<1>4. ASSUME NEW m \in Nat, NEW k \in Nat, NEW f, NEW g, IsPower(f, m), IsPower(g, k)
      PROVE  \A n \in Nat : n <= m /\ n <= k => f[n] = g[n]
  <2> DEFINE Same == {n \in Nat : n <= m /\ n <= k => f[n] = g[n]}
  <2>1. 0 \in Same
    <3>1. 0 \in 0 .. m /\ 0 \in 0 .. k
      OBVIOUS
    <3>2. f[0] = e(f, 0) /\ g[0] = e(g, 0)
      <4> HIDE DEF e
      <4> QED BY <1>4, <3>1
    <3> QED BY <3>2
  <2>2. ASSUME NEW n \in Nat, n \in Same PROVE n + 1 \in Same
    <3> SUFFICES ASSUME n + 1 <= m, n + 1 <= k PROVE f[n + 1] = g[n + 1]
      OBVIOUS
    <3>1. n + 1 \in 0 .. m /\ n + 1 \in 0 .. k /\ f[n] = g[n] /\ n + 1 # 0 /\ (n + 1) - 1 = n
      BY <2>2
    <3>2. f[n + 1] = e(f, n + 1) /\ g[n + 1] = e(g, n + 1)
      <4> HIDE DEF e
      <4> QED BY <1>4, <3>1
    <3> QED BY <3>1, <3>2
  <2>3. Nat \subseteq Same
    <3> HIDE DEF Same
    <3> QED BY <2>1, <2>2, SetInduction
  <2> QED BY <2>3
<1> DEFINE upTo(m) == CHOOSE f : IsPower(f, m)
    F == [n \in Nat |-> upTo(n)[n]]
<1>5. \A m \in Nat : IsPower(upTo(m), m)
  <2> HIDE DEF IsPower
  <2> QED BY <1>3
<1>6. ASSUME NEW n \in Nat PROVE F[n] = e(F, n)
  <2>1. upTo(n)[n] = e(upTo(n), n)
    <3>1. PICK f : f = upTo(n)
      OBVIOUS
    <3>2. IsPower(f, n)
      <4> HIDE DEF IsPower
      <4> QED BY <1>5, <3>1
    <3>3. n \in 0 .. n
      OBVIOUS
    <3>4. f[n] = e(f, n)
      <4> HIDE DEF e
      <4> QED BY <3>2, <3>3
    <3> QED BY <3>1, <3>4
  <2>2. ASSUME n # 0 PROVE upTo(n)[n - 1] = upTo(n - 1)[n - 1]
    <3>1. n - 1 \in Nat /\ n - 1 <= n /\ n - 1 <= n - 1
      BY <2>2
    <3> HIDE DEF IsPower, upTo
    <3> QED BY <1>4, <1>5, <3>1
  <2>3. F[n] = upTo(n)[n] /\ (n # 0 => F[n - 1] = upTo(n - 1)[n - 1])
    <3> HIDE DEF upTo
    <3> QED OBVIOUS
  <2> HIDE DEF F, upTo
  <2> QED BY <2>1, <2>2, <2>3
<1>7. F = [n \in Nat |-> e(F, n)]
  <2> HIDE DEF e, upTo
  <2> QED BY <1>6
<1>8. Values = [n \in Nat |-> e(Values, n)]
  <2> HIDE DEF F
  <2>1. \E f : f = [n \in Nat |-> e(f, n)]
    BY <1>7
  <2> QED BY <2>1 DEF Values
<1> QED BY <1>8

LEMMA ValuesFacts ==
    \A n \in Nat : Values[n] \in Nat /\ Values[n] > 0 /\ (n > 0 => Values[n] > 1)
<1> DEFINE Good == {n \in Nat : Values[n] \in Nat /\ Values[n] > 0 /\ (n > 0 => Values[n] > 1)}
<1>1. 0 \in Good
  BY ValuesDef
<1>2. ASSUME NEW n \in Nat, n \in Good PROVE n + 1 \in Good
  <2>1. PICK v, r : v = Values[n] /\ r = Radix
    OBVIOUS
  <2>2. v \in Nat /\ v > 0 /\ r \in Nat /\ r > 1
    BY <1>2, <2>1, WidthAssumption
  <2>3. Values[n + 1] = r * v
    BY <2>1, ValuesDef
  <2>4. r * v \in Nat /\ r * v > 1
    BY <2>2
  <2> QED BY <2>3, <2>4
<1>3. Nat \subseteq Good
  <2> HIDE DEF Good
  <2> QED BY <1>1, <1>2, SetInduction
<1> QED BY <1>3

LEMMA Widths ==
    /\ {IntBytes, IndexBytes, ValueBytes, HashBytes} \subseteq Nat \ {0}
    /\ MaxElement \in Nat /\ MaxDepth \in Nat /\ MaxOps \in Nat
    /\ IntModulus \in Nat \ {0}
  BY WidthAssumption, ValuesFacts DEF IntModulus

(* What is pushed is a string of its length.                               *)
LEMMA BytesElement ==
    ASSUME NEW n \in Nat, NEW v \in 0 .. Values[n] - 1
    PROVE  IsElement(Bytes(n, v))
  BY DEF IsElement, Bytes

LEMMA FixedElements ==
    /\ IsElement(True) /\ IsElement(False)
    /\ \A b : IsElement(Bool(b))
    /\ \A x : IsElement(Digest(x))
<1>1. 0 \in 0 .. Values[0] - 1 /\ 1 \in 0 .. Values[1] - 1
  BY ValuesFacts
<1>2. IsElement(True) /\ IsElement(False)
  BY <1>1, BytesElement DEF True, False
<1>3. HashBytes \in Nat /\ 1 \in 0 .. Values[HashBytes] - 1
  BY ValuesFacts, Widths
<1>4. \A x : IsElement(Digest(x))
  BY <1>3 DEF IsElement, Digest
<1> QED BY <1>2, <1>4 DEF Bool

LEMMA ConstantElements ==
    ASSUME NEW name \in DOMAIN Constant
    PROVE  IsElement(Constant[name])
<1>1. /\ IsElement(Bytes(IndexBytes, Context.inputs))
      /\ IsElement(Bytes(IndexBytes, Context.index))
      /\ IsElement(Bytes(IndexBytes, Len(Context.outputs)))
      /\ IsElement(Bytes(IntBytes, Context.locktime))
      /\ IsElement(Bytes(IntBytes, Context.height))
  BY BytesElement, ContextAssumption, Widths
<1> QED BY <1>1, FixedElements DEF Constant

(* Remainders on both sides of zero.                                       *)
LEMMA Remainder ==
    ASSUME NEW M \in Nat \ {0}, NEW n \in Int
    PROVE  /\ n % M \in 0 .. M - 1
           /\ (0 <= n /\ n < M => n % M = n)
           /\ (-M <= n /\ n < 0 => n % M = n + M)
  OBVIOUS

LEMMA IntElement ==
    ASSUME NEW n \in Int
    PROVE  IsElement(Int64(n)) /\ (FitsInt(n) => decode_script_int(Int64(n)) = n)
<1>1. PICK M : M = IntModulus
  OBVIOUS
<1>2. M \in Nat \ {0}
  BY <1>1, Widths
<1>3. Int64(n).val = n % M /\ Int64(n).len = IntBytes
  BY <1>1 DEF Int64, Bytes
<1>4. n % M \in 0 .. M - 1
  BY <1>2, Remainder
<1>5. IsElement(Int64(n))
  BY <1>1, <1>3, <1>4, Widths DEF IsElement, IntModulus
<1>6. ASSUME FitsInt(n) PROVE decode_script_int(Int64(n)) = n
  <2>1. -M <= 2 * n /\ 2 * n < M
    BY <1>1, <1>6 DEF FitsInt
  <2>2. CASE n >= 0
    <3>1. n % M = n
      BY <1>2, <2>1, <2>2, Remainder
    <3> QED BY <1>1, <1>2, <1>3, <2>1, <3>1 DEF decode_script_int
  <2>3. CASE n < 0
    <3>0. -M <= n
      BY <1>2, <2>1, <2>3
    <3>1. n % M = n + M
      BY <1>2, <2>3, <3>0, Remainder
    <3>2. 2 * (n + M) >= M /\ (n + M) - M = n
      BY <1>2, <2>1
    <3> QED BY <1>1, <1>3, <3>1, <3>2 DEF decode_script_int
  <2> QED BY <2>2, <2>3
<1> QED BY <1>5, <1>6
-----------------------------------------------------------------------------
(* A stack within the limits of Stack::push.                               *)
Sound(s) ==
    /\ \E S : s \in Seq(S) /\ \A x \in S : IsElement(x) /\ x.len <= MaxElement
    /\ Len(s) <= MaxDepth

LEMMA EmptySound == Sound(<<>>)
<1>1. PICK S : S = {}
  OBVIOUS
<1>2. <<>> \in Seq(S) /\ \A x \in S : IsElement(x) /\ x.len <= MaxElement
  BY <1>1
<1>3. Len(<<>>) <= MaxDepth
  BY Widths
<1> QED BY <1>2, <1>3, Zenon DEF Sound

LEMMA SoundElements ==
    ASSUME NEW s, Sound(s)
    PROVE  /\ Len(s) \in Nat /\ DOMAIN s = 1 .. Len(s)
           /\ \A i \in 1 .. Len(s) : IsElement(s[i]) /\ s[i].len <= MaxElement
           /\ Has(s, 1) => IsElement(Top(s)) /\ Top(s).len <= MaxElement
           /\ Has(s, 2) => IsElement(Second(s)) /\ Second(s).len <= MaxElement
<1>1. PICK S : s \in Seq(S) /\ \A x \in S : IsElement(x) /\ x.len <= MaxElement
  BY DEF Sound
<1>2. /\ Len(s) \in Nat /\ DOMAIN s = 1 .. Len(s)
      /\ \A i \in 1 .. Len(s) : IsElement(s[i]) /\ s[i].len <= MaxElement
  BY <1>1
<1> QED BY <1>2 DEF Has, Top, Second

LEMMA CutSound ==
    ASSUME NEW s, Sound(s), NEW k \in Nat, k <= Len(s)
    PROVE  Sound(SubSeq(s, 1, k)) /\ Len(SubSeq(s, 1, k)) = k
<1>1. PICK S : s \in Seq(S) /\ \A x \in S : IsElement(x) /\ x.len <= MaxElement
  BY DEF Sound
<1>2. SubSeq(s, 1, k) \in Seq(S) /\ Len(SubSeq(s, 1, k)) = k
  BY <1>1
<1>3. k <= MaxDepth
  BY <1>1, Widths DEF Sound
<1> QED BY <1>1, <1>2, <1>3 DEF Sound

LEMMA FrontSound ==
    ASSUME NEW s, Sound(s), Has(s, 1)
    PROVE  Sound(Front(s)) /\ Len(Front(s)) = Len(s) - 1
<1>1. Len(s) \in Nat /\ Len(s) >= 1
  BY SoundElements DEF Has
<1>2. Len(s) - 1 \in Nat /\ Len(s) - 1 <= Len(s)
  BY <1>1
<1> QED BY <1>2, CutSound DEF Front

LEMMA PushSound ==
    ASSUME NEW s, Sound(s), NEW x, IsElement(x), NEW r \in push(s, x)
    PROVE  Sound(r) /\ r = Append(s, x) /\ Top(r) = x
<1>1. PICK S : s \in Seq(S) /\ \A y \in S : IsElement(y) /\ y.len <= MaxElement
  BY DEF Sound
<1>2. r = Append(s, x) /\ Len(s) < MaxDepth /\ x.len <= MaxElement
  BY DEF push
<1>3. PICK T : T = S \cup {x}
  OBVIOUS
<1>4. s \in Seq(T) /\ x \in T
  BY <1>1, <1>3
<1>5. Append(s, x) \in Seq(T) /\ Len(Append(s, x)) = Len(s) + 1 /\ Append(s, x)[Len(s) + 1] = x
      /\ Len(s) \in Nat
  BY <1>4
<1>6. \A y \in T : IsElement(y) /\ y.len <= MaxElement
  BY <1>1, <1>2, <1>3
<1>7. Len(r) <= MaxDepth
  BY <1>2, <1>5, Widths
<1> QED BY <1>2, <1>5, <1>6, <1>7 DEF Sound, Top

LEMMA ReplaceSound ==
    ASSUME NEW s, Sound(s), NEW n \in Nat, Has(s, n), NEW x, IsElement(x), NEW r \in Replace(s, n, x)
    PROVE  Sound(r) /\ Top(r) = x
<1>1. Len(s) \in Nat /\ Len(s) >= n
  BY SoundElements DEF Has
<1>2. Len(s) - n \in Nat /\ Len(s) - n <= Len(s)
  BY <1>1
<1>3. Sound(SubSeq(s, 1, Len(s) - n))
  BY <1>2, CutSound
<1>4. r \in push(SubSeq(s, 1, Len(s) - n), x)
  BY DEF Replace
<1> QED BY <1>3, <1>4, PushSound

(* What decodes as an integer is one.                                      *)
LEMMA OperandInt ==
    ASSUME NEW s, Sound(s), Has(s, 2)
    PROVE  decode_script_int(Top(s)) \in Int /\ decode_script_int(Second(s)) \in Int
<1>1. ASSUME NEW x, IsElement(x) PROVE decode_script_int(x) \in Int
  <2>1. x.val \in Int
    BY <1>1, ValuesFacts DEF IsElement
  <2> QED BY <2>1, Widths DEF decode_script_int
<1>2. Has(s, 1)
  BY SoundElements DEF Has
<1> QED BY <1>1, <1>2, SoundElements

LEMMA ArithmeticSound ==
    ASSUME NEW s, Sound(s), Has(s, 2), NEW n \in Int, NEW r \in Arithmetic(s, n)
    PROVE  Sound(r) /\ decode_script_int(Top(r)) = n
<1>1. FitsInt(n) /\ r \in Replace(s, 2, Int64(n))
  BY DEF Arithmetic
<1>2. IsElement(Int64(n)) /\ decode_script_int(Int64(n)) = n
  BY <1>1, IntElement
<1> QED BY <1>1, <1>2, ReplaceSound

LEMMA SwapSound ==
    ASSUME NEW s, Sound(s), Has(s, 2)
    PROVE  Sound(Front(Front(s)) \o <<Top(s), Second(s)>>)
<1>1. PICK S : s \in Seq(S) /\ \A x \in S : IsElement(x) /\ x.len <= MaxElement
  BY DEF Sound
<1>2. Len(s) \in Nat /\ Len(s) >= 2
  BY <1>1 DEF Has
<1>3. Top(s) \in S /\ Second(s) \in S
  BY <1>1, <1>2 DEF Top, Second
<1>4. Front(s) \in Seq(S) /\ Len(Front(s)) = Len(s) - 1
  BY <1>1, <1>2 DEF Front
<1>5. PICK t : t = Front(s)
  OBVIOUS
<1>6. Front(t) \in Seq(S) /\ Len(Front(t)) = Len(s) - 2
  BY <1>2, <1>4, <1>5 DEF Front
<1>7. PICK u, a, b : u = Front(t) /\ a = Top(s) /\ b = Second(s)
  OBVIOUS
<1>8. u \o <<a, b>> \in Seq(S) /\ Len(u \o <<a, b>>) = Len(s)
  BY <1>2, <1>3, <1>6, <1>7
<1> QED BY <1>1, <1>5, <1>7, <1>8 DEF Sound

LEMMA OutputElements ==
    ASSUME NEW s, Sound(s), NamesOutput(s)
    PROVE  /\ Has(s, 1)
           /\ \A name \in OutputFields : IsElement(Field(name, Output(s)))
<1>1. Has(s, 1) /\ IsElement(Top(s)) /\ Top(s).val < Len(Context.outputs)
  BY SoundElements DEF NamesOutput
<1>2. Top(s).val \in Nat
  BY <1>1, ValuesFacts DEF IsElement
<1>3. Len(Context.outputs) \in Nat
  BY ContextAssumption, ValuesFacts, Widths
<1>4. Top(s).val + 1 \in 1 .. Len(Context.outputs)
  BY <1>1, <1>2, <1>3
<1>5. /\ IsElement(Bytes(ValueBytes, Output(s).value))
      /\ IsElement(Output(s).script) /\ IsElement(Output(s).datum)
  BY <1>4, ContextAssumption, BytesElement, Widths DEF Output
<1> QED BY <1>1, <1>5 DEF OutputFields, Field

LEMMA ConstantNames ==
    /\ DOMAIN Constant = {"False", "True", "TxInputsCount", "CurrentInputIdx", "TxOutputsCount",
                          "TxLocktime", "ValidationHeight"}
    /\ OutputFields = {"TxOutputValue", "TxOutputScript", "TxOutputDatum"}
  BY DEF Constant, OutputFields

(* execute_bytecode: whatever one operation leaves is within the limits.   *)
LEMMA ExecuteSound ==
    ASSUME NEW s, Sound(s), NEW op, IsOperation(op), NEW r \in execute(op, s)
    PROVE  Sound(r)
<1>1. Has(s, 2) => Has(s, 1)
  BY SoundElements DEF Has
<1>2. CASE op.name = "Push"
  <2>1. r \in push(s, op.data)
    BY <1>2, ConstantNames DEF execute
  <2> QED BY <2>1, PushSound DEF IsOperation
<1>3. CASE op.name \in DOMAIN Constant
  <2>1. r \in push(s, Constant[op.name])
    BY <1>3, ConstantNames DEF execute
  <2> QED BY <1>3, <2>1, ConstantElements, PushSound
<1>4. CASE op.name \in {"Nop", "Return", "Invalid"}
  <2>1. r = s
    BY <1>4, ConstantNames DEF execute
  <2> QED BY <2>1
<1>5. CASE op.name \in {"Verify", "Drop"}
  <2>1. Consumes(op, s) /\ r = Front(s)
    BY <1>5, ConstantNames DEF execute
  <2>2. Has(s, 1)
    BY <1>5, <2>1 DEF Consumes
  <2> QED BY <2>1, <2>2, FrontSound
<1>6. CASE op.name \in {"EqualVerify", "CheckSigVerify"}
  <2>1. Consumes(op, s) /\ r = Front(Front(s))
    BY <1>6, ConstantNames DEF execute
  <2>2. Has(s, 2) /\ Has(s, 1)
    BY <1>1, <1>6, <2>1 DEF Consumes
  <2>3. Sound(Front(s)) /\ Has(Front(s), 1)
    BY <2>2, FrontSound, SoundElements DEF Has
  <2> QED BY <2>1, <2>3, FrontSound
<1>7. CASE op.name = "Dup"
  <2>1. Has(s, 1) /\ r \in push(s, Top(s))
    BY <1>7, ConstantNames DEF execute
  <2> QED BY <2>1, SoundElements, PushSound
<1>8. CASE op.name = "Swap"
  <2>1. Has(s, 2) /\ r = Front(Front(s)) \o <<Top(s), Second(s)>>
    BY <1>8, ConstantNames DEF execute
  <2> QED BY <2>1, SwapSound
<1>9. CASE op.name = "Equal"
  <2>1. Has(s, 2) /\ r \in Replace(s, 2, Bool(Top(s) = Second(s)))
    BY <1>9, ConstantNames DEF execute
  <2>2. IsElement(Bool(Top(s) = Second(s)))
    BY FixedElements DEF Bool
  <2> QED BY <2>1, <2>2, ReplaceSound
<1>10. CASE op.name = "CheckSig"
  <2>1. Has(s, 2) /\ r \in Replace(s, 2, Bool(verify_ed25519(s)))
    BY <1>10, ConstantNames DEF execute
  <2>2. IsElement(Bool(verify_ed25519(s)))
    BY FixedElements DEF Bool
  <2> QED BY <2>1, <2>2, ReplaceSound
<1>11. CASE op.name \in {"Add", "Sub"}
  <2>1. Has(s, 2)
    BY <1>11, ConstantNames DEF execute, Operands
  <2>2. PICK a \in Int, b \in Int : a = decode_script_int(Second(s)) /\ b = decode_script_int(Top(s))
    BY <2>1, OperandInt
  <2>3. r \in Arithmetic(s, a + b) \/ r \in Arithmetic(s, a - b)
    BY <1>11, <2>2, ConstantNames DEF execute
  <2>4. a + b \in Int /\ a - b \in Int
    BY <2>2
  <2> QED BY <2>1, <2>3, <2>4, ArithmeticSound
<1>12. CASE op.name = "Hash256"
  <2>1. Has(s, 1) /\ r \in Replace(s, 1, Digest(Top(s)))
    BY <1>12, ConstantNames DEF execute
  <2> QED BY <2>1, FixedElements, ReplaceSound
<1>13. CASE op.name \in OutputFields
  <2>1. NamesOutput(s) /\ r \in Replace(s, 1, Field(op.name, Output(s)))
    BY <1>13, ConstantNames DEF execute
  <2> QED BY <1>13, <2>1, OutputElements, ReplaceSound
<1> QED BY <1>2, <1>3, <1>4, <1>5, <1>6, <1>7, <1>8, <1>9, <1>10, <1>11, <1>12, <1>13
        DEF IsOperation, OpNames
-----------------------------------------------------------------------------
(* ScriptTypeOK lacks that the stack is a sequence of such elements.       *)
ScriptInv == ScriptTypeOK /\ Sound(stack)

LEMMA ScriptInitial == ScriptInit => ScriptInv
<1> SUFFICES ASSUME ScriptInit PROVE ScriptInv
  OBVIOUS
<1>1. PICK a, b : a = contract.datum /\ b = contract.redeemer
  OBVIOUS
<1>2. contract \in Contracts
  BY DEF ScriptInit
<1>3. PICK S : a \in Seq(S) /\ b \in Seq(S) /\ \A x \in S : IsElement(x)
  <2>1. ASSUME NEW given \in {a, b}
        PROVE  given = <<>> \/ (given = <<given[1]>> /\ IsElement(given[1]))
    BY <1>1, <1>2, ContractAssumption
  <2>2. PICK T : T = {x \in {a[1], b[1]} : IsElement(x)}
    OBVIOUS
  <2>3. ASSUME NEW given \in {a, b} PROVE given \in Seq(T)
    <3>1. CASE given = <<>>
      BY <3>1
    <3>2. CASE given = <<given[1]>> /\ IsElement(given[1])
      <4>1. PICK x : x = given[1]
        OBVIOUS
      <4>2. x \in T
        BY <2>2, <3>2, <4>1
      <4>3. <<x>> \in Seq(T)
        BY <4>2
      <4> QED BY <3>2, <4>1, <4>3
    <3> QED BY <2>1, <3>1, <3>2
  <2> QED BY <2>2, <2>3
<1>4. PICK given : given = a \o b
  OBVIOUS
<1>5. given \in Seq(S) /\ DOMAIN given = 1 .. Len(given) /\ Len(given) \in Nat
  BY <1>3, <1>4
<1>6. /\ op_count = 0 /\ position = 1
      /\ phase \in {"unlocking", "error"} /\ supplied \subseteq Secrets
      /\ stack = <<>> \/ (/\ stack = given /\ Len(given) <= MaxDepth
                          /\ \A i \in DOMAIN given : given[i].len <= MaxElement)
  BY <1>1, <1>4 DEF ScriptInit
<1>7. Sound(stack)
  <2>1. CASE stack = <<>>
    BY <2>1, EmptySound
  <2>2. CASE stack # <<>>
    <3>1. PICK T : T = {x \in S : x.len <= MaxElement}
      OBVIOUS
    <3>2. given \in Seq(T)
      BY <1>5, <1>6, <2>2, <3>1
    <3> QED BY <1>3, <1>6, <2>2, <3>1, <3>2 DEF Sound
  <2> QED BY <2>1, <2>2
<1>8. Len(contract.locking) \in Nat
  BY <1>2, ContractAssumption
<1> QED BY <1>2, <1>6, <1>7, <1>8, SoundElements, Widths DEF ScriptInv, ScriptTypeOK, Sound

(* One operation of either script.                                         *)
LEMMA OperationSound ==
    ASSUME ScriptInv, NEW op, IsOperation(op), Run(op) \/ Abort(op)
    PROVE  /\ Sound(stack') /\ op_count' \in 0 .. MaxOps
           /\ phase' = phase \/ phase' = "error"
<1>1. CASE Run(op)
  <2>1. PICK s \in execute(op, stack) : op_count < MaxOps /\ stack' = s /\ op_count' = op_count + 1
    BY <1>1 DEF Run
  <2>2. Sound(s)
    BY <2>1, ExecuteSound DEF ScriptInv
  <2>3. op_count \in 0 .. MaxOps
    BY DEF ScriptInv, ScriptTypeOK
  <2> QED BY <1>1, <2>1, <2>2, <2>3, Widths DEF Run
<1>2. CASE Abort(op)
  BY <1>2, EmptySound, Widths DEF Abort
<1> QED BY <1>1, <1>2

LEMMA ScriptStep == ScriptInv /\ [ScriptNext]_scriptVars => ScriptInv'
<1> SUFFICES ASSUME ScriptInv, [ScriptNext]_scriptVars PROVE ScriptInv'
  OBVIOUS
<1>0. /\ contract \in Contracts /\ Len(contract.locking) \in Nat
      /\ position \in 1 .. Len(contract.locking) + 1
      /\ supplied \subseteq Secrets /\ op_count \in 0 .. MaxOps
      /\ phase \in {"unlocking", "locking", "true", "false", "error"}
      /\ Sound(stack)
  BY ContractAssumption DEF ScriptInv, ScriptTypeOK
<1>1. ASSUME /\ Sound(stack') /\ op_count' \in 0 .. MaxOps
             /\ phase' \in {"unlocking", "locking", "true", "false", "error"}
             /\ contract' = contract /\ position' \in 1 .. Len(contract.locking) + 1
             /\ supplied' \subseteq Secrets
      PROVE  ScriptInv'
  <2>1. /\ Len(stack') <= MaxDepth /\ DOMAIN stack' = 1 .. Len(stack')
        /\ \A i \in 1 .. Len(stack') : IsElement(stack'[i]) /\ stack'[i].len <= MaxElement
    BY <1>1, SoundElements DEF Sound
  <2> QED BY <1>0, <1>1, <2>1 DEF ScriptInv, ScriptTypeOK, Sound, IsElement
<1>2. ASSUME NEW op \in Operations, StepUnlocking(op) PROVE ScriptInv'
  <2>1. IsOperation(op)
    BY ContractAssumption, FixedElements DEF Operations, IsOperation, Op, Push
  <2>2. /\ Sound(stack') /\ op_count' \in 0 .. MaxOps
        /\ phase' = phase \/ phase' = "error"
    BY <1>2, <2>1, OperationSound DEF StepUnlocking
  <2> QED BY <1>0, <1>1, <1>2, <2>2 DEF StepUnlocking
<1>3. CASE BeginLocking
  BY <1>0, <1>1, <1>3 DEF BeginLocking
<1>4. CASE StepLocking
  <2>1. position \in 1 .. Len(contract.locking)
    BY <1>0, <1>4 DEF StepLocking
  <2>2. IsOperation(contract.locking[position])
    <3>1. contract.locking \in Seq(ToSet(contract.locking))
      BY <1>0, ContractAssumption
    <3>2. position \in DOMAIN contract.locking
      BY <2>1, <3>1
    <3> QED BY <1>0, <3>2, ContractAssumption
  <2>3. /\ Sound(stack') /\ op_count' \in 0 .. MaxOps
        /\ phase' = phase \/ phase' = "error"
    BY <1>4, <2>2, OperationSound DEF StepLocking
  <2>4. position' \in 1 .. Len(contract.locking) + 1
    BY <1>0, <1>4, <2>1 DEF StepLocking
  <2> QED BY <1>0, <1>1, <1>4, <2>3, <2>4 DEF StepLocking
<1>5. CASE Judge
  BY <1>0, <1>1, <1>5 DEF Judge
<1>6. CASE UNCHANGED scriptVars
  BY <1>0, <1>1, <1>6 DEF scriptVars
<1> QED BY <1>2, <1>3, <1>4, <1>5, <1>6 DEF ScriptNext

LEMMA ScriptInvariance == ScriptSpec => []ScriptInv
  BY ScriptInitial, ScriptStep, PTL DEF ScriptSpec

(* SPEC-05, Stack::push, execute_bytecode: whatever contract is spent and  *)
(* whatever unlocking script the spender writes, stack depth, element size *)
(* and the operations of both scripts stay within their limits.            *)
THEOREM ContractsStayBounded == ScriptSpec => []ScriptTypeOK
<1>1. ScriptInv => ScriptTypeOK
  BY DEF ScriptInv
<1> QED BY <1>1, ScriptInvariance, PTL

(* OP_ADD and OP_SUB: on whatever stack two scripts can build, the result  *)
(* decodes to the exact sum or difference, or the script fails, for        *)
(* integers of any width and operands shorter than it.                     *)
THEOREM ArithmeticIsExact == ScriptSpec => []ArithmeticExact
<1>1. ScriptInv => ArithmeticExact
  <2> SUFFICES ASSUME ScriptInv, Operands(stack)
               PROVE  LET a == decode_script_int(Second(stack))
                          b == decode_script_int(Top(stack))
                      IN  /\ \A s \in execute(Op("Add"), stack) : decode_script_int(Top(s)) = a + b
                          /\ \A s \in execute(Op("Sub"), stack) : decode_script_int(Top(s)) = a - b
    BY DEF ArithmeticExact
  <2>1. Sound(stack) /\ Has(stack, 2)
    BY DEF ScriptInv, Operands
  <2>2. PICK a \in Int, b \in Int :
            a = decode_script_int(Second(stack)) /\ b = decode_script_int(Top(stack))
    BY <2>1, OperandInt
  <2>3. /\ execute(Op("Add"), stack) = Arithmetic(stack, a + b)
        /\ execute(Op("Sub"), stack) = Arithmetic(stack, a - b)
    BY <2>2, ConstantNames DEF execute, Op
  <2>4. a + b \in Int /\ a - b \in Int
    BY <2>2
  <2>5. /\ \A s \in Arithmetic(stack, a + b) : decode_script_int(Top(s)) = a + b
        /\ \A s \in Arithmetic(stack, a - b) : decode_script_int(Top(s)) = a - b
    BY <2>1, <2>4, ArithmeticSound
  <2> QED BY <2>2, <2>3, <2>5
<1> QED BY <1>1, ScriptInvariance, PTL
-----------------------------------------------------------------------------
(***************************************************************************)
(* Guarded. There are no jumps, so each operation of the locking script    *)
(* before position has run, in order, and what the next one finds on top   *)
(* of the stack is what the one before it left. The invariant follows that *)
(* through the locking script, from a stack of which only one thing is     *)
(* known: the spender has supplied each secret on it.                      *)
(***************************************************************************)
Known(x, K) == x \in Secrets => x \in K

(* v is what operation i leaves on top.                                    *)
Left(L, i, v, K) ==
    /\ Shown(L, i) # {} => v \in Shown(L, i)
    /\ L[i].name = "Hash256" => v.of # <<>> /\ v = Digest(v.of[1]) /\ Known(v.of[1], K)

(* The check that is operation j held.                                     *)
Passed(L, j, K) ==
    j > 1 /\ L[j - 1].name = "Push" =>
        /\ L[j].name \in Equalities /\ j > 2 => Left(L, j - 2, L[j - 1].data, K)
        /\ L[j].name \in Signatures =>
               \E pair \in Signed : pair[1] = L[j - 1].data /\ Known(pair[2], K)

(* The stack s before operation p.                                         *)
OnTop(L, p, s, K) ==
    p > 1 /\ Has(s, 1) =>
        /\ Left(L, p - 1, Top(s), K)
        /\ L[p - 1].name \in {"Equal", "CheckSig"} /\ is_truthy(Top(s)) => Passed(L, p - 1, K)

Below(L, p, s, K) ==
    p > 2 /\ Has(s, 2) /\ L[p - 1].name = "Push" => Left(L, p - 2, Second(s), K)

Held(L, j, K) ==
    /\ L[j].name \in {"EqualVerify", "CheckSigVerify"} => Passed(L, j, K)
    /\ L[j].name = "Verify" /\ j > 1 /\ L[j - 1].name \in {"Equal", "CheckSig"} =>
           Passed(L, j - 1, K)

Traced(L, p, s, K) ==
    OnTop(L, p, s, K) /\ Below(L, p, s, K) /\ \A j \in 1 .. p - 1 : Held(L, j, K)

AllKnown(s, K) == \A i \in 1 .. Len(s) : Known(s[i], K)

GuardInv ==
    /\ ScriptInv
    /\ AllKnown(stack, supplied)
    /\ phase = "unlocking" => position = 1
    /\ phase = "locking" => Traced(contract.locking, position, stack, supplied)
    /\ phase = "true" =>
           \A j \in 1 .. Len(contract.locking) :
               Enforced(contract.locking, j) => Passed(contract.locking, j, supplied)

(* A secret is none of the elements that operations compute or read.       *)
LEMMA NothingForged ==
    /\ \A b, K : Known(Bool(b), K)
    /\ \A n, K : Known(Int64(n), K)
    /\ \A x, K : Known(Digest(x), K)
    /\ \A name \in DOMAIN Constant : \A K : Known(Constant[name], K)
<1>1. True \notin Secrets /\ False \notin Secrets
  <2>1. Constant["True"] = True /\ Constant["False"] = False
    BY DEF Constant
  <2> QED BY <2>1, ConstantNames, DemandAssumption
<1>2. \A n : Int64(n) \notin Secrets
  BY DemandAssumption DEF Int64, Bytes
<1>3. \A x : Digest(x).of # <<>>
  BY DEF Digest
<1>4. \A x : Digest(x) \notin Secrets
  BY <1>3, DemandAssumption
<1> QED BY <1>1, <1>2, <1>4, DemandAssumption DEF Known, Bool

LEMMA KnownElements ==
    ASSUME NEW s, Sound(s), NEW K, AllKnown(s, K)
    PROVE  /\ Has(s, 1) => Known(Top(s), K)
           /\ Has(s, 2) => Known(Second(s), K)
  BY SoundElements DEF AllKnown, Has, Top, Second

LEMMA CutKnown ==
    ASSUME NEW s, Sound(s), NEW K, AllKnown(s, K), NEW k \in Nat, k <= Len(s)
    PROVE  AllKnown(SubSeq(s, 1, k), K)
<1>1. PICK S : s \in Seq(S)
  BY DEF Sound
<1>2. Len(SubSeq(s, 1, k)) = k /\ \A i \in 1 .. k : SubSeq(s, 1, k)[i] = s[i]
  BY <1>1
<1>3. \A i \in 1 .. k : i \in 1 .. Len(s)
  BY <1>1
<1> QED BY <1>2, <1>3 DEF AllKnown

LEMMA FrontKnown ==
    ASSUME NEW s, Sound(s), NEW K, AllKnown(s, K), Has(s, 1)
    PROVE  AllKnown(Front(s), K)
<1>1. Len(s) \in Nat /\ Len(s) >= 1
  BY SoundElements DEF Has
<1>2. Len(s) - 1 \in Nat /\ Len(s) - 1 <= Len(s)
  BY <1>1
<1> QED BY <1>2, CutKnown DEF Front

(* A push puts x on top of what was there.                                 *)
LEMMA PushShape ==
    ASSUME NEW s, Sound(s), NEW x, NEW r \in push(s, x)
    PROVE  /\ Len(r) = Len(s) + 1 /\ Len(s) \in Nat
           /\ Top(r) = x
           /\ Has(s, 1) => Second(r) = Top(s)
           /\ \A K : AllKnown(s, K) /\ Known(x, K) => AllKnown(r, K)
<1>1. PICK S : s \in Seq(S)
  BY DEF Sound
<1>2. r = Append(s, x)
  BY DEF push
<1>3. /\ Len(r) = Len(s) + 1 /\ Len(s) \in Nat /\ r[Len(s) + 1] = x
      /\ \A i \in 1 .. Len(s) : r[i] = s[i]
  BY <1>1, <1>2
<1>4. Has(s, 1) => Second(r) = Top(s)
  BY <1>3 DEF Has, Second, Top
<1>5. \A K : AllKnown(s, K) /\ Known(x, K) => AllKnown(r, K)
  BY <1>3 DEF AllKnown
<1> QED BY <1>3, <1>4, <1>5 DEF Top

LEMMA ReplaceShape ==
    ASSUME NEW s, Sound(s), NEW n \in Nat, Has(s, n), NEW x, NEW r \in Replace(s, n, x)
    PROVE  /\ Top(r) = x
           /\ \A K : AllKnown(s, K) /\ Known(x, K) => AllKnown(r, K)
<1>1. Len(s) \in Nat /\ Len(s) >= n
  BY SoundElements DEF Has
<1>2. Len(s) - n \in Nat /\ Len(s) - n <= Len(s)
  BY <1>1
<1>3. PICK t : t = SubSeq(s, 1, Len(s) - n)
  OBVIOUS
<1>4. Sound(t) /\ \A K : AllKnown(s, K) => AllKnown(t, K)
  BY <1>2, <1>3, CutSound, CutKnown
<1>5. r \in push(t, x)
  BY <1>3 DEF Replace
<1> QED BY <1>4, <1>5, PushShape

LEMMA SwapKnown ==
    ASSUME NEW s, Sound(s), NEW K, AllKnown(s, K), Has(s, 2)
    PROVE  AllKnown(Front(Front(s)) \o <<Top(s), Second(s)>>, K)
<1>1. Has(s, 1) /\ Sound(Front(s)) /\ Has(Front(s), 1)
  BY FrontSound, SoundElements DEF Has
<1>2. PICK u, a, b : u = Front(Front(s)) /\ a = Top(s) /\ b = Second(s)
  OBVIOUS
<1>3. Sound(u) /\ AllKnown(u, K) /\ Known(a, K) /\ Known(b, K)
  BY <1>1, <1>2, FrontSound, FrontKnown, KnownElements
<1>4. PICK S : u \in Seq(S)
  BY <1>3 DEF Sound
<1>5. PICK T : T = S \cup {a, b}
  OBVIOUS
<1>6. u \in Seq(T) /\ <<a, b>> \in Seq(T)
  BY <1>4, <1>5
<1>7. /\ Len(u \o <<a, b>>) = Len(u) + 2 /\ Len(u) \in Nat
      /\ \A i \in 1 .. Len(u) : (u \o <<a, b>>)[i] = u[i]
      /\ (u \o <<a, b>>)[Len(u) + 1] = a /\ (u \o <<a, b>>)[Len(u) + 2] = b
  BY <1>6
<1>8. ASSUME NEW i \in 1 .. Len(u) + 2 PROVE Known((u \o <<a, b>>)[i], K)
  <2>1. i \in 1 .. Len(u) \/ i = Len(u) + 1 \/ i = Len(u) + 2
    BY <1>7
  <2> QED BY <1>3, <1>7, <2>1 DEF AllKnown
<1> QED BY <1>2, <1>7, <1>8 DEF AllKnown

LEMMA OutputNamed ==
    ASSUME NEW s, Sound(s), NamesOutput(s)
    PROVE  Has(s, 1) /\ \E k \in 1 .. Len(Context.outputs) :
                            Top(s).val = k - 1 /\ Output(s) = Context.outputs[k]
<1>1. Has(s, 1) /\ IsElement(Top(s)) /\ Top(s).val < Len(Context.outputs)
  BY SoundElements DEF NamesOutput
<1>2. Top(s).val \in Nat
  BY <1>1, ValuesFacts DEF IsElement
<1>3. Len(Context.outputs) \in Nat
  BY ContextAssumption, ValuesFacts, Widths
<1>4. Top(s).val + 1 \in 1 .. Len(Context.outputs) /\ Top(s).val = (Top(s).val + 1) - 1
  BY <1>1, <1>2, <1>3
<1> QED BY <1>1, <1>4 DEF Output

(* No operation puts a secret on the stack, except by pushing or           *)
(* duplicating it.                                                         *)
LEMMA ExecuteKnown ==
    ASSUME NEW s, Sound(s), NEW op, IsOperation(op), NEW r \in execute(op, s),
           NEW K, AllKnown(s, K), Known(op.data, K)
    PROVE  AllKnown(r, K)
<1>1. Has(s, 2) => Has(s, 1)
  BY SoundElements DEF Has
<1>2. CASE op.name = "Push"
  <2>1. r \in push(s, op.data)
    BY <1>2, ConstantNames DEF execute
  <2> QED BY <2>1, PushShape
<1>3. CASE op.name \in DOMAIN Constant
  <2>1. r \in push(s, Constant[op.name])
    BY <1>3, ConstantNames DEF execute
  <2> QED BY <1>3, <2>1, NothingForged, PushShape
<1>4. CASE op.name \in {"Nop", "Return", "Invalid"}
  <2>1. r = s
    BY <1>4, ConstantNames DEF execute
  <2> QED BY <2>1
<1>5. CASE op.name \in {"Verify", "Drop"}
  <2>1. Consumes(op, s) /\ r = Front(s)
    BY <1>5, ConstantNames DEF execute
  <2>2. Has(s, 1)
    BY <1>5, <2>1 DEF Consumes
  <2> QED BY <2>1, <2>2, FrontKnown
<1>6. CASE op.name \in {"EqualVerify", "CheckSigVerify"}
  <2>1. Consumes(op, s) /\ r = Front(Front(s))
    BY <1>6, ConstantNames DEF execute
  <2>2. Has(s, 2) /\ Has(s, 1)
    BY <1>1, <1>6, <2>1 DEF Consumes
  <2>3. Sound(Front(s)) /\ Has(Front(s), 1) /\ AllKnown(Front(s), K)
    BY <2>2, FrontSound, FrontKnown, SoundElements DEF Has
  <2> QED BY <2>1, <2>3, FrontKnown
<1>7. CASE op.name = "Dup"
  <2>1. Has(s, 1) /\ r \in push(s, Top(s))
    BY <1>7, ConstantNames DEF execute
  <2> QED BY <2>1, KnownElements, PushShape
<1>8. CASE op.name = "Swap"
  <2>1. Has(s, 2) /\ r = Front(Front(s)) \o <<Top(s), Second(s)>>
    BY <1>8, ConstantNames DEF execute
  <2> QED BY <2>1, SwapKnown
<1>9. CASE op.name \in {"Equal", "CheckSig"}
  <2>1. Has(s, 2) /\ \E b : r \in Replace(s, 2, Bool(b))
    <3>1. CASE op.name = "Equal"
      <4>1. Has(s, 2) /\ r \in Replace(s, 2, Bool(Top(s) = Second(s)))
        BY <3>1, ConstantNames DEF execute
      <4> QED BY <4>1, Zenon
    <3>2. CASE op.name = "CheckSig"
      <4>1. Has(s, 2) /\ r \in Replace(s, 2, Bool(verify_ed25519(s)))
        BY <3>2, ConstantNames DEF execute
      <4> QED BY <4>1, Zenon
    <3> QED BY <1>9, <3>1, <3>2
  <2> QED BY <2>1, NothingForged, ReplaceShape
<1>10. CASE op.name \in {"Add", "Sub"}
  <2>1. Has(s, 2)
    BY <1>10, ConstantNames DEF execute, Operands
  <2>2. PICK a, b : a = decode_script_int(Second(s)) /\ b = decode_script_int(Top(s))
    OBVIOUS
  <2>3. r \in Arithmetic(s, a + b) \/ r \in Arithmetic(s, a - b)
    BY <1>10, <2>2, ConstantNames DEF execute
  <2>4. \E n : r \in Replace(s, 2, Int64(n))
    BY <2>3 DEF Arithmetic
  <2> QED BY <2>1, <2>4, NothingForged, ReplaceShape
<1>11. CASE op.name = "Hash256"
  <2>1. Has(s, 1) /\ r \in Replace(s, 1, Digest(Top(s)))
    BY <1>11, ConstantNames DEF execute
  <2> QED BY <2>1, NothingForged, ReplaceShape
<1>12. CASE op.name \in OutputFields
  <2>1. NamesOutput(s) /\ r \in Replace(s, 1, Field(op.name, Output(s)))
    BY <1>12, ConstantNames DEF execute
  <2>2. Has(s, 1) /\ Known(Field(op.name, Output(s)), K)
    BY <1>12, <2>1, OutputNamed, DemandAssumption DEF Known
  <2> QED BY <2>1, <2>2, ReplaceShape
<1> QED BY <1>2, <1>3, <1>4, <1>5, <1>6, <1>7, <1>8, <1>9, <1>10, <1>11, <1>12
        DEF IsOperation, OpNames

(* A locking script is a sequence of operations.                           *)
IsScript(L) ==
    /\ Len(L) \in Nat /\ DOMAIN L = 1 .. Len(L)
    /\ \A i \in 1 .. Len(L) : IsOperation(L[i]) /\ L[i].data \notin Secrets

LEMMA LockingScripts == \A c \in Contracts : IsScript(c.locking)
<1> SUFFICES ASSUME NEW c \in Contracts PROVE IsScript(c.locking)
  OBVIOUS
<1>1. c.locking \in Seq(ToSet(c.locking))
  BY ContractAssumption
<1>2. Len(c.locking) \in Nat /\ DOMAIN c.locking = 1 .. Len(c.locking)
  BY <1>1
<1> QED BY <1>2, ContractAssumption, DemandAssumption DEF IsScript

(* What is on top after operation p.                                       *)
LEMMA ShownOnTop ==
    ASSUME NEW L, IsScript(L), NEW p \in 1 .. Len(L), NEW s, Sound(s), NEW K, AllKnown(s, K),
           OnTop(L, p, s, K), NEW r \in execute(L[p], s)
    PROVE  Left(L, p, Top(r), K)
<1>1. CASE L[p].name = "Push"
  <2>1. r \in push(s, L[p].data) /\ Shown(L, p) = {L[p].data}
    BY <1>1, ConstantNames DEF execute, Shown
  <2> QED BY <1>1, <2>1, PushShape DEF Left
<1>2. CASE L[p].name \in DOMAIN Constant
  <2>1. r \in push(s, Constant[L[p].name]) /\ Shown(L, p) = {Constant[L[p].name]}
    BY <1>2, ConstantNames DEF execute, Shown
  <2>2. L[p].name # "Hash256"
    BY <1>2, ConstantNames
  <2> QED BY <2>1, <2>2, PushShape DEF Left
<1>3. CASE L[p].name = "Hash256"
  <2>1. Has(s, 1) /\ r \in Replace(s, 1, Digest(Top(s))) /\ Shown(L, p) = {}
    BY <1>3, ConstantNames DEF execute, Shown
  <2>2. Top(r) = Digest(Top(s)) /\ Known(Top(s), K)
    BY <2>1, ReplaceShape, KnownElements
  <2>3. Digest(Top(s)).of = <<Top(s)>>
    BY DEF Digest
  <2>4. Top(r).of # <<>> /\ Top(r).of[1] = Top(s)
    BY <2>2, <2>3
  <2> QED BY <2>1, <2>2, <2>4 DEF Left
<1>4. CASE L[p].name \in OutputFields
  <2>0. L[p].name # "Hash256" /\ L[p].name # "Push" /\ L[p].name \notin DOMAIN Constant
    BY <1>4, ConstantNames
  <2>1. NamesOutput(s) /\ r \in Replace(s, 1, Field(L[p].name, Output(s)))
    BY <1>4, ConstantNames DEF execute
  <2>2. PICK k \in 1 .. Len(Context.outputs) :
            Top(s).val = k - 1 /\ Output(s) = Context.outputs[k]
    BY <2>1, OutputNamed
  <2>3. Has(s, 1) /\ Top(r) = Field(L[p].name, Context.outputs[k])
    BY <2>1, <2>2, OutputNamed, ReplaceShape
  <2>4. CASE p > 1 /\ L[p - 1].name = "Push"
    <3>1. Shown(L, p - 1) = {L[p - 1].data}
      BY <2>4, ConstantNames DEF Shown
    <3>2. Top(s) = L[p - 1].data
      BY <2>3, <2>4, <3>1 DEF OnTop, Left
    <3>3. Shown(L, p) = {Field(L[p].name, Context.outputs[i]) :
                            i \in {i \in 1 .. Len(Context.outputs) :
                                      L[p - 1].name = "Push" /\ L[p - 1].data.val = i - 1}}
      BY <1>4, <2>0, <2>4 DEF Shown
    <3>4. Field(L[p].name, Context.outputs[k]) \in Shown(L, p)
      BY <2>2, <2>4, <3>2, <3>3
    <3> QED BY <2>0, <2>3, <3>4 DEF Left
  <2>5. CASE ~(p > 1 /\ L[p - 1].name = "Push")
    <3>1. Shown(L, p) = {}
      BY <1>4, <2>0, <2>5 DEF Shown
    <3> QED BY <2>0, <3>1 DEF Left
  <2> QED BY <2>4, <2>5
<1>5. CASE L[p].name \notin DOMAIN Constant \cup OutputFields \cup {"Push", "Hash256"}
  <2>1. Shown(L, p) = {}
    BY <1>5 DEF Shown
  <2> QED BY <1>5, <2>1 DEF Left
<1> QED BY <1>1, <1>2, <1>3, <1>4, <1>5

(* A comparison or a signature check that holds of the stack before it.    *)
LEMMA CheckHolds ==
    ASSUME NEW L, NEW p \in Nat, NEW s, Sound(s), NEW K, AllKnown(s, K), Has(s, 2),
           OnTop(L, p, s, K), Below(L, p, s, K),
           L[p].name \in Equalities => Top(s) = Second(s),
           L[p].name \in Signatures => verify_ed25519(s)
    PROVE  Passed(L, p, K)
<1> SUFFICES ASSUME p > 1, L[p - 1].name = "Push"
             PROVE  /\ L[p].name \in Equalities /\ p > 2 => Left(L, p - 2, L[p - 1].data, K)
                    /\ L[p].name \in Signatures =>
                           \E pair \in Signed : pair[1] = L[p - 1].data /\ Known(pair[2], K)
  BY DEF Passed
<1>1. Has(s, 1)
  BY SoundElements DEF Has
<1>2. Shown(L, p - 1) = {L[p - 1].data}
  BY ConstantNames DEF Shown
<1>3. Top(s) = L[p - 1].data
  BY <1>1, <1>2 DEF OnTop, Left
<1>4. ASSUME L[p].name \in Equalities, p > 2 PROVE Left(L, p - 2, L[p - 1].data, K)
  BY <1>3, <1>4 DEF Below
<1>5. ASSUME L[p].name \in Signatures
      PROVE  \E pair \in Signed : pair[1] = L[p - 1].data /\ Known(pair[2], K)
  <2>1. <<Top(s), Second(s)>> \in Signed /\ Known(Second(s), K)
    BY <1>5, KnownElements DEF verify_ed25519
  <2> QED BY <1>3, <2>1
<1> QED BY <1>4, <1>5

LEMMA ExecuteTraced ==
    ASSUME NEW L, IsScript(L), NEW p \in 1 .. Len(L), NEW s, Sound(s), NEW K, AllKnown(s, K),
           Traced(L, p, s, K), NEW r \in execute(L[p], s)
    PROVE  Traced(L, p + 1, r, K)
<1>0. /\ p \in Nat /\ (p + 1) - 1 = p /\ (p + 1) - 2 = p - 1 /\ p + 1 > 1
      /\ OnTop(L, p, s, K) /\ Below(L, p, s, K) /\ \A j \in 1 .. p - 1 : Held(L, j, K)
  BY DEF Traced, IsScript
<1>1. Left(L, p, Top(r), K)
  BY <1>0, ShownOnTop
<1>2. ASSUME L[p].name \in {"Equal", "CheckSig"}, is_truthy(Top(r)) PROVE Passed(L, p, K)
  <2>0. ~is_truthy(False)
    BY DEF is_truthy, False, Bytes
  <2>1. CASE L[p].name = "Equal"
    <3>1. Has(s, 2) /\ r \in Replace(s, 2, Bool(Top(s) = Second(s)))
      BY <2>1, ConstantNames DEF execute
    <3>2. Top(s) # Second(s) => Top(r) = False
      <4>1. Top(s) # Second(s) => r \in Replace(s, 2, False)
        BY <3>1 DEF Bool
      <4> QED BY <3>1, <4>1, ReplaceShape
    <3>3. Top(s) = Second(s)
      BY <1>2, <2>0, <3>2
    <3> QED BY <1>0, <2>1, <3>1, <3>3, CheckHolds DEF Signatures
  <2>2. CASE L[p].name = "CheckSig"
    <3>1. Has(s, 2) /\ r \in Replace(s, 2, Bool(verify_ed25519(s)))
      BY <2>2, ConstantNames DEF execute
    <3>2. ~verify_ed25519(s) => Top(r) = False
      <4>1. ~verify_ed25519(s) => r \in Replace(s, 2, False)
        BY <3>1 DEF Bool
      <4> QED BY <3>1, <4>1, ReplaceShape
    <3>3. verify_ed25519(s)
      BY <1>2, <2>0, <3>2
    <3> QED BY <1>0, <2>2, <3>1, <3>3, CheckHolds DEF Equalities
  <2> QED BY <1>2, <2>1, <2>2
<1>3. OnTop(L, p + 1, r, K)
  BY <1>0, <1>1, <1>2 DEF OnTop
<1>4. Below(L, p + 1, r, K)
  <2> SUFFICES ASSUME p + 1 > 2, Has(r, 2), L[p].name = "Push" PROVE Left(L, p - 1, Second(r), K)
    BY <1>0 DEF Below
  <2>1. r \in push(s, L[p].data)
    BY ConstantNames DEF execute
  <2>2. Has(s, 1)
    BY <2>1, PushShape DEF Has
  <2>3. Second(r) = Top(s)
    BY <2>1, <2>2, PushShape
  <2> QED BY <1>0, <2>2, <2>3 DEF OnTop
<1>5. Held(L, p, K)
  <2>1. ASSUME L[p].name \in {"EqualVerify", "CheckSigVerify"} PROVE Passed(L, p, K)
    <3>1. Consumes(L[p], s)
      BY <2>1, ConstantNames DEF execute
    <3>2. /\ Has(s, 2)
          /\ L[p].name = "EqualVerify" => Top(s) = Second(s)
          /\ L[p].name = "CheckSigVerify" => verify_ed25519(s)
      BY <2>1, <3>1 DEF Consumes
    <3> QED BY <1>0, <2>1, <3>2, CheckHolds DEF Equalities, Signatures
  <2>2. ASSUME L[p].name = "Verify", p > 1, L[p - 1].name \in {"Equal", "CheckSig"}
        PROVE  Passed(L, p - 1, K)
    <3>1. Consumes(L[p], s)
      BY <2>2, ConstantNames DEF execute
    <3>2. Has(s, 1) /\ is_truthy(Top(s))
      BY <2>2, <3>1 DEF Consumes
    <3> QED BY <1>0, <2>2, <3>2 DEF OnTop
  <2> QED BY <2>1, <2>2 DEF Held
<1>6. \A j \in 1 .. (p + 1) - 1 : Held(L, j, K)
  BY <1>0, <1>5
<1> QED BY <1>3, <1>4, <1>6 DEF Traced

LEMMA GuardInitial == ScriptInit => GuardInv
<1> SUFFICES ASSUME ScriptInit PROVE GuardInv
  OBVIOUS
<1>1. PICK given : given = contract.datum \o contract.redeemer
  OBVIOUS
<1>2. /\ phase \in {"unlocking", "error"} /\ (stack = <<>> \/ stack = given)
      /\ supplied = Secrets \cap ToSet(given) /\ position = 1
  BY <1>1 DEF ScriptInit
<1>3. ScriptInv
  BY ScriptInitial
<1>4. Sound(stack)
  BY <1>3 DEF ScriptInv
<1>5. ASSUME NEW i \in 1 .. Len(stack) PROVE Known(stack[i], supplied)
  <2>1. stack = given /\ i \in DOMAIN given
    BY <1>2, <1>4, <1>5, SoundElements
  <2>2. given[i] \in ToSet(given)
    BY <2>1 DEF ToSet
  <2> QED BY <1>2, <2>1, <2>2 DEF Known
<1> QED BY <1>2, <1>3, <1>5 DEF GuardInv, AllKnown

(* Supplying more makes nothing unknown.                                   *)
LEMMA KnownGrows ==
    ASSUME NEW s, NEW K, NEW M, AllKnown(s, K), K \subseteq M
    PROVE  AllKnown(s, M)
  BY DEF AllKnown, Known

LEMMA GuardStep == GuardInv /\ [ScriptNext]_scriptVars => GuardInv'
<1> SUFFICES ASSUME GuardInv, [ScriptNext]_scriptVars PROVE GuardInv'
  OBVIOUS
<1>0. ScriptInv /\ Sound(stack) /\ AllKnown(stack, supplied) /\ contract \in Contracts
  BY DEF GuardInv, ScriptInv, ScriptTypeOK
<1>1. ScriptInv'
  BY <1>0, ScriptStep
<1>2. AllKnown(<<>>, supplied')
  BY DEF AllKnown
<1>3. ASSUME NEW op \in Operations, StepUnlocking(op) PROVE GuardInv'
  <2>1. IsOperation(op)
    BY ContractAssumption, FixedElements DEF Operations, IsOperation, Op, Push
  <2>2. supplied \subseteq supplied' /\ Known(op.data, supplied')
    BY <1>3 DEF StepUnlocking, Known
  <2>3. AllKnown(stack, supplied')
    BY <1>0, <2>2, KnownGrows
  <2>4. /\ phase' \in {"unlocking", "error"} /\ position' = position /\ phase = "unlocking"
        /\ stack' \in execute(op, stack) \/ stack' = <<>>
    BY <1>3 DEF StepUnlocking, Run, Abort
  <2>5. AllKnown(stack', supplied')
    BY <1>0, <1>2, <2>1, <2>2, <2>3, <2>4, ExecuteKnown
  <2> QED BY <1>0, <1>1, <2>4, <2>5 DEF GuardInv
<1>4. CASE BeginLocking
  <2>1. phase' = "locking" /\ stack' = stack /\ supplied' = supplied
    BY <1>4 DEF BeginLocking
  <2>2. position' = 1
    <3>1. phase = "unlocking" /\ position' = position
      BY <1>4 DEF BeginLocking
    <3> QED BY <1>0, <3>1 DEF GuardInv
  <2> QED BY <1>0, <1>1, <2>1, <2>2 DEF GuardInv, Traced, OnTop, Below
<1>5. CASE StepLocking
  <2>1. PICK L, p, K : L = contract.locking /\ p = position /\ K = supplied
    OBVIOUS
  <2>2. /\ IsScript(L) /\ p \in 1 .. Len(L) /\ Traced(L, p, stack, K)
        /\ contract' = contract /\ supplied' = supplied /\ position' = p + 1
        /\ phase = "locking" /\ (Run(L[p]) \/ Abort(L[p]))
    <3>1. IsScript(L)
      BY <1>0, <2>1, LockingScripts
    <3>2. p \in 1 .. Len(L) + 1 /\ p <= Len(L)
      BY <1>0, <1>5, <2>1 DEF ScriptInv, ScriptTypeOK, StepLocking
    <3>3. p \in 1 .. Len(L)
      BY <3>1, <3>2 DEF IsScript
    <3> QED BY <1>5, <2>1, <3>1, <3>3 DEF StepLocking, GuardInv
  <2>3. CASE Abort(L[p])
    <3>1. phase' = "error" /\ stack' = <<>>
      BY <2>3 DEF Abort
    <3> QED BY <1>1, <1>2, <3>1 DEF GuardInv
  <2>4. CASE Run(L[p])
    <3>1. stack' \in execute(L[p], stack) /\ phase' = "locking"
      BY <2>2, <2>4 DEF Run
    <3>2. IsOperation(L[p]) /\ Known(L[p].data, K)
      BY <2>2 DEF IsScript, Known
    <3>3. AllKnown(stack', K)
      BY <1>0, <2>1, <3>1, <3>2, ExecuteKnown
    <3>4. Traced(L, p + 1, stack', K)
      BY <1>0, <2>1, <2>2, <3>1, ExecuteTraced
    <3> QED BY <1>1, <2>1, <2>2, <3>1, <3>3, <3>4 DEF GuardInv
  <2> QED BY <2>2, <2>3, <2>4
<1>6. CASE Judge
  <2>1. PICK L, p, K : L = contract.locking /\ p = position /\ K = supplied
    OBVIOUS
  <2>2. /\ contract' = contract /\ stack' = stack /\ supplied' = supplied
        /\ phase' \in {"true", "false"} /\ Traced(L, p, stack, K)
        /\ phase' = "true" => Len(stack) = 1 /\ is_truthy(Top(stack))
    BY <1>6, <2>1 DEF Judge, GuardInv
  <2>3. IsScript(L) /\ p = Len(L) + 1
    <3>1. IsScript(L)
      BY <1>0, <2>1, LockingScripts
    <3>2. p \in 1 .. Len(L) + 1 /\ p > Len(L)
      BY <1>0, <1>6, <2>1 DEF ScriptInv, ScriptTypeOK, Judge
    <3> QED BY <3>1, <3>2 DEF IsScript
  <2>4. ASSUME phase' = "true", NEW j \in 1 .. Len(L), Enforced(L, j) PROVE Passed(L, j, K)
    <3>0. /\ Len(L) \in Nat /\ p - 1 = Len(L)
          /\ OnTop(L, p, stack, K) /\ \A i \in 1 .. Len(L) : Held(L, i, K)
      BY <2>2, <2>3 DEF IsScript, Traced
    <3>1. CASE L[j].name \in {"EqualVerify", "CheckSigVerify"}
      BY <3>0, <3>1 DEF Held
    <3>2. CASE L[j].name \in {"Equal", "CheckSig"} /\ j = Len(L)
      <4>1. p > 1 /\ Has(stack, 1) /\ is_truthy(Top(stack)) /\ p - 1 = j
        BY <2>2, <2>3, <2>4, <3>0, <3>2 DEF Has
      <4> QED BY <3>0, <3>2, <4>1 DEF OnTop
    <3>3. CASE L[j].name \in {"Equal", "CheckSig"} /\ j # Len(L) /\ L[j + 1].name = "Verify"
      <4>1. j + 1 \in 1 .. Len(L) /\ j + 1 > 1 /\ (j + 1) - 1 = j
        BY <3>0, <3>3
      <4>2. Held(L, j + 1, K)
        BY <3>0, <4>1
      <4> QED BY <3>3, <4>1, <4>2 DEF Held
    <3> QED BY <2>4, <3>1, <3>2, <3>3 DEF Enforced
  <2> QED BY <1>0, <1>1, <2>1, <2>2, <2>4 DEF GuardInv
<1>7. CASE UNCHANGED scriptVars
  BY <1>0, <1>1, <1>7 DEF GuardInv, scriptVars
<1> QED BY <1>3, <1>4, <1>5, <1>6, <1>7 DEF ScriptNext

(* execute_contract, OP_CHECKSIG, OP_EQUAL, OP_HASH256 and the operations  *)
(* that read the ScriptContext: for every contract that names a signature, *)
(* a digest or a value of the Context in an enforced check, and whatever   *)
(* unlocking script runs before it on the same stack, acceptance means     *)
(* that the spender has supplied each demanded secret and that the Context *)
(* is the one asked for. The stack the unlocking script leaves, its use of *)
(* OP_DUP, OP_SWAP and arithmetic, and the datum and redeemer under it     *)
(* cannot take the place of either.                                        *)
THEOREM ContractsAreGuarded == ScriptSpec => []Guarded
<1>1. GuardInv => Guarded
  <2> SUFFICES ASSUME GuardInv, phase = "true" PROVE contract.needs \subseteq supplied /\ contract.met
    BY DEF Guarded
  <2>1. PICK L, K : L = contract.locking /\ K = supplied
    OBVIOUS
  <2>2. contract \in Contracts
    BY DEF GuardInv, ScriptInv, ScriptTypeOK
  <2>3. \A j \in 1 .. Len(L) : Enforced(L, j) => Passed(L, j, K)
    BY <2>1 DEF GuardInv
  <2>4. Len(L) \in Nat
    BY <2>1, <2>2, LockingScripts DEF IsScript
  <2>5. ASSUME NEW x \in contract.needs PROVE x \in K
    <3>1. x \in Secrets /\ Demands(L, x)
      BY <2>1, <2>2, <2>5, DemandAssumption
    <3>2. PICK j \in 2 .. Len(L) :
            /\ Enforced(L, j) /\ L[j - 1].name = "Push"
            /\ \/ /\ L[j].name \in Signatures
                  /\ \A pair \in Signed : pair[1] = L[j - 1].data => pair[2] = x
               \/ /\ L[j].name \in Equalities /\ j > 2
                  /\ L[j - 2].name = "Hash256" /\ L[j - 1].data = Digest(x)
      BY <3>1 DEF Demands
    <3>3. Passed(L, j, K) /\ j > 1
      BY <2>3, <2>4, <3>2
    <3>4. CASE L[j].name \in Signatures /\ \A pair \in Signed : pair[1] = L[j - 1].data => pair[2] = x
      BY <3>1, <3>2, <3>3, <3>4 DEF Passed, Known
    <3>5. CASE /\ L[j].name \in Equalities /\ j > 2
               /\ L[j - 2].name = "Hash256" /\ L[j - 1].data = Digest(x)
      <4>1. Known(Digest(x).of[1], K)
        BY <3>2, <3>3, <3>5 DEF Passed, Left
      <4>2. Digest(x).of[1] = x
        BY DEF Digest
      <4> QED BY <3>1, <4>1, <4>2 DEF Known
    <3> QED BY <3>2, <3>4, <3>5
  <2>6. ~Refuses(L)
    <3> SUFFICES ASSUME NEW j \in 3 .. Len(L), Enforced(L, j), L[j].name \in Equalities,
                        L[j - 1].name = "Push", Shown(L, j - 2) # {}
                 PROVE  L[j - 1].data \in Shown(L, j - 2)
      BY DEF Refuses
    <3>1. Passed(L, j, K) /\ j > 1 /\ j > 2
      BY <2>3, <2>4
    <3> QED BY <3>1 DEF Passed, Left
  <2> QED BY <2>1, <2>2, <2>5, <2>6, DemandAssumption
<1>2. ScriptSpec => []GuardInv
  BY GuardInitial, GuardStep, PTL DEF ScriptSpec
<1> QED BY <1>1, <1>2, PTL
=============================================================================
