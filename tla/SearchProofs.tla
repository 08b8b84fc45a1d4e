---------------------------- MODULE SearchProofs ----------------------------
(***************************************************************************)
(* Theorems about Target and Search: for targets of any length, any number *)
(* of threads, any batch and any nonce space.                              *)
(***************************************************************************)
EXTENDS Search, DataLemmas

(* What expanding the bits b gives when they are valid, byte by byte.      *)
Expanded(e, m) ==
    [i \in 1 .. Length |-> IF i - (Length - e) \in 1 .. 3 THEN m[i - (Length - e)] ELSE 0]

(* Arithmetic of bytes and of the sign bit.                                *)
LEMMA Signs ==
    /\ Length \in Nat /\ Length > 3
    /\ Radix \in Nat /\ Radix > 1
    /\ SignBit \in Nat \ {0}
    /\ \A x \in Byte : x % SignBit \in 0 .. SignBit - 1
    /\ \A x \in Byte : x < SignBit => x % SignBit = x
    /\ 0 \in Byte
    /\ \A x \in Byte : x \in Nat /\ x % SignBit \in Byte
<1>1. Length \in Nat /\ Length > 3 /\ Radix \in Nat /\ Radix > 1
  BY SizeAssumption
<1>2. SignBit \in Nat \ {0} /\ SignBit < Radix
  BY <1>1 DEF SignBit
<1>3. \A s \in Nat \ {0} : \A x \in Nat : x % s \in 0 .. s - 1 /\ (x < s => x % s = x)
  OBVIOUS
<1>4. \A x \in Byte : x \in Nat
  BY <1>1 DEF Byte
<1>5. \A x \in Byte : x % SignBit \in 0 .. SignBit - 1 /\ (x < SignBit => x % SignBit = x)
  BY <1>2, <1>3, <1>4
<1> QED
  BY <1>1, <1>2, <1>4, <1>5 DEF Byte

(* compact_to_target on bits that name three bytes and have no sign.       *)
LEMMA ExpandsPlain ==
    ASSUME NEW e \in 3 .. Length, NEW m \in [1 .. 3 -> Byte], m[1] < SignBit
    PROVE  compact_to_target([exponent |-> e, mantissa |-> m]) = {Expanded(e, m)}
<1>1. m[1] % SignBit = m[1]
  BY Signs
<1>2. [m EXCEPT ![1] = @ % SignBit] = m
  BY <1>1
<1>3. ~(e > Length) /\ ~(e < 3) /\ e # 0 /\ ~((Length - e) + 3 > Length)
  BY Signs
<1> QED
  BY <1>2, <1>3 DEF compact_to_target, Expanded

(* Whatever compact_to_target returns is all zero, or three bytes without  *)
(* a sign.                                                                 *)
LEMMA ExpansionShape ==
    ASSUME NEW b \in Bits, NEW t \in compact_to_target(b)
    PROVE  \/ t = Zero
           \/ \E e \in 3 .. Length : \E m \in [1 .. 3 -> Byte] :
                  m[1] < SignBit /\ t = Expanded(e, m)
<1> DEFINE m == [b.mantissa EXCEPT ![1] = @ % SignBit]
           e == b.exponent
<1>1. e \in 0 .. Length + 1 /\ b.mantissa \in [1 .. 3 -> Byte]
  BY DEF Bits
<1>2. m \in [1 .. 3 -> Byte] /\ m[1] < SignBit
  BY <1>1, Signs
<1>3. CASE e = 0
  BY <1>3 DEF compact_to_target
<1>4. CASE e # 0
  <2>1. ~(e > Length) /\ ~((Length - e) + 3 > Length)
    BY <1>4 DEF compact_to_target
  <2>2. e \in 3 .. Length
    BY <2>1, <1>1, Signs
  <2>3. t = Expanded(e, m)
    BY <1>4, <2>1 DEF compact_to_target, Expanded
  <2> QED
    BY <2>2, <2>3, <1>2
<1> QED
  BY <1>3, <1>4

(* The mantissa of such a target starts at its first byte that is not      *)
(* zero, unless fewer than three bytes are left.                           *)
LEMMA StartOfExpansion ==
    ASSUME NEW e \in 3 .. Length, NEW m \in [1 .. 3 -> Byte], NEW t,
           t = Expanded(e, m), t # Zero
    PROVE  /\ Start(t) \in (Length - e) + 1 .. Length - 2
           /\ \A i \in 1 .. Length : i \notin Start(t) .. Start(t) + 2 => t[i] = 0
           /\ t \in [1 .. Length -> Byte]
<1> DEFINE s == Length - e
           first(i) == t[i] # 0 /\ \A j \in 1 .. i - 1 : t[j] = 0
<1>1. /\ Length \in Nat /\ s \in Nat /\ s + 3 <= Length
      /\ 0 \in Byte
  BY Signs
<1>2. t \in [1 .. Length -> Byte]
  <2>1. \A i \in 1 .. Length :
            (IF i - s \in 1 .. 3 THEN m[i - s] ELSE 0) \in Byte
    BY <1>1
  <2> QED
    BY <2>1 DEF Expanded
<1>3. \A i \in 1 .. Length : i \notin s + 1 .. s + 3 => t[i] = 0
  BY <1>1 DEF Expanded
<1>4. \E i \in 1 .. Length : t[i] # 0
  BY <1>2 DEF Zero
<1>5. t[s + 1] # 0 \/ t[s + 2] # 0 \/ t[s + 3] # 0
  BY <1>1, <1>3, <1>4
<1>6. \E i \in s + 1 .. s + 3 : first(i)
  <2>1. CASE t[s + 1] # 0
    BY <2>1, <1>1, <1>3
  <2>2. CASE t[s + 1] = 0 /\ t[s + 2] # 0
    <3>1. \A j \in 1 .. (s + 2) - 1 : t[j] = 0
      BY <2>2, <1>1, <1>3
    <3> QED
      BY <3>1, <2>2, <1>1
  <2>3. CASE t[s + 1] = 0 /\ t[s + 2] = 0
    <3>1. \A j \in 1 .. (s + 3) - 1 : t[j] = 0
      BY <2>3, <1>1, <1>3
    <3> QED
      BY <3>1, <2>3, <1>1, <1>5
  <2> QED
    BY <2>1, <2>2, <2>3
<1>7. \E i \in DOMAIN t : first(i)
  BY <1>6, <1>1, <1>2
<1>8. Leading(t) \in DOMAIN t /\ first(Leading(t))
  BY <1>7 DEF Leading
<1>9. Leading(t) \in s + 1 .. s + 3
  BY <1>8, <1>3, <1>2
<1>10. Start(t) \in s + 1 .. Length - 2 /\ Start(t) <= Leading(t)
  BY <1>1, <1>9 DEF Start
<1>11. ASSUME NEW i \in 1 .. Length, i \notin Start(t) .. Start(t) + 2
       PROVE  t[i] = 0
  <2>1. CASE i < Start(t)
    BY <2>1, <1>8, <1>10, <1>9, <1>1
  <2>2. CASE i > Start(t) + 2
    BY <2>2, <1>3, <1>10, <1>9, <1>1 DEF Start
  <2> QED
    BY <2>1, <2>2, <1>10, <1>11, <1>1
<1> QED
  BY <1>2, <1>10, <1>11

(* target_to_bits inverts compact_to_target on everything it returns: at   *)
(* the sign bit, at both ends of the exponent's range and at zero.         *)
LEMMA BitsRoundTrip ==
    ASSUME NEW b \in Bits, NEW t \in compact_to_target(b)
    PROVE  compact_to_target(target_to_bits(t)) = {t}
<1>0. 0 \in Byte /\ Length \in Nat /\ Length > 3 /\ SignBit \in Nat \ {0}
  BY Signs
<1>1. CASE t = Zero
  <2>1. target_to_bits(t) = [exponent |-> 0, mantissa |-> <<0, 0, 0>>]
    BY <1>1 DEF target_to_bits
  <2>2. 0 % SignBit = 0
    BY Signs
  <2>3. [<<0, 0, 0>> EXCEPT ![1] = @ % SignBit] = <<0, 0, 0>>
    BY <2>2
  <2> QED
    BY <2>1, <2>3, <1>0, <1>1 DEF compact_to_target
<1>2. CASE t # Zero
  <2>1. PICK e \in 3 .. Length, m \in [1 .. 3 -> Byte] : m[1] < SignBit /\ t = Expanded(e, m)
    BY <1>2, ExpansionShape
  <2> DEFINE S == Start(t)
  <2>2. /\ S \in (Length - e) + 1 .. Length - 2
        /\ \A i \in 1 .. Length : i \notin S .. S + 2 => t[i] = 0
        /\ t \in [1 .. Length -> Byte]
    BY <1>2, <2>1, StartOfExpansion
  <2>3. S \in Nat /\ S >= 1 /\ S + 2 <= Length
    BY <2>2, <1>0
  <2> HIDE DEF S
  <2>4. t[S] \in Byte /\ t[S + 1] \in Byte /\ t[S + 2] \in Byte
    BY <2>2, <2>3, <1>0
  <2>5. Raw(t) = [exponent |-> Length + 1 - S, mantissa |-> <<t[S], t[S + 1], t[S + 2]>>]
    BY DEF Raw, S
  <2>6. CASE t[S] < SignBit
    <3>1. target_to_bits(t) = Raw(t)
      BY <1>2, <2>5, <2>6, <2>4, Signs DEF target_to_bits
    <3>2. /\ Length + 1 - S \in 3 .. Length
          /\ <<t[S], t[S + 1], t[S + 2]>> \in [1 .. 3 -> Byte]
      BY <2>3, <2>4, <1>0
    <3>3. compact_to_target(Raw(t)) = {Expanded(Length + 1 - S, <<t[S], t[S + 1], t[S + 2]>>)}
      BY <2>5, <2>6, <3>2, ExpandsPlain
    <3>4. ASSUME NEW i \in 1 .. Length
          PROVE  Expanded(Length + 1 - S, <<t[S], t[S + 1], t[S + 2]>>)[i] = t[i]
      <4>1. CASE i \in S .. S + 2
        <5>1. i - (Length - (Length + 1 - S)) \in 1 .. 3
          BY <4>1, <2>3, <1>0
        <5>2. i = S \/ i = S + 1 \/ i = S + 2
          BY <4>1, <2>3
        <5> QED
          BY <5>1, <5>2, <2>3, <1>0 DEF Expanded
      <4>2. CASE i \notin S .. S + 2
        <5>1. i - (Length - (Length + 1 - S)) \notin 1 .. 3
          BY <4>2, <2>3, <1>0
        <5> QED
          BY <5>1, <4>2, <2>2 DEF Expanded
      <4> QED
        BY <4>1, <4>2
    <3>5. Expanded(Length + 1 - S, <<t[S], t[S + 1], t[S + 2]>>) = t
      BY <3>4, <2>2 DEF Expanded
    <3> QED
      BY <3>1, <3>3, <3>5
  <2>7. CASE ~(t[S] < SignBit)
    <3>1. S # (Length - e) + 1
      <4>1. t[(Length - e) + 1] = m[1]
        BY <2>1, <1>0 DEF Expanded
      <4> QED
        BY <4>1, <2>1, <2>7
    <3>2. S >= (Length - e) + 2 /\ S >= 2
      BY <3>1, <2>2, <1>0
    <3>3. t[S + 2] = 0
      BY <3>2, <2>1, <2>3, <1>0 DEF Expanded
    <3>4. target_to_bits(t) = [exponent |-> Length + 2 - S, mantissa |-> <<0, t[S], t[S + 1]>>]
      <4>1. Raw(t).mantissa[1] >= SignBit /\ Raw(t).exponent < Length
        BY <2>5, <2>7, <2>4, <3>2, <2>3, Signs
      <4>2. target_to_bits(t) = Shifted(Raw(t))
        BY <4>1, <1>2 DEF target_to_bits
      <4>3. (Length + 1 - S) + 1 = Length + 2 - S
        BY <1>0, <2>3
      <4> QED
        BY <4>2, <4>3, <2>5 DEF Shifted
    <3>5. /\ Length + 2 - S \in 3 .. Length
          /\ <<0, t[S], t[S + 1]>> \in [1 .. 3 -> Byte]
          /\ 0 < SignBit
      BY <2>3, <2>4, <1>0, <3>2
    <3>6. compact_to_target(target_to_bits(t)) = {Expanded(Length + 2 - S, <<0, t[S], t[S + 1]>>)}
      BY <3>4, <3>5, ExpandsPlain
    <3>7. ASSUME NEW i \in 1 .. Length
          PROVE  Expanded(Length + 2 - S, <<0, t[S], t[S + 1]>>)[i] = t[i]
      <4>1. CASE i \in S - 1 .. S + 1
        <5>1. i - (Length - (Length + 2 - S)) \in 1 .. 3
          BY <4>1, <2>3, <1>0
        <5>2. i = S - 1 \/ i = S \/ i = S + 1
          BY <4>1, <2>3
        <5>3. i = S - 1 => t[i] = 0
          BY <2>2, <2>3
        <5> QED
          BY <5>1, <5>2, <5>3, <2>3, <1>0 DEF Expanded
      <4>2. CASE i \notin S - 1 .. S + 1
        <5>1. i - (Length - (Length + 2 - S)) \notin 1 .. 3
          BY <4>2, <2>3, <1>0
        <5>2. t[i] = 0
          BY <4>2, <2>2, <2>3, <3>3
        <5> QED
          BY <5>1, <5>2 DEF Expanded
      <4> QED
        BY <4>1, <4>2
    <3>8. Expanded(Length + 2 - S, <<0, t[S], t[S + 1]>>) = t
      BY <3>7, <2>2 DEF Expanded
    <3> QED
      BY <3>6, <3>8
  <2> QED
    BY <2>6, <2>7
<1> QED
  BY <1>1, <1>2
(* Every target but zero has a first byte that is not zero.                *)
LEMMA StartInRange ==
    ASSUME NEW t \in Targets, t # Zero
    PROVE  Start(t) \in 1 .. Length - 2
<1> DEFINE NonZero == {i \in 1 .. Length : t[i] # 0}
<1>1. Length \in Nat /\ Length > 3
  BY Signs
<1>2. DOMAIN t = 1 .. Length
  BY DEF Targets
<1>3. NonZero # {}
  BY <1>2 DEF Zero, Targets
<1>4. NonZero \subseteq Nat
  OBVIOUS
<1>5. PICK x \in NonZero : \A y \in NonZero : x <= y
  BY <1>3, <1>4, LeastNatural
<1>6. \A j \in 1 .. x - 1 : t[j] = 0
  BY <1>1, <1>5
<1>7. \E i \in DOMAIN t : t[i] # 0 /\ \A j \in 1 .. i - 1 : t[j] = 0
  BY <1>2, <1>5, <1>6
<1>8. Leading(t) \in 1 .. Length
  BY <1>7, <1>2 DEF Leading
<1> QED
  BY <1>1, <1>8 DEF Start

(* target_to_bits returns bits, which name three bytes of the target.      *)
LEMMA BitsTyped ==
    ASSUME NEW t \in Targets
    PROVE  /\ target_to_bits(t) \in Bits
           /\ t # Zero => target_to_bits(t).exponent \in 3 .. Length
<1>1. /\ Length \in Nat /\ Length > 3 /\ 0 \in Byte
      /\ \A x \in Byte : x \in Nat
      /\ SignBit \in Nat
  BY Signs
<1>2. CASE t = Zero
  <2>1. <<0, 0, 0>> \in [1 .. 3 -> Byte]
    BY <1>1
  <2>2. target_to_bits(t) = [exponent |-> 0, mantissa |-> <<0, 0, 0>>]
    BY <1>2 DEF target_to_bits
  <2> QED
    BY <1>1, <1>2, <2>1, <2>2 DEF Bits
<1>3. CASE t # Zero
  <2> DEFINE S == Start(t)
  <2>1. S \in 1 .. Length - 2
    BY <1>3, StartInRange
  <2>2. t[S] \in Byte /\ t[S + 1] \in Byte /\ t[S + 2] \in Byte
    BY <2>1, <1>1 DEF Targets
  <2> HIDE DEF S
  <2>3. Raw(t) = [exponent |-> Length + 1 - S, mantissa |-> <<t[S], t[S + 1], t[S + 2]>>]
    BY DEF Raw, S
  <2>4. <<t[S], t[S + 1], t[S + 2]>> \in [1 .. 3 -> Byte] /\ <<0, t[S], t[S + 1]>> \in [1 .. 3 -> Byte]
    BY <1>1, <2>2
  <2>5. Length + 1 - S \in 3 .. Length
    BY <1>1, <2>1
  <2>6. CASE Raw(t).mantissa[1] >= SignBit /\ Raw(t).exponent < Length
    <3>1. target_to_bits(t) =
              [exponent |-> (Length + 1 - S) + 1, mantissa |-> <<0, t[S], t[S + 1]>>]
      BY <1>3, <2>3, <2>6 DEF target_to_bits, Shifted
    <3>2. Length + 1 - S < Length
      BY <2>3, <2>6
    <3>3. (Length + 1 - S) + 1 \in 3 .. Length /\ (Length + 1 - S) + 1 \in 0 .. Length + 1
      BY <3>2, <1>1, <2>1
    <3> QED
      BY <3>1, <3>3, <2>4 DEF Bits
  <2>7. CASE ~(Raw(t).mantissa[1] >= SignBit /\ Raw(t).exponent < Length)
    <3>1. target_to_bits(t) = Raw(t)
      BY <1>3, <2>7 DEF target_to_bits
    <3>2. Length + 1 - S \in 0 .. Length + 1
      BY <2>5, <1>1
    <3> QED
      BY <3>1, <3>2, <2>3, <2>4, <2>5 DEF Bits
  <2> QED
    BY <2>6, <2>7
<1> QED
  BY <1>2, <1>3

(* compact_to_target returns targets.                                      *)
LEMMA ExpansionTyped ==
    ASSUME NEW b \in Bits, NEW t \in compact_to_target(b)
    PROVE  t \in Targets
<1>1. Length \in Nat /\ 0 \in Byte
  BY Signs
<1>2. CASE t = Zero
  BY <1>1, <1>2 DEF Zero, Targets
<1>3. CASE t # Zero
  <2>1. PICK e \in 3 .. Length, m \in [1 .. 3 -> Byte] : t = Expanded(e, m)
    BY <1>3, ExpansionShape
  <2> QED
    BY <1>3, <2>1, StartOfExpansion DEF Targets
<1> QED
  BY <1>2, <1>3

(* A template's target has a compact form.                                 *)
LEMMA NextTargetCompact ==
    ASSUME NEW b \in Bits, NEW t \in next_work_target(b)
    PROVE  \E c \in Bits : t \in compact_to_target(c)
<1>1. MaxBits \in Bits
  <2>1. /\ Length - 1 \in 0 .. Length + 1
        /\ 0 \in Byte /\ Radix - 1 \in Byte
    BY Signs DEF Byte
  <2>2. <<0, Radix - 1, Radix - 1>> \in [1 .. 3 -> Byte]
    BY <2>1
  <2> QED
    BY <2>1, <2>2 DEF MaxBits, Bits
<1> QED
  BY <1>1 DEF next_work_target
-----------------------------------------------------------------------------
(* Value reads a target byte by byte.                                      *)
LEMMA ValueReads ==
    ASSUME NEW t \in Targets
    PROVE  \E v : /\ Value(t) = v[Length]
                  /\ v[0] = 0
                  /\ \A m \in Nat : m + 1 <= Length => v[m + 1] = v[m] * Radix + t[m + 1]
<1> DEFINE e(f, n) == IF n = 0 THEN 0 ELSE f[n - 1] * Radix + t[n]
    Reads(f, m) == f = [n \in 0 .. m |-> e(f, n)]
    Exists(m) == \E f : Reads(f, m)
    Good == {m \in Nat : Exists(m)}
<1>0. Length \in Nat
  BY Signs
<1>1. Exists(0)
  <2>1. Reads([n \in 0 .. 0 |-> 0], 0)
    OBVIOUS
  <2> QED BY <2>1
<1>2. ASSUME NEW m \in Nat, Exists(m) PROVE Exists(m + 1)
  <2>1. PICK f : Reads(f, m)
    BY <1>2
  <2> DEFINE g == [n \in 0 .. m + 1 |-> IF n = m + 1 THEN e(f, n) ELSE f[n]]
  <2>2. ASSUME NEW n \in 0 .. m + 1 PROVE g[n] = e(g, n)
    <3>1. n # 0 => n - 1 \in 0 .. m /\ g[n - 1] = f[n - 1]
      OBVIOUS
    <3>2. e(g, n) = e(f, n)
      <4> HIDE DEF g
      <4> QED BY <3>1
    <3>3. ASSUME n # m + 1 PROVE f[n] = e(f, n)
      <4>1. n \in 0 .. m
        BY <3>3
      <4> HIDE DEF e
      <4> QED BY <2>1, <4>1
    <3> HIDE DEF e
    <3> QED BY <3>2, <3>3
  <2> HIDE DEF e
  <2>3. g = [n \in 0 .. m + 1 |-> e(g, n)]
    BY <2>2
  <2> QED BY <2>3
<1>3. Exists(Length)
  <2> HIDE DEF Exists
  <2>1. 0 \in Good /\ \A m \in Nat : m \in Good => m + 1 \in Good
    BY <1>1, <1>2
  <2> HIDE DEF Good
  <2>2. Nat \subseteq Good
    BY <2>1, SetInduction
  <2> QED BY <2>2, <1>0 DEF Good
<1> DEFINE v == CHOOSE h : h = [n \in 0 .. Length |-> e(h, n)]
<1>4. v = [n \in 0 .. Length |-> e(v, n)]
  <2> HIDE DEF e
  <2> QED BY <1>3
<1>5. Value(t) = v[Length]
  BY DEF Value
<1> HIDE DEF v
<1>6. v[0] = 0 /\ \A m \in Nat : m + 1 <= Length => v[m + 1] = v[m] * Radix + t[m + 1]
  <2>1. \A n \in 0 .. Length : v[n] = e(v, n)
    <3> HIDE DEF e
    <3> QED BY <1>4
  <2>2. 0 \in 0 .. Length
        /\ \A m \in Nat : m + 1 <= Length => m + 1 \in 0 .. Length /\ m + 1 # 0 /\ (m + 1) - 1 = m
    BY <1>0
  <2> QED BY <2>1, <2>2
<1> QED BY <1>5, <1>6

(* A target none of whose bytes is larger is no larger a number.           *)
LEMMA ValueMonotone ==
    ASSUME NEW t \in Targets, NEW u \in Targets,
           \A i \in 1 .. Length : u[i] <= t[i]
    PROVE  Value(u) <= Value(t)
<1>0. Length \in Nat /\ Radix \in Nat /\ \A x \in Byte : x \in Nat
  BY Signs
<1>1. PICK v : /\ Value(t) = v[Length] /\ v[0] = 0
               /\ \A m \in Nat : m + 1 <= Length => v[m + 1] = v[m] * Radix + t[m + 1]
  BY ValueReads
<1>2. PICK w : /\ Value(u) = w[Length] /\ w[0] = 0
               /\ \A m \in Nat : m + 1 <= Length => w[m + 1] = w[m] * Radix + u[m + 1]
  BY ValueReads
<1> DEFINE Below(m) == m <= Length => v[m] \in Nat /\ w[m] \in Nat /\ w[m] <= v[m]
    Done == {m \in Nat : Below(m)}
<1>3. Below(0)
  BY <1>1, <1>2
<1>4. ASSUME NEW m \in Nat, Below(m) PROVE Below(m + 1)
  <2> SUFFICES ASSUME m + 1 <= Length
               PROVE  v[m + 1] \in Nat /\ w[m + 1] \in Nat /\ w[m + 1] <= v[m + 1]
    OBVIOUS
  <2>1. m + 1 \in 1 .. Length /\ m <= Length
    BY <1>0
  <2>2. t[m + 1] \in Nat /\ u[m + 1] \in Nat /\ u[m + 1] <= t[m + 1]
    BY <2>1, <1>0 DEF Targets
  <2>3. v[m] \in Nat /\ w[m] \in Nat /\ w[m] <= v[m]
    BY <2>1, <1>4
  <2>4. \A a, b, r \in Nat : a <= b => a * r \in Nat /\ b * r \in Nat /\ a * r <= b * r
    OBVIOUS
  <2>5. w[m] * Radix \in Nat /\ v[m] * Radix \in Nat /\ w[m] * Radix <= v[m] * Radix
    BY <2>3, <2>4, <1>0
  <2>6. v[m + 1] = v[m] * Radix + t[m + 1] /\ w[m + 1] = w[m] * Radix + u[m + 1]
    BY <1>1, <1>2
  <2> DEFINE a == w[m] * Radix
             b == v[m] * Radix
  <2> HIDE DEF a, b
  <2>7. /\ a \in Nat /\ b \in Nat /\ a <= b
        /\ v[m + 1] = b + t[m + 1] /\ w[m + 1] = a + u[m + 1]
    BY <2>5, <2>6 DEF a, b
  <2> QED BY <2>2, <2>7
<1> HIDE DEF Below
<1>5. 0 \in Done /\ \A m \in Nat : m \in Done => m + 1 \in Done
  BY <1>3, <1>4
<1> HIDE DEF Done
<1>6. Nat \subseteq Done
  BY <1>5, SetInduction
<1>7. Below(Length)
  BY <1>6, <1>0 DEF Done
<1> QED BY <1>7, <1>1, <1>2, <1>0 DEF Below

(* What a header's bits expand to has no byte larger than the target the   *)
(* bits were written for: the bytes that do not fit are dropped, and so is *)
(* the sign when the exponent cannot grow.                                 *)
LEMMA BitsRoundDown ==
    ASSUME NEW t \in Targets
    PROVE  \E u \in compact_to_target(target_to_bits(t)) :
               u \in Targets /\ \A i \in 1 .. Length : u[i] <= t[i]
<1>0. /\ Length \in Nat /\ Length > 3 /\ 0 \in Byte /\ SignBit \in Nat \ {0}
      /\ \A x \in Byte : x \in Nat
  BY Signs
<1>1. target_to_bits(t) \in Bits
  BY BitsTyped
<1>2. \A u \in compact_to_target(target_to_bits(t)) : u \in Targets
  BY <1>1, ExpansionTyped
<1>3. CASE t = Zero
  <2>1. target_to_bits(t) = [exponent |-> 0, mantissa |-> <<0, 0, 0>>]
    BY <1>3 DEF target_to_bits
  <2>2. 0 % SignBit = 0
    BY Signs
  <2>3. [<<0, 0, 0>> EXCEPT ![1] = @ % SignBit] = <<0, 0, 0>>
    BY <2>2
  <2>4. compact_to_target(target_to_bits(t)) = {Zero}
    BY <2>1, <2>3, <1>0 DEF compact_to_target
  <2> QED BY <2>4, <1>3, <1>2, <1>0 DEF Zero
<1>4. CASE t # Zero
  <2> DEFINE S == Start(t)
  <2>1. S \in 1 .. Length - 2
    BY <1>4, StartInRange
  <2> HIDE DEF S
  <2>2. t[S] \in Byte /\ t[S + 1] \in Byte /\ t[S + 2] \in Byte
    BY <2>1, <1>0 DEF Targets
  <2>3. Raw(t) = [exponent |-> Length + 1 - S, mantissa |-> <<t[S], t[S + 1], t[S + 2]>>]
    BY DEF Raw, S
  <2>4. \A i \in 1 .. Length : 0 <= t[i]
    BY <1>0 DEF Targets
  <2>5. CASE t[S] >= SignBit /\ Length + 1 - S < Length
    <3> DEFINE m == <<0, t[S], t[S + 1]>>
               u == Expanded(Length + 2 - S, m)
    <3>1. target_to_bits(t) = [exponent |-> Length + 2 - S, mantissa |-> m]
      <4>1. (Length + 1 - S) + 1 = Length + 2 - S
        BY <1>0, <2>1
      <4> QED BY <1>4, <2>3, <2>5, <4>1 DEF target_to_bits, Shifted
    <3>2. Length + 2 - S \in 3 .. Length /\ m \in [1 .. 3 -> Byte] /\ m[1] < SignBit
      BY <1>0, <2>1, <2>2, <2>5
    <3>3. compact_to_target(target_to_bits(t)) = {u}
      BY <3>1, <3>2, ExpandsPlain
    <3>4. ASSUME NEW i \in 1 .. Length PROVE u[i] <= t[i]
      <4>1. CASE i \in S - 1 .. S + 1
        <5>1. i - (Length - (Length + 2 - S)) \in 1 .. 3
          BY <4>1, <2>1, <1>0
        <5>2. i = S - 1 \/ i = S \/ i = S + 1
          BY <4>1, <2>1
        <5>3. u[i] = m[i - (Length - (Length + 2 - S))]
          BY <5>1 DEF Expanded
        <5>4. i - (Length - (Length + 2 - S)) = i - S + 2
          BY <1>0, <2>1
        <5>5. u[i] = 0 \/ u[i] = t[i]
          BY <5>2, <5>3, <5>4, <2>1, <1>0
        <5> QED BY <5>5, <2>4, <1>0 DEF Targets
      <4>2. CASE i \notin S - 1 .. S + 1
        <5>1. i - (Length - (Length + 2 - S)) \notin 1 .. 3
          BY <4>2, <2>1, <1>0
        <5> QED BY <5>1, <2>4 DEF Expanded
      <4> QED BY <4>1, <4>2
    <3> HIDE DEF u
    <3> QED BY <3>3, <3>4, <1>2
  <2>6. CASE ~(t[S] >= SignBit /\ Length + 1 - S < Length)
    <3> DEFINE m == <<t[S] % SignBit, t[S + 1], t[S + 2]>>
               u == Expanded(Length + 1 - S, m)
    <3>1. target_to_bits(t) = Raw(t)
      BY <1>4, <2>3, <2>6 DEF target_to_bits
    <3>2. t[S] % SignBit \in Nat /\ t[S] % SignBit <= t[S]
      <4>1. \A s \in Nat \ {0} : \A x \in Nat : x % s \in Nat /\ x % s <= x
        <5>1. \A s \in Nat \ {0} : \A x \in Nat : x % s \in 0 .. s - 1 /\ (x < s => x % s = x)
          OBVIOUS
        <5> QED BY <5>1
      <4> QED BY <4>1, <1>0, <2>2
    <3>3. compact_to_target(target_to_bits(t)) = {u}
      <4>1. [<<t[S], t[S + 1], t[S + 2]>> EXCEPT ![1] = @ % SignBit] = m
        OBVIOUS
      <4>2. LET E == Length + 1 - S
            IN  ~(E > Length) /\ ~(E < 3) /\ E # 0 /\ ~((Length - E) + 3 > Length)
        BY <1>0, <2>1
      <4> HIDE DEF m
      <4> QED BY <3>1, <2>3, <4>1, <4>2 DEF compact_to_target, Expanded
    <3>4. ASSUME NEW i \in 1 .. Length PROVE u[i] <= t[i]
      <4>1. CASE i \in S .. S + 2
        <5>1. i - (Length - (Length + 1 - S)) \in 1 .. 3
          BY <4>1, <2>1, <1>0
        <5>2. i = S \/ i = S + 1 \/ i = S + 2
          BY <4>1, <2>1
        <5>3. u[i] = m[i - (Length - (Length + 1 - S))]
          BY <5>1 DEF Expanded
        <5>4. i - (Length - (Length + 1 - S)) = i - S + 1
          BY <1>0, <2>1
        <5>5. (i = S /\ u[i] = t[S] % SignBit) \/ u[i] = t[i]
          BY <5>2, <5>3, <5>4, <2>1, <1>0
        <5> QED BY <5>5, <3>2, <1>0 DEF Targets
      <4>2. CASE i \notin S .. S + 2
        <5>1. i - (Length - (Length + 1 - S)) \notin 1 .. 3
          BY <4>2, <2>1, <1>0
        <5> QED BY <5>1, <2>4 DEF Expanded
      <4> QED BY <4>1, <4>2
    <3> HIDE DEF u
    <3> QED BY <3>3, <3>4, <1>2
  <2> QED BY <2>5, <2>6
<1> QED BY <1>3, <1>4
-----------------------------------------------------------------------------
(* The types, and that the target of a template is the expansion of some   *)
(* bits.                                                                   *)
TypeInv ==
    /\ TargetTypeOK
    /\ SearchTypeOK
    /\ at = "template" => \E b \in Bits : target \in compact_to_target(b)

(* A nonce is one of the nonce space.                                      *)
LEMMA NonceTyped ==
    /\ Batch \in Nat \ {0} /\ NonceSpace \in Nat \ {0}
    /\ 0 \in Offsets /\ 0 \in Nonces
    /\ \A x, y \in Nat : (x + y) % NonceSpace \in Nonces
<1>1. Batch \in Nat \ {0} /\ NonceSpace \in Nat \ {0}
  BY SearchAssumption
<1>2. \A s \in Nat \ {0} : \A x \in Nat : x % s \in 0 .. s - 1
  OBVIOUS
<1>3. \A x, y \in Nat : (x + y) % NonceSpace \in 0 .. NonceSpace - 1
  BY <1>1, <1>2
<1> QED
  BY <1>1, <1>3 DEF Offsets, Nonces

(* The initial states are well typed.                                      *)
LEMMA TypeInit == SearchInit => TypeInv
<1> SUFFICES ASSUME SearchInit PROVE TypeInv
  OBVIOUS
<1>1. Length \in Nat /\ Length > 3 /\ 0 \in Byte /\ Radix \in Nat /\ Radix > 1
  BY Signs
<1>2. Zero \in Targets
  BY <1>1 DEF Zero, Targets
<1>3. MaxBits \in Bits
  <2>1. Length - 1 \in 0 .. Length + 1 /\ Radix - 1 \in Byte
    BY <1>1 DEF Byte
  <2>2. <<0, Radix - 1, Radix - 1>> \in [1 .. 3 -> Byte]
    BY <1>1, <2>1
  <2> QED
    BY <2>1, <2>2 DEF MaxBits, Bits
<1>4. TargetTypeOK /\ at # "template"
  BY <1>2, <1>3 DEF SearchInit, TargetInit, TargetTypeOK
<1>5. SearchTypeOK
  BY NonceTyped DEF SearchInit, SearchTypeOK, Idle
<1> QED
  BY <1>4, <1>5 DEF TypeInv

(* No step breaks the types.                                               *)
LEMMA TypeNext == TypeInv /\ [SearchNext]_searchVars => TypeInv'
<1> SUFFICES ASSUME TypeInv, [SearchNext]_searchVars PROVE TypeInv'
  OBVIOUS
<1> USE DEF TypeInv
<1>1. CASE GetTemplate
  <2>1. \E c \in Bits : target' \in compact_to_target(c)
    BY <1>1, NextTargetCompact DEF GetTemplate, MakeTemplate, TargetTypeOK
  <2>2. target' \in Targets
    BY <2>1, ExpansionTyped
  <2>3. TargetTypeOK'
    BY <1>1, <2>2 DEF GetTemplate, MakeTemplate, TargetTypeOK
  <2>4. SearchTypeOK'
    BY <1>1 DEF GetTemplate, SearchTypeOK, roundVars, Nonces, Offsets
  <2> QED
    BY <2>1, <2>3, <2>4
<1>2. CASE StartSearch
  <2>1. TargetTypeOK' /\ at' = "header"
    BY <1>2, BitsTyped DEF StartSearch, MakeHeader, TargetTypeOK
  <2>2. SearchTypeOK'
    BY <1>2, <2>1, NonceTyped DEF StartSearch, SearchTypeOK, Idle, Nonces, Offsets
  <2> QED
    BY <2>1, <2>2
<1>3. ASSUME NEW k \in Threads, ThreadStep(k) PROVE TypeInv'
  <2> DEFINE Place == [at : {"idle", "load", "hash", "hit"}, offset : Offsets]
  <2>1. UNCHANGED <<at, target, bits>> /\ UNCHANGED <<mining, base_nonce, nonce>>
    BY <1>3 DEF ThreadStep, Take, GiveUp, GoOn, Hash, ReturnNonce, targetVars
  <2>2. TargetTypeOK' /\ (at = "template" => \E b \in Bits : target \in compact_to_target(b))'
    BY <2>1 DEF TargetTypeOK
  <2>3. worker \in [Threads -> Place] /\ worker[k].offset \in Offsets /\ Idle \in Place
    BY NonceTyped DEF SearchTypeOK, Idle
  <2>4. ASSUME NEW p \in Place, worker' = [worker EXCEPT ![k] = p]
        PROVE  worker' \in [Threads -> Place]
    BY <2>3, <2>4
  <2>5. ASSUME Take(k)
        PROVE  worker' \in [Threads -> Place] /\ found' \in BOOLEAN
                  /\ todo' \subseteq Offsets /\ solutions' \subseteq Nonces
    <3>1. PICK o \in todo :
              /\ todo' = todo \ {o}
              /\ worker' = [worker EXCEPT ![k] = [at |-> "load", offset |-> o]]
      BY <2>5 DEF Take
    <3>2. [at |-> "load", offset |-> o] \in Place
      BY DEF SearchTypeOK
    <3> QED
      BY <3>1, <3>2, <2>4, <2>5 DEF Take, SearchTypeOK
  <2>6. ASSUME GiveUp(k)
        PROVE  worker' \in [Threads -> Place] /\ found' \in BOOLEAN
                  /\ todo' \subseteq Offsets /\ solutions' \subseteq Nonces
    BY <2>3, <2>4, <2>6 DEF GiveUp, SearchTypeOK
  <2>7. ASSUME GoOn(k)
        PROVE  worker' \in [Threads -> Place] /\ found' \in BOOLEAN
                  /\ todo' \subseteq Offsets /\ solutions' \subseteq Nonces
    <3>1. Moved(k, "hash") \in Place
      BY <2>3 DEF Moved
    <3> QED
      BY <3>1, <2>4, <2>7 DEF GoOn, SearchTypeOK
  <2>8. ASSUME Hash(k)
        PROVE  worker' \in [Threads -> Place] /\ found' \in BOOLEAN
                  /\ todo' \subseteq Offsets /\ solutions' \subseteq Nonces
    <3>1. Moved(k, "hit") \in Place
      BY <2>3 DEF Moved
    <3>2. worker' \in [Threads -> Place]
      BY <3>1, <2>3, <2>4, <2>8 DEF Hash
    <3>3. found' \in BOOLEAN
      BY <2>8 DEF Hash, SearchTypeOK
    <3> QED
      BY <3>2, <3>3, <2>8 DEF Hash, SearchTypeOK
  <2>9. ASSUME ReturnNonce(k)
        PROVE  worker' \in [Threads -> Place] /\ found' \in BOOLEAN
                  /\ todo' \subseteq Offsets /\ solutions' \subseteq Nonces
    <3>1. base_nonce \in Nat /\ worker[k].offset \in Nat
      BY <2>3, NonceTyped DEF SearchTypeOK, Nonces, Offsets
    <3>2. Nonce(worker[k].offset) \in Nonces
      BY <3>1, NonceTyped DEF Nonce
    <3> QED
      BY <3>2, <2>3, <2>4, <2>9 DEF ReturnNonce, SearchTypeOK
  <2>10. worker' \in [Threads -> Place] /\ found' \in BOOLEAN
            /\ todo' \subseteq Offsets /\ solutions' \subseteq Nonces
    BY <1>3, <2>5, <2>6, <2>7, <2>8, <2>9 DEF ThreadStep
  <2>11. SearchTypeOK'
    BY <2>1, <2>10 DEF SearchTypeOK, Nonces, Offsets
  <2> QED
    BY <2>2, <2>11
<1>4. CASE Solve
  BY <1>4 DEF Solve, SearchTypeOK, TargetTypeOK, targetVars, roundVars
<1>5. CASE NextRound
  <2>1. (base_nonce + Batch) % NonceSpace \in Nonces
    BY NonceTyped DEF SearchTypeOK, Nonces
  <2> QED
    BY <2>1, <1>5 DEF NextRound, SearchTypeOK, TargetTypeOK, targetVars
<1>6. CASE UNCHANGED searchVars
  BY <1>6 DEF searchVars, targetVars, roundVars, SearchTypeOK, TargetTypeOK
<1> QED
  BY <1>1, <1>2, <1>3, <1>4, <1>5, <1>6 DEF SearchNext

(* What a running search knows of its round: an offset is waiting, in a    *)
(* thread's hands, known to be no solution, or given up because the flag   *)
(* is set; a set flag has a solution behind it, on its way or returned;    *)
(* and what is on its way or returned solves the header.                   *)
RoundInv ==
    mining =>
        /\ \A o \in Offsets :
               \/ o \in todo
               \/ \E k \in Threads : worker[k].at # "idle" /\ worker[k].offset = o
               \/ ~Hit(Nonce(o))
               \/ found
        /\ found => solutions # {} \/ \E k \in Threads : worker[k].at = "hit"
        /\ \A k \in Threads :
               worker[k].at = "hit" => found /\ Hit(Nonce(worker[k].offset))
        /\ \A n \in solutions : Hit(n)
        /\ bits = target_to_bits(target)

SearchInv == TypeInv /\ RoundInv

(* A thread's step leaves alone what solves the header.                    *)
LEMMA HitsUnchanged ==
    ASSUME NEW k \in Threads, ThreadStep(k)
    PROVE  /\ UNCHANGED <<mining, base_nonce, target, bits, digest>>
           /\ \A n : Hit(n)' <=> Hit(n)
           /\ \A o : Nonce(o)' = Nonce(o)
<1>1. UNCHANGED <<mining, base_nonce, target, bits, digest>>
  BY DEF ThreadStep, Take, GiveUp, GoOn, Hash, ReturnNonce, targetVars
<1> QED
  BY <1>1 DEF Hit, Nonce

(* No step breaks what the search knows of its round.                      *)
LEMMA RoundNext == SearchInv /\ [SearchNext]_searchVars => RoundInv'
<1> SUFFICES ASSUME SearchInv, [SearchNext]_searchVars PROVE RoundInv'
  OBVIOUS
<1>1. CASE GetTemplate
  BY <1>1 DEF GetTemplate, RoundInv
<1>2. CASE StartSearch
  <2>1. /\ todo' = Offsets /\ ~found' /\ solutions' = {}
        /\ \A k \in Threads : worker'[k].at = "idle"
        /\ bits' = target_to_bits(target')
    BY <1>2 DEF StartSearch, MakeHeader, Idle
  <2> QED
    BY <2>1 DEF RoundInv, Offsets
<1>3. ASSUME NEW k \in Threads, ThreadStep(k), mining PROVE RoundInv'
  <2> DEFINE held(o) == \E j \in Threads : worker[j].at # "idle" /\ worker[j].offset = o
             known(o) == o \in todo \/ held(o) \/ ~Hit(Nonce(o)) \/ found
             hits == \E j \in Threads : worker[j].at = "hit"
  <2>1. /\ UNCHANGED <<mining, base_nonce, target, bits, digest>>
        /\ \A n : Hit(n)' <=> Hit(n)
        /\ \A o : Nonce(o)' = Nonce(o)
    BY <1>3, HitsUnchanged
  <2>2. /\ \A o \in Offsets : known(o)
        /\ found => solutions # {} \/ hits
        /\ \A j \in Threads : worker[j].at = "hit" => found /\ Hit(Nonce(worker[j].offset))
        /\ \A n \in solutions : Hit(n)
        /\ bits = target_to_bits(target)
    BY <1>3 DEF SearchInv, RoundInv
  <2>3. worker \in [Threads -> [at : {"idle", "load", "hash", "hit"}, offset : Offsets]]
    BY DEF SearchInv, TypeInv, SearchTypeOK
  <2>4. Offsets' = Offsets
    BY DEF Offsets
  <2>5. ASSUME Take(k)
        PROVE  /\ \A o \in Offsets : known(o)'
               /\ found' => solutions' # {} \/ hits'
               /\ \A j \in Threads : worker'[j].at = "hit" => found' /\ Hit(Nonce(worker'[j].offset))
               /\ \A n \in solutions' : Hit(n)
    <3>1. PICK o \in todo :
              /\ todo' = todo \ {o}
              /\ worker' = [worker EXCEPT ![k] = [at |-> "load", offset |-> o]]
      BY <2>5 DEF Take
    <3>2. worker[k].at = "idle" /\ UNCHANGED <<found, solutions>>
      BY <2>5 DEF Take, At
    <3>3. worker'[k].at = "load" /\ worker'[k].offset = o
      BY <3>1, <2>3
    <3>4. \A j \in Threads \ {k} : worker'[j] = worker[j]
      BY <3>1, <2>3
    <3>5. \A p \in Offsets : known(p)'
      BY <2>1, <2>2, <3>1, <3>2, <3>3, <3>4
    <3> QED
      BY <2>2, <3>2, <3>3, <3>4, <3>5
  <2>6. ASSUME GiveUp(k)
        PROVE  /\ \A o \in Offsets : known(o)'
               /\ found' => solutions' # {} \/ hits'
               /\ \A j \in Threads : worker'[j].at = "hit" => found' /\ Hit(Nonce(worker'[j].offset))
               /\ \A n \in solutions' : Hit(n)
    <3>1. found /\ UNCHANGED <<found, solutions>> /\ worker[k].at = "load"
      BY <2>6 DEF GiveUp, At
    <3>2. worker'[k].at = "idle" /\ \A j \in Threads \ {k} : worker'[j] = worker[j]
      BY <2>6, <2>3 DEF GiveUp, Idle
    <3> QED
      BY <2>2, <3>1, <3>2
  <2>7. ASSUME GoOn(k)
        PROVE  /\ \A o \in Offsets : known(o)'
               /\ found' => solutions' # {} \/ hits'
               /\ \A j \in Threads : worker'[j].at = "hit" => found' /\ Hit(Nonce(worker'[j].offset))
               /\ \A n \in solutions' : Hit(n)
    <3>1. UNCHANGED <<todo, found, solutions>> /\ worker[k].at = "load"
      BY <2>7 DEF GoOn, At
    <3>2. /\ worker'[k].at = "hash" /\ worker'[k].offset = worker[k].offset
          /\ \A j \in Threads \ {k} : worker'[j] = worker[j]
      BY <2>7, <2>3 DEF GoOn, Moved
    <3>3. \A p \in Offsets : known(p)'
      BY <2>1, <2>2, <3>1, <3>2
    <3> QED
      BY <2>2, <3>1, <3>2, <3>3
  <2>8. ASSUME Hash(k)
        PROVE  /\ \A o \in Offsets : known(o)'
               /\ found' => solutions' # {} \/ hits'
               /\ \A j \in Threads : worker'[j].at = "hit" => found' /\ Hit(Nonce(worker'[j].offset))
               /\ \A n \in solutions' : Hit(n)
    <3>1. UNCHANGED <<todo, solutions>> /\ worker[k].at = "hash"
      BY <2>8 DEF Hash, At
    <3>2. \A j \in Threads \ {k} : worker'[j] = worker[j]
      BY <2>8, <2>3 DEF Hash
    <3>3. CASE Hit(Nonce(worker[k].offset))
      <4>1. found' /\ worker'[k].at = "hit" /\ worker'[k].offset = worker[k].offset
        BY <3>3, <2>8, <2>3 DEF Hash, Moved
      <4> QED
        BY <4>1, <3>1, <3>2, <3>3, <2>2
    <3>4. CASE ~Hit(Nonce(worker[k].offset))
      <4>1. (found' <=> found) /\ worker'[k].at = "idle"
        BY <3>4, <2>8, <2>3 DEF Hash, Idle
      <4>2. \A p \in Offsets : known(p)'
        BY <4>1, <3>1, <3>2, <3>4, <2>1, <2>2
      <4> QED
        BY <4>1, <4>2, <3>1, <3>2, <2>2
    <3> QED
      BY <3>3, <3>4
  <2>9. ASSUME ReturnNonce(k)
        PROVE  /\ \A o \in Offsets : known(o)'
               /\ found' => solutions' # {} \/ hits'
               /\ \A j \in Threads : worker'[j].at = "hit" => found' /\ Hit(Nonce(worker'[j].offset))
               /\ \A n \in solutions' : Hit(n)
    <3>1. UNCHANGED <<todo, found>> /\ worker[k].at = "hit"
      BY <2>9 DEF ReturnNonce, At
    <3>2. solutions' = solutions \cup {Nonce(worker[k].offset)}
      BY <2>9 DEF ReturnNonce
    <3>3. worker'[k].at = "idle" /\ \A j \in Threads \ {k} : worker'[j] = worker[j]
      BY <2>9, <2>3 DEF ReturnNonce, Idle
    <3>4. \A p \in Offsets : known(p)'
      BY <3>1, <2>2
    <3> QED
      BY <3>1, <3>2, <3>3, <3>4, <2>2
  <2>10. /\ \A o \in Offsets : known(o)'
         /\ found' => solutions' # {} \/ hits'
         /\ \A j \in Threads : worker'[j].at = "hit" => found' /\ Hit(Nonce(worker'[j].offset))
         /\ \A n \in solutions' : Hit(n)
    BY <1>3, <2>5, <2>6, <2>7, <2>8, <2>9 DEF ThreadStep
  <2> QED
    BY <2>1, <2>2, <2>4, <2>10 DEF RoundInv
<1>4. CASE Solve
  BY <1>4 DEF Solve, RoundInv
<1>5. CASE NextRound
  <2>1. /\ todo' = Offsets /\ solutions' = {} /\ solutions = {}
        /\ UNCHANGED <<found, worker, target, bits>> /\ mining
        /\ \A k \in Threads : worker[k].at = "idle"
    BY <1>5 DEF NextRound, AllIdle, Idle, targetVars
  <2>2. ~found
    BY <2>1 DEF SearchInv, RoundInv
  <2>3. bits = target_to_bits(target)
    BY <2>1 DEF SearchInv, RoundInv
  <2> QED
    BY <2>1, <2>2, <2>3 DEF RoundInv, Offsets
<1>6. CASE UNCHANGED searchVars
  <2>1. UNCHANGED <<mining, todo, worker, found, solutions, target, bits, digest, base_nonce>>
    BY <1>6 DEF searchVars, roundVars, targetVars
  <2> QED
    BY <2>1 DEF SearchInv, RoundInv, Offsets, Hit, Nonce
<1>7. CASE ~mining /\ \E k \in Threads : ThreadStep(k)
  BY <1>7 DEF ThreadStep, At, Take, GiveUp, GoOn, Hash, ReturnNonce
<1> QED
  BY <1>1, <1>2, <1>3, <1>4, <1>5, <1>6, <1>7 DEF SearchNext

(* The inductive invariant holds.                                          *)
LEMMA SearchInvariant == SearchSpec => []SearchInv
<1>1. SearchInit => SearchInv
  BY TypeInit DEF SearchInit, SearchInv, RoundInv
<1>2. SearchInv /\ [SearchNext]_searchVars => SearchInv'
  BY TypeNext, RoundNext DEF SearchInv
<1> QED
  BY <1>1, <1>2, PTL DEF SearchSpec
-----------------------------------------------------------------------------
(* Whatever target a template names, the bits of the header name three     *)
(* bytes of it (target_to_bits).                                           *)
THEOREM TargetsTyped == SearchSpec => []TargetTypeOK
<1>1. SearchInv => TargetTypeOK
  BY DEF SearchInv, TypeInv
<1> QED
  BY <1>1, SearchInvariant, PTL

(* However many threads search, and however the nonce wraps, the search's  *)
(* state is well typed (mine_candidate).                                   *)
THEOREM SearchTyped == SearchSpec => []SearchTypeOK
<1>1. SearchInv => SearchTypeOK
  BY DEF SearchInv, TypeInv
<1> QED
  BY <1>1, SearchInvariant, PTL

(* A target the node has put into a template comes back from the header's  *)
(* bits unchanged, for targets of any length: the difficulty does not      *)
(* drift (next_work_target, target_to_bits).                               *)
THEOREM TargetsRoundTrip == SearchSpec => TemplatesRoundTrip
<1>1. SearchInv /\ [SearchNext]_searchVars
          => [at = "template" /\ at' = "header" => compact_to_target(bits') = {target}]_searchVars
  <2> SUFFICES ASSUME SearchInv, SearchNext, at = "template", at' = "header"
               PROVE  compact_to_target(bits') = {target}
    BY DEF searchVars, targetVars
  <2>1. StartSearch
    BY DEF SearchNext, GetTemplate, MakeTemplate, ThreadStep, Take, GiveUp, GoOn, Hash,
           ReturnNonce, Solve, NextRound, targetVars
  <2>2. bits' = target_to_bits(target)
    BY <2>1 DEF StartSearch, MakeHeader
  <2>3. PICK b \in Bits : target \in compact_to_target(b)
    BY DEF SearchInv, TypeInv
  <2> QED
    BY <2>2, <2>3, BitsRoundTrip
<1> QED
  BY <1>1, SearchInvariant, PTL DEF SearchSpec, TemplatesRoundTrip

(* However many threads share the flag, and whichever of them give up, a   *)
(* batch that is left behind had no solution (mine_candidate).             *)
THEOREM NoSolutionSkipped == SearchSpec => EmptyRoundExhausted
<1>1. SearchInv /\ [SearchNext]_searchVars
          => [base_nonce' # base_nonce /\ mining /\ mining'
                 => \A o \in Offsets : ~Hit(Nonce(o))]_searchVars
  <2> SUFFICES ASSUME SearchInv, SearchNext, base_nonce' # base_nonce, mining, mining'
               PROVE  \A o \in Offsets : ~Hit(Nonce(o))
    BY DEF searchVars
  <2>1. ~StartSearch
    BY DEF SearchInv, TypeInv, SearchTypeOK, StartSearch, MakeHeader
  <2>2. NextRound
    BY <2>1 DEF SearchNext, GetTemplate, ThreadStep, Take, GiveUp, GoOn, Hash,
           ReturnNonce, Solve
  <2>3. todo = {} /\ solutions = {} /\ \A k \in Threads : worker[k].at = "idle"
    BY <2>2 DEF NextRound, AllIdle, Idle
  <2>4. ~found
    BY <2>3 DEF SearchInv, RoundInv
  <2> QED
    BY <2>3, <2>4 DEF SearchInv, RoundInv
<1> QED
  BY <1>1, SearchInvariant, PTL DEF SearchSpec, EmptyRoundExhausted

(* Whichever thread's nonce is returned, the header passes check_pow under *)
(* the bits it carries (mine_candidate, check_pow).                        *)
THEOREM SolvedHeadersPass == SearchSpec => SolvedPasses
<1>1. SearchInv /\ [SearchNext]_searchVars
          => [mining /\ ~mining' /\ (\E b \in Bits : compact_to_target(b) = {target})
                 => check_pow(bits, digest[nonce'])]_searchVars
  <2> SUFFICES ASSUME SearchInv, SearchNext, mining, ~mining',
                      NEW b \in Bits, compact_to_target(b) = {target}
               PROVE  check_pow(bits, digest[nonce'])
    BY DEF searchVars
  <2>1. Solve
    BY DEF SearchNext, GetTemplate, StartSearch, ThreadStep, Take, GiveUp, GoOn, Hash,
           ReturnNonce, NextRound
  <2>2. PICK n \in solutions : nonce' = n
    BY <2>1 DEF Solve
  <2>3. digest[n] <= Value(target) /\ bits = target_to_bits(target)
    BY <2>2 DEF SearchInv, RoundInv, Hit
  <2>4. compact_to_target(bits) = {target}
    BY <2>3, BitsRoundTrip
  <2> QED
    BY <2>2, <2>3, <2>4 DEF check_pow
<1> QED
  BY <1>1, SearchInvariant, PTL DEF SearchSpec, SolvedPasses

(* Whatever target a template asks for, representable or not and of any    *)
(* length, the bits of the header are valid and ask for at least as much   *)
(* work (target_to_bits, compact_to_target).                               *)
THEOREM BitsNeverEasier == SearchSpec => NeverEasier
<1>1. SearchInv /\ [SearchNext]_searchVars
          => [at' = "header" =>
                 \E t \in compact_to_target(bits') : Value(t) <= Value(target)]_searchVars
  <2> SUFFICES ASSUME SearchInv, SearchNext, at' = "header"
               PROVE  \E t \in compact_to_target(bits') : Value(t) <= Value(target)
    BY DEF searchVars
  <2>1. target \in Targets
    BY DEF SearchInv, TypeInv, TargetTypeOK
  <2>2. bits' = target_to_bits(target)
    <3>1. CASE StartSearch
      BY <3>1 DEF StartSearch, MakeHeader
    <3>2. CASE mining /\ UNCHANGED targetVars
      BY <3>2 DEF SearchInv, RoundInv, targetVars
    <3>3. ~GetTemplate
      BY DEF GetTemplate, MakeTemplate
    <3> QED
      BY <3>1, <3>2, <3>3 DEF SearchNext, ThreadStep, Take, GiveUp, GoOn, Hash,
             ReturnNonce, Solve, NextRound, At
  <2>3. PICK u \in compact_to_target(bits') : u \in Targets /\ \A i \in 1 .. Length : u[i] <= target[i]
    BY <2>1, <2>2, BitsRoundDown
  <2> QED BY <2>1, <2>3, ValueMonotone
<1> QED
  BY <1>1, SearchInvariant, PTL DEF SearchSpec, NeverEasier
=============================================================================
