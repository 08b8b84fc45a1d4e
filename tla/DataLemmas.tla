----------------------------- MODULE DataLemmas -----------------------------
(***************************************************************************)
(* Induction on numbers in the form of sets: a set of naturals that holds  *)
(* 0 and the successor of each member holds them all. It comes from the    *)
(* well-foundedness of < in the library.                                   *)
(***************************************************************************)
EXTENDS Naturals, Sequences, FiniteSets, Functions, SequencesExt, FiniteSetTheorems,
        WellFoundedInduction, TLAPS

(* Every nonempty set of naturals has a least element.                     *)
LEMMA LeastNatural ==
    ASSUME NEW T, T \subseteq Nat, T # {}
    PROVE  \E x \in T : \A y \in T : x <= y
<1>1. IsWellFoundedOn(OpToRel(<, Nat), Nat)
  BY NatLessThanWellFounded
<1> DEFINE R == OpToRel(<, Nat)
<1>2. \A x, y \in Nat : y < x => <<y, x>> \in R
  BY DEF OpToRel
<1>3. IsWellFoundedOn(R, Nat)
  BY <1>1
<1> HIDE DEF R
<1>4. \E x \in T : \A y \in T : ~(<<y, x>> \in R)
  BY <1>3, WFMin
<1>5. PICK x \in T : \A y \in T : ~(<<y, x>> \in R)
  BY <1>4
<1>6. \A y \in T : x <= y
  <2> SUFFICES ASSUME NEW y \in T PROVE x <= y
    OBVIOUS
  <2>1. x \in Nat /\ y \in Nat
    OBVIOUS
  <2>2. ~(y < x)
    BY <1>2, <1>5, <2>1
  <2> QED BY <2>1, <2>2
<1> QED BY <1>6

(* Induction, for the property of belonging to S.                          *)
LEMMA SetInduction ==
    ASSUME NEW S, 0 \in S, \A n \in Nat : n \in S => n + 1 \in S
    PROVE  Nat \subseteq S
<1> SUFFICES ASSUME Nat \ S # {} PROVE FALSE
  OBVIOUS
<1>1. PICK x \in Nat \ S : \A y \in Nat \ S : x <= y
  BY LeastNatural
<1>2. x # 0 /\ x - 1 \in Nat /\ x - 1 < x
  BY <1>1
<1>3. x - 1 \in S
  BY <1>1, <1>2
<1> QED BY <1>1, <1>2, <1>3

(* A function on the naturals that is defined by recursion exists.         *)
LEMMA Recursion ==
    ASSUME NEW S, NEW base \in S, NEW G \in [S -> S]
    PROVE  \E f \in [Nat -> S] : f[0] = base /\ \A n \in Nat : n # 0 => f[n] = G[f[n - 1]]
<1> DEFINE Good(f, m) == /\ f \in [0 .. m -> S] /\ f[0] = base
                         /\ \A n \in 0 .. m : n > 0 => f[n] = G[f[n - 1]]
    Defined == {m \in Nat : \E f : Good(f, m)}
<1>1. 0 \in Defined
  <2>1. Good([n \in 0 .. 0 |-> base], 0)
    OBVIOUS
  <2> QED BY <2>1
<1>2. ASSUME NEW m \in Nat, m \in Defined PROVE m + 1 \in Defined
  <2>1. PICK f : Good(f, m)
    BY <1>2
  <2>2. PICK g : g = [n \in 0 .. m + 1 |-> IF n = m + 1 THEN G[f[m]] ELSE f[n]]
    OBVIOUS
  <2>3. f[m] \in S /\ G[f[m]] \in S
    BY <2>1
  <2>4. g \in [0 .. m + 1 -> S]
    <3>1. \A n \in 0 .. m + 1 : n # m + 1 => n \in 0 .. m
      OBVIOUS
    <3> QED BY <2>1, <2>2, <2>3, <3>1
  <2>5. g[0] = base
    BY <2>1, <2>2
  <2>6. ASSUME NEW n \in 0 .. m + 1, n > 0 PROVE g[n] = G[g[n - 1]]
    <3>1. n - 1 \in 0 .. m + 1 /\ n - 1 # m + 1
      BY <2>6
    <3>2. g[n - 1] = f[n - 1]
      BY <2>2, <3>1
    <3>3. CASE n = m + 1
      <4>1. n - 1 = m
        BY <3>3
      <4> QED BY <2>2, <3>2, <3>3, <4>1
    <3>4. CASE n # m + 1
      <4>1. n \in 0 .. m
        BY <3>4
      <4> QED BY <2>1, <2>2, <2>6, <3>2, <3>4, <4>1
    <3> QED BY <3>3, <3>4
  <2>7. Good(g, m + 1)
    BY <2>4, <2>5, <2>6
  <2> QED BY <2>7
<1>3. Nat \subseteq Defined
  <2> HIDE DEF Defined
  <2> QED BY <1>1, <1>2, SetInduction
<1>4. ASSUME NEW m \in Nat, NEW k \in Nat, m <= k, NEW f, NEW g, Good(f, m), Good(g, k)
      PROVE  \A n \in 0 .. m : f[n] = g[n]
  <2> DEFINE Same == {n \in Nat : n <= m => f[n] = g[n]}
  <2>1. 0 \in Same
    BY <1>4
  <2>2. ASSUME NEW n \in Nat, n \in Same PROVE n + 1 \in Same
    <3> SUFFICES ASSUME n + 1 <= m PROVE f[n + 1] = g[n + 1]
      OBVIOUS
    <3>1. n + 1 \in 0 .. m /\ n + 1 \in 0 .. k /\ n + 1 > 0 /\ (n + 1) - 1 = n
      BY <1>4
    <3>2. f[n + 1] = G[f[n]] /\ g[n + 1] = G[g[n]]
      BY <1>4, <3>1
    <3>3. f[n] = g[n]
      BY <2>2
    <3> QED BY <3>2, <3>3
  <2>3. Nat \subseteq Same
    <3> HIDE DEF Same
    <3> QED BY <2>1, <2>2, SetInduction
  <2> QED BY <2>3
<1> DEFINE upTo(m) == CHOOSE f : Good(f, m)
<1>5. \A m \in Nat : Good(upTo(m), m)
  <2> HIDE DEF Good
  <2> QED BY <1>3
<1>6. PICK F : F = [n \in Nat |-> upTo(n)[n]]
  OBVIOUS
<1>7. \A n \in Nat : F[n] = upTo(n)[n]
  <2> HIDE DEF upTo
  <2> QED BY <1>6
<1> HIDE DEF upTo
<1>8. F \in [Nat -> S]
  <2>1. ASSUME NEW n \in Nat PROVE upTo(n)[n] \in S
    <3>1. upTo(n) \in [0 .. n -> S]
      BY <1>5
    <3> QED BY <3>1
  <2> QED BY <1>6, <2>1
<1>9. ASSUME NEW n \in Nat PROVE F[n] = IF n = 0 THEN base ELSE G[F[n - 1]]
  <2>1. CASE n = 0
    BY <1>5, <1>7, <2>1
  <2>2. CASE n # 0
    <3>1. n - 1 \in Nat /\ n - 1 <= n /\ n - 1 \in 0 .. n - 1 /\ n \in 0 .. n /\ n > 0
      BY <2>2
    <3>2. upTo(n - 1)[n - 1] = upTo(n)[n - 1]
      <4>1. Good(upTo(n - 1), n - 1) /\ Good(upTo(n), n)
        BY <1>5, <3>1
      <4> HIDE DEF Good
      <4> QED BY <1>4, <3>1, <4>1
    <3>3. upTo(n)[n] = G[upTo(n)[n - 1]]
      <4>1. Good(upTo(n), n)
        <5> HIDE DEF Good
        <5> QED BY <1>5
      <4> QED BY <3>1, <4>1
    <3> QED BY <1>7, <2>2, <3>1, <3>2, <3>3
  <2> QED BY <2>1, <2>2
<1> QED BY <1>8, <1>9

(* Induction on the subsets of a finite set, for belonging to Good: a set  *)
(* belongs when all that are one element smaller do.                       *)
LEMMA SubsetInduction ==
    ASSUME NEW S, IsFiniteSet(S), NEW Good, {} \in Good,
           \A T \in SUBSET S : T # {} /\ (\A x \in T : T \ {x} \in Good) => T \in Good
    PROVE  \A T \in SUBSET S : T \in Good
<1> DEFINE Of(n) == \A T \in SUBSET S : Cardinality(T) = n => T \in Good
    N == {n \in Nat : Of(n)}
<1>1. \A T \in SUBSET S : IsFiniteSet(T) /\ Cardinality(T) \in Nat
  BY FS_Subset, FS_CardinalityType
<1>2. Of(0)
  BY <1>1, FS_EmptySet
<1>3. ASSUME NEW n \in Nat, Of(n) PROVE Of(n + 1)
  <2> SUFFICES ASSUME NEW T \in SUBSET S, Cardinality(T) = n + 1 PROVE T \in Good
    OBVIOUS
  <2>0. Cardinality({}) = 0
    BY FS_EmptySet
  <2>1. T # {}
    BY <2>0
  <2>2. ASSUME NEW x \in T PROVE T \ {x} \in Good
    <3>1. Cardinality(T \ {x}) = Cardinality(T) - 1
      BY <1>1, FS_RemoveElement
    <3>2. Cardinality(T \ {x}) = n /\ T \ {x} \in SUBSET S
      BY <3>1
    <3> QED BY <3>2, <1>3
  <2> QED BY <2>1, <2>2
<1>4. 0 \in N /\ \A n \in Nat : n \in N => n + 1 \in N
  <2> HIDE DEF Of
  <2> QED BY <1>2, <1>3
<1>5. Nat \subseteq N
  <2> HIDE DEF N
  <2> QED BY <1>4, SetInduction
<1> QED BY <1>1, <1>5
-----------------------------------------------------------------------------
(* SumFunctionOnSet is defined by recursion on the subsets of the set. On  *)
(* a finite set the recursion does define a function, ...                  *)
Step(f, g, s) == IF s = {} THEN 0 ELSE f[CHOOSE x \in s : TRUE] + g[s \ {CHOOSE x \in s : TRUE}]

Sums(f, S) == CHOOSE g : g = [s \in SUBSET S |-> Step(f, g, s)]

LEMMA SumDef ==
    ASSUME NEW f, NEW S
    PROVE  SumFunctionOnSet(f, S) = Sums(f, S)[S]
  BY DEF SumFunctionOnSet, FoldFunctionOnSet, MapThenFoldSet, Sums, Step

LEMMA SumsExist ==
    ASSUME NEW f, NEW S, IsFiniteSet(S)
    PROVE  \A s \in SUBSET S : Sums(f, S)[s] = Step(f, Sums(f, S), s)
<1> DEFINE Small(n) == {s \in SUBSET S : Cardinality(s) <= n}
    IsSum(g, n) == g = [s \in Small(n) |-> Step(f, g, s)]
    Exists(n) == \E g : IsSum(g, n)
    N == {n \in Nat : Exists(n)}
<1>1. \A s \in SUBSET S : IsFiniteSet(s) /\ Cardinality(s) \in Nat /\ Cardinality(s) <= Cardinality(S)
  BY FS_Subset, FS_CardinalityType
<1>2. \A s \in SUBSET S : s # {} =>
          /\ s \ {CHOOSE x \in s : TRUE} \in SUBSET S
          /\ Cardinality(s \ {CHOOSE x \in s : TRUE}) = Cardinality(s) - 1
  <2> SUFFICES ASSUME NEW s \in SUBSET S, s # {}
               PROVE  Cardinality(s \ {CHOOSE x \in s : TRUE}) = Cardinality(s) - 1
    OBVIOUS
  <2>1. (CHOOSE x \in s : TRUE) \in s
    OBVIOUS
  <2> QED BY <1>1, <2>1, FS_RemoveElement
<1>3. Exists(0)
  <2>1. Small(0) = {{}}
    <3>1. Cardinality({}) = 0 /\ \A s \in SUBSET S : Cardinality(s) = 0 => s = {}
      BY <1>1, FS_EmptySet
    <3> QED BY <1>1, <3>1
  <2>2. IsSum([s \in {{}} |-> 0], 0)
    BY <2>1 DEF Step
  <2> QED BY <2>2
<1>4. ASSUME NEW n \in Nat, Exists(n) PROVE Exists(n + 1)
  <2>1. PICK g : IsSum(g, n)
    BY <1>4
  <2> DEFINE h == [s \in Small(n + 1) |-> IF Cardinality(s) <= n THEN g[s] ELSE Step(f, g, s)]
  <2>2. ASSUME NEW s \in Small(n + 1) PROVE h[s] = Step(f, h, s)
    <3> DEFINE r == s \ {CHOOSE x \in s : TRUE}
    <3>1. s # {} => r \in Small(n) /\ r \in Small(n + 1)
      BY <1>1, <1>2
    <3>2. s # {} => h[r] = g[r]
      BY <3>1
    <3>3. Step(f, h, s) = Step(f, g, s)
      BY <3>2 DEF Step
    <3>4. Cardinality(s) <= n => g[s] = Step(f, g, s)
      BY <2>1
    <3> QED BY <3>3, <3>4
  <2>3. IsSum(h, n + 1)
    BY <2>2
  <2> QED BY <2>3
<1>5. 0 \in N /\ \A n \in Nat : n \in N => n + 1 \in N
  <2> HIDE DEF Exists
  <2> QED BY <1>3, <1>4
<1>6. Cardinality(S) \in N
  <2> HIDE DEF N
  <2> QED BY <1>1, <1>5, SetInduction
<1>7. SUBSET S = Small(Cardinality(S))
  BY <1>1
<1>8. \E g : g = [s \in SUBSET S |-> Step(f, g, s)]
  BY <1>6, <1>7
<1>9. Sums(f, S) = [s \in SUBSET S |-> Step(f, Sums(f, S), s)]
  BY <1>8 DEF Sums
<1> QED BY <1>9

(* ... whose value does not depend on the element that is taken first.     *)
LEMMA SumsStep ==
    ASSUME NEW S, IsFiniteSet(S), NEW f, \A x \in S : f[x] \in Nat
    PROVE  /\ Sums(f, S)[{}] = 0
           /\ \A s \in SUBSET S :
                  /\ Sums(f, S)[s] \in Nat
                  /\ \A x \in s : Sums(f, S)[s] = f[x] + Sums(f, S)[s \ {x}]
<1> DEFINE g == Sums(f, S)
    Typed == {s \in SUBSET S : g[s] \in Nat}
    Right == {s \in SUBSET S : \A x \in s : g[s] = f[x] + g[s \ {x}]}
<1>1. /\ g[{}] = 0
      /\ \A s \in SUBSET S : s # {} => \E x \in s : g[s] = f[x] + g[s \ {x}]
  <2>1. \A s \in SUBSET S : g[s] = Step(f, g, s)
    BY SumsExist
  <2> HIDE DEF g
  <2>2. g[{}] = 0
    BY <2>1 DEF Step
  <2>3. ASSUME NEW s \in SUBSET S, s # {} PROVE \E x \in s : g[s] = f[x] + g[s \ {x}]
    <3>1. (CHOOSE x \in s : TRUE) \in s
      BY <2>3
    <3>2. g[s] = f[CHOOSE x \in s : TRUE] + g[s \ {CHOOSE x \in s : TRUE}]
      BY <2>1, <2>3 DEF Step
    <3> QED BY <3>1, <3>2
  <2> QED BY <2>2, <2>3
<1> HIDE DEF g
<1>2. \A s \in SUBSET S : s \in Typed
  <2>1. {} \in Typed
    BY <1>1
  <2>2. ASSUME NEW s \in SUBSET S, s # {}, \A x \in s : s \ {x} \in Typed PROVE s \in Typed
    <3>1. PICK x \in s : g[s] = f[x] + g[s \ {x}]
      BY <1>1, <2>2
    <3>2. f[x] \in Nat /\ g[s \ {x}] \in Nat
      BY <2>2
    <3> QED BY <3>1, <3>2
  <2> HIDE DEF Typed
  <2> QED BY <2>1, <2>2, SubsetInduction
<1>3. \A s \in SUBSET S : s \in Right
  <2>1. {} \in Right
    OBVIOUS
  <2>2. ASSUME NEW s \in SUBSET S, s # {}, \A x \in s : s \ {x} \in Right PROVE s \in Right
    <3>1. PICK x \in s : g[s] = f[x] + g[s \ {x}]
      BY <1>1, <2>2
    <3>2. ASSUME NEW y \in s, y # x PROVE g[s] = f[y] + g[s \ {y}]
      <4>1. (s \ {x}) \ {y} = (s \ {y}) \ {x}
        OBVIOUS
      <4>2. y \in s \ {x} /\ x \in s \ {y}
        BY <3>2
      <4>3. g[s \ {x}] = f[y] + g[(s \ {x}) \ {y}] /\ g[s \ {y}] = f[x] + g[(s \ {y}) \ {x}]
        BY <2>2, <4>2
      <4> DEFINE rest == g[(s \ {x}) \ {y}]
      <4>4. g[s \ {x}] = f[y] + rest /\ g[s \ {y}] = f[x] + rest
        BY <4>1, <4>3
      <4>5. f[x] \in Nat /\ f[y] \in Nat /\ rest \in Nat
        BY <1>2
      <4>6. f[x] + (f[y] + rest) = f[y] + (f[x] + rest)
        <5> HIDE DEF rest
        <5> QED BY <4>5
      <4> QED BY <3>1, <4>4, <4>6
    <3> QED BY <3>1, <3>2
  <2> HIDE DEF Right
  <2> QED BY <2>1, <2>2, SubsetInduction
<1> QED BY <1>1, <1>2, <1>3 DEF g

(* Adding up over a set with one element more.                             *)
LEMMA SumAdd ==
    ASSUME NEW S, IsFiniteSet(S), NEW x, x \notin S, NEW f, \A y \in S \cup {x} : f[y] \in Nat
    PROVE  /\ SumFunctionOnSet(f, S) \in Nat
           /\ SumFunctionOnSet(f, S \cup {x}) = f[x] + SumFunctionOnSet(f, S)
<1>0. PICK T : T = S \cup {x}
  OBVIOUS
<1> DEFINE g == Sums(f, S)
    h == Sums(f, T)
    Same == {s \in SUBSET S : g[s] = h[s]}
<1>1. IsFiniteSet(T)
  BY <1>0, FS_AddElement
<1>2. /\ g[{}] = 0
      /\ \A s \in SUBSET S : g[s] \in Nat /\ \A y \in s : g[s] = f[y] + g[s \ {y}]
  BY SumsStep
<1>3. /\ h[{}] = 0
      /\ \A s \in SUBSET T : h[s] \in Nat /\ \A y \in s : h[s] = f[y] + h[s \ {y}]
  <2>1. \A y \in T : f[y] \in Nat
    BY <1>0
  <2>2. ASSUME NEW U, IsFiniteSet(U), \A y \in U : f[y] \in Nat
        PROVE  /\ Sums(f, U)[{}] = 0
               /\ \A s \in SUBSET U : /\ Sums(f, U)[s] \in Nat
                                     /\ \A y \in s : Sums(f, U)[s] = f[y] + Sums(f, U)[s \ {y}]
    BY <2>2, SumsStep
  <2> QED BY <1>1, <2>1, <2>2, Zenon
<1>4. SumFunctionOnSet(f, S) = g[S] /\ SumFunctionOnSet(f, T) = h[T]
  BY SumDef
<1> HIDE DEF g, h
<1>5. \A s \in SUBSET S : s \in Same
  <2>1. {} \in Same
    BY <1>2, <1>3
  <2>2. ASSUME NEW s \in SUBSET S, s # {}, \A y \in s : s \ {y} \in Same PROVE s \in Same
    <3>1. PICK y \in s : TRUE
      BY <2>2
    <3>2. g[s] = f[y] + g[s \ {y}] /\ h[s] = f[y] + h[s \ {y}] /\ g[s \ {y}] = h[s \ {y}]
      BY <1>0, <1>2, <1>3, <2>2
    <3> QED BY <3>2
  <2> HIDE DEF Same
  <2> QED BY <2>1, <2>2, SubsetInduction
<1>6. h[S] = g[S]
  BY <1>5
<1>7. h[T] = f[x] + h[T \ {x}] /\ T \ {x} = S
  BY <1>0, <1>3
<1> QED BY <1>0, <1>2, <1>4, <1>6, <1>7

LEMMA SumEmpty ==
    ASSUME NEW f
    PROVE  SumFunctionOnSet(f, {}) = 0
<1>1. Sums(f, {})[{}] = Step(f, Sums(f, {}), {})
  BY FS_EmptySet, SumsExist
<1> QED BY <1>1, SumDef DEF Step

LEMMA SumType ==
    ASSUME NEW S, IsFiniteSet(S), NEW f, \A x \in S : f[x] \in Nat
    PROVE  SumFunctionOnSet(f, S) \in Nat
  BY SumsStep, SumDef

LEMMA SumSingle ==
    ASSUME NEW x, NEW f, f[x] \in Nat
    PROVE  SumFunctionOnSet(f, {x}) = f[x]
<1>1. SumFunctionOnSet(f, {} \cup {x}) = f[x] + SumFunctionOnSet(f, {})
  <2>1. IsFiniteSet({}) /\ x \notin {} /\ \A y \in {} \cup {x} : f[y] \in Nat
    BY FS_EmptySet
  <2> QED BY <2>1, SumAdd
<1>2. {} \cup {x} = {x}
  OBVIOUS
<1> QED BY <1>1, <1>2, SumEmpty

(* Adding up over two sets that have nothing in common.                    *)
LEMMA SumUnion ==
    ASSUME NEW S, IsFiniteSet(S), NEW T, IsFiniteSet(T), S \cap T = {},
           NEW f, \A x \in S \cup T : f[x] \in Nat
    PROVE  SumFunctionOnSet(f, S \cup T) = SumFunctionOnSet(f, S) + SumFunctionOnSet(f, T)
<1> DEFINE Sum(U) == SumFunctionOnSet(f, U)
    Good == {U \in SUBSET S : Sum(U \cup T) = Sum(U) + Sum(T)}
<1>1. Sum(T) \in Nat
  BY SumType
<1>2. {} \in Good
  <2>1. {} \cup T = T
    OBVIOUS
  <2> QED BY <1>1, <2>1, SumEmpty
<1>3. ASSUME NEW U \in SUBSET S, U # {}, \A x \in U : U \ {x} \in Good
      PROVE  U \in Good
  <2>1. PICK x \in U : TRUE
    BY <1>3
  <2>2. PICK V : V = U \ {x}
    OBVIOUS
  <2>3. /\ V \cup {x} = U
        /\ (V \cup T) \cup {x} = U \cup T
        /\ x \notin V /\ x \notin V \cup T
        /\ IsFiniteSet(V) /\ IsFiniteSet(V \cup T)
    BY <2>2, FS_Subset, FS_Union
  <2>4. Sum(V \cup {x}) = f[x] + Sum(V) /\ Sum(V) \in Nat
    BY <2>2, <2>3, SumAdd
  <2>5. Sum((V \cup T) \cup {x}) = f[x] + Sum(V \cup T)
    <3>1. \A y \in (V \cup T) \cup {x} : f[y] \in Nat
      BY <2>3
    <3>2. PICK W : W = V \cup T
      OBVIOUS
    <3>3. Sum(W \cup {x}) = f[x] + Sum(W)
      BY <2>3, <3>1, <3>2, SumAdd
    <3> QED BY <3>2, <3>3
  <2>6. Sum(V \cup T) = Sum(V) + Sum(T)
    BY <1>3, <2>2
  <2>7. f[x] \in Nat
    OBVIOUS
  <2>8. Sum(U) = f[x] + Sum(V) /\ Sum(U \cup T) = f[x] + (Sum(V) + Sum(T))
    BY <2>3, <2>4, <2>5, <2>6
  <2> HIDE DEF Sum
  <2> QED BY <1>1, <2>4, <2>7, <2>8
<1>4. \A U \in SUBSET S : U \in Good
  <2> HIDE DEF Good
  <2> QED BY <1>2, <1>3, SubsetInduction
<1> QED BY <1>4

LEMMA SumSplit ==
    ASSUME NEW S, IsFiniteSet(S), NEW T \in SUBSET S, NEW f, \A x \in S : f[x] \in Nat
    PROVE  /\ SumFunctionOnSet(f, S) = SumFunctionOnSet(f, S \ T) + SumFunctionOnSet(f, T)
           /\ SumFunctionOnSet(f, S) \in Nat
           /\ SumFunctionOnSet(f, S \ T) \in Nat
           /\ SumFunctionOnSet(f, T) \in Nat
<1>1. PICK R : R = S \ T
  OBVIOUS
<1>2. /\ IsFiniteSet(R) /\ IsFiniteSet(T) /\ R \cap T = {} /\ R \cup T = S
      /\ \A x \in R \cup T : f[x] \in Nat
  BY <1>1, FS_Subset
<1>3. SumFunctionOnSet(f, R \cup T) = SumFunctionOnSet(f, R) + SumFunctionOnSet(f, T)
  BY <1>2, SumUnion
<1>4. /\ SumFunctionOnSet(f, R) \in Nat /\ SumFunctionOnSet(f, T) \in Nat
      /\ SumFunctionOnSet(f, S) \in Nat
  BY <1>2, SumType
<1> QED BY <1>1, <1>2, <1>3, <1>4

(* The larger the terms, the larger the sum.                               *)
LEMMA SumLeq ==
    ASSUME NEW S, IsFiniteSet(S), NEW f, NEW g,
           \A x \in S : f[x] \in Nat /\ g[x] \in Nat /\ f[x] <= g[x]
    PROVE  SumFunctionOnSet(f, S) <= SumFunctionOnSet(g, S)
<1> DEFINE Good == {U \in SUBSET S : SumFunctionOnSet(f, U) <= SumFunctionOnSet(g, U)}
<1>1. {} \in Good
  BY SumEmpty
<1>2. ASSUME NEW U \in SUBSET S, U # {}, \A x \in U : U \ {x} \in Good
      PROVE  U \in Good
  <2>1. PICK x \in U : TRUE
    BY <1>2
  <2>2. PICK V : V = U \ {x}
    OBVIOUS
  <2>3. /\ V \cup {x} = U /\ x \notin V /\ IsFiniteSet(V)
        /\ \A y \in V \cup {x} : f[y] \in Nat /\ g[y] \in Nat
    BY <2>2, FS_Subset
  <2>4. /\ SumFunctionOnSet(f, V \cup {x}) = f[x] + SumFunctionOnSet(f, V)
        /\ SumFunctionOnSet(f, V) \in Nat
    BY <2>3, SumAdd
  <2>5. /\ SumFunctionOnSet(g, V \cup {x}) = g[x] + SumFunctionOnSet(g, V)
        /\ SumFunctionOnSet(g, V) \in Nat
    BY <2>3, SumAdd
  <2>6. SumFunctionOnSet(f, V) <= SumFunctionOnSet(g, V)
    BY <1>2, <2>2
  <2>7. f[x] \in Nat /\ g[x] \in Nat /\ f[x] <= g[x]
    OBVIOUS
  <2>8. SumFunctionOnSet(f, V \cup {x}) <= SumFunctionOnSet(g, V \cup {x})
    BY <2>4, <2>5, <2>6, <2>7
  <2> QED BY <2>3, <2>8
<1>3. \A U \in SUBSET S : U \in Good
  <2> HIDE DEF Good
  <2> QED BY <1>1, <1>2, SubsetInduction
<1> QED BY <1>3

LEMMA SumSame ==
    ASSUME NEW S, IsFiniteSet(S), NEW f, NEW g,
           \A x \in S : f[x] \in Nat /\ g[x] = f[x]
    PROVE  SumFunctionOnSet(f, S) = SumFunctionOnSet(g, S)
<1>1. SumFunctionOnSet(f, S) <= SumFunctionOnSet(g, S)
  BY SumLeq
<1>2. SumFunctionOnSet(g, S) <= SumFunctionOnSet(f, S)
  BY SumLeq
<1>3. SumFunctionOnSet(f, S) \in Nat /\ SumFunctionOnSet(g, S) \in Nat
  BY SumType
<1> QED BY <1>1, <1>2, <1>3

(* Adding up over a finite union of sets that have nothing in common.      *)
LEMMA SumFamily ==
    ASSUME NEW T, IsFiniteSet(T), NEW A, \A t \in T : IsFiniteSet(A[t]),
           \A t, u \in T : t # u => A[t] \cap A[u] = {},
           NEW f, \A t \in T : \A x \in A[t] : f[x] \in Nat,
           NEW g, \A t \in T : g[t] = SumFunctionOnSet(f, A[t]),
           NEW W, \A x : x \in W <=> \E t \in T : x \in A[t]
    PROVE  IsFiniteSet(W) /\ SumFunctionOnSet(f, W) = SumFunctionOnSet(g, T)
<1> DEFINE Sum(U) == SumFunctionOnSet(f, U)
    All(U) == UNION {A[t] : t \in U}
    Good == {U \in SUBSET T : IsFiniteSet(All(U)) /\ Sum(All(U)) = SumFunctionOnSet(g, U)}
<1>1. {} \in Good
  <2>1. All({}) = {}
    OBVIOUS
  <2> QED BY <2>1, SumEmpty, FS_EmptySet
<1>2. \A t \in T : g[t] \in Nat
  BY SumType
<1>3. ASSUME NEW U \in SUBSET T, U # {}, \A t \in U : U \ {t} \in Good
      PROVE  U \in Good
  <2>1. PICK t \in U : TRUE
    BY <1>3
  <2>2. PICK V : V = U \ {t}
    OBVIOUS
  <2>3. V \cup {t} = U /\ t \notin V /\ IsFiniteSet(V) /\ V \in SUBSET T
    BY <2>2, FS_Subset
  <2>4. All(U) = All(V) \cup A[t] /\ All(V) \cap A[t] = {}
    BY <2>3
  <2>5. IsFiniteSet(All(V)) /\ Sum(All(V)) = SumFunctionOnSet(g, V)
    BY <1>3, <2>2
  <2>6. SumFunctionOnSet(g, V \cup {t}) = g[t] + SumFunctionOnSet(g, V)
        /\ SumFunctionOnSet(g, V) \in Nat
    <3>1. \A y \in V \cup {t} : g[y] \in Nat
      BY <1>2, <2>3
    <3> QED BY <2>3, <3>1, SumAdd
  <2>7. Sum(All(V) \cup A[t]) = Sum(All(V)) + Sum(A[t])
    <3>1. PICK B, C : B = All(V) /\ C = A[t]
      OBVIOUS
    <3>2. /\ IsFiniteSet(B) /\ IsFiniteSet(C) /\ B \cap C = {}
          /\ \A x \in B \cup C : f[x] \in Nat
      BY <2>3, <2>4, <2>5, <3>1
    <3>3. SumFunctionOnSet(f, B \cup C) = SumFunctionOnSet(f, B) + SumFunctionOnSet(f, C)
      BY <3>2, SumUnion
    <3> QED BY <3>1, <3>3
  <2>8. IsFiniteSet(All(V) \cup A[t])
    BY <2>3, <2>5, FS_Union
  <2>9. g[t] = Sum(A[t]) /\ g[t] \in Nat
    BY <1>2
  <2> HIDE DEF All, Sum
  <2>10. Sum(All(U)) = SumFunctionOnSet(g, U)
    <3>1. Sum(All(U)) = SumFunctionOnSet(g, V) + g[t]
      BY <2>4, <2>5, <2>7, <2>9
    <3>2. SumFunctionOnSet(g, U) = g[t] + SumFunctionOnSet(g, V)
      BY <2>3, <2>6
    <3> QED BY <2>6, <2>9, <3>1, <3>2
  <2> QED BY <2>4, <2>8, <2>10
<1>4. \A U \in SUBSET T : U \in Good
  <2> HIDE DEF Good
  <2> QED BY <1>1, <1>3, SubsetInduction
<1>5. W = All(T)
  OBVIOUS
<1> QED BY <1>4, <1>5

(* Adding up over the image of a set under an injection.                   *)
LEMMA SumImage ==
    ASSUME NEW S, IsFiniteSet(S), NEW h, \A x, y \in S : h[x] = h[y] => x = y,
           NEW f, NEW g, \A x \in S : g[x] \in Nat /\ f[h[x]] = g[x],
           NEW W, \A y : y \in W <=> \E x \in S : y = h[x]
    PROVE  IsFiniteSet(W) /\ SumFunctionOnSet(f, W) = SumFunctionOnSet(g, S)
<1>1. PICK A : A = [x \in S |-> {h[x]}]
  OBVIOUS
<1>2. \A x \in S : IsFiniteSet(A[x])
  BY <1>1, FS_Singleton
<1>3. \A x, y \in S : x # y => A[x] \cap A[y] = {}
  BY <1>1
<1>4. \A x \in S : \A z \in A[x] : f[z] \in Nat
  BY <1>1
<1>5. \A x \in S : g[x] = SumFunctionOnSet(f, A[x])
  BY <1>1, SumSingle
<1>6. \A y : y \in W <=> \E x \in S : y \in A[x]
  BY <1>1
<1> QED BY <1>2, <1>3, <1>4, <1>5, <1>6, SumFamily
-----------------------------------------------------------------------------
(* Finitely many naturals have an upper bound.                             *)
LEMMA FiniteBound ==
    ASSUME NEW D, IsFiniteSet(D), NEW s, \A i \in D : s[i] \in Nat
    PROVE  \E b \in Nat : \A i \in D : s[i] <= b
<1> DEFINE Good == {U \in SUBSET D : \E b \in Nat : \A i \in U : s[i] <= b}
<1>1. {} \in Good
  OBVIOUS
<1>2. ASSUME NEW U \in SUBSET D, U # {}, \A x \in U : U \ {x} \in Good
      PROVE  U \in Good
  <2>1. PICK x \in U : TRUE
    BY <1>2
  <2>2. PICK b \in Nat : \A i \in U \ {x} : s[i] <= b
    BY <1>2
  <2>3. CASE s[x] <= b
    BY <2>2, <2>3
  <2>4. CASE ~(s[x] <= b)
    <3>1. s[x] \in Nat /\ \A i \in U : s[i] \in Nat
      OBVIOUS
    <3>2. \A i \in U : s[i] <= s[x]
      BY <2>2, <2>4, <3>1
    <3> QED BY <3>1, <3>2
  <2> QED BY <2>3, <2>4
<1>3. \A U \in SUBSET D : U \in Good
  <2> HIDE DEF Good
  <2> QED BY <1>1, <1>2, SubsetInduction
<1> QED BY <1>3

UpTo(s, D, x) == {j \in D : s[j] <= x}

LessThan(s, D, x) == {j \in D : s[j] < x}

(* Among finitely many naturals there is one with at most k of them below  *)
(* it and more than k not above it, for every k less than their number.    *)
LEMMA OrderStatistic ==
    ASSUME NEW D, IsFiniteSet(D), NEW s, \A i \in D : s[i] \in Nat,
           NEW k \in Nat, k < Cardinality(D)
    PROVE  \E i \in D : /\ Cardinality(LessThan(s, D, s[i])) <= k
                        /\ Cardinality(UpTo(s, D, s[i])) > k
<1> DEFINE Upto(x) == {j \in D : s[j] <= x}
    Below(x) == {j \in D : s[j] < x}
    T == {x \in Nat : Cardinality(Upto(x)) > k}
<1>1. \A x : /\ Upto(x) \in SUBSET D /\ Cardinality(Upto(x)) \in Nat
             /\ Below(x) \in SUBSET D /\ Cardinality(Below(x)) \in Nat
  BY FS_Subset, FS_CardinalityType
<1>2. T # {}
  <2>1. PICK b \in Nat : \A i \in D : s[i] <= b
    BY FiniteBound
  <2>2. Upto(b) = D
    BY <2>1
  <2> QED BY <2>2
<1>3. PICK x \in T : \A y \in T : x <= y
  BY <1>2, LeastNatural
<1>4. x \in Nat /\ Cardinality(Upto(x)) > k
  OBVIOUS
<1>5. Cardinality(Below(x)) <= k
  <2>1. CASE x = 0
    <3>1. Below(x) = {}
      BY <2>1
    <3> QED BY <3>1, FS_EmptySet
  <2>2. CASE x # 0
    <3>1. x - 1 \in Nat /\ ~(x <= x - 1)
      BY <1>4, <2>2
    <3>2. x - 1 \notin T
      BY <1>3, <3>1
    <3>3. ~(Cardinality(Upto(x - 1)) > k)
      BY <3>1, <3>2
    <3>4. Below(x) = Upto(x - 1)
      BY <1>4, <3>1
    <3>5. Cardinality(Upto(x - 1)) \in Nat
      BY <1>1
    <3> QED BY <3>3, <3>4, <3>5
  <2> QED BY <2>1, <2>2
<1>6. PICK i \in D : s[i] = x
  <2>1. Upto(x) # Below(x)
    BY <1>1, <1>4, <1>5
  <2>2. PICK i \in D : s[i] <= x /\ ~(s[i] < x)
    BY <2>1
  <2>3. s[i] \in Nat
    OBVIOUS
  <2> QED BY <1>4, <2>2, <2>3
<1> QED BY <1>4, <1>5, <1>6 DEF UpTo, LessThan
-----------------------------------------------------------------------------
(* In a finite set with a strict total order, where B[t] are those ahead   *)
(* of t, their number is t's place: each place is taken, and by one.       *)
LEMMA Places ==
    ASSUME NEW S, IsFiniteSet(S), NEW B,
           \A t \in S : B[t] \in SUBSET S /\ t \notin B[t],
           \A t, u \in S : t # u => t \in B[u] \/ u \in B[t],
           \A t, u \in S : u \in B[t] => B[u] \subseteq B[t]
    PROVE  /\ \A t \in S : Cardinality(B[t]) \in 0 .. Cardinality(S) - 1
           /\ \A t, u \in S : u \in B[t] <=> Cardinality(B[u]) < Cardinality(B[t])
           /\ \A t, u \in S : Cardinality(B[u]) = Cardinality(B[t]) => t = u
           /\ \A i \in 0 .. Cardinality(S) - 1 : \E t \in S : Cardinality(B[t]) = i
<1>1. Cardinality(S) \in Nat /\ \A t \in S : Cardinality(B[t]) \in Nat /\ IsFiniteSet(B[t])
  BY FS_Subset, FS_CardinalityType
<1>2. ASSUME NEW t \in S PROVE Cardinality(B[t]) \in 0 .. Cardinality(S) - 1
  <2>1. B[t] \in SUBSET S /\ B[t] # S
    OBVIOUS
  <2>2. Cardinality(B[t]) <= Cardinality(S) /\ Cardinality(B[t]) # Cardinality(S)
    BY <2>1, FS_Subset
  <2> QED BY <1>1, <2>2
<1>3. ASSUME NEW t \in S, NEW u \in S, u \in B[t] PROVE Cardinality(B[u]) < Cardinality(B[t])
  <2>1. B[u] \in SUBSET B[t] /\ B[u] # B[t]
    BY <1>3
  <2>2. Cardinality(B[u]) <= Cardinality(B[t]) /\ Cardinality(B[u]) # Cardinality(B[t])
    BY <1>1, <2>1, FS_Subset
  <2> QED BY <1>1, <2>2
<1>4. \A t, u \in S : Cardinality(B[u]) = Cardinality(B[t]) => t = u
  BY <1>1, <1>3
<1>5. \A t, u \in S : u \in B[t] <=> Cardinality(B[u]) < Cardinality(B[t])
  <2> SUFFICES ASSUME NEW t \in S, NEW u \in S, Cardinality(B[u]) < Cardinality(B[t]) PROVE u \in B[t]
    BY <1>3
  <2>1. t # u /\ ~(Cardinality(B[t]) < Cardinality(B[u]))
    BY <1>1
  <2> QED BY <1>3, <2>1
<1>6. ASSUME NEW i \in 0 .. Cardinality(S) - 1 PROVE \E t \in S : Cardinality(B[t]) = i
  <2>1. PICK T, f : T = 0 .. Cardinality(S) - 1 /\ f = [t \in S |-> Cardinality(B[t])]
    OBVIOUS
  <2>2. f \in Injection(S, T)
    BY <1>2, <1>4, <2>1 DEF Injection, IsInjective
  <2>3. IsFiniteSet(T) /\ Cardinality(T) = Cardinality(S)
    BY <1>1, <2>1, FS_Interval
  <2>4. f \in Surjection(S, T)
    BY <2>2, <2>3, FS_Injection
  <2> QED BY <2>1, <2>4 DEF Surjection
<1> QED BY <1>2, <1>4, <1>5, <1>6

(* Fractions with positive denominators are compared by cross              *)
(* multiplication, and that is transitive.                                 *)
LEMMA CrossMultiplication ==
    ASSUME NEW a \in Int, NEW c \in Int, NEW e \in Int,
           NEW b \in Nat \ {0}, NEW d \in Nat \ {0}, NEW f \in Nat \ {0},
           a * d <= c * b, c * f <= e * d
    PROVE  /\ a * f <= e * b
           /\ a * f = e * b => a * d = c * b /\ c * f = e * d
  OBVIOUS
-----------------------------------------------------------------------------
LEMMA ToSetFinite ==
    ASSUME NEW S, NEW s \in Seq(S)
    PROVE  IsFiniteSet(ToSet(s)) /\ ToSet(s) \subseteq S /\ IsFiniteSet(DOMAIN s)
<1>1. DOMAIN s = 1 .. Len(s) /\ Len(s) \in Nat
  OBVIOUS
<1>2. IsFiniteSet(DOMAIN s)
  BY <1>1, FS_Interval
<1>3. s \in Surjection(DOMAIN s, ToSet(s))
  BY DEF Surjection, ToSet
<1>4. IsFiniteSet(ToSet(s))
  BY <1>2, <1>3, FS_Surjection
<1> QED BY <1>2, <1>4 DEF ToSet

(* The elements of a concatenation are those of its parts.                 *)
LEMMA ConcatElements ==
    ASSUME NEW S, NEW s \in Seq(S), NEW t \in Seq(S)
    PROVE  s \o t \in Seq(S) /\ ToSet(s \o t) = ToSet(s) \cup ToSet(t)
<1>1. s \o t \in Seq(S) /\ Len(s \o t) = Len(s) + Len(t)
  OBVIOUS
<1>2. ASSUME NEW x \in ToSet(s) PROVE x \in ToSet(s \o t)
  <2>1. PICK i \in 1 .. Len(s) : x = s[i]
    BY <1>2 DEF ToSet
  <2>2. i \in 1 .. Len(s \o t) /\ (s \o t)[i] = x
    BY <2>1, <1>1
  <2> QED BY <2>2, <1>1 DEF ToSet
<1>3. ASSUME NEW x \in ToSet(t) PROVE x \in ToSet(s \o t)
  <2>1. PICK i \in 1 .. Len(t) : x = t[i]
    BY <1>3 DEF ToSet
  <2>2. Len(s) + i \in 1 .. Len(s \o t) /\ (s \o t)[Len(s) + i] = x
    BY <2>1, <1>1
  <2> QED BY <2>2, <1>1 DEF ToSet
<1>4. ASSUME NEW x \in ToSet(s \o t) PROVE x \in ToSet(s) \cup ToSet(t)
  <2>1. PICK i \in 1 .. Len(s \o t) : x = (s \o t)[i]
    BY <1>1 DEF ToSet
  <2>2. CASE i <= Len(s)
    BY <2>1, <2>2 DEF ToSet
  <2>3. CASE i > Len(s)
    <3>1. i - Len(s) \in 1 .. Len(t) /\ x = t[i - Len(s)]
      BY <2>1, <2>3, <1>1
    <3> QED BY <3>1 DEF ToSet
  <2> QED BY <2>1, <2>2, <2>3
<1> QED BY <1>1, <1>2, <1>3, <1>4

(* FlattenSeq is defined by recursion, shown first to define a function    *)
(* and then, by induction, to collect the elements of the first m parts.   *)
Flattens(F, ss, S) ==
    /\ FlattenSeq(ss) = F[Len(ss)]
    /\ F[1] = ss[1]
    /\ \A i \in 1 .. Len(ss) - 1 : F[i + 1] = F[i] \o ss[i + 1]
    /\ \A m \in 1 .. Len(ss) :
           F[m] \in Seq(S) /\ ToSet(F[m]) = UNION {ToSet(ss[i]) : i \in 1 .. m}

LEMMA FlattenSteps ==
    ASSUME NEW S, NEW ss \in Seq(Seq(S)), ss # <<>>
    PROVE  \E F : Flattens(F, ss, S)
<1> DEFINE n == Len(ss)
    IsFlat(f, m) == f = [i \in 1 .. m |-> IF i = 1 THEN ss[i] ELSE f[i - 1] \o ss[i]]
    F == CHOOSE f : IsFlat(f, n)
    Exists(m) == m <= n => \E f : IsFlat(f, m)
    Good == {m \in Nat : Exists(m)}
    Right(m) == m \in 1 .. n => F[m] \in Seq(S) /\ ToSet(F[m]) = UNION {ToSet(ss[i]) : i \in 1 .. m}
    Done == {m \in Nat : Right(m)}
<1>1. n \in Nat /\ n >= 1 /\ DOMAIN ss = 1 .. n /\ \A i \in 1 .. n : ss[i] \in Seq(S)
  OBVIOUS
<1>6. FlattenSeq(ss) = F[n]
  BY <1>1 DEF FlattenSeq
<1>2. Exists(0)
  <2>1. IsFlat([i \in 1 .. 0 |-> 0], 0)
    OBVIOUS
  <2> QED BY <2>1
<1>3. ASSUME NEW m \in Nat, Exists(m) PROVE Exists(m + 1)
  <2> SUFFICES ASSUME m + 1 <= n PROVE \E f : IsFlat(f, m + 1)
    OBVIOUS
  <2>1. m <= n
    BY <1>1
  <2>2. PICK f : IsFlat(f, m)
    BY <2>1, <1>3
  <2> DEFINE e(h, i) == IF i = 1 THEN ss[i] ELSE h[i - 1] \o ss[i]
      g == [i \in 1 .. m + 1 |-> IF i = m + 1 THEN e(f, i) ELSE f[i]]
  <2>3. ASSUME NEW i \in 1 .. m + 1 PROVE g[i] = e(g, i)
    <3>1. CASE i = m + 1
      BY <3>1
    <3>2. CASE i # m + 1
      <4>1. i \in 1 .. m /\ (i # 1 => i - 1 \in 1 .. m /\ i - 1 # m + 1)
        BY <3>2
      <4>2. f[i] = e(f, i)
        BY <4>1, <2>2
      <4> QED BY <4>1, <4>2, <3>2
    <3> QED BY <3>1, <3>2
  <2>4. g = [i \in 1 .. m + 1 |-> e(g, i)]
    BY <2>3
  <2> QED BY <2>4
<1> HIDE DEF IsFlat
<1>4. \E f : IsFlat(f, n)
  <2> HIDE DEF Exists
  <2>1. 0 \in Good /\ \A m \in Nat : m \in Good => m + 1 \in Good
    BY <1>2, <1>3
  <2> HIDE DEF Good
  <2>2. Nat \subseteq Good
    BY <2>1, SetInduction
  <2>3. Exists(n)
    BY <2>2, <1>1 DEF Good
  <2> QED BY <2>3, <1>1 DEF Exists
<1>5. IsFlat(F, n)
  BY <1>4
<1> HIDE DEF F
<1>7. /\ F[1] = ss[1]
      /\ \A i \in 1 .. n - 1 : F[i + 1] = F[i] \o ss[i + 1]
  <2>1. \A i \in 1 .. n : F[i] = IF i = 1 THEN ss[i] ELSE F[i - 1] \o ss[i]
    BY <1>5 DEF IsFlat
  <2>2. F[1] = ss[1]
    BY <2>1, <1>1
  <2>3. ASSUME NEW i \in 1 .. n - 1 PROVE F[i + 1] = F[i] \o ss[i + 1]
    <3>1. i + 1 \in 1 .. n /\ i + 1 # 1 /\ (i + 1) - 1 = i
      BY <1>1
    <3> QED BY <3>1, <2>1
  <2> QED BY <2>2, <2>3
<1>8. Right(0)
  <2>1. 0 \notin 1 .. n
    BY <1>1
  <2> QED BY <2>1
<1>9. ASSUME NEW m \in Nat, Right(m) PROVE Right(m + 1)
  <2> SUFFICES ASSUME m + 1 \in 1 .. n
               PROVE  F[m + 1] \in Seq(S)
                      /\ ToSet(F[m + 1]) = UNION {ToSet(ss[i]) : i \in 1 .. m + 1}
    OBVIOUS
  <2>1. CASE m = 0
    <3>1. 1 .. m + 1 = {1}
      BY <2>1
    <3> QED BY <3>1, <2>1, <1>1, <1>7
  <2>2. CASE m > 0
    <3>1. m \in 1 .. n /\ m \in 1 .. n - 1
      BY <1>1, <2>2
    <3>2. F[m + 1] = F[m] \o ss[m + 1]
      BY <3>1, <1>7
    <3>3. /\ F[m] \in Seq(S) /\ ss[m + 1] \in Seq(S)
          /\ ToSet(F[m]) = UNION {ToSet(ss[i]) : i \in 1 .. m}
      BY <3>1, <1>9, <1>1
    <3>4. ToSet(F[m] \o ss[m + 1]) = ToSet(F[m]) \cup ToSet(ss[m + 1])
      BY <3>3, ConcatElements
    <3>5. 1 .. m + 1 = (1 .. m) \cup {m + 1}
      OBVIOUS
    <3> QED BY <3>1, <3>2, <3>3, <3>4, <3>5, <1>9
  <2> QED BY <2>1, <2>2
<1>10. \A m \in 1 .. n : Right(m)
  <2> HIDE DEF Right
  <2>1. 0 \in Done /\ \A m \in Nat : m \in Done => m + 1 \in Done
    BY <1>8, <1>9
  <2> HIDE DEF Done
  <2>2. Nat \subseteq Done
    BY <2>1, SetInduction
  <2> QED BY <2>2, <1>1 DEF Done
<1> QED BY <1>6, <1>7, <1>10 DEF Flattens

(* The elements of a flattened sequence are those of its parts.            *)
LEMMA FlattenFacts ==
    ASSUME NEW S, NEW ss \in Seq(Seq(S)), ss # <<>>
    PROVE  /\ FlattenSeq(ss) \in Seq(S)
           /\ ToSet(FlattenSeq(ss)) = UNION {ToSet(ss[i]) : i \in DOMAIN ss}
<1>1. Len(ss) \in 1 .. Len(ss) /\ DOMAIN ss = 1 .. Len(ss)
  OBVIOUS
<1>2. PICK F : Flattens(F, ss, S)
  BY FlattenSteps
<1> QED BY <1>1, <1>2 DEF Flattens

(* Where the elements of a concatenation are.                              *)
LEMMA ConcatPlaces ==
    ASSUME NEW S, NEW a \in Seq(S), NEW c \in Seq(S)
    PROVE  /\ Len(a \o c) = Len(a) + Len(c)
           /\ \A k \in 1 .. Len(a) : (a \o c)[k] = a[k] /\ k \in 1 .. Len(a \o c)
           /\ \A k \in 1 .. Len(c) : (a \o c)[Len(a) + k] = c[k] /\ Len(a) + k \in 1 .. Len(a \o c)
  OBVIOUS

(* If no element of a flattened sequence is repeated, none is repeated in  *)
(* a part and no two parts share one.                                      *)
LEMMA FlattenInjective ==
    ASSUME NEW S, NEW ss \in Seq(Seq(S)), ss # <<>>,
           \A k, l \in 1 .. Len(FlattenSeq(ss)) : FlattenSeq(ss)[k] = FlattenSeq(ss)[l] => k = l
    PROVE  \A i, p \in DOMAIN ss : \A j \in DOMAIN ss[i], q \in DOMAIN ss[p] :
               ss[i][j] = ss[p][q] => i = p /\ j = q
<1> DEFINE n == Len(ss)
    Inj(s) == \A k, l \in 1 .. Len(s) : s[k] = s[l] => k = l
<1>1. n \in Nat /\ n >= 1 /\ DOMAIN ss = 1 .. n /\ \A i \in 1 .. n : ss[i] \in Seq(S)
  OBVIOUS
<1>0. PICK F : Flattens(F, ss, S)
  BY FlattenSteps
<1>2. /\ FlattenSeq(ss) = F[n]
      /\ F[1] = ss[1]
      /\ \A i \in 1 .. n - 1 : F[i + 1] = F[i] \o ss[i + 1]
      /\ \A m \in 1 .. n :
             F[m] \in Seq(S) /\ ToSet(F[m]) = UNION {ToSet(ss[i]) : i \in 1 .. m}
  BY <1>0 DEF Flattens
<1> DEFINE Apart(m) == \A i, p \in 1 .. m : \A j \in DOMAIN ss[i], q \in DOMAIN ss[p] :
                           ss[i][j] = ss[p][q] => i = p /\ j = q
    Right(m) == m \in 1 .. n /\ Inj(F[m]) => Apart(m)
    Done == {m \in Nat : Right(m)}
<1>3. Right(0)
  <2>1. 0 \notin 1 .. n
    BY <1>1
  <2> QED BY <2>1
<1>4. ASSUME NEW m \in Nat, Right(m) PROVE Right(m + 1)
  <2> SUFFICES ASSUME m + 1 \in 1 .. n, Inj(F[m + 1]) PROVE Apart(m + 1)
    OBVIOUS
  <2>1. CASE m = 0
    <3>1. \A i \in 1 .. m + 1 : i = 1
      BY <2>1
    <3>2. Inj(ss[1]) /\ ss[1] \in Seq(S)
      BY <1>1, <1>2, <2>1
    <3>3. \A j, q \in DOMAIN ss[1] : ss[1][j] = ss[1][q] => j = q
      <4>1. DOMAIN ss[1] = 1 .. Len(ss[1])
        BY <3>2
      <4> QED BY <3>2, <4>1
    <3> QED BY <3>1, <3>3
  <2>2. CASE m > 0
    <3>1. m \in 1 .. n /\ m \in 1 .. n - 1
      BY <1>1, <2>2
    <3>2. PICK a, c : a = F[m] /\ c = ss[m + 1]
      OBVIOUS
    <3>3. /\ a \in Seq(S) /\ c \in Seq(S) /\ F[m + 1] = a \o c
          /\ ToSet(a) = UNION {ToSet(ss[i]) : i \in 1 .. m}
      BY <1>1, <1>2, <3>1, <3>2
    <3>4. /\ Len(a \o c) = Len(a) + Len(c)
          /\ \A k \in 1 .. Len(a) : (a \o c)[k] = a[k] /\ k \in 1 .. Len(a \o c)
          /\ \A k \in 1 .. Len(c) : (a \o c)[Len(a) + k] = c[k] /\ Len(a) + k \in 1 .. Len(a \o c)
      BY <3>3, ConcatPlaces
    <3>5. Inj(a \o c)
      <4> HIDE DEF Inj
      <4> QED BY <3>3
    <3>6. Apart(m)
      <4>1. Inj(a)
        BY <3>4, <3>5
      <4> QED BY <4>1, <1>4, <3>1, <3>2
    <3>7. \A j, q \in DOMAIN c : c[j] = c[q] => j = q
      <4>1. DOMAIN c = 1 .. Len(c) /\ Len(a) \in Nat
        BY <3>3
      <4> SUFFICES ASSUME NEW j \in 1 .. Len(c), NEW q \in 1 .. Len(c), c[j] = c[q] PROVE j = q
        BY <4>1
      <4>2. Len(a) + j = Len(a) + q
        BY <3>4, <3>5
      <4> QED BY <4>1, <4>2
    <3>8. ASSUME NEW i \in 1 .. m, NEW j \in DOMAIN ss[i], NEW q \in DOMAIN c
          PROVE  ss[i][j] # c[q]
      <4>0. ss[i][j] \in ToSet(ss[i])
        BY DEF ToSet
      <4>1. ss[i][j] \in ToSet(a)
        BY <3>3, <4>0
      <4>2. PICK k \in DOMAIN a : ss[i][j] = a[k]
        BY <4>1 DEF ToSet
      <4>3. /\ k \in 1 .. Len(a) /\ Len(a) \in Nat
            /\ q \in 1 .. Len(c) /\ Len(c) \in Nat
        <5>1. a \in Seq(S) /\ c \in Seq(S)
          BY <3>3
        <5> QED BY <5>1
      <4>5. k # Len(a) + q
        BY <4>3
      <4>4. (a \o c)[k] = ss[i][j] /\ (a \o c)[Len(a) + q] = c[q]
            /\ k \in 1 .. Len(a \o c) /\ Len(a) + q \in 1 .. Len(a \o c)
        BY <3>4, <4>2, <4>3
      <4> QED BY <3>5, <4>4, <4>5
    <3>9. \A i \in 1 .. m + 1 : i \in 1 .. m \/ i = m + 1
      OBVIOUS
    <3> SUFFICES ASSUME NEW i \in 1 .. m + 1, NEW p \in 1 .. m + 1,
                        NEW j \in DOMAIN ss[i], NEW q \in DOMAIN ss[p], ss[i][j] = ss[p][q]
                 PROVE  i = p /\ j = q
      OBVIOUS
    <3>10. CASE i \in 1 .. m /\ p \in 1 .. m
      BY <3>6, <3>10
    <3>11. CASE i = m + 1 /\ p = m + 1
      BY <3>2, <3>7, <3>11
    <3>12. CASE i \in 1 .. m /\ p = m + 1
      BY <3>2, <3>8, <3>12
    <3>13. CASE i = m + 1 /\ p \in 1 .. m
      BY <3>2, <3>8, <3>13
    <3> QED BY <3>9, <3>10, <3>11, <3>12, <3>13
  <2> QED BY <2>1, <2>2
<1>5. Right(n)
  <2> HIDE DEF Right
  <2>1. 0 \in Done /\ \A m \in Nat : m \in Done => m + 1 \in Done
    BY <1>3, <1>4
  <2> HIDE DEF Done
  <2>2. Nat \subseteq Done
    BY <2>1, SetInduction
  <2> QED BY <1>1, <2>2 DEF Done
<1> QED BY <1>1, <1>2, <1>5
-----------------------------------------------------------------------------
(* Cutting and joining sequences.                                          *)
LEMMA ConcatAssoc ==
    ASSUME NEW S, NEW a \in Seq(S), NEW b \in Seq(S), NEW c \in Seq(S)
    PROVE  (a \o b) \o c = a \o (b \o c) /\ a \o b \in Seq(S)
  OBVIOUS

LEMMA ConcatEmpty ==
    ASSUME NEW S, NEW a \in Seq(S)
    PROVE  a \o <<>> = a /\ <<>> \o a = a
  OBVIOUS

LEMMA SameSequence ==
    ASSUME NEW S, NEW a \in Seq(S), NEW b \in Seq(S), Len(a) = Len(b),
           \A k \in 1 .. Len(a) : a[k] = b[k]
    PROVE  a = b
  OBVIOUS

LEMMA ConcatCut ==
    ASSUME NEW S, NEW a \in Seq(S), NEW b \in Seq(S)
    PROVE  /\ Len(a \o b) = Len(a) + Len(b)
           /\ SubSeq(a \o b, 1, Len(a)) = a
           /\ SubSeq(a \o b, Len(a) + 1, Len(a \o b)) = b
<1>1. PICK c, n, m : c = a \o b /\ n = Len(a) /\ m = Len(b)
  OBVIOUS
<1>2. /\ c \in Seq(S) /\ n \in Nat /\ m \in Nat /\ Len(c) = n + m
      /\ \A k \in 1 .. n : c[k] = a[k]
      /\ \A k \in 1 .. m : c[n + k] = b[k]
  BY <1>1, ConcatPlaces
<1>3. SubSeq(c, 1, n) = a
  <2>1. SubSeq(c, 1, n) \in Seq(S) /\ Len(SubSeq(c, 1, n)) = n
    BY <1>2
  <2>2. \A k \in 1 .. n : SubSeq(c, 1, n)[k] = a[k]
    BY <1>2
  <2> QED BY <1>1, <2>1, <2>2, SameSequence
<1>4. SubSeq(c, n + 1, n + m) = b
  <2>1. SubSeq(c, n + 1, n + m) \in Seq(S) /\ Len(SubSeq(c, n + 1, n + m)) = m
    BY <1>2
  <2>2. \A k \in 1 .. m : SubSeq(c, n + 1, n + m)[k] = b[k]
    BY <1>2
  <2> QED BY <1>1, <2>1, <2>2, SameSequence
<1> QED BY <1>1, <1>2, <1>3, <1>4

LEMMA ConcatCancel ==
    ASSUME NEW S, NEW a \in Seq(S), NEW b \in Seq(S), NEW c \in Seq(S), NEW d \in Seq(S),
           Len(a) = Len(c), a \o b = c \o d
    PROVE  a = c /\ b = d
<1>1. PICK x, y, n : x = a \o b /\ y = c \o d /\ n = Len(a)
  OBVIOUS
<1>2. SubSeq(x, 1, n) = a /\ SubSeq(x, n + 1, Len(x)) = b
  BY <1>1, ConcatCut
<1>3. SubSeq(y, 1, n) = c /\ SubSeq(y, n + 1, Len(y)) = d
  BY <1>1, ConcatCut
<1> QED BY <1>1, <1>2, <1>3

LEMMA SplitAt ==
    ASSUME NEW S, NEW c \in Seq(S), NEW n \in Nat, n <= Len(c)
    PROVE  /\ SubSeq(c, 1, n) \in Seq(S) /\ Len(SubSeq(c, 1, n)) = n
           /\ SubSeq(c, n + 1, Len(c)) \in Seq(S)
           /\ SubSeq(c, 1, n) \o SubSeq(c, n + 1, Len(c)) = c
<1>1. PICK a, b : a = SubSeq(c, 1, n) /\ b = SubSeq(c, n + 1, Len(c))
  OBVIOUS
<1>2. /\ a \in Seq(S) /\ Len(a) = n
      /\ \A k \in 1 .. n : a[k] = c[k]
  BY <1>1
<1>3. /\ b \in Seq(S) /\ Len(b) = Len(c) - n
      /\ \A k \in 1 .. Len(c) - n : b[k] = c[n + k]
  BY <1>1
<1>4. a \o b \in Seq(S) /\ Len(a \o b) = Len(c)
  BY <1>2, <1>3
<1>5. ASSUME NEW k \in 1 .. Len(a \o b) PROVE (a \o b)[k] = c[k]
  <2>1. CASE k <= n
    BY <1>2, <1>3, <2>1
  <2>2. CASE k > n
    <3>1. k - n \in 1 .. Len(c) - n /\ n + (k - n) = k
      BY <1>4, <2>2
    <3>2. (a \o b)[k] = b[k - n]
      BY <1>2, <1>3, <1>4, <2>2
    <3> QED BY <1>3, <3>1, <3>2
  <2> QED BY <1>4, <2>1, <2>2
<1> QED BY <1>1, <1>2, <1>3, <1>4, <1>5, SameSequence

LEMMA AppendParts ==
    ASSUME NEW S, NEW s \in Seq(S), NEW x \in S
    PROVE  /\ Append(s, x) \in Seq(S) /\ Len(Append(s, x)) = Len(s) + 1
           /\ Append(s, x) = s \o <<x>>
           /\ Front(Append(s, x)) = s /\ Last(Append(s, x)) = x
  BY DEF Front, Last

LEMMA LastParts ==
    ASSUME NEW S, NEW s \in Seq(S), s # <<>>
    PROVE  /\ Front(s) \in Seq(S) /\ Last(s) \in S
           /\ Len(Front(s)) = Len(s) - 1 /\ Append(Front(s), Last(s)) = s
<1>1. Len(s) \in Nat /\ Len(s) >= 1 /\ Last(s) \in S
  BY DEF Last
<1>2. /\ Front(s) \in Seq(S) /\ Len(Front(s)) = Len(s) - 1
      /\ \A k \in 1 .. Len(s) - 1 : Front(s)[k] = s[k]
  <2>1. PICK n \in Nat : n = Len(s) - 1
    BY <1>1
  <2>2. n <= Len(s) /\ Front(s) = SubSeq(s, 1, n)
    BY <1>1, <2>1 DEF Front
  <2>3. SubSeq(s, 1, n) \in Seq(S) /\ Len(SubSeq(s, 1, n)) = n
    BY <2>2, SplitAt
  <2>4. \A k \in 1 .. n : SubSeq(s, 1, n)[k] = s[k]
    BY <2>2
  <2> QED BY <2>1, <2>2, <2>3, <2>4
<1>3. PICK f, x : f = Front(s) /\ x = Last(s)
  OBVIOUS
<1>4. /\ Append(f, x) \in Seq(S) /\ Len(Append(f, x)) = Len(s)
      /\ Append(f, x)[Len(s)] = x
      /\ \A k \in 1 .. Len(s) - 1 : Append(f, x)[k] = s[k]
  BY <1>1, <1>2, <1>3
<1>5. ASSUME NEW k \in 1 .. Len(s) PROVE Append(f, x)[k] = s[k]
  BY <1>3, <1>4 DEF Last
<1> QED BY <1>1, <1>2, <1>3, <1>4, <1>5, SameSequence

LEMMA HeadParts ==
    ASSUME NEW S, NEW s \in Seq(S), s # <<>>
    PROVE  /\ Head(s) \in S /\ Tail(s) \in Seq(S)
           /\ Len(Tail(s)) = Len(s) - 1 /\ <<Head(s)>> \o Tail(s) = s
  OBVIOUS

LEMMA ConsParts ==
    ASSUME NEW S, NEW s \in Seq(S), NEW x \in S
    PROVE  /\ <<x>> \o s \in Seq(S) /\ Len(<<x>> \o s) = Len(s) + 1 /\ <<x>> \o s # <<>>
           /\ Head(<<x>> \o s) = x /\ Tail(<<x>> \o s) = s
  OBVIOUS

(* Flattening, part by part.                                               *)
LEMMA FlattenType ==
    ASSUME NEW S, NEW ss \in Seq(Seq(S))
    PROVE  FlattenSeq(ss) \in Seq(S) /\ FlattenSeq(<<>>) = <<>>
<1>1. FlattenSeq(<<>>) = <<>>
  BY DEF FlattenSeq
<1>2. CASE ss = <<>>
  <2>1. FlattenSeq(ss) = <<>> /\ <<>> \in Seq(S)
    BY <1>1, <1>2
  <2> QED BY <1>1, <2>1
<1>3. CASE ss # <<>>
  BY <1>1, <1>3, FlattenFacts
<1> QED BY <1>2, <1>3

LEMMA FlattenAppend ==
    ASSUME NEW S, NEW ss \in Seq(Seq(S)), NEW s \in Seq(S)
    PROVE  FlattenSeq(Append(ss, s)) = FlattenSeq(ss) \o s
<1>1. PICK tt, n : tt = Append(ss, s) /\ n = Len(ss)
  OBVIOUS
<1>2. /\ tt \in Seq(Seq(S)) /\ tt # <<>> /\ Len(tt) = n + 1 /\ n \in Nat
      /\ tt[n + 1] = s /\ \A i \in 1 .. n : tt[i] = ss[i]
  BY <1>1
<1>3. PICK F : Flattens(F, tt, S)
  BY <1>2, FlattenSteps
<1>4. FlattenSeq(tt) = F[n + 1] /\ F[1] = tt[1] /\ \A i \in 1 .. n : F[i + 1] = F[i] \o tt[i + 1]
  <2>1. \A i \in 1 .. Len(tt) - 1 : F[i + 1] = F[i] \o tt[i + 1]
    BY <1>3 DEF Flattens
  <2>2. Len(tt) - 1 = n
    BY <1>2
  <2> QED BY <1>2, <1>3, <2>1, <2>2 DEF Flattens
<1>5. CASE ss = <<>>
  <2>1. n = 0 /\ FlattenSeq(ss) = <<>>
    BY <1>1, <1>5, FlattenType
  <2>2. <<>> \o s = s
    BY ConcatEmpty
  <2> QED BY <1>1, <1>2, <1>4, <2>1, <2>2
<1>6. CASE ss # <<>>
  <2>1. PICK H : Flattens(H, ss, S)
    BY <1>6, FlattenSteps
  <2>2. /\ n >= 1 /\ FlattenSeq(ss) = H[n] /\ H[1] = ss[1]
        /\ \A i \in 1 .. n - 1 : H[i + 1] = H[i] \o ss[i + 1]
    <3>1. Len(ss) >= 1
      BY <1>6
    <3>2. /\ FlattenSeq(ss) = H[Len(ss)] /\ H[1] = ss[1]
          /\ \A i \in 1 .. Len(ss) - 1 : H[i + 1] = H[i] \o ss[i + 1]
      BY <2>1 DEF Flattens
    <3> QED BY <1>1, <3>1, <3>2
  <2> DEFINE Same == {i \in Nat : i \in 1 .. n => F[i] = H[i]}
  <2>3. 0 \in Same
    OBVIOUS
  <2>4. ASSUME NEW i \in Nat, i \in Same PROVE i + 1 \in Same
    <3> SUFFICES ASSUME i + 1 \in 1 .. n PROVE F[i + 1] = H[i + 1]
      OBVIOUS
    <3>1. CASE i = 0
      BY <1>2, <1>4, <2>2, <3>1
    <3>2. CASE i # 0
      <4>1. i \in 1 .. n /\ i \in 1 .. n - 1
        BY <1>2, <3>2
      <4>2. F[i] = H[i]
        BY <2>4, <4>1
      <4>3. F[i + 1] = F[i] \o tt[i + 1] /\ H[i + 1] = H[i] \o ss[i + 1] /\ tt[i + 1] = ss[i + 1]
        BY <1>2, <1>4, <2>2, <4>1
      <4> QED BY <4>2, <4>3
    <3> QED BY <3>1, <3>2
  <2>5. Nat \subseteq Same
    <3> HIDE DEF Same
    <3> QED BY <2>3, <2>4, SetInduction
  <2>6. n \in 1 .. n /\ n \in Same
    BY <1>2, <2>2, <2>5
  <2>7. F[n] = H[n]
    BY <2>6
  <2>8. F[n + 1] = F[n] \o tt[n + 1]
    BY <1>4, <2>6
  <2> QED BY <1>1, <1>2, <1>4, <2>2, <2>7, <2>8
<1> QED BY <1>5, <1>6

LEMMA FlattenHead ==
    ASSUME NEW S, NEW s \in Seq(S)
    PROVE  \A ss \in Seq(Seq(S)) : FlattenSeq(<<s>> \o ss) = s \o FlattenSeq(ss)
<1> DEFINE Holds(n) == \A ss \in Seq(Seq(S)) :
                           Len(ss) = n => FlattenSeq(<<s>> \o ss) = s \o FlattenSeq(ss)
    Good == {n \in Nat : Holds(n)}
<1>1. Holds(0)
  <2> SUFFICES ASSUME NEW ss \in Seq(Seq(S)), Len(ss) = 0
               PROVE  FlattenSeq(<<s>> \o ss) = s \o FlattenSeq(ss)
    OBVIOUS
  <2>1. ss = <<>> /\ <<s>> \o ss = Append(<<>>, s) /\ <<>> \in Seq(Seq(S))
    OBVIOUS
  <2>2. FlattenSeq(Append(<<>>, s)) = FlattenSeq(<<>>) \o s
    BY <2>1, FlattenAppend
  <2>3. FlattenSeq(<<>>) = <<>>
    BY <2>1, FlattenType
  <2>4. <<>> \o s = s /\ s \o <<>> = s
    BY ConcatEmpty
  <2> QED BY <2>1, <2>2, <2>3, <2>4
<1>2. ASSUME NEW n \in Nat, Holds(n) PROVE Holds(n + 1)
  <2> SUFFICES ASSUME NEW ss \in Seq(Seq(S)), Len(ss) = n + 1
               PROVE  FlattenSeq(<<s>> \o ss) = s \o FlattenSeq(ss)
    OBVIOUS
  <2>1. PICK f, x : f = Front(ss) /\ x = Last(ss)
    OBVIOUS
  <2>2. f \in Seq(Seq(S)) /\ x \in Seq(S) /\ Len(f) = n /\ ss = Append(f, x)
    <3>1. PICK O : O = Seq(S)
      OBVIOUS
    <3>2. ss \in Seq(O) /\ ss # <<>>
      BY <3>1
    <3>3. f \in Seq(O) /\ x \in O /\ Len(f) = Len(ss) - 1 /\ Append(f, x) = ss
      BY <2>1, <3>2, LastParts
    <3> QED BY <3>1, <3>3
  <2>3. <<s>> \o f \in Seq(Seq(S)) /\ <<s>> \o ss = Append(<<s>> \o f, x)
    <3>1. <<s>> \in Seq(Seq(S)) /\ <<x>> \in Seq(Seq(S))
      BY <2>2
    <3>2. <<s>> \o f \in Seq(Seq(S)) /\ (<<s>> \o f) \o <<x>> = <<s>> \o (f \o <<x>>)
      BY <2>2, <3>1, ConcatAssoc
    <3>3. ss = f \o <<x>> /\ Append(<<s>> \o f, x) = (<<s>> \o f) \o <<x>>
      BY <2>2, <3>2, AppendParts
    <3> QED BY <3>2, <3>3
  <2>4. FlattenSeq(<<s>> \o ss) = FlattenSeq(<<s>> \o f) \o x
    BY <2>2, <2>3, FlattenAppend
  <2>5. FlattenSeq(<<s>> \o f) = s \o FlattenSeq(f)
    BY <1>2, <2>2
  <2>6. FlattenSeq(ss) = FlattenSeq(f) \o x /\ FlattenSeq(f) \in Seq(S)
    BY <2>2, FlattenAppend, FlattenType
  <2>7. (s \o FlattenSeq(f)) \o x = s \o (FlattenSeq(f) \o x)
    BY <2>2, <2>6, ConcatAssoc
  <2> QED BY <2>4, <2>5, <2>6, <2>7
<1>3. Nat \subseteq Good
  <2> HIDE DEF Holds
  <2>1. 0 \in Good /\ \A n \in Nat : n \in Good => n + 1 \in Good
    BY <1>1, <1>2
  <2> HIDE DEF Good
  <2> QED BY <2>1, SetInduction
<1>4. \A ss \in Seq(Seq(S)) : Len(ss) \in Good
  <2> HIDE DEF Good
  <2> QED BY <1>3
<1> QED BY <1>4
=============================================================================
