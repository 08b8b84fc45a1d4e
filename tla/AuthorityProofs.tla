-------------------------- MODULE AuthorityProofs --------------------------
(***************************************************************************)
(* Machine-checked proofs about Authority, for any catalogue of blocks and *)
(* transactions and any number of workers.                                 *)
(***************************************************************************)
EXTENDS Authority, DataLemmas
-----------------------------------------------------------------------------
(* The inputs verify_block_invariants looks up form a finite sequence of   *)
(* outpoints, and they are exactly those of the block's transactions other *)
(* than the coinbase.                                                      *)
LEMMA InputsFacts ==
    ASSUME NEW b \in Block
    PROVE  /\ InputsOf(b) \in Seq(OutPoint)
           /\ Spends(b) = UNION {ToSet(TxIn[t]) : t \in {u \in ToSet(Body[b]) : ~is_coinbase(u)}}
<1> DEFINE body == Body[b]
    In(i) == IF is_coinbase(body[i]) THEN <<>> ELSE TxIn[body[i]]
    ss == [i \in DOMAIN body |-> In(i)]
<1>1. body \in Seq(Tx)
  BY BlockAssumption
<1>2. ASSUME NEW i \in DOMAIN body PROVE In(i) \in Seq(OutPoint)
  BY <1>1, TxAssumption
<1>3. ss \in Seq(Seq(OutPoint)) /\ DOMAIN ss = DOMAIN body /\ Len(ss) = Len(body)
  <2> HIDE DEF In
  <2> QED BY <1>1, <1>2
<1>4. InputsOf(b) = FlattenSeq(ss)
  BY DEF InputsOf
<1>5. UNION {ToSet(ss[i]) : i \in DOMAIN ss}
          = UNION {ToSet(TxIn[t]) : t \in {u \in ToSet(body) : ~is_coinbase(u)}}
  <2>1. ToSet(<<>>) = {}
    BY DEF ToSet
  <2>2. \A i \in DOMAIN body :
            ToSet(ss[i]) = IF is_coinbase(body[i]) THEN {} ELSE ToSet(TxIn[body[i]])
    BY <2>1
  <2>3. ToSet(body) = {body[i] : i \in DOMAIN body}
    BY DEF ToSet
  <2> DEFINE U == UNION {ToSet(ss[i]) : i \in DOMAIN ss}
      V == UNION {ToSet(TxIn[t]) : t \in {u \in ToSet(body) : ~is_coinbase(u)}}
  <2> HIDE DEF ss, body
  <2>4. ASSUME NEW x \in U PROVE x \in V
    <3>1. PICK i \in DOMAIN body : x \in ToSet(ss[i])
      BY <1>3
    <3>2. ~is_coinbase(body[i]) /\ x \in ToSet(TxIn[body[i]])
      BY <3>1, <2>2
    <3>3. body[i] \in {u \in ToSet(body) : ~is_coinbase(u)}
      BY <3>2, <2>3
    <3> QED BY <3>2, <3>3
  <2>5. ASSUME NEW x \in V PROVE x \in U
    <3>1. PICK t \in ToSet(body) : ~is_coinbase(t) /\ x \in ToSet(TxIn[t])
      OBVIOUS
    <3>2. PICK i \in DOMAIN body : t = body[i]
      BY <2>3
    <3>3. x \in ToSet(ss[i])
      BY <3>1, <3>2, <2>2
    <3> QED BY <3>3, <1>3
  <2> QED BY <2>4, <2>5
<1> HIDE DEF ss
<1>6. CASE ss = <<>>
  <2>1. FlattenSeq(ss) = <<>>
    BY <1>6 DEF FlattenSeq
  <2>2. DOMAIN ss = {}
    BY <1>6
  <2>3. InputsOf(b) \in Seq(OutPoint) /\ Spends(b) = {}
    BY <1>4, <2>1 DEF Spends, ToSet
  <2>4. UNION {ToSet(ss[i]) : i \in DOMAIN ss} = {}
    BY <2>2
  <2> QED BY <1>5, <2>3, <2>4
<1>7. CASE ss # <<>>
  BY <1>3, <1>4, <1>5, <1>7, FlattenFacts DEF Spends
<1> QED BY <1>6, <1>7

(* An output created by a block is an outpoint of one of its transactions. *)
LEMMA CreatedType ==
    ASSUME NEW b \in Block
    PROVE  Created(b) \subseteq Tx \X Nat
<1>1. Body[b] \in Seq(Tx)
  BY BlockAssumption
<1>2. \A t \in ToSet(Body[b]) : t \in Tx
  BY <1>1 DEF ToSet
<1>3. ASSUME NEW t \in Tx PROVE OutputsOf(t) \subseteq Tx \X Nat
  <2>1. DOMAIN TxOut[t] \subseteq Nat
    BY TxAssumption
  <2> QED BY <2>1 DEF OutputsOf
<1> QED BY <1>2, <1>3 DEF Created
-----------------------------------------------------------------------------
(* Halved is defined by recursion; it never exceeds the initial subsidy.   *)
LEMMA HalvedFacts == \A n \in 0 .. MaxHalvings : Halved[n] \in 0 .. InitialSubsidy
<1> DEFINE e(f, n) == IF n = 0 THEN InitialSubsidy ELSE f[n - 1] \div 2
    IsHalving(f, m) == f = [n \in 0 .. m |-> e(f, n)]
    Exists(m) == \E f : IsHalving(f, m)
    Good == {m \in Nat : Exists(m)}
    Small(m) == m <= MaxHalvings => Halved[m] \in 0 .. InitialSubsidy
    Done == {m \in Nat : Small(m)}
<1>1. MaxHalvings \in Nat /\ InitialSubsidy \in Nat
  BY NumberAssumption
<1>2. Exists(0)
  <2>1. [n \in 0 .. 0 |-> InitialSubsidy] = [n \in 0 .. 0 |-> e([i \in 0 .. 0 |-> InitialSubsidy], n)]
    OBVIOUS
  <2> QED BY <2>1
<1>3. ASSUME NEW m \in Nat, Exists(m) PROVE Exists(m + 1)
  <2>1. PICK f : IsHalving(f, m)
    BY <1>3
  <2> DEFINE g == [n \in 0 .. m + 1 |-> IF n = m + 1 THEN e(f, n) ELSE f[n]]
  <2>2. ASSUME NEW n \in 0 .. m + 1 PROVE g[n] = e(g, n)
    <3>1. CASE n = m + 1
      BY <3>1
    <3>2. CASE n # m + 1
      <4>1. n \in 0 .. m /\ (n # 0 => n - 1 \in 0 .. m /\ n - 1 # m + 1)
        BY <3>2
      <4>2. f[n] = e(f, n)
        BY <4>1, <2>1
      <4> QED BY <4>1, <4>2, <3>2
    <3> QED BY <3>1, <3>2
  <2>3. g = [n \in 0 .. m + 1 |-> e(g, n)]
    BY <2>2
  <2> QED BY <2>3
<1>4. Exists(MaxHalvings)
  <2> HIDE DEF Exists
  <2>1. 0 \in Good /\ \A m \in Nat : m \in Good => m + 1 \in Good
    BY <1>2, <1>3
  <2> HIDE DEF Good
  <2>2. Nat \subseteq Good
    BY <2>1, SetInduction
  <2> QED BY <2>2, <1>1 DEF Good
<1>5. Halved = [n \in 0 .. MaxHalvings |-> e(Halved, n)]
  BY <1>4 DEF Halved
<1>6. Small(0)
  BY <1>1, <1>5
<1>7. ASSUME NEW m \in Nat, Small(m) PROVE Small(m + 1)
  <2> SUFFICES ASSUME m + 1 <= MaxHalvings PROVE Halved[m + 1] \in 0 .. InitialSubsidy
    OBVIOUS
  <2>1. m + 1 \in 0 .. MaxHalvings /\ m + 1 # 0 /\ (m + 1) - 1 = m
    BY <1>1
  <2>2. Halved[m + 1] = Halved[m] \div 2
    BY <1>5, <2>1
  <2>3. Halved[m] \in 0 .. InitialSubsidy
    BY <1>1, <1>7
  <2>4. \A q \in 0 .. InitialSubsidy : q \div 2 \in 0 .. InitialSubsidy
    BY <1>1
  <2> QED BY <2>2, <2>3, <2>4
<1>8. Nat \subseteq Done
  <2> HIDE DEF Small
  <2>1. 0 \in Done /\ \A m \in Nat : m \in Done => m + 1 \in Done
    BY <1>6, <1>7
  <2> HIDE DEF Done
  <2> QED BY <2>1, SetInduction
<1> QED BY <1>1, <1>8

LEMMA SubsidyFacts ==
    ASSUME NEW h \in Nat
    PROVE  calculate_block_subsidy(h) \in Nat /\ calculate_block_subsidy(h) < MaxQuantum
<1>1. /\ MaxHalvings \in Nat /\ InitialSubsidy \in Nat /\ MaxQuantum \in Nat
      /\ InitialSubsidy < MaxQuantum /\ HalvingInterval \in Nat \ {0}
  BY NumberAssumption
<1>2. PICK q : q = h \div HalvingInterval
  OBVIOUS
<1>3. q \in Nat
  BY <1>1, <1>2
<1>4. q < MaxHalvings => q \in 0 .. MaxHalvings
  BY <1>1, <1>3
<1>5. calculate_block_subsidy(h) = IF q >= MaxHalvings THEN 0 ELSE Halved[q]
  BY <1>2 DEF calculate_block_subsidy
<1>6. q < MaxHalvings => Halved[q] \in 0 .. InitialSubsidy
  BY <1>4, HalvedFacts
<1> QED BY <1>1, <1>3, <1>5, <1>6
-----------------------------------------------------------------------------
(***************************************************************************)
(* What a set of outpoints is worth, and that a block which passes the     *)
(* checks creates no more than it spends and its subsidy.                  *)
(***************************************************************************)
Value == [op \in Tx \X Nat |-> ValueOf(op)]

Worth(S) == SumFunctionOnSet(Value, S)

Paid == [t \in Tx |-> OutputValue(t)]

Taken == [t \in Tx |-> InputValue(t)]

Ordinary(b) == {t \in ToSet(Body[b]) : ~is_coinbase(t)}

LEMMA OutputFacts ==
    ASSUME NEW op \in Outputs
    PROVE  op \in Tx \X Nat /\ ValueOf(op) \in Nat /\ Value[op] = ValueOf(op)
<1>1. PICK t \in Tx : \E v \in DOMAIN TxOut[t] : op = <<t, v>>
  BY DEF Outputs, OutputsOf
<1>2. PICK v \in DOMAIN TxOut[t] : op = <<t, v>>
  BY <1>1
<1>3. v \in Nat /\ TxOut[t][v] \in Nat
  BY TxAssumption
<1> QED BY <1>2, <1>3 DEF ValueOf, Value

LEMMA OutputsWorth ==
    ASSUME NEW t \in Tx
    PROVE  /\ IsFiniteSet(OutputsOf(t)) /\ OutputsOf(t) \subseteq Outputs
           /\ Worth(OutputsOf(t)) = OutputValue(t)
           /\ OutputValue(t) \in Nat
<1>0. PICK D, h, f, g : /\ D = DOMAIN TxOut[t] /\ h = [v \in D |-> <<t, v>>]
                        /\ f = Value /\ g = TxOut[t]
  OBVIOUS
<1>1. g \in Seq(Nat) /\ IsFiniteSet(D)
  BY <1>0, TxAssumption, ToSetFinite
<1>2. OutputsOf(t) = {h[v] : v \in D}
  BY <1>0 DEF OutputsOf
<1>3. OutputsOf(t) \subseteq Outputs
  BY DEF Outputs
<1>4. ASSUME NEW v \in D PROVE g[v] \in Nat /\ f[h[v]] = g[v]
  <2>1. h[v] = <<t, v>> /\ h[v] \in Outputs
    BY <1>0, <1>2, <1>3
  <2>2. ValueOf(h[v]) = g[v]
    BY <1>0, <2>1 DEF ValueOf
  <2> QED BY <1>0, <2>1, <2>2, OutputFacts
<1>5. \A v, w \in D : h[v] = h[w] => v = w
  BY <1>0
<1>6. IsFiniteSet(OutputsOf(t)) /\ SumFunctionOnSet(f, OutputsOf(t)) = SumFunctionOnSet(g, D)
  <2>1. PICK W : W = OutputsOf(t)
    OBVIOUS
  <2>2. \A y : y \in W <=> \E v \in D : y = h[v]
    BY <1>2, <2>1
  <2>3. IsFiniteSet(W) /\ SumFunctionOnSet(f, W) = SumFunctionOnSet(g, D)
    <3>1. IsFiniteSet(D)
      BY <1>1
    <3>2. \A x \in D : g[x] \in Nat /\ f[h[x]] = g[x]
      BY <1>4
    <3> QED BY <1>5, <2>2, <3>1, <3>2, SumImage
  <2> QED BY <2>1, <2>3
<1>7. SumFunctionOnSet(g, D) \in Nat
  BY <1>1, <1>4, SumType
<1> QED BY <1>0, <1>2, <1>3, <1>6, <1>7 DEF Worth, OutputValue, SumFunction

LEMMA CreatedWorth ==
    ASSUME NEW b \in Block
    PROVE  /\ IsFiniteSet(Created(b)) /\ Created(b) \subseteq Outputs
           /\ Worth(Created(b)) = SumFunctionOnSet(Paid, ToSet(Body[b]))
<1>1. PICK T, A, f, g : /\ T = ToSet(Body[b]) /\ A = [t \in T |-> OutputsOf(t)]
                        /\ f = Value /\ g = Paid
  OBVIOUS
<1>2. Body[b] \in Seq(Tx) /\ IsFiniteSet(T) /\ T \subseteq Tx
  BY <1>1, BlockAssumption, ToSetFinite
<1>3. \A t \in T : /\ IsFiniteSet(A[t]) /\ A[t] \subseteq Outputs
                   /\ g[t] = SumFunctionOnSet(f, A[t])
  BY <1>1, <1>2, OutputsWorth DEF Worth, Paid
<1>4. \A t, u \in T : t # u => A[t] \cap A[u] = {}
  BY <1>1 DEF OutputsOf
<1>5. \A t \in T : \A x \in A[t] : f[x] \in Nat
  BY <1>1, <1>3, OutputFacts
<1>6. PICK W : W = Created(b)
  OBVIOUS
<1>7. \A x : x \in W <=> \E t \in T : x \in A[t]
  BY <1>1, <1>6 DEF Created
<1>8. IsFiniteSet(W) /\ SumFunctionOnSet(f, W) = SumFunctionOnSet(g, T)
  <2>1. \A t \in T : IsFiniteSet(A[t])
    BY <1>3
  <2>2. \A t \in T : g[t] = SumFunctionOnSet(f, A[t])
    BY <1>3
  <2>3. IsFiniteSet(T)
    BY <1>2
  <2> QED BY <1>4, <1>5, <1>7, <2>1, <2>2, <2>3, SumFamily
<1>9. W \subseteq Outputs
  BY <1>3, <1>7
<1> QED BY <1>1, <1>6, <1>8, <1>9 DEF Worth

(* The inputs of a block that spends nothing twice, one transaction after  *)
(* the other.                                                              *)
LEMMA InputsApart ==
    ASSUME NEW b \in Block, \A k \in DOMAIN InputsOf(b) : ~SpentEarlier(b, k)
    PROVE  \A t, u \in Ordinary(b) : \A j \in DOMAIN TxIn[t], q \in DOMAIN TxIn[u] :
               TxIn[t][j] = TxIn[u][q] => t = u /\ j = q
<1>1. PICK body, ss :
          /\ body = Body[b]
          /\ ss = [i \in DOMAIN body |-> IF is_coinbase(body[i]) THEN <<>> ELSE TxIn[body[i]]]
  OBVIOUS
<1>2. body \in Seq(Tx)
  BY <1>1, BlockAssumption
<1>3. ASSUME NEW i \in DOMAIN body PROVE ss[i] \in Seq(OutPoint)
  BY <1>1, <1>2, TxAssumption
<1>4. ss \in Seq(Seq(OutPoint)) /\ DOMAIN ss = DOMAIN body
  <2>1. PICK O, n : O = Seq(OutPoint) /\ n = Len(body)
    OBVIOUS
  <2>2. n \in Nat /\ DOMAIN body = 1 .. n
    BY <1>2, <2>1
  <2>3. ss = [i \in 1 .. n |-> ss[i]] /\ \A i \in 1 .. n : ss[i] \in O
    BY <1>1, <1>3, <2>1, <2>2
  <2>4. ss \in Seq(O)
    BY <2>2, <2>3
  <2> QED BY <1>1, <2>1, <2>4
<1>5. PICK flat : flat = FlattenSeq(ss)
  OBVIOUS
<1>6. InputsOf(b) = flat
  BY <1>1, <1>5 DEF InputsOf
<1>7. flat \in Seq(OutPoint)
  BY <1>6, InputsFacts
<1>8. ASSUME NEW k \in 1 .. Len(flat), NEW l \in 1 .. Len(flat), flat[k] = flat[l]
      PROVE  k = l
  <2>1. k \in DOMAIN flat /\ l \in DOMAIN flat /\ k \in Nat /\ l \in Nat
    BY <1>7
  <2>2. ~(k < l) /\ ~(l < k)
    BY <1>6, <1>8, <2>1 DEF SpentEarlier
  <2> QED BY <2>1, <2>2
<1> SUFFICES ASSUME NEW t \in Ordinary(b), NEW u \in Ordinary(b),
                    NEW j \in DOMAIN TxIn[t], NEW q \in DOMAIN TxIn[u], TxIn[t][j] = TxIn[u][q]
             PROVE  t = u /\ j = q
  OBVIOUS
<1>9. PICK i \in DOMAIN body : t = body[i]
  BY <1>1 DEF Ordinary, ToSet
<1>10. PICK p \in DOMAIN body : u = body[p]
  BY <1>1 DEF Ordinary, ToSet
<1>11. ss[i] = TxIn[t] /\ ss[p] = TxIn[u]
  BY <1>1, <1>9, <1>10 DEF Ordinary
<1>12. ss # <<>>
  BY <1>4, <1>9
<1>13. \A x, y \in DOMAIN ss : \A v \in DOMAIN ss[x], w \in DOMAIN ss[y] :
           ss[x][v] = ss[y][w] => x = y /\ v = w
  <2>1. \A k, l \in 1 .. Len(FlattenSeq(ss)) : FlattenSeq(ss)[k] = FlattenSeq(ss)[l] => k = l
    BY <1>5, <1>8
  <2> QED BY <1>4, <1>12, <2>1, FlattenInjective
<1>14. i = p /\ j = q
  BY <1>4, <1>9, <1>10, <1>11, <1>13
<1> QED BY <1>9, <1>10, <1>14

LEMMA InputsWorth ==
    ASSUME NEW t \in Tx, ToSet(TxIn[t]) \subseteq Outputs,
           \A j, q \in DOMAIN TxIn[t] : TxIn[t][j] = TxIn[t][q] => j = q
    PROVE  /\ IsFiniteSet(ToSet(TxIn[t]))
           /\ Worth(ToSet(TxIn[t])) = InputValue(t)
           /\ InputValue(t) \in Nat
<1>1. PICK D, h, f, g, W : /\ D = DOMAIN TxIn[t] /\ h = TxIn[t] /\ f = Value
                           /\ g = [i \in DOMAIN TxIn[t] |-> ValueOf(TxIn[t][i])]
                           /\ W = ToSet(TxIn[t])
  OBVIOUS
<1>2. IsFiniteSet(D) /\ IsFiniteSet(W)
  BY <1>1, TxAssumption, ToSetFinite
<1>3. \A y : y \in W <=> \E x \in D : y = h[x]
  BY <1>1 DEF ToSet
<1>4. \A x \in D : g[x] \in Nat /\ f[h[x]] = g[x]
  BY <1>1, <1>3, OutputFacts
<1>5. \A x, y \in D : h[x] = h[y] => x = y
  BY <1>1
<1>6. IsFiniteSet(W) /\ SumFunctionOnSet(f, W) = SumFunctionOnSet(g, D)
  <2>1. IsFiniteSet(D)
    BY <1>2
  <2> QED BY <1>3, <1>4, <1>5, <2>1, SumImage
<1>7. SumFunctionOnSet(g, D) \in Nat
  BY <1>2, <1>4, SumType
<1>8. DOMAIN g = D
  BY <1>1
<1> QED BY <1>1, <1>2, <1>6, <1>7, <1>8 DEF Worth, InputValue, SumFunction

LEMMA SpendsWorth ==
    ASSUME NEW b \in Block, \A k \in DOMAIN InputsOf(b) : ~SpentEarlier(b, k),
           Spends(b) \subseteq Outputs
    PROVE  /\ IsFiniteSet(Spends(b))
           /\ Worth(Spends(b)) = SumFunctionOnSet(Taken, Ordinary(b))
           /\ \A t \in Ordinary(b) : t \in Tx /\ Taken[t] = InputValue(t) /\ Taken[t] \in Nat
<1>1. PICK T, A, f, g, W : /\ T = Ordinary(b) /\ A = [t \in T |-> ToSet(TxIn[t])]
                           /\ f = Value /\ g = Taken /\ W = Spends(b)
  OBVIOUS
<1>2. Body[b] \in Seq(Tx) /\ IsFiniteSet(T) /\ T \subseteq Tx
  <2>1. Body[b] \in Seq(Tx) /\ IsFiniteSet(ToSet(Body[b])) /\ ToSet(Body[b]) \subseteq Tx
    BY BlockAssumption, ToSetFinite
  <2>2. T \subseteq ToSet(Body[b])
    BY <1>1 DEF Ordinary
  <2> QED BY <2>1, <2>2, FS_Subset
<1>3. \A x : x \in W <=> \E t \in T : x \in A[t]
  BY <1>1, InputsFacts DEF Ordinary
<1>4. \A t, u \in T : \A j \in DOMAIN TxIn[t], q \in DOMAIN TxIn[u] :
          TxIn[t][j] = TxIn[u][q] => t = u /\ j = q
  BY <1>1, InputsApart
<1>5. \A t \in T : /\ IsFiniteSet(A[t])
                   /\ g[t] = SumFunctionOnSet(f, A[t])
                   /\ g[t] = InputValue(t) /\ g[t] \in Nat
  <2> SUFFICES ASSUME NEW t \in T
               PROVE  /\ IsFiniteSet(A[t])
                      /\ g[t] = SumFunctionOnSet(f, A[t])
                      /\ g[t] = InputValue(t) /\ g[t] \in Nat
    OBVIOUS
  <2>1. t \in Tx /\ A[t] = ToSet(TxIn[t]) /\ g[t] = InputValue(t)
    BY <1>1, <1>2 DEF Taken
  <2>2. ToSet(TxIn[t]) \subseteq Outputs
    BY <1>1, <1>3, <2>1
  <2>3. \A j, q \in DOMAIN TxIn[t] : TxIn[t][j] = TxIn[t][q] => j = q
    BY <1>4
  <2> QED BY <1>1, <2>1, <2>2, <2>3, InputsWorth DEF Worth
<1>6. \A t, u \in T : t # u => A[t] \cap A[u] = {}
  BY <1>1, <1>4 DEF ToSet
<1>7. \A t \in T : \A x \in A[t] : f[x] \in Nat
  BY <1>1, <1>3, OutputFacts
<1>8. IsFiniteSet(W) /\ SumFunctionOnSet(f, W) = SumFunctionOnSet(g, T)
  <2>1. \A t \in T : IsFiniteSet(A[t])
    BY <1>5
  <2>2. \A t \in T : g[t] = SumFunctionOnSet(f, A[t])
    BY <1>5
  <2>3. IsFiniteSet(T)
    BY <1>2
  <2> QED BY <1>3, <1>6, <1>7, <2>1, <2>2, <2>3, SumFamily
<1> QED BY <1>1, <1>2, <1>5, <1>8 DEF Worth

(* The rules of verify_block_structure and verify_block_invariants balance *)
(* the books: the coinbase is within its limit, which is below the value   *)
(* at which its sum saturates, and no other transaction creates value.     *)
LEMMA BlockWorth ==
    ASSUME NEW b \in Block, NEW h \in Nat \ {0}, verify_block_structure(b, h),
           \A k \in DOMAIN InputsOf(b) : ~SpentEarlier(b, k),
           Spends(b) \subseteq Outputs, ValidTransactions(b)
    PROVE  Worth(Created(b)) <= calculate_block_subsidy(h) + Worth(Spends(b))
<1>1. PICK T, N, cb, s : /\ T = ToSet(Body[b]) /\ N = Ordinary(b) /\ cb = Head(Body[b])
                         /\ s = calculate_block_subsidy(h)
  OBVIOUS
<1>2. Body[b] \in Seq(Tx) /\ IsFiniteSet(T) /\ T \subseteq Tx
  BY <1>1, BlockAssumption, ToSetFinite
<1>3. Body[b] # <<>> /\ is_coinbase(cb) /\ \A i \in 2 .. Len(Body[b]) : ~is_coinbase(Body[b][i])
  BY <1>1 DEF verify_block_structure, WellFormed, OneCoinbase
<1>4. T = N \cup {cb} /\ cb \notin N /\ cb \in Tx /\ N \subseteq Tx
  <2>1. cb = Body[b][1] /\ DOMAIN Body[b] = 1 .. Len(Body[b]) /\ 1 \in DOMAIN Body[b]
    BY <1>1, <1>2, <1>3
  <2>2. \A i \in DOMAIN Body[b] : i = 1 \/ i \in 2 .. Len(Body[b])
    BY <1>2, <2>1
  <2>3. \A t \in T : t = cb \/ ~is_coinbase(t)
    BY <1>1, <1>3, <2>1, <2>2 DEF ToSet
  <2>4. cb \in T
    BY <1>1, <2>1 DEF ToSet
  <2> QED BY <1>1, <1>2, <1>3, <2>3, <2>4 DEF Ordinary
<1>5. IsFiniteSet(N)
  BY <1>2, <1>4, FS_Subset
<1>6. \A t \in Tx : Paid[t] = OutputValue(t) /\ Paid[t] \in Nat
  BY OutputsWorth DEF Paid
<1>7. Paid[cb] <= s /\ s \in Nat
  <2>1. s \in Nat /\ s < MaxQuantum /\ MaxQuantum \in Nat
    BY <1>1, SubsidyFacts, NumberAssumption
  <2>2. PICK v : v = OutputValue(cb)
    OBVIOUS
  <2>3. (IF v > MaxQuantum THEN MaxQuantum ELSE v) <= s
    BY <1>1, <2>2 DEF verify_block_structure, WithinSubsidy, AllowedCoinbase
  <2>4. v \in Nat /\ Paid[cb] = v
    BY <1>4, <1>6, <2>2
  <2> QED BY <2>1, <2>3, <2>4
<1>8. /\ SumFunctionOnSet(Paid, N) \in Nat
      /\ SumFunctionOnSet(Paid, T) = Paid[cb] + SumFunctionOnSet(Paid, N)
  <2>1. \A t \in N \cup {cb} : Paid[t] \in Nat
    BY <1>4, <1>6
  <2>2. /\ SumFunctionOnSet(Paid, N) \in Nat
        /\ SumFunctionOnSet(Paid, N \cup {cb}) = Paid[cb] + SumFunctionOnSet(Paid, N)
    BY <1>4, <1>5, <2>1, SumAdd
  <2> QED BY <1>4, <2>2
<1>9. \A t \in N : t \in Tx /\ Taken[t] = InputValue(t) /\ Taken[t] \in Nat
  BY <1>1, SpendsWorth
<1>10. SumFunctionOnSet(Paid, N) <= SumFunctionOnSet(Taken, N)
  <2>1. \A t \in N : OutputValue(t) <= InputValue(t)
    BY <1>1 DEF ValidTransactions, ConservesValue, Ordinary
  <2>2. \A t \in N : Paid[t] \in Nat /\ Taken[t] \in Nat /\ Paid[t] <= Taken[t]
    BY <1>6, <1>9, <2>1
  <2> QED BY <1>5, <2>2, SumLeq
<1>11. SumFunctionOnSet(Taken, N) \in Nat
  BY <1>5, <1>9, SumType
<1>12. Worth(Created(b)) = SumFunctionOnSet(Paid, T) /\ Worth(Spends(b)) = SumFunctionOnSet(Taken, N)
  BY <1>1, CreatedWorth, SpendsWorth
<1>13. Paid[cb] \in Nat
  BY <1>4, <1>6
<1> QED BY <1>1, <1>7, <1>8, <1>10, <1>11, <1>12, <1>13

(***************************************************************************)
(* Type correctness: every reachable state satisfies AuthTypeOK.           *)
(***************************************************************************)
LEMMA TypeInit == AuthInit => AuthTypeOK
  BY GenesisAssumption DEF AuthInit, AuthTypeOK

LEMMA TypeNext == AuthTypeOK /\ [AuthNext]_authVars => AuthTypeOK'
<1> SUFFICES ASSUME AuthTypeOK, [AuthNext]_authVars PROVE AuthTypeOK'
  OBVIOUS
<1> USE DEF AuthTypeOK
<1>c. ASSUME NEW b \in Block, NEW S, commit_block(b, S)
      PROVE  /\ canonical_blocks' \subseteq Block
             /\ DOMAIN height_to_hash' \subseteq Nat
             /\ height_to_hash' \in [DOMAIN height_to_hash' -> Block]
             /\ canonical_utxos' \subseteq Tx \X Nat
             /\ tip_height' \in Nat
             /\ tip_hash' \in Block \cup {ZeroHash}
  <2>1. Header[b].height \in Nat
    BY BlockAssumption
  <2>2. Created(b) \subseteq Tx \X Nat
    BY CreatedType
  <2>3. canonical_utxos' \subseteq Tx \X Nat
    BY <1>c, <2>2 DEF commit_block, write_tables, Indexed
  <2> QED BY <1>c, <2>1, <2>3 DEF commit_block, write_tables, Indexed
<1>r. ASSUME NEW w \in Workers, Return(w)
      PROVE  /\ pc' \in [Workers -> {"idle", "tip", "lookup", "commit", "accepted"}]
             /\ job' \in [Workers -> Block]
             /\ cursor' \in [Workers -> Nat]
  BY <1>r, GenesisAssumption DEF Return
<1>1. CASE BeginRecovery
  BY <1>1 DEF BeginRecovery, tables, locals
<1>2. CASE CommitGenesis
  BY <1>2, <1>c, GenesisAssumption DEF CommitGenesis, locals
<1>3. CASE FinishRecovery
  BY <1>3 DEF FinishRecovery, tables, locals
<1>4. CASE Restart
  BY <1>4, GenesisAssumption DEF Restart, tables
<1>5. ASSUME NEW w \in Workers, NEW b \in Block, EnforceOperational(w, b)
      PROVE  AuthTypeOK'
  BY <1>5 DEF EnforceOperational, tables
<1>6. ASSUME NEW w \in Workers, Pipeline(w) PROVE AuthTypeOK'
  <2>1. CASE ReadTip(w)
    BY <2>1 DEF ReadTip, tables
  <2>2. CASE RejectAtTip(w)
    BY <2>2, <1>r DEF RejectAtTip, tables
  <2>3. CASE TipUnreadable(w)
    BY <2>3, <1>r DEF TipUnreadable, tables, fail_stop
  <2>4. CASE LookupUtxo(w)
    BY <2>4 DEF LookupUtxo, tables
  <2>5. CASE RejectInput(w)
    BY <2>5, <1>r DEF RejectInput, tables
  <2>6. CASE VerifyInvariants(w)
    BY <2>6 DEF VerifyInvariants, tables
  <2>7. CASE RejectInvariants(w)
    BY <2>7, <1>r DEF RejectInvariants, tables
  <2>8. CASE CommitBlock(w)
    BY <2>8, <1>c DEF CommitBlock
  <2>9. CASE CommitFails(w)
    BY <2>9, <1>r DEF CommitFails, tables, fail_stop
  <2> QED BY <1>6, <2>1, <2>2, <2>3, <2>4, <2>5, <2>6, <2>7, <2>8, <2>9 DEF Pipeline
<1>7. ASSUME NEW w \in Workers, ReturnAccepted(w) PROVE AuthTypeOK'
  BY <1>7, <1>r DEF ReturnAccepted, tables
<1>8. CASE UNCHANGED authVars
  BY <1>8 DEF authVars, tables, locals
<1> QED BY <1>1, <1>2, <1>3, <1>4, <1>5, <1>6, <1>7, <1>8 DEF AuthNext, Boot

(* Every variable of the pipeline keeps its type, whatever the callers     *)
(* interleave and wherever storage fails or the process restarts.          *)
THEOREM TypeCorrect == AuthSpec => []AuthTypeOK
  BY TypeInit, TypeNext, PTL DEF AuthSpec
-----------------------------------------------------------------------------
(***************************************************************************)
(* The tables under any interleaving. StoredTree and TablesAgree are not   *)
(* inductive: a commit is right because of what its worker saw when it     *)
(* read the tip, possibly many commits of other workers ago. That read has *)
(* to be remembered: the parent of the block in flight is stored, one      *)
(* height below, which no later commit can undo because blocks are never   *)
(* removed.                                                                *)
(***************************************************************************)
ParentStored(w) ==
    /\ Header[job[w]].prev \in canonical_blocks
    /\ Header[job[w]].height = Header[Header[job[w]].prev].height + 1

TreeInv ==
    /\ StoredTree
    /\ TablesAgree
    /\ \A b \in canonical_blocks : Header[b].height \in DOMAIN height_to_hash
    /\ state = "Running" => HasTip
    /\ \A w \in Workers : pc[w] # "idle" => HasTip
    /\ \A w \in Workers : InFlight(w) => ParentStored(w)

(* The stored tip is a stored block of the stored height.                  *)
LEMMA TipStored ==
    ASSUME AuthTypeOK, TablesAgree, HasTip
    PROVE  tip_hash \in canonical_blocks /\ Header[tip_hash].height = tip_height
  BY DEF AuthTypeOK, TablesAgree, HasTip

LEMMA TreeInit == AuthInit => TreeInv
  BY DEF AuthInit, TreeInv, StoredTree, TablesAgree, HasTip, InFlight

(* Steps that leave the tables alone preserve what is said of them.        *)
LEMMA TablesUnchanged ==
    ASSUME UNCHANGED tables
    PROVE  /\ StoredTree' <=> StoredTree
           /\ TablesAgree' <=> TablesAgree
           /\ HasTip' <=> HasTip
           /\ canonical_blocks' = canonical_blocks
           /\ height_to_hash' = height_to_hash
           /\ tip_hash' = tip_hash
           /\ tip_height' = tip_height
           /\ canonical_utxos' = canonical_utxos
  BY DEF tables, StoredTree, TablesAgree, HasTip

(* Only a commit writes.                                                   *)
LEMMA TableSteps ==
    ASSUME [AuthNext]_authVars
    PROVE  CommitGenesis \/ (\E w \in Workers : CommitBlock(w)) \/ UNCHANGED tables
  BY DEF AuthNext, Boot, BeginRecovery, FinishRecovery, Restart, EnforceOperational,
         Pipeline, ReadTip, RejectAtTip, TipUnreadable, LookupUtxo, RejectInput,
         VerifyInvariants, RejectInvariants, CommitFails, ReturnAccepted, authVars

(* A call that returns is no longer in flight, and the others are where    *)
(* they were.                                                              *)
LEMMA ReturnEnds ==
    ASSUME AuthTypeOK, NEW w \in Workers, Return(w)
    PROVE  /\ pc'[w] = "idle"
           /\ ~InFlight(w)'
           /\ \A v \in Workers \ {w} : pc'[v] = pc[v] /\ job'[v] = job[v] /\ cursor'[v] = cursor[v]
  BY DEF AuthTypeOK, Return, InFlight

(* Committing a block whose parent is stored one height below.             *)
LEMMA CommitKeepsTree ==
    ASSUME AuthTypeOK, TreeInv, NEW w \in Workers, InFlight(w),
           commit_block(job[w], Spends(job[w]))
    PROVE  /\ StoredTree'
           /\ TablesAgree'
           /\ HasTip'
           /\ canonical_blocks \subseteq canonical_blocks'
           /\ \A b \in canonical_blocks' : Header[b].height \in DOMAIN height_to_hash'
<1> DEFINE b == job[w]
<1>1. /\ b \in Block /\ Header[b].height \in Nat
      /\ Header[b].prev \in canonical_blocks
      /\ Header[b].height = Header[Header[b].prev].height + 1
  BY BlockAssumption DEF AuthTypeOK, TreeInv, ParentStored
<1>2. /\ canonical_blocks' = canonical_blocks \cup {b}
      /\ tip_height' = Header[b].height
      /\ tip_hash' = b
      /\ canonical_utxos' = (canonical_utxos \ Spends(b)) \cup Created(b)
  BY DEF commit_block, write_tables, Indexed
<1>3. /\ DOMAIN height_to_hash' = DOMAIN height_to_hash \cup {Header[b].height}
      /\ height_to_hash'[Header[b].height] = b
      /\ \A h \in DOMAIN height_to_hash :
             h # Header[b].height => height_to_hash'[h] = height_to_hash[h]
  BY DEF commit_block, write_tables, Indexed
<1>4. HasTip'
  BY <1>1, <1>2, HashAssumption DEF HasTip
<1>5. StoredTree'
  BY <1>1, <1>2 DEF TreeInv, StoredTree
<1>6. \A h \in DOMAIN height_to_hash' :
          /\ height_to_hash'[h] \in canonical_blocks'
          /\ Header[height_to_hash'[h]].height = h
          /\ 0 .. h \subseteq DOMAIN height_to_hash'
  <2> SUFFICES ASSUME NEW h \in DOMAIN height_to_hash'
               PROVE  /\ height_to_hash'[h] \in canonical_blocks'
                      /\ Header[height_to_hash'[h]].height = h
                      /\ 0 .. h \subseteq DOMAIN height_to_hash'
    OBVIOUS
  <2>1. CASE h = Header[b].height
    <3> DEFINE q == Header[b].prev
    <3>1. q \in Block /\ Header[q].height \in Nat
      BY <1>1, BlockAssumption DEF AuthTypeOK
    <3>2. Header[q].height \in DOMAIN height_to_hash
      BY <1>1 DEF TreeInv
    <3>3. 0 .. Header[q].height \subseteq DOMAIN height_to_hash
      BY <3>2 DEF TreeInv, TablesAgree
    <3>4. 0 .. h \subseteq (0 .. Header[q].height) \cup {h}
      <4>1. \A n \in Nat : 0 .. n + 1 \subseteq (0 .. n) \cup {n + 1}
        OBVIOUS
      <4>2. h = Header[q].height + 1
        BY <2>1, <1>1
      <4> QED BY <3>1, <4>1, <4>2
    <3> QED BY <2>1, <3>3, <3>4, <1>2, <1>3
  <2>2. CASE h # Header[b].height
    <3>1. h \in DOMAIN height_to_hash /\ height_to_hash'[h] = height_to_hash[h]
      BY <2>2, <1>3
    <3> QED BY <3>1, <1>2, <1>3 DEF TreeInv, TablesAgree
  <2> QED BY <2>1, <2>2
<1>7. canonical_utxos' \subseteq UNION {Created(c) : c \in canonical_blocks'}
  BY <1>2 DEF TreeInv, TablesAgree
<1>8. TablesAgree'
  BY <1>2, <1>3, <1>4, <1>6, <1>7 DEF TablesAgree
<1> QED BY <1>2, <1>3, <1>4, <1>5, <1>8 DEF TreeInv

LEMMA TreeNext == AuthTypeOK /\ TreeInv /\ [AuthNext]_authVars => TreeInv'
<1> SUFFICES ASSUME AuthTypeOK, TreeInv, [AuthNext]_authVars PROVE TreeInv'
  OBVIOUS
<1>r. ASSUME NEW w \in Workers, Return(w), UNCHANGED tables,
             state' = state \/ state' = "Failed"
      PROVE  TreeInv'
  BY <1>r, TablesUnchanged, ReturnEnds DEF TreeInv, InFlight, ParentStored
<1>1. CASE BeginRecovery
  BY <1>1, TablesUnchanged DEF BeginRecovery, locals, TreeInv, InFlight, ParentStored
<1>2. CASE CommitGenesis
  <2>1. canonical_blocks = {} /\ DOMAIN height_to_hash = {} /\ canonical_utxos = {}
    BY <1>2 DEF CommitGenesis, TreeInv, TablesAgree
  <2>2. \A w \in Workers : pc[w] = "idle"
    BY <1>2 DEF CommitGenesis, TreeInv
  <2>3. /\ canonical_blocks' = {Genesis}
        /\ DOMAIN height_to_hash' = {0}
        /\ height_to_hash'[0] = Genesis
        /\ tip_height' = 0
        /\ tip_hash' = Genesis
        /\ canonical_utxos' = Created(Genesis)
    BY <1>2, <2>1, GenesisAssumption DEF CommitGenesis, commit_block, write_tables, Indexed
  <2>4. HasTip'
    BY <2>3, HashAssumption, GenesisAssumption DEF HasTip
  <2>5. StoredTree'
    BY <2>3 DEF StoredTree
  <2>6. 0 .. 0 = {0}
    OBVIOUS
  <2>7. TablesAgree'
    BY <2>3, <2>4, <2>6, GenesisAssumption DEF TablesAgree
  <2> QED BY <2>2, <2>3, <2>4, <2>5, <2>7, <1>2, GenesisAssumption
         DEF TreeInv, CommitGenesis, locals, InFlight
<1>3. CASE FinishRecovery
  BY <1>3, TablesUnchanged DEF FinishRecovery, locals, TreeInv, InFlight, ParentStored
<1>4. CASE Restart
  BY <1>4, TablesUnchanged DEF Restart, TreeInv, InFlight
<1>5. ASSUME NEW w \in Workers, NEW b \in Block, EnforceOperational(w, b)
      PROVE  TreeInv'
  BY <1>5, TablesUnchanged DEF EnforceOperational, TreeInv, InFlight, ParentStored, AuthTypeOK
<1>6. ASSUME NEW w \in Workers, Pipeline(w) PROVE TreeInv'
  <2>1. CASE ReadTip(w)
    <3>1. HasTip
      BY <2>1 DEF ReadTip, TreeInv
    <3>2. Header[job[w]].prev = tip_hash /\ Header[job[w]].height = tip_height + 1
      BY <2>1, <3>1 DEF ReadTip, ExtendsTip, verify_block_structure
    <3>3. ParentStored(w)
      BY <3>1, <3>2, TipStored DEF TreeInv, ParentStored
    <3> QED BY <2>1, <3>3, TablesUnchanged
           DEF ReadTip, TreeInv, InFlight, ParentStored, AuthTypeOK
  <2>2. CASE RejectAtTip(w)
    BY <2>2, <1>r DEF RejectAtTip
  <2>3. CASE TipUnreadable(w)
    BY <2>3, <1>r DEF TipUnreadable, fail_stop
  <2>4. CASE LookupUtxo(w)
    BY <2>4, TablesUnchanged DEF LookupUtxo, TreeInv, InFlight, ParentStored
  <2>5. CASE RejectInput(w)
    BY <2>5, <1>r DEF RejectInput
  <2>6. CASE VerifyInvariants(w)
    BY <2>6, TablesUnchanged
    DEF VerifyInvariants, InputsFound, TreeInv, InFlight, ParentStored, AuthTypeOK
  <2>7. CASE RejectInvariants(w)
    BY <2>7, <1>r DEF RejectInvariants
  <2>8. CASE CommitBlock(w)
    <3>1. InFlight(w)
      BY <2>8 DEF CommitBlock, InFlight
    <3> QED BY <2>8, <3>1, CommitKeepsTree
           DEF CommitBlock, TreeInv, InFlight, ParentStored, AuthTypeOK
  <2>9. CASE CommitFails(w)
    BY <2>9, <1>r DEF CommitFails, fail_stop
  <2> QED BY <1>6, <2>1, <2>2, <2>3, <2>4, <2>5, <2>6, <2>7, <2>8, <2>9 DEF Pipeline
<1>7. ASSUME NEW w \in Workers, ReturnAccepted(w) PROVE TreeInv'
  BY <1>7, <1>r DEF ReturnAccepted
<1>8. CASE UNCHANGED authVars
  BY <1>8, TablesUnchanged DEF authVars, locals, TreeInv, InFlight, ParentStored
<1> QED BY <1>1, <1>2, <1>3, <1>4, <1>5, <1>6, <1>7, <1>8 DEF AuthNext, Boot

LEMMA TreeInvariant == AuthSpec => [](AuthTypeOK /\ TreeInv)
<1>1. AuthInit => AuthTypeOK /\ TreeInv
  BY TypeInit, TreeInit
<1>2. (AuthTypeOK /\ TreeInv) /\ [AuthNext]_authVars => (AuthTypeOK /\ TreeInv)'
  BY TypeNext, TreeNext
<1> QED BY <1>1, <1>2, PTL DEF AuthSpec

(* For any number of concurrent callers, storage errors and restarts: the  *)
(* parent of every block process_and_commit_block stored is stored.        *)
THEOREM TreeStored == AuthSpec => []StoredTree
<1>1. TreeInv => StoredTree
  BY DEF TreeInv
<1> QED BY <1>1, TreeInvariant, PTL

(* For the same executions: blocks, height index, UTXO set and tip never   *)
(* contradict one another.                                                 *)
THEOREM TablesConsistent == AuthSpec => []TablesAgree
<1>1. TreeInv => TablesAgree
  BY DEF TreeInv
<1> QED BY <1>1, TreeInvariant, PTL
-----------------------------------------------------------------------------
(***************************************************************************)
(* The executions in which no two calls overlap. What a worker read is now *)
(* still true when it commits: the tip is the parent of its block, the     *)
(* outputs it has found so far are unspent.                                *)
(***************************************************************************)
ReadsHold(w) ==
    LET b == job[w]
        inputs == InputsOf(b)
    IN  /\ HasTip
        /\ Header[b].prev = tip_hash
        /\ tip_height + 1 <= MaxHeight
        /\ verify_block_structure(b, tip_height + 1)
        /\ \A k \in 1 .. cursor[w] - 1 : inputs[k] \in canonical_utxos /\ ~SpentEarlier(b, k)
        /\ pc[w] = "commit" => cursor[w] > Len(inputs) /\ ValidTransactions(b)

SerialInv ==
    /\ NoOverlap
    /\ ChainLinked
    /\ \A w \in Workers : pc[w] \in {"idle", "tip"} => cursor[w] = 1
    /\ \A w \in Workers : InFlight(w) => ReadsHold(w)

LEMMA SerialInit == AuthInit => SerialInv
  BY DEF AuthInit, SerialInv, NoOverlap, ChainLinked, HasTip, InFlight

(* What a call returns with, or without, the rest stays as it was.         *)
LEMMA ReadsUnchanged ==
    ASSUME NEW w \in Workers, UNCHANGED tables, pc'[w] = pc[w], job'[w] = job[w],
           cursor'[w] = cursor[w]
    PROVE  (InFlight(w)' <=> InFlight(w)) /\ (ReadsHold(w)' <=> ReadsHold(w))
  BY DEF tables, InFlight, ReadsHold, HasTip

LEMMA ChainUnchanged == UNCHANGED tables => (ChainLinked' <=> ChainLinked)
  BY DEF tables, ChainLinked, HasTip

(* A commit by a worker whose reads still hold appends its block to the    *)
(* chain the tables index.                                                 *)
LEMMA CommitAppends ==
    ASSUME AuthTypeOK, TreeInv, SerialInv, NEW w \in Workers, InFlight(w),
           commit_block(job[w], Spends(job[w]))
    PROVE  /\ ChainLinked'
           /\ HasTip /\ HasTip'
           /\ tip_height' = tip_height + 1
           /\ tip_hash' = job[w]
           /\ DOMAIN height_to_hash = 0 .. tip_height
           /\ height_to_hash'[tip_height + 1] = job[w]
           /\ \A h \in 0 .. tip_height : height_to_hash'[h] = height_to_hash[h]
<1> DEFINE b == job[w]
<1>1. HasTip /\ Header[b].prev = tip_hash /\ Header[b].height = tip_height + 1
  BY DEF SerialInv, ReadsHold, verify_block_structure
<1>2. DOMAIN height_to_hash = 0 .. tip_height /\ height_to_hash[tip_height] = tip_hash
  BY <1>1 DEF SerialInv, ChainLinked, TreeInv, TablesAgree
<1>3. tip_height \in Nat /\ b \in Block
  BY DEF AuthTypeOK
<1>4. /\ canonical_blocks' = canonical_blocks \cup {b}
      /\ tip_height' = tip_height + 1
      /\ tip_hash' = b
  BY <1>1 DEF commit_block, write_tables, Indexed
<1>5. /\ DOMAIN height_to_hash' = 0 .. tip_height + 1
      /\ height_to_hash'[tip_height + 1] = b
      /\ \A h \in 0 .. tip_height : height_to_hash'[h] = height_to_hash[h]
  BY <1>1, <1>2, <1>3 DEF commit_block, write_tables, Indexed
<1>6. HasTip'
  BY <1>3, <1>4, HashAssumption DEF HasTip
<1>7. ASSUME NEW h \in DOMAIN height_to_hash' \ {0}
      PROVE  Header[height_to_hash'[h]].prev = height_to_hash'[h - 1]
  <2>1. CASE h = tip_height + 1
    BY <2>1, <1>1, <1>2, <1>3, <1>5
  <2>2. CASE h # tip_height + 1
    <3>1. h \in 0 .. tip_height /\ h - 1 \in 0 .. tip_height /\ h \in DOMAIN height_to_hash \ {0}
      BY <2>2, <1>2, <1>3, <1>5
    <3> QED BY <3>1, <1>5 DEF SerialInv, ChainLinked
  <2> QED BY <2>1, <2>2
<1>8. ASSUME NEW c \in canonical_blocks'
      PROVE  \E h \in DOMAIN height_to_hash' : c = height_to_hash'[h]
  <2>1. CASE c = b
    BY <2>1, <1>3, <1>5
  <2>2. CASE c \in canonical_blocks
    <3>1. PICK h \in 0 .. tip_height : c = height_to_hash[h]
      BY <2>2, <1>2 DEF SerialInv, ChainLinked
    <3>2. h \in DOMAIN height_to_hash' /\ c = height_to_hash'[h]
      BY <3>1, <1>3, <1>5
    <3> QED BY <3>2
  <2> QED BY <2>1, <2>2, <1>4
<1>9. ChainLinked'
  BY <1>4, <1>5, <1>6, <1>7, <1>8 DEF ChainLinked
<1> QED BY <1>1, <1>2, <1>4, <1>5, <1>6, <1>9

(* What the pipeline has checked of a block by the time it commits it.     *)
LEMMA CommitChecked ==
    ASSUME AuthTypeOK, SerialInv, NEW w \in Workers, CommitBlock(w)
    PROVE  /\ \A k \in DOMAIN InputsOf(job[w]) : ~SpentEarlier(job[w], k)
           /\ Spends(job[w]) \subseteq canonical_utxos
           /\ ValidTransactions(job[w])
           /\ verify_block_structure(job[w], tip_height + 1)
           /\ job[w] \in Block
<1> DEFINE b == job[w]
<1>1. pc[w] = "commit" /\ b \in Block /\ cursor[w] \in Nat
  BY DEF CommitBlock, AuthTypeOK
<1>2. ReadsHold(w)
  BY <1>1 DEF SerialInv, InFlight
<1>3. \A k \in DOMAIN InputsOf(b) : k \in 1 .. cursor[w] - 1
  <2>1. InputsOf(b) \in Seq(OutPoint) /\ cursor[w] > Len(InputsOf(b))
    BY <1>1, <1>2, InputsFacts DEF ReadsHold
  <2> QED BY <2>1, <1>1
<1> QED BY <1>1, <1>2, <1>3 DEF ReadsHold, Spends, ToSet

(* The first commit on an empty database.                                  *)
LEMMA GenesisAppends ==
    ASSUME AuthTypeOK, TreeInv, CommitGenesis
    PROVE  /\ ChainLinked'
           /\ canonical_blocks = {} /\ DOMAIN height_to_hash = {} /\ canonical_utxos = {}
           /\ \A w \in Workers : pc[w] = "idle"
           /\ HasTip'
           /\ canonical_blocks' = {Genesis}
           /\ DOMAIN height_to_hash' = {0}
           /\ height_to_hash'[0] = Genesis
           /\ tip_height' = 0
           /\ canonical_utxos' = Created(Genesis)
<1>1. canonical_blocks = {} /\ DOMAIN height_to_hash = {} /\ canonical_utxos = {}
  BY DEF CommitGenesis, TreeInv, TablesAgree
<1>2. \A w \in Workers : pc[w] = "idle"
  BY DEF CommitGenesis, TreeInv
<1>3. /\ canonical_blocks' = {Genesis}
      /\ DOMAIN height_to_hash' = {0}
      /\ height_to_hash'[0] = Genesis
      /\ tip_height' = 0
      /\ tip_hash' = Genesis
      /\ canonical_utxos' = Created(Genesis)
  BY <1>1, GenesisAssumption DEF CommitGenesis, commit_block, write_tables, Indexed
<1>4. HasTip'
  BY <1>3, HashAssumption, GenesisAssumption DEF HasTip
<1>5. 0 .. 0 = {0}
  OBVIOUS
<1>6. ChainLinked'
  BY <1>3, <1>4, <1>5 DEF ChainLinked
<1> QED BY <1>1, <1>2, <1>3, <1>4, <1>6

LEMMA SerialNext ==
    AuthTypeOK /\ TreeInv /\ SerialInv /\ [AuthNext /\ NoOverlap']_authVars => SerialInv'
<1> SUFFICES ASSUME AuthTypeOK, TreeInv, SerialInv, [AuthNext /\ NoOverlap']_authVars
             PROVE  SerialInv'
  OBVIOUS
<1>n. NoOverlap'
  BY DEF NoOverlap, InFlight, SerialInv, authVars, locals
<1>r. ASSUME NEW w \in Workers, Return(w), UNCHANGED tables PROVE SerialInv'
  <2>1. ChainLinked'
    BY <1>r, ChainUnchanged DEF SerialInv
  <2>2. pc'[w] = "idle" /\ cursor'[w] = 1 /\ ~InFlight(w)'
    BY <1>r DEF Return, AuthTypeOK, InFlight
  <2>3. \A v \in Workers \ {w} :
            /\ pc'[v] = pc[v] /\ cursor'[v] = cursor[v]
            /\ (InFlight(v)' <=> InFlight(v)) /\ (ReadsHold(v)' <=> ReadsHold(v))
    BY <1>r, ReturnEnds, ReadsUnchanged
  <2> QED BY <1>n, <2>1, <2>2, <2>3 DEF SerialInv
<1>u. ASSUME UNCHANGED <<tables, locals>> PROVE SerialInv'
  <2>1. ChainLinked'
    BY <1>u, ChainUnchanged DEF SerialInv
  <2>2. \A v \in Workers :
            /\ pc'[v] = pc[v] /\ cursor'[v] = cursor[v]
            /\ (InFlight(v)' <=> InFlight(v)) /\ (ReadsHold(v)' <=> ReadsHold(v))
    BY <1>u, ReadsUnchanged DEF locals
  <2> QED BY <1>n, <2>1, <2>2 DEF SerialInv
<1>1. CASE BeginRecovery
  BY <1>1, <1>u DEF BeginRecovery
<1>2. CASE CommitGenesis
  <2>1. \A w \in Workers : pc[w] = "idle" /\ pc'[w] = "idle" /\ cursor'[w] = cursor[w]
    BY <1>2, GenesisAppends DEF CommitGenesis, locals
  <2>2. ChainLinked'
    BY <1>2, GenesisAppends
  <2> QED BY <1>n, <2>1, <2>2 DEF SerialInv, InFlight
<1>3. CASE FinishRecovery
  BY <1>3, <1>u DEF FinishRecovery
<1>4. CASE Restart
  <2>1. ChainLinked'
    BY <1>4, ChainUnchanged DEF Restart, SerialInv
  <2> QED BY <1>4, <1>n, <2>1 DEF Restart, SerialInv, InFlight
<1>5. ASSUME NEW w \in Workers, NEW b \in Block, EnforceOperational(w, b)
      PROVE  SerialInv'
  <2>1. ChainLinked'
    BY <1>5, ChainUnchanged DEF EnforceOperational, SerialInv
  <2>2. pc'[w] = "tip" /\ cursor'[w] = 1 /\ ~InFlight(w)'
    BY <1>5 DEF EnforceOperational, SerialInv, AuthTypeOK, InFlight
  <2>3. \A v \in Workers \ {w} : pc'[v] = pc[v] /\ job'[v] = job[v] /\ cursor'[v] = cursor[v]
    BY <1>5 DEF EnforceOperational, AuthTypeOK
  <2>4. \A v \in Workers \ {w} :
            (InFlight(v)' <=> InFlight(v)) /\ (ReadsHold(v)' <=> ReadsHold(v))
    BY <1>5, <2>3, ReadsUnchanged DEF EnforceOperational
  <2> QED BY <1>n, <2>1, <2>2, <2>3, <2>4 DEF SerialInv
<1>6. ASSUME NEW w \in Workers, Pipeline(w) PROVE SerialInv'
  <2>o. ASSUME UNCHANGED tables,
               \A v \in Workers \ {w} :
                   pc'[v] = pc[v] /\ job'[v] = job[v] /\ cursor'[v] = cursor[v],
               InFlight(w)', ReadsHold(w)'
        PROVE  SerialInv'
    <3>1. ChainLinked'
      BY <2>o, ChainUnchanged DEF SerialInv
    <3>2. \A v \in Workers \ {w} :
              (InFlight(v)' <=> InFlight(v)) /\ (ReadsHold(v)' <=> ReadsHold(v))
      BY <2>o, ReadsUnchanged
    <3> QED BY <1>n, <2>o, <3>1, <3>2 DEF SerialInv, InFlight
  <2>1. CASE ReadTip(w)
    <3>1. HasTip /\ cursor[w] = 1
      BY <2>1 DEF ReadTip, TreeInv, SerialInv
    <3>2. /\ Header[job[w]].prev = tip_hash
          /\ tip_height + 1 <= MaxHeight
          /\ verify_block_structure(job[w], tip_height + 1)
      BY <2>1, <3>1 DEF ReadTip, ExtendsTip
    <3>3. /\ UNCHANGED tables
          /\ pc'[w] = "lookup" /\ job' = job /\ cursor' = cursor
          /\ \A v \in Workers \ {w} : pc'[v] = pc[v]
      BY <2>1 DEF ReadTip, AuthTypeOK
    <3>4. ReadsHold(w)'
      BY <3>1, <3>2, <3>3 DEF ReadsHold, HasTip, tables
    <3> QED BY <3>3, <3>4, <2>o DEF InFlight
  <2>2. CASE RejectAtTip(w)
    BY <2>2, <1>r DEF RejectAtTip
  <2>3. CASE TipUnreadable(w)
    BY <2>3, <1>r DEF TipUnreadable
  <2>4. CASE LookupUtxo(w)
    <3>1. InFlight(w) /\ ReadsHold(w) /\ cursor[w] \in Nat
      BY <2>4 DEF LookupUtxo, InFlight, SerialInv, AuthTypeOK
    <3>2. /\ UNCHANGED tables
          /\ pc' = pc /\ job' = job /\ pc[w] = "lookup"
          /\ cursor'[w] = cursor[w] + 1
          /\ \A v \in Workers \ {w} : cursor'[v] = cursor[v]
      BY <2>4 DEF LookupUtxo, AuthTypeOK
    <3>3. /\ InputsOf(job[w])[cursor[w]] \in canonical_utxos
          /\ ~SpentEarlier(job[w], cursor[w])
      BY <2>4 DEF LookupUtxo
    <3>4. \A k \in 1 .. cursor'[w] - 1 : k \in 1 .. cursor[w] - 1 \/ k = cursor[w]
      BY <3>1, <3>2
    <3>5. ReadsHold(w)'
      BY <3>1, <3>2, <3>3, <3>4 DEF ReadsHold, HasTip, tables
    <3> QED BY <3>1, <3>2, <3>5, <2>o DEF InFlight
  <2>5. CASE RejectInput(w)
    BY <2>5, <1>r DEF RejectInput
  <2>6. CASE VerifyInvariants(w)
    <3>1. InFlight(w) /\ ReadsHold(w) /\ cursor[w] > Len(InputsOf(job[w]))
          /\ ValidTransactions(job[w])
      BY <2>6 DEF VerifyInvariants, InputsFound, InFlight, SerialInv
    <3>2. /\ UNCHANGED tables
          /\ pc'[w] = "commit" /\ job' = job /\ cursor' = cursor
          /\ \A v \in Workers \ {w} : pc'[v] = pc[v]
      BY <2>6 DEF VerifyInvariants, AuthTypeOK
    <3>3. ReadsHold(w)'
      BY <3>1, <3>2 DEF ReadsHold, HasTip, tables
    <3> QED BY <3>2, <3>3, <2>o DEF InFlight
  <2>7. CASE RejectInvariants(w)
    BY <2>7, <1>r DEF RejectInvariants
  <2>8. CASE CommitBlock(w)
    <3>1. InFlight(w) /\ commit_block(job[w], Spends(job[w]))
      BY <2>8 DEF CommitBlock, InFlight
    <3>2. ChainLinked'
      BY <3>1, CommitAppends
    <3>3. \A v \in Workers \ {w} : ~InFlight(v)
      BY <3>1 DEF SerialInv, NoOverlap
    <3>4. /\ pc'[w] = "accepted" /\ cursor' = cursor
          /\ \A v \in Workers \ {w} : pc'[v] = pc[v]
      BY <2>8 DEF CommitBlock, AuthTypeOK
    <3>5. \A v \in Workers : ~InFlight(v)'
      BY <3>3, <3>4 DEF InFlight
    <3> QED BY <1>n, <3>2, <3>4, <3>5 DEF SerialInv
  <2>9. CASE CommitFails(w)
    BY <2>9, <1>r DEF CommitFails
  <2> QED BY <1>6, <2>1, <2>2, <2>3, <2>4, <2>5, <2>6, <2>7, <2>8, <2>9 DEF Pipeline
<1>7. ASSUME NEW w \in Workers, ReturnAccepted(w) PROVE SerialInv'
  BY <1>7, <1>r DEF ReturnAccepted
<1>8. CASE UNCHANGED authVars
  BY <1>8, <1>u DEF authVars
<1> QED BY <1>1, <1>2, <1>3, <1>4, <1>5, <1>6, <1>7, <1>8 DEF AuthNext, Boot

LEMMA SerialInvariant == SerialSpec => [](AuthTypeOK /\ TreeInv /\ SerialInv)
<1> DEFINE Inv == AuthTypeOK /\ TreeInv /\ SerialInv
<1>1. AuthInit => Inv
  BY TypeInit, TreeInit, SerialInit
<1>2. Inv /\ [AuthNext /\ NoOverlap']_authVars => Inv'
  BY TypeNext, TreeNext, SerialNext
<1> QED BY <1>1, <1>2, PTL DEF SerialSpec

(* When no two calls overlap, the height index is one chain from genesis   *)
(* to the tip and no other block was ever committed, across storage errors *)
(* and restarts.                                                           *)
THEOREM ChainIsLinked == SerialSpec => []ChainLinked
<1>1. SerialInv => ChainLinked
  BY DEF SerialInv
<1> QED BY <1>1, SerialInvariant, PTL
-----------------------------------------------------------------------------
(***************************************************************************)
(* Refinement: each step of the pipeline is a step of the ledger, or       *)
(* leaves it as it was.                                                    *)
(***************************************************************************)
LEMMA InitRefines == AuthInit => Abstract!LedgerInit
<1> SUFFICES ASSUME AuthInit PROVE CanonicalChain = <<>> /\ canonical_utxos = {}
  BY DEF Abstract!LedgerInit
<1>1. 1 .. 0 = {}
  OBVIOUS
<1> QED BY <1>1 DEF AuthInit, CanonicalChain, HasTip

LEMMA StutterRefines == UNCHANGED tables => UNCHANGED Abstract!ledgerVars
  BY DEF tables, Abstract!ledgerVars, CanonicalChain, HasTip

(* The chain as a sequence, once there is a tip.                           *)
LEMMA ChainAsSequence ==
    ASSUME AuthTypeOK, TreeInv, ChainLinked, HasTip
    PROVE  /\ CanonicalChain \in Seq(Block)
           /\ Len(CanonicalChain) = tip_height + 1
           /\ CanonicalChain # <<>>
           /\ CanonicalChain[tip_height + 1] = tip_hash
           /\ \A i \in 1 .. tip_height + 1 : CanonicalChain[i] = height_to_hash[i - 1]
<1>1. tip_height \in Nat /\ DOMAIN height_to_hash = 0 .. tip_height
  BY DEF AuthTypeOK, ChainLinked
<1>2. CanonicalChain = [i \in 1 .. tip_height + 1 |-> height_to_hash[i - 1]]
  BY DEF CanonicalChain
<1>3. \A i \in 1 .. tip_height + 1 : height_to_hash[i - 1] \in Block
  BY <1>1 DEF AuthTypeOK
<1>4. CanonicalChain \in Seq(Block) /\ Len(CanonicalChain) = tip_height + 1
  BY <1>1, <1>2, <1>3
<1>5. height_to_hash[tip_height] = tip_hash
  BY DEF TreeInv, TablesAgree
<1>6. CanonicalChain[tip_height + 1] = tip_hash
  BY <1>1, <1>2, <1>5
<1> QED BY <1>1, <1>2, <1>4, <1>6

LEMMA CommitRefines ==
    ASSUME AuthTypeOK, TreeInv, SerialInv, AuthTypeOK', TreeInv', NEW w \in Workers,
           CommitBlock(w)
    PROVE  Abstract!Extend(job[w])
<1> DEFINE b == job[w]
<1>1. InFlight(w) /\ pc[w] = "commit" /\ commit_block(b, Spends(b)) /\ b \in Block
  BY DEF CommitBlock, InFlight, AuthTypeOK
<1>2. ReadsHold(w) /\ HasTip /\ ChainLinked /\ cursor[w] \in Nat
  BY <1>1 DEF SerialInv, ReadsHold, AuthTypeOK
<1>3. /\ ChainLinked'
      /\ HasTip'
      /\ tip_height' = tip_height + 1
      /\ height_to_hash'[tip_height + 1] = b
      /\ \A h \in 0 .. tip_height : height_to_hash'[h] = height_to_hash[h]
  BY <1>1, CommitAppends
<1>4. tip_height \in Nat
  BY DEF AuthTypeOK
<1>5. /\ CanonicalChain \in Seq(Block)
      /\ Len(CanonicalChain) = tip_height + 1
      /\ CanonicalChain # <<>>
      /\ CanonicalChain[tip_height + 1] = tip_hash
      /\ CanonicalChain = [i \in 1 .. tip_height + 1 |-> height_to_hash[i - 1]]
  BY <1>2, ChainAsSequence DEF CanonicalChain
<1>6. CanonicalChain' = [i \in 1 .. tip_height + 2 |-> height_to_hash'[i - 1]]
  BY <1>3, <1>4 DEF CanonicalChain
<1>7. CanonicalChain' = Append(CanonicalChain, b)
  <2>1. Append(CanonicalChain, b) =
            [i \in 1 .. tip_height + 2 |->
                IF i = tip_height + 2 THEN b ELSE CanonicalChain[i]]
    BY <1>1, <1>4, <1>5
  <2>2. ASSUME NEW i \in 1 .. tip_height + 2
        PROVE  height_to_hash'[i - 1] =
                   IF i = tip_height + 2 THEN b ELSE CanonicalChain[i]
    <3>1. CASE i = tip_height + 2
      BY <3>1, <1>3, <1>4
    <3>2. CASE i # tip_height + 2
      <4>1. i \in 1 .. tip_height + 1 /\ i - 1 \in 0 .. tip_height
        BY <3>2, <1>4
      <4> QED BY <4>1, <3>2, <1>3, <1>5
    <3> QED BY <3>1, <3>2
  <2> QED BY <2>1, <2>2, <1>6
<1>8. /\ \A k \in DOMAIN InputsOf(b) : ~SpentEarlier(b, k)
      /\ Spends(b) \subseteq canonical_utxos
      /\ ValidTransactions(b)
  BY CommitChecked
<1>9. Abstract!Extends(b)
  <2>1. tip_height + 1 <= MaxHeight /\ Header[b].prev = tip_hash
        /\ verify_block_structure(b, tip_height + 1)
    BY <1>2 DEF ReadsHold
  <2>2. Acceptable(b, Len(CanonicalChain))
    BY <2>1, <1>5, <1>8 DEF Acceptable
  <2> QED BY <2>1, <2>2, <1>5, <1>8 DEF Abstract!Extends, Parent
<1>10. canonical_utxos' = (canonical_utxos \ Spends(b)) \cup Created(b)
  BY <1>1 DEF commit_block, write_tables, Indexed
<1> QED BY <1>7, <1>9, <1>10 DEF Abstract!Extend

LEMMA GenesisRefines ==
    ASSUME AuthTypeOK, TreeInv, CommitGenesis
    PROVE  Abstract!Extend(Genesis)
<1>1. CanonicalChain = <<>>
  <2>1. 1 .. 0 = {}
    OBVIOUS
  <2> QED BY <2>1 DEF CommitGenesis, CanonicalChain
<1>2. CanonicalChain' = [i \in 1 .. 1 |-> height_to_hash'[i - 1]]
  BY GenesisAppends DEF CanonicalChain
<1>3. CanonicalChain' = <<Genesis>>
  BY <1>2, GenesisAppends
<1>4. canonical_utxos = {} /\ canonical_utxos' = Created(Genesis)
  BY GenesisAppends
<1>5. Append(<<>>, Genesis) = <<Genesis>>
  OBVIOUS
<1>6. {} \ Spends(Genesis) = {}
  OBVIOUS
<1> QED BY <1>1, <1>3, <1>4, <1>5, <1>6 DEF Abstract!Extend, Abstract!Extends

LEMMA StepRefines ==
    ASSUME AuthTypeOK, TreeInv, SerialInv, AuthTypeOK', TreeInv', [AuthNext]_authVars
    PROVE  [Abstract!LedgerNext]_(Abstract!ledgerVars)
<1>1. CASE CommitGenesis
  BY <1>1, GenesisRefines, GenesisAssumption DEF Abstract!LedgerNext
<1>2. ASSUME NEW w \in Workers, CommitBlock(w) PROVE Abstract!LedgerNext
  BY <1>2, CommitRefines DEF Abstract!LedgerNext, AuthTypeOK
<1>3. CASE UNCHANGED tables
  BY <1>3, StutterRefines
<1>4. CommitGenesis \/ (\E w \in Workers : CommitBlock(w)) \/ UNCHANGED tables
  BY TableSteps
<1> QED BY <1>1, <1>2, <1>3, <1>4

(* When no two calls overlap, process_and_commit_block is the one-step     *)
(* "validate and append" of module Ledger: every commit extends the chain  *)
(* and the UTXO set it replaces by a block valid against exactly them.     *)
THEOREM PipelineImplementsLedger == SerialSpec => ImplementsLedger
<1> DEFINE Inv == AuthTypeOK /\ TreeInv /\ SerialInv
<1>1. Inv /\ Inv' /\ [AuthNext /\ NoOverlap']_authVars
          => [Abstract!LedgerNext]_(Abstract!ledgerVars)
  BY StepRefines
<1> QED BY <1>1, InitRefines, SerialInvariant, PTL
       DEF SerialSpec, ImplementsLedger, Abstract!LedgerSpec

(* When no two calls overlap, a committed block is never replaced in the   *)
(* height index.                                                           *)
THEOREM HistoryIsFinal == SerialSpec => AppendOnly
<1> DEFINE Inv == AuthTypeOK /\ TreeInv /\ SerialInv
<1>1. Inv /\ [AuthNext /\ NoOverlap']_authVars => [KeepsHistory]_authVars
  <2> SUFFICES ASSUME Inv, AuthNext PROVE KeepsHistory
    OBVIOUS
  <2>1. CASE CommitGenesis
    BY <2>1, GenesisAppends DEF KeepsHistory
  <2>2. ASSUME NEW w \in Workers, CommitBlock(w) PROVE KeepsHistory
    <3>1. InFlight(w) /\ commit_block(job[w], Spends(job[w]))
      BY <2>2 DEF CommitBlock, InFlight
    <3>2. DOMAIN height_to_hash' = DOMAIN height_to_hash \cup {Header[job[w]].height}
      BY <3>1 DEF commit_block, write_tables, Indexed
    <3> QED BY <3>1, <3>2, CommitAppends DEF KeepsHistory
  <2>3. CASE UNCHANGED tables
    BY <2>3 DEF tables, KeepsHistory
  <2>4. CommitGenesis \/ (\E w \in Workers : CommitBlock(w)) \/ UNCHANGED tables
    BY TableSteps
  <2> QED BY <2>1, <2>2, <2>3, <2>4
<1> QED BY <1>1, SerialInvariant, PTL DEF SerialSpec, AppendOnly
-----------------------------------------------------------------------------
(***************************************************************************)
(* The coins, when no two calls overlap. The supply needs nothing more     *)
(* than the balance of each block (BlockWorth). That no output is spent    *)
(* twice in the life of the chain needs every outpoint to be created once, *)
(* and the induction needs the spent outpoints to be among the created.    *)
(***************************************************************************)
Supply(height) ==
    Premine + SumFunction([h \in 1 .. height |-> calculate_block_subsidy(h)])

LEMMA SupplyGrows ==
    ASSUME NEW n \in Nat
    PROVE  /\ Supply(n) \in Nat
           /\ Supply(n + 1) = Supply(n) + calculate_block_subsidy(n + 1)
<1>1. PICK S, f, g, x : /\ S = 1 .. n /\ x = n + 1
                        /\ f = [h \in 1 .. n |-> calculate_block_subsidy(h)]
                        /\ g = [h \in 1 .. n + 1 |-> calculate_block_subsidy(h)]
  OBVIOUS
<1>2. IsFiniteSet(S) /\ x \notin S /\ 1 .. n + 1 = S \cup {x}
  <2>1. IsFiniteSet(1 .. n)
    BY FS_Interval
  <2>2. 1 .. n + 1 = (1 .. n) \cup {n + 1}
    OBVIOUS
  <2> QED BY <1>1, <2>1, <2>2
<1>3. /\ \A h \in S : f[h] \in Nat /\ g[h] = f[h]
      /\ \A h \in S \cup {x} : g[h] \in Nat
      /\ g[x] = calculate_block_subsidy(n + 1) /\ g[x] \in Nat
  <2>1. \A h \in 1 .. n + 1 : calculate_block_subsidy(h) \in Nat
    BY SubsidyFacts
  <2>2. \A h \in 1 .. n : h \in 1 .. n + 1
    OBVIOUS
  <2>3. x \in 1 .. n + 1 /\ \A h \in 1 .. n + 1 : g[h] = calculate_block_subsidy(h)
    BY <1>1
  <2>4. \A h \in 1 .. n : f[h] = calculate_block_subsidy(h)
    BY <1>1
  <2> QED BY <1>1, <1>2, <2>1, <2>2, <2>3, <2>4
<1>4. SumFunctionOnSet(f, S) = SumFunctionOnSet(g, S)
  BY <1>2, <1>3, SumSame
<1>5. /\ SumFunctionOnSet(g, S) \in Nat
      /\ SumFunctionOnSet(g, S \cup {x}) = g[x] + SumFunctionOnSet(g, S)
  BY <1>2, <1>3, SumAdd
<1>6. Supply(n) = Premine + SumFunctionOnSet(f, S) /\ Supply(n + 1) = Premine + SumFunctionOnSet(g, S \cup {x})
  BY <1>1, <1>2 DEF Supply, SumFunction
<1>7. Premine \in Nat
  BY NumberAssumption
<1> QED BY <1>3, <1>4, <1>5, <1>6, <1>7

SupplyInv ==
    /\ IsFiniteSet(canonical_utxos)
    /\ Worth(canonical_utxos) <= Supply(tip_height)

(* The outputs a chain has stored are worth what Worth says.               *)
LEMMA UnspentAreOutputs ==
    ASSUME AuthTypeOK, TablesAgree
    PROVE  canonical_utxos \subseteq Outputs
<1>1. \A b \in canonical_blocks : Created(b) \subseteq Outputs
  BY CreatedWorth DEF AuthTypeOK
<1> QED BY <1>1 DEF TablesAgree

LEMMA SupplyFromInv ==
    ASSUME AuthTypeOK, TablesAgree, SupplyInv
    PROVE  SupplyBounded
<1>1. PICK U, f, g : /\ U = canonical_utxos /\ f = Value
                     /\ g = [op \in canonical_utxos |-> ValueOf(op)]
  OBVIOUS
<1>2. \A x \in U : f[x] \in Nat /\ g[x] = f[x]
  BY <1>1, UnspentAreOutputs, OutputFacts
<1>3. IsFiniteSet(U)
  BY <1>1 DEF SupplyInv
<1>4. SumFunctionOnSet(f, U) = SumFunctionOnSet(g, U)
  BY <1>2, <1>3, SumSame
<1>5. SumFunction(g) = SumFunctionOnSet(g, U)
  BY <1>1 DEF SumFunction
<1> QED BY <1>1, <1>4, <1>5 DEF SupplyInv, SupplyBounded, Supply, Worth

LEMMA SupplyCommit ==
    ASSUME AuthTypeOK, TreeInv, SerialInv, SupplyInv, NEW w \in Workers, CommitBlock(w)
    PROVE  SupplyInv'
<1>1. PICK b, U, S, C, n : /\ b = job[w] /\ U = canonical_utxos /\ S = Spends(b)
                           /\ C = Created(b) /\ n = tip_height
  OBVIOUS
<1>2. InFlight(w) /\ commit_block(b, S)
  BY <1>1 DEF CommitBlock, InFlight
<1>3. tip_height' = n + 1 /\ canonical_utxos' = (U \ S) \cup C /\ n \in Nat
  <2>1. tip_height' = tip_height + 1
    BY <1>1, <1>2, CommitAppends
  <2> QED BY <1>1, <1>2, <2>1 DEF commit_block, write_tables, AuthTypeOK
<1>4. /\ \A k \in DOMAIN InputsOf(b) : ~SpentEarlier(b, k)
      /\ S \subseteq U /\ ValidTransactions(b) /\ b \in Block
      /\ verify_block_structure(b, n + 1)
  BY <1>1, CommitChecked
<1>5. U \subseteq Outputs /\ S \subseteq Outputs
  BY <1>1, <1>4, UnspentAreOutputs DEF TreeInv
<1>6. Worth(C) <= calculate_block_subsidy(n + 1) + Worth(S)
  <2>1. n + 1 \in Nat \ {0}
    BY <1>3
  <2>2. Spends(b) \subseteq Outputs
    BY <1>1, <1>5
  <2>3. PICK h \in Nat \ {0} : h = n + 1
    BY <2>1
  <2>4. verify_block_structure(b, h)
    BY <1>4, <2>3
  <2>5. Worth(Created(b)) <= calculate_block_subsidy(h) + Worth(Spends(b))
    BY <1>4, <2>2, <2>4, BlockWorth
  <2> QED BY <1>1, <2>3, <2>5
<1>7. IsFiniteSet(U) /\ IsFiniteSet(C) /\ C \subseteq Outputs
  BY <1>1, <1>4, CreatedWorth DEF SupplyInv
<1>8. \A x \in Outputs : Value[x] \in Nat
  BY OutputFacts
<1>9. /\ Worth(U) = Worth(U \ S) + Worth(S)
      /\ Worth(U \ S) \in Nat /\ Worth(S) \in Nat
  <2>1. \A x \in U : Value[x] \in Nat
    BY <1>5, <1>8
  <2> QED BY <1>4, <1>7, <2>1, SumSplit DEF Worth
<1>10. /\ IsFiniteSet((U \ S) \cup C)
       /\ Worth((U \ S) \cup C) <= Worth(U \ S) + Worth(C)
       /\ Worth(C) \in Nat /\ Worth((U \ S) \cup C) \in Nat
  <2>1. PICK K, D : K = U \ S /\ D = C \ (U \ S)
    OBVIOUS
  <2>2. /\ IsFiniteSet(K) /\ IsFiniteSet(D) /\ K \cap D = {}
        /\ (U \ S) \cup C = K \cup D
        /\ \A x \in K \cup D : Value[x] \in Nat
        /\ \A x \in C : Value[x] \in Nat
    BY <1>5, <1>7, <1>8, <2>1, FS_Subset
  <2>3. Worth(K \cup D) = Worth(K) + Worth(D)
    BY <2>2, SumUnion DEF Worth
  <2>4. PICK E : E = C \cap (U \ S)
    OBVIOUS
  <2>5. E \in SUBSET C /\ C \ E = D
    BY <2>1, <2>4
  <2>6. /\ Worth(C) = Worth(D) + Worth(E)
        /\ Worth(D) \in Nat /\ Worth(E) \in Nat /\ Worth(C) \in Nat
    <3>1. /\ SumFunctionOnSet(Value, C) = SumFunctionOnSet(Value, C \ E) + SumFunctionOnSet(Value, E)
          /\ SumFunctionOnSet(Value, C) \in Nat
          /\ SumFunctionOnSet(Value, C \ E) \in Nat
          /\ SumFunctionOnSet(Value, E) \in Nat
      BY <1>7, <2>2, <2>5, SumSplit
    <3> QED BY <2>5, <3>1 DEF Worth
  <2>7. IsFiniteSet(K \cup D)
    BY <2>2, FS_Union
  <2>8. Worth(K) \in Nat
    BY <1>9, <2>1
  <2>9. Worth(K \cup D) <= Worth(K) + Worth(C) /\ Worth(K \cup D) \in Nat
    BY <2>3, <2>6, <2>8
  <2> QED BY <2>1, <2>2, <2>6, <2>7, <2>9
<1>11. /\ Supply(n) \in Nat /\ Supply(n + 1) = Supply(n) + calculate_block_subsidy(n + 1)
       /\ calculate_block_subsidy(n + 1) \in Nat
  BY <1>3, SupplyGrows, SubsidyFacts
<1>12. Worth(U) <= Supply(n)
  BY <1>1 DEF SupplyInv
<1>13. Worth((U \ S) \cup C) <= Supply(n + 1)
  BY <1>6, <1>9, <1>10, <1>11, <1>12
<1> QED BY <1>3, <1>10, <1>13 DEF SupplyInv, Worth, Supply

LEMMA SupplyGenesis ==
    ASSUME AuthTypeOK, TreeInv, CommitGenesis
    PROVE  SupplyInv'
<1>1. tip_height' = 0 /\ canonical_utxos' = Created(Genesis) /\ Genesis \in Block
  BY GenesisAppends, GenesisAssumption
<1>2. PICK cb : cb = Body[Genesis][1]
  OBVIOUS
<1>3. cb \in Tx /\ ToSet(Body[Genesis]) = {cb}
  <2>1. Body[Genesis] \in Seq(Tx) /\ DOMAIN Body[Genesis] = {1}
    BY <1>1, BlockAssumption, PremineAssumption
  <2> QED BY <1>2, <2>1 DEF ToSet
<1>4. Paid[cb] \in Nat /\ Paid[cb] = Premine
  BY <1>2, <1>3, OutputsWorth, PremineAssumption DEF Paid
<1>5. SumFunctionOnSet(Paid, {cb}) = Paid[cb]
  BY <1>4, SumSingle
<1>6. IsFiniteSet(Created(Genesis)) /\ Worth(Created(Genesis)) = Premine
  BY <1>1, <1>3, <1>4, <1>5, CreatedWorth
<1>7. Supply(0) = Premine
  <2>1. SumFunctionOnSet([h \in {} |-> calculate_block_subsidy(h)], {}) = 0
    BY SumEmpty
  <2>2. 1 .. 0 = {}
    OBVIOUS
  <2> QED BY <1>4, <2>1, <2>2 DEF Supply, SumFunction
<1> QED BY <1>1, <1>4, <1>6, <1>7 DEF SupplyInv, Worth, Supply

LEMMA SupplyNext ==
    AuthTypeOK /\ TreeInv /\ SerialInv /\ SupplyInv /\ [AuthNext]_authVars => SupplyInv'
<1> SUFFICES ASSUME AuthTypeOK, TreeInv, SerialInv, SupplyInv, [AuthNext]_authVars
             PROVE  SupplyInv'
  OBVIOUS
<1>1. CASE CommitGenesis
  BY <1>1, SupplyGenesis
<1>2. CASE \E w \in Workers : CommitBlock(w)
  BY <1>2, SupplyCommit
<1>3. CASE UNCHANGED tables
  BY <1>3 DEF tables, SupplyInv, Worth, Supply
<1> QED BY <1>1, <1>2, <1>3, TableSteps

LEMMA SupplyInit == AuthInit => SupplyInv
<1> SUFFICES ASSUME AuthInit PROVE SupplyInv
  OBVIOUS
<1>1. tip_height = 0 /\ canonical_utxos = {}
  BY DEF AuthInit
<1>2. Supply(0) \in Nat
  BY SupplyGrows
<1>3. Worth({}) = 0
  BY SumEmpty DEF Worth
<1> QED BY <1>1, <1>2, <1>3, FS_EmptySet DEF SupplyInv

(* When no two calls overlap, the unspent outputs are never worth more     *)
(* than the premine and the subsidies of the heights reached, whatever     *)
(* blocks are offered: the coinbase limit with its saturating sum, and the *)
(* value conservation of every other transaction, add up over the chain.   *)
THEOREM SupplyIsBounded == SerialSpec => []SupplyBounded
<1> DEFINE Inv == AuthTypeOK /\ TreeInv /\ SerialInv
<1>1. Inv /\ SupplyInv /\ [AuthNext /\ NoOverlap']_authVars => SupplyInv'
  BY SupplyNext
<1>2. Inv /\ SupplyInv => SupplyBounded
  BY SupplyFromInv DEF TreeInv
<1> QED BY <1>1, <1>2, SupplyInit, SerialInvariant, PTL DEF SerialSpec
-----------------------------------------------------------------------------
CoinInv == SpendsBacked /\ UtxoExact

(* One block more on the chain leaves the replay below it as it was, and   *)
(* the replay of the whole chain takes what it spends and adds what it     *)
(* creates, even when an outpoint was there before.                        *)
LEMMA ReplayExtends ==
    ASSUME NEW n \in Nat, NEW old, NEW new,
           DOMAIN old = 0 .. n,
           DOMAIN new = 0 .. n + 1,
           \A h \in 0 .. n : new[h] = old[h]
    PROVE  /\ \A h \in 0 .. n + 1 : Replay(new, h) = Replay(old, h)
           /\ Replay(new, n + 2) = (Replay(old, n + 1) \ Spends(new[n + 1])) \cup Created(new[n + 1])
<1> DEFINE top == new[n + 1]
           Survives(index, h, op) ==
               \E k \in DOMAIN index :
                   /\ k < h
                   /\ op \in Created(index[k])
                   /\ \A i \in DOMAIN index : k < i /\ i < h => op \notin Spends(index[i])
<1>1. \A index, h, op : op \in Replay(index, h) <=> Survives(index, h, op)
  BY DEF Replay
<1>2. ASSUME NEW h \in 0 .. n + 1 PROVE Replay(new, h) = Replay(old, h)
  <2>1. \A k : k \in 0 .. n + 1 /\ k < h <=> k \in 0 .. n /\ k < h
    BY SMT
  <2>2. ASSUME NEW op PROVE Survives(new, h, op) <=> Survives(old, h, op)
    <3>1. ASSUME Survives(new, h, op) PROVE Survives(old, h, op)
      BY <2>1, <3>1
    <3>2. ASSUME Survives(old, h, op) PROVE Survives(new, h, op)
      BY <2>1, <3>2
    <3> QED BY <3>1, <3>2
  <2> HIDE DEF Survives
  <2>3. \A op : op \in Replay(new, h) <=> op \in Replay(old, h)
    BY <1>1, <2>2
  <2> QED BY <2>3
<1>3. ASSUME NEW op
      PROVE  Survives(new, n + 2, op) <=>
                 (Survives(old, n + 1, op) /\ op \notin Spends(top)) \/ op \in Created(top)
  <2>1. ASSUME Survives(new, n + 2, op), op \notin Created(top)
        PROVE  Survives(old, n + 1, op) /\ op \notin Spends(top)
    <3>1. PICK k \in 0 .. n + 1 :
              /\ op \in Created(new[k])
              /\ \A i \in 0 .. n + 1 : k < i /\ i < n + 2 => op \notin Spends(new[i])
      BY <2>1
    <3>2. k \in 0 .. n /\ k < n + 1
      BY <2>1, <3>1
    <3>3. op \notin Spends(top)
      BY <3>1, <3>2
    <3> QED BY <3>1, <3>2, <3>3
  <2>2. ASSUME Survives(old, n + 1, op), op \notin Spends(top)
        PROVE  Survives(new, n + 2, op)
    <3>1. PICK k \in 0 .. n :
              /\ op \in Created(old[k])
              /\ \A i \in 0 .. n : k < i /\ i < n + 1 => op \notin Spends(old[i])
      BY <2>2
    <3>2. ASSUME NEW i \in 0 .. n + 1, k < i PROVE op \notin Spends(new[i])
      BY <2>2, <3>1, <3>2
    <3>3. k \in 0 .. n + 1 /\ k < n + 2 /\ op \in Created(new[k])
      BY <3>1
    <3> QED BY <3>2, <3>3
  <2>3. ASSUME op \in Created(top) PROVE Survives(new, n + 2, op)
    <3>1. n + 1 \in 0 .. n + 1 /\ n + 1 < n + 2 /\ \A i \in 0 .. n + 1 : ~(n + 1 < i)
      OBVIOUS
    <3> QED BY <2>3, <3>1
  <2> QED BY <2>1, <2>2, <2>3
<1>4. Replay(new, n + 2) = (Replay(old, n + 1) \ Spends(top)) \cup Created(top)
  <2> HIDE DEF top, Survives
  <2>1. \A op : op \in Replay(new, n + 2) <=>
                    (op \in Replay(old, n + 1) /\ op \notin Spends(top)) \/ op \in Created(top)
    BY <1>1, <1>3
  <2> QED BY <2>1
<1> QED BY <1>2, <1>4

LEMMA CoinCommit ==
    ASSUME AuthTypeOK, TreeInv, SerialInv, CoinInv,
           NEW w \in Workers, CommitBlock(w)
    PROVE  CoinInv'
<1> DEFINE b == job[w]
<1>1. InFlight(w) /\ commit_block(b, Spends(b))
  BY DEF CommitBlock, InFlight
<1>2. /\ tip_height' = tip_height + 1
      /\ DOMAIN height_to_hash = 0 .. tip_height
      /\ height_to_hash'[tip_height + 1] = b
      /\ \A h \in 0 .. tip_height : height_to_hash'[h] = height_to_hash[h]
  BY <1>1, CommitAppends
<1>3. tip_height \in Nat /\ DOMAIN height_to_hash' = 0 .. tip_height + 1
  <2>1. tip_height \in Nat
    BY DEF AuthTypeOK
  <2>2. DOMAIN height_to_hash' = 0 .. tip_height'
    BY <1>1, CommitAppends DEF ChainLinked
  <2> QED BY <1>2, <2>1, <2>2
<1>4. canonical_utxos' = (canonical_utxos \ Spends(b)) \cup Created(b)
  BY <1>1 DEF commit_block, write_tables
<1>5. Spends(b) \subseteq canonical_utxos
  BY CommitChecked
<1>6. /\ \A h \in 0 .. tip_height + 1 : Replay(height_to_hash', h) = Replay(height_to_hash, h)
      /\ Replay(height_to_hash', tip_height + 2)
             = (Replay(height_to_hash, tip_height + 1) \ Spends(b)) \cup Created(b)
  BY <1>2, <1>3, ReplayExtends
<1>7. UtxoExact'
  <2>1. Replay(height_to_hash', tip_height + 2) = canonical_utxos'
    BY <1>4, <1>6 DEF CoinInv, UtxoExact
  <2>2. tip_height' + 1 = tip_height + 2
    BY <1>2, <1>3
  <2> QED BY <2>1, <2>2 DEF UtxoExact
<1>8. ASSUME NEW h \in DOMAIN height_to_hash'
      PROVE  Spends(height_to_hash'[h]) \subseteq Replay(height_to_hash', h)
  <2>1. CASE h = tip_height + 1
    BY <2>1, <1>2, <1>3, <1>5, <1>6 DEF CoinInv, UtxoExact
  <2>2. CASE h # tip_height + 1
    BY <2>2, <1>2, <1>3, <1>6 DEF CoinInv, SpendsBacked
  <2> QED BY <2>1, <2>2
<1> QED BY <1>7, <1>8 DEF CoinInv, SpendsBacked

LEMMA CoinGenesis ==
    ASSUME AuthTypeOK, TreeInv, CommitGenesis
    PROVE  CoinInv'
<1>1. /\ DOMAIN height_to_hash' = {0} /\ height_to_hash'[0] = Genesis /\ tip_height' = 0
      /\ canonical_utxos' = Created(Genesis) /\ Genesis \in Block
  BY GenesisAppends, GenesisAssumption
<1>2. Spends(Genesis) = {}
  <2>1. Body[Genesis] \in Seq(Tx) /\ DOMAIN Body[Genesis] = {1}
    BY <1>1, BlockAssumption, PremineAssumption
  <2>2. \A t \in ToSet(Body[Genesis]) : is_coinbase(t)
    BY <2>1, PremineAssumption DEF ToSet
  <2> QED BY <1>1, <2>2, InputsFacts
<1>3. UtxoExact'
  <2>1. Replay(height_to_hash', 1) = Created(Genesis)
    BY <1>1 DEF Replay
  <2> QED BY <1>1, <2>1 DEF UtxoExact
<1> QED BY <1>1, <1>2, <1>3 DEF CoinInv, SpendsBacked

LEMMA CoinInvariant == SerialSpec => []CoinInv
<1> DEFINE Inv == AuthTypeOK /\ TreeInv /\ SerialInv
<1>1. AuthInit => CoinInv
  BY DEF AuthInit, CoinInv, SpendsBacked, UtxoExact, Replay
<1>2. Inv /\ CoinInv /\ [AuthNext /\ NoOverlap']_authVars => CoinInv'
  <2> SUFFICES ASSUME Inv, CoinInv, [AuthNext]_authVars PROVE CoinInv'
    OBVIOUS
  <2>1. CASE CommitGenesis
    BY <2>1, CoinGenesis
  <2>2. CASE \E w \in Workers : CommitBlock(w)
    BY <2>2, CoinCommit
  <2>3. CASE UNCHANGED tables
    BY <2>3 DEF tables, CoinInv, SpendsBacked, UtxoExact
  <2> QED BY <2>1, <2>2, <2>3, TableSteps
<1> QED BY <1>1, <1>2, SerialInvariant, PTL DEF SerialSpec

(* When no two calls overlap, what every committed block consumes was      *)
(* created below it and not consumed since, whatever blocks are offered    *)
(* and however often a coinbase recurs.                                    *)
THEOREM SpendsAreBacked == SerialSpec => []SpendsBacked
<1>1. CoinInv => SpendsBacked
  BY DEF CoinInv
<1> QED BY <1>1, CoinInvariant, PTL

(* In the same executions the UTXO table is exactly what a replay of the   *)
(* stored chain leaves unspent.                                            *)
THEOREM UtxoIsExact == SerialSpec => []UtxoExact
<1>1. CoinInv => UtxoExact
  BY DEF CoinInv
<1> QED BY <1>1, CoinInvariant, PTL
-----------------------------------------------------------------------------
(* After a fail-stop, whatever the callers interleave, the node stays      *)
(* failed until it is restarted, no call joins those that were past the    *)
(* guard, and each of these stores at most its own block                   *)
(* (process_and_commit_block).                                             *)
THEOREM FailureIsContained == AuthSpec => FailureContained
<1> DEFINE Contained == state = "Failed" =>
               /\ state' \in {"Failed", "Starting"}
               /\ Unfinished' \subseteq Unfinished
               /\ \A w \in Unfinished' : job'[w] = job[w]
               /\ UNCHANGED tables \/ StoredByACall
<1>1. AuthTypeOK /\ [AuthNext]_authVars => [Contained]_authVars
  <2> SUFFICES ASSUME AuthTypeOK, AuthNext, state = "Failed" PROVE Contained
    OBVIOUS
  <2>1. CASE Boot
    BY <2>1 DEF Boot, BeginRecovery, CommitGenesis, FinishRecovery
  <2>2. CASE Restart
    BY <2>2 DEF Restart, Unfinished
  <2>3. ASSUME NEW w \in Workers, \E b \in Block : EnforceOperational(w, b)
        PROVE  Contained
    BY <2>3 DEF EnforceOperational
  <2>4. ASSUME NEW w \in Workers, CommitBlock(w) PROVE Contained
    <3>1. /\ w \in Unfinished /\ w \notin Unfinished'
          /\ Unfinished' \subseteq Unfinished
          /\ job' = job /\ state' = state
      BY <2>4 DEF CommitBlock, Unfinished, AuthTypeOK
    <3>2. tip_hash' = job[w] /\ canonical_blocks' = canonical_blocks \cup {job[w]}
      BY <2>4 DEF CommitBlock, commit_block, write_tables
    <3>3. StoredByACall
      BY <3>1, <3>2 DEF StoredByACall
    <3> QED BY <3>1, <3>3
  <2>5. ASSUME NEW w \in Workers,
               \/ ReadTip(w) \/ RejectAtTip(w) \/ TipUnreadable(w)
               \/ LookupUtxo(w) \/ RejectInput(w)
               \/ VerifyInvariants(w) \/ RejectInvariants(w)
               \/ CommitFails(w) \/ ReturnAccepted(w)
        PROVE  Contained
    <3>1. UNCHANGED tables /\ state' \in {state, "Failed"}
      BY <2>5 DEF ReadTip, RejectAtTip, TipUnreadable, LookupUtxo, RejectInput, VerifyInvariants,
                  RejectInvariants, InputsFound, CommitFails, ReturnAccepted, fail_stop
    <3>2. /\ \A v \in Workers \ {w} : pc'[v] = pc[v] /\ job'[v] = job[v]
          /\ \/ pc'[w] = "idle"
             \/ job' = job /\ w \in Unfinished
      BY <2>5 DEF ReadTip, RejectAtTip, TipUnreadable, LookupUtxo, RejectInput, VerifyInvariants,
                  RejectInvariants, InputsFound, CommitFails, ReturnAccepted, Return, AuthTypeOK,
                  Unfinished
    <3>3. Unfinished' \subseteq Unfinished /\ \A v \in Unfinished' : job'[v] = job[v]
      BY <3>2 DEF Unfinished
    <3> QED BY <3>1, <3>3
  <2> QED BY <2>1, <2>2, <2>3, <2>4, <2>5 DEF AuthNext, Pipeline
<1> QED BY <1>1, TypeCorrect, PTL DEF AuthSpec, FailureContained
=============================================================================
