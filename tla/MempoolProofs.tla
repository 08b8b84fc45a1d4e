--------------------------- MODULE MempoolProofs ---------------------------
(***************************************************************************)
(* Machine-checked proofs about the mempool, for any transactions, any     *)
(* capacity and any UTXO views: first what each operation does to the      *)
(* indexes, wherever it is called from, then the theorems about the pool   *)
(* on its own.                                                             *)
(*                                                                         *)
(* IndexesAgree is inductive once it is known that what is staged is a     *)
(* transaction with inputs: a transaction without inputs would reserve     *)
(* nothing and could be staged twice over.                                 *)
(***************************************************************************)
EXTENDS MempoolSpec, DataLemmas

PoolInv ==
    /\ by_txid \subseteq Tx
    /\ \A t \in by_txid : ToSet(TxIn[t]) # {}
    /\ IndexesAgree

(* No outpoint is an input of two staged transactions, since the one       *)
(* reservation would have to name both.                                    *)
LEMMA Exclusive ==
    ASSUME IndexesAgree, NEW t \in by_txid, NEW u \in by_txid,
           NEW op \in ToSet(TxIn[t]), op \in ToSet(TxIn[u])
    PROVE  t = u
  BY DEF IndexesAgree

(* A transaction with a first input has inputs.                            *)
LEMMA NonEmptyInputs ==
    ASSUME NEW t \in Tx, TxIn[t] # <<>>
    PROVE  ToSet(TxIn[t]) # {}
<1>1. TxIn[t] \in Seq(OutPoint)
  BY TxAssumption
<1>2. 1 \in DOMAIN TxIn[t]
  BY <1>1
<1> QED BY <1>2 DEF ToSet

(* What the remaining transactions spend once S is taken out.              *)
LEMMA ReleasedRest ==
    ASSUME IndexesAgree, NEW S, S \subseteq by_txid
    PROVE  Released(by_txid) \ Released(S) = Released(by_txid \ S)
  BY Exclusive DEF Released

(* Removing staged transactions keeps the indexes in agreement.            *)
LEMMA RemovalKeeps ==
    ASSUME PoolInv, NEW S, S \subseteq by_txid, Update(S, {})
    PROVE  PoolInv'
<1>1. by_txid' = by_txid \ S /\ by_fee_rate' = by_fee_rate \ S
  BY DEF Update, Rewrite
<1>2. Released({}) = {}
  BY DEF Released
<1>3. /\ DOMAIN spent_outpoints' = DOMAIN spent_outpoints \ Released(S)
      /\ \A op \in DOMAIN spent_outpoints' : spent_outpoints'[op] = spent_outpoints[op]
  BY <1>2 DEF Update, Rewrite
<1>4. Released(by_txid) \ Released(S) = Released(by_txid \ S)
  BY ReleasedRest DEF PoolInv
<1>5. DOMAIN spent_outpoints' = Released(by_txid')
  BY <1>1, <1>3, <1>4 DEF PoolInv, IndexesAgree
<1>6. ASSUME NEW t \in by_txid', NEW op \in ToSet(TxIn[t]) PROVE spent_outpoints'[op] = t
  <2>1. op \in DOMAIN spent_outpoints'
    BY <1>5 DEF Released
  <2> QED BY <2>1, <1>1, <1>3 DEF PoolInv, IndexesAgree
<1> QED BY <1>1, <1>5, <1>6 DEF PoolInv, IndexesAgree

(* Registering a transaction whose inputs nobody reserves, after removing  *)
(* staged ones, keeps the indexes in agreement.                            *)
LEMMA AdditionKeeps ==
    ASSUME PoolInv, NEW S, S \subseteq by_txid, NEW t \in Tx, Update(S, {t}),
           TxIn[t] # <<>>, ToSet(TxIn[t]) \cap DOMAIN spent_outpoints = {}
    PROVE  PoolInv'
<1>1. by_txid' = (by_txid \ S) \cup {t} /\ by_fee_rate' = (by_fee_rate \ S) \cup {t}
  BY DEF Update, Rewrite
<1>2. Released({t}) = ToSet(TxIn[t])
  BY DEF Released
<1>3. DOMAIN spent_outpoints' = (DOMAIN spent_outpoints \ Released(S)) \cup ToSet(TxIn[t])
  BY <1>2 DEF Update, Rewrite
<1>4. \A op \in DOMAIN spent_outpoints \ Released(S) :
          op \notin ToSet(TxIn[t]) => spent_outpoints'[op] = spent_outpoints[op]
  BY <1>2 DEF Update, Rewrite
<1>5. ASSUME NEW op \in ToSet(TxIn[t]) PROVE spent_outpoints'[op] = t
  <2>1. spent_outpoints'[op] = CHOOSE u \in {t} : op \in ToSet(TxIn[u])
    BY <1>2 DEF Update, Rewrite
  <2> QED BY <2>1
<1>6. Released(by_txid) \ Released(S) = Released(by_txid \ S)
  BY ReleasedRest DEF PoolInv
<1>7. DOMAIN spent_outpoints' = Released(by_txid')
  <2>1. Released((by_txid \ S) \cup {t}) = Released(by_txid \ S) \cup ToSet(TxIn[t])
    BY DEF Released
  <2> QED BY <2>1, <1>1, <1>3, <1>6 DEF PoolInv, IndexesAgree
<1>8. ASSUME NEW u \in by_txid', NEW op \in ToSet(TxIn[u]) PROVE spent_outpoints'[op] = u
  <2>1. CASE u = t
    BY <2>1, <1>5
  <2>2. CASE u \in by_txid \ S
    <3>1. op \in DOMAIN spent_outpoints /\ spent_outpoints[op] = u
      BY <2>2 DEF PoolInv, IndexesAgree, Released
    <3>2. op \notin Released(S)
      BY <2>2, Exclusive DEF PoolInv, Released
    <3> QED BY <3>1, <3>2, <1>4
  <2> QED BY <2>1, <2>2, <1>1
<1>9. ToSet(TxIn[t]) # {}
  BY NonEmptyInputs
<1> QED BY <1>1, <1>7, <1>8, <1>9 DEF PoolInv, IndexesAgree

(* insert, once its gates are passed; whether or not it evicts.            *)
LEMMA RegisterKeeps ==
    ASSUME PoolInv, NEW t \in Tx, Register(t), TxIn[t] # <<>>,
           ToSet(TxIn[t]) \cap DOMAIN spent_outpoints = {}
    PROVE  PoolInv'
<1>1. CASE Update({}, {t})
  BY <1>1, AdditionKeeps
<1>2. ASSUME NEW victim \in by_fee_rate, Update({victim}, {t}) PROVE PoolInv'
  <2>1. {victim} \subseteq by_txid
    BY DEF PoolInv, IndexesAgree
  <2> QED BY <2>1, <1>2, AdditionKeeps
<1> QED BY <1>1, <1>2 DEF Register

(* process_committed_block removes staged transactions only.               *)
LEMMA BlockKeeps ==
    ASSUME PoolInv, NEW b \in Block, process_committed_block(b)
    PROVE  PoolInv'
<1> DEFINE confirmed == by_txid \cap ToSet(Body[b])
    consumed == Released(ToSet(Body[b]))
    conflicting == {spent_outpoints[op] :
                        op \in consumed \cap (DOMAIN spent_outpoints \ Released(confirmed))}
    S == confirmed \cup (conflicting \cap by_txid)
<1>1. S \subseteq by_txid
  OBVIOUS
<1>2. Update(S, {})
  BY DEF process_committed_block
<1> HIDE DEF S
<1> QED BY <1>1, <1>2, RemovalKeeps

(* The empty pool.                                                         *)
LEMMA PoolInitial == PoolInit => PoolInv
  BY DEF PoolInit, PoolInv, IndexesAgree, Released

(* A step that leaves the pool alone.                                      *)
LEMMA PoolUnchanged == PoolInv /\ UNCHANGED poolVars => PoolInv'
  BY DEF poolVars, PoolInv, IndexesAgree, Released

(* What process_committed_block leaves: the reservations lead it from the  *)
(* outpoints of the block to every staged transaction that spends one.     *)
LEMMA BlockLeaves ==
    ASSUME PoolInv, NEW b \in Block
    PROVE  process_committed_block(b) =>
               by_txid' = {t \in by_txid :
                               ToSet(TxIn[t]) \cap Released(ToSet(Body[b])) = {}}
<1> DEFINE confirmed == by_txid \cap ToSet(Body[b])
    consumed == Released(ToSet(Body[b]))
    conflicting == {spent_outpoints[op] :
                        op \in consumed \cap (DOMAIN spent_outpoints \ Released(confirmed))}
    S == confirmed \cup (conflicting \cap by_txid)
    hit(t) == ToSet(TxIn[t]) \cap consumed # {}
<1> SUFFICES ASSUME process_committed_block(b) PROVE by_txid' = {t \in by_txid : ~hit(t)}
  OBVIOUS
<1>1. by_txid' = by_txid \ S
  BY DEF process_committed_block, Update, Rewrite
<1>2. ASSUME NEW t \in by_txid, hit(t) PROVE t \in S
  <2>1. PICK op \in ToSet(TxIn[t]) : op \in consumed
    BY <1>2
  <2>2. op \in DOMAIN spent_outpoints /\ spent_outpoints[op] = t
    BY <2>1 DEF PoolInv, IndexesAgree, Released
  <2>3. CASE op \in Released(confirmed)
    <3>1. PICK u \in confirmed : op \in ToSet(TxIn[u])
      BY <2>3 DEF Released
    <3>2. u = t
      BY <2>1, <3>1, Exclusive DEF PoolInv
    <3> QED BY <3>1, <3>2
  <2>4. CASE op \notin Released(confirmed)
    BY <2>1, <2>2, <2>4
  <2> QED BY <2>3, <2>4
<1>3. ASSUME NEW t \in S PROVE t \in by_txid /\ hit(t)
  <2>1. CASE t \in confirmed
    BY <2>1 DEF Released, PoolInv
  <2>2. CASE t \in conflicting \cap by_txid
    <3>1. PICK op \in consumed \cap DOMAIN spent_outpoints : t = spent_outpoints[op]
      BY <2>2
    <3>2. PICK u \in by_txid : op \in ToSet(TxIn[u])
      BY <3>1 DEF PoolInv, IndexesAgree, Released
    <3>3. u = t
      BY <3>1, <3>2 DEF PoolInv, IndexesAgree
    <3> QED BY <3>1, <3>2, <3>3
  <2> QED BY <1>3, <2>1, <2>2
<1> HIDE DEF S, hit
<1> QED BY <1>1, <1>2, <1>3
-----------------------------------------------------------------------------
(* The reservations are a function to transactions, and the byte counter   *)
(* is the size of the staged transactions, of which there are finitely     *)
(* many.                                                                   *)
CountInv ==
    /\ IsFiniteSet(by_txid)
    /\ total_bytes = SizeOf(by_txid)
    /\ spent_outpoints = [op \in DOMAIN spent_outpoints |-> spent_outpoints[op]]

LEMMA SizeType ==
    ASSUME NEW S, IsFiniteSet(S), S \subseteq Tx
    PROVE  SizeOf(S) \in Nat
<1>1. \A t \in S : TxSize[t] \in Nat
  BY PoolAssumption
<1> QED BY <1>1, SumType DEF SizeOf

LEMMA SizeOfNone == SizeOf({}) = 0
  BY SumEmpty DEF SizeOf

LEMMA SizeOfOne ==
    ASSUME NEW t \in Tx
    PROVE  SizeOf({t}) = TxSize[t]
<1>1. TxSize[t] \in Nat
  BY PoolAssumption
<1> QED BY <1>1, SumSingle DEF SizeOf

(* Taking out what is staged and adding what is not: the subtraction does  *)
(* not saturate.                                                           *)
LEMMA UpdateCounts ==
    ASSUME PoolInv, CountInv, NEW S, S \subseteq by_txid,
           NEW A, IsFiniteSet(A), A \subseteq Tx, A \cap by_txid = {}, Update(S, A)
    PROVE  CountInv'
<1>1. PICK R : R = by_txid \ S
  OBVIOUS
<1>2. /\ \A t \in by_txid : TxSize[t] \in Nat
      /\ \A t \in R \cup A : TxSize[t] \in Nat
  BY <1>1, PoolAssumption DEF PoolInv
<1>3. IsFiniteSet(R) /\ IsFiniteSet(R \cup A) /\ R \cap A = {}
  BY <1>1, FS_Subset, FS_Union DEF CountInv
<1>4. /\ SizeOf(by_txid) = SizeOf(by_txid \ S) + SizeOf(S)
      /\ SizeOf(by_txid \ S) \in Nat /\ SizeOf(S) \in Nat
  BY <1>2, SumSplit DEF SizeOf, CountInv
<1>5. SaturatingSub(total_bytes, SizeOf(S)) = SizeOf(R)
  BY <1>1, <1>4 DEF SaturatingSub, CountInv
<1>6. SizeOf(R \cup A) = SizeOf(R) + SizeOf(A)
  BY <1>2, <1>3, SumUnion DEF SizeOf
<1>7. by_txid' = R \cup A /\ total_bytes' = SaturatingSub(total_bytes, SizeOf(S)) + SizeOf(A)
  BY <1>1 DEF Update, Rewrite
<1>8. SizeOf(by_txid)' = SizeOf(by_txid')
  BY DEF SizeOf
<1>9. spent_outpoints' = [op \in DOMAIN spent_outpoints' |-> spent_outpoints'[op]]
  BY DEF Update, Rewrite
<1> QED BY <1>3, <1>5, <1>6, <1>7, <1>8, <1>9 DEF CountInv

(* What passes the gates is not staged yet: it would find its own          *)
(* reservations.                                                           *)
LEMMA NewcomerIsNew ==
    ASSUME PoolInv, NEW t \in Tx, TxIn[t] # <<>>,
           ToSet(TxIn[t]) \cap DOMAIN spent_outpoints = {}
    PROVE  t \notin by_txid
  BY NonEmptyInputs DEF PoolInv, IndexesAgree, Released

LEMMA RegisterCounts ==
    ASSUME PoolInv, CountInv, NEW t \in Tx, Register(t), TxIn[t] # <<>>,
           ToSet(TxIn[t]) \cap DOMAIN spent_outpoints = {}
    PROVE  CountInv'
<1>1. IsFiniteSet({t}) /\ {t} \subseteq Tx /\ {t} \cap by_txid = {}
  BY FS_Singleton, NewcomerIsNew
<1>2. CASE Update({}, {t})
  BY <1>1, <1>2, UpdateCounts
<1>3. ASSUME NEW victim \in by_fee_rate, Update({victim}, {t}) PROVE CountInv'
  <2>1. {victim} \subseteq by_txid
    BY DEF PoolInv, IndexesAgree
  <2> QED BY <2>1, <1>1, <1>3, UpdateCounts
<1> QED BY <1>2, <1>3 DEF Register

LEMMA RemovalCounts ==
    ASSUME PoolInv, CountInv, NEW S, S \subseteq by_txid, Update(S, {})
    PROVE  CountInv'
<1>1. IsFiniteSet({}) /\ {} \subseteq Tx /\ {} \cap by_txid = {}
  BY FS_EmptySet
<1> QED BY <1>1, UpdateCounts

LEMMA BlockCounts ==
    ASSUME PoolInv, CountInv, NEW b \in Block, process_committed_block(b)
    PROVE  CountInv'
<1> DEFINE confirmed == by_txid \cap ToSet(Body[b])
    consumed == Released(ToSet(Body[b]))
    conflicting == {spent_outpoints[op] :
                        op \in consumed \cap (DOMAIN spent_outpoints \ Released(confirmed))}
    S == confirmed \cup (conflicting \cap by_txid)
<1>1. S \subseteq by_txid
  OBVIOUS
<1>2. Update(S, {})
  BY DEF process_committed_block
<1> HIDE DEF S
<1> QED BY <1>1, <1>2, RemovalCounts

LEMMA CountInitial == PoolInit => CountInv
<1>1. IsFiniteSet({})
  BY FS_EmptySet
<1> QED BY <1>1, SizeOfNone DEF PoolInit, CountInv

LEMMA CountUnchanged == CountInv /\ UNCHANGED poolVars => CountInv'
  BY DEF poolVars, CountInv, SizeOf

LEMMA PoolTyped ==
    ASSUME PoolInv, CountInv
    PROVE  PoolTypeOK
<1>1. total_bytes \in Nat
  BY SizeType DEF PoolInv, CountInv
<1>2. ASSUME NEW op \in DOMAIN spent_outpoints PROVE spent_outpoints[op] \in Tx
  BY <1>2 DEF PoolInv, IndexesAgree, Released
<1>3. spent_outpoints \in [DOMAIN spent_outpoints -> Tx]
  BY <1>2 DEF CountInv
<1> QED BY <1>1, <1>3 DEF PoolTypeOK, PoolInv, IndexesAgree
-----------------------------------------------------------------------------
(***************************************************************************)
(* The selection for a block is what a loop over the fee index packs; p[n] *)
(* is what it holds after n entries.                                       *)
(***************************************************************************)
Entry(p, n, max) == IF n = 0 THEN <<>> ELSE Pack(p[n - 1], Ranked(by_fee_rate)[n], max)

LEMMA PackingExists ==
    ASSUME NEW max, NEW N \in Nat
    PROVE  \E p : p = [n \in 0 .. N |-> Entry(p, n, max)]
<1> DEFINE IsPacking(p, m) == p = [n \in 0 .. m |-> Entry(p, n, max)]
    Exists(m) == \E p : IsPacking(p, m)
    Good == {m \in Nat : Exists(m)}
<1>1. Exists(0)
  <2>1. IsPacking([n \in 0 .. 0 |-> <<>>], 0)
    BY DEF Entry
  <2> QED BY <2>1
<1>2. ASSUME NEW m \in Nat, Exists(m) PROVE Exists(m + 1)
  <2>1. PICK p : IsPacking(p, m)
    BY <1>2
  <2> DEFINE q == [n \in 0 .. m + 1 |-> IF n = m + 1 THEN Entry(p, n, max) ELSE p[n]]
  <2>2. ASSUME NEW n \in 0 .. m + 1 PROVE q[n] = Entry(q, n, max)
    <3>1. n # 0 => n - 1 \in 0 .. m /\ q[n - 1] = p[n - 1]
      OBVIOUS
    <3>2. Entry(q, n, max) = Entry(p, n, max)
      BY <3>1 DEF Entry
    <3>3. CASE n = m + 1
      BY <3>2, <3>3
    <3>4. CASE n # m + 1
      <4>1. n \in 0 .. m
        BY <3>4
      <4>2. p[n] = Entry(p, n, max)
        BY <4>1, <2>1
      <4> QED BY <4>2, <3>2, <3>4
    <3> QED BY <3>3, <3>4
  <2>3. IsPacking(q, m + 1)
    BY <2>2
  <2> QED BY <2>3
<1>3. 0 \in Good /\ \A m \in Nat : m \in Good => m + 1 \in Good
  <2> HIDE DEF Exists
  <2> QED BY <1>1, <1>2
<1>4. Nat \subseteq Good
  <2> HIDE DEF Good
  <2> QED BY <1>3, SetInduction
<1> QED BY <1>4

LEMMA Packing ==
    ASSUME NEW max, IsFiniteSet(by_fee_rate)
    PROVE  \E p : /\ p = [n \in 0 .. Cardinality(by_fee_rate) |-> Entry(p, n, max)]
                 /\ select_transactions_for_block(max) = p[Cardinality(by_fee_rate)]
<1> DEFINE N == Cardinality(by_fee_rate)
    p == CHOOSE p : p = [n \in 0 .. N |-> Entry(p, n, max)]
<1>1. N \in Nat
  BY FS_CardinalityType
<1>2. p = [n \in 0 .. N |-> Entry(p, n, max)]
  BY <1>1, PackingExists
<1>3. select_transactions_for_block(max) = p[N]
  BY DEF select_transactions_for_block, Entry
<1> HIDE DEF p
<1> QED BY <1>2, <1>3

(* Only staged transactions are selected.                                  *)
LEMMA SelectionStaged ==
    ASSUME NEW max, IsFiniteSet(by_fee_rate)
    PROVE  /\ select_transactions_for_block(max) \in Seq(by_txid)
           /\ ToSet(select_transactions_for_block(max)) \subseteq by_txid
<1> DEFINE N == Cardinality(by_fee_rate)
<1>1. PICK p : /\ p = [n \in 0 .. N |-> Entry(p, n, max)]
               /\ select_transactions_for_block(max) = p[N]
  BY Packing
<1> DEFINE Good == {n \in Nat : n <= N => p[n] \in Seq(by_txid)}
<1>2. N \in Nat
  BY FS_CardinalityType
<1>3. 0 \in Good
  <2>1. p[0] = Entry(p, 0, max)
    BY <1>1, <1>2
  <2>2. p[0] = <<>> /\ <<>> \in Seq(by_txid)
    BY <2>1 DEF Entry
  <2> QED BY <2>2
<1>4. ASSUME NEW n \in Nat, n \in Good PROVE n + 1 \in Good
  <2> SUFFICES ASSUME n + 1 <= N PROVE p[n + 1] \in Seq(by_txid)
    OBVIOUS
  <2>1. p[n + 1] = Entry(p, n + 1, max) /\ p[n] \in Seq(by_txid) /\ (n + 1) - 1 = n
    BY <1>1, <1>2, <1>4
  <2>2. p[n + 1] = Pack(p[n], Ranked(by_fee_rate)[n + 1], max)
    BY <2>1 DEF Entry
  <2>3. PICK acc, t : acc = p[n] /\ t = Ranked(by_fee_rate)[n + 1]
    OBVIOUS
  <2>4. acc \in Seq(by_txid) /\ (p[n + 1] = acc \/ (t \in by_txid /\ p[n + 1] = Append(acc, t)))
    BY <2>1, <2>2, <2>3 DEF Pack
  <2>5. t \in by_txid => Append(acc, t) \in Seq(by_txid)
    BY <2>4
  <2> QED BY <2>4, <2>5
<1>5. N \in Good
  <2> HIDE DEF Good
  <2> QED BY <1>2, <1>3, <1>4, SetInduction
<1>6. p[N] \in Seq(by_txid)
  BY <1>2, <1>5
<1>7. \A s \in Seq(by_txid) : ToSet(s) \subseteq by_txid
  BY DEF ToSet
<1> QED BY <1>1, <1>6, <1>7
-----------------------------------------------------------------------------
(***************************************************************************)
(* FeeRateIndex orders what is staged strictly and totally, provided that  *)
(* every fee is a number: that the inputs exist, which insert has checked. *)
(***************************************************************************)
FeeInv == \A t \in by_txid : Fee(t) \in Int

LEMMA FeeType ==
    ASSUME NEW t \in Tx, ToSet(TxIn[t]) \subseteq Outputs
    PROVE  Fee(t) \in Int
<1>1. PICK D, f : D = DOMAIN TxIn[t] /\ f = [i \in DOMAIN TxIn[t] |-> ValueOf(TxIn[t][i])]
  OBVIOUS
<1>2. IsFiniteSet(D)
  BY <1>1, TxAssumption, ToSetFinite
<1>3. \A i \in D : f[i] \in Nat
  <2>1. ASSUME NEW i \in D PROVE ValueOf(TxIn[t][i]) \in Nat
    <3>1. TxIn[t][i] \in Outputs
      BY <1>1 DEF ToSet
    <3>2. PICK u \in Tx : \E v \in DOMAIN TxOut[u] : TxIn[t][i] = <<u, v>>
      BY <3>1 DEF Outputs, OutputsOf
    <3> QED BY <3>2, TxAssumption DEF ValueOf
  <2> QED BY <1>1, <2>1
<1>4. SumFunctionOnSet(f, D) \in Nat
  BY <1>2, <1>3, SumType
<1>5. InputValue(t) = SumFunctionOnSet(f, D)
  BY <1>1 DEF InputValue, SumFunction
<1>6. OutputValue(t) \in Nat
  <2>1. PICK g : g = TxOut[t]
    OBVIOUS
  <2>2. g \in Seq(Nat) /\ IsFiniteSet(DOMAIN g)
    BY <2>1, TxAssumption, ToSetFinite
  <2>3. \A v \in DOMAIN g : g[v] \in Nat
    BY <2>2
  <2>4. SumFunctionOnSet(g, DOMAIN g) \in Nat
    BY <2>2, <2>3, SumType
  <2> QED BY <2>1, <2>4 DEF OutputValue, SumFunction
<1> QED BY <1>4, <1>5, <1>6 DEF Fee

LEMMA OrderIsStrict ==
    ASSUME NEW t \in Tx, Fee(t) \in Int
    PROVE  ~CheaperThan(t, t)
<1>1. TxSize[t] \in Nat /\ TxRank[t] \in Nat
  BY PoolAssumption
<1> QED BY <1>1 DEF CheaperThan

LEMMA OrderIsTotal ==
    ASSUME NEW t \in Tx, NEW u \in Tx, Fee(t) \in Int, Fee(u) \in Int, t # u
    PROVE  CheaperThan(t, u) \/ CheaperThan(u, t)
<1>1. PICK x, y : x = Fee(t) * TxSize[u] /\ y = Fee(u) * TxSize[t]
  OBVIOUS
<1>2. x \in Int /\ y \in Int
  BY <1>1, PoolAssumption
<1>3. TxRank[t] \in Nat /\ TxRank[u] \in Nat /\ TxRank[t] # TxRank[u]
  BY PoolAssumption
<1>4. x < y \/ y < x \/ (x = y /\ TxRank[t] < TxRank[u]) \/ (x = y /\ TxRank[u] < TxRank[t])
  BY <1>2, <1>3
<1> QED BY <1>1, <1>4 DEF CheaperThan

LEMMA OrderIsTransitive ==
    ASSUME NEW t \in Tx, NEW u \in Tx, NEW v \in Tx,
           Fee(t) \in Int, Fee(u) \in Int, Fee(v) \in Int,
           CheaperThan(t, u), CheaperThan(u, v)
    PROVE  CheaperThan(t, v)
<1>1. PICK a, b, c, d, e, f : /\ a = Fee(t) /\ b = TxSize[t] /\ c = Fee(u) /\ d = TxSize[u]
                              /\ e = Fee(v) /\ f = TxSize[v]
  OBVIOUS
<1>2. /\ a \in Int /\ c \in Int /\ e \in Int
      /\ b \in Nat \ {0} /\ d \in Nat \ {0} /\ f \in Nat \ {0}
  BY <1>1, PoolAssumption
<1>3. /\ a * d < c * b \/ (a * d = c * b /\ TxRank[t] < TxRank[u])
      /\ c * f < e * d \/ (c * f = e * d /\ TxRank[u] < TxRank[v])
  BY <1>1 DEF CheaperThan
<1>4. TxRank[t] \in Nat /\ TxRank[u] \in Nat /\ TxRank[v] \in Nat
  BY PoolAssumption
<1>5. PICK p, q, r, s, x, y : /\ p = a * d /\ q = c * b /\ r = c * f
                              /\ s = e * d /\ x = a * f /\ y = e * b
  OBVIOUS
<1>6. p \in Int /\ q \in Int /\ r \in Int /\ s \in Int /\ x \in Int /\ y \in Int
  BY <1>2, <1>5
<1>7. p <= q /\ r <= s
  BY <1>3, <1>5, <1>6
<1>8. x <= y /\ (x = y => p = q /\ r = s)
  BY <1>2, <1>5, <1>7, CrossMultiplication
<1>9. x < y \/ (x = y /\ TxRank[t] < TxRank[v])
  BY <1>3, <1>4, <1>5, <1>6, <1>8
<1> QED BY <1>1, <1>5, <1>9 DEF CheaperThan

(* So the index read from the top lists each staged transaction once, and  *)
(* one comes before another when it outranks it.                           *)
LEMMA RankedFacts ==
    ASSUME NEW S, IsFiniteSet(S), S \subseteq Tx, \A t \in S : Fee(t) \in Int
    PROVE  /\ \A i \in 1 .. Cardinality(S) : Ranked(S)[i] \in S
           /\ \A i, j \in 1 .. Cardinality(S) : beats(Ranked(S)[j], Ranked(S)[i]) <=> j < i
           /\ \A t \in S : \E i \in 1 .. Cardinality(S) : t = Ranked(S)[i]
<1>1. PICK B : B = [t \in S |-> {u \in S : beats(u, t)}]
  OBVIOUS
<1>2. PICK N : N = Cardinality(S) /\ N \in Nat
  BY FS_CardinalityType
<1>3. \A t \in S : B[t] \in SUBSET S /\ t \notin B[t]
  BY <1>1, OrderIsStrict DEF beats
<1>4. \A t, u \in S : t # u => t \in B[u] \/ u \in B[t]
  BY <1>1, OrderIsTotal DEF beats
<1>5. \A t, u \in S : u \in B[t] => B[u] \subseteq B[t]
  <2> SUFFICES ASSUME NEW t \in S, NEW u \in S, u \in B[t], NEW v \in B[u] PROVE v \in B[t]
    OBVIOUS
  <2>1. v \in S /\ CheaperThan(u, v) /\ CheaperThan(t, u)
    BY <1>1 DEF beats
  <2>2. CheaperThan(t, v)
    BY <2>1, OrderIsTransitive
  <2> QED BY <1>1, <2>1, <2>2 DEF beats
<1>6. /\ \A t \in S : Cardinality(B[t]) \in 0 .. N - 1
      /\ \A t, u \in S : u \in B[t] <=> Cardinality(B[u]) < Cardinality(B[t])
      /\ \A t, u \in S : Cardinality(B[u]) = Cardinality(B[t]) => t = u
      /\ \A i \in 0 .. N - 1 : \E t \in S : Cardinality(B[t]) = i
  BY <1>2, <1>3, <1>4, <1>5, Places
<1>7. \A t \in S : Place(t, S) = Cardinality(B[t])
  BY <1>1 DEF Place
<1>8. ASSUME NEW i \in 1 .. N
      PROVE  Ranked(S)[i] \in S /\ Cardinality(B[Ranked(S)[i]]) = i - 1
  <2>1. Ranked(S)[i] = CHOOSE t \in S : Place(t, S) = i - 1
    BY <1>2 DEF Ranked
  <2>2. i - 1 \in 0 .. N - 1
    BY <1>2
  <2>3. \E t \in S : Place(t, S) = i - 1
    BY <1>6, <1>7, <2>2
  <2>4. Ranked(S)[i] \in S /\ Place(Ranked(S)[i], S) = i - 1
    BY <2>1, <2>3
  <2> QED BY <1>7, <2>4
<1>9. ASSUME NEW i \in 1 .. N, NEW j \in 1 .. N
      PROVE  beats(Ranked(S)[j], Ranked(S)[i]) <=> j < i
  <2>1. PICK t, u : t = Ranked(S)[i] /\ u = Ranked(S)[j]
    OBVIOUS
  <2>2. t \in S /\ u \in S /\ Cardinality(B[t]) = i - 1 /\ Cardinality(B[u]) = j - 1
    BY <1>8, <2>1
  <2>3. u \in B[t] <=> j - 1 < i - 1
    BY <1>6, <2>2
  <2>4. u \in B[t] <=> beats(u, t)
    BY <1>1, <2>2
  <2>5. j - 1 < i - 1 <=> j < i
    BY <1>2
  <2> QED BY <2>1, <2>3, <2>4, <2>5
<1>10. ASSUME NEW t \in S PROVE \E i \in 1 .. N : t = Ranked(S)[i]
  <2>1. PICK i : i = Cardinality(B[t]) + 1
    OBVIOUS
  <2>2. i \in 1 .. N /\ i - 1 = Cardinality(B[t])
    BY <1>2, <1>6, <2>1
  <2>3. t = Ranked(S)[i]
    BY <1>6, <1>8, <2>2
  <2> QED BY <2>2, <2>3
<1> QED BY <1>2, <1>8, <1>9, <1>10

LEMMA SetOfAppend ==
    ASSUME NEW S, NEW acc \in Seq(S), NEW t
    PROVE  ToSet(Append(acc, t)) = ToSet(acc) \cup {t}
<1>1. /\ DOMAIN acc = 1 .. Len(acc) /\ Len(acc) \in Nat
      /\ DOMAIN Append(acc, t) = 1 .. Len(acc) + 1
      /\ \A i \in 1 .. Len(acc) : Append(acc, t)[i] = acc[i]
      /\ Append(acc, t)[Len(acc) + 1] = t
  OBVIOUS
<1>2. 1 .. Len(acc) + 1 = (1 .. Len(acc)) \cup {Len(acc) + 1}
  BY <1>1
<1> QED BY <1>1, <1>2 DEF ToSet

(* The loop decides about each entry once: what it holds when it reaches   *)
(* an entry are the selected ones that outrank it.                         *)
LEMMA PackingGreedy ==
    ASSUME PoolInv, CountInv, FeeInv, NEW max
    PROVE  LET chosen == ToSet(select_transactions_for_block(max))
           IN  \A t \in by_txid :
                   t \in chosen <=> SizeOf({u \in chosen : beats(u, t)}) + TxSize[t] <= max
<1>0. PICK N : N = Cardinality(by_fee_rate)
  OBVIOUS
<1>1. by_fee_rate = by_txid /\ IsFiniteSet(by_fee_rate) /\ by_txid \subseteq Tx /\ N \in Nat
  BY <1>0, FS_CardinalityType DEF PoolInv, IndexesAgree, CountInv
<1>2. PICK p : /\ p = [n \in 0 .. N |-> Entry(p, n, max)]
               /\ select_transactions_for_block(max) = p[N]
  BY <1>0, <1>1, Packing
<1>3. PICK R : R = Ranked(by_fee_rate)
  OBVIOUS
<1>4. /\ \A i \in 1 .. N : R[i] \in by_txid
      /\ \A i, j \in 1 .. N : beats(R[j], R[i]) <=> j < i
      /\ \A t \in by_txid : \E i \in 1 .. N : t = R[i]
  BY <1>0, <1>1, <1>3, RankedFacts DEF FeeInv
<1>5. \A i, j \in 1 .. N : R[i] = R[j] => i = j
  <2> SUFFICES ASSUME NEW i \in 1 .. N, NEW j \in 1 .. N, R[i] = R[j], i # j PROVE FALSE
    OBVIOUS
  <2>1. (i < j \/ j < i) /\ ~(i < i)
    OBVIOUS
  <2> QED BY <1>4, <2>1
<1> DEFINE Fits(i) == SizeOf(ToSet(p[i - 1])) + TxSize[R[i]] <= max
    Good(n) == /\ p[n] \in Seq(by_txid)
               /\ ToSet(p[n]) = {R[i] : i \in {j \in 1 .. n : Fits(j)}}
    Done == {n \in Nat : n <= N => Good(n)}
<1>6. Good(0)
  <2>1. p[0] = <<>> /\ <<>> \in Seq(by_txid)
    BY <1>1, <1>2 DEF Entry
  <2>2. ToSet(<<>>) = {} /\ 1 .. 0 = {}
    BY DEF ToSet
  <2> QED BY <2>1, <2>2
<1>7. ASSUME NEW n \in Nat, n + 1 <= N, Good(n) PROVE Good(n + 1)
  <2>1. PICK acc, m : acc = p[n] /\ m = n + 1
    OBVIOUS
  <2>2. m \in 0 .. N /\ m # 0 /\ m - 1 = n /\ m \in 1 .. N /\ 1 .. m = (1 .. n) \cup {m}
    BY <1>1, <1>7, <2>1
  <2>3. p[m] = Pack(acc, R[m], max)
    BY <1>2, <1>3, <2>1, <2>2 DEF Entry
  <2>4. R[m] \in by_txid /\ acc \in Seq(by_txid)
    BY <1>4, <1>7, <2>1, <2>2
  <2>5. Fits(m) <=> SizeOf(ToSet(acc)) + TxSize[R[m]] <= max
    BY <2>1, <2>2
  <2>6. CASE Fits(m)
    <3>1. p[m] = Append(acc, R[m])
      BY <2>3, <2>4, <2>5, <2>6 DEF Pack
    <3>2. p[m] \in Seq(by_txid) /\ ToSet(p[m]) = ToSet(acc) \cup {R[m]}
      BY <2>4, <3>1, SetOfAppend
    <3> HIDE DEF Fits
    <3>3. {j \in 1 .. m : Fits(j)} = {j \in 1 .. n : Fits(j)} \cup {m}
      BY <2>2, <2>6
    <3>4. ToSet(p[m]) = {R[i] : i \in {j \in 1 .. m : Fits(j)}}
      BY <1>7, <2>1, <3>2, <3>3
    <3> QED BY <2>1, <3>2, <3>4
  <2>7. CASE ~Fits(m)
    <3>1. p[m] = acc
      BY <2>3, <2>5, <2>7 DEF Pack
    <3> HIDE DEF Fits
    <3>2. {j \in 1 .. m : Fits(j)} = {j \in 1 .. n : Fits(j)}
      BY <2>2, <2>7
    <3> QED BY <1>7, <2>1, <2>4, <3>1, <3>2
  <2> QED BY <2>6, <2>7
<1>8. 0 \in Done /\ \A n \in Nat : n \in Done => n + 1 \in Done
  <2> HIDE DEF Good
  <2> QED BY <1>1, <1>6, <1>7
<1>9. \A n \in 0 .. N : Good(n)
  <2>1. Nat \subseteq Done
    <3> HIDE DEF Done
    <3> QED BY <1>8, SetInduction
  <2> HIDE DEF Good
  <2> QED BY <1>1, <2>1
<1> DEFINE chosen == ToSet(p[N])
<1>10. chosen = {R[i] : i \in {j \in 1 .. N : Fits(j)}}
  <2>1. Good(N)
    <3> HIDE DEF Good
    <3> QED BY <1>1, <1>9
  <2> QED BY <2>1
<1> HIDE DEF chosen
<1>11. ASSUME NEW t \in by_txid
       PROVE  t \in chosen <=> SizeOf({u \in chosen : beats(u, t)}) + TxSize[t] <= max
  <2>1. PICK i \in 1 .. N : t = R[i]
    BY <1>4
  <2>2. t \in chosen <=> Fits(i)
    <3> HIDE DEF Fits
    <3> QED BY <1>5, <1>10, <2>1
  <2>3. i - 1 \in 0 .. N /\ \A j \in 1 .. N : j < i <=> j \in 1 .. i - 1
    BY <1>1
  <2>4. ToSet(p[i - 1]) = {R[k] : k \in {j \in 1 .. i - 1 : Fits(j)}}
    BY <1>9, <2>3
  <2> HIDE DEF Fits
  <2>5. ASSUME NEW u \in chosen, beats(u, t) PROVE u \in ToSet(p[i - 1])
    <3>1. PICK k \in 1 .. N : Fits(k) /\ u = R[k]
      BY <1>10
    <3>2. k < i
      BY <1>4, <2>1, <2>5, <3>1
    <3> QED BY <2>3, <2>4, <3>1, <3>2
  <2>6. ASSUME NEW u \in ToSet(p[i - 1]) PROVE u \in chosen /\ beats(u, t)
    <3>1. PICK k \in 1 .. i - 1 : Fits(k) /\ u = R[k]
      BY <2>4
    <3>2. k \in 1 .. N /\ k < i
      BY <1>1, <3>1
    <3> QED BY <1>4, <1>10, <2>1, <3>1, <3>2
  <2>7. {u \in chosen : beats(u, t)} = ToSet(p[i - 1])
    BY <2>5, <2>6
  <2> QED BY <2>1, <2>2, <2>7 DEF Fits
<1> QED BY <1>2, <1>11 DEF chosen
-----------------------------------------------------------------------------
LEMMA PoolStep == PoolInv /\ [PoolNext]_poolVars => PoolInv'
<1> SUFFICES ASSUME PoolInv, [PoolNext]_poolVars PROVE PoolInv'
  OBVIOUS
<1>1. ASSUME NEW t \in Tx, NEW v, NEW tip, NEW mtp, insert(t, v, tip, mtp) PROVE PoolInv'
  BY <1>1, RegisterKeeps DEF insert, validate_for_mempool, AdmissibleShape
<1>2. ASSUME NEW t \in Tx, remove(t) PROVE PoolInv'
  <2>1. {t} \subseteq by_txid /\ Update({t}, {})
    BY <1>2 DEF remove
  <2> QED BY <2>1, RemovalKeeps
<1>3. ASSUME NEW b \in Block, process_committed_block(b) PROVE PoolInv'
  BY <1>3, BlockKeeps
<1>4. CASE UNCHANGED poolVars
  BY <1>4, PoolUnchanged
<1> QED BY <1>1, <1>2, <1>3, <1>4 DEF PoolNext

LEMMA CountStep == PoolInv /\ CountInv /\ [PoolNext]_poolVars => CountInv'
<1> SUFFICES ASSUME PoolInv, CountInv, [PoolNext]_poolVars PROVE CountInv'
  OBVIOUS
<1>1. ASSUME NEW t \in Tx, NEW v, NEW tip, NEW mtp, insert(t, v, tip, mtp) PROVE CountInv'
  BY <1>1, RegisterCounts DEF insert, validate_for_mempool, AdmissibleShape
<1>2. ASSUME NEW t \in Tx, remove(t) PROVE CountInv'
  <2>1. {t} \subseteq by_txid /\ Update({t}, {})
    BY <1>2 DEF remove
  <2> QED BY <2>1, RemovalCounts
<1>3. ASSUME NEW b \in Block, process_committed_block(b) PROVE CountInv'
  BY <1>3, BlockCounts
<1>4. CASE UNCHANGED poolVars
  BY <1>4, CountUnchanged
<1> QED BY <1>1, <1>2, <1>3, <1>4 DEF PoolNext

LEMMA CountInvariant == PoolSpec => [](PoolInv /\ CountInv)
<1>1. PoolInit => PoolInv /\ CountInv
  BY PoolInitial, CountInitial
<1>2. (PoolInv /\ CountInv) /\ [PoolNext]_poolVars => (PoolInv /\ CountInv)'
  BY PoolStep, CountStep
<1> QED BY <1>1, <1>2, PTL DEF PoolSpec

LEMMA PoolInvariant == PoolSpec => []PoolInv
  BY PoolInitial, PoolStep, PTL DEF PoolSpec

(* Through every insert, eviction, removal and block, the primary index,   *)
(* the fee index and the reservations of MempoolInner describe the same    *)
(* transactions; no two of them spend the same output.                     *)
THEOREM IndexesStayInAgreement == PoolSpec => []IndexesAgree
<1>1. PoolInv => IndexesAgree
  BY DEF PoolInv
<1> QED BY <1>1, PoolInvariant, PTL

(* The cleanup after a block evicts the confirmed and the conflicting      *)
(* transactions and no other, whatever was staged and in whatever order.   *)
THEOREM BlockCleanupIsExact == PoolSpec => BlockEvictsConflicts
<1>1. PoolInv => AllLeaveUnaffected
  BY BlockLeaves DEF AllLeaveUnaffected, LeavesUnaffected
<1>2. PoolInv /\ [PoolNext]_poolVars => [AllLeaveUnaffected]_poolVars
  BY <1>1
<1> QED BY <1>2, PoolInvariant, PTL DEF PoolSpec, BlockEvictsConflicts

(* An insertion into a full pool evicts the transaction of the lowest fee  *)
(* rank and only for a newcomer of a higher one.                           *)
THEOREM EvictionIsOfTheCheapest == PoolSpec => EvictsCheapest
<1>1. PoolInv /\ PoolNext => SwapsCheapest
  <2> SUFFICES ASSUME PoolInv, PoolNext PROVE SwapsCheapest
    OBVIOUS
  <2>1. ASSUME NEW S, Update(S, {}) PROVE SwapsCheapest
    BY <2>1 DEF Update, Rewrite, SwapsCheapest
  <2>2. ASSUME NEW t \in Tx, Register(t) PROVE SwapsCheapest
    <3>1. CASE Update({}, {t})
      BY <3>1 DEF Update, Rewrite, SwapsCheapest
    <3>2. ASSUME NEW victim \in by_fee_rate, Displaces(t, victim), Update({victim}, {t})
          PROVE  SwapsCheapest
      <4>1. by_fee_rate = by_txid
        BY DEF PoolInv, IndexesAgree
      <4>2. by_txid' = (by_txid \ {victim}) \cup {t}
        BY <3>2 DEF Update, Rewrite
      <4>3. CheaperThan(victim, t) /\ \A u \in by_txid \ {victim} : CheaperThan(victim, u)
        BY <3>2, <4>1 DEF Displaces, IsLowest, beats
      <4> QED BY <4>2, <4>3 DEF SwapsCheapest
    <3> QED BY <2>2, <3>1, <3>2 DEF Register
  <2> QED BY <2>1, <2>2 DEF PoolNext, insert, remove, process_committed_block
<1> QED BY <1>1, PoolInvariant, PTL DEF PoolSpec, EvictsCheapest

(* The indexes of MempoolInner and its byte counter keep their types.      *)
THEOREM PoolTypeCorrect == PoolSpec => []PoolTypeOK
<1>1. PoolInv /\ CountInv => PoolTypeOK
  BY PoolTyped
<1> QED BY <1>1, CountInvariant, PTL

(* total_bytes is the size of what is staged, through every insertion,     *)
(* eviction, removal and block: no saturating_sub ever saturates.          *)
THEOREM BytesAreExact == PoolSpec => []BytesExact
<1>1. CountInv => BytesExact
  BY DEF CountInv, BytesExact
<1> QED BY <1>1, CountInvariant, PTL

(* An insertion that does not evict leaves the pool within max_bytes.      *)
THEOREM GrowthIsBounded == PoolSpec => GrowsOnlyBelowCeiling
<1> DEFINE Grows == by_txid \subseteq by_txid' /\ by_txid # by_txid' => total_bytes' <= MaxBytes
<1>1. PoolInv /\ CountInv /\ PoolNext => Grows
  <2> SUFFICES ASSUME PoolInv, CountInv, PoolNext PROVE Grows
    OBVIOUS
  <2>1. ASSUME NEW S, Update(S, {}) PROVE Grows
    BY <2>1 DEF Update, Rewrite
  <2>2. ASSUME NEW t \in Tx, Register(t), TxIn[t] # <<>>,
               ToSet(TxIn[t]) \cap DOMAIN spent_outpoints = {}
        PROVE  Grows
    <3>1. CASE ~WouldOverflow(t) /\ Update({}, {t})
      <4>1. total_bytes' = SaturatingSub(total_bytes, 0) + TxSize[t]
        BY <3>1, SizeOfNone, SizeOfOne DEF Update, Rewrite
      <4>2. total_bytes \in Nat /\ TxSize[t] \in Nat /\ MaxBytes \in Nat
        BY PoolTyped, PoolAssumption DEF PoolTypeOK
      <4>3. ~(total_bytes + TxSize[t] > MaxBytes)
        BY <3>1 DEF WouldOverflow
      <4> QED BY <4>1, <4>2, <4>3 DEF SaturatingSub
    <3>2. ASSUME NEW victim \in by_fee_rate, Update({victim}, {t}) PROVE Grows
      <4>1. victim \in by_txid /\ t \notin by_txid
        BY <2>2, NewcomerIsNew DEF PoolInv, IndexesAgree
      <4>2. victim \notin by_txid'
        BY <3>2, <4>1 DEF Update, Rewrite
      <4> QED BY <4>1, <4>2
    <3> QED BY <2>2, <3>1, <3>2 DEF Register
  <2> HIDE DEF Grows
  <2> QED BY <2>1, <2>2 DEF PoolNext, insert, remove, process_committed_block,
                            validate_for_mempool, AdmissibleShape
<1>2. GrowsOnlyBelowCeiling <=> [][Grows]_poolVars
  BY DEF GrowsOnlyBelowCeiling
<1> HIDE DEF Grows
<1> QED BY <1>1, <1>2, CountInvariant, PTL DEF PoolSpec

(* insert only admits a transaction whose inputs its view knows.           *)
LEMMA FeeStep == FeeInv /\ PoolInv /\ [PoolNext]_poolVars => FeeInv'
<1> SUFFICES ASSUME FeeInv, PoolInv, [PoolNext]_poolVars, NEW t \in by_txid' PROVE Fee(t) \in Int
  BY DEF FeeInv, Fee, InputValue, OutputValue
<1>1. CASE t \in by_txid
  BY <1>1 DEF FeeInv
<1>2. CASE t \notin by_txid
  <2>1. \A S : Update(S, {}) => by_txid' \subseteq by_txid
    BY DEF Update, Rewrite
  <2>2. PICK n \in Tx, v \in Views, tip \in Tips, mtp \in Mtps : insert(n, v, tip, mtp)
    BY <1>2, <2>1 DEF PoolNext, poolVars, remove, process_committed_block
  <2>3. by_txid' \subseteq by_txid \cup {n}
    BY <2>2 DEF insert, Register, Update, Rewrite
  <2>4. \A i \in DOMAIN TxIn[n] : TxIn[n][i] \in DOMAIN v
    BY <2>2 DEF insert, validate_for_mempool, InputAdmissible
  <2>5. ToSet(TxIn[n]) \subseteq Outputs
    BY <2>4, EnvAssumption DEF ToSet
  <2>6. t = n
    BY <1>2, <2>3
  <2> QED BY <2>5, <2>6, FeeType
<1> QED BY <1>1, <1>2

(* The block template's transactions are the greedy choice by fee rate: a  *)
(* staged transaction is taken exactly when it fits beside the selected    *)
(* ones that outrank it, for every pool and every size limit.              *)
THEOREM SelectionIsGreedy == PoolSpec => []SelectionGreedy
<1>1. PoolInit => FeeInv
  BY DEF PoolInit, FeeInv
<1>2. PoolInv /\ CountInv /\ FeeInv => SelectionGreedy
  BY PackingGreedy DEF SelectionGreedy
<1>3. FeeInv /\ PoolInv /\ [PoolNext]_poolVars => FeeInv'
  BY FeeStep
<1> QED BY <1>1, <1>2, <1>3, CountInvariant, PTL DEF PoolSpec
=============================================================================
