------------------------------ MODULE Mempool ------------------------------
(***************************************************************************)
(* MempoolInner (aurion-node): the staging area for unconfirmed            *)
(* transactions, with its three indexes and its byte counter, and the six  *)
(* admission gates of validate_for_mempool.                                *)
(*                                                                         *)
(* A mempool entry is a function of its transaction (txid, size and fee    *)
(* are computed from it; the admission timestamp is never read), so the    *)
(* indexes are sets of transactions here.                                  *)
(***************************************************************************)
EXTENDS Chain

CONSTANTS
    TxSize,        \* TxSize[t]: bytes of the canonical encoding
    TxRank,        \* TxRank[t]: place of the txid in byte order
    Sequence,      \* Sequence[t][i]: what input i's sequence number says, as
                   \* [final, disabled, delay]: equal to 0xFFFFFFFF, bit 31
                   \* set, the low 16 bits
    Locktime,      \* Locktime[t]
    LocktimeThreshold, \* LOCKTIME_THRESHOLD_UNIX
    MaxTxSize,     \* MAX_TX_SIZE_BYTES
    MinFeePerByte, \* MIN_FEE_PER_BYTE_AUR
    MaxBytes       \* max_bytes, the pool's capacity

ASSUME PoolAssumption ==
    /\ TxSize \in [Tx -> Nat \ {0}]
    /\ TxRank \in [Tx -> Nat]
    /\ \A t, u \in Tx : TxRank[t] = TxRank[u] => t = u
    /\ Locktime \in [Tx -> Nat]
    /\ \A t \in Tx : Sequence[t] \in
           [DOMAIN TxIn[t] -> [final : BOOLEAN, disabled : BOOLEAN, delay : Nat]]
    /\ {LocktimeThreshold, MaxTxSize, MinFeePerByte, MaxBytes} \subseteq Nat

VARIABLES
    by_txid,         \* the primary index: the staged transactions
    by_fee_rate,     \* the index ordered by fee rate
    spent_outpoints, \* outpoint -> the transaction that reserved it
    total_bytes      \* accumulated size

poolVars == <<by_txid, by_fee_rate, spent_outpoints, total_bytes>>
-----------------------------------------------------------------------------
(* A UtxoView maps the outpoints it knows to what the gates read of them.  *)
Utxo == [creation_height : Nat, is_coinbase : BOOLEAN]

(* The fee, for a transaction that conserves value.                        *)
Fee(t) == InputValue(t) - OutputValue(t)

(* FeeRateIndex::cmp: fee / size compared by cross multiplication, then    *)
(* the txid. (wide_mul_u128 is exact.)                                     *)
CheaperThan(t, u) ==
    LET lhs == Fee(t) * TxSize[u]
        rhs == Fee(u) * TxSize[t]
    IN  lhs < rhs \/ (lhs = rhs /\ TxRank[t] < TxRank[u])

beats(t, u) == CheaperThan(u, t)

(* Mutant: the index is read from the wrong end.                           *)
IsLowest_reversed(t, S) == t \in S /\ \A u \in S \ {t} : CheaperThan(u, t)

(* t is the first element of the ordered index S.                          *)
IsLowest(t, S) == t \in S /\ \A u \in S \ {t} : CheaperThan(t, u)
-----------------------------------------------------------------------------
(* aurion-eutxo: locktime.rs and maturity.rs                               *)
verify_transaction_locktime(t, height, mtp) ==
    \/ \A i \in DOMAIN TxIn[t] : Sequence[t][i].final
    \/ Locktime[t] = 0
    \/ IF Locktime[t] < LocktimeThreshold
       THEN height >= Locktime[t]
       ELSE mtp >= Locktime[t]

verify_relative_sequence(sequence, utxo, height) ==
    sequence.disabled \/ height >= utxo.creation_height + sequence.delay
                      \/ sequence.delay = 0

verify_coinbase_maturity(utxo, height) ==
    utxo.is_coinbase =>
        /\ utxo.creation_height + CoinbaseMaturity <= MaxHeight
        /\ height >= utxo.creation_height + CoinbaseMaturity

(* The gates of validate_for_mempool that need no ledger: size and shape,  *)
(* coinbase, conflict with a staged transaction, locktime.                 *)
AdmissibleShape(t, reserved, tip, mtp) ==
    /\ TxSize[t] <= MaxTxSize
    /\ TxIn[t] # <<>> /\ TxOut[t] # <<>>
    /\ ~is_coinbase(t)
    /\ ToSet(TxIn[t]) \cap reserved = {}
    /\ tip < MaxHeight
    /\ verify_transaction_locktime(t, tip + 1, mtp)

(* The per-input gates: the output is known, mature and old enough.        *)
InputAdmissible(t, i, view, height) ==
    LET op == TxIn[t][i]
    IN  /\ op \in DOMAIN view
        /\ verify_coinbase_maturity(view[op], height)
        /\ verify_relative_sequence(Sequence[t][i], view[op], height)

(* Value conservation, contracts and the fee policy.                       *)
PaysItsWay(t, height) ==
    /\ ConservesValue(t, height)
    /\ Fee(t) >= TxSize[t] * MinFeePerByte

validate_for_mempool(t, view, reserved, tip, mtp) ==
    /\ AdmissibleShape(t, reserved, tip, mtp)
    /\ \A i \in DOMAIN TxIn[t] : InputAdmissible(t, i, view, tip + 1)
    /\ PaysItsWay(t, tip + 1)
-----------------------------------------------------------------------------
SaturatingSub(a, b) == IF a >= b THEN a - b ELSE 0

SizeOf(S) == SumFunctionOnSet(TxSize, S)

Released(S) == UNION {ToSet(TxIn[t]) : t \in S}

(* The pool without the transactions S and with those of A, where kept are *)
(* the reservations that stay and bytes is the new count.                  *)
Rewrite(S, A, kept, bytes) ==
    /\ by_txid' = (by_txid \ S) \cup A
    /\ by_fee_rate' = (by_fee_rate \ S) \cup A
    /\ spent_outpoints' =
           [op \in kept \cup Released(A) |->
                IF op \in Released(A)
                THEN CHOOSE t \in A : op \in ToSet(TxIn[t])
                ELSE spent_outpoints[op]]
    /\ total_bytes' = bytes

(* Mutants: removal leaves the reservations; it leaves the byte counter;   *)
(* it subtracts the size twice, without saturating.                        *)
Update_leaks_reservations(S, A) ==
    Rewrite(S, A, DOMAIN spent_outpoints, SaturatingSub(total_bytes, SizeOf(S)) + SizeOf(A))

Update_forgets_bytes(S, A) ==
    Rewrite(S, A, DOMAIN spent_outpoints \ Released(S), total_bytes + SizeOf(A))

Update_subtracts_twice(S, A) ==
    Rewrite(S, A, DOMAIN spent_outpoints \ Released(S),
            total_bytes - 2 * SizeOf(S) + SizeOf(A))

(* Take the transactions S out of every index and register those of A.     *)
Update(S, A) ==
    Rewrite(S, A, DOMAIN spent_outpoints \ Released(S),
            SaturatingSub(total_bytes, SizeOf(S)) + SizeOf(A))

(* Mutant: the incoming transaction is not counted.                        *)
WouldOverflow_without_incoming(t) == total_bytes > MaxBytes

(* Capacity management of insert: at most one victim, the cheapest, and    *)
(* only if the newcomer beats it.                                          *)
WouldOverflow(t) == total_bytes + TxSize[t] > MaxBytes

Displaces(t, victim) == IsLowest(victim, by_fee_rate) /\ beats(t, victim)

EvictionPossible(t) == \E victim \in by_fee_rate : Displaces(t, victim)

Register(t) ==
    \/ /\ ~WouldOverflow(t)
       /\ Update({}, {t})
    \/ /\ WouldOverflow(t)
       /\ \E victim \in by_fee_rate : Displaces(t, victim) /\ Update({victim}, {t})

(* MempoolInner::insert. A refused transaction changes nothing.            *)
insert(t, view, tip, mtp) ==
    /\ validate_for_mempool(t, view, DOMAIN spent_outpoints, tip, mtp)
    /\ Register(t)

(* MempoolInner::remove                                                    *)
remove(t) ==
    /\ t \in by_txid
    /\ Update({t}, {})

(* Mutant: only the confirmed transactions are evicted.                    *)
process_committed_block_no_conflicts(b) == Update(by_txid \cap ToSet(Body[b]), {})

(* MempoolInner::process_committed_block: the confirmed transactions go    *)
(* first, then whoever still reserves an output the block consumed.        *)
process_committed_block(b) ==
    LET confirmed == by_txid \cap ToSet(Body[b])
        consumed == Released(ToSet(Body[b]))
        conflicting == {spent_outpoints[op] :
                            op \in consumed \cap (DOMAIN spent_outpoints \ Released(confirmed))}
    IN  Update(confirmed \cup (conflicting \cap by_txid), {})

(* The fee index S read from the highest rate down.                        *)
Place(t, S) == Cardinality({u \in S : beats(u, t)})

Ranked(S) == [i \in 1 .. Cardinality(S) |-> CHOOSE t \in S : Place(t, S) = i - 1]

(* Mutant: the selection stops at the first one that does not fit.         *)
select_transactions_for_block_stops(max_block_bytes) ==
    LET ordered == Ranked(by_fee_rate)
        fits(n) == SizeOf({ordered[i] : i \in 1 .. n}) <= max_block_bytes
    IN  SubSeq(ordered, 1, CHOOSE n \in 0 .. Len(ordered) :
                               fits(n) /\ \A m \in n + 1 .. Len(ordered) : ~fits(m))

(* What the loop does with one entry of the index.                         *)
Pack(acc, t, max_block_bytes) ==
    IF t \in by_txid /\ SizeOf(ToSet(acc)) + TxSize[t] <= max_block_bytes
    THEN Append(acc, t)
    ELSE acc

(* MempoolInner::select_transactions_for_block: from the highest fee rate  *)
(* down, skipping what does not fit.                                       *)
select_transactions_for_block(max_block_bytes) ==
    LET ordered == Ranked(by_fee_rate)
        packed[n \in 0 .. Cardinality(by_fee_rate)] ==
            IF n = 0 THEN <<>> ELSE Pack(packed[n - 1], ordered[n], max_block_bytes)
    IN  packed[Cardinality(by_fee_rate)]
-----------------------------------------------------------------------------
PoolInit ==
    /\ by_txid = {}
    /\ by_fee_rate = {}
    /\ spent_outpoints = [op \in {} |-> ZeroHash]
    /\ total_bytes = 0
-----------------------------------------------------------------------------
(* The indexes hold transactions, the reservations name transactions.      *)
PoolTypeOK ==
    /\ by_txid \subseteq Tx
    /\ by_fee_rate \subseteq Tx
    /\ spent_outpoints \in [DOMAIN spent_outpoints -> Tx]
    /\ total_bytes \in Nat

(***************************************************************************)
(* The three indexes describe the same transactions, through every insert, *)
(* eviction, removal and block: the fee index lists exactly the staged     *)
(* transactions, and an outpoint is reserved exactly by the staged         *)
(* transaction that spends it. So no two staged transactions spend the     *)
(* same output.                                                            *)
(***************************************************************************)
IndexesAgree ==
    /\ by_fee_rate = by_txid
    /\ DOMAIN spent_outpoints = Released(by_txid)
    /\ \A t \in by_txid : \A op \in ToSet(TxIn[t]) : spent_outpoints[op] = t
=============================================================================
