---------------------------- MODULE MempoolSpec ----------------------------
(***************************************************************************)
(* The mempool on its own: its operations called in any order, with any    *)
(* UTXO view, tip and median time the caller may pass. Whatever is shown   *)
(* here holds whatever the ledger does.                                    *)
(***************************************************************************)
EXTENDS Mempool

CONSTANTS
    Views,     \* the UTXO views an insert may be given
    Tips,      \* the tip heights it may be given
    Mtps,      \* the median times past it may be given
    BlockBytes \* the size limits select_transactions_for_block is given

(* A view knows outputs of transactions, and no others.                    *)
ASSUME EnvAssumption ==
    /\ \A v \in Views : v \in [DOMAIN v -> Utxo] /\ DOMAIN v \subseteq Outputs
    /\ Tips \cup Mtps \cup BlockBytes \subseteq Nat

PoolNext ==
    \/ \E t \in Tx, v \in Views, tip \in Tips, mtp \in Mtps : insert(t, v, tip, mtp)
    \/ \E t \in Tx : remove(t)
    \/ \E b \in Block : process_committed_block(b)

PoolSpec == PoolInit /\ [][PoolNext]_poolVars
-----------------------------------------------------------------------------
(* total_bytes is the size of what is staged: the saturating subtractions  *)
(* never saturate and no removal path forgets the counter.                 *)
BytesExact == total_bytes = SizeOf(by_txid)

(* The transactions that a step which is b's cleanup leaves staged are     *)
(* those that spend nothing b spends.                                      *)
LeavesUnaffected(b) ==
    process_committed_block(b) =>
        by_txid' = {t \in by_txid : ToSet(TxIn[t]) \cap Released(ToSet(Body[b])) = {}}

AllLeaveUnaffected == \A b \in Block : LeavesUnaffected(b)

(* After process_committed_block nothing staged spends what the block      *)
(* spent, and nothing else was dropped.                                    *)
BlockEvictsConflicts == [][AllLeaveUnaffected]_poolVars

(* In a step that swaps t for n, t was the cheapest and n outranks it.     *)
SwapsCheapest ==
    \A t \in by_txid \ by_txid' : \A n \in by_txid' \ by_txid :
        /\ \A u \in by_txid \ {t} : CheaperThan(t, u)
        /\ CheaperThan(t, n)

(* A transaction that makes room for another was the cheapest one staged,  *)
(* and the newcomer outranks it: replacing raises the lowest rank.         *)
EvictsCheapest == [][SwapsCheapest]_poolVars

(* What the capacity check does guarantee: the pool never grows in number  *)
(* past max_bytes; above it an insertion only replaces.                    *)
GrowsOnlyBelowCeiling ==
    [][by_txid \subseteq by_txid' /\ by_txid # by_txid' => total_bytes' <= MaxBytes]_poolVars

(* The selection is the greedy one: a staged transaction is taken exactly  *)
(* when it fits beside the selected ones that outrank it. In particular    *)
(* the limit is kept and nothing that still fits is left out.              *)
SelectionGreedy ==
    \A max \in BlockBytes :
        LET chosen == ToSet(select_transactions_for_block(max))
        IN  \A t \in by_txid :
                t \in chosen <=>
                    SizeOf({u \in chosen : beats(u, t)}) + TxSize[t] <= max
=============================================================================
