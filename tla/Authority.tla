----------------------------- MODULE Authority -----------------------------
(***************************************************************************)
(* AuthorityEngine (aurion-node) over StorageEngine (aurion-storage): the  *)
(* pipeline that validates a block against the stored tip and UTXO set and *)
(* commits it in one redb write transaction.                               *)
(*                                                                         *)
(* process_and_commit_block takes &self and holds no lock from one storage *)
(* access to the next, and it is called from every RPC connection task and *)
(* from the gossip block listener, all on a multi-threaded runtime. So it  *)
(* is one action per storage access here, and each Worker is one caller.   *)
(***************************************************************************)
EXTENDS Chain

CONSTANTS
    Workers,       \* the tasks that call process_and_commit_block
    StorageFaults  \* whether redb may return an error in this instance

ASSUME FaultAssumption == StorageFaults \in BOOLEAN

VARIABLES
    state,            \* AuthorityEngine.state (the fault inside Failed is left out)
    canonical_blocks, \* BLOCKS_TABLE: the hashes that have a block
    height_to_hash,   \* HEIGHT_INDEX
    canonical_utxos,  \* UTXO_TABLE: the outpoints present (the value is a
                      \* function of the outpoint, see ValueOf)
    tip_height,       \* META_TABLE "tip_height", 0 when absent
    tip_hash,         \* META_TABLE "tip_hash", ZeroHash when absent
    pc,               \* where each worker stands in process_and_commit_block
    job,              \* the block each worker was called with
    cursor            \* the next input verify_block_invariants looks up

tables == <<canonical_blocks, height_to_hash, canonical_utxos, tip_height, tip_hash>>
locals == <<pc, job, cursor>>
authVars == <<state, tables, locals>>

(* After the tip was read: the rest of the pipeline relies on that read.   *)
InFlight(w) == pc[w] \in {"lookup", "commit"}
-----------------------------------------------------------------------------
(* StorageEngine::open on a new file: four empty tables. A new             *)
(* AuthorityEngine is Starting.                                            *)
AuthInit ==
    /\ state = "Starting"
    /\ canonical_blocks = {}
    /\ height_to_hash = [h \in {} |-> ZeroHash]
    /\ canonical_utxos = {}
    /\ tip_height = 0
    /\ tip_hash = ZeroHash
    /\ pc = [w \in Workers |-> "idle"]
    /\ job = [w \in Workers |-> Genesis]
    /\ cursor = [w \in Workers |-> 1]

(* One write transaction over the four tables, so all or nothing.          *)
write_tables(b, index, unspent, height) ==
    /\ canonical_blocks' = canonical_blocks \cup {b}
    /\ height_to_hash' = index
    /\ canonical_utxos' = unspent
    /\ tip_height' = height
    /\ tip_hash' = b

(* The height index with b at its height.                                  *)
Indexed(b) ==
    [h \in DOMAIN height_to_hash \cup {Header[b].height} |->
        IF h = Header[b].height THEN b ELSE height_to_hash[h]]

(* Mutants: the spent outputs stay; the metadata is one height behind; the *)
(* first block of a height keeps its place in the index.                   *)
commit_block_keeps_spent(b, spent_inputs) ==
    write_tables(b, Indexed(b), canonical_utxos \cup Created(b), Header[b].height)

commit_block_height_behind(b, spent_inputs) ==
    write_tables(b, Indexed(b), (canonical_utxos \ spent_inputs) \cup Created(b),
                 Header[b].height - 1)

commit_block_keeps_index(b, spent_inputs) ==
    write_tables(b, height_to_hash @@ Indexed(b),
                 (canonical_utxos \ spent_inputs) \cup Created(b), Header[b].height)

(* StorageEngine::commit_block                                             *)
commit_block(b, spent_inputs) ==
    write_tables(b, Indexed(b), (canonical_utxos \ spent_inputs) \cup Created(b),
                 Header[b].height)

(* StorageEngine::get_tip is None until both metadata keys are there.      *)
HasTip == tip_hash # ZeroHash
-----------------------------------------------------------------------------
(* initialize_genesis, called once at boot before any task is spawned. Its *)
(* steps are kept apart because the process may die between them.          *)
BeginRecovery ==
    /\ state = "Starting"
    /\ state' = "Recovering"
    /\ UNCHANGED <<tables, locals>>

CommitGenesis ==
    /\ state = "Recovering"
    /\ ~HasTip
    /\ commit_block(Genesis, {})
    /\ UNCHANGED <<state, locals>>

FinishRecovery ==
    /\ state = "Recovering"
    /\ HasTip
    /\ state' = "Running"
    /\ UNCHANGED <<tables, locals>>

(* The process ends (a crash, Ctrl-C, or the operator restarting a failed  *)
(* or unbootable node) and is started again on the same database.          *)
Restart ==
    /\ state # "Starting"
    /\ state' = "Starting"
    /\ pc' = [w \in Workers |-> "idle"]
    /\ job' = [w \in Workers |-> Genesis]
    /\ cursor' = [w \in Workers |-> 1]
    /\ UNCHANGED tables

fail_stop == state' = "Failed"

(* The call returns; its locals are gone (reset to their initial values).  *)
Return(w) ==
    /\ pc' = [pc EXCEPT ![w] = "idle"]
    /\ job' = [job EXCEPT ![w] = Genesis]
    /\ cursor' = [cursor EXCEPT ![w] = 1]
-----------------------------------------------------------------------------
(* process_and_commit_block(b) called by w: enforce_operational. A call on *)
(* a node that is not Running returns NodeHalted and changes nothing.      *)
EnforceOperational(w, b) ==
    /\ pc[w] = "idle"
    /\ state = "Running"
    /\ pc' = [pc EXCEPT ![w] = "tip"]
    /\ job' = [job EXCEPT ![w] = b]
    /\ UNCHANGED <<state, tables, cursor>>

(* Mutants: the parent is not compared with the tip; a rival of the tip is *)
(* accepted too.                                                           *)
ExtendsTip_any_parent(b) ==
    /\ tip_height < MaxHeight
    /\ verify_block_structure(b, tip_height + 1)

ExtendsTip_or_rivals(b) ==
    \/ /\ tip_height < MaxHeight
       /\ Header[b].prev = tip_hash
       /\ verify_block_structure(b, tip_height + 1)
    \/ /\ tip_height > 0
       /\ Header[b].prev = Header[tip_hash].prev
       /\ verify_block_structure(b, tip_height)

(* Parent linkage and structure, against the tip just read.                *)
ExtendsTip(b) ==
    LET expected_height == IF HasTip THEN tip_height + 1 ELSE 0
    IN  /\ expected_height <= MaxHeight
        /\ Header[b].prev = tip_hash
        /\ verify_block_structure(b, expected_height)

ReadTip(w) ==
    /\ pc[w] = "tip"
    /\ ExtendsTip(job[w])
    /\ pc' = [pc EXCEPT ![w] = "lookup"]
    /\ UNCHANGED <<state, tables, job, cursor>>

RejectAtTip(w) ==
    /\ pc[w] = "tip"
    /\ ~ExtendsTip(job[w])
    /\ Return(w)
    /\ UNCHANGED <<state, tables>>

(* get_tip returned an error.                                              *)
TipUnreadable(w) ==
    /\ StorageFaults
    /\ pc[w] = "tip"
    /\ fail_stop
    /\ Return(w)
    /\ UNCHANGED tables

(* One get_utxo, in a read transaction of its own.                         *)
LookupUtxo(w) ==
    LET inputs == InputsOf(job[w])
    IN  /\ pc[w] = "lookup"
        /\ cursor[w] <= Len(inputs)
        /\ ~SpentEarlier(job[w], cursor[w])
        /\ inputs[cursor[w]] \in canonical_utxos
        /\ cursor' = [cursor EXCEPT ![w] = @ + 1]
        /\ UNCHANGED <<state, tables, pc, job>>

(* DuplicateInputSpend or MissingUtxo. A read error is taken for a missing *)
(* output: get_utxo(op).unwrap_or(None).                                   *)
RejectInput(w) ==
    LET inputs == InputsOf(job[w])
    IN  /\ pc[w] = "lookup"
        /\ cursor[w] <= Len(inputs)
        /\ \/ SpentEarlier(job[w], cursor[w])
           \/ inputs[cursor[w]] \notin canonical_utxos
           \/ StorageFaults
        /\ Return(w)
        /\ UNCHANGED <<state, tables>>

(* The sums and the contracts depend on nothing but the block, so they are *)
(* one step after the last lookup.                                         *)
InputsFound(w) == pc[w] = "lookup" /\ cursor[w] > Len(InputsOf(job[w]))

(* Mutant: the verdict on the transactions is ignored.                     *)
VerifyInvariants_ignored(w) ==
    /\ InputsFound(w)
    /\ pc' = [pc EXCEPT ![w] = "commit"]
    /\ UNCHANGED <<state, tables, job, cursor>>

VerifyInvariants(w) ==
    /\ InputsFound(w)
    /\ ValidTransactions(job[w])
    /\ pc' = [pc EXCEPT ![w] = "commit"]
    /\ UNCHANGED <<state, tables, job, cursor>>

RejectInvariants(w) ==
    /\ InputsFound(w)
    /\ ~ValidTransactions(job[w])
    /\ Return(w)
    /\ UNCHANGED <<state, tables>>

(* Mutants: only the first spent input is handed to storage; a commit that *)
(* goes through puts a failed node back to work.                           *)
CommitBlock_recovers(w) ==
    /\ pc[w] = "commit"
    /\ commit_block(job[w], Spends(job[w]))
    /\ state' = "Running"
    /\ pc' = [pc EXCEPT ![w] = "accepted"]
    /\ UNCHANGED <<job, cursor>>

CommitBlock_first_input(w) ==
    /\ pc[w] = "commit"
    /\ commit_block(job[w], IF Spends(job[w]) = {} THEN {} ELSE {InputsOf(job[w])[1]})
    /\ pc' = [pc EXCEPT ![w] = "accepted"]
    /\ UNCHANGED <<state, job, cursor>>

CommitBlock(w) ==
    /\ pc[w] = "commit"
    /\ commit_block(job[w], Spends(job[w]))
    /\ pc' = [pc EXCEPT ![w] = "accepted"]
    /\ UNCHANGED <<state, job, cursor>>

(* commit_block returned an error: redb wrote nothing.                     *)
CommitFails(w) ==
    /\ StorageFaults
    /\ pc[w] = "commit"
    /\ fail_stop
    /\ Return(w)
    /\ UNCHANGED tables

(* Ok(()) reaches the caller.                                              *)
ReturnAccepted(w) ==
    /\ pc[w] = "accepted"
    /\ Return(w)
    /\ UNCHANGED <<state, tables>>
-----------------------------------------------------------------------------
(* initialize_genesis                                                      *)
Boot == BeginRecovery \/ CommitGenesis \/ FinishRecovery

(* The steps of process_and_commit_block after its operational guard.      *)
Pipeline(w) ==
    \/ ReadTip(w) \/ RejectAtTip(w) \/ TipUnreadable(w)
    \/ LookupUtxo(w) \/ RejectInput(w)
    \/ VerifyInvariants(w) \/ RejectInvariants(w)
    \/ CommitBlock(w) \/ CommitFails(w)

AuthNext ==
    \/ Boot
    \/ Restart
    \/ \E w \in Workers :
           \/ \E b \in Block : EnforceOperational(w, b)
           \/ Pipeline(w)
           \/ ReturnAccepted(w)

AuthSpec == AuthInit /\ [][AuthNext]_authVars

(* The behaviours in which no two calls overlap between the tip read and   *)
(* the commit. The engine does not enforce this: it is what its callers    *)
(* would have to ensure (as a node with a single client does).             *)
NoOverlap == \A v, w \in Workers : InFlight(v) /\ InFlight(w) => v = w

SerialSpec == AuthInit /\ [][AuthNext /\ NoOverlap']_authVars
-----------------------------------------------------------------------------
(* Every variable has the type of the field or table it models.            *)
AuthTypeOK ==
    /\ state \in {"Starting", "Recovering", "Running", "Failed"}
    /\ canonical_blocks \subseteq Block
    /\ DOMAIN height_to_hash \subseteq Nat
    /\ height_to_hash \in [DOMAIN height_to_hash -> Block]
    /\ canonical_utxos \subseteq Tx \X Nat
    /\ tip_height \in Nat
    /\ tip_hash \in Block \cup {ZeroHash}
    /\ pc \in [Workers -> {"idle", "tip", "lookup", "commit", "accepted"}]
    /\ job \in [Workers -> Block]
    /\ cursor \in [Workers -> Nat]

(***************************************************************************)
(* However many callers interleave, and wherever the process dies, the     *)
(* blocks table is a tree: the parent of every stored block was committed  *)
(* before it, one height below (process_and_commit_block, parent and       *)
(* height checks).                                                         *)
(***************************************************************************)
StoredTree ==
    \A b \in canonical_blocks \ {Genesis} :
        /\ Header[b].prev \in canonical_blocks
        /\ Header[b].height = Header[Header[b].prev].height + 1

(***************************************************************************)
(* The four tables never contradict one another (commit_block writes them  *)
(* in one transaction): the height index has no gap and leads to stored    *)
(* blocks of that height, the tip is the indexed block of its height, and  *)
(* every unspent output was created by a stored block.                     *)
(***************************************************************************)
TablesAgree ==
    /\ HasTip => /\ tip_height \in DOMAIN height_to_hash
                 /\ height_to_hash[tip_height] = tip_hash
    /\ canonical_blocks # {} => HasTip
    /\ \A h \in DOMAIN height_to_hash :
           /\ height_to_hash[h] \in canonical_blocks
           /\ Header[height_to_hash[h]].height = h
           /\ 0 .. h \subseteq DOMAIN height_to_hash
    /\ canonical_utxos \subseteq UNION {Created(b) : b \in canonical_blocks}

(***************************************************************************)
(* SPEC-03: height_to_hash is the canonical chain. Its blocks run from     *)
(* genesis to the tip, each the parent of the next, and no other block was *)
(* ever committed.                                                         *)
(***************************************************************************)
ChainLinked ==
    /\ DOMAIN height_to_hash = IF HasTip THEN 0 .. tip_height ELSE {}
    /\ \A h \in DOMAIN height_to_hash \ {0} :
           Header[height_to_hash[h]].prev = height_to_hash[h - 1]
    /\ \A b \in canonical_blocks : \E h \in DOMAIN height_to_hash : b = height_to_hash[h]

(***************************************************************************)
(* The outpoints unspent just below height h when the blocks of a height   *)
(* index are replayed from genesis: created by a block below h, and        *)
(* consumed by no block after it. A block may create an outpoint again     *)
(* (nothing makes a coinbase differ from an earlier one): then the last    *)
(* creation counts.                                                        *)
(***************************************************************************)
Replay(index, h) ==
    {op \in UNION {Created(index[k]) : k \in DOMAIN index} :
        \E k \in DOMAIN index :
            /\ k < h
            /\ op \in Created(index[k])
            /\ \A i \in DOMAIN index : k < i /\ i < h => op \notin Spends(index[i])}

(***************************************************************************)
(* SPEC-02: what a committed block consumes was there to be consumed.      *)
(* Every output it takes was created by a block below it on the same       *)
(* chain and has not been taken since, so a second spend of an output      *)
(* needs a second creation of it (the lookups of verify_block_invariants   *)
(* and the removals of commit_block, block after block).                   *)
(***************************************************************************)
SpendsBacked ==
    \A h \in DOMAIN height_to_hash : Spends(height_to_hash[h]) \subseteq Replay(height_to_hash, h)

(* SPEC-03: canonical_utxos is exactly what a replay of the stored chain   *)
(* leaves unspent, repeated creations included (commit_block).             *)
UtxoExact == canonical_utxos = Replay(height_to_hash, tip_height + 1)

(* No coin appears beyond the schedule: what is unspent is at most the     *)
(* premine and the subsidies of the heights reached (coinbase limit and    *)
(* value conservation, block after block).                                 *)
SupplyBounded ==
    SumFunction([op \in canonical_utxos |-> ValueOf(op)])
        <= Premine + SumFunction([h \in 1 .. tip_height |-> calculate_block_subsidy(h)])

(* A step after which every height still has the block it had.            *)
KeepsHistory ==
    \A h \in DOMAIN height_to_hash :
        h \in DOMAIN height_to_hash' /\ height_to_hash'[h] = height_to_hash[h]

(* Committed history is final: the pipeline only adds a block above the    *)
(* tip, and never replaces one (there is no reorganisation in this node).  *)
AppendOnly == [][KeepsHistory]_authVars

(* The tables, read as the chain they index, are the ledger of module      *)
(* Ledger: each commit is one Extend of it, and nothing else changes it.   *)
CanonicalChain ==
    [i \in 1 .. (IF HasTip THEN tip_height + 1 ELSE 0) |-> height_to_hash[i - 1]]

Parent(b) == Header[b].prev

Acceptable(b, height) ==
    /\ height <= MaxHeight
    /\ verify_block_structure(b, height)
    /\ \A k \in DOMAIN InputsOf(b) : ~SpentEarlier(b, k)
    /\ ValidTransactions(b)

Abstract == INSTANCE Ledger WITH chain <- CanonicalChain, unspent <- canonical_utxos

(* Without overlapping calls the pipeline implements the abstract ledger,  *)
(* across storage errors and restarts.                                     *)
ImplementsLedger == Abstract!LedgerSpec

(* The calls that may still commit: admitted and not yet decided.          *)
Unfinished == {w \in Workers : pc[w] \in {"tip", "lookup", "commit"}}

(* The tables after one of the calls that are over with this step stored   *)
(* its block.                                                              *)
StoredByACall ==
    \E w \in Unfinished \ Unfinished' :
        /\ tip_hash' = job[w]
        /\ canonical_blocks' = canonical_blocks \cup {job[w]}

(***************************************************************************)
(* What a failure still lets through. The engine checks its state only     *)
(* when a call begins, so calls already past the check go on; but they are *)
(* a bounded rest. Until the process restarts the node stays failed, no    *)
(* call joins those unfinished or changes its block, and a write to the    *)
(* tables stores the block of a call that is then over: after the failure  *)
(* at most one block per call that was running (fail_stop,                 *)
(* enforce_operational and the commit).                                    *)
(***************************************************************************)
FailureContained ==
    [][state = "Failed" =>
           /\ state' \in {"Failed", "Starting"}
           /\ Unfinished' \subseteq Unfinished
           /\ \A w \in Unfinished' : job'[w] = job[w]
           /\ UNCHANGED tables \/ StoredByACall]_authVars

(***************************************************************************)
(* Statements of the documents that the code does not keep; each has a run *)
(* that shows how.                                                         *)
(***************************************************************************)
(* SPEC-01: in the Failed state all mutation operations are locked.        *)
FailStopLocks == [][state = "Failed" => UNCHANGED tables]_authVars

(* SPEC-02: each outpoint is spent once. No two committed blocks spent the *)
(* same outpoint.                                                          *)
SpentOnce ==
    \A a, b \in canonical_blocks :
        a # b => Spends(a) \cap Spends(b) = {}

(* SPEC-02: a coinbase output is not spent before it is mature.            *)
CoinbaseMature ==
    \A a, b \in canonical_blocks : \A t \in ToSet(Body[a]) :
        is_coinbase(t) /\ OutputsOf(t) \cap Spends(b) # {}
            => Header[b].height >= Header[a].height + CoinbaseMaturity
=============================================================================
