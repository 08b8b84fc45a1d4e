-------------------------------- MODULE Node --------------------------------
(***************************************************************************)
(* The running node (bin/aurion): the RPC handlers and the gossip          *)
(* listeners around the authority, the storage and the mempool.            *)
(*                                                                         *)
(* Workers are the tasks that submit blocks (an RPC connection, or the     *)
(* block listener), TxTasks those that submit transactions (an RPC         *)
(* connection, or the transaction listener), Miners the connections that   *)
(* ask for templates. They share the mempool through a tokio RwLock; the   *)
(* authority commits without holding it, so the pool and the ledger are    *)
(* out of step between a commit and the cleanup that follows it.           *)
(***************************************************************************)
EXTENDS Authority, Mempool

CONSTANTS
    TxTasks,
    Miners,
    Timestamp,        \* Timestamp[b]: header.timestamp
    GenesisTimestamp, \* GENESIS_TIMESTAMP
    MtpWindow,        \* MTP_WINDOW_BLOCKS
    MaxBlockPayload   \* MAX_BLOCK_PAYLOAD_BYTES

ASSUME NodeAssumption ==
    /\ Timestamp \in [Block -> Nat]
    /\ MtpWindow \in Nat \ {0}
    /\ {GenesisTimestamp, MaxBlockPayload} \subseteq Nat

VARIABLES
    call,    \* call[k]: what task k is doing with a transaction
    request  \* request[m]: what m's template request has reached

taskVars == <<call, request>>
nodeVars == <<authVars, poolVars, taskVars>>

(* call[k].at is "idle", "waiting" for the pool's write lock, or "lookup": *)
(* inside insert, holding it. height and mtp were read before the lock was *)
(* asked for.                                                              *)
NoCall == [at |-> "idle", tx |-> ZeroHash, height |-> 0, mtp |-> 0, input |-> 1]

(* request[m].at is "idle", "tip" once the tip was read, or "built".       *)
NoRequest == [at |-> "idle", prev |-> ZeroHash, height |-> 0, txs |-> <<>>]

(* Only insert holds the pool's lock across other steps.                   *)
LockFree == \A k \in TxTasks : call[k].at # "lookup"

(* The tasks are spawned once initialize_genesis has returned; a failed    *)
(* authority does not stop them.                                           *)
Serving == state \in {"Running", "Failed"}
-----------------------------------------------------------------------------
(* samples.sort_unstable(); samples[len / 2]: at most len / 2 samples lie  *)
(* below it, and more than len / 2 do not lie above it.                    *)
Median(samples) ==
    CHOOSE x \in ToSet(samples) :
        /\ Cardinality({i \in DOMAIN samples : samples[i] < x}) <= Len(samples) \div 2
        /\ Cardinality({i \in DOMAIN samples : samples[i] <= x}) > Len(samples) \div 2

(* rpc_handler::median_time_past: the timestamps of at most MtpWindow      *)
(* blocks, walking the height index down from the tip.                     *)
median_time_past ==
    LET count == IF tip_height + 1 < MtpWindow THEN tip_height + 1 ELSE MtpWindow
        samples == [i \in 1 .. count |-> Timestamp[height_to_hash[tip_height - (i - 1)]]]
    IN  IF tip_hash \in canonical_blocks
        THEN Median(samples)
        ELSE GenesisTimestamp

(* utxo_view: the stored output says neither when it was created nor       *)
(* whether a coinbase created it, so the view says height 0 and no.        *)
utxo_view == [op \in canonical_utxos |-> [creation_height |-> 0, is_coinbase |-> FALSE]]
-----------------------------------------------------------------------------
NodeInit ==
    /\ AuthInit
    /\ PoolInit
    /\ call = [k \in TxTasks |-> NoCall]
    /\ request = [m \in Miners |-> NoRequest]

(* A restarted process has an empty mempool and no task.                   *)
NodeRestart ==
    /\ Restart
    /\ by_txid' = {}
    /\ by_fee_rate' = {}
    /\ spent_outpoints' = [op \in {} |-> ZeroHash]
    /\ total_bytes' = 0
    /\ call' = [k \in TxTasks |-> NoCall]
    /\ request' = [m \in Miners |-> NoRequest]

(* handle_submit_block and the block listener: the pipeline, ...           *)
SubmitBlock(w, b) == EnforceOperational(w, b) /\ UNCHANGED <<poolVars, taskVars>>

CommitSteps(w) == Pipeline(w) /\ UNCHANGED <<poolVars, taskVars>>

(* Mutant: the pool is cleaned without waiting for its lock.               *)
Cleanup_unlocked(w) ==
    /\ pc[w] = "accepted"
    /\ process_committed_block(job[w])
    /\ Return(w)
    /\ UNCHANGED <<state, tables, taskVars>>

(* ... and once it has accepted the block, the pool's write lock and       *)
(* process_committed_block.                                                *)
Cleanup(w) ==
    /\ pc[w] = "accepted"
    /\ LockFree
    /\ process_committed_block(job[w])
    /\ Return(w)
    /\ UNCHANGED <<state, tables, taskVars>>
-----------------------------------------------------------------------------
(* Mutant: the height passed on is that of the block below the tip.        *)
ReceiveTx_height_behind(k, t) ==
    /\ Serving
    /\ call[k].at = "idle"
    /\ call' = [call EXCEPT ![k] = [at |-> "waiting", tx |-> t, height |-> tip_height - 1,
                                    mtp |-> median_time_past, input |-> 1]]
    /\ UNCHANGED <<authVars, poolVars, request>>

(* handle_send_raw_tx and the transaction listener: the tip and the median *)
(* time are read first. On a read error the listener goes on with 0; the   *)
(* RPC handler returns the error.                                          *)
ReceiveTx(k, t) ==
    /\ Serving
    /\ call[k].at = "idle"
    /\ \E mtp \in {median_time_past} \cup (IF StorageFaults THEN {0} ELSE {}) :
           call' = [call EXCEPT ![k] =
                       [at |-> "waiting", tx |-> t, height |-> tip_height,
                        mtp |-> mtp, input |-> 1]]
    /\ UNCHANGED <<authVars, poolVars, request>>

EndCall(k) == call' = [call EXCEPT ![k] = NoCall]

(* The write lock is granted and insert begins: the gates that need no     *)
(* ledger.                                                                 *)
ShapeOk(k) ==
    AdmissibleShape(call[k].tx, DOMAIN spent_outpoints, call[k].height, call[k].mtp)

BeginInsert(k) ==
    /\ call[k].at = "waiting"
    /\ LockFree
    /\ ShapeOk(k)
    /\ call' = [call EXCEPT ![k].at = "lookup"]
    /\ UNCHANGED <<authVars, poolVars, request>>

RejectShape(k) ==
    /\ call[k].at = "waiting"
    /\ LockFree
    /\ ~ShapeOk(k)
    /\ EndCall(k)
    /\ UNCHANGED <<authVars, poolVars, request>>

(* One get_utxo of the view; blocks may commit between two of them.        *)
InputOk(k) == InputAdmissible(call[k].tx, call[k].input, utxo_view, call[k].height + 1)

LookupInput(k) ==
    /\ call[k].at = "lookup"
    /\ call[k].input <= Len(TxIn[call[k].tx])
    /\ InputOk(k)
    /\ call' = [call EXCEPT ![k].input = @ + 1]
    /\ UNCHANGED <<authVars, poolVars, request>>

RejectLookup(k) ==
    /\ call[k].at = "lookup"
    /\ call[k].input <= Len(TxIn[call[k].tx])
    /\ ~InputOk(k) \/ StorageFaults
    /\ EndCall(k)
    /\ UNCHANGED <<authVars, poolVars, request>>

(* The remaining gates, capacity, registration; the lock is released.      *)
InputsResolved(k) == call[k].at = "lookup" /\ call[k].input > Len(TxIn[call[k].tx])

Stage(k) ==
    /\ InputsResolved(k)
    /\ PaysItsWay(call[k].tx, call[k].height + 1)
    /\ Register(call[k].tx)
    /\ EndCall(k)
    /\ UNCHANGED <<authVars, request>>

(* Mutant: a full pool is not answered.                                    *)
RejectStage_not_when_full(k) ==
    /\ InputsResolved(k)
    /\ ~PaysItsWay(call[k].tx, call[k].height + 1)
    /\ EndCall(k)
    /\ UNCHANGED <<authVars, poolVars, request>>

RejectStage(k) ==
    LET t == call[k].tx
    IN  /\ InputsResolved(k)
        /\ ~PaysItsWay(t, call[k].height + 1) \/ (WouldOverflow(t) /\ ~EvictionPossible(t))
        /\ EndCall(k)
        /\ UNCHANGED <<authVars, poolVars, request>>
-----------------------------------------------------------------------------
(* handle_get_block_template: the tip, ...                                 *)
RequestTemplate(m) ==
    /\ Serving
    /\ request[m].at = "idle"
    /\ tip_height < MaxHeight
    /\ request' = [request EXCEPT ![m] =
                      [at |-> "tip", prev |-> tip_hash, height |-> tip_height + 1, txs |-> <<>>]]
    /\ UNCHANGED <<authVars, poolVars, call>>

(* ... then the pool's read lock and the selection. A transaction whose    *)
(* fee cannot be computed any more stays in the template.                  *)
BuildTemplate(m) ==
    /\ request[m].at = "tip"
    /\ LockFree
    /\ request' = [request EXCEPT ![m].at = "built",
                                  ![m].txs = select_transactions_for_block(MaxBlockPayload)]
    /\ UNCHANGED <<authVars, poolVars, call>>

(* The response is sent.                                                   *)
SendTemplate(m) ==
    /\ request[m].at = "built"
    /\ request' = [request EXCEPT ![m] = NoRequest]
    /\ UNCHANGED <<authVars, poolVars, call>>
-----------------------------------------------------------------------------
InsertSteps(k) ==
    \/ BeginInsert(k) \/ RejectShape(k)
    \/ LookupInput(k) \/ RejectLookup(k)
    \/ Stage(k) \/ RejectStage(k)

NodeNext ==
    \/ Boot /\ UNCHANGED <<poolVars, taskVars>>
    \/ NodeRestart
    \/ \E w \in Workers :
           \/ \E b \in Block : SubmitBlock(w, b)
           \/ CommitSteps(w)
           \/ Cleanup(w)
    \/ \E k \in TxTasks :
           \/ \E t \in Tx : ReceiveTx(k, t)
           \/ InsertSteps(k)
    \/ \E m \in Miners : RequestTemplate(m) \/ BuildTemplate(m) \/ SendTemplate(m)

NodeSpec == NodeInit /\ [][NodeNext]_nodeVars

(***************************************************************************)
(* A task that can run is run by the tokio runtime (weak fairness), and    *)
(* the tokio RwLock queues its waiters in order, so a task that keeps      *)
(* finding the lock free is granted it (strong fairness). Nobody is        *)
(* obliged to submit anything, nor to restart the node.                    *)
(***************************************************************************)
FairNodeSpec ==
    /\ NodeSpec
    /\ \A w \in Workers : WF_nodeVars(CommitSteps(w)) /\ SF_nodeVars(Cleanup(w))
    /\ \A k \in TxTasks :
           /\ SF_nodeVars(BeginInsert(k) \/ RejectShape(k))
           /\ WF_nodeVars(InsertSteps(k))
-----------------------------------------------------------------------------
(* Every task is at one of its steps.                                      *)
NodeTypeOK ==
    /\ call \in [TxTasks -> [at : {"idle", "waiting", "lookup"}, tx : Tx \cup {ZeroHash},
                             height : Nat, mtp : Nat, input : Nat]]
    /\ request \in [Miners -> [at : {"idle", "tip", "built"}, prev : Block \cup {ZeroHash},
                               height : Nat, txs : Seq(Tx)]]

(* A block that consumes op is committed and its cleanup is still to come. *)
CleanupPending(op) ==
    \E w \in Workers : pc[w] = "accepted" /\ op \in Released(ToSet(Body[job[w]]))

(***************************************************************************)
(* The pool never promises what the ledger has given away: each input of a *)
(* staged transaction is unspent, or the block that spent it is about to   *)
(* evict the transaction. In particular no insert slips in between a       *)
(* commit and its cleanup, although commits do not take the pool's lock    *)
(* and insert reads the ledger one output at a time.                       *)
(***************************************************************************)
PoolBacked ==
    \A t \in by_txid : \A op \in ToSet(TxIn[t]) :
        op \in canonical_utxos \/ CleanupPending(op)

(* A template built while no cleanup is outstanding spends only outputs    *)
(* that are unspent, each by one transaction: its only way to go stale is  *)
(* a later commit.                                                         *)
TemplateSpendable ==
    [][\A m \in Miners :
          /\ request[m].at = "tip" /\ request'[m].at = "built"
          /\ \A w \in Workers : pc[w] # "accepted"
          => \A t \in ToSet(request'[m].txs) :
                 /\ ToSet(TxIn[t]) \subseteq canonical_utxos
                 /\ \A u \in ToSet(request'[m].txs) \ {t} :
                        ToSet(TxIn[t]) \cap ToSet(TxIn[u]) = {}]_nodeVars

Backed(t) == ToSet(TxIn[t]) \subseteq canonical_utxos

(* A staged transaction whose input a block has spent does not stay: the   *)
(* cleanup gets the lock however busy the pool is.                         *)
StaleEvicted ==
    \A t \in Tx : (t \in by_txid /\ ~Backed(t)) ~> (t \notin by_txid \/ Backed(t))

(* No call hangs: every block and every transaction submitted is answered, *)
(* whatever the other tasks do with the lock.                              *)
CallsReturn ==
    /\ \A w \in Workers : pc[w] # "idle" ~> pc[w] = "idle"
    /\ \A k \in TxTasks : call[k].at # "idle" ~> call[k].at = "idle"
=============================================================================
