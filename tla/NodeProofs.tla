----------------------------- MODULE NodeProofs -----------------------------
(***************************************************************************)
(* Machine-checked proofs about the node: the mempool and the ledger, kept *)
(* by different locks, stay in step for any number of tasks.               *)
(***************************************************************************)
EXTENDS Node, AuthorityProofs, MempoolProofs

(* op is unspent, or the block that spent it is about to evict whoever     *)
(* reserves it.                                                            *)
Backing(op) == op \in canonical_utxos \/ CleanupPending(op)

(***************************************************************************)
(* PoolBacked is not inductive: insert stages a transaction whose inputs   *)
(* it read some steps ago, while blocks were being committed. What makes   *)
(* it safe is the pool's lock: the cleanup of a block that spent one of    *)
(* these inputs cannot run before insert has let the lock go. So the       *)
(* inputs an insert has found so far are backed in the same sense as those *)
(* of staged transactions, and only one insert holds the lock.             *)
(***************************************************************************)
LookupsBacked(k) ==
    LET inputs == TxIn[call[k].tx]
    IN  /\ call[k].tx \in Tx
        /\ inputs # <<>>
        /\ ToSet(inputs) \cap DOMAIN spent_outpoints = {}
        /\ \A i \in 1 .. call[k].input - 1 : Backing(inputs[i])

(* c has the fields of a call.                                             *)
IsCall(c) ==
    /\ c = [at |-> c.at, tx |-> c.tx, height |-> c.height, mtp |-> c.mtp, input |-> c.input]
    /\ c.input \in Nat

CallInv ==
    /\ call = [k \in TxTasks |-> call[k]]
    /\ \A k \in TxTasks : IsCall(call[k])
    /\ \A k \in TxTasks : call[k].at = "waiting" => call[k].tx \in Tx /\ call[k].input = 1
    /\ \A k \in TxTasks : call[k].at = "lookup" => LookupsBacked(k)
    /\ \A k, l \in TxTasks : call[k].at = "lookup" /\ call[l].at = "lookup" => k = l

NodeInv == AuthTypeOK /\ PoolInv /\ PoolBacked /\ CallInv

(* Whatever a node step does to the authority is a step of the authority.  *)
LEMMA NodeAuthStep == [NodeNext]_nodeVars => [AuthNext]_authVars
  BY DEF NodeNext, nodeVars, NodeRestart, SubmitBlock, CommitSteps, Cleanup, ReturnAccepted,
         ReceiveTx, InsertSteps, BeginInsert, RejectShape, LookupInput, RejectLookup, Stage,
         RejectStage, RequestTemplate, BuildTemplate, SendTemplate, AuthNext

(* The pipeline never takes the backing of an outpoint away: a commit that *)
(* spends it leaves its cleanup pending.                                   *)
LEMMA PipelineKeepsBacking ==
    ASSUME AuthTypeOK, NEW w \in Workers, Pipeline(w), NEW op, Backing(op)
    PROVE  Backing(op)'
<1>r. ASSUME Return(w), UNCHANGED tables, pc[w] # "accepted" PROVE Backing(op)'
  BY <1>r, ReturnEnds DEF Backing, CleanupPending, tables
<1>1. CASE ReadTip(w)
  BY <1>1 DEF ReadTip, Backing, CleanupPending, tables, AuthTypeOK
<1>2. CASE RejectAtTip(w)
  BY <1>2, <1>r DEF RejectAtTip
<1>3. CASE TipUnreadable(w)
  BY <1>3, <1>r DEF TipUnreadable
<1>4. CASE LookupUtxo(w)
  BY <1>4 DEF LookupUtxo, Backing, CleanupPending, tables
<1>5. CASE RejectInput(w)
  BY <1>5, <1>r DEF RejectInput
<1>6. CASE VerifyInvariants(w)
  BY <1>6 DEF VerifyInvariants, InputsFound, Backing, CleanupPending, tables, AuthTypeOK
<1>7. CASE RejectInvariants(w)
  BY <1>7, <1>r DEF RejectInvariants, InputsFound
<1>8. CASE CommitBlock(w)
  <2>1. job[w] \in Block /\ job' = job
    BY <1>8 DEF CommitBlock, AuthTypeOK
  <2>2. Spends(job[w]) \subseteq Released(ToSet(Body[job[w]]))
    BY <2>1, InputsFacts DEF Released
  <2>3. pc'[w] = "accepted" /\ \A v \in Workers \ {w} : pc'[v] = pc[v]
    BY <1>8 DEF CommitBlock, AuthTypeOK
  <2>4. canonical_utxos \ Spends(job[w]) \subseteq canonical_utxos'
    BY <1>8 DEF CommitBlock, commit_block, write_tables, Indexed
  <2>5. CASE op \in Spends(job[w])
    BY <2>1, <2>2, <2>3, <2>5 DEF Backing, CleanupPending
  <2>6. CASE op \in canonical_utxos \ Spends(job[w])
    BY <2>4, <2>6 DEF Backing
  <2>7. CASE CleanupPending(op)
    BY <2>7, <2>1, <2>3 DEF Backing, CleanupPending
  <2> QED BY <2>5, <2>6, <2>7 DEF Backing
<1>9. CASE CommitFails(w)
  BY <1>9, <1>r DEF CommitFails
<1> QED BY <1>1, <1>2, <1>3, <1>4, <1>5, <1>6, <1>7, <1>8, <1>9 DEF Pipeline

(* Nor does starting up, nor a call that begins.                           *)
LEMMA BootKeepsBacking ==
    ASSUME Boot, NEW op, Backing(op)
    PROVE  Backing(op)'
  BY DEF Boot, BeginRecovery, CommitGenesis, FinishRecovery, commit_block, write_tables, Indexed, Backing,
         CleanupPending, tables, locals

LEMMA SubmitKeepsBacking ==
    ASSUME AuthTypeOK, NEW w \in Workers, NEW b \in Block, EnforceOperational(w, b),
           NEW op, Backing(op)
    PROVE  Backing(op)'
<1>1. pc[w] = "idle" /\ pc'[w] = "tip" /\ \A v \in Workers \ {w} : pc'[v] = pc[v] /\ job'[v] = job[v]
  BY DEF EnforceOperational, AuthTypeOK
<1>2. canonical_utxos' = canonical_utxos
  BY DEF EnforceOperational, tables
<1> QED BY <1>1, <1>2 DEF Backing, CleanupPending

LEMMA IdleKeepsBacking ==
    ASSUME UNCHANGED authVars, NEW op, Backing(op)
    PROVE  Backing(op)'
  BY DEF authVars, tables, locals, Backing, CleanupPending

(* A step that leaves the pool and the calls alone and keeps backings.     *)
LEMMA BackingSuffices ==
    ASSUME NodeInv, AuthTypeOK', UNCHANGED <<poolVars, call>>,
           \A op : Backing(op) => Backing(op)'
    PROVE  NodeInv'
<1>1. PoolInv'
  BY PoolUnchanged DEF NodeInv
<1>2. by_txid' = by_txid /\ spent_outpoints' = spent_outpoints /\ call' = call
  BY DEF poolVars
<1>3. PoolBacked'
  BY <1>2 DEF NodeInv, PoolBacked, Backing
<1>4. ASSUME NEW k \in TxTasks, LookupsBacked(k) PROVE LookupsBacked(k)'
  BY <1>2, <1>4 DEF LookupsBacked
<1>5. CallInv'
  BY <1>2, <1>4 DEF NodeInv, CallInv
<1> QED BY <1>1, <1>3, <1>5 DEF NodeInv

(* A step of one call that leaves everything but that call alone.          *)
LEMMA CallSuffices ==
    ASSUME NodeInv, UNCHANGED <<authVars, poolVars>>, NEW k \in TxTasks,
           NEW c, IsCall(c),
           call' = [call EXCEPT ![k] = c],
           c.at = "waiting" => c.tx \in Tx /\ c.input = 1,
           c.at = "lookup" => /\ \A l \in TxTasks \ {k} : call[l].at # "lookup"
                              /\ LookupsBacked(k)'
    PROVE  NodeInv'
<1>1. AuthTypeOK'
  BY TypeNext DEF NodeInv
<1>2. PoolInv'
  BY PoolUnchanged DEF NodeInv
<1>3. \A op : Backing(op) => Backing(op)'
  BY IdleKeepsBacking
<1>4. by_txid' = by_txid /\ spent_outpoints' = spent_outpoints
  BY DEF poolVars
<1>5. PoolBacked'
  BY <1>3, <1>4 DEF NodeInv, PoolBacked, Backing
<1>6. call'[k] = c /\ \A l \in TxTasks \ {k} : call'[l] = call[l]
  BY DEF NodeInv, CallInv
<1>7. ASSUME NEW l \in TxTasks \ {k}, LookupsBacked(l) PROVE LookupsBacked(l)'
  BY <1>3, <1>4, <1>6, <1>7 DEF LookupsBacked
<1>8. call' = [l \in TxTasks |-> call'[l]]
  BY DEF NodeInv, CallInv
<1>9. CallInv'
  BY <1>6, <1>7, <1>8 DEF NodeInv, CallInv
<1> QED BY <1>1, <1>2, <1>5, <1>9 DEF NodeInv
-----------------------------------------------------------------------------
LEMMA NodeInitial == NodeInit => NodeInv
<1> SUFFICES ASSUME NodeInit PROVE NodeInv
  OBVIOUS
<1>1. AuthTypeOK /\ PoolInv
  BY TypeInit, PoolInitial DEF NodeInit
<1>2. by_txid = {}
  BY DEF NodeInit, PoolInit
<1>3. CallInv
  BY DEF NodeInit, CallInv, IsCall, NoCall
<1> QED BY <1>1, <1>2, <1>3 DEF NodeInv, PoolBacked

(* insert under the write lock: each of its steps.                         *)
LEMMA InsertKeeps ==
    ASSUME NodeInv, NEW k \in TxTasks, InsertSteps(k)
    PROVE  NodeInv'
<1>0. /\ IsCall(call[k])
      /\ call[k].at = "waiting" => call[k].tx \in Tx /\ call[k].input = 1
      /\ call[k].at = "lookup" => LookupsBacked(k)
  BY DEF NodeInv, CallInv
<1>e. ASSUME EndCall(k), UNCHANGED <<authVars, poolVars>> PROVE NodeInv'
  <2>1. IsCall(NoCall) /\ NoCall.at = "idle"
    BY DEF NoCall, IsCall
  <2> QED BY <1>e, <2>1, CallSuffices DEF EndCall
<1>1. CASE BeginInsert(k)
  <2> DEFINE c == [call[k] EXCEPT !.at = "lookup"]
  <2>1. /\ IsCall(c) /\ c.at = "lookup" /\ c.tx = call[k].tx /\ c.input = 1
        /\ call' = [call EXCEPT ![k] = c]
        /\ UNCHANGED <<authVars, poolVars>>
    BY <1>0, <1>1 DEF BeginInsert, IsCall
  <2>2. \A l \in TxTasks \ {k} : call[l].at # "lookup"
    BY <1>1 DEF BeginInsert, LockFree
  <2>3. /\ call[k].tx \in Tx
        /\ TxIn[call[k].tx] # <<>>
        /\ ToSet(TxIn[call[k].tx]) \cap DOMAIN spent_outpoints = {}
    BY <1>0, <1>1 DEF BeginInsert, ShapeOk, AdmissibleShape
  <2>4. call'[k] = c /\ spent_outpoints' = spent_outpoints
    BY <2>1 DEF NodeInv, CallInv, poolVars
  <2> HIDE DEF c
  <2>5. LookupsBacked(k)'
    BY <2>1, <2>3, <2>4 DEF LookupsBacked
  <2> QED BY <2>1, <2>2, <2>5, CallSuffices
<1>2. CASE RejectShape(k)
  BY <1>2, <1>e DEF RejectShape
<1>3. CASE LookupInput(k)
  <2> DEFINE c == [call[k] EXCEPT !.input = call[k].input + 1]
  <2>1. /\ IsCall(c) /\ c.at = "lookup" /\ c.tx = call[k].tx /\ c.input = call[k].input + 1
        /\ call' = [call EXCEPT ![k] = c]
        /\ UNCHANGED <<authVars, poolVars>>
    BY <1>0, <1>3 DEF LookupInput, IsCall
  <2>2. \A l \in TxTasks \ {k} : call[l].at # "lookup"
    BY <1>3 DEF LookupInput, NodeInv, CallInv
  <2>3. LookupsBacked(k) /\ call[k].input \in Nat
    BY <1>0, <1>3 DEF LookupInput, IsCall
  <2>4. TxIn[call[k].tx][call[k].input] \in canonical_utxos
    BY <1>3 DEF LookupInput, InputOk, InputAdmissible, utxo_view
  <2>5. call'[k] = c /\ spent_outpoints' = spent_outpoints
    BY <2>1 DEF NodeInv, CallInv, poolVars
  <2>6. \A op : Backing(op) => Backing(op)'
    BY <2>1, IdleKeepsBacking
  <2> HIDE DEF c
  <2>7. PICK t, n : t = call[k].tx /\ n = call[k].input
    OBVIOUS
  <2>8. ASSUME NEW i \in 1 .. n PROVE Backing(TxIn[t][i])'
    <3>1. i \in 1 .. n - 1 \/ i = n
      BY <2>3, <2>7
    <3>2. Backing(TxIn[t][i])
      BY <3>1, <2>3, <2>4, <2>7 DEF LookupsBacked, Backing
    <3> QED BY <3>2, <2>6
  <2>9. call'[k].tx = t /\ call'[k].input - 1 = n
    BY <2>1, <2>3, <2>5, <2>7
  <2>10. LookupsBacked(k)'
    BY <2>3, <2>5, <2>7, <2>8, <2>9 DEF LookupsBacked
  <2> QED BY <2>1, <2>2, <2>10, CallSuffices
<1>4. CASE RejectLookup(k)
  BY <1>4, <1>e DEF RejectLookup
<1>5. CASE Stage(k)
  <2> DEFINE t == call[k].tx
  <2>1. LookupsBacked(k) /\ call[k].input \in Nat /\ call[k].input > Len(TxIn[t])
    BY <1>0, <1>5 DEF Stage, InputsResolved, IsCall
  <2>2. t \in Tx /\ TxIn[t] \in Seq(OutPoint)
    BY <2>1, TxAssumption DEF LookupsBacked
  <2>3. AuthTypeOK'
    BY <1>5, TypeNext DEF Stage, NodeInv
  <2>4. PoolInv'
    BY <1>5, <2>1, RegisterKeeps DEF Stage, LookupsBacked, NodeInv
  <2>5. \A op : Backing(op) => Backing(op)'
    BY <1>5, IdleKeepsBacking DEF Stage
  <2>6. \A op \in ToSet(TxIn[t]) : Backing(op)
    <3>1. \A i \in DOMAIN TxIn[t] : i \in 1 .. call[k].input - 1
      BY <2>1, <2>2
    <3> QED BY <3>1, <2>1 DEF LookupsBacked, ToSet
  <2>7. by_txid' \subseteq by_txid \cup {t}
    BY <1>5 DEF Stage, Register, Update, Rewrite
  <2>8. PoolBacked'
    BY <2>5, <2>6, <2>7 DEF NodeInv, PoolBacked, Backing
  <2>9. /\ call'[k] = NoCall
        /\ \A l \in TxTasks \ {k} : call'[l] = call[l] /\ call[l].at # "lookup"
        /\ call' = [l \in TxTasks |-> call'[l]]
    BY <1>5 DEF Stage, InputsResolved, EndCall, NodeInv, CallInv
  <2>10. IsCall(NoCall) /\ NoCall.at = "idle"
    BY DEF NoCall, IsCall
  <2>11. CallInv'
    BY <2>9, <2>10 DEF NodeInv, CallInv
  <2> QED BY <2>3, <2>4, <2>8, <2>11 DEF NodeInv
<1>6. CASE RejectStage(k)
  BY <1>6, <1>e DEF RejectStage
<1> QED BY <1>1, <1>2, <1>3, <1>4, <1>5, <1>6 DEF InsertSteps

(* The cleanup after a block: what it leaves staged is backed by something *)
(* other than this cleanup.                                                *)
LEMMA CleanupKeeps ==
    ASSUME NodeInv, NEW w \in Workers, Cleanup(w)
    PROVE  NodeInv'
<1>1. job[w] \in Block /\ Return(w) /\ UNCHANGED <<state, tables, taskVars>>
      /\ process_committed_block(job[w]) /\ LockFree
  BY DEF Cleanup, NodeInv, AuthTypeOK
<1>2. AuthTypeOK'
  <2>1. ReturnAccepted(w)
    BY DEF Cleanup, ReturnAccepted
  <2> QED BY <2>1, TypeNext DEF AuthNext, NodeInv
<1>3. PoolInv'
  BY <1>1, BlockKeeps DEF NodeInv
<1>4. by_txid' = {t \in by_txid : ToSet(TxIn[t]) \cap Released(ToSet(Body[job[w]])) = {}}
  BY <1>1, BlockLeaves DEF NodeInv
<1>5. /\ canonical_utxos' = canonical_utxos
      /\ \A v \in Workers \ {w} : pc'[v] = pc[v] /\ job'[v] = job[v]
  BY <1>1, ReturnEnds DEF tables, NodeInv
<1>6. ASSUME NEW t \in by_txid', NEW op \in ToSet(TxIn[t]) PROVE Backing(op)'
  <2>1. t \in by_txid /\ op \notin Released(ToSet(Body[job[w]]))
    BY <1>4
  <2>2. Backing(op)
    BY <2>1 DEF NodeInv, PoolBacked, Backing
  <2> QED BY <2>1, <2>2, <1>5 DEF Backing, CleanupPending
<1>7. PoolBacked'
  BY <1>6 DEF PoolBacked, Backing
<1>8. CallInv'
  <2>1. call' = call /\ \A k \in TxTasks : call[k].at # "lookup"
    BY <1>1 DEF taskVars, LockFree
  <2> QED BY <2>1 DEF NodeInv, CallInv
<1> QED BY <1>2, <1>3, <1>7, <1>8 DEF NodeInv

LEMMA NodeStep == NodeInv /\ [NodeNext]_nodeVars => NodeInv'
<1> SUFFICES ASSUME NodeInv, [NodeNext]_nodeVars PROVE NodeInv'
  OBVIOUS
<1>t. AuthTypeOK'
  BY NodeAuthStep, TypeNext DEF NodeInv
<1>1. CASE Boot /\ UNCHANGED <<poolVars, taskVars>>
  BY <1>1, <1>t, BootKeepsBacking, BackingSuffices DEF taskVars
<1>2. CASE NodeRestart
  <2>1. PoolInv' /\ by_txid' = {}
    BY <1>2 DEF NodeRestart, PoolInv, IndexesAgree, Released
  <2>2. CallInv'
    BY <1>2 DEF NodeRestart, CallInv, NoCall, IsCall
  <2> QED BY <1>t, <2>1, <2>2 DEF NodeInv, PoolBacked
<1>3. ASSUME NEW w \in Workers, NEW b \in Block, SubmitBlock(w, b) PROVE NodeInv'
  <2>1. \A op : Backing(op) => Backing(op)'
    BY <1>3, SubmitKeepsBacking DEF SubmitBlock, NodeInv
  <2> QED BY <1>3, <1>t, <2>1, BackingSuffices DEF SubmitBlock, taskVars
<1>4. ASSUME NEW w \in Workers, CommitSteps(w) PROVE NodeInv'
  <2>1. \A op : Backing(op) => Backing(op)'
    BY <1>4, PipelineKeepsBacking DEF CommitSteps, NodeInv
  <2> QED BY <1>4, <1>t, <2>1, BackingSuffices DEF CommitSteps, taskVars
<1>5. ASSUME NEW w \in Workers, Cleanup(w) PROVE NodeInv'
  BY <1>5, CleanupKeeps
<1>6. ASSUME NEW k \in TxTasks, NEW t \in Tx, ReceiveTx(k, t) PROVE NodeInv'
  <2>1. PICK mtp : call' = [call EXCEPT ![k] =
                       [at |-> "waiting", tx |-> t, height |-> tip_height,
                        mtp |-> mtp, input |-> 1]]
    BY <1>6 DEF ReceiveTx
  <2> DEFINE c == [at |-> "waiting", tx |-> t, height |-> tip_height,
                   mtp |-> mtp, input |-> 1]
  <2>2. IsCall(c) /\ c.at = "waiting" /\ c.tx \in Tx /\ c.input = 1
    BY DEF IsCall
  <2>3. UNCHANGED <<authVars, poolVars>> /\ call' = [call EXCEPT ![k] = c]
    BY <1>6, <2>1 DEF ReceiveTx
  <2> HIDE DEF c
  <2> QED BY <2>2, <2>3, CallSuffices
<1>7. ASSUME NEW k \in TxTasks, InsertSteps(k) PROVE NodeInv'
  BY <1>7, InsertKeeps
<1>8. ASSUME UNCHANGED <<authVars, poolVars, call>> PROVE NodeInv'
  <2>1. \A op : Backing(op) => Backing(op)'
    BY <1>8, IdleKeepsBacking
  <2> QED BY <1>8, <1>t, <2>1, BackingSuffices
<1>9. ASSUME NEW m \in Miners, RequestTemplate(m) \/ BuildTemplate(m) \/ SendTemplate(m)
      PROVE  NodeInv'
  BY <1>8, <1>9 DEF RequestTemplate, BuildTemplate, SendTemplate
<1>10. CASE UNCHANGED nodeVars
  BY <1>8, <1>10 DEF nodeVars, taskVars
<1> QED BY <1>1, <1>2, <1>3, <1>4, <1>5, <1>6, <1>7, <1>9, <1>10 DEF NodeNext

(* For any number of concurrent block submissions, transaction submissions *)
(* and template requests, across storage errors and restarts: every input  *)
(* of a staged transaction is unspent, or the cleanup that will evict the  *)
(* transaction is pending.                                                 *)
THEOREM PoolIsBacked == NodeSpec => []PoolBacked
<1>1. NodeSpec => []NodeInv
  BY NodeInitial, NodeStep, PTL DEF NodeSpec
<1>2. NodeInv => PoolBacked
  BY DEF NodeInv
<1> QED BY <1>1, <1>2, PTL
-----------------------------------------------------------------------------
(* The median of at least one timestamp is a timestamp, and the heights it *)
(* is taken over are all indexed.                                          *)
LEMMA MedianType ==
    ASSUME AuthTypeOK, TreeInv
    PROVE  median_time_past \in Nat
<1> DEFINE count == IF tip_height + 1 < MtpWindow THEN tip_height + 1 ELSE MtpWindow
    s == [i \in 1 .. count |-> Timestamp[height_to_hash[tip_height - (i - 1)]]]
<1>1. /\ count \in Nat \ {0} /\ count <= tip_height + 1 /\ tip_height \in Nat
      /\ GenesisTimestamp \in Nat
  BY NodeAssumption DEF AuthTypeOK
<1>2. CASE tip_hash \in canonical_blocks
  <2>1. 0 .. tip_height \subseteq DOMAIN height_to_hash
    BY <1>2 DEF TreeInv, TablesAgree
  <2>2. ASSUME NEW i \in 1 .. count PROVE Timestamp[height_to_hash[tip_height - (i - 1)]] \in Nat
    <3>1. tip_height - (i - 1) \in 0 .. tip_height
      BY <1>1
    <3>2. height_to_hash[tip_height - (i - 1)] \in Block
      BY <2>1, <3>1 DEF AuthTypeOK
    <3> QED BY <3>2, NodeAssumption
  <2> HIDE DEF count
  <2>3. s \in Seq(Nat) /\ Len(s) = count /\ DOMAIN s = 1 .. count
    BY <1>1, <2>2
  <2>4. IsFiniteSet(1 .. count) /\ Cardinality(1 .. count) = count
    BY <1>1, FS_Interval
  <2>5. count \div 2 \in Nat /\ count \div 2 < count
    BY <1>1
  <2>6. \A i \in 1 .. count : s[i] \in Nat
    BY <2>2
  <2>7. PICK r, D, k : r = s /\ D = 1 .. count /\ k = count \div 2
    OBVIOUS
  <2>8. \E i \in 1 .. count : /\ Cardinality({j \in 1 .. count : r[j] < r[i]}) <= count \div 2
                              /\ Cardinality({j \in 1 .. count : r[j] <= r[i]}) > count \div 2
    <3>1. IsFiniteSet(D) /\ k \in Nat /\ k < Cardinality(D)
      BY <2>4, <2>5, <2>7
    <3>2. \A i \in D : r[i] \in Nat
      BY <2>6, <2>7
    <3>3. \E i \in D : Cardinality(LessThan(r, D, r[i])) <= k /\ Cardinality(UpTo(r, D, r[i])) > k
      BY <3>1, <3>2, OrderStatistic
    <3> QED BY <2>7, <3>3 DEF LessThan, UpTo
  <2>9. Median(r) \in ToSet(r)
    <3>1. DOMAIN r = 1 .. count /\ Len(r) = count
      BY <2>3, <2>7
    <3>2. \E x \in ToSet(r) :
            /\ Cardinality({i \in DOMAIN r : r[i] < x}) <= Len(r) \div 2
            /\ Cardinality({i \in DOMAIN r : r[i] <= x}) > Len(r) \div 2
      BY <2>8, <3>1 DEF ToSet
    <3> QED BY <3>2 DEF Median
  <2>10. ToSet(r) \subseteq Nat
    BY <2>3, <2>6, <2>7 DEF ToSet
  <2>11. median_time_past = Median(r)
    BY <1>2, <2>7 DEF median_time_past, count
  <2> QED BY <2>9, <2>10, <2>11
<1>3. CASE tip_hash \notin canonical_blocks
  BY <1>1, <1>3 DEF median_time_past
<1> QED BY <1>2, <1>3

(* The pool under the node's own steps: it stays finite and counted.       *)
LEMMA NodeCounts == NodeInv /\ CountInv /\ [NodeNext]_nodeVars => CountInv'
<1> SUFFICES ASSUME NodeInv, CountInv, [NodeNext]_nodeVars PROVE CountInv'
  OBVIOUS
<1>1. ASSUME UNCHANGED poolVars PROVE CountInv'
  BY <1>1, CountUnchanged
<1>2. CASE NodeRestart
  <2>1. by_txid' = {} /\ total_bytes' = 0 /\ IsFiniteSet({})
        /\ spent_outpoints' = [op \in {} |-> ZeroHash]
    BY <1>2, FS_EmptySet DEF NodeRestart
  <2> QED BY <2>1, SizeOfNone DEF CountInv, SizeOf
<1>3. ASSUME NEW w \in Workers, Cleanup(w) PROVE CountInv'
  <2>1. job[w] \in Block /\ process_committed_block(job[w])
    BY <1>3 DEF Cleanup, NodeInv, AuthTypeOK
  <2> QED BY <2>1, BlockCounts DEF NodeInv
<1>4. ASSUME NEW k \in TxTasks, Stage(k) PROVE CountInv'
  <2>1. LookupsBacked(k)
    BY <1>4 DEF Stage, InputsResolved, NodeInv, CallInv
  <2> QED BY <1>4, <2>1, RegisterCounts DEF Stage, LookupsBacked, NodeInv
<1>5. ASSUME NEW k \in TxTasks, InsertSteps(k) PROVE Stage(k) \/ UNCHANGED poolVars
  BY <1>5 DEF InsertSteps, BeginInsert, RejectShape, LookupInput, RejectLookup, RejectStage
<1>6. \/ UNCHANGED poolVars \/ NodeRestart
      \/ \E w \in Workers : Cleanup(w)
      \/ \E k \in TxTasks : InsertSteps(k)
  BY DEF NodeNext, nodeVars, SubmitBlock, CommitSteps, ReceiveTx, RequestTemplate,
         BuildTemplate, SendTemplate
<1> QED BY <1>1, <1>2, <1>3, <1>4, <1>5, <1>6

Calls == [at : {"idle", "waiting", "lookup"}, tx : Tx \cup {ZeroHash},
          height : Nat, mtp : Nat, input : Nat]

Requests == [at : {"idle", "tip", "built"}, prev : Block \cup {ZeroHash},
             height : Nat, txs : Seq(Tx)]

LEMMA EmptyRequest == NoRequest \in Requests /\ NoCall \in Calls
<1>1. <<>> \in Seq(Tx)
  OBVIOUS
<1> QED BY <1>1 DEF NoRequest, NoCall, Requests, Calls

LEMMA NodeTypeStep ==
    NodeInv /\ TreeInv /\ CountInv /\ NodeTypeOK /\ [NodeNext]_nodeVars => NodeTypeOK'
<1> SUFFICES ASSUME NodeInv, TreeInv, CountInv, NodeTypeOK, [NodeNext]_nodeVars
             PROVE  NodeTypeOK'
  OBVIOUS
<1>0. call \in [TxTasks -> Calls] /\ request \in [Miners -> Requests]
  BY DEF NodeTypeOK, Calls, Requests
<1>1. SUFFICES call' \in [TxTasks -> Calls] /\ request' \in [Miners -> Requests]
  BY DEF NodeTypeOK, Calls, Requests
<1>2. AuthTypeOK
  BY DEF NodeInv
<1>3. CASE UNCHANGED taskVars
  BY <1>0, <1>3 DEF taskVars
<1>4. CASE NodeRestart
  BY <1>4, EmptyRequest DEF NodeRestart
<1>5. ASSUME NEW k \in TxTasks, NEW t \in Tx, ReceiveTx(k, t)
      PROVE  call' \in [TxTasks -> Calls] /\ request' \in [Miners -> Requests]
  <2>1. PICK mtp \in Nat : call' = [call EXCEPT ![k] =
                       [at |-> "waiting", tx |-> t, height |-> tip_height,
                        mtp |-> mtp, input |-> 1]]
    BY <1>2, <1>5, MedianType DEF ReceiveTx
  <2>2. [at |-> "waiting", tx |-> t, height |-> tip_height, mtp |-> mtp, input |-> 1] \in Calls
    BY <1>2 DEF AuthTypeOK, Calls
  <2> QED BY <1>0, <1>5, <2>1, <2>2 DEF ReceiveTx
<1>6. ASSUME NEW k \in TxTasks, InsertSteps(k)
      PROVE  call' \in [TxTasks -> Calls] /\ request' \in [Miners -> Requests]
  <2>1. request' = request
    BY <1>6 DEF InsertSteps, BeginInsert, RejectShape, LookupInput, RejectLookup, Stage, RejectStage
  <2>2. CASE EndCall(k)
    BY <1>0, <2>1, <2>2, EmptyRequest DEF EndCall
  <2>3. call[k] \in Calls
    BY <1>0
  <2>4. CASE BeginInsert(k)
    <3>1. [call[k] EXCEPT !.at = "lookup"] \in Calls
      BY <2>3 DEF Calls
    <3>2. call' = [call EXCEPT ![k] = [call[k] EXCEPT !.at = "lookup"]]
      BY <2>4 DEF BeginInsert
    <3> QED BY <1>0, <2>1, <3>1, <3>2
  <2>5. CASE LookupInput(k)
    <3>1. [call[k] EXCEPT !.input = call[k].input + 1] \in Calls
      BY <2>3 DEF Calls
    <3>2. call' = [call EXCEPT ![k] = [call[k] EXCEPT !.input = call[k].input + 1]]
      BY <2>5 DEF LookupInput
    <3> QED BY <1>0, <2>1, <3>1, <3>2
  <2> QED BY <1>6, <2>2, <2>4, <2>5
          DEF InsertSteps, RejectShape, RejectLookup, Stage, RejectStage
<1>7. ASSUME NEW m \in Miners, RequestTemplate(m) \/ BuildTemplate(m) \/ SendTemplate(m)
      PROVE  call' \in [TxTasks -> Calls] /\ request' \in [Miners -> Requests]
  <2>1. call' = call
    BY <1>7 DEF RequestTemplate, BuildTemplate, SendTemplate
  <2>2. CASE RequestTemplate(m)
    <3>1. <<>> \in Seq(Tx)
      OBVIOUS
    <3>2. [at |-> "tip", prev |-> tip_hash, height |-> tip_height + 1, txs |-> <<>>] \in Requests
      BY <1>2, <3>1 DEF AuthTypeOK, Requests
    <3> QED BY <1>0, <2>1, <2>2, <3>2 DEF RequestTemplate
  <2>3. CASE BuildTemplate(m)
    <3>1. IsFiniteSet(by_fee_rate) /\ by_txid \subseteq Tx
      BY DEF NodeInv, PoolInv, IndexesAgree, CountInv
    <3>2. PICK txs : txs = select_transactions_for_block(MaxBlockPayload)
      OBVIOUS
    <3>3. txs \in Seq(by_txid)
      BY <3>1, <3>2, SelectionStaged
    <3>4. txs \in Seq(Tx)
      BY <3>1, <3>3
    <3>5. [request[m] EXCEPT !.at = "built", !.txs = txs] \in Requests
      BY <1>0, <3>4 DEF Requests
    <3>6. request' = [request EXCEPT ![m] = [request[m] EXCEPT !.at = "built", !.txs = txs]]
      BY <1>0, <2>3, <3>2 DEF BuildTemplate
    <3> QED BY <1>0, <2>1, <3>5, <3>6
  <2>4. CASE SendTemplate(m)
    BY <1>0, <2>1, <2>4, EmptyRequest DEF SendTemplate
  <2> QED BY <1>7, <2>2, <2>3, <2>4
<1>8. \/ UNCHANGED taskVars \/ NodeRestart
      \/ \E k \in TxTasks : (\E t \in Tx : ReceiveTx(k, t)) \/ InsertSteps(k)
      \/ \E m \in Miners : RequestTemplate(m) \/ BuildTemplate(m) \/ SendTemplate(m)
  BY DEF NodeNext, nodeVars, SubmitBlock, CommitSteps, Cleanup
<1> QED BY <1>3, <1>4, <1>5, <1>6, <1>7, <1>8

NodeFull == NodeInv /\ TreeInv /\ CountInv /\ NodeTypeOK

LEMMA NodeInvariant == NodeSpec => []NodeFull
<1>1. NodeInit => NodeFull
  <2> SUFFICES ASSUME NodeInit PROVE NodeFull
    OBVIOUS
  <2>1. NodeInv /\ TreeInv /\ CountInv
    BY NodeInitial, TreeInit, CountInitial DEF NodeInit
  <2>2. NodeTypeOK
    BY EmptyRequest DEF NodeInit, NodeTypeOK, Calls, Requests
  <2> QED BY <2>1, <2>2 DEF NodeFull
<1>2. NodeFull /\ [NodeNext]_nodeVars => NodeFull'
  <2> SUFFICES ASSUME NodeFull, [NodeNext]_nodeVars PROVE NodeFull'
    OBVIOUS
  <2>1. NodeInv /\ TreeInv /\ CountInv /\ NodeTypeOK /\ AuthTypeOK
    BY DEF NodeFull, NodeInv
  <2>2. NodeInv' /\ CountInv' /\ NodeTypeOK'
    BY <2>1, NodeStep, NodeCounts, NodeTypeStep
  <2>3. TreeInv'
    BY <2>1, NodeAuthStep, TreeNext
  <2> QED BY <2>2, <2>3 DEF NodeFull
<1> QED BY <1>1, <1>2, PTL DEF NodeSpec

(* Every task of the node is at one of its steps and carries what that     *)
(* step needs; the median time past is always a time.                      *)
THEOREM NodeTypeCorrect == NodeSpec => []NodeTypeOK
<1>1. NodeFull => NodeTypeOK
  BY DEF NodeFull
<1> QED BY <1>1, NodeInvariant, PTL

(* A template that handle_get_block_template builds while no cleanup is    *)
(* outstanding spends unspent outputs, and no two of its transactions the  *)
(* same one.                                                               *)
THEOREM TemplatesAreSpendable == NodeSpec => TemplateSpendable
<1> DEFINE Fresh(m) == /\ request[m].at = "tip" /\ request'[m].at = "built"
                       /\ \A w \in Workers : pc[w] # "accepted"
    Sound(m) == \A t \in ToSet(request'[m].txs) :
                 /\ ToSet(TxIn[t]) \subseteq canonical_utxos
                 /\ \A u \in ToSet(request'[m].txs) \ {t} :
                        ToSet(TxIn[t]) \cap ToSet(TxIn[u]) = {}
    Good == \A m \in Miners : Fresh(m) => Sound(m)
<1>1. NodeFull /\ [NodeNext]_nodeVars => Good
  <2> SUFFICES ASSUME NodeFull, [NodeNext]_nodeVars, NEW m \in Miners, Fresh(m) PROVE Sound(m)
    OBVIOUS
  <2>0. request \in [Miners -> Requests]
    BY DEF NodeFull, NodeTypeOK, Requests
  <2>1. request'[m] # request[m]
    OBVIOUS
  <2>2. ~NodeRestart
    BY DEF NodeRestart, NoRequest
  <2>3. ASSUME NEW n \in Miners, RequestTemplate(n) \/ SendTemplate(n) PROVE FALSE
    <3>1. request'[n].at \in {"idle", "tip"} /\ \A l \in Miners \ {n} : request'[l] = request[l]
      BY <2>0, <2>3 DEF RequestTemplate, SendTemplate, NoRequest
    <3> QED BY <2>1, <3>1
  <2>4. ASSUME NEW n \in Miners, BuildTemplate(n), n # m PROVE FALSE
    BY <2>0, <2>1, <2>4 DEF BuildTemplate
  <2>5. request' = request \/ NodeRestart
        \/ \E n \in Miners : RequestTemplate(n) \/ BuildTemplate(n) \/ SendTemplate(n)
    BY DEF NodeNext, nodeVars, taskVars, SubmitBlock, CommitSteps, Cleanup, ReceiveTx, InsertSteps,
           BeginInsert, RejectShape, LookupInput, RejectLookup, Stage, RejectStage
  <2>6. BuildTemplate(m)
    BY <2>1, <2>2, <2>3, <2>4, <2>5
  <2>7. request'[m].txs = select_transactions_for_block(MaxBlockPayload)
    BY <2>0, <2>6 DEF BuildTemplate, Requests
  <2>8. ToSet(request'[m].txs) \subseteq by_txid
    <3>1. IsFiniteSet(by_fee_rate)
      BY DEF NodeFull, NodeInv, PoolInv, IndexesAgree, CountInv
    <3> QED BY <2>7, <3>1, SelectionStaged
  <2>9. \A op : ~CleanupPending(op)
    BY DEF CleanupPending
  <2>10. \A t \in by_txid : ToSet(TxIn[t]) \subseteq canonical_utxos
    BY <2>9 DEF NodeFull, NodeInv, PoolBacked
  <2>11. \A t, u \in by_txid : t # u => ToSet(TxIn[t]) \cap ToSet(TxIn[u]) = {}
    BY Exclusive DEF NodeFull, NodeInv, PoolInv
  <2> QED BY <2>8, <2>10, <2>11
<1>2. TemplateSpendable <=> [][Good]_nodeVars
  BY DEF TemplateSpendable
<1> HIDE DEF Good
<1> QED BY <1>1, <1>2, NodeInvariant, PTL DEF NodeSpec
=============================================================================
