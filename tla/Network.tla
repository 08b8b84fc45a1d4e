------------------------------ MODULE Network ------------------------------
(***************************************************************************)
(* Nodes, the miners that work for them, and the gossip between them.      *)
(*                                                                         *)
(* A miner (run_miner) fetches a template from its node, mines it for as   *)
(* long as it takes, submits the block and goes on, whatever the answer.   *)
(* A node that accepts a submission spawns a task that publishes the       *)
(* block; every subscriber, the publisher included, may receive it once,   *)
(* several times or never, in any order. A listener commits what extends   *)
(* its tip and forgets everything else: nothing is asked for again,        *)
(* nothing is passed on, no committed block is ever replaced.              *)
(*                                                                         *)
(* Commits and pool operations are atomic here; modules Authority and Node *)
(* are about their interleaving, module Mempool about all the pool checks. *)
(***************************************************************************)
EXTENDS Naturals, Sequences, SequencesExt, FiniteSets

CONSTANTS
    Nodes,
    Miners,
    Home,       \* Home[m]: the node whose RPC endpoint m is given
    Payout,     \* Payout[m]: the locking script m mines for
    Foreign,    \* the miners that are another program, with bodies of their own
    Bodies,     \* what these put after the coinbase, as sequences of Tx
    Tx,         \* the transactions that are not coinbases
    TxIn,       \* TxIn[t]: the outpoints t spends, in order; genesis created all
    ScriptHeights, \* ScriptHeights[t]: the heights at which its contracts accept
    FeeOrder,   \* the transactions clients send, in the order of templates
    Marks,      \* what sets headers of the same content apart: time and nonce
    ExtraSpace, \* 2^64: extra_nonce wraps
    MaxHeight,  \* bound: templates are given out below this height
    MaxFaults   \* bound: crashes, restarts and broken connections

ASSUME NetworkAssumption ==
    /\ Miners # {}
    /\ Home \in [Miners -> Nodes]
    /\ Foreign \subseteq Miners
    /\ Bodies \subseteq Seq(Tx)
    /\ \A t \in Tx : TxIn[t] \in Seq(ToSet(TxIn[t]))
    /\ FeeOrder \in Seq(Tx)
    /\ {MaxHeight, MaxFaults} \subseteq Nat
    /\ ExtraSpace \in Nat \ {0}

(* A txid is not the digest of two others.                                 *)
ASSUME LeafAssumption ==
    /\ \A t \in Tx : t[1] # "node"
    /\ \A m \in Miners : Payout[m] # "node"

VARIABLES
    chain,   \* chain[n]: the blocks n has committed above genesis
    pool,    \* pool[n]: the transactions staged in the mempool of n
    tasks,   \* tasks[n]: the blocks whose broadcast n has spawned
    sent,    \* the blocks whose frames were published
    miner,   \* miner[m]: where m is in its loop, with its candidate
    calls,   \* the submissions that have reached a node, as <<m, block>>
    faults

netVars == <<chain, pool, tasks, sent, miner, calls, faults>>
-----------------------------------------------------------------------------
(* A transaction is a triple; a digest is the value it was taken of.       *)
Digest(left, right) == <<"node", left, right>>

(* One pass of compute_merkle_root's loop: an odd layer's last is paired   *)
(* with itself.                                                            *)
NextLayer(layer) ==
    [i \in 1 .. (Len(layer) + 1) \div 2 |->
        Digest(layer[2 * i - 1], layer[IF 2 * i <= Len(layer) THEN 2 * i ELSE 2 * i - 1])]

compute_merkle_root(hashes) ==
    LET pass(layer) == IF Len(layer) > 1 THEN NextLayer(layer) ELSE layer
        layers[n \in 0 .. Len(hashes)] == IF n = 0 THEN hashes ELSE pass(layers[n - 1])
    IN  layers[Len(hashes)][1]

(* block_hash: the header's content on top of that of its ancestors; the   *)
(* genesis block has the empty hash.                                       *)
block_hash(h) == Append(h.prev, [height |-> h.height, root |-> h.root, mark |-> h.mark])

tip(n) == IF chain[n] = <<>> THEN <<>> ELSE block_hash(Last(chain[n]).header)

(* Mutant: the payload leaves the height out.                              *)
build_coinbase_transaction_no_height(height, payout, extra_nonce) == <<payout, 0, extra_nonce>>

(* The coinbase pays the subsidy of the height (the pool's fees are not    *)
(* credited) and carries height and extra_nonce in its input (bip34_push). *)
build_coinbase_transaction(height, payout, extra_nonce) == <<payout, height, extra_nonce>>

is_coinbase(tx) == tx \notin Tx

Inputs(t) == ToSet(TxIn[t])

(* The outpoints a body consumes; coinbases are skipped.                   *)
Consumed(txs) == UNION {Inputs(t) : t \in {u \in ToSet(txs) : ~is_coinbase(u)}}

(* What is gone from the UTXO set of n.                                    *)
Spent(n) == UNION {Consumed(chain[n][i].txs) : i \in DOMAIN chain[n]}
-----------------------------------------------------------------------------
(* pack_frame and unpack_frame. The payload of a block is its header with  *)
(* the number of its transactions, and the transactions.                   *)
encode_block(b) == <<[header |-> b.header, count |-> Len(b.txs)]>> \o b.txs

pack_frame(command, payload) ==
    [command |-> command, length |-> Len(payload), checksum |-> payload, body |-> payload]

(* Bytes after the declared length are ignored.                            *)
unpack_frame(f) ==
    LET payload == SubSeq(f.body, 1, f.length)
    IN  IF f.length <= Len(f.body) /\ payload = f.checksum
        THEN {[command |-> f.command, payload |-> payload]} ELSE {}

(* decode_block_frame: the set of its results, empty on an error.          *)
decode_block_frame(raw) ==
    {[header |-> u.payload[1].header, txs |-> Tail(u.payload)] :
        u \in {v \in unpack_frame(raw) :
                  /\ v.command = "block"
                  /\ v.payload # <<>>
                  /\ v.payload[1].count = Len(v.payload) - 1}}

(* The frames that may arrive when b's frame f was published: f itself, f  *)
(* damaged on its way, or what a peer that is not this program makes of    *)
(* it, the header over a body that was not mined.                          *)
Junk == <<"junk", 0, 0>>

Arriving(b) ==
    LET f == pack_frame("block", encode_block(b))
        repacked(txs) == pack_frame("block", encode_block([b EXCEPT !.txs = txs]))
    IN  {f,
         [f EXCEPT !.body = Front(@)],
         [f EXCEPT !.body = Append(@, Junk)],
         [f EXCEPT !.body = Append(Front(@), Junk)],
         [f EXCEPT !.command = "tx"],
         repacked(Front(b.txs)),
         repacked(Append(b.txs, Last(b.txs)))}
-----------------------------------------------------------------------------
(* Mutant: any block of the next height will do.                           *)
ExtendsTip_by_height(n, h) == h.height = Len(chain[n]) + 1

ExtendsTip(n, h) == h.prev = tip(n) /\ h.height = Len(chain[n]) + 1

(* Mutant: inputs are compared with the ledger, not with one another.      *)
SpendsOnce_ledger_only(n, txs) ==
    \A i \in 2 .. Len(txs) : Inputs(txs[i]) \cap Spent(n) = {}

(* Every input is unspent, and is named once in the block. A transaction   *)
(* without inputs may be there any number of times.                        *)
SpendsOnce(n, txs) ==
    \A i \in 2 .. Len(txs) :
        /\ IsInjective(TxIn[txs[i]])
        /\ Inputs(txs[i]) \cap Spent(n) = {}
        /\ \A j \in 2 .. i - 1 : Inputs(txs[i]) \cap Inputs(txs[j]) = {}

(* process_and_commit_block accepts b.                                     *)
Acceptable(n, b) ==
    /\ b.txs # <<>>
    /\ ExtendsTip(n, b.header)
    /\ b.header.root = compute_merkle_root(b.txs)
    /\ \A i \in DOMAIN b.txs : is_coinbase(b.txs[i]) <=> i = 1
    /\ SpendsOnce(n, b.txs)
    /\ \A i \in 2 .. Len(b.txs) : b.header.height \in ScriptHeights[b.txs[i]]

(* The block is stored, and the pool drops what is in it and whatever      *)
(* spends an output it spends (process_committed_block; a staged           *)
(* transaction has inputs, so the second covers the first).                *)
Commit(n, b) ==
    /\ chain' = [chain EXCEPT ![n] = Append(@, b)]
    /\ pool' = [pool EXCEPT ![n] = {t \in @ : Inputs(t) \cap Consumed(b.txs) = {}}]

NoBlock == [header |-> [prev |-> <<>>, height |-> 0, root |-> Junk, mark |-> 0], txs |-> <<>>]

Asking(extra_nonce) == [at |-> "asking", extra_nonce |-> extra_nonce, block |-> NoBlock]

NetInit ==
    /\ chain = [n \in Nodes |-> <<>>]
    /\ pool = [n \in Nodes |-> {}]
    /\ tasks = [n \in Nodes |-> {}]
    /\ sent = {}
    /\ miner = [m \in Miners |-> Asking(0)]
    /\ calls = {}
    /\ faults = 0
-----------------------------------------------------------------------------
(* get_block_template fails: the miner sleeps and asks again.              *)
TemplateFails(m) ==
    /\ miner[m].at = "asking"
    /\ UNCHANGED netVars

(* The nodes whose pool becomes a block; the other pools are left out.     *)
PoolUsers == {Home[m] : m \in Miners \ Foreign}

(* A client, or a peer, sends t and the six gates let it through. They     *)
(* compare its inputs with those of the staged transactions and with the   *)
(* ledger, not with one another, and run its contracts at the height of    *)
(* the next block.                                                         *)
Stage(n, t) ==
    /\ n \in PoolUsers
    /\ t \notin pool[n]
    /\ Inputs(t) # {}
    /\ Inputs(t) \cap UNION {Inputs(u) : u \in pool[n]} = {}
    /\ Inputs(t) \cap Spent(n) = {}
    /\ Len(chain[n]) + 1 \in ScriptHeights[t]
    /\ pool' = [pool EXCEPT ![n] = @ \cup {t}]
    /\ UNCHANGED <<chain, tasks, sent, miner, calls, faults>>

(* The transactions of a template: the pool of n by descending fee rate.   *)
Pending(n) ==
    LET taken[i \in 0 .. Len(FeeOrder)] ==
            IF i = 0 THEN <<>>
            ELSE IF FeeOrder[i] \in pool[n] THEN Append(taken[i - 1], FeeOrder[i])
            ELSE taken[i - 1]
    IN  taken[Len(FeeOrder)]

(* get_block_template answers: the candidate is built on the node's tip,   *)
(* with the node's selection after the coinbase. A foreign miner may put   *)
(* another body there.                                                     *)
FetchTemplate(m) ==
    LET n == Home[m]
        height == Len(chain[n]) + 1
        extra_nonce == (miner[m].extra_nonce + 1) % ExtraSpace
        coinbase == build_coinbase_transaction(height, Payout[m], extra_nonce)
  IN  /\ miner[m].at = "asking"
        /\ height <= MaxHeight
        /\ \E body \in IF m \in Foreign THEN Bodies ELSE {Pending(n)} :
               LET txs == <<coinbase>> \o body
               IN  miner' = [miner EXCEPT ![m] =
                       [at |-> "mining", extra_nonce |-> extra_nonce,
                        block |-> [header |-> [prev |-> tip(n), height |-> height, mark |-> 0,
                                               root |-> compute_merkle_root(txs)],
                                   txs |-> txs]]]
        /\ UNCHANGED <<chain, pool, tasks, sent, calls, faults>>

(* mine_candidate returns (module Search) and submit_block sends.          *)
Submit(m) ==
    /\ miner[m].at = "mining"
    /\ \E mark \in Marks :
           LET b == [miner[m].block EXCEPT !.header.mark = mark]
           IN  /\ miner' = [miner EXCEPT ![m].at = "waiting", ![m].block = b]
               /\ calls' = calls \cup {<<m, b>>}
    /\ UNCHANGED <<chain, pool, tasks, sent, faults>>

(* The miner of the call gets its answer, if it still waits for it.        *)
Answered(m, b) ==
    miner' = IF miner[m].at = "waiting" /\ miner[m].block = b
             THEN [miner EXCEPT ![m] = Asking(@.extra_nonce)] ELSE miner

(* handle_submit_block: commit, clean the pool, spawn the broadcast,       *)
(* answer.                                                                 *)
Accept(m, b) ==
    LET n == Home[m]
    IN  /\ <<m, b>> \in calls
        /\ Acceptable(n, b)
        /\ Commit(n, b)
        /\ tasks' = [tasks EXCEPT ![n] = @ \cup {b}]
        /\ calls' = calls \ {<<m, b>>}
        /\ Answered(m, b)
        /\ UNCHANGED <<sent, faults>>

(* Mutant: a miner that is refused submits the same block again.           *)
Reject_resubmitted(m, b) ==
    /\ <<m, b>> \in calls
    /\ ~Acceptable(Home[m], b)
    /\ calls' = IF miner[m].at = "waiting" /\ miner[m].block = b
                THEN calls ELSE calls \ {<<m, b>>}
    /\ UNCHANGED <<chain, pool, tasks, sent, miner, faults>>

(* A refused block leaves the pool alone, whatever it was refused for.     *)
Reject(m, b) ==
    /\ <<m, b>> \in calls
    /\ ~Acceptable(Home[m], b)
    /\ calls' = calls \ {<<m, b>>}
    /\ Answered(m, b)
    /\ UNCHANGED <<chain, pool, tasks, sent, faults>>

Serve(m) == \E c \in calls : c[1] = m /\ (Accept(m, c[2]) \/ Reject(m, c[2]))
-----------------------------------------------------------------------------
(* A spawned task publishes its block, or fails with a warning.            *)
Publish(n, b) ==
    /\ b \in tasks[n]
    /\ tasks' = [tasks EXCEPT ![n] = @ \ {b}]
    /\ sent' = sent \cup {b}
    /\ UNCHANGED <<chain, pool, miner, calls, faults>>

PublishFails(n, b) ==
    /\ b \in tasks[n]
    /\ tasks' = [tasks EXCEPT ![n] = @ \ {b}]
    /\ UNCHANGED <<chain, pool, sent, miner, calls, faults>>

(* The block listener of n. What it cannot decode or accept it forgets: a  *)
(* step that changes nothing. (No alteration touches the header, so only   *)
(* frames of blocks that extend the tip can be accepted.)                  *)
Receive(n) ==
    /\ \E published \in {b \in sent : ExtendsTip(n, b.header)} :
       \E raw \in Arriving(published) :
           \E b \in decode_block_frame(raw) : Acceptable(n, b) /\ Commit(n, b)
    /\ UNCHANGED <<tasks, sent, miner, calls, faults>>
-----------------------------------------------------------------------------
Fault == faults < MaxFaults /\ faults' = faults + 1

(* The connection breaks: the node may have the submission already.        *)
ConnectionBreaks(m) ==
    /\ Fault
    /\ miner[m].at = "waiting"
    /\ miner' = [miner EXCEPT ![m] = Asking(@.extra_nonce)]
    /\ \E lost \in SUBSET {<<m, miner[m].block>>} : calls' = calls \ lost
    /\ UNCHANGED <<chain, pool, tasks, sent>>

(* A new miner process counts its extra_nonce from the start.              *)
MinerRestarts(m) ==
    /\ Fault
    /\ miner' = [miner EXCEPT ![m] = Asking(0)]
    /\ UNCHANGED <<chain, pool, tasks, sent, calls>>

(* The blocks of a node that crashes are stored; its pool, its tasks and   *)
(* its connections are gone.                                               *)
NodeRestarts(n) ==
    LET cut == {m \in Miners : Home[m] = n /\ miner[m].at = "waiting"}
    IN  /\ Fault
        /\ pool' = [pool EXCEPT ![n] = {}]
        /\ tasks' = [tasks EXCEPT ![n] = {}]
        /\ calls' = {c \in calls : Home[c[1]] # n}
        /\ miner' = [m \in Miners |-> IF m \in cut THEN Asking(miner[m].extra_nonce)
                                      ELSE miner[m]]
        /\ UNCHANGED <<chain, sent>>

MinerStep(m) ==
    \/ TemplateFails(m) \/ FetchTemplate(m) \/ Submit(m) \/ Serve(m)
    \/ ConnectionBreaks(m) \/ MinerRestarts(m)

NodeStep(n) ==
    \/ \E b \in tasks[n] : Publish(n, b) \/ PublishFails(n, b)
    \/ Receive(n)
    \/ \E t \in ToSet(FeeOrder) : Stage(n, t)
    \/ NodeRestarts(n)

NetNext == (\E m \in Miners : MinerStep(m)) \/ (\E n \in Nodes : NodeStep(n))

NetSpec == NetInit /\ [][NetNext]_netVars

(* A miner that can be given a template is, in the end; it finds a         *)
(* solution; the node serves what has reached it. Gossip promises nothing. *)
FairNetSpec ==
    /\ NetSpec
    /\ \A m \in Miners :
           WF_netVars(FetchTemplate(m) \/ Submit(m)) /\ WF_netVars(Serve(m))
-----------------------------------------------------------------------------
Producers == {Home[m] : m \in Miners}

(* mod.rs, coinbase.rs: no node's ledger has two coinbases with the same   *)
(* content, and so the same txid, although extra_nonce wraps and starts    *)
(* again with the process, miners share a payout script, and a submission  *)
(* whose answer was lost may be committed after the next one was mined.    *)
(* (Of coinbases with a height in their payload: the foreign miners here   *)
(* build theirs so, which no validator asks of them.)                      *)
CoinbasesDiffer ==
    \A n \in Nodes : \A i, j \in DOMAIN chain[n] :
        i # j => Head(chain[n][i].txs) # Head(chain[n][j].txs)

Headers(n) == [i \in DOMAIN chain[n] |-> chain[n][i].header]

(* The listener: however gossip loses, repeats, reorders or damages what   *)
(* is published, a node's chain is always an initial part of the chain of  *)
(* a node that miners submit to: it lags, it never mixes two chains.       *)
FollowersTrail ==
    \A n \in Nodes : \E p \in Producers : IsPrefix(Headers(n), Headers(p))

(***************************************************************************)
(* merkle.rs: a block hash stands for one effect on the ledger, although   *)
(* the root of a list whose odd layer is padded is that of a longer list,  *)
(* too, which a peer may send under the same header. Two nodes that have   *)
(* blocks of one header may hold bodies of different lengths: they agree   *)
(* as far as both go, and what one has in excess repeats transactions that *)
(* both have and that consume nothing. Any transaction in excess with an   *)
(* input would be spent twice (verify_block_invariants).                   *)
(***************************************************************************)
SameHashSameEffect ==
    \A n, k \in Nodes : \A i \in DOMAIN chain[n] \cap DOMAIN chain[k] :
        LET a == chain[n][i]
            b == chain[k][i]
        IN  a.header = b.header =>
                \A j \in DOMAIN a.txs :
                    IF j \in DOMAIN b.txs THEN a.txs[j] = b.txs[j]
                    ELSE a.txs[j] \in ToSet(b.txs) /\ TxIn[a.txs[j]] = <<>>

(* A pool that holds a transaction no next block may carry: it names an    *)
(* input twice, or its contract refuses the height.                        *)
Poisoned(n) ==
    \E t \in pool[n] : ~IsInjective(TxIn[t]) \/ Len(chain[n]) + 1 \notin ScriptHeights[t]

(* run_miner: the chain of a node with a miner reaches every height,       *)
(* whatever is refused, lost or overtaken on the way. One thing can stop   *)
(* it: a transaction that poisons the pool and stays, for every template   *)
(* offers it and a refused block does not remove it.                       *)
ChainGrows ==
    \A p \in PoolUsers : <>[]Poisoned(p) \/ <>(Len(chain[p]) = MaxHeight)
=============================================================================
