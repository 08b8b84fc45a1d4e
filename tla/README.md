# A TLA+ verification of the Aurion node

Aurion is a UTXO ledger node in Rust: a block pipeline (the *authority*) over an
embedded database, a mempool, a contract VM, an RPC service for clients and
miners, and a gossip network. This directory models the parts that carry its
logic, checks them with TLC on small instances and proves the central safety
properties with TLAPS for every value of the constants.

Paths below are relative to the repository; `PROJECT.json` maps each definition
to the lines it models.

## 1. Inventory

| Part | State it keeps | Operations | Correct when |
|---|---|---|---|
| Authority (`aurion-node/src/authority`) | `NodeState`: Starting, Recovering, Running, Failed; a cancel flag that is set and never read | `initialize_genesis`, `process_and_commit_block`, `fail_stop` | accepted blocks form one chain; each output is spent once; after a failure nothing is stored but what was under way |
| Storage (`aurion-storage`) | four redb tables: blocks, height index, UTXOs, metadata | `open`, `get_tip`, `get_block`, `get_utxo`, `commit_block` | the tables agree after every commit, error and crash |
| Consensus (`aurion-consensus`) | none | structure, subsidy, compact target, merkle root, proof of work | supply stays on its schedule; a target survives its compact form |
| eUTXO rules (`aurion-eutxo`) | none | locktime, relative sequence, maturity, fee policy | a transaction is admitted only when it may be mined next |
| Mempool (`aurion-node/src/mempool`) | three indexes and a byte counter | `insert`, `remove`, `process_committed_block`, `select_transactions_for_block` | the indexes agree; nothing staged conflicts; size is bounded |
| Script VM (`aurion-script`) | a bounded stack, an operation counter | `execute_contract` | a contract accepts only what it demands; limits are kept |
| Node service (`bin/aurion`) | authority, storage, and the mempool behind a tokio `RwLock` | four RPC handlers, block and transaction listeners | pool and ledger never contradict one another for good; every call returns |
| Core types (`aurion-core`, `aurion-primitives`) | none | `encode_canonical`, `decode_canonical`, `sighash`, `compute_merkle_root` | each value has one encoding; a signature binds all but the scripts; a block hash stands for one effect on the ledger |
| RPC (`aurion-rpc`) | per connection: the bytes read so far | `call`, `handle_connection`, `read_frame`, `write_frame` | what is handled is what was sent; answers match requests; nobody waits in vain |
| P2P (`aurion-network`) | a zenoh session, two topics | `broadcast_block`, `broadcast_transaction`, the two subscriptions | whatever is lost or damaged, no node mixes two chains |
| Miner (`commands/mine`) | the candidate, `extra_nonce`; in a search the nonce, the threads' flag | `run_miner`, `mine_candidate`, `target_to_bits`, `build_coinbase_transaction` | the header it mines is what the template asked for; no solution is passed over; coinbases differ; the chain grows while its pool can be mined |
| Wallet, indexer, command line | none | stubs, argument parsing | not modelled |

**How the parts meet.** Each RPC connection is a tokio task, and the gossip
listeners are two more. Any of them may call `process_and_commit_block`, which
takes `&self` and no lock; each storage access in it is a redb transaction of its
own. After a successful commit the same task waits for the mempool's write lock
and runs `process_committed_block`. A transaction reads tip and median time first,
then waits for the write lock, then runs the six gates of `insert`, which reads
the UTXO table one input at a time. A template reads the tip, then selects from
the pool under the read lock. A miner is a process of its own that polls a node for
templates over RPC and submits what it solves; a block accepted this way (and only
this way) is broadcast by a spawned task. A block that arrives by gossip is
committed if it extends the tip and forgotten otherwise.

**What is hard here.** The authority's check-then-commit across separate
transactions; the window between a commit and its cleanup; a failing call while
another is past the state guard; a crash between recovery steps; the pool at its
byte limit; signed arithmetic at the ends of its range; two scripts on one stack
and one budget; search threads that give up nonces on a shared flag; answers that
are lost after the commit; gossip that loses, repeats, reorders and damages;
frames that arrive in pieces; a merkle root that two bodies share; outputs that
come back because a transaction recurs; a pool that admits what no block may carry.
`PROJECT.json` lists these as hazards, each at its line.

## 2. Modules

| Module | Stands for | Uses |
|---|---|---|
| `Chain` | transactions, blocks, outpoints, block structure, subsidy, the block's transaction rules | |
| `Ledger` | abstract: one growing chain, each block checked and applied in one step | |
| `Authority` | `AuthorityEngine` over `StorageEngine`, one action per storage access | `Chain`, refines `Ledger` |
| `Mempool` | `MempoolInner`, fee-rate order, the admission gates, eUTXO rules | `Chain` |
| `MempoolSpec` | the pool alone, called in any order with any view | `Mempool` |
| `Node` | the running node: handlers, listeners, lock, restart | `Authority`, `Mempool` |
| `Script` | the contract VM | |
| `Target` | the proof-of-work target from tip to template to header | |
| `Search` | `mine_candidate`: the parallel nonce search | `Target` |
| `Network` | several nodes, their miners, block gossip between them | |
| `Codec` | the canonical codec of every type, `sighash` | |
| `Wire` | one RPC connection, byte by byte | `Codec` |
| `MCAuthority`, `MCMempool`, `MCNode`, `MCScript`, `MCNetwork`, `MCWire` | catalogues for TLC | the module of that name |
| `DataLemmas` | lemmas about numbers, sequences, recursion, finite sums, ranks and order statistics | |
| `AuthorityProofs` | lemmas about `Chain` (the subsidy, block values), theorems about `Authority` and its refinement of `Ledger` | `DataLemmas` |
| `MempoolProofs` | theorems about `MempoolSpec` | `DataLemmas` |
| `NodeProofs` | theorems about `Node` | `AuthorityProofs`, `MempoolProofs` |
| `SearchProofs` | theorems about `Target` and `Search` | `DataLemmas` |
| `NetworkProofs` | theorems about `Network` | `DataLemmas` |
| `ScriptProofs` | theorems about `Script` | `DataLemmas` |
| `WireProofs` | theorems about `Codec` and `Wire` | `DataLemmas` |

Correspondence:

* **`Authority`.** The tables are `canonical_blocks`, `height_to_hash`,
  `canonical_utxos`, `tip_height` and `tip_hash`; a hash is the block itself, so
  Blake3 is taken as injective. A call of `process_and_commit_block` is
  `EnforceOperational`, `ReadTip`, one `LookupUtxo` for each input,
  `VerifyInvariants`, `CommitBlock`, `ReturnAccepted`, with an action for each
  early return (`RejectAtTip`, `RejectInput`, `RejectInvariants`) and each storage
  error (`TipUnreadable`, `CommitFails`). `Restart` may come at any point.
  `SerialSpec` is the same pipeline restricted to behaviours in which no two calls
  are between tip read and commit together. **The code does not enforce this
  restriction**; a node with one client and quiet gossip behaves so.
* **`Mempool`.** `by_txid`, `by_fee_rate`, `spent_outpoints` and `total_bytes` are
  the fields of `MempoolInner`. `insert` is its gates in their order, then
  capacity, one eviction, registration; `Register` and the removal operators
  update every index as the code does. Fee rates are compared by
  cross-multiplication, ties by the txid (`TxRank`) as in `fee_rate.rs`.
* **`Node`.** `SubmitBlock`, `CommitSteps`, `Cleanup` are `handle_submit_block`
  and the block listener; `ReceiveTx`, `BeginInsert`, `LookupInput`, `Stage` and
  the rejections are `handle_send_raw_tx` and the transaction listener;
  `RequestTemplate`, `BuildTemplate`, `SendTemplate` are
  `handle_get_block_template`. Only `insert` holds the lock across steps
  (`LockFree`), because it reads the ledger while holding it.
* **`Script`.** The locking script is the output's and constant; the unlocking
  script is revealed one operation at a time, so every unlocking script within the
  budget is covered. Datum and redeemer are pushed first and, like every push, may
  fail. An element is its length, its value and what it is the digest
  of; Ed25519 is the relation `Signed`. What a contract demands (`needs`, `met`) is
  not taken on faith: `DemandAssumption` derives it from the text of the locking
  script, and TLC evaluates it on the catalogue. A key lock or a hash lock demands
  a secret (`Demands`); a comparison with the height, an output or another field of
  the transaction that does not hold is a refusal (`Refuses`).
* **`Target`.** `compact_to_target` and `target_to_bits` over digits, with a byte of
  `Radix` values and a target of `Length` bytes.
* **`Search`.** A round is a set of offsets (`todo`) that threads take one by one;
  reading the flag (`GiveUp`, `GoOn`), comparing the digest and storing the flag
  (`Hash`) and returning the nonce (`ReturnNonce`) are steps of their own. The
  relaxed load may return an old `false`, never a `true` that was not stored. The
  round ends (`Solve`, `NextRound`) when all threads are back, as `find_map_any`
  does; with a solution it may leave offsets untaken. Digests are arbitrary, on
  the target or just above it.
* **`Network`.** `chain[n]` is what a node has committed; commits are atomic here,
  their interleaving is `Authority`'s. A miner is its place in the loop of
  `run_miner` with its candidate. `calls` are submissions a node has received,
  which outlive the connection they came by; `tasks` the broadcasts it has
  spawned; `sent` the blocks ever published, any of which any node may receive at
  any later time (`Receive`), as it is or altered (`Arriving`). A block hash is
  the content of the header and its ancestors, so headers of equal content are
  equal, and a mark stands for what time and nonce make different. `pool[n]` is what
  clients and peers have staged (`Stage`): the gates compare its inputs with the
  other reservations and the ledger, not with one another, and run its contracts at
  the next height, so it may hold what no block can carry. A template has the whole
  pool (`Pending`); a commit removes what it confirms or conflicts with, a refusal
  nothing. The miners in `Foreign` are other programs: they put any of `Bodies`
  after the coinbase, repeated transactions included, as a block's rules
  (`Acceptable`) allow more than this program's pool ever offers.
* **`Codec`, `Wire`.** A type is a pair of functions, `encode_canonical` on its
  values and `decode_from_cursor` on bytes; each type of the program is built with
  the few forms its code uses: an integer of a width, a length-prefixed vector with
  a limit, fields in sequence, a tagged case, alternatives, a counted list. A
  struct's value is nested pairs. The two loops of
  `read_frame`/`handle_connection` are the states of `server`. The client may be
  any program: its first payload is any encoding with a byte changed, cut off or
  added. Numbers of eight bytes and more are scaled to one byte, which only
  matters for how many there are; two- and four-byte lengths keep their order
  (`W16 < W32`). Memory is not modelled: a count that claims more elements than
  follow is a decoding error (section 5).

Data that no property tells apart is left abstract: txids and block hashes are
model values, proof of work and merkle root are the verdict on each block,
contracts enter the ledger modules as `ScriptHeights` (the heights at which all
contracts of a transaction accept), times and sizes are small numbers.
`ReceiveTx` reads tip and median time in one step, although a block may commit
between the two reads: both values are stale by the time the lock is granted
anyway, and the model lets any number of commits happen in between.

## 3. Runs

Every run offers every block and transaction of a small catalogue at every
moment, in any order and any number of times. That is also how clients and peers
enter: gossip may lose, repeat and reorder, and so may the environment here.

| Run | Checks | Bounds | States |
|---|---|---|---|
| `serial` | `ChainLinked`, `SpendsBacked`, `UtxoExact`, `SupplyBounded`, `AppendOnly`, `ImplementsLedger` | two callers that do not overlap, storage errors, restarts, height 3, transactions that recur | 7484 |
| `concurrent` | `AuthTypeOK`, `StoredTree`, `TablesAgree`, `FailureContained` | two callers, any interleaving, errors, restarts | 124 432 |
| `mempool` | `PoolTypeOK`, `IndexesAgree`, `BytesExact`, `SelectionGreedy`, `BlockEvictsConflicts`, `EvictsCheapest`, `GrowsOnlyBelowCeiling` | pool of 12 bytes, any view, tip and median time | 206 |
| `node` | `NodeTypeOK`, `PoolBacked`, `TemplateSpendable` | two block submitters (symmetric), one transaction task, one miner, errors, restarts | 1.43 million |
| `node_live` | `StaleEvicted`, `CallsReturn` | one block submitter, two transaction tasks contending for the lock | 5241 |
| `script` | `ScriptTypeOK`, `Guarded`, `ArithmeticExact` | six contracts, every unlocking script, integers -4 .. 3, depth 3, budget 6 | 1.24 million |
| `search` | `TargetTypeOK`, `SearchTypeOK`, `TemplatesRoundTrip`, `NeverEasier`, `EmptyRoundExhausted`, `SolvedPasses`, `Solved` | all targets of 4 digits base 4, all compact bits; two threads, 3 nonces in batches of 2, any digests | 158 016 |
| `network` | `CoinbasesDiffer`, `FollowersTrail`, `SameHashSameEffect`, `ChainGrows` | two nodes with a miner each, one of them foreign, a follower, height 2, one fault, `extra_nonce` modulo 2, both miners paying the same script; clients send a transaction that names an input twice and one whose contract accepts height 1 only | 217 792 |
| `wire` | `RequestsIntact`, `AnswersMatch`, `SignaturesBind`, `Settled` | two requests per connection, every one-byte alteration of six requests, bytes of 6 values, frames of at most 25 bytes | 114 756 |

Why the bounds are enough. The catalogue of `MCAuthority` has siblings, a block with the
wrong parent or height, one that spends what another spends, one that spends within
itself twice, one that overpays its coinbase, one that repeats an older coinbase whose
output is spent by then, and one that spends it again; height 3 crosses a halving. Two
callers suffice for every race in the pipeline, as each step concerns one caller and the
shared tables. The pool's catalogue fills it, makes a small transaction the victim of a
large one, and has locks by height, by time and by relative sequence on both sides of
their thresholds. In `MCNode` two transactions compete for an output and siblings
confirm one each, a third spends what one of them creates and is time-locked, and the
pool of the liveness run is full after one. In the VM, overflow, underflow, too long an
element, too deep a stack and an exhausted budget are all a few operations away.
`Target` needs only that a mantissa digit may carry the sign bit and that a target may
be shorter, equal or longer than the mantissa; `Search` that two threads can be on two
nonces of one batch, and that the batch does not divide the nonce space. In `Network`
two heights let a block arrive before its parent and a late submission meet a later
template; two producers fork at once; the foreign body makes a list of three
transactions, so a layer is padded, whose last one has no input: peers can turn it into
a list of four, and two nodes do end up with different bodies under one header; the pool
may be poisoned before or after a block, and a block from the other node may pass the
height of a contract; one fault is a lost answer, a restarted miner or a crashed node at
any moment. In `Wire` the requests have every kind, with and without script, datum and
redeemer; one of the answers exceeds the frame. `script` does not check deadlock (a
script ends); in all other runs the system never stops.

Three runs are expected to be violated. Each states a sentence of the repository
that the code does not keep, and its trace shows why:

| Run | Statement | What happens |
|---|---|---|
| `doublespend` | SPEC-02: "Each `OutPoint` in the active UTXO set may be spent exactly once." | two overlapping calls look the same output up, both commit a block spending it; removing an absent key is no error |
| `failstop` | SPEC-01: in Failed "all mutation operations are permanently locked" | a call past the guard commits after another call has failed the node |
| `maturity` | SPEC-02: coinbase outputs wait 100 confirmations | the block pipeline never calls the maturity check |

In `serial` transactions recur, so `SpentOnce` would fail there, too, with one caller
and no fault: a block spends the output of a coinbase (`b1s`), the next one repeats that
coinbase (`r2`), a third spends its output again (`r3`). What holds whatever recurs is
stated of the ledger's history instead: every input of a stored block was in the ledger
its predecessors left (`SpendsBacked`), and the UTXO table is what replaying the stored
blocks gives (`UtxoExact`).

**Fairness** (`FairNodeSpec`). The tokio runtime runs a task that can run: weak
fairness of the pipeline's and insert's steps. Tokio's `RwLock` queues its
waiters in order: strong fairness of the two ways to take the write lock. Nobody
is obliged to submit anything, to fail, or to restart the node. `StorageFaults` is
off in the liveness run, since an error only shortens a call.

`FairSearchSpec`: the pool's threads run, and `mine_candidate` goes on when they
are done. `FairNetSpec`: a miner that can be given a template eventually is (it
polls without end), it finds a solution (`Solved`, under the same proviso that
there is one), and a node serves what has reached it; gossip promises nothing, and
faults are bounded. Nobody is obliged to send a transaction. `ChainGrows` has one
exception, which is real (section 5): a transaction that poisons the pool and stays
there. `FairWireSpec`: TCP delivers what was written to a connection
that stays open, and the server's task runs.

**Mutants.** Each property of a passing run has a mutated definition, kept next to
the original under a comment "Mutant", that changes the code's behaviour the way a
plausible slip would; with it in place TLC refutes the property.

## 4. Proofs

The theorems hold for any set of workers, tasks, blocks, transactions, nodes,
miners, threads and contracts that meets the named assumptions:

| Module | Assumptions | What they say |
|---|---|---|
| `Chain` | `HashAssumption`, `TxAssumption`, `BlockAssumption`, `GenesisAssumption`, `NumberAssumption`, `PremineAssumption` | the constants have their types; the zero hash names nothing; the subsidy is below `u128::MAX`; genesis is at height 0 and its one coinbase pays the premine |
| `Authority` | `FaultAssumption` | a type |
| `Mempool`, `MempoolSpec` | `PoolAssumption`, `EnvAssumption` | types; sizes are positive; txids have a strict order; a view knows outputs of transactions only |
| `Node` | `NodeAssumption` | types; the median's window is not empty |
| `Target`, `Search` | `SizeAssumption`, `SearchAssumption` | a target has more than three bytes, a byte an even number of values; finitely many threads; batch and nonce space not empty |
| `Network` | `NetworkAssumption`, `LeafAssumption` | types; there is a miner; no txid is the digest of two others (an idealisation like the injective hash: no transaction's encoding is two hashes in a row) |
| `Script` | `WidthAssumption`, `ContractAssumption`, `ContextAssumption`, `DemandAssumption` | types; at most one datum and one redeemer; counts, times and values fit their widths; a contract needs only secrets that an enforced check of its text names; a secret is not shown by the script or the transaction, is no digest and has no length that `OP_ADD` produces |
| `Codec` | `CodecAssumption` | a byte has more than four values (the tags); lengths of datum and redeemer fit two bytes |
| `Wire` | `WireAssumption` | the frame limit and what a client writes fit four bytes of length; requests are requests; a handler answers with the kind it was asked for, or an error |

| Theorem | Statement | For |
|---|---|---|
| `TypeCorrect` | `AuthTypeOK` | any interleaving |
| `TreeStored` | `StoredTree` | any interleaving |
| `TablesConsistent` | `TablesAgree` | any interleaving |
| `FailureIsContained` | `FailureContained` | any interleaving |
| `ChainIsLinked` | `ChainLinked` | `SerialSpec` |
| `PipelineImplementsLedger` | `ImplementsLedger` | `SerialSpec` |
| `HistoryIsFinal` | `AppendOnly` | `SerialSpec` |
| `SupplyIsBounded` | `SupplyBounded` | `SerialSpec` |
| `SpendsAreBacked` | `SpendsBacked` | `SerialSpec`, whatever recurs |
| `UtxoIsExact` | `UtxoExact` | `SerialSpec`, whatever recurs |
| `PoolTypeCorrect` | `PoolTypeOK` | the pool alone, any view |
| `IndexesStayInAgreement` | `IndexesAgree` | the pool alone, any view |
| `BytesAreExact` | `BytesExact` | the pool alone, any view |
| `BlockCleanupIsExact` | `BlockEvictsConflicts` | the pool alone |
| `EvictionIsOfTheCheapest` | `EvictsCheapest` | the pool alone |
| `GrowthIsBounded` | `GrowsOnlyBelowCeiling` | the pool alone |
| `SelectionIsGreedy` | `SelectionGreedy` | any pool and any block size |
| `NodeTypeCorrect` | `NodeTypeOK` | the node, any number of tasks |
| `PoolIsBacked` | `PoolBacked` | the node, any number of tasks |
| `TemplatesAreSpendable` | `TemplateSpendable` | the node, any number of tasks |
| `TargetsTyped` | `TargetTypeOK` | targets of any length, bytes of any even radix |
| `TargetsRoundTrip` | `TemplatesRoundTrip` | the same |
| `BitsNeverEasier` | `NeverEasier` | the same |
| `SearchTyped` | `SearchTypeOK` | any number of threads, batch and nonce space |
| `NoSolutionSkipped` | `EmptyRoundExhausted` | the same |
| `SolvedHeadersPass` | `SolvedPasses` | the same, and targets of any length |
| `CoinbasesAreDistinct` | `CoinbasesDiffer` | any nodes, miners and payout scripts |
| `FollowersNeverMix` | `FollowersTrail` | the same, any loss, repetition and damage |
| `HeaderBindsEffect` | `SameHashSameEffect` | the same, bodies of any length and of any miner |
| `ContractsStayBounded` | `ScriptTypeOK` | any contracts, any unlocking script, any limits |
| `ArithmeticIsExact` | `ArithmeticExact` | integers of any width |
| `ContractsAreGuarded` | `Guarded` | any contracts, any unlocking script, any limits |
| `CanonicalForm` | `decode_canonical(t, b)` holds `v` exactly when `b` is the encoding of `v` | transactions, headers, blocks and messages of any size, any widths and limits |
| `RequestsAreIntact` | `RequestsIntact` | any client, any number of frames of any length |
| `AnswersAreMatched` | `AnswersMatch` | the same, any handlers |
| `SignaturesAreBound` | `SignaturesBind` | transactions of any size |

**Recursion.** `DataLemmas` derives induction over the naturals in the form the
provers can use, with a set in place of a predicate (`SetInduction`,
`SubsetInduction`, from the well-foundedness of `<`). What a recursive function
computes is proved with it in two steps: that a function with the recursive
equation exists, by extending it one value at a time, so that the definition
denotes one, and then the property, by induction along that equation. Sums over
finite sets (`SumUnion`, `SumLeq`, `SumFamily` and their kin), the halving of the
subsidy, the packing of a block, the layers of a merkle tree, the number of strings
of a length, the number a target writes, big-endian integers, the elements of a
list and the stream of frames are all handled so. No model declares a `RECURSIVE`
operator.

The arguments:

* *Tables, any interleaving.* A call past its tip read has a parent that was
  stored then; stored blocks are never removed, so it still is at commit, whatever
  others committed meanwhile. That a *height* is never skipped follows because the
  parent's height is indexed and the index only grows or is overwritten in place.
* *Serial chain.* `SerialInv` adds what the tip read established and nobody can
  have disturbed: while a call is in flight its block extends the current tip, and
  the inputs before `cursor` are still unspent (`ReadsHold`). Neither `ChainLinked`
  nor the refinement is inductive without it. The commit is then exactly one
  `Extend` of `Ledger`, and every other step, crashes included, a stutter.
* *Supply.* A block adds at most the subsidy of its height: each of its other
  transactions pays out no more than the unspent outputs it names, no two of them
  name the same one, and the coinbase is capped, its checked sum included. Both
  sides of the bound are sums over finite sets that one commit changes by one block.
* *Coins.* `Replay` gives for every height the outputs that were created below it
  and not spent since they were last created, so an output that a recurring
  transaction overwrites or revives is in it again. One block more leaves the replay
  below as it was and changes the whole as `commit_block` changes the table, removal
  before insertion (`ReplayExtends`). While a call is in flight nobody else commits,
  so the inputs it found are in that replay when it commits.
* *Failure.* A call that is past the guard has its block in `job` until it is over;
  of the steps it has left only the commit writes, and ends it. No step of the
  pipeline leaves Failed, and a restart ends all calls.
* *Pool.* `PoolInv` is the agreement of the three indexes, with `spent_outpoints`
  as a function whose domain is what staged transactions spend. Adding and
  removing a set of transactions are lemmas; the cleanup of a block and the
  eviction of a victim are instances. The byte counter is a sum over `by_txid`
  that each of them changes by what it adds and removes, so that the saturating
  subtraction never saturates.
* *Selection.* The fee-rate order is total and strict (`CrossMultiplication` and
  the txid rank), so each staged transaction has exactly one place (`Places`), and
  when the packing reaches a transaction it has taken from precisely those that
  outrank it.
* *Node.* `NodeInv` adds, for a task inside `insert`, that every input it has
  looked up is still unspent **or** its cleanup is pending (`CallInv`,
  `LookupsBacked`). The cleanup needs the lock this task holds, so it comes after
  the registration and evicts what was just staged. This is why the window between
  commit and cleanup is harmless to the pool. Typing needs the tables' agreement
  too, since the median is taken of the headers the index names, and that a
  nonempty finite list of times has a middle one (`OrderStatistic`). A template
  selects from the pool: backed, without conflicts, and with nothing pending.
* *Target.* What `compact_to_target` returns is zero or three adjacent bytes, the
  first without a sign (`ExpansionShape`). The mantissa `target_to_bits` takes
  starts at or after the first of them, so it holds every byte that is not zero;
  if its first byte has the sign bit it is not the first of the three, so the byte
  that is shifted out is zero and there is room to shift (`BitsRoundTrip`). For a
  target that does not fit, each byte of what the bits expand to is the target's,
  or zero, or the target's without the sign (`BitsRoundDown`), and a number does
  not grow when a digit shrinks (`ValueMonotone`).
* *Search.* `EmptyRoundExhausted` is not inductive: a thread may have given up the
  only solution. `RoundInv` says where each offset is (untaken, in a thread's
  hands, tried in vain, or given up with the flag set), that a set flag has a
  solution behind it that is returned or about to be, and that a thread on its way
  back with a hit has set the flag. When all are idle and nothing was returned, the
  flag is not set, so nothing was given up.
* *Network.* `NetInv`: a header on a chain names all its ancestors (`Linked`); a
  block in a broadcast task or published has the header of a block on the chain of
  a node that miners submit to (`Mined`); every chain trails one of those
  (`Trails`). Those chains only grow at their end. A published block that extends a
  follower's tip names the follower's chain as its ancestors, so the follower
  trails the chain it was mined on, before and after. The coinbase carries its
  height, which alone sets two coinbases of one ledger apart.
* *Merkle root.* Two lists *agree* when they have the same element wherever both
  have one, and the same elements in all. If the digests over two layers agree, so
  do the layers, padded or not (`LayersAgree`); from one root down to the leaves, the
  two bodies agree (`Descend`, `MerkleRootBinds`), as no txid is a digest of two. So
  what one body has in excess is a transaction that both have, and the longer one has
  twice. It is not the coinbase, and had it an input, `verify_block_invariants` would
  have met that input twice (`BodiesAgree`).
* *VM.* Every element is a string of at most `MaxElement` bytes whose value fits
  its length, whatever produced it; a short operand is therefore never negative,
  and the remainder that `to_le_bytes` keeps decodes to the number it was taken of
  exactly when `checked_add` let it pass.
* *Contracts.* `Guarded` speaks of the end of a script, so `GuardInv` says what
  holds while it runs. A secret on the stack was put there by the spender: no other
  operation can produce one. After each operation of the locking script the top of
  the stack is what `Shown` reads off its text, whatever the unlocking script left
  below. When the script has passed an enforced check, or has the answer of one on
  top and is about to look at it, the element it compared was the secret, so
  `supplied` has it; a check the transaction contradicts is never passed. The last
  operation's answer is what `Judge` looks at.
* *Codec.* `IsCodec` says of a type that what decodes is the encoding of what was
  decoded followed by the rest, that every encoding decodes whatever follows it,
  and that there is one result at most. Integers have it by induction over the
  width (`IntegerCodec`), and each form keeps it: pairs, vectors, tagged cases,
  alternatives with disjoint tags, and lists by induction over their length
  (`ElementsCodec`). Every type of the program follows. Bytes left over are the
  only other way to two encodings of one value, and `decode_canonical` refuses them.
* *Connection.* `RequestsIntact` is not inductive: it needs where the frame borders
  are. `Framed` says that the payloads written are those handled so far and a rest
  `todo`, and that the bytes unread, on their way or lost with the connection are
  exactly the frames of `todo`, or, after a length was read, what follows it. The
  length in front then is that of the payload written next, so `read_exact` takes
  this payload and nothing else, in whatever pieces it came. `Understood` keeps
  what each handled request was decoded from, `Answered` that there is one reply to
  each but the one in hand.
* *Sighash.* A copy with empty scripts is a transaction again, so its encoding
  decodes whatever follows it, and the index behind it can be read off too; two
  copies are equal exactly when the transactions differ in scripts only.

Only model-checked: liveness (`Solved`, `ChainGrows`, `Settled`, `StaleEvicted`,
`CallsReturn`) and with it `ENABLED`, which are out of the prover's reach. Every
other property of a passing run is a theorem as well.
The statements the code does not keep are refuted by their runs.

## 5. Further disagreements noticed

Not each of these has a run; they are listed for the maintainers.

* Overlapping sibling blocks leave both stored while the index names one; SPEC-03
  calls the index the canonical chain (`ChainLinked` fails under `AuthSpec`).
* A UTXO read error counts as a missing output (`authority/engine.rs:154`), where
  SPEC-04 makes an "unreadable UTXO record" a `LedgerCorruption` fault.
* A template requested between a commit and its cleanup may hold spent inputs;
  SPEC-07 calls it a "Fresh mining template". `TemplateSpendable` states what does hold.
* **A stalled chain.** The gates admit transactions no block may carry: one that
  names an input twice (`validation.rs:80` compares inputs with the pool and the
  ledger only, and its value is counted twice), and one whose contract accepts only
  heights that then pass (`validation.rs:124`). Every template offers them, the block
  is refused whole, and a refused block leaves the pool alone
  (`rpc_handler.rs:289`), so a node whose miners all mine its templates commits
  nothing more until a foreign block conflicts with the transaction, a better paying
  one displaces it, or the node restarts. This is the exception in `ChainGrows`.
* **Decoders.** `Vec::with_capacity` gets the number of elements an encoding claims,
  a `u32`, before an element is read (`aurion-core/src/tx.rs:285` and `:298`,
  `block.rs:126`, `aurion-rpc/src/template.rs:42`). A short frame may ask for hundreds
  of gigabytes; a failed allocation ends the process, where `Codec` has a decoding
  error that ends one session. What `Wire` shows is about values, not memory.
* **Two bodies, one hash.** A block may repeat a transaction without inputs, which
  only the mempool refuses, so two bodies of different length can be valid under one
  header. `SameHashSameEffect` says why the ledgers do not differ.
* `beats` promises "a strictly higher fee-rate" (`fee_rate.rs:91`); at equal rates it
  is the txid that decides, so a newcomer may displace an equal.
* SPEC-02 allows "201 non-push opcodes"; the VM counts pushes as well, in one
  budget for both scripts.
* SPEC-05 gives `MAX_TARGET_BITS` as `0x207FFFFF`, the code `0x1f00ffff`; a header's
  bits are never compared with the tip's.
* `README.md` says a double spend leads to `Failed`; the code only rejects the block.
* SPEC-02 leaves unlocking scripts out of the txid; the code hashes them.
* **Repeated coinbase.** `commit_block` inserts the outputs of a transaction whether or
  not its txid was seen before (`aurion-storage/src/engine.rs:74`), and no check
  requires a coinbase to differ from an earlier one. A block with an old coinbase
  re-creates spent outputs, which are then spent again, against SPEC-02's "exactly
  once", with one caller and no fault (section 3). Only the miner's payload keeps
  coinbases apart: `CoinbasesDiffer` is about miners that put the height there, foreign
  ones included.
* **Capacity.** `insert` evicts one victim and does not check the total again
  (`mempool/mod.rs:148`): a large newcomer that displaces a small one leaves the
  pool above `max_bytes`, the "Hard capacity ceiling in bytes" of line 112.
  `GrowsOnlyBelowCeiling` is what holds.
* `coinbase.rs:5` promises every candidate a unique coinbase txid. `extra_nonce`
  starts again with the process and miners may share a payout script, so two
  candidates of the *same* height may well have the same one; heights differ.
* SPEC-07 builds the coinbase from `coinbase_subsidy + total_fee`; the miner passes
  zero fees, and the validator would refuse them.
* SPEC-06 describes a handshake and a block synchronisation (`version`,
  `getblocks`, `inv`) that the binary does not have. There is no orphan pool, no
  request for a missing block and no fork choice: two nodes that mine at the same
  time, or a node that misses one block, are apart for good. `FollowersTrail` is
  what holds; agreement is not a property of this code.
* A header without a solution among its 2^64 nonces would be searched forever: the
  time and `extra_nonce` change only with the next template.
* Relative locks are measured from height 0, because the stored output does not
  say when it was created; locktimes are not checked in blocks at all.

## 6. Not modelled

Hash and signature functions (injective, arbitrary for the proof of work, and a
relation); the GPU search (it only detects an adapter) and the miner's telemetry;
`SyncEngine`'s peer queries (`query.rs`), which no running path calls, and the
configuration of the zenoh session; transaction gossip as a protocol (what peers
send enters `Node` as any transaction at any time); the end of the RPC server on
an accept error; wallet and indexer stubs; the command line; memory, and so an
allocation that fails. redb is external: a
write transaction is atomic, one whose commit returns an error wrote nothing.

## 7. Plan

1. The wide multiplication behind the fee-rate comparison, against its reference.
2. `SyncEngine`, once the binary uses it.
3. Transaction gossip as a protocol in `Network`: there the pools are filled by
   clients at any time, as in `Node`.
4. Storage errors in `Network`, whose nodes do not fail.
