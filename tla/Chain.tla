------------------------------- MODULE Chain -------------------------------
(***************************************************************************)
(* The data every other module speaks about: transactions, outpoints and   *)
(* blocks, and the stateless checks of aurion-consensus and aurion-node    *)
(* that decide whether a block may extend the ledger.                      *)
(*                                                                         *)
(* A transaction is identified by its txid and a block by its hash, so     *)
(* both are model values here, and their contents are constant functions:  *)
(* the hash determines the contents.                                       *)
(***************************************************************************)
EXTENDS Naturals, Sequences, SequencesExt

CONSTANTS
    Tx,            \* transactions, identified by txid
    Block,         \* blocks, identified by block hash
    ZeroHash,      \* Hash256::ZERO: no block, and no txid, hashes to it
    Genesis,       \* the block create_genesis_block returns
    TxIn,          \* TxIn[t]: the outpoints t spends, in order
    TxOut,         \* TxOut[t]: the values of its outputs, in order
    ScriptHeights, \* the validation heights at which all its contracts accept
    Header,        \* Header[b]: [prev, height, pow, merkle], the last two
                   \* saying whether check_pow and the merkle root agree
    Body,          \* Body[b]: the transactions of b, in order
    MaxHeight,     \* u64::MAX
    MaxQuantum,    \* u128::MAX
    Premine,       \* TOTAL_GENESIS_PREMINE_QUANTA
    InitialSubsidy,\* INITIAL_SUBSIDY_QUANTA
    HalvingInterval, \* SUBSIDY_HALVING_INTERVAL
    MaxHalvings,   \* MAX_HALVINGS
    CoinbaseMaturity \* COINBASE_MATURITY

(* An outpoint is a txid and an output number (counted from 1 here).       *)
OutPoint == (Tx \cup {ZeroHash}) \X Nat

(***************************************************************************)
(* What the types of aurion-core and genesis.rs guarantee of every         *)
(* transaction and block that decodes.                                     *)
(***************************************************************************)
ASSUME HashAssumption == ZeroHash \notin Tx \cup Block

ASSUME TxAssumption ==
    /\ TxIn \in [Tx -> Seq(OutPoint)]
    /\ TxOut \in [Tx -> Seq(Nat)]
    /\ ScriptHeights \in [Tx -> SUBSET Nat]

ASSUME BlockAssumption ==
    /\ Header \in [Block -> [prev : Block \cup {ZeroHash}, height : Nat,
                             pow : BOOLEAN, merkle : BOOLEAN]]
    /\ Body \in [Block -> Seq(Tx)]

ASSUME GenesisAssumption ==
    /\ Genesis \in Block
    /\ Header[Genesis].prev = ZeroHash
    /\ Header[Genesis].height = 0

ASSUME NumberAssumption ==
    /\ {MaxHeight, MaxQuantum, Premine, InitialSubsidy, MaxHalvings,
        CoinbaseMaturity} \subseteq Nat
    /\ HalvingInterval \in Nat \ {0}
    /\ InitialSubsidy < MaxQuantum
-----------------------------------------------------------------------------
(* Transaction::is_coinbase: exactly one input, and its txid is zero.      *)
is_coinbase(t) == Len(TxIn[t]) = 1 /\ TxIn[t][1][1] = ZeroHash

(* The outputs commit_block inserts for transaction t.                     *)
OutputsOf(t) == {<<t, v>> : v \in DOMAIN TxOut[t]}

Outputs == UNION {OutputsOf(t) : t \in Tx}

(* The value of the output an outpoint names.                              *)
ValueOf(op) == TxOut[op[1]][op[2]]

OutputValue(t) == SumFunction(TxOut[t])

(* create_genesis_block: one coinbase, which pays out the premine.         *)
ASSUME PremineAssumption ==
    /\ Len(Body[Genesis]) = 1
    /\ is_coinbase(Body[Genesis][1])
    /\ OutputValue(Body[Genesis][1]) = Premine

InputValue(t) == SumFunction([i \in DOMAIN TxIn[t] |-> ValueOf(TxIn[t][i])])

(* Every outpoint b consumes, in the order verify_block_invariants looks   *)
(* them up: the coinbase is skipped.                                       *)
InputsOf(b) ==
    FlattenSeq([i \in DOMAIN Body[b] |->
                    IF is_coinbase(Body[b][i]) THEN <<>> ELSE TxIn[Body[b][i]]])

Spends(b) == ToSet(InputsOf(b))

Created(b) == UNION {OutputsOf(t) : t \in ToSet(Body[b])}
-----------------------------------------------------------------------------
(* The initial subsidy shifted right by n places.                          *)
Halved[n \in 0 .. MaxHalvings] == IF n = 0 THEN InitialSubsidy ELSE Halved[n - 1] \div 2

(* consensus::subsidy::calculate_block_subsidy                             *)
calculate_block_subsidy(height) ==
    LET halvings == height \div HalvingInterval
    IN  IF halvings >= MaxHalvings THEN 0 ELSE Halved[halvings]

(* The most the coinbase of a block at this height may pay out: fees are   *)
(* not added.                                                              *)
AllowedCoinbase(height) ==
    IF height = 0 THEN Premine ELSE calculate_block_subsidy(height)

(* The checks of verify_block_structure: the body is not empty, the proof  *)
(* of work (from height 1 on) and the merkle root are right; the first     *)
(* transaction, and only the first, is a coinbase; it pays itself no more  *)
(* than allowed. The sum of its outputs saturates at u128::MAX.            *)
WellFormed(b) ==
    /\ Body[b] # <<>>
    /\ Header[b].height > 0 => Header[b].pow
    /\ Header[b].merkle

OneCoinbase(b) ==
    /\ is_coinbase(Head(Body[b]))
    /\ \A i \in 2 .. Len(Body[b]) : ~is_coinbase(Body[b][i])

WithinSubsidy(b, height) ==
    LET claimed == OutputValue(Head(Body[b]))
    IN  (IF claimed > MaxQuantum THEN MaxQuantum ELSE claimed) <= AllowedCoinbase(height)

(* Mutants: the height of the header is not compared with the tip's; the   *)
(* coinbase is not limited.                                                *)
verify_block_structure_any_height(b, expected_height) ==
    WellFormed(b) /\ OneCoinbase(b) /\ WithinSubsidy(b, Header[b].height)

verify_block_structure_no_limit(b, expected_height) ==
    WellFormed(b) /\ Header[b].height = expected_height /\ OneCoinbase(b)

(* consensus::verification::verify_block_structure                         *)
verify_block_structure(b, expected_height) ==
    /\ WellFormed(b)
    /\ Header[b].height = expected_height
    /\ OneCoinbase(b)
    /\ WithinSubsidy(b, expected_height)

(* The checks verify_block_invariants makes on a transaction whose inputs  *)
(* were all found: both sums fit in a Quantum, no value is created, every  *)
(* contract accepts at the block's height.                                 *)
ConservesValue(t, height) ==
    /\ OutputValue(t) <= MaxQuantum
    /\ InputValue(t) <= MaxQuantum
    /\ OutputValue(t) <= InputValue(t)
    /\ height \in ScriptHeights[t]

ValidTransactions(b) ==
    \A t \in ToSet(Body[b]) :
        ~is_coinbase(t) => ConservesValue(t, Header[b].height)

(* spent_set.insert(op) is false: op was already consumed in this block.   *)
SpentEarlier(b, k) == \E j \in 1 .. k - 1 : InputsOf(b)[j] = InputsOf(b)[k]
=============================================================================
