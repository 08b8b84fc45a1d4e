---------------------------- MODULE MCAuthority ----------------------------
(***************************************************************************)
(* A catalogue of transactions and blocks for model checking Authority:    *)
(* a good chain of four blocks, a sibling at height 1 that spends the same *)
(* output, and at height 2 one block for every way a block can be refused. *)
(* Every block is offered at every moment, so late, repeated and           *)
(* out-of-order deliveries are all included. r2 and r3 repeat a coinbase   *)
(* and the transaction that spends it, which the validator allows.         *)
(***************************************************************************)
EXTENDS Authority

CONSTANTS w1, w2

Null == <<"zero", 1>>

(* [in, out, heights] of each transaction; c* are coinbases.               *)
Txs ==
    LET tx(in, out) == [in |-> in, out |-> out, heights |-> 0 .. 9]
        coinbase(out) == tx(<<Null>>, out)
    IN  [cg  |-> coinbase(<<6, 4>>),
         c1  |-> coinbase(<<4>>), c1s |-> coinbase(<<2>>),
         c2  |-> coinbase(<<2>>), c2b |-> coinbase(<<2, 1>>),
         c2c |-> coinbase(<<1>>),
         c3  |-> coinbase(<<2>>), c3s |-> coinbase(<<2>>), c4 |-> coinbase(<<1>>),
         t1  |-> tx(<<<<"cg", 1>>>>, <<5, 1>>),         \* good, no fee
         t1s |-> tx(<<<<"cg", 1>>>>, <<6>>),            \* rival of t1
         t2  |-> tx(<<<<"t1", 1>>, <<"c1", 1>>>>, <<7>>), \* two inputs, fee 2
         tDup |-> tx(<<<<"cg", 2>>, <<"cg", 2>>>>, <<8>>),  \* one input twice
         tMint |-> tx(<<<<"cg", 2>>>>, <<5>>),           \* outputs exceed inputs
         tOver |-> tx(<<<<"cg", 2>>>>, <<60, 60>>),      \* sum beyond u128
         tLate |-> [tx(<<<<"cg", 2>>>>, <<4>>) EXCEPT !.heights = {3}], \* contract wants height 3
         tChain |-> tx(<<<<"tSrc", 1>>>>, <<1>>),        \* spends tSrc in its own block
         tc   |-> tx(<<<<"c1s", 1>>>>, <<2>>),           \* spends a repeated coinbase
         tSrc  |-> tx(<<<<"cg", 2>>>>, <<4>>)]

MCTx == DOMAIN Txs
MCTxIn == [t \in Tx |-> Txs[t].in]
MCTxOut == [t \in Tx |-> Txs[t].out]
MCScriptHeights == [t \in Tx |-> Txs[t].heights]

(* [prev, height, pow, merkle, body] of each block.                        *)
Blks ==
    LET blk(prev, height, body) ==
            [prev |-> prev, height |-> height, pow |-> TRUE, merkle |-> TRUE, body |-> body]
        child(body) == blk("b1", 2, body)
    IN  [g    |-> [blk("zero", 0, <<"cg">>) EXCEPT !.pow = FALSE],
         b1   |-> blk("g", 1, <<"c1", "t1">>),
         b1s  |-> blk("g", 1, <<"c1s", "t1s">>),
         b2   |-> child(<<"c2", "t2">>),
         b2s  |-> child(<<"c2c">>),                 \* rival of b2
         r2   |-> blk("b1s", 2, <<"c1s", "tc">>),   \* spends c1s and creates it again
         r3   |-> blk("r2", 3, <<"c3s", "tc">>),    \* spends it again
         b3   |-> blk("b2", 3, <<"c3", "tLate">>),
         again   |-> child(<<"c2c", "t1s">>),       \* spends what b1 spent
         twice   |-> child(<<"c2c", "tDup">>),
         rivals  |-> child(<<"c2c", "tSrc", "tLate">>),
         mint    |-> child(<<"c2c", "tMint">>),
         over    |-> child(<<"c2c", "tOver">>),
         early   |-> child(<<"c2c", "tLate">>),
         inner   |-> child(<<"c2c", "tSrc", "tChain">>),
         greedy  |-> child(<<"c2b">>),
         empty   |-> child(<<>>),
         headless |-> child(<<"tSrc">>),
         double  |-> child(<<"c2c", "c2b">>),
         lowpow  |-> [child(<<"c2c">>) EXCEPT !.pow = FALSE],
         badroot |-> [child(<<"c2c">>) EXCEPT !.merkle = FALSE],
         skipped |-> [child(<<"c3s">>) EXCEPT !.height = 3],
         toohigh |-> blk("b3", 4, <<"c4">>)]       \* above MaxHeight

MCBlock == DOMAIN Blks
MCHeader == [b \in Block |-> [prev |-> Blks[b].prev, height |-> Blks[b].height,
                                pow |-> Blks[b].pow, merkle |-> Blks[b].merkle]]
MCBody == [b \in Block |-> Blks[b].body]
=============================================================================
