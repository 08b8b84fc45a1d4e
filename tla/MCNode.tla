------------------------------- MODULE MCNode -------------------------------
(***************************************************************************)
(* A small catalogue for model checking Node: p and q compete for an       *)
(* output, r spends what p created and is locked until the median time     *)
(* passes 10, s is the cheapest and is evicted when the pool is full; b1   *)
(* confirms p and its sibling b1s confirms q, b2 confirms r.               *)
(***************************************************************************)
EXTENDS Node

CONSTANTS w1, w2, k1, k2, m1

(* The submitters of blocks are interchangeable.                           *)
WorkerSymmetry == Permutations(Workers)

Txs ==
    LET open == [final |-> FALSE, disabled |-> FALSE, delay |-> 0]
        tx(in, out, size, rank) ==
            [in |-> in, out |-> out, size |-> size, rank |-> rank, lock |-> 0,
             seq |-> [i \in DOMAIN in |-> open]]
        coinbase(rank) == tx(<<<<"zero", 1>>>>, <<4>>, 1, rank)
    IN  [cg  |-> tx(<<<<"zero", 1>>>>, <<10, 10, 10>>, 1, 1),
         c1  |-> coinbase(2), c1s |-> coinbase(3), c2 |-> coinbase(4),
         p   |-> tx(<<<<"cg", 1>>>>, <<6>>, 2, 5),
         q   |-> tx(<<<<"cg", 2>>, <<"cg", 1>>>>, <<17>>, 1, 6),
         r   |-> [tx(<<<<"p", 1>>>>, <<4>>, 1, 7) EXCEPT !.lock = 10],
         s   |-> tx(<<<<"cg", 3>>>>, <<9>>, 1, 8)]

MCTx == DOMAIN Txs
MCTxIn == [t \in Tx |-> Txs[t].in]
MCTxOut == [t \in Tx |-> Txs[t].out]
MCScriptHeights == [t \in Tx |-> 0 .. 9]
MCTxSize == [t \in Tx |-> Txs[t].size]
MCTxRank == [t \in Tx |-> Txs[t].rank]
MCSequence == [t \in Tx |-> Txs[t].seq]
MCLocktime == [t \in Tx |-> Txs[t].lock]

Blks ==
    LET blk(prev, height, time, body) ==
            [prev |-> prev, height |-> height, time |-> time, body |-> body]
    IN  [g   |-> blk("zero", 0, 5, <<"cg">>),
         b1  |-> blk("g", 1, 20, <<"c1", "p">>),
         b1s |-> blk("g", 1, 20, <<"c1s", "q">>),
         b2  |-> blk("b1", 2, 30, <<"c2", "r">>)]

MCBlock == DOMAIN Blks
MCHeader == [b \in Block |-> [prev |-> Blks[b].prev, height |-> Blks[b].height,
                                pow |-> TRUE, merkle |-> TRUE]]
MCBody == [b \in Block |-> Blks[b].body]
MCTimestamp == [b \in Block |-> Blks[b].time]
=============================================================================
