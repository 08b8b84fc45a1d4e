----------------------------- MODULE MCMempool -----------------------------
(***************************************************************************)
(* A catalogue for model checking MempoolSpec: transactions of different   *)
(* sizes and fee rates (two of equal rate), rivals for the same output,    *)
(* one that spends an output twice, one refused at each gate, and blocks   *)
(* that confirm some of them and conflict with others.                     *)
(***************************************************************************)
EXTENDS MempoolSpec, TLC

Null == <<"zero", 1>>

Txs ==
    LET open == [final |-> FALSE, disabled |-> FALSE, delay |-> 0]
        tx(in, out, size, rank) ==
            [in |-> in, out |-> out, size |-> size, rank |-> rank, lock |-> 0,
             seq |-> [i \in DOMAIN in |-> open], heights |-> 0 .. 9]
        src(n) == <<"cg", n>>
    IN  [cg |-> tx(<<Null>>, <<20, 20, 20, 20, 20, 6>>, 5, 1),
         a  |-> tx(<<src(1)>>, <<16>>, 2, 2),               \* rate 2
         b  |-> tx(<<src(2)>>, <<14>>, 3, 3),               \* rate 2
         c  |-> tx(<<src(3)>>, <<8>>, 4, 4),                \* rate 3
         d  |-> tx(<<src(1), src(2)>>, <<30>>, 2, 5),       \* rate 5, rival of a and b
         f  |-> tx(<<src(6)>>, <<2>>, 1, 19),               \* rate 4, the smallest
         e  |-> tx(<<src(4)>>, <<17>>, 3, 6),               \* rate 1
         twin  |-> tx(<<src(5), src(5)>>, <<30>>, 5, 7),    \* one output, twice
         big   |-> tx(<<src(4)>>, <<2>>, 7, 8),             \* above MaxTxSize
         cheap |-> tx(<<src(4)>>, <<20>>, 1, 9),            \* no fee
         mint  |-> tx(<<src(4)>>, <<25>>, 1, 10),
         over  |-> tx(<<src(4)>>, <<90, 90>>, 1, 11),
         ghost |-> tx(<<<<"a", 9>>>>, <<1>>, 1, 12),        \* no such output
         hollow |-> tx(<<>>, <<1>>, 1, 13),
         burn  |-> tx(<<src(4)>>, <<>>, 1, 14),
         late  |-> [tx(<<src(5)>>, <<10>>, 1, 15) EXCEPT !.lock = 2],
         timed |-> [tx(<<src(5)>>, <<10>>, 2, 16) EXCEPT !.lock = 60],
         slow  |-> [tx(<<src(5)>>, <<10>>, 3, 17) EXCEPT
                        !.seq = <<[open EXCEPT !.delay = 3]>>],
         picky |-> [tx(<<src(5)>>, <<10>>, 4, 18) EXCEPT !.heights = {3}]]

MCTx == DOMAIN Txs
MCTxIn == [t \in MCTx |-> Txs[t].in]
MCTxOut == [t \in MCTx |-> Txs[t].out]
MCScriptHeights == [t \in MCTx |-> Txs[t].heights]
MCTxSize == [t \in MCTx |-> Txs[t].size]
MCTxRank == [t \in MCTx |-> Txs[t].rank]
MCSequence == [t \in MCTx |-> Txs[t].seq]
MCLocktime == [t \in MCTx |-> Txs[t].lock]

Bodies == [g |-> <<"cg">>, ba |-> <<"cg", "a">>, bd |-> <<"cg", "d", "c">>, bce |-> <<"cg", "c", "e">>]
MCBlock == DOMAIN Bodies
MCBody == Bodies
MCHeader == [b \in MCBlock |-> [prev |-> "zero", height |-> 0, pow |-> TRUE, merkle |-> TRUE]]

(* The view of a young chain whose fifth genesis output is still immature, *)
(* and of one where output 1 is already spent.                             *)
MCViews ==
    LET out(coinbase) == [creation_height |-> 0, is_coinbase |-> coinbase]
        all == {<<"cg", n>> : n \in 1 .. 6}
    IN  {[op \in all |-> out(op = <<"cg", 5>>)],
         [op \in all \ {<<"cg", 1>>} |-> out(FALSE)]}
=============================================================================
