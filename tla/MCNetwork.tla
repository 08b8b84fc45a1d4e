----------------------------- MODULE MCNetwork -----------------------------
(***************************************************************************)
(* Nodes "a", with a foreign miner, "b", with one of this program, and "c" *)
(* without; both mine for the same script. Of the transactions, "y"        *)
(* consumes nothing, "d" names its input twice, and the contract of "l"    *)
(* accepts height 1 only.                                                  *)
(***************************************************************************)
EXTENDS Network

tx(name) == <<name, 0, 0>>

MCTx == {tx("y"), tx("d"), tx("l")}

MCTxIn ==
    LET inputs == [y |-> <<>>, d |-> <<1, 1>>, l |-> <<2>>]
    IN  [u \in Tx |-> inputs[u[1]]]

MCScriptHeights == [u \in Tx |-> IF u = tx("l") THEN {1} ELSE 1 .. MaxHeight]

MCHome == [m1 |-> "a", m2 |-> "b"]
MCPayout == [m1 |-> "p", m2 |-> "p"]

(* What clients send: one that no block may carry, and one that only a     *)
(* block of height 1 may.                                                  *)
MCFeeOrder == <<tx("d"), tx("l")>>

(* What the foreign miner adds to its coinbase: an odd list, whose last    *)
(* one consumes nothing, so that its padding makes a valid body, too.      *)
MCBodies == {<<tx("y"), tx("y")>>}
=============================================================================
