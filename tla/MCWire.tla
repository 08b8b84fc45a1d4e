------------------------------- MODULE MCWire -------------------------------
(***************************************************************************)
(* Requests of every kind, transactions with and without a redeemer, a     *)
(* datum and a script, and answers of every kind, one of them too large.   *)
(***************************************************************************)
EXTENDS Wire

Plain == Tx(1, <<>>, <<>>, 2)
Contract == Tx(1, <<Input(<<3, 1>>, <<2>>, 1, <<1, <<4>>>>)>>, <<<<<<2, <<>>>>, <<2, <<1>>>>>>>>, 0)
Bare == Tx(1, <<Input(<<3, 1>>, <<>>, 1, <<0, <<>>>>)>>, <<<<<<2, <<1>>>>, <<1, 3>>>>>>, 0)

MCRequests ==
    {<<0, <<2>>>>, <<1, <<<<<<<<<<1, 2>>, 3>>, 1>>, <<<<5, 0>>, 1>>>>, <<Plain>>>>>>, <<2, Plain>>,
     <<2, Contract>>, <<2, Bare>>, <<3, <<>>>>}

MCLater == {<<0, <<2>>>>, <<3, <<>>>>}

Template(txs) == <<0, <<<<<<<<1, 2>>, 3>>, 1>>, <<<<5, 0>>, txs>>>>>>

MCAnswers(request) ==
    {<<4, <<1>>>>} \cup
    (CASE request[1] = 0 -> {Template(<<Plain>>), Template(<<Contract, Bare>>)}
       [] request[1] = 1 -> {<<1, <<0, <<2, 1>>>>>>, <<1, <<1, <<3>>>>>>}
       [] request[1] = 2 -> {<<2, 3>>}
       [] request[1] = 3 -> {<<3, <<<<1, 2>>, 0>>>>})
=============================================================================
