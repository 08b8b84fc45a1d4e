------------------------------ MODULE MCScript ------------------------------
(***************************************************************************)
(* A byte has two values and an integer three bytes (-4 .. 3), so that the *)
(* ends of every range are a few operations away. The contracts are the    *)
(* ones the repository's tests and SPEC-05 describe: a key, a hash lock, a *)
(* lock on the height, a covenant on an output.                            *)
(***************************************************************************)
EXTENDS Script

Key == [len |-> 5, val |-> 7, of |-> <<>>]
Signature == [len |-> 6, val |-> 9, of |-> <<>>]
OtherSignature == [len |-> 6, val |-> 11, of |-> <<>>]
Preimage == [len |-> 2, val |-> 3, of |-> <<>>]
Vault == [len |-> 2, val |-> 2, of |-> <<>>]  \* a locking script

(* The largest and the smallest integer, and an element that is too long.  *)
MCData ==
    {Bytes(3, 3), Bytes(3, 4), Bytes(7, 1), Preimage, Digest(Preimage), Signature,
     OtherSignature}

MCSigned == {<<Key, Signature>>}
MCSecrets == {Preimage, Signature}

MCContext ==
    [inputs |-> 1, index |-> 0, locktime |-> 0, height |-> 2,
     outputs |-> <<[value |-> 5, script |-> Digest(Vault), datum |-> Bytes(5, 0)]>>]

Lock(locking, needs, met) ==
    [locking |-> locking, datum |-> <<>>, redeemer |-> <<>>, needs |-> needs, met |-> met]

HashLock == <<Op("Hash256"), Push(Digest(Preimage)), Op("Equal")>>

MCContracts ==
    {Lock(<<Push(Key), Op("CheckSig"), Op("Verify"), Op("True")>>, {Signature}, TRUE),
     [Lock(HashLock, {Preimage}, TRUE) EXCEPT !.redeemer = <<Preimage>>],
     [Lock(<<Op("Drop")>> \o HashLock, {Preimage}, TRUE) EXCEPT !.datum = <<Bytes(7, 0)>>],
     [Lock(<<Op("Drop")>> \o HashLock, {Preimage}, TRUE) EXCEPT !.datum = <<Bytes(1, 0)>>],
     Lock(<<Op("ValidationHeight"), Push(Bytes(3, 3)), Op("Equal")>>,
          {}, MCContext.height = 3),
     Lock(<<Push(Bytes(1, 0)), Op("TxOutputScript"), Push(Digest(Key)), Op("Equal")>>,
          {}, MCContext.outputs[1].script = Digest(Key))}
=============================================================================
