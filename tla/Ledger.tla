------------------------------- MODULE Ledger ------------------------------
(***************************************************************************)
(* What the authority promises (SPEC-01, SPEC-02, SPEC-03): a single chain *)
(* of blocks that only grows, each block checked against the chain and the *)
(* unspent outputs it really extends, in one indivisible step.             *)
(***************************************************************************)
EXTENDS Naturals, Sequences

CONSTANTS
    Block,
    Genesis,
    Parent(_),        \* the block a block builds on
    Acceptable(_, _), \* whether a block passes, at a height, every check
                      \* that does not depend on the unspent outputs
    Spends(_),        \* the outputs a block consumes
    Created(_)        \* the outputs it creates

VARIABLES
    chain,   \* the canonical blocks, from genesis to the tip
    unspent  \* the unspent outputs after the last of them

ledgerVars == <<chain, unspent>>

LedgerInit == chain = <<>> /\ unspent = {}

(* b is a valid successor of this very ledger.                             *)
Extends(b) ==
    IF chain = <<>>
    THEN b = Genesis
    ELSE /\ Parent(b) = chain[Len(chain)]
         /\ Acceptable(b, Len(chain))
         /\ Spends(b) \subseteq unspent

Extend(b) ==
    /\ Extends(b)
    /\ chain' = Append(chain, b)
    /\ unspent' = (unspent \ Spends(b)) \cup Created(b)

LedgerNext == \E b \in Block : Extend(b)

LedgerSpec == LedgerInit /\ [][LedgerNext]_ledgerVars
=============================================================================
