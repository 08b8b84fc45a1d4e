------------------------------- MODULE Search -------------------------------
(***************************************************************************)
(* mine_candidate: the parallel nonce search over one candidate header. A  *)
(* round hands Batch offsets to a rayon pool, whose find_map_any returns   *)
(* one of the nonces its threads come back with, if any does; the threads  *)
(* share a flag that tells them to stop. An empty round is followed by the *)
(* next batch, and the nonce wraps at NonceSpace. The solved header is the *)
(* tip the next template starts from (module Target).                      *)
(***************************************************************************)
EXTENDS Target, FiniteSets

CONSTANTS
    Threads,
    NonceSpace, \* 2^64
    Batch       \* BATCH_SIZE_PER_ROUND: does not divide NonceSpace

ASSUME SearchAssumption ==
    /\ {NonceSpace, Batch} \subseteq Nat \ {0}
    /\ IsFiniteSet(Threads)

VARIABLES
    mining,     \* mine_candidate is running on the header
    digest,     \* digest[n]: the hash of the header with nonce n, a number
    base_nonce,
    found,      \* the flag the threads share
    todo,       \* the offsets of this round that no thread has taken
    worker,     \* worker[k]: where thread k is, and with which offset
    solutions,  \* the nonces the threads have returned
    nonce       \* the nonce of the header

roundVars == <<found, todo, worker, solutions>>
searchVars == <<targetVars, mining, digest, base_nonce, roundVars, nonce>>
-----------------------------------------------------------------------------
Nonces == 0 .. NonceSpace - 1
Offsets == 0 .. Batch - 1

(* The number the bytes of t write, the first byte the highest.            *)
Value(t) ==
    LET v[n \in 0 .. Length] == IF n = 0 THEN 0 ELSE v[n - 1] * Radix + t[n]
    IN  v[Length]

(* probe.nonce = batch_base.wrapping_add(offset)                           *)
Nonce(offset) == (base_nonce + offset) % NonceSpace

(* digest.as_bytes() <= &tgt: byte order is the order of the numbers.      *)
Hit(n) == digest[n] <= Value(target)

(* difficulty::check_pow of a header with these bits.                      *)
check_pow(b, d) == \E t \in compact_to_target(b) : d <= Value(t)

(* worker[k].at is "idle", "load" before the flag is read, "hash" after,   *)
(* or "hit" once the flag is set.                                          *)
Idle == [at |-> "idle", offset |-> 0]

AllIdle == \A k \in Threads : worker[k] = Idle

SearchInit ==
    /\ TargetInit
    /\ mining = FALSE
    /\ digest = [n \in Nonces |-> 0]
    /\ base_nonce = 0
    /\ found = FALSE
    /\ todo = {}
    /\ worker = [k \in Threads |-> Idle]
    /\ solutions = {}
    /\ nonce = 0

GetTemplate ==
    /\ ~mining
    /\ MakeTemplate
    /\ UNCHANGED <<mining, digest, base_nonce, roundVars, nonce>>

(* run_miner builds the header and calls mine_candidate. Each digest lies  *)
(* on the target or just above it.                                         *)
StartSearch ==
    /\ MakeHeader
    /\ mining' = TRUE
    /\ digest' \in [Nonces -> {Value(target), Value(target) + 1}]
    /\ base_nonce' = 0
    /\ found' = FALSE
    /\ todo' = Offsets
    /\ worker' = [k \in Threads |-> Idle]
    /\ solutions' = {}
    /\ UNCHANGED nonce
-----------------------------------------------------------------------------
At(k, place) == mining /\ worker[k].at = place

(* Thread k further on with the offset it has.                             *)
Moved(k, place) == [at |-> place, offset |-> worker[k].offset]

(* A thread of the pool takes an offset. rayon may hand out more of them   *)
(* after a thread has come back with a nonce, or may not (EndRound).       *)
Take(k) ==
    /\ At(k, "idle")
    /\ \E o \in todo :
           /\ todo' = todo \ {o}
           /\ worker' = [worker EXCEPT ![k] = [at |-> "load", offset |-> o]]
    /\ UNCHANGED <<targetVars, mining, digest, base_nonce, found, solutions, nonce>>

(* found_flag.load(Relaxed): TRUE is read only once it was stored; FALSE   *)
(* may be read after that, too.                                            *)
GiveUp(k) ==
    /\ At(k, "load")
    /\ found
    /\ worker' = [worker EXCEPT ![k] = Idle]
    /\ UNCHANGED <<targetVars, mining, digest, base_nonce, found, todo, solutions, nonce>>

GoOn(k) ==
    /\ At(k, "load")
    /\ worker' = [worker EXCEPT ![k] = Moved(k, "hash")]
    /\ UNCHANGED <<targetVars, mining, digest, base_nonce, found, todo, solutions, nonce>>

(* Mutant: the flag is claimed before the digest is compared.              *)
Hash_claims_first(k) ==
    /\ At(k, "hash")
    /\ found' = TRUE
    /\ worker' = [worker EXCEPT ![k] = IF Hit(Nonce(worker[k].offset))
                                       THEN Moved(k, "hit") ELSE Idle]
    /\ UNCHANGED <<targetVars, mining, digest, base_nonce, todo, solutions, nonce>>

(* The digest is compared, and the flag is stored when it is low enough.   *)
Hash(k) ==
    LET hit == Hit(Nonce(worker[k].offset))
    IN  /\ At(k, "hash")
        /\ found' = (found \/ hit)
        /\ worker' = [worker EXCEPT ![k] = IF hit THEN Moved(k, "hit") ELSE Idle]
        /\ UNCHANGED <<targetVars, mining, digest, base_nonce, todo, solutions, nonce>>

(* Mutant: the offset is returned for the nonce.                           *)
ReturnNonce_offset(k) ==
    /\ At(k, "hit")
    /\ solutions' = solutions \cup {worker[k].offset % NonceSpace}
    /\ worker' = [worker EXCEPT ![k] = Idle]
    /\ UNCHANGED <<targetVars, mining, digest, base_nonce, found, todo, nonce>>

(* Some(nonce)                                                             *)
ReturnNonce(k) ==
    /\ At(k, "hit")
    /\ solutions' = solutions \cup {Nonce(worker[k].offset)}
    /\ worker' = [worker EXCEPT ![k] = Idle]
    /\ UNCHANGED <<targetVars, mining, digest, base_nonce, found, todo, nonce>>

ThreadStep(k) == Take(k) \/ GiveUp(k) \/ GoOn(k) \/ Hash(k) \/ ReturnNonce(k)

(* find_map_any returns one of the nonces; offsets may be left over.       *)
Solve ==
    /\ mining
    /\ AllIdle
    /\ \E n \in solutions : nonce' = n
    /\ mining' = FALSE
    /\ UNCHANGED <<targetVars, digest, base_nonce, roundVars>>

(* Mutant: the round ends as soon as every offset is taken.                *)
NextRound_early ==
    /\ mining
    /\ todo = {}
    /\ solutions = {}
    /\ base_nonce' = (base_nonce + Batch) % NonceSpace
    /\ todo' = Offsets
    /\ UNCHANGED <<targetVars, mining, digest, found, worker, solutions, nonce>>

(* Mutant: the nonce does not wrap.                                        *)
NextRound_unwrapped ==
    /\ mining
    /\ AllIdle
    /\ todo = {}
    /\ solutions = {}
    /\ base_nonce < 3 * NonceSpace
    /\ base_nonce' = base_nonce + Batch
    /\ todo' = Offsets
    /\ UNCHANGED <<targetVars, mining, digest, found, worker, solutions, nonce>>

(* find_map_any returns None: on to the next batch.                        *)
NextRound ==
    /\ mining
    /\ AllIdle
    /\ todo = {}
    /\ solutions = {}
    /\ base_nonce' = (base_nonce + Batch) % NonceSpace
    /\ todo' = Offsets
    /\ UNCHANGED <<targetVars, mining, digest, found, worker, solutions, nonce>>

SearchNext ==
    \/ GetTemplate
    \/ StartSearch
    \/ \E k \in Threads : ThreadStep(k)
    \/ Solve
    \/ NextRound

SearchSpec == SearchInit /\ [][SearchNext]_searchVars

(* The pool's threads run, and mine_candidate goes on when they are done.  *)
FairSearchSpec ==
    /\ SearchSpec
    /\ \A k \in Threads : WF_searchVars(ThreadStep(k))
    /\ WF_searchVars(Solve \/ NextRound)
-----------------------------------------------------------------------------
(* What the threads share, and which offset each of them has in hand.      *)
SearchTypeOK ==
    /\ mining \in BOOLEAN
    /\ found \in BOOLEAN
    /\ base_nonce \in Nonces
    /\ todo \subseteq Offsets
    /\ worker \in [Threads -> [at : {"idle", "load", "hash", "hit"}, offset : Offsets]]
    /\ solutions \subseteq Nonces
    /\ nonce \in Nonces
    /\ mining => at = "header"

(* mine_candidate moves on from a batch only when no nonce of it solves    *)
(* the header, although a thread that sees the flag gives up its nonce     *)
(* untried.                                                                *)
EmptyRoundExhausted ==
    [][base_nonce' # base_nonce /\ mining /\ mining'
          => \A o \in Offsets : ~Hit(Nonce(o))]_searchVars

(* The header returned for a template whose target has a compact form, as  *)
(* every target of this node has, passes check_pow under the bits it       *)
(* carries: whichever thread's nonce was taken, in whichever round.        *)
SolvedPasses ==
    [][mining /\ ~mining' /\ (\E b \in Bits : compact_to_target(b) = {target})
          => check_pow(bits, digest[nonce'])]_searchVars

(* A header that has a solution is solved: the batches reach every nonce   *)
(* although they do not divide the nonce space, and no thread's giving up  *)
(* stalls the search. (A header that has none is searched forever.)        *)
Solved ==
    (mining /\ \E n \in Nonces : Hit(n)) ~> ~mining

(* engine.rs: the encoding of a target that compact_to_target produced is  *)
(* exact. So check_pow asks of a mined block precisely what the template   *)
(* asked of the miner, and the difficulty does not drift from block to     *)
(* block.                                                                  *)
TemplatesRoundTrip ==
    [][at = "template" /\ at' = "header" => compact_to_target(bits') = {target}]_searchVars

(* A target that does not fit the compact form is rounded towards harder:  *)
(* header bits are valid and never claim less work than the template asks. *)
NeverEasier ==
    [][at' = "header" =>
          \E t \in compact_to_target(bits') : Value(t) <= Value(target)]_searchVars
=============================================================================
