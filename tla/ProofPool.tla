----------------------------- MODULE ProofPool -----------------------------
(***************************************************************************)
(* ProofPool (avalanche/proofpool.{h,cpp}, not among the sources here, so  *)
(* modelled from spec section 4.2): a set of proofs whose stake outpoints  *)
(* are pairwise disjoint.  A pool is the set of its proofs; the outpoint   *)
(* index of the code is Stakes[p] for each member p.                       *)
(***************************************************************************)
EXTENDS Integers, FiniteSets

CONSTANTS Proofs, Score, Stakes

\* The proofs of pool that share an outpoint with p.
Conflicts(pool, p) == {q \in pool \ {p} : Stakes[q] \cap Stakes[p] # {}}

\* addProofIfNoConflict: DUPLICATED, REJECTED (conflicts exist) or SUCCEED.
AddIfNoConflictStatus(pool, p) ==
    IF p \in pool THEN "duplicated"
    ELSE IF Conflicts(pool, p) # {} THEN "rejected"
    ELSE "succeed"

AddIfNoConflict(pool, p) ==
    IF AddIfNoConflictStatus(pool, p) = "succeed" THEN pool \cup {p} ELSE pool

\* A proof is preferred over another one when its score is strictly larger
\* (spec: a tie is rejected).
Preferred(p, q) == Score[p] > Score[q]

\* addProofIfPreferred: succeeds when p is preferred over every conflicting
\* proof, which are then evicted.
AddIfPreferredStatus(pool, p) ==
    LET st == AddIfNoConflictStatus(pool, p)
    IN  IF st # "rejected" THEN st
        ELSE IF \A q \in Conflicts(pool, p) : Preferred(p, q) THEN "succeed"
        ELSE "rejected"

AddIfPreferred(pool, p) ==
    IF AddIfPreferredStatus(pool, p) = "succeed"
    THEN (pool \ Conflicts(pool, p)) \cup {p}
    ELSE pool

\* getLowestScoreProof.
LowestScore(pool) == CHOOSE q \in pool : \A r \in pool : Score[q] <= Score[r]

\* getProof(outpoint): the proof of pool staking u, if any.
ProofsWithUtxo(pool, u) == {q \in pool : u \in Stakes[q]}

\* size(): the pool is indexed by outpoint, so it counts staked outpoints.
Size(pool) == Cardinality(UNION {Stakes[q] : q \in pool})

\* The pool invariant: stake outpoints are pairwise disjoint.
Disjoint(pool) == \A p, q \in pool : p # q => Stakes[p] \cap Stakes[q] = {}
=============================================================================
