---------------------------- MODULE NodeBinding ----------------------------
(***************************************************************************)
(* What the peer manager promises about nodes and proofs (spec 3, I2, I6, *)
(* I7 and the node lifecycle), without peers, slots or pools: the live     *)
(* proofs never share a stake outpoint; a node is bound to a live proof or *)
(* waits for a proof that is not live, never both; and when the set of     *)
(* live proofs changes, nodes follow their proof: a node of a proof that   *)
(* goes away waits for it, a node waiting for a proof that becomes live is *)
(* bound to it.  Nodes are never lost or moved to another proof except by  *)
(* an explicit call for that node.                                         *)
(***************************************************************************)
EXTENDS FiniteSets, Functions, TLC

CONSTANTS Nodes, Proofs, Stakes

VARIABLES
    live,       \* the proofs that have a peer
    bound,      \* node -> the live proof it queries
    pending     \* node -> the proof it waits for

vars == <<live, bound, pending>>

UtxoDisjoint(P) == \A a, b \in P : a # b => Stakes[a] \cap Stakes[b] = {}

Drop(f, n) == Restrict(f, DOMAIN f \ {n})

Init == live = {} /\ bound = <<>> /\ pending = <<>>

\* A node is bound (again) to a live proof and stops waiting.
Connect(n, q) ==
    /\ q \in live
    /\ bound' = (n :> q) @@ bound
    /\ pending' = Drop(pending, n)
    /\ UNCHANGED live

\* A node announces a proof that is not live: it waits for it.
Park(n, q) ==
    /\ q \notin live
    /\ pending' = (n :> q) @@ pending
    /\ bound' = Drop(bound, n)
    /\ UNCHANGED live

\* A node goes away.
Disconnect(n) ==
    /\ bound' = Drop(bound, n)
    /\ pending' = Drop(pending, n)
    /\ UNCHANGED live

\* The live proofs become L (registration, replacement, rejection, sweeps);
\* nodes follow their proofs.
Reconfigure(L) ==
    LET stay  == {n \in DOMAIN bound : bound[n] \in L}
        wake  == {n \in DOMAIN pending : pending[n] \in L} \ stay
        orphan == {n \in DOMAIN bound : bound[n] \notin L}
        wait  == {n \in DOMAIN pending : pending[n] \notin L}
    IN  /\ UtxoDisjoint(L)
        /\ live' = L
        /\ bound' = [n \in stay \cup wake |->
                        IF n \in stay THEN bound[n] ELSE pending[n]]
        /\ pending' = [n \in wait \cup orphan |->
                          IF n \in wait THEN pending[n] ELSE bound[n]]

Next ==
    \/ \E n \in Nodes, q \in Proofs : Connect(n, q) \/ Park(n, q)
    \/ \E n \in Nodes : Disconnect(n)
    \/ \E L \in SUBSET Proofs : Reconfigure(L)

Spec == Init /\ [][Next]_vars

\* A node is bound or pending, never both; bound nodes query live proofs,
\* pending nodes wait for proofs that are not live; live proofs are
\* outpoint-disjoint.
BindingInvariant ==
    /\ DOMAIN bound \cap DOMAIN pending = {}
    /\ \A n \in DOMAIN bound : bound[n] \in live
    /\ \A n \in DOMAIN pending : pending[n] \notin live
    /\ UtxoDisjoint(live)
=============================================================================
