--------------------------- MODULE MCPeerManager ---------------------------
(***************************************************************************)
(* Model-checking instances of PeerManager.  Proof 2 stakes both outpoints *)
(* and so conflicts with proofs 1 and 3, which are disjoint.               *)
(***************************************************************************)
EXTENDS PeerManager

MCStakes == (1 :> {1}) @@ (2 :> {1, 2}) @@ (3 :> {2})

\* Equal scores: replacement by score never wins, force accept does.
MCScoreEqual == [p \in 1..3 |-> 1]

\* Distinct scores: proof 2 outweighs both proofs it conflicts with.
MCScoreDistinct == (1 :> 1) @@ (2 :> 3) @@ (3 :> 2)

\* State constraints.  Peer ids are minted without bound, and dead slots
\* accumulate at the end of the slot vector until compact() runs, so both
\* are capped.
MaxPeerId == 3
MaxSlots  == 4
PeerIdBound == nextPeerId <= MaxPeerId /\ Len(slots) <= MaxSlots

\* The node stakes proof 1: the sweep must keep it and drop the others.
MCLocalProof == 1
MCNodelessPeersSwept == NodelessPeersSwept(MCLocalProof)
MCFairSpec == Spec /\ ClockFairness /\ SweepFairness(MCLocalProof)
MCTipFairSpec == Spec /\ TipFairness
=============================================================================
