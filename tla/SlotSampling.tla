---------------------------- MODULE SlotSampling ----------------------------
(***************************************************************************)
(* The slot table of the peer manager on its own: slots are allocated at   *)
(* slotCount when a peer gets its first node (addNodeToPeer) and freed     *)
(* when it loses its last one (removeNodeFromPeer): the last slot is       *)
(* popped, any other one is marked dead and counted as fragmentation.      *)
(* Tables grow past 8 slots, so selectPeerImpl runs its interpolation      *)
(* search and not only the final linear scan.  Peer bookkeeping (node      *)
(* counts, proofs) is left to PeerManager; a slot's owner is named by the  *)
(* position it was allocated at.                                          *)
(***************************************************************************)
EXTENDS Integers, Sequences, FiniteSets, SequencesExt

CONSTANTS
    NoPeer,
    Scores,     \* the peer scores an allocation may use
    MaxSlots,   \* bound on the length of the slot vector
    MaxDead     \* bound on the number of dead slots kept in the vector

ASSUME Scores \subseteq (Nat \ {0}) /\ MaxSlots \in Nat /\ MaxDead \in Nat

VARIABLES slots, slotCount, fragmentation

vars == <<slots, slotCount, fragmentation>>

Slots == INSTANCE SlotTable

Dead == {i \in DOMAIN slots : slots[i].peer = NoPeer}

Init == slots = <<>> /\ slotCount = 0 /\ fragmentation = 0

\* Mutant: the new slot's owner is the 0-based vector size, one below the
\* position it is appended at.
AllocateSlot_IndexOffByOne(score) ==
    /\ Len(slots) < MaxSlots
    /\ slots' = Append(slots, [start |-> slotCount, score |-> score,
                               peer |-> Len(slots)])
    /\ slotCount' = slotCount + score
    /\ UNCHANGED fragmentation

\* addNodeToPeer, first node of a peer: emplace_back(slotCount, score, id)
\* and slotCount = start + score.
AllocateSlot(score) ==
    /\ Len(slots) < MaxSlots
    /\ slots' = Append(slots, [start |-> slotCount, score |-> score,
                               peer |-> Len(slots) + 1])
    /\ slotCount' = slotCount + score
    /\ UNCHANGED fragmentation

\* removeNodeFromPeer, last node of the peer owning slot i: pop the last
\* slot (slotCount becomes the stop of the new back slot, dead or not), or
\* mark slot i dead and add its score to the fragmentation.
FreeSlot(i) ==
    /\ slots[i].peer # NoPeer
    /\ IF i = Len(slots)
       THEN /\ slots' = Front(slots)
            /\ slotCount' = IF i = 1 THEN 0 ELSE Slots!Stop(slots[i - 1])
            /\ UNCHANGED fragmentation
       ELSE /\ Cardinality(Dead) < MaxDead
            /\ slots' = [slots EXCEPT ![i].peer = NoPeer]
            /\ fragmentation' = fragmentation + slots[i].score
            /\ UNCHANGED slotCount

Next ==
    \/ \E sc \in Scores : AllocateSlot(sc)
    \/ \E i \in DOMAIN slots : FreeSlot(i)

Spec == Init /\ [][Next]_vars

-----------------------------------------------------------------------------
(* Properties *)

TypeOK ==
    /\ slots \in Seq([start : Nat, score : Scores, peer : (1..MaxSlots) \cup {NoPeer}])
    /\ slotCount \in Nat /\ fragmentation \in Nat

\* selectPeer draws r uniformly in [0, slotCount) and calls selectPeerImpl.
\* For every draw the interpolation search returns what a scan of the whole
\* vector returns: the owner of the slot containing r, or NO_PEER for a
\* dead slot.  A wrong window update (begin/end, bottom/top) only shows on
\* tables of more than 8 slots with dead slots and unequal scores.
SelectionMatchesScan ==
    \A r \in 0..(slotCount - 1) :
        Slots!SelectPeerImpl(slots, r, slotCount) = Slots!SelectRef(slots, r)
=============================================================================
