----------------------------- MODULE SlotTable -----------------------------
(***************************************************************************)
(* The stake-weighted sampling structure of the avalanche peer manager:   *)
(* a sequence of slots [start, start + score) on a number line, each owned *)
(* by a peer or dead (NoPeer), and the dichotomic search selectPeerImpl    *)
(* (src/avalanche/peermanager.cpp) that maps a draw r to the owner of the  *)
(* slot containing r.  Slots are indexed 1..Len(slots) here; the code's    *)
(* vector indexes are 0-based, so the code's slots[i] is slots[i + 1].     *)
(***************************************************************************)
EXTENDS Integers, Sequences, FiniteSets

CONSTANT NoPeer

\* Slot::getStop, Slot::contains, Slot::precedes, Slot::follows (header).
Stop(s)           == s.start + s.score
Contains(s, r)    == s.start <= r /\ r < Stop(s)
Precedes(s, r)    == Stop(s) <= r
Follows(s, r)     == s.start > r

\* The linear scan that ends selectPeerImpl: the first slot of the index
\* window [begin, end) (0-based) that contains r.
LinearScan(slots, r, begin, end) ==
    LET hits == {i \in (begin + 1)..end : Contains(slots[i], r)}
    IN  IF hits = {} THEN NoPeer
        ELSE slots[CHOOSE i \in hits : \A j \in hits : i <= j].peer

\* Mutant: on an overshoot the value window is closed at the start of the
\* slot before the guess instead of the guessed slot (slots[end - 1]).
SelectPeerImpl_TopOffByOne(slots, r, max) ==
    LET RECURSIVE Search(_, _, _, _)
        Search(begin, end, bottom, top) ==
            IF end - begin <= 8 THEN LinearScan(slots, r, begin, end)
            ELSE IF r < bottom \/ r >= top THEN NoPeer
            ELSE LET i  == begin + ((r - bottom) * (end - begin)) \div (top - bottom)
                     si == slots[i + 1]
                 IN  IF Contains(si, r) THEN si.peer
                     ELSE IF Precedes(si, r)
                          THEN IF i + 1 >= end THEN NoPeer
                               ELSE Search(i + 1, end, slots[i + 2].start, top)
                     ELSE IF Follows(si, r)
                          THEN Search(begin, i, bottom,
                                      IF i = 0 THEN 0 ELSE slots[i].start)
                     ELSE NoPeer
    IN  Search(0, Len(slots), 0, max)

\* selectPeerImpl(slots, slot, max): interpolation search over the index
\* window [begin, end) and the value window [bottom, top) while the index
\* window holds more than 8 slots, then a linear scan.
SelectPeerImpl(slots, r, max) ==
    LET RECURSIVE Search(_, _, _, _)
        Search(begin, end, bottom, top) ==
            IF end - begin <= 8 THEN LinearScan(slots, r, begin, end)
            ELSE IF r < bottom \/ r >= top THEN NoPeer
            ELSE LET i  == begin + ((r - bottom) * (end - begin)) \div (top - bottom)
                     si == slots[i + 1]
                 IN  IF Contains(si, r) THEN si.peer
                     ELSE IF Precedes(si, r)
                          THEN IF i + 1 >= end THEN NoPeer
                               ELSE Search(i + 1, end, slots[i + 2].start, top)
                     ELSE IF Follows(si, r)
                          THEN Search(begin, i, bottom, slots[i + 1].start)
                     ELSE NoPeer
    IN  Search(0, Len(slots), 0, max)

\* The contract of selection (spec 4.1): the owner of the slot whose span
\* contains r, or NoPeer when r falls in a gap or a dead slot.
SelectRef(slots, r) ==
    LET hits == {i \in DOMAIN slots : Contains(slots[i], r)}
    IN  IF hits = {} THEN NoPeer
        ELSE slots[CHOOSE i \in hits : TRUE].peer

\* The draws r \in [0, max) that select peer pid.
DrawsOf(slots, max, pid) ==
    {r \in 0..(max - 1) : SelectPeerImpl(slots, r, max) = pid}
=============================================================================
