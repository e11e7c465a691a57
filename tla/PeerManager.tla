---------------------------- MODULE PeerManager ----------------------------
(***************************************************************************)
(* avalanche::PeerManager (src/avalanche/peermanager.cpp): binds nodes to *)
(* peers (proofs), keeps the valid, conflicting and immature proof pools,  *)
(* the stake-weighted slot table and the pending-node set.                 *)
(*                                                                         *)
(* Every public method is a state transformer over the record St of all   *)
(* variables, so that a method that calls others (rejectProof calling      *)
(* registerProof, cleanupDanglingProofs calling rejectProof) is their      *)
(* composition inside one atomic step, as the single-writer lock makes it. *)
(***************************************************************************)
EXTENDS Integers, Sequences, FiniteSets, SequencesExt, Functions, TLC

CONSTANTS
    Proofs,             \* proof ids (naturals: their order is the id order)
    Utxos,              \* stake outpoints
    Nodes,              \* node ids
    Score,              \* Score[p]: proof score
    Stakes,             \* Stakes[p]: the outpoints p stakes
    Cooldown,           \* -avalancheconflictingproofcooldown, in ticks
    DanglingTimeout,    \* Peer::DANGLING_TIMEOUT, in ticks
    MaxTime,            \* bound on the wall clock
    MaxImmature,        \* AVALANCHE_MAX_IMMATURE_PROOFS
    ReplacementEnabled, \* -enableavalancheproofreplacement
    RegistrationModes,  \* the RegistrationMode values callers use
    Verdicts,           \* the results Proof::verify can return
    FlagCalls,          \* whether callers use setFinalized, latchAvaproofsSent
                        \* and the unbroadcast set (bits nothing else reads)
    NoPeer, NoProof

ASSUME Proofs \subseteq Nat /\ Utxos \subseteq Nat
ASSUME Score \in [Proofs -> Nat \ {0}] /\ Stakes \in [Proofs -> SUBSET Utxos \ {{}}]
ASSUME RegistrationModes \subseteq {"default", "force"} /\ "default" \in RegistrationModes
ASSUME Verdicts \subseteq {"valid", "immature", "missing", "invalid"}
ASSUME FlagCalls \in BOOLEAN /\ ReplacementEnabled \in BOOLEAN /\ MaxImmature \in Nat \ {0}

VARIABLES
    peers,              \* PeerSet: peer id -> Peer record
    nextPeerId,
    slots,              \* Seq of [start, score, peer]
    slotCount, fragmentation, connectedPeersScore, totalPeersScore,
    nodes,              \* NodeSet: node id -> [peerid, timeout, sent]
    pendingNodes,       \* PendingNodeSet: node id -> proof id
    validPool, conflictingPool, immaturePool,
    shareableProofs,    \* the radix tree, as the set of its proofs
    unbroadcast,        \* m_unbroadcast_proofids
    danglingProofIds, needMoreNodes,
    now,                \* GetTime<seconds>() (environment)
    chain               \* the chain state: chain[p] is what p->verify says

vars == <<peers, nextPeerId, slots, slotCount, fragmentation,
          connectedPeersScore, totalPeersScore, nodes, pendingNodes,
          validPool, conflictingPool, immaturePool, shareableProofs,
          unbroadcast, danglingProofIds, needMoreNodes, now, chain>>

Slots == INSTANCE SlotTable
Pool  == INSTANCE ProofPool

St == [peers |-> peers, nextPeerId |-> nextPeerId, slots |-> slots,
       slotCount |-> slotCount, fragmentation |-> fragmentation,
       connectedPeersScore |-> connectedPeersScore,
       totalPeersScore |-> totalPeersScore, nodes |-> nodes,
       pendingNodes |-> pendingNodes, validPool |-> validPool,
       conflictingPool |-> conflictingPool, immaturePool |-> immaturePool,
       shareableProofs |-> shareableProofs, unbroadcast |-> unbroadcast,
       danglingProofIds |-> danglingProofIds, needMoreNodes |-> needMoreNodes,
       now |-> now, chain |-> chain]

\* A method's step: the manager's variables take the values of s.
Apply(s) ==
    LET t == s   \* evaluated once for all the variables
    IN  /\ peers' = t.peers /\ nextPeerId' = t.nextPeerId /\ slots' = t.slots
        /\ slotCount' = t.slotCount /\ fragmentation' = t.fragmentation
        /\ connectedPeersScore' = t.connectedPeersScore
        /\ totalPeersScore' = t.totalPeersScore /\ nodes' = t.nodes
        /\ pendingNodes' = t.pendingNodes /\ validPool' = t.validPool
        /\ conflictingPool' = t.conflictingPool /\ immaturePool' = t.immaturePool
        /\ shareableProofs' = t.shareableProofs /\ unbroadcast' = t.unbroadcast
        /\ danglingProofIds' = t.danglingProofIds
        /\ needMoreNodes' = t.needMoreNodes
        /\ UNCHANGED <<now, chain>>

-----------------------------------------------------------------------------
(* Helpers *)

\* f without key k (multi_index erase by key).
Erase(f, k) == Restrict(f, DOMAIN f \ {k})

\* The peer bound to proof q (peers.get<by_proofid>().find), or NoPeer.
PeerIdOf(s, q) ==
    IF \E pid \in DOMAIN s.peers : s.peers[pid].proof = q
    THEN CHOOSE pid \in DOMAIN s.peers : s.peers[pid].proof = q
    ELSE NoPeer

\* Mutant: exists() forgets the conflicting pool.
Exists_NoConflictingPool(s, q) ==
    PeerIdOf(s, q) # NoPeer \/ q \in s.immaturePool

\* exists(proofid) == getProof(proofid) != nullptr.
Exists(s, q) ==
    PeerIdOf(s, q) # NoPeer \/ q \in s.conflictingPool \/ q \in s.immaturePool

\* isInConflictingPool(proofid).
IsInConflictingPool(s, q) == q \in s.conflictingPool

\* isImmatureState: the verification failed on an immature stake.
IsImmatureState(verdict) == verdict = "immature"

\* A set of naturals in ascending order (iteration over ordered ids).
Ascending(S) == SetToSortSeq(S, <)

\* The order of a ConflictingProofSet: preferred (higher score) first.
ByPreference(S) ==
    SetToSortSeq(S, LAMBDA a, b : Score[a] > Score[b] \/ (Score[a] = Score[b] /\ a < b))

\* pendingNodes.emplace(proofid, nodeid) for each node of ns: a node id is
\* unique in the set, so a node already pending keeps its entry.
EmplacePending(pn, ns, q) ==
    [n \in DOMAIN pn \cup ns |-> IF n \in DOMAIN pn THEN pn[n] ELSE q]

-----------------------------------------------------------------------------
(* Node binding and slot allocation *)

\* Mutant: the slot index is recorded off by one.
AddNodeToPeer_IndexOffByOne(s, pid) ==
    LET sc == Score[s.peers[pid].proof]
    IN  IF s.peers[pid].node_count > 0
        THEN [s EXCEPT !.peers[pid].node_count = @ + 1]
        ELSE [s EXCEPT !.peers[pid].node_count = 1,
                       !.peers[pid].index = Len(s.slots),
                       !.slots = Append(@, [start |-> s.slotCount, score |-> sc,
                                             peer |-> pid]),
                       !.slotCount = s.slotCount + sc,
                       !.connectedPeersScore = @ + sc]

\* addNodeToPeer: the 0 -> 1 transition appends a slot at slotCount.
AddNodeToPeer(s, pid) ==
    LET sc == Score[s.peers[pid].proof]
    IN  IF s.peers[pid].node_count > 0
        THEN [s EXCEPT !.peers[pid].node_count = @ + 1]
        ELSE [s EXCEPT !.peers[pid].node_count = 1,
                       !.peers[pid].index = Len(s.slots) + 1,
                       !.slots = Append(@, [start |-> s.slotCount, score |-> sc,
                                             peer |-> pid]),
                       !.slotCount = s.slotCount + sc,
                       !.connectedPeersScore = @ + sc]

\* Mutant: a slot marked dead is not counted as fragmentation.
RemoveNodeFromPeer_NoFragmentation(s, pid, count) ==
    IF pid \notin DOMAIN s.peers \/ count = 0 THEN s
    ELSE LET newCount == s.peers[pid].node_count - count
             i        == s.peers[pid].index
             s1       == [s EXCEPT !.peers[pid].node_count = newCount]
         IN  IF newCount > 0 THEN s1
             ELSE IF i = Len(s.slots)
             THEN [s1 EXCEPT !.connectedPeersScore = @ - s.slots[i].score,
                             !.slots = Front(s.slots),
                             !.slotCount = IF i = 1 THEN 0
                                           ELSE Slots!Stop(s.slots[i - 1])]
             ELSE [s1 EXCEPT !.connectedPeersScore = @ - s.slots[i].score,
                             !.slots[i].peer = NoPeer]

\* removeNodeFromPeer(it, count): a removed peer (dangling node) is a no-op;
\* the last node leaving frees the slot: the last slot is popped, any other
\* one is marked dead and counted as fragmentation.
RemoveNodeFromPeer(s, pid, count) ==
    IF pid \notin DOMAIN s.peers \/ count = 0 THEN s
    ELSE LET newCount == s.peers[pid].node_count - count
             i        == s.peers[pid].index
             s1       == [s EXCEPT !.peers[pid].node_count = newCount]
         IN  IF newCount > 0 THEN s1
             ELSE IF i = Len(s.slots)
             THEN [s1 EXCEPT !.connectedPeersScore = @ - s.slots[i].score,
                             !.slots = Front(s.slots),
                             !.slotCount = IF i = 1 THEN 0
                                           ELSE Slots!Stop(s.slots[i - 1])]
             ELSE [s1 EXCEPT !.connectedPeersScore = @ - s.slots[i].score,
                             !.fragmentation = @ + s.slots[i].score,
                             !.slots[i].peer = NoPeer]

\* Mutant: a rebound node is not released from its old peer.
AddOrUpdateNode_NoOldPeerRelease(s, pid, n) ==
    LET s1 == IF n \notin DOMAIN s.nodes
              THEN [s EXCEPT !.nodes = (n :> [peerid |-> pid, timeout |-> FALSE,
                                              sent |-> FALSE]) @@ @]
              ELSE [s EXCEPT !.nodes[n].peerid = pid]
        s2 == AddNodeToPeer(s1, pid)
    IN  [s2 EXCEPT !.pendingNodes = Erase(@, n)]

\* Mutant: a bound node is left in the pending set.
AddOrUpdateNode_KeepsPending(s, pid, n) ==
    LET s1 == IF n \notin DOMAIN s.nodes
              THEN [s EXCEPT !.nodes = (n :> [peerid |-> pid, timeout |-> FALSE,
                                              sent |-> FALSE]) @@ @]
              ELSE RemoveNodeFromPeer([s EXCEPT !.nodes[n].peerid = pid],
                                      s.nodes[n].peerid, 1)
    IN  AddNodeToPeer(s1, pid)

\* addOrUpdateNode(it, nodeid): create the node, or rebind it (the old
\* peer loses a node), then count it on the new peer and drop it from the
\* pending set.
AddOrUpdateNode(s, pid, n) ==
    LET s1 == IF n \notin DOMAIN s.nodes
              THEN [s EXCEPT !.nodes = (n :> [peerid |-> pid, timeout |-> FALSE,
                                              sent |-> FALSE]) @@ @]
              ELSE RemoveNodeFromPeer([s EXCEPT !.nodes[n].peerid = pid],
                                      s.nodes[n].peerid, 1)
        s2 == AddNodeToPeer(s1, pid)
    IN  [s2 EXCEPT !.pendingNodes = Erase(@, n)]

\* removeNode: a pending node only leaves the pending set.
RemoveNode(s, n) ==
    IF n \in DOMAIN s.pendingNodes THEN [s EXCEPT !.pendingNodes = Erase(@, n)]
    ELSE IF n \notin DOMAIN s.nodes THEN s
    ELSE RemoveNodeFromPeer([s EXCEPT !.nodes = Erase(@, n)], s.nodes[n].peerid, 1)

\* addNode: to an unknown proof the node becomes pending (and stops being
\* active); to a known one it is added or rebound.
AddNode(s, n, q) ==
    IF PeerIdOf(s, q) = NoPeer
    THEN LET s1 == RemoveNode(s, n)
         IN  [s1 EXCEPT !.pendingNodes = EmplacePending(@, {n}, q)]
    ELSE AddOrUpdateNode(s, PeerIdOf(s, q), n)

-----------------------------------------------------------------------------
(* Peers and proof registration *)

\* Mutant: a removed peer's proof stays in the unbroadcast set.
RemovePeer_KeepsUnbroadcast(s, pid) ==
    IF pid \notin DOMAIN s.peers THEN s
    ELSE LET q        == s.peers[pid].proof
             attached == {n \in DOMAIN s.nodes : s.nodes[n].peerid = pid}
             expired  == {n \in attached : ~s.nodes[n].timeout}
             s1       == RemoveNodeFromPeer(s, pid, s.peers[pid].node_count)
         IN  [s1 EXCEPT !.pendingNodes = EmplacePending(@, attached, q),
                        !.nodes = Restrict(@, DOMAIN @ \ expired),
                        !.validPool = @ \ {q},
                        !.shareableProofs = @ \ {q},
                        !.totalPeersScore = @ - Score[q],
                        !.peers = Erase(@, pid)]

\* removePeer: detach all nodes; every attached node becomes pending on the
\* peer's proof, but only the nodes whose request timeout has passed leave
\* the node set (the others stay, dangling, until their query completes);
\* release the proof from the valid pool, the radix tree and the
\* unbroadcast set.
RemovePeer(s, pid) ==
    IF pid \notin DOMAIN s.peers THEN s
    ELSE LET q        == s.peers[pid].proof
             attached == {n \in DOMAIN s.nodes : s.nodes[n].peerid = pid}
             expired  == {n \in attached : ~s.nodes[n].timeout}
             s1       == RemoveNodeFromPeer(s, pid, s.peers[pid].node_count)
         IN  [s1 EXCEPT !.pendingNodes = EmplacePending(@, attached, q),
                        !.nodes = Restrict(@, DOMAIN @ \ expired),
                        !.validPool = @ \ {q},
                        !.shareableProofs = @ \ {q},
                        !.unbroadcast = @ \ {q},
                        !.totalPeersScore = @ - Score[q],
                        !.peers = Erase(@, pid)]

\* moveToConflictingPool: remove the peers of proofs (in ConflictingProofSet
\* order) and offer each proof to the conflicting pool.
MoveToConflictingPool(s, proofs) ==
    FoldLeft(LAMBDA acc, q :
                LET a1 == RemovePeer(acc, PeerIdOf(acc, q))
                IN  [a1 EXCEPT !.conflictingPool = Pool!AddIfPreferred(@, q)],
             s, ByPreference(proofs))

\* Mutant: the peer id counter is not advanced.
CreatePeer_NoIdBump(s, p, nextCooldown) ==
    LET pid     == s.nextPeerId
        waiting == {n \in DOMAIN s.pendingNodes : s.pendingNodes[n] = p}
        s1 == [s EXCEPT !.conflictingPool = @ \ {p},
                        !.peers = (pid :> [proof |-> p, node_count |-> 0,
                                           index |-> 0,
                                           registration_time |-> s.now,
                                           nextPossibleConflictTime |-> nextCooldown,
                                           hasFinalized |-> FALSE]) @@ @,
                        !.shareableProofs = @ \cup {p},
                        !.totalPeersScore = @ + Score[p]]
    IN  FoldSet(LAMBDA n, acc : AddOrUpdateNode(acc, pid, n), s1, waiting)

\* Mutant: the nodes pending on the proof are not bound.
CreatePeer_NoDrain(s, p, nextCooldown) ==
    [s EXCEPT !.conflictingPool = @ \ {p},
              !.nextPeerId = @ + 1,
              !.peers = (s.nextPeerId :> [proof |-> p, node_count |-> 0,
                                          index |-> 0,
                                          registration_time |-> s.now,
                                          nextPossibleConflictTime |-> nextCooldown,
                                          hasFinalized |-> FALSE]) @@ @,
              !.shareableProofs = @ \cup {p},
              !.totalPeersScore = @ + Score[p]]

\* The tail of registerProof that creates the peer: new peer id, radix
\* tree, registered score, then every node pending on the proof is bound.
CreatePeer(s, p, nextCooldown) ==
    LET pid     == s.nextPeerId
        waiting == {n \in DOMAIN s.pendingNodes : s.pendingNodes[n] = p}
        s1 == [s EXCEPT !.conflictingPool = @ \ {p},
                        !.nextPeerId = @ + 1,
                        !.peers = (pid :> [proof |-> p, node_count |-> 0,
                                           index |-> 0,
                                           registration_time |-> s.now,
                                           nextPossibleConflictTime |-> nextCooldown,
                                           hasFinalized |-> FALSE]) @@ @,
                        !.shareableProofs = @ \cup {p},
                        !.totalPeersScore = @ + Score[p]]
    IN  FoldSet(LAMBDA n, acc : AddOrUpdateNode(acc, pid, n), s1, waiting)

\* An immature proof goes to the immature pool; over the cap the lowest
\* scoring proof is evicted.
AddImmature(s, p) ==
    LET pool == Pool!AddIfPreferred(s.immaturePool, p)
    IN  [s EXCEPT !.immaturePool = IF Cardinality(pool) > MaxImmature
                                   THEN pool \ {Pool!LowestScore(pool)}
                                   ELSE pool]

\* Mutant: the conflict time is overwritten, so it can move backwards.
BumpConflictTime_Overwrite(s, pids, t) ==
    [s EXCEPT !.peers = [pid \in DOMAIN @ |->
        IF pid \in pids
        THEN [@[pid] EXCEPT !.nextPossibleConflictTime = t]
        ELSE @[pid]]]

\* updateNextPossibleConflictTime for each peer of pids: never backwards.
BumpConflictTime(s, pids, t) ==
    [s EXCEPT !.peers = [pid \in DOMAIN @ |->
        IF pid \in pids
        THEN [@[pid] EXCEPT !.nextPossibleConflictTime = IF @ > t THEN @ ELSE t]
        ELSE @[pid]]]

\* Mutant: a replacing proof does not evict the peers it conflicts with.
RegisterValid_NoEviction(s, p, mode) ==
    LET nextCooldown == s.now + Cooldown
        conflicts    == Pool!Conflicts(s.validPool, p)
        cpids        == {PeerIdOf(s, c) : c \in conflicts}
        best         == FoldSet(LAMBDA pid, m :
                            IF s.peers[pid].nextPossibleConflictTime > m
                            THEN s.peers[pid].nextPossibleConflictTime ELSE m,
                            0, cpids)
        s1           == BumpConflictTime(s, cpids, nextCooldown)
    IN  CASE Pool!AddIfNoConflictStatus(s.validPool, p) = "duplicated" -> s
          [] Pool!AddIfNoConflictStatus(s.validPool, p) = "succeed" ->
                CreatePeer([s EXCEPT !.validPool = @ \cup {p}], p, nextCooldown)
          [] mode = "default" /\ best > s.now -> s1
          [] mode = "default" /\ ReplacementEnabled
                /\ Pool!AddIfPreferredStatus(s1.validPool, p) = "succeed" ->
                CreatePeer([s1 EXCEPT !.validPool = Pool!AddIfPreferred(@, p)],
                           p, nextCooldown)
          [] mode = "default" ->
                [s1 EXCEPT !.conflictingPool = Pool!AddIfPreferred(@, p)]
          [] OTHER ->
                LET s2 == MoveToConflictingPool(
                              [s EXCEPT !.conflictingPool = @ \ {p}], conflicts)
                IN  CreatePeer([s2 EXCEPT !.validPool = Pool!AddIfNoConflict(@, p)],
                               p, nextCooldown)

\* registerProof for a proof that verified: valid pool admission and
\* conflict resolution (cooldown, replacement, force accept).
RegisterValid(s, p, mode) ==
    LET nextCooldown == s.now + Cooldown
        conflicts    == Pool!Conflicts(s.validPool, p)
        cpids        == {PeerIdOf(s, c) : c \in conflicts}
        best         == FoldSet(LAMBDA pid, m :
                            IF s.peers[pid].nextPossibleConflictTime > m
                            THEN s.peers[pid].nextPossibleConflictTime ELSE m,
                            0, cpids)
        s1           == BumpConflictTime(s, cpids, nextCooldown)
    IN  CASE Pool!AddIfNoConflictStatus(s.validPool, p) = "duplicated" -> s
          [] Pool!AddIfNoConflictStatus(s.validPool, p) = "succeed" ->
                CreatePeer([s EXCEPT !.validPool = @ \cup {p}], p, nextCooldown)
          [] mode = "default" /\ best > s.now -> s1
          [] mode = "default" /\ ReplacementEnabled
                /\ Pool!AddIfPreferredStatus(s1.validPool, p) = "succeed" ->
                CreatePeer(MoveToConflictingPool(
                               [s1 EXCEPT !.validPool = Pool!AddIfPreferred(@, p)],
                               conflicts), p, nextCooldown)
          [] mode = "default" ->
                [s1 EXCEPT !.conflictingPool = Pool!AddIfPreferred(@, p)]
          [] OTHER ->
                LET s2 == MoveToConflictingPool(
                              [s EXCEPT !.conflictingPool = @ \ {p}], conflicts)
                IN  CreatePeer([s2 EXCEPT !.validPool = Pool!AddIfNoConflict(@, p)],
                               p, nextCooldown)

\* registerProof(proof, mode): dedup gate, dangling gate, verification.
RegisterProof(s, p, mode) ==
    CASE (mode # "force" \/ ~IsInConflictingPool(s, p)) /\ Exists(s, p) -> s
      [] p \in s.danglingProofIds
            /\ \A n \in DOMAIN s.pendingNodes : s.pendingNodes[n] # p ->
            [s EXCEPT !.needMoreNodes = TRUE]
      [] IsImmatureState(s.chain[p]) -> AddImmature(s, p)
      [] s.chain[p] \in {"missing", "invalid"} -> s
      [] OTHER -> RegisterValid(s, p, mode)

\* rejectProof(proofid, mode): an immature proof is dropped; a conflicting
\* one is kept (DEFAULT) or dropped (INVALIDATE); a peer is removed, the
\* conflicting proofs on its outpoints are pulled back through
\* registerProof, and in DEFAULT mode the proof goes to the conflicting pool.
PullBack(s, u) ==
    IF Pool!ProofsWithUtxo(s.conflictingPool, u) = {} THEN s
    ELSE LET c == CHOOSE c \in Pool!ProofsWithUtxo(s.conflictingPool, u) : TRUE
         IN  RegisterProof([s EXCEPT !.conflictingPool = @ \ {c}], c, "default")

RejectProof(s, p, mode) ==
    CASE ~Exists(s, p) -> s
      [] p \in s.immaturePool -> [s EXCEPT !.immaturePool = @ \ {p}]
      [] mode = "default" /\ p \in s.conflictingPool -> s
      [] mode = "invalidate" /\ p \in s.conflictingPool ->
            [s EXCEPT !.conflictingPool = @ \ {p}]
      [] OTHER ->
            LET s1 == FoldLeft(PullBack, RemovePeer(s, PeerIdOf(s, p)),
                               Ascending(Stakes[p]))
            IN  IF mode = "default"
                THEN [s1 EXCEPT !.conflictingPool = Pool!AddIfPreferred(@, p)]
                ELSE s1

-----------------------------------------------------------------------------
(* Sweeps, compaction and selection *)

\* The proofs of the peers satisfying P, in peer iteration (id) order.
PeerProofs(s, P(_)) ==
    LET pids == Ascending({pid \in DOMAIN s.peers : P(s.peers[pid])})
    IN  [i \in DOMAIN pids |-> s.peers[pids[i]].proof]

\* Mutant: the dangling timeout is compared strictly.
CleanupDanglingProofs_StrictTimeout(s, local) ==
    LET dangling == PeerProofs(s, LAMBDA peer :
                        /\ peer.proof # local
                        /\ peer.node_count = 0
                        /\ peer.registration_time + DanglingTimeout < s.now)
        s1 == FoldLeft(LAMBDA acc, q :
                  LET a1 == RejectProof(acc, q, "invalidate")
                  IN  [a1 EXCEPT !.danglingProofIds = @ \cup {q}],
              s, dangling)
    IN  [s1 EXCEPT !.needMoreNodes = dangling # <<>>]

\* cleanupDanglingProofs(localProof): every peer other than the local
\* proof, with no node, registered at least DANGLING_TIMEOUT ago, is
\* invalidated and remembered as dangling.
CleanupDanglingProofs(s, local) ==
    LET dangling == PeerProofs(s, LAMBDA peer :
                        /\ peer.proof # local
                        /\ peer.node_count = 0
                        /\ peer.registration_time + DanglingTimeout <= s.now)
        s1 == FoldLeft(LAMBDA acc, q :
                  LET a1 == RejectProof(acc, q, "invalidate")
                  IN  [a1 EXCEPT !.danglingProofIds = @ \cup {q}],
              s, dangling)
    IN  [s1 EXCEPT !.needMoreNodes = dangling # <<>>]

\* Mutant: rescan offers the proofs again without emptying the pool first.
Rescan_KeepsPool(s) ==
    FoldLeft(LAMBDA acc, q : RegisterProof(acc, q, "default"),
             s, Ascending(s.immaturePool))

\* ProofPool::rescan (spec 4.2): the pool is emptied and every proof it
\* held is offered again to registerProof.
Rescan(s) ==
    FoldLeft(LAMBDA acc, q : RegisterProof(acc, q, "default"),
             [s EXCEPT !.immaturePool = {}], Ascending(s.immaturePool))

\* updatedBlockTip: re-verify every peer; invalidate the failures first,
\* rescan the immature pool, then put the newly immature proofs there.
UpdatedBlockTip(s) ==
    LET invalid    == PeerProofs(s, LAMBDA peer : s.chain[peer.proof] # "valid")
        immatures  == PeerProofs(s, LAMBDA peer : IsImmatureState(s.chain[peer.proof]))
        s1 == FoldLeft(LAMBDA acc, q : RejectProof(acc, q, "invalidate"), s, invalid)
        s2 == Rescan(s1)
    IN  FoldLeft(LAMBDA acc, q :
                     [acc EXCEPT !.immaturePool = Pool!AddIfPreferred(@, q)],
                 s2, immatures)

\* compact: rebuild the slots from the connected peers in peer iteration
\* order.  As in the code, the start of the j-th new slot and the final
\* slotCount are read from the OLD slot vector (slots[i].getStop()).
Compact(s) ==
    IF s.fragmentation = 0 THEN s
    ELSE LET live == Ascending({pid \in DOMAIN s.peers : s.peers[pid].node_count > 0})
             k    == Len(live)
         IN  [s EXCEPT
                !.slots = [j \in 1..k |->
                              [start |-> IF j = 1 THEN 0 ELSE Slots!Stop(s.slots[j - 1]),
                               score |-> Score[s.peers[live[j]].proof],
                               peer  |-> live[j]]],
                !.peers = [pid \in DOMAIN @ |->
                              IF \E j \in 1..k : live[j] = pid
                              THEN [@[pid] EXCEPT !.index =
                                        CHOOSE j \in 1..k : live[j] = pid]
                              ELSE @[pid]],
                !.slotCount = IF k = 0 THEN 0 ELSE Slots!Stop(s.slots[k]),
                !.fragmentation = 0]

\* The peers selectPeer can return: each draw r \in [0, slotCount), or
\* NoPeer for an empty table (the retries only repeat these draws).
SelectPeerResults(s) ==
    IF s.slots = <<>> \/ s.slotCount = 0 THEN {NoPeer}
    ELSE {Slots!SelectPeerImpl(s.slots, r, s.slotCount) : r \in 0..(s.slotCount - 1)}

\* The nodes of peer pid whose next request time has passed: the node with
\* the earliest next request time is returned iff it is one of these.
Available(s, pid) ==
    {n \in DOMAIN s.nodes : s.nodes[n].peerid = pid /\ ~s.nodes[n].timeout}

\* Whether some draw of R finds a peer with an available node, or a peer
\* without one.
Hit(s, R)  == \E pid \in R \ {NoPeer} : Available(s, pid) # {}
Miss(s, R) == \E pid \in R \ {NoPeer} : Available(s, pid) = {}

\* The states selectNode can leave: a NoPeer draw compacts (compacting
\* again is a no-op since fragmentation is then 0), and a failed search
\* over all retries raises needMoreNodes.
SelectNodeOutcomes(s) ==
    LET R1 == SelectPeerResults(s)
        c  == Compact(s)
        R2 == SelectPeerResults(c)
    IN  { x \in {s, [s EXCEPT !.needMoreNodes = TRUE],
                 c, [c EXCEPT !.needMoreNodes = TRUE]} :
            \/ x = s /\ Hit(s, R1)
            \/ x = [s EXCEPT !.needMoreNodes = TRUE] /\ Miss(s, R1)
            \/ x = c /\ NoPeer \in R1 /\ Hit(c, R2)
            \/ x = [c EXCEPT !.needMoreNodes = TRUE] /\ NoPeer \in R1
                  /\ (NoPeer \in R2 \/ Miss(c, R2)) }

-----------------------------------------------------------------------------
(* Small setters *)

\* updateNextRequestTime(nodeid, now + query timeout).
UpdateNextRequestTime(s, n) ==
    IF n \notin DOMAIN s.nodes THEN s ELSE [s EXCEPT !.nodes[n].timeout = TRUE]

\* latchAvaproofsSent: false -> true once.
LatchAvaproofsSent(s, n) ==
    IF n \notin DOMAIN s.nodes THEN s ELSE [s EXCEPT !.nodes[n].sent = TRUE]

\* updateNextPossibleConflictTime(peerid, t): never moves backwards.
UpdateNextPossibleConflictTime(s, pid, t) ==
    IF pid \notin DOMAIN s.peers THEN s ELSE BumpConflictTime(s, {pid}, t)

SetFinalized(s, pid) ==
    IF pid \notin DOMAIN s.peers THEN s ELSE [s EXCEPT !.peers[pid].hasFinalized = TRUE]

\* addUnbroadcastProof only records a proof bound to a peer.
AddUnbroadcastProof(s, q) ==
    IF PeerIdOf(s, q) = NoPeer THEN s ELSE [s EXCEPT !.unbroadcast = @ \cup {q}]

RemoveUnbroadcastProof(s, q) == [s EXCEPT !.unbroadcast = @ \ {q}]

\* verify(): the manager's self-check, which the unit tests assert after
\* every call.  Its early returns are the conjuncts; the slot loop, then
\* the peer loop, then the totals, the valid pool's size and the radix
\* tree.  A node counts towards the peer its peerid names.
Verify(s) ==
    LET P          == DOMAIN s.peers
        ScoreOfPeer(pid) == Score[s.peers[pid].proof]
        live       == {i \in DOMAIN s.slots : s.slots[i].peer # NoPeer}
        withNodes  == {pid \in P : s.peers[pid].node_count # 0}
        NodeCount(pid) == Cardinality({n \in DOMAIN s.nodes : s.nodes[n].peerid = pid})
        peersUtxos == UNION {Stakes[s.peers[pid].proof] : pid \in P}
    IN  /\ \A i \in 2..Len(s.slots) : s.slots[i].start >= Slots!Stop(s.slots[i - 1])
        /\ \A i \in live : s.slots[i].peer \in P /\ s.peers[s.slots[i].peer].index = i
        /\ MapThenSumSet(LAMBDA i : s.slots[i].score, live) = s.connectedPeersScore
        /\ \A pid \in P :
              /\ s.peers[pid].proof # NoProof
              /\ \A u \in Stakes[s.peers[pid].proof] :
                    Pool!ProofsWithUtxo(s.validPool, u) = {s.peers[pid].proof}
              /\ \A other \in P \ {pid} :
                    Stakes[s.peers[pid].proof] \cap Stakes[s.peers[other].proof] = {}
              /\ s.peers[pid].node_count = NodeCount(pid)
        /\ \A pid \in withNodes :
              /\ s.peers[pid].index \in DOMAIN s.slots
              /\ s.slots[s.peers[pid].index].peer = pid
              /\ s.slots[s.peers[pid].index].score = ScoreOfPeer(pid)
              /\ s.peers[pid].proof \in s.shareableProofs
        /\ MapThenSumSet(ScoreOfPeer, P) = s.totalPeersScore
        /\ MapThenSumSet(ScoreOfPeer, withNodes) = s.connectedPeersScore
        /\ Pool!Size(s.validPool) = Cardinality(peersUtxos)
        /\ \A q \in s.shareableProofs : PeerIdOf(s, q) # NoPeer

-----------------------------------------------------------------------------
(* The specification *)

Init ==
    /\ peers = <<>> /\ nextPeerId = 0
    /\ slots = <<>> /\ slotCount = 0 /\ fragmentation = 0
    /\ connectedPeersScore = 0 /\ totalPeersScore = 0
    /\ nodes = <<>> /\ pendingNodes = <<>>
    /\ validPool = {} /\ conflictingPool = {} /\ immaturePool = {}
    /\ shareableProofs = {} /\ unbroadcast = {}
    /\ danglingProofIds = {} /\ needMoreNodes = FALSE
    /\ now = 0
    /\ chain \in [Proofs -> Verdicts]

\* The environment: the wall clock, the steady clock passing a node's
\* request timeout, and new blocks changing what verify() says.
Tick == now < MaxTime /\ now' = now + 1 /\ UNCHANGED <<peers, nextPeerId, slots,
          slotCount, fragmentation, connectedPeersScore, totalPeersScore, nodes,
          pendingNodes, validPool, conflictingPool, immaturePool,
          shareableProofs, unbroadcast, danglingProofIds, needMoreNodes, chain>>

RequestTimeoutElapses(n) ==
    /\ n \in DOMAIN nodes /\ nodes[n].timeout
    /\ Apply([St EXCEPT !.nodes[n].timeout = FALSE])

ChainUpdate ==
    /\ chain' \in [Proofs -> Verdicts] \ {chain}
    /\ UNCHANGED <<peers, nextPeerId, slots, slotCount, fragmentation,
          connectedPeersScore, totalPeersScore, nodes, pendingNodes, validPool,
          conflictingPool, immaturePool, shareableProofs, unbroadcast,
          danglingProofIds, needMoreNodes, now>>

Next ==
    \/ \E p \in Proofs, m \in RegistrationModes : Apply(RegisterProof(St, p, m))
    \/ \E p \in Proofs, m \in {"default", "invalidate"} : Apply(RejectProof(St, p, m))
    \/ \E n \in Nodes, p \in Proofs : Apply(AddNode(St, n, p))
    \/ \E n \in Nodes : Apply(RemoveNode(St, n))
    \/ \E n \in Nodes : Apply(UpdateNextRequestTime(St, n))
    \/ FlagCalls /\ \E n \in Nodes : Apply(LatchAvaproofsSent(St, n))
    \/ \E pid \in DOMAIN peers, t \in {now, now + Cooldown} :
          Apply(UpdateNextPossibleConflictTime(St, pid, t))
    \/ FlagCalls /\ \E pid \in DOMAIN peers : Apply(SetFinalized(St, pid))
    \/ \E q \in Proofs \cup {NoProof} : Apply(CleanupDanglingProofs(St, q))
    \/ \E s \in SelectNodeOutcomes(St) : Apply(s)
    \/ Apply(UpdatedBlockTip(St))
    \/ Apply(Compact(St))
    \/ FlagCalls /\ \E q \in Proofs : Apply(AddUnbroadcastProof(St, q))
    \/ FlagCalls /\ \E q \in Proofs : Apply(RemoveUnbroadcastProof(St, q))
    \/ Tick
    \/ \E n \in Nodes : RequestTimeoutElapses(n)
    \/ ChainUpdate

Spec == Init /\ [][Next]_vars

\* The avalanche processor's event loop calls cleanupDanglingProofs with
\* the node's own proof on a fixed period, whatever else happens: weak
\* fairness of that call.  Callers of every other method are not assumed
\* to make progress, except the clocks: the wall clock does advance
\* (ClockFairness).  The call is deterministic, so it is enabled (as a
\* step that changes the state) exactly when its result differs from the
\* current state; the formula is WF_vars of the call with that ENABLED.
ClockFairness == WF_vars(Tick)
SweepChanges(local) == CleanupDanglingProofs(St, local) # St
SweepFairness(local) ==
    <>[]SweepChanges(local) => []<><<Apply(CleanupDanglingProofs(St, local))>>_vars


\* The avalanche processor calls updatedBlockTip from its validation
\* interface on every new tip, and what Proof::verify answers changes only
\* with the tip: weak fairness of that call, in the same form.
TipChanges == UpdatedBlockTip(St) # St
TipFairness == <>[]TipChanges => []<><<Apply(UpdatedBlockTip(St))>>_vars

-----------------------------------------------------------------------------
(* Properties *)

PeerRecords ==
    [proof: Proofs, node_count: Nat, index: Nat,
     registration_time: 0..MaxTime,
     nextPossibleConflictTime: 0..(MaxTime + Cooldown), hasFinalized: BOOLEAN]

TypeOK ==
    /\ DOMAIN peers \subseteq 0..(nextPeerId - 1)
    /\ \A pid \in DOMAIN peers : peers[pid] \in PeerRecords
    /\ slots \in Seq([start: Nat, score: Nat, peer: Nat \cup {NoPeer}])
    /\ {slotCount, fragmentation, connectedPeersScore, totalPeersScore} \subseteq Nat
    /\ DOMAIN nodes \subseteq Nodes
    /\ \A n \in DOMAIN nodes : nodes[n] \in [peerid: Nat, timeout: BOOLEAN, sent: BOOLEAN]
    /\ DOMAIN pendingNodes \subseteq Nodes /\ Range(pendingNodes) \subseteq Proofs
    /\ {validPool, conflictingPool, immaturePool, shareableProofs, unbroadcast,
        danglingProofIds} \subseteq SUBSET Proofs
    /\ needMoreNodes \in BOOLEAN /\ now \in 0..MaxTime
    /\ chain \in [Proofs -> Verdicts]

Connected == {pid \in DOMAIN peers : peers[pid].node_count > 0}
ScoreOf(pid) == Score[peers[pid].proof]

\* verify() holds in every reachable state, as the unit tests assert after
\* each call: slots ordered and indexed by their peers, scores summed over
\* slots, peers and connected peers, each peer's outpoints owned by its
\* proof in the valid pool and by no other peer, node counts, and no
\* dangling proof in the radix tree.  At stake in every node binding,
\* removal and rebinding, compact(), replacement and the sweeps.
VerifyHolds == Verify(St)

\* Stake-weighted sampling (spec 4.1): of the slotCount draws selectPeer
\* can make, each connected peer wins exactly as many as its score and no
\* draw returns a peer without nodes; slotCount is the connected score plus
\* the fragmentation of dead slots.  Relates the slot table kept by
\* addNodeToPeer, removeNodeFromPeer and compact() to selectPeerImpl.
SamplingIsStakeWeighted ==
    /\ slotCount = connectedPeersScore + fragmentation
    /\ \A pid \in Connected :
          Cardinality(Slots!DrawsOf(slots, slotCount, pid)) = ScoreOf(pid)
    /\ \A r \in 0..(slotCount - 1) :
          Slots!SelectPeerImpl(slots, r, slotCount) \in Connected \cup {NoPeer}

\* What verify() does not check of the indexes (spec I2/I3): one peer per
\* proof, the valid pool and the radix tree hold exactly the bound proofs,
\* and the unbroadcast set only names bound proofs.  At stake when
\* removePeer (erasing the unbroadcast entry) runs inside replacement,
\* rejection and the sweeps while setFinalized, latchAvaproofsSent and
\* addUnbroadcastProof interleave.
PeerIndexesConsistent ==
    /\ \A a, b \in DOMAIN peers : a # b => peers[a].proof # peers[b].proof
    /\ validPool = {peers[pid].proof : pid \in DOMAIN peers}
    /\ shareableProofs = validPool
    /\ unbroadcast \subseteq validPool

\* Spec I1: a proof id is in at most one of the valid, conflicting and
\* immature pools, and each pool keeps its outpoints disjoint.  At stake in
\* registerProof's routing and rejectProof's pull-back.
PoolsExclusive ==
    /\ validPool \cap conflictingPool = {}
    /\ validPool \cap immaturePool = {}
    /\ conflictingPool \cap immaturePool = {}
    /\ Pool!Disjoint(conflictingPool) /\ Pool!Disjoint(immaturePool)

\* Spec I7: a node waits only for a proof that has no peer, and a node bound
\* to a live peer is not also pending.  At stake in addNode, removePeer
\* (which re-pends the peer's nodes) and registerProof's draining of the
\* pending set.
PendingNodesWaitForUnboundProofs ==
    /\ \A n \in DOMAIN pendingNodes : PeerIdOf(St, pendingNodes[n]) = NoPeer
    /\ \A n \in DOMAIN nodes : nodes[n].peerid \in DOMAIN peers =>
          n \notin DOMAIN pendingNodes

\* Spec I6 and the data model: every node is bound to an existing peer,
\* and a node is bound or pending, never both.
NodesBoundToLivePeers ==
    \A n \in DOMAIN nodes :
        nodes[n].peerid \in DOMAIN peers /\ n \notin DOMAIN pendingNodes

\* Spec 4.2/8: the immature pool never holds more than
\* AVALANCHE_MAX_IMMATURE_PROOFS proofs.
ImmaturePoolBounded == Cardinality(immaturePool) <= MaxImmature

\* Spec 7 (round trip): for a proof the manager does not know,
\* registerProof(p) followed by rejectProof(p, INVALIDATE) gives back the
\* same valid, conflicting and immature pools.  Crosses replacement
\* (moveToConflictingPool, whose addProofIfPreferred may evict), the
\* conflicting-pool routing and rejectProof's pull-back.
RegisterRejectRoundTrip ==
    \A p \in Proofs :
        ~Exists(St, p) /\ p \notin danglingProofIds =>
            LET s2 == RejectProof(RegisterProof(St, p, "default"), p, "invalidate")
            IN  /\ s2.validPool = validPool
                /\ s2.conflictingPool = conflictingPool
                /\ s2.immaturePool = immaturePool

\* The node binding seen through the peers: a node bound to a live peer
\* queries that peer's proof (a node left under a removed peer id is not
\* bound to anything).
BoundProof == [n \in {n \in DOMAIN nodes : nodes[n].peerid \in DOMAIN peers} |->
                  peers[nodes[n].peerid].proof]

Binding == INSTANCE NodeBinding
               WITH live <- validPool, bound <- BoundProof, pending <- pendingNodes

\* The manager implements NodeBinding: every method moves nodes between
\* bound and pending only as their proofs come and go (addNode, removeNode,
\* removePeer re-pending a peer's nodes, registerProof draining the nodes
\* waiting for it, and every composition of these in replacement,
\* rejection, pull-back and the sweeps), and the live proofs stay
\* outpoint-disjoint.
ImplementsNodeBinding == Binding!Spec

\* A peer other than the local proof's, without nodes, whose dangling
\* timeout falls within the modelled clock.
Nodeless(q, local) ==
    /\ q # local /\ PeerIdOf(St, q) # NoPeer
    /\ peers[PeerIdOf(St, q)].node_count = 0
    /\ peers[PeerIdOf(St, q)].registration_time + DanglingTimeout <= MaxTime

\* Spec scenario 4: as the clock advances and the sweep runs, every peer
\* other than the local proof's that stays without nodes is eventually
\* dropped, unless a node binds to it first.  Needs registerProof's
\* registration_time, cleanupDanglingProofs's timeout test and its
\* rejectProof(INVALIDATE) to agree, whatever pull-backs that triggers.
NodelessPeersSwept(local) ==
    \A q \in Proofs :
        Nodeless(q, local) ~>
            \/ PeerIdOf(St, q) = NoPeer
            \/ peers[PeerIdOf(St, q)].node_count > 0

\* Conflict cooldown (spec 4.3 step 5, scenario 3): a default-mode
\* registerProof only evicts a peer whose proof was registered at least
\* the cooldown ago.  Rests on createPeer seeding nextPossibleConflictTime
\* with now + cooldown, on updateNextPossibleConflictTime never moving it
\* back, and on registerProof reading the times before bumping them.
CooldownRespected ==
    [][\A p \in Proofs :
         Apply(RegisterProof(St, p, "default")) =>
            \A pid \in DOMAIN peers \ DOMAIN peers' :
               now >= peers[pid].registration_time + Cooldown]_vars

\* Spec 4.2/4.7: an immature proof whose stake has matured leaves the
\* immature pool (as a peer, into the conflicting pool, or rejected)
\* while its verdict stays valid.  Rests on updatedBlockTip's rescan
\* emptying the pool before re-offering each proof to registerProof,
\* whose dedup gate would otherwise turn it away as already registered.
ImmatureProofsPromoted ==
    \A p \in Proofs :
        (p \in immaturePool /\ chain[p] = "valid") ~>
            (p \notin immaturePool \/ chain[p] # "valid")

=============================================================================
