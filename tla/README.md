# TLA+ model of the avalanche peer manager

This directory models `src/src/avalanche/peermanager.cpp`. That file is the
avalanche `PeerManager`: it decides which stake proofs are bound to peers,
which network nodes query which peer, and how a peer is drawn in proportion
to its stake. Every module here translates that file. The one exception is
`ProofPool`: `proofpool.cpp` is not among the sources, so that module is
modelled from `spec.md` §4.2.

## The system

| Part | State (C++) | Operations (C++) |
|---|---|---|
| Peer index | `peers` (multi-index by peer id, by proof id), `nextPeerId` | `registerProof` → `createPeer`, `removePeer`, `getProof`, `isBoundToPeer` |
| Slot table | `slots`, `slotCount`, `fragmentation`, `connectedPeersScore`, `totalPeersScore` | `addNodeToPeer` (allocates a slot), `removeNodeFromPeer` (frees/pops one), `compact`, `selectPeer` → `selectPeerImpl` |
| Node index | `nodes` (by node id, by (peer, nextRequestTime)) | `addNode`, `addOrUpdateNode`, `removeNode`, `updateNextRequestTime`, `latchAvaproofsSent`, `selectNode` |
| Pending nodes | `pendingNodes` (node → proof id) | filled by `addNode` for unknown proofs and by `removePeer`; drained by `registerProof` |
| Proof pools | `validProofPool`, `conflictingProofPool`, `immatureProofPool` | `registerProof`, `rejectProof`, `updatedBlockTip` (rescan), `moveToConflictingPool` |
| Side sets | `shareableProofs` (radix tree), `m_unbroadcast_proofids`, `danglingProofIds`, `needMoreNodes` | `add/removeUnbroadcastProof`, `cleanupDanglingProofs`, `setFinalized`, `updateNextPossibleConflictTime` |

These parts interact in the following ways:
- Registering a proof can displace peers whose proofs share an outpoint. It can also drain pending nodes into the new peer.
- Rejecting a proof removes its peer. Nodes with an expired request time are erased; all other attached nodes become pending. Proofs from the conflicting pool are then re-registered on the freed outpoints.
- Binding a node to a peer with no nodes gives that peer a slot. Losing the peer's last node frees the slot.

The behaviours that are hard to get right:
- a long sequence of binds, rebinds and frees in any order;
- replacement as several steps that must all succeed;
- recursion of `rejectProof` into `registerProof`;
- the `FORCE_ACCEPT` path;
- the immature-pool cap;
- nodes that still have a query in flight when their peer dies;
- `compact` rebuilding the slot table.

## Modules

- **`SlotTable.tla`** models the slot vector and selection.
  - It has `Stop`, `Contains`, `Precedes` and `Follows` for slots.
  - `SelectPeerImpl` translates `selectPeerImpl` (lines 770-825). It is a `RECURSIVE` dichotomic search that falls back to `LinearScan` when the window is at most 8 slots.
  - `SelectRef` is the reference contract: the peer of the live slot that contains the draw.
- **`SlotSampling.tla`** models the slot table on its own.
  - `AllocateSlot` is `addNodeToPeer`'s append at `slotCount`.
  - `FreeSlot` is `removeNodeFromPeer`'s pop-or-mark-dead.
  - It builds tables longer than 8 slots, so that `selectPeerImpl` runs its interpolation search and not only its final linear scan.
- **`ProofPool.tla`** (spec-modelled) models a pool as a set of proof ids.
  - `AddIfNoConflict` and `AddIfPreferred` return the new pool and the proofs evicted from it.
  - `AddIfPreferred` needs a strictly higher score than every conflict.
  - It also has `LowestScore` and `ProofsWithUtxo`.
- **`PeerManager.tla`** models the whole manager. Each C++ method is an operator from the state record `St` to a new state record.
  - This lets a method that calls another method compose in a single step. Examples are `rejectProof` → `registerProof` and `updatedBlockTip` → rescan → `rejectProof`/`registerProof`. One step is right because the code runs each call under the manager's single lock.
  - `Apply(s)` primes all variables at once.
  - Loops are folds (`FoldLeft` over `SetToSortSeq`, `FoldSet`). Peers are iterated in ascending peer id.
  - The environment has three actions:
    - `Tick` advances the wall clock.
    - `RequestTimeoutElapses(n)` expires a node's `nextRequestTime`. The steady clock is reduced to a boolean per node.
    - `ChainUpdate` changes what `Proof::verify` answers for a proof.
  - `selectNode` is modelled as every outcome the random draw can produce.
- **`NodeBinding.tla`** is the abstract specification of what the manager promises about nodes, from spec §3 (I2, I6, I7 and the node lifecycle). Its state is the set of live proofs, the nodes bound to them, and the nodes waiting for a proof. Nodes move only in these ways:
  - by a call for that node (`Connect`, `Park`, `Disconnect`);
  - when the set of live proofs changes (`Reconfigure`): the nodes of a proof that goes away wait for it, and the nodes waiting for a proof that becomes live are bound to it;
  - the live proofs stay outpoint-disjoint.

  `PeerManager` instantiates it as `Binding`, with this refinement mapping:
  - `live` ← `validPool`;
  - `bound` ← `BoundProof` (the proof of each node's peer, for nodes whose peer exists);
  - `pending` ← `pendingNodes`.
- **`MCPeerManager.tla`** holds the model constants (proof stakes, two score profiles) and the state constraint `PeerIdBound`.

`PROJECT.json` `map` gives the source lines that each definition translates.

## Properties

- **`TypeOK`** is the type invariant.
- **`VerifyHolds`** is `Verify(St)`: the manager's own `verify()` (lines 641-769), which the unit tests assert after every call, holds in every reachable state. `Verify` translates each early return as a conjunct:
  - slots are ordered, and each live slot is the slot its peer's index points at;
  - the live slots' scores sum to `connectedPeersScore`;
  - each peer's outpoints are owned by its proof in the valid pool and by no other peer;
  - `node_count` is the number of nodes naming the peer;
  - a connected peer's slot carries its score, and its proof is in the radix tree;
  - `totalPeersScore` and `connectedPeersScore` are the sums over peers and connected peers;
  - the valid pool's size (one entry per outpoint, `ProofPool!Size`) equals the number of peers' outpoints;
  - every proof in the radix tree is bound to a peer.
- **`SamplingIsStakeWeighted`**:
  - `slotCount = connectedPeersScore + fragmentation`;
  - for every draw in `[0, slotCount)`, `SelectPeerImpl` returns a connected peer for exactly `Score` draws of that peer, and for the other draws returns no peer.
- **`PeerIndexesConsistent`** checks what `verify()` does not (spec I2/I3). It is checked only in `pm_flags`, the one run where the unbroadcast set is used:
  - one peer per proof;
  - the valid pool equals the set of bound proofs, and so does `shareableProofs`;
  - unbroadcast proofs are bound.
- **`PoolsExclusive`** (spec I1/I4): the three pools are pairwise disjoint, and the conflicting and immature pools are each UTXO-disjoint.
- **`PendingNodesWaitForUnboundProofs`**: a pending node waits for a proof that has no peer, and is not bound to a live peer.
- **`NodesBoundToLivePeers`** (spec I6): every node is bound to an existing peer.
- **`CooldownRespected`** (action property, spec §4.3 step 5 and scenario 3): a default-mode `registerProof` removes only peers registered at least the cooldown ago. It rests on three things:
  - `createPeer` seeding `nextPossibleConflictTime` with `now + cooldown`;
  - `updateNextPossibleConflictTime` never moving that time back;
  - `registerProof` reading the times before bumping them.
- **`ImplementsNodeBinding`** (refinement): `Binding!Spec` holds of the manager.
- **`NodelessPeersSwept(local)`** (liveness, spec scenario 4): a peer other than the local proof's that has no node and whose `registration_time + DANGLING_TIMEOUT` the clock can reach is eventually removed, or gets a node first.
- **`ImmatureProofsPromoted`** (liveness, spec §4.2/§4.7): an immature proof whose verdict has become valid leaves the immature pool while the verdict stays valid. It becomes a peer, goes to the conflicting pool, or is rejected. This rests on `updatedBlockTip`'s rescan taking each proof out of the pool before offering it to `registerProof`. Otherwise the dedup gate would answer "already registered" and the proof would stay immature for ever. `proofpool.cpp` is not among the sources, and spec §4.2 only says that `rescan` re-validates each proof and returns those that graduated. Emptying the pool first is therefore an assumption of the spec-modelled `Rescan`, not something translated from code. The property shows that `updatedBlockTip` depends on it.
- **`RegisterRejectRoundTrip`** (spec §7): for an unknown proof, register-then-reject (INVALIDATE) gives back the same three pools. It is checked only as a violation; see finding 5.
- **`ImmaturePoolBounded`** (spec §8): at most `AVALANCHE_MAX_IMMATURE_PROOFS` immature proofs.

## Runs and bounds

The common model uses 3 proofs over 2 outpoints: proof 1 stakes {1}, proof 2 stakes {1,2} and proof 3 stakes {2}. This gives a chain of conflicts, so that replacement displaces one or two peers, and proofs 1 and 3 can coexist. The state constraint allows at most 3 peer ids and 4 slots, so frees and compaction happen within the bound. The cap `MaxImmature = 1` makes eviction reachable with two immature proofs.

| Run | What it checks |
|---|---|
| `pm_equal_scores` (pass) | Equal scores, two nodes, default and force modes, valid proofs only. All node binding, rebinding, removal, peer removal, force acceptance and compaction keep `verify()` true, and selection is stake-weighted. |
| `pm_conflicts` (pass) | Distinct scores (1, 3, 2), one node, cooldown and dangling timeout of 1 second, a clock of 2 values, proofs valid or immature. Covers replacement, cooldown rejection, conflicting and immature pools, eviction at the cap, `updatedBlockTip` and the dangling sweep. Pools stay exclusive and `verify()` holds, and `CooldownRespected` and `ImplementsNodeBinding` hold: replacement happens at time 1 of peers registered at 0, and never at time 0. |
| `pm_flags` (pass) | The bookkeeping calls (`setFinalized`, `latchAvaproofsSent`, the unbroadcast set) interleaved with registration and replacement keep `PeerIndexesConsistent`: `removePeer` erases a removed proof from the unbroadcast set (line 584). |
| `slot_selection` (pass) | `SlotSampling` on every table reachable by allocations and frees: up to 10 slots, scores 1 and 3, at most 3 dead slots. It checks `SelectionMatchesScan`: for every draw, the interpolation search returns what a full scan returns. The 235k tables cover the undershoot, overshoot and dead-slot exits of the search (line 785). Larger bounds (11 slots, 3 scores) did not finish within 30 minutes. |
| (refinement, in `pm_conflicts`) | `ImplementsNodeBinding` is checked in `pm_conflicts` (285k states, about 2 minutes): every default-mode registration path, replacement under cooldown, rejection with pull-back, the immature pool, node calls, block updates and sweeps. The force-accept path under the refinement (one node, both modes) needs about 4 minutes once combined with another property, and two nodes need 2.2M states, so neither is a run; force acceptance and rebinding between two nodes are covered by `VerifyHolds` in `pm_equal_scores`. |
| `pm_sweep_liveness` (pass) | `NodelessPeersSwept(1)` under `MCFairSpec` (clock fairness and sweep fairness). Proof 1 is the node's own proof. Dangling timeout 1, clock 0..2, one node, valid proofs. The mutant that sweeps only when the timeout is strictly exceeded leaves a peer registered at 1 unswept. |
| `pm_promote_liveness` (pass) | `ImmatureProofsPromoted` under `MCTipFairSpec` (fairness of `updatedBlockTip`). Verdicts valid or immature, so `ChainUpdate` matures and un-matures proofs; one node, no clock (144k states, about 2 minutes). The mutant whose rescan keeps the pool is caught in a few thousand states. |
| `pm_compact_violation` | Finding, described below. |
| `pm_force_immature_violation` | Finding, described below. |
| `pm_immature_cap_violation` | Finding, described below. |
| `pm_inflight_nodes_violation` | Finding, described below. |
| `pm_roundtrip_violation` | Finding, described below. |

`FlagCalls = FALSE` in the first two runs removes the setters of bits the manager never reads. This keeps the state space small. The third run turns them on.

Deadlock checking is on in every run: registration of a proof is always enabled.

## Fairness

Most operations are calls from the node's message handlers or RPC. Nothing obliges a caller to make them, so `Spec` has no fairness.

Two things are not calls. The wall clock advances: `ClockFairness` is `WF_vars(Tick)`. And `cleanupDanglingProofs`: the avalanche processor's event loop calls it with the node's own proof on a fixed period. `SweepFairness(local)` states weak fairness of exactly that call.

That call is deterministic, so "enabled as a step that changes the state" is the state predicate `SweepChanges(local)`: its result differs from the current state. The fairness is therefore written in the defining form of `WF_vars`: `<>[]SweepChanges => []<><<Sweep>>_vars`. Writing `WF_vars(...)` directly would make TLC evaluate `ENABLED` of a deeply nested composition on every state, which is far too slow here.

`updatedBlockTip` is called by the processor's validation interface on every new tip, and a proof's verdict changes only with the tip. `TipFairness` states weak fairness of that call in the same defining form, over `TipChanges`. Only `pm_promote_liveness` assumes it.

Used with a `CONSTRAINT`, the liveness check only considers behaviours inside the bound. A sweep whose pull-back would re-register a proof under a peer id past `MaxPeerId` is cut off. The property is therefore checked for behaviours that mint at most 3 peer ids.

## Findings

1. **`compact()` (line 627)** reads `prevStop` from the old slot vector. With unequal scores it produces overlapping slots and a `slotCount` that does not equal the sum of the live scores. With equal scores the result is correct, which is why tests with uniform scores pass.
2. **A force-accepted conflicting proof that now verifies as immature** enters the immature pool while staying in the conflicting pool (lines 225 and 248). This contradicts spec I1.
3. **`updatedBlockTip`** re-adds newly immature proofs without the cap check (line 516). The immature pool can then exceed its bound.
4. **`removePeer`** keeps nodes with a running request timeout bound to the dead peer and also pending (line 574). The comment at line 106 expects this; spec I6 forbids it. `NodeBinding` does not see such a node as bound (its peer no longer exists), so the refinement holds.
5. **The register/reject round trip does not restore the pools** (line 416). `rejectProof(p, INVALIDATE)` pulls back the conflicting-pool proof staking each of `p`'s outpoints and re-registers it. It does this even when `p`'s registration never displaced that proof.
   - TLC's trace: proof 1 is rejected in DEFAULT mode into the conflicting pool. Then proof 2, which conflicts with it, is registered and rejected. Proof 1 ends up a valid peer.
   - With immature proofs, an immature proof that `p` evicted from the immature pool is lost.
   - The pull-back also removes the proof from the conflicting pool before re-registering it (line 423). If that registration fails, the proof is in no pool at all.

   Spec §7 states the round trip as an invariant.

## Not modelled

- **`chainparamsconstants.cpp`**: generated data with no state or behaviour.
- **`validation_tests.cpp`**: unit tests of block subsidy and block file loading, unrelated to the peer manager.
- **`fuzz/deserialize.cpp`**: a fuzz harness for serialization round trips (I/O).
- **The radix tree** behind `shareableProofs`: only the set of proofs it holds is modelled.
- **Signatures, UTXO lookups and real time values**: these are abstracted to `chain`, `now` and the per-node timeout flag.

## Plan for later sittings

1. Run `compact` inside `SlotSampling`, once the finding is settled.
2. An abstract specification of the three pools (valid/conflicting/immature routing by verdict and score), refined by `PeerManager` alongside `NodeBinding`.
3. Liveness of `selectNode` under fairness of the request timeouts: a connected peer with a node eventually has an available node.
