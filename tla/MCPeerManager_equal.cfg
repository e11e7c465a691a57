CONSTANTS
    Proofs = {1, 2, 3}
    Utxos = {1, 2}
    Nodes = {n1, n2}
    Score <- MCScoreEqual
    Stakes <- MCStakes
    Cooldown = 0
    DanglingTimeout = 0
    MaxTime = 0
    MaxImmature = 1
    ReplacementEnabled = TRUE
    RegistrationModes = {"default", "force"}
    Verdicts = {"valid"}
    FlagCalls = FALSE
    NoPeer = NoPeer
    NoProof = NoProof
SPECIFICATION Spec
CONSTRAINT PeerIdBound
INVARIANT TypeOK
INVARIANT VerifyHolds
INVARIANT SamplingIsStakeWeighted
INVARIANT PendingNodesWaitForUnboundProofs
