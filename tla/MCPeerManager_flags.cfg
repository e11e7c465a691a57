CONSTANTS
    Proofs = {1, 2, 3}
    Utxos = {1, 2}
    Nodes = {n1}
    Score <- MCScoreDistinct
    Stakes <- MCStakes
    Cooldown = 0
    DanglingTimeout = 0
    MaxTime = 0
    MaxImmature = 1
    ReplacementEnabled = TRUE
    RegistrationModes = {"default"}
    Verdicts = {"valid"}
    FlagCalls = TRUE
    NoPeer = NoPeer
    NoProof = NoProof
SPECIFICATION Spec
CONSTRAINT PeerIdBound
INVARIANT PeerIndexesConsistent
