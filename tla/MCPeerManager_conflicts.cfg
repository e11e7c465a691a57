CONSTANTS
    Proofs = {1, 2, 3}
    Utxos = {1, 2}
    Nodes = {n1}
    Score <- MCScoreDistinct
    Stakes <- MCStakes
    Cooldown = 1
    DanglingTimeout = 1
    MaxTime = 1
    MaxImmature = 1
    ReplacementEnabled = TRUE
    RegistrationModes = {"default"}
    Verdicts = {"valid", "immature"}
    FlagCalls = FALSE
    NoPeer = NoPeer
    NoProof = NoProof
SPECIFICATION Spec
CONSTRAINT PeerIdBound
INVARIANT VerifyHolds
INVARIANT PoolsExclusive
 
PROPERTY CooldownRespected
PROPERTY ImplementsNodeBinding
