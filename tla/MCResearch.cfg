SPECIFICATION Spec
CONSTANTS
    None = None
    ClockSlack = 1
    Alpha = 50
    MinSample = 6
    PValues = {24, 60}
    TokenOrder <- MCTokenOrder
    Old = {"A"}
    New = {"N1", "N2"}
    ArchiveOrder <- MCArchiveOrder
    Contents <- MCContents
    HypothesisIds <- MCHypothesisIds
    Feature <- MCFeature
    Horizon = 1
INVARIANTS
    EvidenceIsInTime
    SurvivorsAreDiscoveries
    ReplicationIsIndependent
