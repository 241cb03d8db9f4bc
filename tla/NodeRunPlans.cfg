SPECIFICATION Spec
CONSTANTS
    Scenarios <- MCScenarios
    Unmarshal <- MCUnmarshal
INVARIANTS
    InputsAreDelivered
    ArtifactsAreReachable
    PolicyHolds
    SessionContinues
    ReviewMeansIt
