SPECIFICATION Spec
CONSTANTS
    Scenarios <- MCScenarios
    Unmarshal <- MCUnmarshal
INVARIANT UpstreamIsReadable
