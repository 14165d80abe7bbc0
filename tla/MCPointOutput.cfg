SPECIFICATION Spec
CONSTANTS
    None = None
    Inputs <- MCInputs
    Policy <- MCAging
    GiOnly = FALSE
    DefaultCa = 7
    NsPerMs = 2
    U64 = 8
    MaxTime = 5
INVARIANTS
    TypeOK
    InferredScaledIsExact
    GiRepeatsLive
    TimeTagIsOrthogonal
PROPERTIES
    SilentPointIsNotTopical
