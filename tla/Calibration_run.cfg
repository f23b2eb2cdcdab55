SPECIFICATION Spec
CONSTANTS
    a = a
    b = b
    earlier = earlier
    later = later
    Invocations = {a, b}
    Contexts = {earlier, later}
    Objective <- MCObjective
    MaxSamples = 3
    MaxRows = 2
    MetricsOn <- MCMetricsOn
    RawTime <- MCRawTime
    NativeSample <- MCNativeSample
    Evidence <- MCEvidence
    MaxRuns = 6
    MaxMishaps = 1
    Calm = 3
SYMMETRY Callers
INVARIANTS SamplesAreLatest StabilisesInFew LedgerKeepsNewest
CHECK_DEADLOCK FALSE
