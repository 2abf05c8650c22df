\* Two workers, two chunks or files, one retry, one revocation.
CONSTANTS
    w1 = w1
    w2 = w2
    main = main
    Workers = {w1, w2}
    Main = main
    Items = 2
    MaxRetries = 1
    MaxTokens = 2
SPECIFICATION FairSpec
CHECK_DEADLOCK FALSE
INVARIANTS
    NoSilentGap
    OkMeansWhole
    SessionOutlivesPuts
PROPERTIES
    JoinEnds
