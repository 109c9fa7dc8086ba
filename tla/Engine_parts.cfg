\* The self-contained parts of the engine, each on its own small instance
SPECIFICATION EngineSpec
CONSTANTS
    Plans = {p, q}
    NoPlan = NoPlan
    GenSize = 2
    MaxSlots = 2
    MaxEra = 3
    Texts <- MCTexts
    Traversals <- MCTraversals
    Depths = {1, 2}
    Values = {yes, five}
    Truths = {yes}
    Clocks = {t1}
    Cap = 2
    Hash <- MCHash
    Vertices = {1, 2, 3, 4}
    Links <- MCLinks
    Costs = {0, 1, 3}
    Far = 100
    Hints <- MCHints
    Source = 1
    Target = 4
    Nodes = {1, 2, 3, 4}
    Arcs <- MCArcs
    None = None
    Sites = {1, 2, 3}
    Ties = {1, 2, 3, 4, 5, 6}
    OutAdj <- MCOutAdj
    InAdj <- MCInAdj
    Calls <- MCCalls
    Corners = {1, 2, 3}
    Widest = 60
    Counts <- MCCounts
    Stops = {1, 2, 3}
    AnyLength = 100
    Questions <- MCQuestions
    Places = {1, 2, 3, 4}
    NoBound = NoBound
    Errands <- MCErrands
    Pleas <- MCPleas
    Null = Null
    Absent = Absent
    TrimFactor = 2
    LeastTrim = 1
VIEW Seen
INVARIANTS
    LiveHandlesResolve
    FreedHandlesAreRefused
    AnswersDifferOnlyInConditions
    CachesAreBounded
    DistancesAreShortest
    ComponentsAreExact
    PathsAreExact
    TotalsAreExact
    EndpointsAreExact
    ShortestPathsAreExact
    PagesAreExact
CHECK_DEADLOCK FALSE
