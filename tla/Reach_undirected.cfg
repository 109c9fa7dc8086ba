\* A trail of at least one hop, undirected, with the bound left open
SPECIFICATION ReachSpec
CONSTANTS
    Stops = {1, 2}
    AnyLength = 100
    Questions <- MCQuestions
INVARIANT EndpointsAreExact
CHECK_DEADLOCK FALSE
