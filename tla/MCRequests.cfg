SPECIFICATION Spec
CONSTANTS
    Task = {q1, q2, q3}
    Connections = 2
    Nobody = Nobody
    Rule = {r1, r2}
    Resource = {x1}
    Evaluator = {ticker, handler}
    Ticker = ticker
    MaxFaults = 1
INVARIANTS
    TypeOK
PROPERTIES
    ReadStaysRead
    RequestsEnd
    MatchesAreAnnounced
CHECK_DEADLOCK FALSE
