SPECIFICATION MatchSpec
CONSTANTS
    Characters = {"a", "/", "+", "#"}
    MaxName = 4
    MaxFilter = 5
CHECK_DEADLOCK FALSE
INVARIANT
    MisplacedHashIsLiteral
