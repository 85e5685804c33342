CONSTANTS
    c1 = c1
    c2 = c2
    Commands = {c1, c2}
    Stops = {s1}
    Plans <- MCPlans
SPECIFICATION CommandsFairSpec
INVARIANTS OneHost ExitsTell
PROPERTIES CommandsEnd
\* Every process ends, so the system does stop.
CHECK_DEADLOCK FALSE
