\* Two runs, two callers, every crash point.  Two tokens per run are enough for
\* MaxEscalations = 2: a third pause of a run is refused.
CONSTANTS
    Procs = {p1, p2}
    Runs = {r1, r2}
    Tokens = {1, 2, 3, 4}
    None = None
    Routes <- MCRoutes
    MaxEscalations = 2
ACTION_CONSTRAINT TokensInOrder
SPECIFICATION FairSpec
INVARIANTS
    TypeOK
    SingleOwner
    NoStrandedRun
    EscalationsBounded
    StepCountHonest
PROPERTIES
    StreamsAreLives
    RunSettles
CHECK_DEADLOCK FALSE
