\* Every availability of seven resources, under six profiles.
CONSTANTS
    Queries <- MCQueries
SPECIFICATION Spec
INVARIANTS
    TypeOK
    RequiredCovered
    OptInOnly
    DegradedHonest
CHECK_DEADLOCK FALSE
