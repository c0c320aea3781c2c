\* Two drivers, one sprint depending on the other, four missions.
CONSTANTS
    SprintIds = {1, 2}
    None = None
    AllowHitl = TRUE
    Missions <- MCMissions
    Registry <- MCRegistry
    Profiles <- MCProfiles
    Products <- MCProducts
    Texts <- MCTexts
    Tokens <- MCTokens
    Notice <- MCNotice
SPECIFICATION Spec
INVARIANTS
    TypeOK
    LaddersEnd
    ContextHonest
    AcceptanceProven
PROPERTIES
    EscalationKept
    BlockedSprintStops
CHECK_DEADLOCK FALSE
