SPECIFICATION Spec
CONSTANTS
    Paths <- MCPaths
    NoNumber = NoNumber
    ServerTools <- MCServerTools
    Overrides <- MCOverrides
    MaxToolTurns = 1
    Directories <- MCDirectories
    Files <- MCFiles
    ChildrenOf <- MCChildrenOf
    NumberIn <- MCNumberIn
    NoRequest = NoRequest
    MaxCrashes = 1
    Answers <- MCAnswers
    CallLists <- MCCallLists
    StepCalls <- MCStepCalls
    Settings <- MCSettings
    MaxRetries = 1
    NoAnswer = NoAnswer
INVARIANT
    DemandedJsonPasses
