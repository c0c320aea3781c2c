\* VALIDATED_REQUIRED does not reach a resource with a location.
CONSTANTS
    Queries <- MCQueries
SPECIFICATION Spec
INVARIANTS
    ValidatedOrNothing
CHECK_DEADLOCK FALSE
