\* A parked issue a human may queue again, and a shutdown.
SPECIFICATION FairSpec
CONSTANT Limits <- OneRelabel
INVARIANTS
    NoIllegalTransition
PROPERTIES
    DrainCompletes
CHECK_DEADLOCK FALSE
