\* One claim through several attempts, and two claims in turn.
SPECIFICATION Spec
CONSTANT Limits <- LongLives
INVARIANTS
    TypeOK
    InFlightIsHonest
    LiveAgentHoldsSlot
PROPERTIES
    AttemptIsRecorded
CHECK_DEADLOCK FALSE
