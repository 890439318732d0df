\* A shutdown with a launch and an absence confirmation out.
SPECIFICATION Spec
CONSTANT Limits <- OneFault
INVARIANTS
    DoneWillBeReported
CHECK_DEADLOCK FALSE
