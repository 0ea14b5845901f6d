CONSTANTS
    Tests <- MC_Tests
SPECIFICATION Spec
CHECK_DEADLOCK FALSE
INVARIANT TypeOK
INVARIANT TestAssertionsHold
INVARIANT NoStaleSourceRemoval
INVARIANT AppRefsBalanced
PROPERTY Termination
