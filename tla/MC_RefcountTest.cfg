CONSTANT n_threads = 3
SPECIFICATION Spec
INVARIANT TypeOK
INVARIANT NoUseAfterFree
PROPERTY Termination
\* The test returns once both objects are released: the final state is the
\* program exiting, not a deadlock.
CHECK_DEADLOCK FALSE
