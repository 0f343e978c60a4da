\* A worker reports a control exception and exits between the two reads of
\* the polling loop.
SPECIFICATION Spec
CONSTANTS
    Workers = 2
    MaxWaves = 1
    MaxFaults = 0
INVARIANTS
    ChildExceptionIsReported
