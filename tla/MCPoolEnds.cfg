\* One worker that may hang, two waves, two refusals or interrupts: calls end.
SPECIFICATION FairSpec
CONSTANTS
    Workers = 1
    MaxWaves = 2
    MaxFaults = 2
PROPERTIES
    CallReturns
    CloseSucceeds
