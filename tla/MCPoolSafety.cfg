\* Two workers, two waves, one refusal or interrupt.
SPECIFICATION Spec
CONSTANTS
    Workers = 2
    MaxWaves = 2
    MaxFaults = 1
INVARIANTS
    SessionSound
PROPERTIES
    NoReplayNoLateWave
