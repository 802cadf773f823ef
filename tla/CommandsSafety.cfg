\* A ring of one entry for two commands; two faults of any kind.
CONSTANTS
    NumCommands = 2
    NoCommand = NoCommand
    RingSize = 1
    MaxFaults = 2
SPECIFICATION Spec
INVARIANTS
    AppliedMeansEffect
    OpenCommandsReachAgent
\* Connected, with every command handled, nothing may be left to do.
CHECK_DEADLOCK FALSE
