CONSTANTS
    Frames = {f1, f2, f3}
    NoFrame = NoFrame
    Powers <- MCPowers
    edThreshold = 3
    ccaThreshold = 2
    MaxDuration = 3
    SwitchDelay = 2
    ChannelNumbers = {1, 2}
SPECIFICATION Spec
INVARIANTS TypeOK ReceptionIsSound IdleMeansQuiet
PROPERTY ReceptionEnds
