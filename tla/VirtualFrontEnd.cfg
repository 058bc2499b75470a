SPECIFICATION SessionSpec
CONSTANTS
    SceneIds <- TwoIds
    ViewIds <- TwoIds
    MaxFaults = 1
    Frames = 2
    CommandSets <- FewCommands
    MaxStarts = 1
    MaxRequests = 2
INVARIANTS
    FrontEndInv
    SuccessIsComplete
    PauseIsKept
PROPERTIES
    SessionEnds
CHECK_DEADLOCK FALSE
