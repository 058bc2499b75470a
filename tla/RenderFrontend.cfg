SPECIFICATION Spec
CONSTANTS
    SceneIds <- TwoIds
    ViewIds <- OneId
    MaxFaults = 1
INVARIANTS
    FrontendInv
    RenderAfterParse
    SidesAgree
CHECK_DEADLOCK FALSE
