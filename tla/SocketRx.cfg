CONSTANTS
    NumSocks = 2
    Cap = 2
    MaxUnits = 3
    Prompt <- MCOnePrompt
SPECIFICATION FairSpec
INVARIANTS TypeOK NothingLost NoMailWhileWaiting
PROPERTIES IsChannel Delivered
