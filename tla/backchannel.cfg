SPECIFICATION MCSpec
CONSTANTS
    StartMs = 100
    EndMs = 600
    MaxEndMs = 1200
    RequiredMs = 200
    MaxFillerMs = 800
    MaxWindows = 30
INVARIANT FillersDoNotInterrupt
CHECK_DEADLOCK FALSE
