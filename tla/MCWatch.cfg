SPECIFICATION WatchFairSpec
CONSTANTS
    Timeout = 3
    Uploads = {TRUE, FALSE}
    Early = TRUE
    MaxBytes = 4
PROPERTIES
    TimerTruthful
    TransfersEnd
