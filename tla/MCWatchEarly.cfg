SPECIFICATION WatchFairSpec
CONSTANTS
    Timeout = 3
    Uploads = {TRUE}
    Early = TRUE
    MaxBytes = 2
PROPERTIES
    StallsAreCancelled
