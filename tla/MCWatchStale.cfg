SPECIFICATION WatchSpec
CONSTANTS
    Timeout = 3
    Uploads = {FALSE}
    Early = FALSE
    MaxBytes = 2
PROPERTIES
    NoFalseStall
