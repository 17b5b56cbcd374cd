CONSTANTS
    MaxRounds = 3
    MaxTools = 2
SPECIFICATION FairSpec
\* An answer ends.
CHECK_DEADLOCK FALSE
PROPERTY NoToolAfterFailedWrite
