CONSTANTS
    DataTools = {query}
    Reserved = {clarify}
    MaxHistory = 3
    MaxLen = 3
SPECIFICATION Spec
\* A request is sent once.
CHECK_DEADLOCK FALSE
INVARIANT OneResultPerUse
