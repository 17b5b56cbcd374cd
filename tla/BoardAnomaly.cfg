SPECIFICATION Spec
CHECK_DEADLOCK FALSE \* a request is answered once
CONSTANTS
    Uuids <- MCUuids
    Ident <- MCIdent
    Outcomes <- MCOutcomes
    Beats <- MCBeats
    Closes <- MCCloses
    Unreliable = "lianhuashan"
    Today = 5
    Recent = 2
    MaxSpan = 4
    MaxReasons = 2
    MaxTop = 2
    MaxRank = 2
    MaxAnomalies = 2
    Asked <- MCAsked
    HotName <- MCHotName
    DefaultSize = 2
    MaxSize = 3
    DetailSpan = 2
    AskedLists <- MCAskedLists
    ToolDays = 4
    ToolSize = 1
    MaxToolSize = 2
    Ops = {"anomaly"}
    Tools = {}
    MaxRate = 800
    MaxLate = 0
    Starts <- MCStarts
    FomAnswers <- MCFom
    FfmAnswers <- MCFfm
INVARIANT AnomalyReasons
