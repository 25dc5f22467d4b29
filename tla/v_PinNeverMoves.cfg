\* Two prompts, one job and one schedule of it, two requests at a time.
SPECIFICATION LibrarySpec
CONSTANTS
    Prompts = {"p1", "p2"}
    Schedules = {"s1"}
    Callers = {c1, c2}
    MaxTries = 2
    MaxVersions = 3
    MaxCalls = 5
    NoPin = NoPin
    NoJob = NoJob
    Deleted = Deleted
    Failed = Failed
INVARIANTS PinNeverMoves
\* Prompts and versions run out.
CHECK_DEADLOCK FALSE
