\* As settle.cfg: does the reaper spare a run that executes?
SPECIFICATION Spec
CONSTANTS
    u1 = u1
    Runs = {r1}
    Users = {u1}
    OwnerOf <- OneOwner
    Lanes = {l1}
    Reapers = {k1}
    UserLimit = 1
    Attempts = 2
    MaxStalls = 1
    Cancellable = {r1}
    MaxMishaps <- CrashesAndFault
    NoRun = NoRun
    NoLane = NoLane
PROPERTIES ReaperSparesExecuting
\* Once every run ended and the queue is empty nothing is left to do.
CHECK_DEADLOCK FALSE
