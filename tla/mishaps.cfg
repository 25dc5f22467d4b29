\* Two runs of one user with a limit of one, two lanes and a crash; or one run that two
\* lanes can be on at once after a lost lock, with a crash, a cancel and the reaper.
SPECIFICATION Spec
CONSTANTS
    u1 = u1
    Runs = {r1, r2}
    Users = {u1}
    OwnerOf <- OneOwner
    Lanes = {l1, l2}
    Reapers = {k1}
    UserLimit = 1
    Attempts = 2
    MaxStalls = 1
    Cancellable = {r1, r2}
    MaxMishaps <- CrashAndLockLoss
    NoRun = NoRun
    NoLane = NoLane
SYMMETRY SceneSymmetry
\* A bound on what happens together, as MCRunScenes says.
ACTION_CONSTRAINT InScene
INVARIANTS PerUserCeiling NoSlotLeak AnnouncedOnce QueueAgreesWithStatus
PROPERTIES KeepsContract QuietCancelHonoured
\* Once every run ended and the queue is empty nothing is left to do.
CHECK_DEADLOCK FALSE
