\* Sharing: two requests in progress at once, on three teams and one project; the
\* library: two prompts, a job and its schedule; labels: two of them and a project; the
\* quota: four files in three uploads; evidence: two attachments, three attempts, one
\* crash and one rejected call or lost answer.
SPECIFICATION Spec
CONSTANTS
    Teams = {ta, tb, tc}
    Users = {ann, bob}
    Admins = {}
    Founder = ann
    Handlers = {h1, h2}
    Grants <- EditForAll
    InitialRoles <- OwnedByOneOrAll
    InitialAcls <- EditForOneTeam
    MaxRequests = 2
    Org = Org
    None = None
    Prompts = {"p1", "p2"}
    Schedules = {"s1"}
    Callers = {c1, c2}
    MaxTries = 2
    MaxVersions = 3
    MaxCalls = 4
    NoPin = NoPin
    NoJob = NoJob
    Deleted = Deleted
    Failed = Failed
    LabelIds = {"l1", "l2"}
    Projects = {"pr1"}
    Editors = {e1, e2}
    MaxAborts = 2
    MaxLabelEdits = 4
    NoLabel = NoLabel
    FileIds = {1, 2, 3, 4}
    SizeOf <- SizeOfFile
    Uploads = {up1, up2, up3}
    MaxFiles = 2
    MaxBytes = 3
    Nobody = Nobody
    Docs = {d1, d2}
    Attempts = 3
    MaxEdits = 1
    MaxCrashes = 1
    MaxFaults = 1
SYMMETRY Symmetry
INVARIANTS ApproversAreEditors VisibilityFollows PinHonoured OneDefaultLabel QuotaKept EvidenceMatchesRequest StagingRemoved
PROPERTIES LastOwnerLostOnlyToRace CycleOnlyByRace NothingReferredToIsDeleted CrowdedOut
\* The bounds stop the requests; a run that ended stays as it is.
CHECK_DEADLOCK FALSE
