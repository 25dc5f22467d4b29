\* A user with the built-in admin's email came by SSO first.
SPECIFICATION AccountSpec
CONSTANTS
    Ids = {"root"}
    Email <- EmailOf
    Boot = "boot"
    LocalAuth = TRUE
    Sids = {s1, s2}
    Requests = {q1}
    MaxRequests = 2
    MaxLinks = 1
    NoOne = NoOne
PROPERTIES SyncRestoresAccess
CHECK_DEADLOCK FALSE
