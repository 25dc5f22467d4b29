\* Two replicas and two requests in progress at once, of the project's sole owner.
SPECIFICATION Spec
CONSTANTS
    Tickers = {t1, t2}
    Handlers = {h1, h2}
    People = {ann}
    Author = ann
    Admins = {}
    Eligible = {ann}
    OrgWideEdit = FALSE
    Timings = {1, 2}
    p1 = p1
    p2 = p2
    Pins = {p1, p2}
    Edits <- TimeOrPin
    Tolerance = 0
    MaxTime = 2
    MaxRequests = 3
    MaxLosses = 1
    Same = Same
    None = None
    Nobody = Nobody
INVARIANTS ApprovedAsReviewed FiresAccounted
SYMMETRY Symmetry
PROPERTIES FiresMoveForward FiresOnlyApproved
\* At the end of time, with no requests left, nothing is left to do.
CHECK_DEADLOCK FALSE
