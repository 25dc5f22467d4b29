\* One destination, two PATCH requests at a time.
SPECIFICATION DestinationSpec
CONSTANTS
    Templates = {"t1"}
    Patches = {p1, p2}
    MaxSettings = 3
    NoTemplate = NoTemplate
    NoSend = NoSend
INVARIANT TemplateThere
\* The bounds stop the requests.
CHECK_DEADLOCK FALSE
