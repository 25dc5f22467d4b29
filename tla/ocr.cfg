\* A request of the worker and one of LibreChat share the docling child, which may die
\* once; three files of two sizes, and room for two.
SPECIFICATION MCSpec
CONSTANTS
    Named = {n1}
    Chat = {c1}
    MaxImages = 1
    MaxDeaths = 1
    NoOne = NoOne
    Files = {"small", "other", "large"}
    Bytes <- Sizes
    StoreMax = 2
    StoreMaxBytes = 3
INVARIANTS OwnAnswer CancelledEnds UrlsKept
PROPERTIES RequestsEnd
\* Once every client has its answer nothing is left to do.
CHECK_DEADLOCK FALSE
