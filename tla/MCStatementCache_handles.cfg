\* Overlapping, abandoned, closed and dropped prepares.
SPECIFICATION FairSpec
CONSTANTS
    Handles = {h1, h2, h3}
    Keys = {k1}
    None = None
    Abandon = TRUE
INVARIANTS
    HitIsAlive
    LiveHandleWorksApart
    BooksAgree
PROPERTIES
    ServerIsLeftClean
