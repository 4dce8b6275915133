\* Every answer to every request of every kind of session.
SPECIFICATION FairSpec
CONSTANTS
    c1 = c1
    c2 = c2
    c3 = c3
    None = None
    Convs = {c1, c2, c3}
    Pages = 2
    Page <- TwoPages
    Projects = {p1, p2}
    MaxRetry <- FewRetries
    Title <- Titles
    Messages <- Quotes
    Stamps = {"now", "earlier"}
    Stamp <- Now
CHECK_DEADLOCK FALSE
INVARIANTS
    TypeOK
    NothingButContent
    CleanIsComplete
    HeaderReadsBack
PROPERTIES
    Terminates
    EveryStepAdvances
    ImplementsHarvest
