\* A request, its confirmations and the coworker's decision, on two threads.
SPECIFICATION PipelineSpec
CONSTANTS
    r1 = r1
    tmpl = tmpl
    none = none
    Threads = {t1, t2}
    Batches <- SomeBatches
    Targets = {r1, tmpl}
    NoTarget = none
    NoBatch = none
    Plan <- Plans
    Draft <- Drafts
    MaxClicks <- OneClick
    MaxCrashes = 1
    SlackFails = FALSE
    MaxTurns = 4
    MaxMessages = 3
    MaxSessions = 2
    CallsFail = FALSE
INVARIANTS
    WritesAreMeant
PROPERTIES
    PlansArrive
CHECK_DEADLOCK FALSE
