SPECIFICATION Spec
CONSTANTS
    b1 = b1
    b2 = b2
    b3 = b3
    t1 = t1
    t2 = t2
    r1 = r1
    r2 = r2
    tmpl = tmpl
    none = none
    Batches = {b1}
    Threads = {t1}
    Targets = {r1, r2, tmpl}
    NoTarget = none
    NoBatch = none
    Plan <- PlanOne
    MaxClicks <- OneClick
    MaxCrashes = 0
    SlackFails = FALSE
PROPERTIES
    SkipsOnlyPending
\* All batches may be decided and every click handled: the system then rests.
CHECK_DEADLOCK FALSE
