\* One container, the supported deployment, crashing and restarting.
SPECIFICATION FairSpec
CONSTANTS
    Proc = {p1}
    Run = {r1}
    NoRun = NoRun
    Category = {a, b}
    Problems = {a}
    Stale = 2
    BeatBound = 2
    SendBound = 1
    PassBound = 2
    KeepRuns = 1
    MaxCrash = 2
    MaxDbFail = 1
PROPERTIES
    KeepsPromise
    RunsClose
    OutboxDrains
