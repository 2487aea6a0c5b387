\* Two containers share the database, as during a rolling deploy.
SPECIFICATION Spec
CONSTANTS
    Proc = {p1, p2}
    Run = {r1, r2}
    NoRun = NoRun
    Category = {a}
    Problems = {a}
    Stale = 1
    BeatBound = 1
    SendBound = 1
    PassBound = 1
    KeepRuns = 1
    MaxCrash = 1
    MaxDbFail = 1
SYMMETRY Symmetry
INVARIANTS
    OneHolder
    RecordedIsOwed
    ReapsOnlyDead
