SPECIFICATION FairSpec
CONSTANTS
    g = g
    h = h
    Root = root
    s = s
    t = t
    a = a
    b = b
    Groups = {root, g, h}
    Subs = {s, t}
    Names = {a, b}
    FirstTrees <- SomeTrees
    Rules <- SomeRules
    Places <- SomePlaces
    Holdings <- SomeHoldings
    Readers = {tick, admin}
    Tick = tick
    AnswersAbove = TRUE
    MaxChanges = 1
    MaxReads = 1
    MaxFailures = 1
    MaxRuns = 1
    None = None
CHECK_DEADLOCK FALSE
INVARIANTS ScansTheOverlap
PROPERTIES ChangesOnlyTheirs FixedWhereLooked CopyCatchesUp
