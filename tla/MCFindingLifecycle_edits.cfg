\* One container on SQLite, operators at work while it scans.
SPECIFICATION Spec
CONSTANTS
    Scanner = {s1}
    Rule = {r1, r2}
    Activity = {r2}
    Resource = {v}
    RowVal = {x, y}
    Category = {c1, c2}
    Home = c1
    Serial = TRUE
    MaxDrift = 2
    MaxEdit = 1
SYMMETRY Symmetry
INVARIANTS
    EventsAgree
PROPERTIES
    FixedOnlyOnProof
    NothingLingers
    GainsAreReal
