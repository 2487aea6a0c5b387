SPECIFICATION Spec
CONSTANTS
    Users = {ann}
    PersonalIds = {p}
    RuleIds = {shipped, custom, l1, l2}
    Existing = {shipped, custom}
    Builtin = {shipped}
    RequestIds = {r1, r2}
    Names = {owned, public, open}
    Callers = {c1, c2}
    MaxCalls = 4
    None = None
SYMMETRY Symmetry
CHECK_DEADLOCK FALSE
INVARIANTS OneOpenPerRule NothingDangles CopiedOnce
PROPERTIES NoNewDuplicate DecidedOnce
