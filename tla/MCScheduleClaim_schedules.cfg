\* Two containers, two edits, a "Run now" and a fault.
SPECIFICATION Spec
CONSTANTS
    Proc = {p1, p2}
    Plan <- Plans
    Never = Never
    MaxTime = 3
    MaxEdit = 2
    MaxManual = 1
    MaxFault = 1
SYMMETRY Symmetry
PROPERTIES
    RunsOnce
    StartsEnabled
    SkipsOverrun
\* Nothing is left to do once the schedule is deleted, or the clock has stopped.
CHECK_DEADLOCK FALSE
