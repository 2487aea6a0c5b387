\* Three commits, three releases, one rule.
SPECIFICATION Spec
CONSTANTS
    x = x
    y = y
    Sources <- SomeSources
    Commits = 3
    Mispaired = mispaired
    Edited = edited
    Databases = {"sqlite", "pg"}
    MaxReleases = 3
    Pseudo = pseudo
    None = None
INVARIANTS
    GoingBack
    Settles
PROPERTIES
    EnabledStands
\* An install may stay as it is.
CHECK_DEADLOCK FALSE
