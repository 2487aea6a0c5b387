\* One stop, one rollback, two scans and one spell on the previous release.
SPECIFICATION UpgradeSpec
CONSTANTS
    MaxCrashes = 1
    MaxFailures = 1
    MaxScans = 2
    MaxReturns = 1
    Spelled <- AnyCasing
INVARIANTS
    NothingStranded
    NamesFollow
    AgeKept
    RowsServed
    ScansReadable
