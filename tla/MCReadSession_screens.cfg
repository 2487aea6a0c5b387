SPECIFICATION ScreenFairSpec
CONSTANTS
    Feeds = {"explorer", "snapshot", "compare"}
    Filters = {severity}
    Texts = {nothing, vm}
    MaxEvents = 3
    None = None
CHECK_DEADLOCK FALSE
INVARIANTS ShowsTheNewest
PROPERTIES SettlesOnWanted KeepsAnswer
