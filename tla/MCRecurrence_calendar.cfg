\* Three zones, every type of recurrence.
SPECIFICATION AskSpec
CONSTANTS
    DayHours = 4
    Zone <- AllZones
    SpringAt <- InSpring
    FallAt <- InFall
    StartAts <- SomeStarts
    Intervals = {1, 3}
    Weekdays <- SomeWeekdays
    MonthDays <- SomeMonthDays
    EndDates <- SomeEnds
    Null = Null
    Horizon = 600
INVARIANTS
    NextIsFirst
\* The hours asked about end at Horizon.
CHECK_DEADLOCK FALSE
