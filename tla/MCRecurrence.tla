---------------------------- MODULE MCRecurrence ----------------------------
(* Recurrence over the first half of a year, in days of four hours. *)
EXTENDS Recurrence

UTC == [std |-> 0, dst |-> FALSE]
Summer == [std |-> 0, dst |-> TRUE]
West == [std |-> -1, dst |-> FALSE]
AllZones == {UTC, Summer, West}
OnlySummer == {Summer}

InSpring == 87 * 4 + 1    \* March 29th
InFall == 140 * 4 + 1     \* May 21st, to keep the horizon short

EarlyOn == 29 * 4 + 1     \* January 30th
InMarch == 59 * 4 + 2     \* March 1st
SomeStarts == {EarlyOn, InMarch}

SomeWeekdays == {{0}, {1, 4}, {3, 5, 6}}
SomeMonthDays == {1, 15, 31}
InApril == 90             \* April 1st
SomeEnds == {Null, InApril}
=============================================================================
