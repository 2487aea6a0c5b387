------------------------------ MODULE Recurrence ------------------------------
(***************************************************************************)
(* computeNextRun (lib/db/schedules.ts): when a recurrence next occurs     *)
(* after an instant.  The function reads and builds dates in the server's  *)
(* local time, so the module models the local calendar, with a standard    *)
(* offset and daylight saving time.                                        *)
(*                                                                         *)
(* An instant is a number of hours since some UTC midnight; minutes are    *)
(* left out.  Days are numbered from a January 1st that was a Sunday, of a *)
(* year without a leap day, and a day has DayHours hours.                  *)
(***************************************************************************)
EXTENDS Integers, Sequences

CONSTANTS
    DayHours,    \* hours in a day
    Zone,        \* time zones of the server: [std : Int, dst : BOOLEAN]
    SpringAt,    \* the instant daylight saving time begins,
    FallAt,      \* and the one it ends
    StartAts,    \* startAt of the plans considered
    Intervals,   \* and their intervals,
    Weekdays,    \* daysOfWeek,
    MonthDays,   \* dayOfMonth
    EndDates,    \* and endDate, as days, or Null
    Null,        \* null
    Horizon      \* bound: the last instant considered

ASSUME DayAssumption == DayHours \in Nat \ {0, 1}
\* No time zone is a whole day away from UTC.
ASSUME ZoneAssumption ==
    \A z \in Zone : /\ z \in [std : Int, dst : BOOLEAN]
                    /\ -DayHours < z.std /\ z.std < DayHours - 1
ASSUME DstAssumption == SpringAt \in Nat /\ FallAt \in Nat /\ SpringAt < FallAt
ASSUME ShapeAssumption ==
    /\ StartAts \subseteq Nat
    /\ Intervals \subseteq Nat \ {0}
    /\ \A days \in Weekdays : days # {} /\ days \subseteq 0..6
    /\ MonthDays \subseteq 1..31
    /\ Null \notin Int /\ EndDates \subseteq Nat \cup {Null}

VARIABLES
    zone,       \* the server's time zone
    schedule,   \* the schedule's recurrence
    asOf,       \* now
    answer      \* computeNextRun(schedule, asOf)

askVars == <<zone, schedule, asOf, answer>>

---------------------------------------------------------------------------
(* Local time, as JavaScript's Date keeps it.  An hour that daylight saving *)
(* time skips is read with the offset before the change, and one it         *)
(* repeats is the first of the two.                                         *)

Dst(z, t) == z.dst /\ SpringAt <= t /\ t < FallAt
Local(z, t) == t + z.std + (IF Dst(z, t) THEN 1 ELSE 0)
Instant(z, l) ==
    LET t == l - z.std IN IF z.dst /\ SpringAt < t /\ t <= FallAt THEN t - 1 ELSE t

Day(z, t) == Local(z, t) \div DayHours
Hour(z, t) == Local(z, t) % DayHours
At(z, day, hour) == Instant(z, day * DayHours + hour)
Weekday(day) == day % 7

FirstOfMonth(m) ==
    365 * (m \div 12) + <<0, 31, 59, 90, 120, 151, 181, 212, 243, 273, 304, 334>>[(m % 12) + 1]
DaysInMonth(m) == FirstOfMonth(m + 1) - FirstOfMonth(m)
Month(day) == CHOOSE m \in (day \div 31)..(day \div 28) : FirstOfMonth(m) <= day /\ day < FirstOfMonth(m + 1)

---------------------------------------------------------------------------
(* Recurrences *)

\* What each type asks for; the rest is null.
Recurrences ==
    [type : {"once"}, interval : {1}, days : {{}}, dayOfMonth : {1}]
    \cup [type : {"hourly", "daily"}, interval : Intervals, days : {{}}, dayOfMonth : {1}]
    \cup [type : {"weekly"}, interval : Intervals, days : Weekdays, dayOfMonth : {1}]
    \cup [type : {"monthly"}, interval : Intervals, days : {{}}, dayOfMonth : MonthDays]

\* validateRecurrence: an end date must not come before the start.
Valid(p) == p.end # Null => p.end * DayHours >= p.start

Plans ==
    {p \in {[rec |-> r, start |-> s, end |-> e] :
               r \in Recurrences, s \in StartAts, e \in EndDates} : Valid(p)}

---------------------------------------------------------------------------
(* computeNextRun *)

AtLeast0(n) == IF n < 0 THEN 0 ELSE n
MinOf(s) == CHOOSE x \in s : \A y \in s : x <= y

\* stripTime(a) - stripTime(b), in whole days of DayHours hours.
DaysBetween(z, a, b) ==
    (At(z, Day(z, a), 0) - At(z, Day(z, b), 0)) \div DayHours

\* The n-th candidate, or the one after it.
OneOrNext(Candidate(_), n, now) ==
    IF Candidate(n) <= now THEN Candidate(n + 1) ELSE Candidate(n)

Once(p, now) == IF p.start > now THEN p.start ELSE Null

Hourly(p, now) ==
    LET Candidate(n) == p.start + n * p.rec.interval
    IN  OneOrNext(Candidate, AtLeast0(now - p.start) \div p.rec.interval, now)

Daily(z, p, now) ==
    LET Candidate(n) == At(z, Day(z, p.start) + n * p.rec.interval, Hour(z, p.start))
    IN  OneOrNext(Candidate, AtLeast0(DaysBetween(z, now, p.start)) \div p.rec.interval, now)

\* Windows of seven days from the start date, `interval` weeks apart; the search
\* begins a window early.
Weekly(z, p, now) ==
    LET first == Day(z, p.start)
        weeks == AtLeast0(DaysBetween(z, now, p.start)) \div 7
        k0 == AtLeast0(weeks \div p.rec.interval - 1)
        Window(k) == first + k * p.rec.interval * 7
        Ahead(k) == {t \in {At(z, Window(k) + ((d - Weekday(Window(k))) % 7), Hour(z, p.start)) :
                               d \in p.rec.days} : t > now}
        hit == CHOOSE k \in k0..(k0 + 999) : Ahead(k) # {} /\ \A i \in k0..(k - 1) : Ahead(i) = {}
    IN  MinOf(Ahead(hit))

\* Variant: the day rolls over into the month after a short one.
RolledDay(m, dayOfMonth) == FirstOfMonth(m) + dayOfMonth - 1

\* The day of a month, or the month's last.
ClampedDay(m, dayOfMonth) ==
    FirstOfMonth(m) + MinOf({dayOfMonth, DaysInMonth(m)}) - 1

Monthly(z, p, now) ==
    LET first == Month(Day(z, p.start))
        months == AtLeast0(Month(Day(z, now)) - first)
        Candidate(n) == At(z, ClampedDay(first + n * p.rec.interval, p.rec.dayOfMonth),
                              Hour(z, p.start))
    IN  OneOrNext(Candidate, months \div p.rec.interval, now)

Occurrence(z, p, now) ==
    CASE p.rec.type = "once"    -> Once(p, now)
      [] p.rec.type = "hourly"  -> Hourly(p, now)
      [] p.rec.type = "daily"   -> Daily(z, p, now)
      [] p.rec.type = "weekly"  -> Weekly(z, p, now)
      [] p.rec.type = "monthly" -> Monthly(z, p, now)

\* The end date is read as a UTC midnight, and its local day is the last.
LastDay(z, p) == Day(z, p.end * DayHours)

ComputeNextRun(z, p, now) ==
    LET t == Occurrence(z, p, now)
    IN  IF t # Null /\ p.end # Null /\ Day(z, t) > LastDay(z, p) THEN Null ELSE t

---------------------------------------------------------------------------
(* The next run of a schedule is asked for hour after hour, in a month      *)
(* before it starts and until Horizon.                                      *)

AskFirst ==
    /\ zone \in Zone
    /\ schedule \in Plans
    /\ asOf = DayHours
    /\ answer = ComputeNextRun(zone, schedule, asOf)

Ask ==
    /\ asOf < Horizon
    /\ asOf' = asOf + 1
    /\ answer' = ComputeNextRun(zone, schedule, asOf + 1)
    /\ UNCHANGED <<zone, schedule>>

AskSpec == AskFirst /\ [][Ask]_askVars

---------------------------------------------------------------------------
(* Properties *)

\* The answer is a later instant or null.
AskTypeOK ==
    /\ zone \in [std : Int, dst : BOOLEAN]
    /\ schedule \in Plans
    /\ asOf \in DayHours..Horizon
    /\ answer \in (Nat \ {0}) \cup {Null}

\* The days on which a recurrence occurs, counted from its start date.
OnDay(p, first, day) ==
    CASE p.rec.type = "daily"   -> day >= first /\ (day - first) % p.rec.interval = 0
      [] p.rec.type = "weekly"  -> /\ day >= first
                                   /\ ((day - first) \div 7) % p.rec.interval = 0
                                   /\ Weekday(day) \in p.rec.days
      [] p.rec.type = "monthly" -> /\ Month(day) >= Month(first)
                                   /\ (Month(day) - Month(first)) % p.rec.interval = 0
                                   /\ \/ day - FirstOfMonth(Month(day)) + 1 = p.rec.dayOfMonth
                                      \/ /\ day + 1 = FirstOfMonth(Month(day) + 1)
                                         /\ DaysInMonth(Month(day)) < p.rec.dayOfMonth

\* Instant t is one a recurrence falls on.
FallsOn(z, p, t) ==
    CASE p.rec.type = "once"   -> t = p.start
      [] p.rec.type = "hourly" -> t >= p.start /\ (t - p.start) % p.rec.interval = 0
      [] OTHER -> \E day \in {Day(z, t), Day(z, t) - 1} :
                     /\ OnDay(p, Day(z, p.start), day)
                     /\ t = At(z, day, Hour(z, p.start))

\* Instant t is an occurrence, no later than the last day.
Occurs(z, p, t) ==
    /\ p.end # Null => Day(z, t) <= p.end
    /\ FallsOn(z, p, t)

\* schedules.ts:146: "the next occurrence strictly after `from`".
StrictlyAfter == answer # Null => answer > asOf

\* The next run is the first occurrence after now, and null when none is left:
\* none is skipped, whatever the month's length or the change of the clock.
\* (Without an end only a one-off runs out.)  Not covered, because the code does
\* otherwise: a daily recurrence across a change of the clock, and an end date
\* west of UTC, whose last day is lost.
NextIsFirst ==
    /\ schedule.rec.type = "daily" => ~zone.dst
    /\ schedule.end # Null => zone.std >= 0
    => LET last == IF answer # Null THEN answer - 1
                   ELSE IF schedule.end = Null THEN schedule.start
                   ELSE (LastDay(zone, schedule) + 1) * DayHours
       IN  /\ answer # Null => answer > asOf /\ Occurs(zone, schedule, answer)
           /\ \A t \in (asOf + 1)..last : ~Occurs(zone, schedule, t)
=============================================================================
