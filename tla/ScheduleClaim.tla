---------------------------- MODULE ScheduleClaim ----------------------------
(***************************************************************************)
(* The life of one schedule (lib/db/schedules.ts) under the ticks and the  *)
(* "Run now" requests of the containers that share it (lib/scheduler.ts),  *)
(* while an operator edits it.                                             *)
(*                                                                         *)
(* A tick lists the schedules that are due; each is claimed, run and moved *)
(* on.  The claim and the move are single UPDATEs, conditional on          *)
(* next_run_at alone; what they write is computed earlier, from the        *)
(* schedule as it was read.  A tick that lists several schedules runs them *)
(* one after the other, and a request waits for the container's running    *)
(* scan, so a read may be old when it is used.  An edit reads the row,     *)
(* computes, and writes it unconditionally.                                *)
(*                                                                         *)
(* A plan is the set of its occurrences: module Recurrence shows what      *)
(* computeNextRun makes of the real recurrences.                           *)
(***************************************************************************)
EXTENDS Integers, FiniteSets

CONSTANTS
    Proc,       \* containers sharing the database
    Plan,       \* recurrences an operator may choose: sets of instants
    Never,      \* null: no next run
    MaxTime,    \* bound: the last instant considered
    MaxEdit,    \* bound: how many edits are considered
    MaxManual,  \* bound: how many "Run now" requests are considered
    MaxFault    \* bound: how many crashes and failed runs are considered

ASSUME PlanAssumption == \A plan \in Plan : plan \subseteq Nat
ASSUME NeverAssumption == Never \notin Int
ASSUME LimitAssumption == {MaxTime, MaxEdit, MaxManual, MaxFault} \subseteq Nat

VARIABLES
    clock,
    row,        \* the schedule's row
    job,        \* per container: its tick, and a "Run now" request
    edit,       \* an updateSchedule call under way
    served,     \* history, since the last edit: occurrences a tick has claimed
    ranUpTo,    \* history, since the last edit: when the last run that kept its
                \* claim to the end finished
    spent       \* edits, requests and faults so far

vars == <<clock, row, job, edit, served, ranUpTo, spent>>

---------------------------------------------------------------------------
(* Values *)

Time == Nat
Next_run_at == Time \cup {Never}

Row == [is      : {"absent", "there", "deleted"},
        enabled : BOOLEAN,
        plan    : Plan,
        next    : Next_run_at]

Job == Proc \X {"tick", "manual"}
JobState == [pc    : {"none", "wait", "due", "claim", "run", "advance"},
             plan  : Plan \cup {{}},     \* the schedule as it was read
             saw   : Next_run_at,
             claim : Next_run_at,        \* claimedNextRunAt
             end   : Time,            \* finishedAt
             after : Next_run_at]        \* afterRun
NoJob == [pc |-> "none", plan |-> {}, saw |-> Never, claim |-> Never,
          end |-> 0, after |-> Never]

EditState == [pc      : {"none", "read", "write"},
              enabled : BOOLEAN,
              plan    : Plan \cup {{}},
              next    : Next_run_at]
NoEdit == [pc |-> "none", enabled |-> FALSE, plan |-> {}, next |-> Never]

There == row.is = "there"
IsDue(next) == next # Never /\ next <= clock

\* scanLock: a container runs one thing at a time.
Busy(p) == \E j \in Job : j[1] = p /\ job[j].pc \notin {"none", "wait"}

Later(plan, from) == {t \in plan : t > from}
Earliest(s) == CHOOSE t \in s : \A u \in s : t <= u

\* Variants: an occurrence that is now counts as next; null becomes a past instant.
NextOrNow(plan, from) ==
    LET s == {t \in plan : t >= from} IN IF s = {} THEN Never ELSE Earliest(s)
NextOrEpoch(plan, from) ==
    LET s == Later(plan, from) IN IF s = {} THEN -1 ELSE Earliest(s)

\* computeNextRun: the first occurrence strictly after `from`.
NextOccurrence(plan, from) ==
    LET s == Later(plan, from) IN IF s = {} THEN Never ELSE Earliest(s)

---------------------------------------------------------------------------
(* The operator *)

CreateSchedule(plan, enabled) ==
    /\ row.is = "absent"
    /\ row' = [is |-> "there", enabled |-> enabled, plan |-> plan,
               next |-> IF enabled THEN NextOccurrence(plan, clock) ELSE Never]
    /\ UNCHANGED <<clock, job, edit, served, ranUpTo, spent>>

\* updateSchedule reads the row; an unknown one is answered null.
ReadForEdit ==
    /\ edit.pc = "none"
    /\ There
    /\ spent.edit < MaxEdit
    /\ spent' = [spent EXCEPT !.edit = @ + 1]
    /\ edit' = [NoEdit EXCEPT !.pc = "read"]
    /\ UNCHANGED <<clock, row, job, served, ranUpTo>>

\* The request's fields are merged over what was read, validated, and the next
\* run is computed; a request that does not validate ends here.  Which fields
\* are the request's and which the row's is left open.
MergeEdit ==
    /\ edit.pc = "read"
    /\ \/ \E plan \in Plan, enabled \in BOOLEAN :
             edit' = [pc |-> "write", enabled |-> enabled, plan |-> plan,
                      next |-> IF enabled THEN NextOccurrence(plan, clock) ELSE Never]
       \/ edit' = NoEdit
    /\ UNCHANGED <<clock, row, job, served, ranUpTo, spent>>

\* One UPDATE by id; nothing if the row is gone.
WriteEdit ==
    /\ edit.pc = "write"
    /\ IF There
       THEN /\ row' = [is |-> "there", enabled |-> edit.enabled, plan |-> edit.plan,
                       next |-> edit.next]
            /\ served' = {}
            /\ ranUpTo' = 0
       ELSE UNCHANGED <<row, served, ranUpTo>>
    /\ edit' = NoEdit
    /\ UNCHANGED <<clock, job, spent>>

DeleteSchedule ==
    /\ There
    /\ row' = [row EXCEPT !.is = "deleted"]
    /\ UNCHANGED <<clock, job, edit, served, ranUpTo, spent>>

\* POST .../run reads the schedule and leaves executeSchedule waiting.
RunNow(p) ==
    LET j == <<p, "manual">> IN
    /\ There
    /\ job[j].pc = "none"
    /\ spent.manual < MaxManual
    /\ spent' = [spent EXCEPT !.manual = @ + 1]
    /\ job' = [job EXCEPT ![j] = [NoJob EXCEPT !.pc = "wait", !.plan = row.plan, !.saw = row.next]]
    /\ UNCHANGED <<clock, row, edit, served, ranUpTo>>

---------------------------------------------------------------------------
(* The scheduler *)

\* tickOnce takes the lock and listDueSchedules finds the schedule due.
ListDueSchedules(p) ==
    LET j == <<p, "tick">> IN
    /\ ~Busy(p)
    /\ There /\ row.enabled /\ IsDue(row.next)
    /\ job' = [job EXCEPT ![j] = [NoJob EXCEPT !.pc = "due", !.plan = row.plan, !.saw = row.next]]
    /\ UNCHANGED <<clock, row, edit, served, ranUpTo, spent>>

\* executeSchedule finds the lock free.
ExecuteSchedule(p) ==
    /\ job[<<p, "manual">>].pc = "wait"
    /\ ~Busy(p)
    /\ job' = [job EXCEPT ![<<p, "manual">>].pc = "due"]
    /\ UNCHANGED <<clock, row, edit, served, ranUpTo, spent>>

\* runOnce: startedAt is now, and the next occurrence after it is computed.
RunOnce(j) ==
    /\ job[j].pc = "due"
    /\ job' = [job EXCEPT ![j].pc = "claim", ![j].claim = NextOccurrence(job[j].plan, clock)]
    /\ UNCHANGED <<clock, row, edit, served, ranUpTo, spent>>

\* Variant: the claim is by id alone.
ClaimMatchesAny(next) == There

\* The WHERE of both UPDATEs: the row still holds this next_run_at.
NextRunIs(next) == There /\ row.next = next

\* The SET of both; a null next run also disables the schedule.
MovedTo(next) == [row EXCEPT !.next = next, !.enabled = @ /\ next # Never]

\* claimDueSchedule
ClaimWon(j) ==
    /\ job[j].pc = "claim"
    /\ NextRunIs(job[j].saw)
    /\ row' = MovedTo(job[j].claim)
    /\ job' = [job EXCEPT ![j].pc = "run", ![j].saw = Never]
    /\ served' = IF j[2] = "tick" THEN served \cup {job[j].saw} ELSE served
    /\ UNCHANGED <<clock, edit, ranUpTo, spent>>

ClaimLost(j) ==
    /\ job[j].pc = "claim"
    /\ ~NextRunIs(job[j].saw)
    /\ job' = [job EXCEPT ![j] = NoJob]
    /\ UNCHANGED <<clock, row, edit, served, ranUpTo, spent>>

\* Variant: the run is moved on from when it started.
FinishFromStart(j) ==
    /\ job[j].pc = "run"
    /\ job' = [job EXCEPT ![j].pc = "advance", ![j].end = clock, ![j].after = job[j].claim]
    /\ UNCHANGED <<clock, row, edit, served, ranUpTo, spent>>

\* executeTarget is over; finishedAt is now.
Finish(j) ==
    /\ job[j].pc = "run"
    /\ job' = [job EXCEPT ![j].pc = "advance", ![j].plan = {}, ![j].end = clock,
                          ![j].after = NextOccurrence(job[j].plan, clock)]
    /\ UNCHANGED <<clock, row, edit, served, ranUpTo, spent>>

\* advanceScheduleAfterRun, and the lock is released.
AdvanceScheduleAfterRun(j) ==
    /\ job[j].pc = "advance"
    /\ row' = IF job[j].after # job[j].claim /\ NextRunIs(job[j].claim)
              THEN MovedTo(job[j].after) ELSE row
    /\ ranUpTo' = IF NextRunIs(job[j].claim) /\ job[j].claim # Never
                  THEN job[j].end ELSE ranUpTo
    /\ job' = [job EXCEPT ![j] = NoJob]
    /\ UNCHANGED <<clock, edit, served, spent>>

---------------------------------------------------------------------------
(* Failures and time *)

Fails ==
    /\ spent.fault < MaxFault
    /\ spent' = [spent EXCEPT !.fault = @ + 1]

\* The claim, the run or the move throws: the lock is released.
RunThrows(j) ==
    /\ Fails
    /\ job[j].pc \in {"claim", "run", "advance"}
    /\ job' = [job EXCEPT ![j] = NoJob]
    /\ UNCHANGED <<clock, row, edit, served, ranUpTo>>

\* The container stops, and starts again with nothing under way.
Crash(p) ==
    /\ Fails
    /\ job' = [j \in Job |-> IF j[1] = p THEN NoJob ELSE job[j]]
    /\ UNCHANGED <<clock, row, edit, served, ranUpTo>>

Tick ==
    /\ clock < MaxTime
    /\ clock' = clock + 1
    /\ UNCHANGED <<row, job, edit, served, ranUpTo, spent>>

---------------------------------------------------------------------------

Init ==
    /\ clock = 0
    /\ row \in [is : {"absent"}, enabled : {FALSE}, plan : Plan, next : {Never}]
    /\ job = [j \in Job |-> NoJob]
    /\ edit = NoEdit
    /\ served = {}
    /\ ranUpTo = 0
    /\ spent = [edit |-> 0, manual |-> 0, fault |-> 0]

Operate ==
    \/ \E plan \in Plan, enabled \in BOOLEAN : CreateSchedule(plan, enabled)
    \/ ReadForEdit
    \/ DeleteSchedule
    \/ \E p \in Proc : RunNow(p)

EditStep == MergeEdit \/ WriteEdit
JobStep(j) == RunOnce(j) \/ ClaimWon(j) \/ ClaimLost(j) \/ Finish(j) \/ AdvanceScheduleAfterRun(j)

Next ==
    \/ Operate
    \/ EditStep
    \/ \E p \in Proc : ListDueSchedules(p) \/ ExecuteSchedule(p) \/ Crash(p)
    \/ \E j \in Job : JobStep(j) \/ RunThrows(j)
    \/ Tick

Spec == Init /\ [][Next]_vars

---------------------------------------------------------------------------
(* Properties *)

\* The row, jobs and the edit hold values the code can write.
TypeOK ==
    /\ clock \in 0..MaxTime
    /\ row \in Row
    /\ job \in [Job -> JobState]
    /\ edit \in EditState
    /\ served \subseteq Time
    /\ ranUpTo \in Time
    /\ spent \in [edit : 0..MaxEdit, manual : 0..MaxManual, fault : 0..MaxFault]

\* A tick wins the claim and starts the run.
Starts(j) == j[2] = "tick" /\ job[j].pc = "claim" /\ job'[j].pc = "run"

\* faq.md:88: "a due schedule runs once, in whichever container claims it
\* first", and one whose container died is not run again for the same
\* occurrence; only an edit can bring an occurrence back.
RunsOnce == [][\A j \in Job : Starts(j) => job[j].saw \notin served]_vars

\* A tick never starts a schedule that was disabled or deleted after it read
\* the row, although its claim compares next_run_at only.  (A "Run now" of the
\* disabled schedule may put the same next_run_at back: not excluded.)
StartsEnabled == [][\A j \in Job : Starts(j) /\ spent.manual = 0 => There /\ row.enabled]_vars

\* A run longer than its interval skips the occurrences it overran: no tick
\* starts one that came before the end of a run whose claim stood.
SkipsOverrun == [][\A j \in Job : Starts(j) => job[j].saw > ranUpTo]_vars

\* schedules.ts:371-372: "an operator who edited the schedule while it ran
\* chose a new time on purpose, and that edit wins": if an edit was written
\* since a tick's claim, what the run does at its end never disables a schedule
\* that, as edited, has occurrences to come.  The code breaks it.
EditWins ==
    [][\A j \in Job :
          /\ j[2] = "tick" /\ job[j].pc = "advance" /\ job'[j].pc = "none"
          /\ served = {}
          /\ row.enabled /\ ~row'.enabled
          => Later(row.plan, clock) = {}]_vars
=============================================================================
