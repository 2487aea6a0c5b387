--------------------------- MODULE ScheduleProofs ---------------------------
(* Proofs about ScheduleClaim, for any containers, plans and bounds, and about  *)
(* Recurrence, for any zone, recurrence and length of day; and what joins them: *)
(* the plan of the one is the set of the other's occurrences.                   *)
EXTENDS ScheduleClaim, Recurrence, FiniteSetTheorems, WellFoundedInduction, TLAPS

(* Proofs about ScheduleClaim, for any containers, plans and bounds. *)

---------------------------------------------------------------------------
(* What computeNextRun promises *)

\* Next is null or an occurrence after `from`, and none comes before it.
IsNext(next, plan, from) ==
    /\ next \in Next_run_at
    /\ next # Never => next \in plan /\ from < next
    /\ \A t \in plan : from < t => next # Never /\ next <= t

LEMMA NextRunIsNext ==
  ASSUME NEW plan \in SUBSET Nat, NEW from \in Nat
  PROVE  IsNext(NextOccurrence(plan, from), plan, from)
<1>1. CASE Later(plan, from) = {}
  BY <1>1 DEF NextOccurrence, Later, IsNext, Next_run_at
<1>2. CASE Later(plan, from) # {}
  <2> DEFINE less == OpToRel(<, Nat)
  <2>1. Later(plan, from) \subseteq Nat
    BY DEF Later
  <2>2. IsWellFoundedOn(less, Nat)
    BY NatLessThanWellFounded
  <2>3. \A u, v \in Nat : u < v => <<u, v>> \in less
    BY DEF OpToRel
  <2> HIDE DEF less
  <2>4. PICK t \in Later(plan, from) : \A u \in Later(plan, from) : t <= u
    <3>1. PICK t \in Later(plan, from) : \A u \in Later(plan, from) : ~ (<<u, t>> \in less)
      BY <1>2, <2>1, <2>2, WFMin
    <3>2. ASSUME NEW u \in Later(plan, from) PROVE t <= u
      <4>1. t \in Nat /\ u \in Nat
        BY <2>1
      <4>2. ~ (u < t)
        BY <2>3, <3>1, <4>1
      <4> QED BY <4>1, <4>2
    <3> QED BY <3>2
  <2>5. /\ Earliest(Later(plan, from)) \in Later(plan, from)
        /\ \A u \in Later(plan, from) : Earliest(Later(plan, from)) <= u
    BY <2>4 DEF Earliest
  <2>6. NextOccurrence(plan, from) = Earliest(Later(plan, from))
    BY <1>2 DEF NextOccurrence
  <2> QED
    BY <2>1, <2>5, <2>6, NeverAssumption DEF Later, IsNext, Next_run_at, Time
<1> QED BY <1>1, <1>2

LEMMA PlanType == \A plan \in Plan \cup {{}} : plan \in SUBSET Nat
  BY PlanAssumption

---------------------------------------------------------------------------
(* Type correctness.  TypeOK alone is not inductive: an edit about to be     *)
(* written puts its plan in the row, and a tick that wins its claim has      *)
(* served the occurrence it read.                                            *)

EditHasPlan == edit.pc = "write" => edit.plan \in Plan

HasDue(j, s) == j[2] = "tick" /\ s.pc \in {"due", "claim"} => s.saw # Never
TickHasDue == \A j \in Job : HasDue(j, job[j])

TInv == TypeOK /\ EditHasPlan /\ TickHasDue

LEMMA NoJobType == NoJob \in JobState
  BY DEF NoJob, JobState, Next_run_at, Time

LEMMA NoEditType == NoEdit \in EditState
  BY DEF NoEdit, EditState, Next_run_at

LEMMA JobType ==
  ASSUME TypeOK, NEW j \in Job
  PROVE  job[j] \in JobState /\ job[j].plan \in SUBSET Nat
  BY PlanType DEF TypeOK, JobState

\* A step that moves one job keeps the jobs typed.
LEMMA MoveType ==
  ASSUME TInv, NEW j \in Job, NEW s \in JobState, HasDue(j, s), job' = [job EXCEPT ![j] = s]
  PROVE  job' \in [Job -> JobState] /\ TickHasDue'
  BY DEF TInv, TypeOK, TickHasDue, HasDue

LEMMA StayType ==
  ASSUME TInv, job' = job
  PROVE  job' \in [Job -> JobState] /\ TickHasDue'
  BY DEF TInv, TypeOK, TickHasDue, HasDue

LEMMA NextType ==
  ASSUME NEW plan \in Plan \cup {{}}, NEW from \in Nat
  PROVE  NextOccurrence(plan, from) \in Next_run_at
  BY PlanType, NextRunIsNext DEF IsNext

LEMMA TypeInit == Init => TInv
<1> SUFFICES ASSUME Init PROVE TInv
  OBVIOUS
<1>1. clock \in 0..MaxTime /\ served \subseteq Time /\ ranUpTo \in Time
  BY LimitAssumption DEF Init, Time
<1>2. row \in Row
  BY DEF Init, Row, Next_run_at
<1>3. job \in [Job -> JobState] /\ TickHasDue
  BY NoJobType DEF Init, TickHasDue, HasDue, NoJob
<1>4. edit \in EditState /\ EditHasPlan
  BY NoEditType DEF Init, EditHasPlan, NoEdit
<1>5. spent \in [edit : 0..MaxEdit, manual : 0..MaxManual, fault : 0..MaxFault]
  BY LimitAssumption DEF Init
<1> QED BY <1>1, <1>2, <1>3, <1>4, <1>5 DEF TInv, TypeOK

LEMMA MovedToType ==
  ASSUME TypeOK, NEW next \in Next_run_at
  PROVE  MovedTo(next) \in Row
<1>1. \A r \in Row : [r EXCEPT !.next = next, !.enabled = @ /\ next # Never] \in Row
  BY DEF Row
<1> QED BY <1>1 DEF TypeOK, MovedTo

LEMMA OperateType ==
  ASSUME TInv, Operate
  PROVE  TInv'
<1>1. CASE \E plan \in Plan, enabled \in BOOLEAN : CreateSchedule(plan, enabled)
  <2>1. PICK plan \in Plan, enabled \in BOOLEAN : CreateSchedule(plan, enabled)
    BY <1>1
  <2>2. NextOccurrence(plan, clock) \in Next_run_at
    BY NextType, LimitAssumption DEF TInv, TypeOK, EditHasPlan
  <2>3. row' \in Row
    BY <2>1, <2>2 DEF CreateSchedule, Row, Next_run_at
  <2> QED BY <2>1, <2>3, StayType DEF CreateSchedule, TInv, TypeOK, EditHasPlan
<1>2. CASE ReadForEdit
  <2>1. edit' \in EditState
    BY <1>2, NoEditType DEF ReadForEdit, EditState
  <2>2. spent' \in [edit : 0..MaxEdit, manual : 0..MaxManual, fault : 0..MaxFault]
    BY <1>2, LimitAssumption DEF ReadForEdit, TInv, TypeOK, EditHasPlan
  <2> QED BY <1>2, <2>1, <2>2, StayType DEF ReadForEdit, TInv, TypeOK, EditHasPlan, NoEdit
<1>3. CASE DeleteSchedule
  <2>1. row' \in Row
    BY <1>3 DEF DeleteSchedule, TInv, TypeOK, Row
  <2> QED BY <1>3, <2>1, StayType DEF DeleteSchedule, TInv, TypeOK, EditHasPlan
<1>4. CASE \E p \in Proc : RunNow(p)
  <2>1. PICK p \in Proc : RunNow(p)
    BY <1>4
  <2> DEFINE s == [NoJob EXCEPT !.pc = "wait", !.plan = row.plan, !.saw = row.next]
  <2>2. s \in JobState /\ HasDue(<<p, "manual">>, s)
    BY NoJobType DEF TInv, TypeOK, Row, JobState, HasDue
  <2>3. <<p, "manual">> \in Job
    BY DEF Job
  <2>4. job' = [job EXCEPT ![<<p, "manual">>] = s]
    BY <2>1 DEF RunNow
  <2> HIDE DEF s
  <2>5. job' \in [Job -> JobState] /\ TickHasDue'
    BY <2>2, <2>3, <2>4, MoveType
  <2>6. spent' \in [edit : 0..MaxEdit, manual : 0..MaxManual, fault : 0..MaxFault]
    BY <2>1, LimitAssumption DEF RunNow, TInv, TypeOK, EditHasPlan
  <2> QED BY <2>1, <2>5, <2>6 DEF RunNow, TInv, TypeOK, EditHasPlan
<1> QED BY <1>1, <1>2, <1>3, <1>4 DEF Operate

LEMMA EditType ==
  ASSUME TInv, EditStep
  PROVE  TInv'
<1>1. CASE MergeEdit
  <2>1. edit' \in EditState
    <3>1. CASE edit' = NoEdit
      BY <3>1, NoEditType
    <3>2. ASSUME NEW plan \in Plan, NEW enabled \in BOOLEAN,
                 edit' = [pc |-> "write", enabled |-> enabled, plan |-> plan,
                          next |-> IF enabled THEN NextOccurrence(plan, clock) ELSE Never]
          PROVE  edit' \in EditState
      <4>1. NextOccurrence(plan, clock) \in Next_run_at
        BY NextType, LimitAssumption DEF TInv, TypeOK, EditHasPlan
      <4> QED BY <3>2, <4>1 DEF EditState, Next_run_at
    <3> QED BY <1>1, <3>1, <3>2 DEF MergeEdit
  <2>2. EditHasPlan'
    BY <1>1 DEF MergeEdit, EditHasPlan, NoEdit
  <2> QED BY <1>1, <2>1, <2>2, StayType DEF MergeEdit, TInv, TypeOK
<1>2. CASE WriteEdit
  <2>1. row' \in Row
    BY <1>2 DEF WriteEdit, TInv, EditHasPlan, TypeOK, EditState, Row
  <2>2. edit' \in EditState /\ EditHasPlan'
    BY <1>2, NoEditType DEF WriteEdit, EditHasPlan, NoEdit
  <2>3. served' \subseteq Time /\ ranUpTo' \in Time
    <3>1. CASE There
      BY <1>2, <3>1 DEF WriteEdit, Time
    <3>2. CASE ~There
      BY <1>2, <3>2 DEF WriteEdit, TInv, TypeOK
    <3> QED BY <3>1, <3>2
  <2> QED BY <1>2, <2>1, <2>2, <2>3, StayType DEF WriteEdit, TInv, TypeOK
<1> QED BY <1>1, <1>2 DEF EditStep

\* What the scheduler's steps leave alone.
LEMMA JobsOnlyType ==
  ASSUME TInv, job' \in [Job -> JobState], TickHasDue', row' \in Row,
         served' \subseteq Time, ranUpTo' \in Time, spent' = spent,
         UNCHANGED <<clock, edit>>
  PROVE  TInv'
  BY DEF TInv, TypeOK, EditHasPlan

LEMMA UpdateType ==
  ASSUME NEW s \in JobState, NEW pc \in {"none", "wait", "due", "claim", "run", "advance"},
         NEW next \in Next_run_at, NEW at \in Time
  PROVE  /\ [s EXCEPT !.pc = pc] \in JobState
         /\ [s EXCEPT !.pc = pc, !.claim = next] \in JobState
         /\ [s EXCEPT !.pc = pc, !.saw = next] \in JobState
         /\ [s EXCEPT !.pc = pc, !.plan = {}, !.end = at, !.after = next] \in JobState
  BY DEF JobState

LEMMA StartType ==
  ASSUME TInv, NEW p \in Proc, ListDueSchedules(p) \/ ExecuteSchedule(p)
  PROVE  TInv'
<1>0. /\ <<p, "tick">> \in Job
      /\ <<p, "manual">> \in Job
  BY DEF Job
<1>1. CASE ListDueSchedules(p)
  <2> DEFINE s == [NoJob EXCEPT !.pc = "due", !.plan = row.plan, !.saw = row.next]
  <2>1. s \in JobState
    BY NoJobType DEF TInv, TypeOK, Row, JobState
  <2>2. job' = [job EXCEPT ![<<p, "tick">>] = s]
    BY <1>1 DEF ListDueSchedules
  <2>3. HasDue(<<p, "tick">>, s)
    BY <1>1 DEF ListDueSchedules, IsDue, HasDue, NoJob
  <2> HIDE DEF s
  <2>4. job' \in [Job -> JobState] /\ TickHasDue'
    BY <1>0, <2>1, <2>2, <2>3, MoveType
  <2> QED BY <1>1, <2>4, JobsOnlyType DEF ListDueSchedules, TInv, TypeOK
<1>2. CASE ExecuteSchedule(p)
  <2> DEFINE s == [job[<<p, "manual">>] EXCEPT !.pc = "due"]
  <2>1. s \in JobState
    BY <1>0, JobType, UpdateType DEF TInv, Time, Next_run_at
  <2>2. job' = [job EXCEPT ![<<p, "manual">>] = s]
    BY <1>2 DEF ExecuteSchedule
  <2>3. HasDue(<<p, "manual">>, s)
    BY DEF HasDue
  <2> HIDE DEF s
  <2>4. job' \in [Job -> JobState] /\ TickHasDue'
    BY <1>0, <2>1, <2>2, <2>3, MoveType
  <2> QED BY <1>2, <2>4, JobsOnlyType DEF ExecuteSchedule, TInv, TypeOK
<1> QED BY <1>1, <1>2

\* What a job carries, and what it computes from it.
LEMMA CarriedType ==
  ASSUME TInv, NEW j \in Job
  PROVE  /\ job[j] \in JobState
         /\ job[j].plan \in SUBSET Nat
         /\ job[j].saw \in Next_run_at /\ job[j].claim \in Next_run_at
         /\ job[j].after \in Next_run_at /\ job[j].end \in Time
         /\ clock \in Nat /\ 0 \in Time /\ Never \in Next_run_at
         /\ NextOccurrence(job[j].plan, clock) \in Next_run_at
<1>1. job[j] \in JobState /\ job[j].plan \in SUBSET Nat
  BY JobType DEF TInv
<1>2. job[j].plan \in Plan \cup {{}} /\ clock \in Nat
  BY <1>1, LimitAssumption DEF TInv, TypeOK, JobState
<1>3. NextOccurrence(job[j].plan, clock) \in Next_run_at
  BY <1>2, NextType
<1> QED BY <1>1, <1>2, <1>3 DEF JobState, Next_run_at, Time

LEMMA JobStepType ==
  ASSUME TInv, NEW j \in Job, JobStep(j)
  PROVE  TInv'
<1>0. HasDue(j, job[j])
  BY DEF TInv, TickHasDue
<1>c. /\ job[j] \in JobState /\ clock \in Time /\ Never \in Next_run_at
      /\ NextOccurrence(job[j].plan, clock) \in Next_run_at
  BY CarriedType DEF Time
<1>1. CASE RunOnce(j)
  <2> DEFINE s == [job[j] EXCEPT !.pc = "claim", !.claim = NextOccurrence(job[j].plan, clock)]
  <2>1. s \in JobState /\ HasDue(j, s)
    <3>1. s \in JobState
      BY <1>c, UpdateType
    <3>2. job[j].pc = "due" /\ s.saw = job[j].saw
      BY <1>1, <1>c DEF RunOnce, JobState
    <3> QED BY <1>0, <3>1, <3>2 DEF HasDue
  <2>2. job' = [job EXCEPT ![j] = s]
    BY <1>1 DEF RunOnce
  <2> HIDE DEF s
  <2>3. job' \in [Job -> JobState] /\ TickHasDue'
    BY <2>1, <2>2, MoveType
  <2> QED BY <1>1, <2>3, JobsOnlyType DEF RunOnce, TInv, TypeOK
<1>2. CASE ClaimWon(j)
  <2> DEFINE s == [job[j] EXCEPT !.pc = "run", !.saw = Never]
  <2>1. s \in JobState /\ HasDue(j, s)
    <3>1. s \in JobState
      BY <1>c, UpdateType
    <3>2. s.pc = "run"
      BY <1>c DEF JobState
    <3> QED BY <3>1, <3>2 DEF HasDue
  <2>2. job' = [job EXCEPT ![j] = s]
    BY <1>2 DEF ClaimWon
  <2> HIDE DEF s
  <2>3. job' \in [Job -> JobState] /\ TickHasDue'
    BY <2>1, <2>2, MoveType
  <2>4. row' \in Row
    BY <1>2, CarriedType, MovedToType DEF ClaimWon, TInv
  <2>5. served' \subseteq Time
    <3>1. j[2] = "tick" => job[j].saw \in Time
      BY <1>0, <1>2, CarriedType DEF ClaimWon, HasDue, Next_run_at
    <3> QED BY <1>2, <3>1 DEF ClaimWon, TInv, TypeOK
  <2> QED BY <1>2, <2>3, <2>4, <2>5, JobsOnlyType DEF ClaimWon, TInv, TypeOK
<1>3. CASE ClaimLost(j)
  <2>1. job' \in [Job -> JobState] /\ TickHasDue'
    BY <1>3, NoJobType, MoveType DEF ClaimLost, HasDue, NoJob
  <2> QED BY <1>3, <2>1, JobsOnlyType DEF ClaimLost, TInv, TypeOK
<1>4. CASE Finish(j)
  <2> DEFINE s == [job[j] EXCEPT !.pc = "advance", !.plan = {}, !.end = clock,
                                !.after = NextOccurrence(job[j].plan, clock)]
  <2>1. s \in JobState /\ HasDue(j, s)
    <3>1. s \in JobState
      BY <1>c, UpdateType
    <3>2. s.pc = "advance"
      BY <1>c DEF JobState
    <3> QED BY <3>1, <3>2 DEF HasDue
  <2>2. job' = [job EXCEPT ![j] = s]
    BY <1>4 DEF Finish
  <2> HIDE DEF s
  <2>3. job' \in [Job -> JobState] /\ TickHasDue'
    BY <2>1, <2>2, MoveType
  <2> QED BY <1>4, <2>3, JobsOnlyType DEF Finish, TInv, TypeOK
<1>5. CASE AdvanceScheduleAfterRun(j)
  <2>1. job' \in [Job -> JobState] /\ TickHasDue'
    BY <1>5, NoJobType, MoveType DEF AdvanceScheduleAfterRun, HasDue, NoJob
  <2>2. row' \in Row
    BY <1>5, CarriedType, MovedToType DEF AdvanceScheduleAfterRun, TInv, TypeOK
  <2>3. ranUpTo' \in Time
    BY <1>5, CarriedType DEF AdvanceScheduleAfterRun, TInv, TypeOK
  <2> QED BY <1>5, <2>1, <2>2, <2>3, JobsOnlyType DEF AdvanceScheduleAfterRun, TInv, TypeOK
<1> QED BY <1>1, <1>2, <1>3, <1>4, <1>5 DEF JobStep

LEMMA FaultType ==
  ASSUME TInv, Fails, row' = row, served' = served, ranUpTo' = ranUpTo, UNCHANGED <<clock, edit>>,
         job' \in [Job -> JobState], TickHasDue'
  PROVE  TInv'
<1>1. spent' \in [edit : 0..MaxEdit, manual : 0..MaxManual, fault : 0..MaxFault]
  BY LimitAssumption DEF Fails, TInv, TypeOK
<1> QED BY <1>1 DEF TInv, TypeOK, EditHasPlan

LEMMA RunThrowsType ==
  ASSUME TInv, NEW j \in Job, RunThrows(j)
  PROVE  TInv'
<1>1. job' \in [Job -> JobState] /\ TickHasDue'
  BY NoJobType, MoveType DEF RunThrows, HasDue, NoJob
<1> QED BY <1>1, FaultType DEF RunThrows

LEMMA CrashType ==
  ASSUME TInv, NEW p \in Proc, Crash(p)
  PROVE  TInv'
<1>1. job' \in [Job -> JobState]
  BY NoJobType DEF Crash, TInv, TypeOK
<1>2. TickHasDue'
  BY DEF Crash, TInv, TickHasDue, HasDue, NoJob
<1> QED BY <1>1, <1>2, FaultType DEF Crash

LEMMA TickType ==
  ASSUME TInv, Tick
  PROVE  TInv'
<1>1. clock' \in 0..MaxTime
  BY LimitAssumption DEF Tick, TInv, TypeOK
<1> QED BY <1>1, StayType DEF Tick, TInv, TypeOK, EditHasPlan

LEMMA StutterType ==
  ASSUME TInv, UNCHANGED vars
  PROVE  TInv'
  BY DEF vars, TInv, TypeOK, EditHasPlan, TickHasDue, HasDue

LEMMA TypeStep == TInv /\ [Next]_vars => TInv'
<1> SUFFICES ASSUME TInv, [Next]_vars PROVE TInv'
  OBVIOUS
<1>1. CASE Operate
  BY <1>1, OperateType
<1>2. CASE EditStep
  BY <1>2, EditType
<1>3. ASSUME NEW p \in Proc, ListDueSchedules(p) \/ ExecuteSchedule(p) \/ Crash(p)
      PROVE  TInv'
  BY <1>3, StartType, CrashType
<1>4. ASSUME NEW j \in Job, JobStep(j) \/ RunThrows(j)
      PROVE  TInv'
  BY <1>4, JobStepType, RunThrowsType
<1>5. CASE Tick
  BY <1>5, TickType
<1>6. CASE UNCHANGED vars
  BY <1>6, StutterType
<1> QED BY <1>1, <1>2, <1>3, <1>4, <1>5, <1>6 DEF Next

\* The row, the jobs and the edit hold values the code can write.
THEOREM TypeCorrect == Spec => []TypeOK
<1>1. TInv => TypeOK
  BY DEF TInv
<1> QED BY <1>1, TypeInit, TypeStep, PTL DEF Spec

---------------------------------------------------------------------------
(* What keeps a tick from starting an occurrence twice, a disabled schedule, *)
(* or an occurrence its last run overran.  "Run now" is left out: it claims  *)
(* a schedule whatever its next_run_at, null included, so that a null seen   *)
(* twice may hide an edit.                                                   *)

\* next_run_at lies after everything that was claimed or overran.
RowAhead ==
    row.next # Never => ranUpTo < row.next /\ \A t \in served : t < row.next

\* Nothing happened to a schedule that was not created.
Unborn == row.is = "absent" => served = {} /\ ranUpTo = 0

\* A disabled schedule has no next run, in the row and in the edit to come.
OffHasNone ==
    /\ ~row.enabled => row.next = Never
    /\ ~edit.enabled => edit.next = Never
EditAhead == edit.next # Never => 0 < edit.next

\* Whatever is still to come in a plan does not come before `next`.
Covers(next, plan) == \A t \in plan : clock < t => next # Never /\ next <= t

\* What a tick carries: a due occurrence, a claim that lies after it and that
\* overlooks nothing to come, and then a move that is forward.
JobOk(j, s) ==
    /\ s.pc # "none" => j[2] = "tick"
    /\ s.pc \in {"due", "claim"} => s.saw # Never /\ s.saw <= clock
    /\ s.pc = "claim" /\ s.claim # Never => s.saw < s.claim
    /\ s.pc \in {"claim", "run"} => Covers(s.claim, s.plan)
    /\ s.pc = "advance" /\ s.after # Never
       => s.claim # Never /\ s.claim <= s.after /\ s.end < s.after
JobsOk == \A j \in Job : JobOk(j, job[j])

SInv == RowAhead /\ Unborn /\ OffHasNone /\ EditAhead /\ JobsOk

Inv == TInv /\ (spent.manual = 0 => SInv)

LEMMA InvInit == Init => Inv
<1> SUFFICES ASSUME Init PROVE Inv
  OBVIOUS
<1>1. row.next = Never /\ served = {} /\ ranUpTo = 0 /\ edit = NoEdit
  BY DEF Init
<1>2. JobsOk
  BY DEF Init, JobsOk, JobOk, NoJob
<1> QED
  BY <1>1, <1>2, TypeInit DEF Inv, SInv, RowAhead, Unborn, OffHasNone, EditAhead, NoEdit

\* A step that moves one job, and what it leaves alone.
LEMMA MoveOk ==
  ASSUME TInv, JobsOk, clock' = clock, NEW j \in Job, NEW s \in JobState,
         job' = [job EXCEPT ![j] = s], JobOk(j, s)
  PROVE  JobsOk'
  BY DEF TInv, TypeOK, JobsOk, JobOk, Covers

LEMMA NoJobOk == \A j \in Job : JobOk(j, NoJob)
  BY DEF JobOk, NoJob

LEMMA StayOk ==
  ASSUME JobsOk, UNCHANGED <<clock, job>>
  PROVE  JobsOk'
  BY DEF JobsOk, JobOk, Covers

LEMMA RowStays ==
  ASSUME SInv, UNCHANGED <<row, edit, served, ranUpTo>>
  PROVE  RowAhead' /\ Unborn' /\ OffHasNone' /\ EditAhead'
  BY DEF SInv, RowAhead, Unborn, OffHasNone, EditAhead

\* What is computed from a plan of the operator's at the present instant.
LEMMA NextNow ==
  ASSUME TInv, NEW plan \in Plan \cup {{}}
  PROVE  /\ clock \in Nat
         /\ NextOccurrence(plan, clock) \in Next_run_at
         /\ NextOccurrence(plan, clock) # Never
            => NextOccurrence(plan, clock) \in plan /\ clock < NextOccurrence(plan, clock)
         /\ Covers(NextOccurrence(plan, clock), plan)
<1>1. clock \in Nat /\ plan \in SUBSET Nat
  BY LimitAssumption, PlanType DEF TInv, TypeOK
<1>2. IsNext(NextOccurrence(plan, clock), plan, clock)
  BY <1>1, NextRunIsNext
<1> QED BY <1>1, <1>2 DEF IsNext, Covers

LEMMA OperateInv ==
  ASSUME TInv, SInv, Operate, spent'.manual = 0
  PROVE  SInv'
<1>1. ASSUME NEW plan \in Plan, NEW enabled \in BOOLEAN, CreateSchedule(plan, enabled)
      PROVE  SInv'
  <2> DEFINE n == NextOccurrence(plan, clock)
  <2>1. clock \in Nat /\ n \in Next_run_at /\ (n # Never => clock < n)
    BY NextNow
  <2> HIDE DEF n
  <2>2. row' = [is |-> "there", enabled |-> enabled, plan |-> plan,
                next |-> IF enabled THEN n ELSE Never]
    BY <1>1 DEF CreateSchedule, n
  <2>3. served' = {} /\ ranUpTo' = 0 /\ edit' = edit
    BY <1>1 DEF CreateSchedule, SInv, Unborn
  <2>4. RowAhead'
    BY <2>1, <2>2, <2>3 DEF RowAhead, Next_run_at, Time
  <2>5. Unborn' /\ OffHasNone' /\ EditAhead'
    BY <2>2, <2>3 DEF SInv, Unborn, OffHasNone, EditAhead
  <2> QED BY <1>1, <2>4, <2>5, StayOk DEF CreateSchedule, SInv
<1>2. CASE ReadForEdit
  <2>1. RowAhead' /\ Unborn'
    BY <1>2 DEF ReadForEdit, SInv, RowAhead, Unborn
  <2>2. OffHasNone' /\ EditAhead'
    BY <1>2 DEF ReadForEdit, SInv, OffHasNone, EditAhead, NoEdit
  <2> QED BY <1>2, <2>1, <2>2, StayOk DEF ReadForEdit, SInv
<1>3. CASE DeleteSchedule
  <2>1. row'.is = "deleted" /\ row'.next = row.next /\ row'.enabled = row.enabled
    BY <1>3 DEF DeleteSchedule, TInv, TypeOK, Row
  <2>2. RowAhead' /\ Unborn' /\ OffHasNone' /\ EditAhead'
    BY <1>3, <2>1 DEF DeleteSchedule, SInv, RowAhead, Unborn, OffHasNone, EditAhead
  <2> QED BY <1>3, <2>2, StayOk DEF DeleteSchedule, SInv
<1>4. ASSUME NEW p \in Proc, RunNow(p)
      PROVE  SInv'
  <2>1. spent.manual \in Nat /\ spent'.manual = spent.manual + 1
    BY <1>4, LimitAssumption DEF RunNow, TInv, TypeOK
  <2> QED BY <2>1
<1> QED BY <1>1, <1>2, <1>3, <1>4 DEF Operate

LEMMA EditInv ==
  ASSUME TInv, SInv, EditStep
  PROVE  SInv'
<1>1. CASE MergeEdit
  <2>1. OffHasNone' /\ EditAhead'
    <3>1. CASE edit' = NoEdit
      BY <1>1, <3>1 DEF MergeEdit, SInv, OffHasNone, EditAhead, NoEdit
    <3>2. ASSUME NEW plan \in Plan, NEW enabled \in BOOLEAN,
                 edit' = [pc |-> "write", enabled |-> enabled, plan |-> plan,
                          next |-> IF enabled THEN NextOccurrence(plan, clock) ELSE Never]
          PROVE  OffHasNone' /\ EditAhead'
      <4> DEFINE n == NextOccurrence(plan, clock)
      <4>1. clock \in Nat /\ n \in Next_run_at /\ (n # Never => clock < n)
        BY NextNow
      <4> HIDE DEF n
      <4>2. edit'.enabled = enabled /\ edit'.next = IF enabled THEN n ELSE Never
        BY <3>2 DEF n
      <4>3. OffHasNone'
        BY <1>1, <4>2 DEF MergeEdit, SInv, OffHasNone
      <4>4. EditAhead'
        BY <4>1, <4>2 DEF EditAhead, Next_run_at, Time
      <4> QED BY <4>3, <4>4
    <3> QED BY <1>1, <3>1, <3>2 DEF MergeEdit
  <2>2. RowAhead' /\ Unborn'
    BY <1>1 DEF MergeEdit, SInv, RowAhead, Unborn
  <2> QED BY <1>1, <2>1, <2>2, StayOk DEF MergeEdit, SInv
<1>2. CASE WriteEdit
  <2>1. CASE There
    <3>1. /\ row'.is = "there" /\ row'.enabled = edit.enabled /\ row'.next = edit.next
          /\ served' = {} /\ ranUpTo' = 0 /\ edit' = NoEdit
      BY <1>2, <2>1 DEF WriteEdit
    <3>2. RowAhead' /\ Unborn' /\ OffHasNone' /\ EditAhead'
      BY <3>1 DEF SInv, RowAhead, Unborn, OffHasNone, EditAhead, NoEdit
    <3> QED BY <1>2, <3>2, StayOk DEF WriteEdit, SInv
  <2>2. CASE ~There
    <3>1. UNCHANGED <<row, served, ranUpTo>> /\ edit' = NoEdit
      BY <1>2, <2>2 DEF WriteEdit
    <3>2. RowAhead' /\ Unborn' /\ OffHasNone' /\ EditAhead'
      BY <3>1 DEF SInv, RowAhead, Unborn, OffHasNone, EditAhead, NoEdit
    <3> QED BY <1>2, <3>2, StayOk DEF WriteEdit, SInv
  <2> QED BY <2>1, <2>2
<1> QED BY <1>1, <1>2 DEF EditStep

LEMMA StartInv ==
  ASSUME TInv, SInv, NEW p \in Proc, ListDueSchedules(p) \/ ExecuteSchedule(p)
  PROVE  SInv'
<1>1. CASE ListDueSchedules(p)
  <2> DEFINE s == [NoJob EXCEPT !.pc = "due", !.plan = row.plan, !.saw = row.next]
  <2>1. s \in JobState /\ s.pc = "due" /\ s.saw = row.next
    BY NoJobType DEF TInv, TypeOK, Row, JobState, NoJob
  <2>2. <<p, "tick">> \in Job /\ job' = [job EXCEPT ![<<p, "tick">>] = s]
    BY <1>1 DEF ListDueSchedules, Job
  <2> HIDE DEF s
  <2>3. JobOk(<<p, "tick">>, s)
    BY <1>1, <2>1 DEF ListDueSchedules, IsDue, JobOk
  <2>4. JobsOk'
    BY <1>1, <2>1, <2>2, <2>3, MoveOk DEF ListDueSchedules, SInv
  <2> QED BY <1>1, <2>4, RowStays DEF ListDueSchedules, SInv
<1>2. CASE ExecuteSchedule(p)
  <2>1. <<p, "manual">> \in Job /\ job[<<p, "manual">>].pc = "wait"
    BY <1>2 DEF ExecuteSchedule, Job
  <2>2. job[<<p, "manual">>].pc # "none" => <<p, "manual">>[2] = "tick"
    BY <2>1 DEF SInv, JobsOk, JobOk
  <2> QED BY <2>1, <2>2
<1> QED BY <1>1, <1>2

\* A tick that wins the claim: the row held what the tick read.
LEMMA ClaimWonFacts ==
  ASSUME TInv, SInv, NEW j \in Job, ClaimWon(j)
  PROVE  /\ There /\ row.next = job[j].saw /\ job[j].saw # Never /\ row.enabled
         /\ j[2] = "tick" /\ ranUpTo < job[j].saw
         /\ \A t \in served : t < job[j].saw
         /\ job[j].saw \in Nat
         /\ job[j].claim # Never => job[j].saw < job[j].claim
<1>1. There /\ row.next = job[j].saw /\ job[j].pc = "claim"
  BY DEF ClaimWon, NextRunIs
<1>2. JobOk(j, job[j])
  BY DEF SInv, JobsOk
<1>3. /\ j[2] = "tick" /\ job[j].saw # Never
      /\ job[j].claim # Never => job[j].saw < job[j].claim
  BY <1>1, <1>2 DEF JobOk
<1>4. ranUpTo < job[j].saw /\ \A t \in served : t < job[j].saw
  BY <1>1, <1>3 DEF SInv, RowAhead
<1>5. row.enabled
  BY <1>1, <1>3 DEF SInv, OffHasNone
<1>6. job[j].saw \in Nat
  BY <1>3, CarriedType DEF Next_run_at, Time
<1> QED BY <1>1, <1>3, <1>4, <1>5, <1>6

LEMMA ClaimWonInv ==
  ASSUME TInv, SInv, NEW j \in Job, ClaimWon(j)
  PROVE  SInv'
<1>1. job[j] \in JobState /\ job[j].claim \in Next_run_at /\ served \subseteq Nat /\ ranUpTo \in Nat
  BY CarriedType DEF TInv, TypeOK, Time
<1>2. /\ row'.next = job[j].claim /\ row'.is = "there"
      /\ row'.enabled = (row.enabled /\ job[j].claim # Never)
      /\ served' = served \cup {job[j].saw} /\ ranUpTo' = ranUpTo /\ edit' = edit
  BY ClaimWonFacts DEF ClaimWon, MovedTo, There, TInv, TypeOK, Row
<1>3. RowAhead'
  <2>1. ASSUME job[j].claim # Never
        PROVE  ranUpTo < job[j].claim /\ \A t \in served \cup {job[j].saw} : t < job[j].claim
    BY <1>1, <2>1, ClaimWonFacts DEF Next_run_at, Time
  <2> QED BY <1>2, <2>1 DEF RowAhead
<1>4. Unborn' /\ EditAhead'
  BY <1>2 DEF Unborn, EditAhead, SInv
<1>5. OffHasNone'
  BY <1>2, ClaimWonFacts DEF OffHasNone, SInv
<1>6. JobsOk'
  <2> DEFINE s == [job[j] EXCEPT !.pc = "run", !.saw = Never]
  <2>1. s \in JobState
    BY <1>1, UpdateType, CarriedType
  <2>2. s.pc = "run" /\ s.claim = job[j].claim /\ s.plan = job[j].plan
    BY <1>1 DEF JobState
  <2>3. job' = [job EXCEPT ![j] = s] /\ clock' = clock /\ job[j].pc = "claim"
    BY DEF ClaimWon
  <2> HIDE DEF s
  <2>4. JobOk(j, s)
    BY <2>2, <2>3 DEF SInv, JobsOk, JobOk
  <2> QED BY <2>1, <2>3, <2>4, MoveOk DEF SInv
<1> QED BY <1>3, <1>4, <1>5, <1>6 DEF SInv

LEMMA AdvanceInv ==
  ASSUME TInv, SInv, NEW j \in Job, AdvanceScheduleAfterRun(j)
  PROVE  SInv'
<1>1. /\ job[j].pc = "advance" /\ edit' = edit /\ served' = served
      /\ job' = [job EXCEPT ![j] = NoJob] /\ clock' = clock
  BY DEF AdvanceScheduleAfterRun
<1>2. /\ job[j].claim \in Next_run_at /\ job[j].after \in Next_run_at /\ job[j].end \in Nat
      /\ served \subseteq Nat /\ ranUpTo \in Nat
  BY CarriedType DEF TInv, TypeOK, Time
<1>3. job[j].after # Never
      => job[j].claim # Never /\ job[j].claim <= job[j].after /\ job[j].end < job[j].after
  BY <1>1 DEF SInv, JobsOk, JobOk
<1>4. JobsOk'
  BY <1>1, NoJobType, NoJobOk, MoveOk DEF SInv
<1>5. CASE ~NextRunIs(job[j].claim)
  <2>1. row' = row /\ ranUpTo' = ranUpTo
    BY <1>5 DEF AdvanceScheduleAfterRun
  <2> QED BY <1>1, <1>4, <2>1, RowStays DEF SInv
<1>6. CASE NextRunIs(job[j].claim) /\ job[j].after = job[j].claim
  <2>1. row' = row /\ row.next = job[j].claim /\ There
    BY <1>6 DEF AdvanceScheduleAfterRun, NextRunIs
  <2>2. ranUpTo' = IF job[j].claim # Never THEN job[j].end ELSE ranUpTo
    BY <1>6 DEF AdvanceScheduleAfterRun
  <2>3. RowAhead'
    BY <1>1, <1>3, <1>6, <2>1, <2>2 DEF SInv, RowAhead
  <2>4. Unborn' /\ OffHasNone' /\ EditAhead'
    BY <1>1, <2>1 DEF SInv, Unborn, OffHasNone, EditAhead, There
  <2> QED BY <1>4, <2>3, <2>4 DEF SInv
<1>7. CASE NextRunIs(job[j].claim) /\ job[j].after # job[j].claim
  <2>1. /\ row.next = job[j].claim /\ row'.is = "there" /\ row'.next = job[j].after
        /\ row'.enabled = (row.enabled /\ job[j].after # Never)
    BY <1>7 DEF AdvanceScheduleAfterRun, NextRunIs, MovedTo, There, TInv, TypeOK, Row
  <2>2. ranUpTo' = IF job[j].claim # Never THEN job[j].end ELSE ranUpTo
    BY <1>7 DEF AdvanceScheduleAfterRun
  <2>3. RowAhead'
    <3>1. ASSUME job[j].after # Never
          PROVE  ranUpTo' < job[j].after /\ \A t \in served : t < job[j].after
      <4>1. job[j].claim \in Nat /\ job[j].after \in Nat
        BY <1>2, <1>3, <3>1 DEF Next_run_at, Time
      <4>2. \A t \in served : t < job[j].claim
        BY <1>3, <2>1, <3>1 DEF SInv, RowAhead
      <4> QED BY <1>2, <1>3, <2>2, <3>1, <4>1, <4>2
    <3> QED BY <1>1, <2>1, <3>1 DEF RowAhead
  <2>4. Unborn' /\ EditAhead'
    BY <1>1, <2>1 DEF SInv, Unborn, EditAhead
  <2>5. OffHasNone'
    <3>1. job[j].after # Never => row.enabled
      BY <1>3, <2>1 DEF SInv, OffHasNone
    <3>2. ~row'.enabled => row'.next = Never
      BY <2>1, <3>1
    <3> QED BY <1>1, <3>2 DEF SInv, OffHasNone
  <2> QED BY <1>4, <2>3, <2>4, <2>5 DEF SInv
<1> QED BY <1>5, <1>6, <1>7

LEMMA JobStepInv ==
  ASSUME TInv, SInv, NEW j \in Job, JobStep(j)
  PROVE  SInv'
<1>0. JobOk(j, job[j]) /\ job[j] \in JobState
  BY CarriedType DEF SInv, JobsOk
<1> DEFINE n == NextOccurrence(job[j].plan, clock)
<1>n. /\ clock \in Nat /\ n \in Next_run_at
      /\ n # Never => n \in job[j].plan /\ clock < n
      /\ Covers(n, job[j].plan)
  BY <1>0, NextNow DEF JobState
<1>1. CASE RunOnce(j)
  <2> DEFINE s == [job[j] EXCEPT !.pc = "claim", !.claim = n]
  <2>1. s \in JobState
    BY <1>0, <1>n, UpdateType, CarriedType
  <2>2. s.pc = "claim" /\ s.claim = n /\ s.plan = job[j].plan /\ s.saw = job[j].saw
    BY <1>0 DEF JobState
  <2>3. job' = [job EXCEPT ![j] = s] /\ clock' = clock /\ job[j].pc = "due"
    BY <1>1 DEF RunOnce
  <2>4. job[j].saw \in Next_run_at
    BY CarriedType
  <2> HIDE DEF s, n
  <2>5. JobOk(j, s)
    BY <1>0, <1>n, <2>2, <2>3, <2>4 DEF JobOk, Next_run_at, Time
  <2>6. JobsOk'
    BY <2>1, <2>3, <2>5, MoveOk DEF SInv
  <2> QED BY <1>1, <2>6, RowStays DEF RunOnce, SInv
<1>2. CASE ClaimWon(j)
  BY <1>2, ClaimWonInv
<1>3. CASE ClaimLost(j)
  <2>1. JobsOk'
    BY <1>3, NoJobType, NoJobOk, MoveOk DEF ClaimLost, SInv
  <2> QED BY <1>3, <2>1, RowStays DEF ClaimLost, SInv
<1>4. CASE Finish(j)
  <2> DEFINE s == [job[j] EXCEPT !.pc = "advance", !.plan = {}, !.end = clock, !.after = n]
  <2>1. s \in JobState
    BY <1>0, <1>n, UpdateType, CarriedType DEF Time
  <2>2. s.pc = "advance" /\ s.claim = job[j].claim /\ s.after = n /\ s.end = clock
    BY <1>0 DEF JobState
  <2>3. job' = [job EXCEPT ![j] = s] /\ clock' = clock /\ job[j].pc = "run"
    BY <1>4 DEF Finish
  <2> HIDE DEF s, n
  <2>4. n # Never => job[j].claim # Never /\ job[j].claim <= n /\ clock < n
    BY <1>0, <1>n, <2>3 DEF JobOk, Covers
  <2>5. JobOk(j, s)
    BY <1>0, <2>2, <2>3, <2>4 DEF JobOk
  <2>6. JobsOk'
    BY <2>1, <2>3, <2>5, MoveOk DEF SInv
  <2> QED BY <1>4, <2>6, RowStays DEF Finish, SInv
<1>5. CASE AdvanceScheduleAfterRun(j)
  BY <1>5, AdvanceInv
<1> QED BY <1>1, <1>2, <1>3, <1>4, <1>5 DEF JobStep

LEMMA FaultInv ==
  ASSUME TInv, SInv,
         (\E j \in Job : RunThrows(j)) \/ (\E p \in Proc : Crash(p))
  PROVE  SInv'
<1>1. ASSUME NEW j \in Job, RunThrows(j) PROVE JobsOk'
  BY <1>1, NoJobType, NoJobOk, MoveOk DEF RunThrows, SInv
<1>2. ASSUME NEW p \in Proc, Crash(p) PROVE JobsOk'
  <2>1. \A j \in Job : job'[j] = NoJob \/ job'[j] = job[j]
    BY <1>2 DEF Crash
  <2>2. clock' = clock
    BY <1>2 DEF Crash
  <2> QED BY <2>1, <2>2, NoJobOk DEF SInv, JobsOk, JobOk, Covers, NoJob
<1>3. UNCHANGED <<row, edit, served, ranUpTo>>
  BY DEF RunThrows, Crash
<1> QED BY <1>1, <1>2, <1>3, RowStays DEF SInv

LEMMA TickInv ==
  ASSUME TInv, SInv, Tick
  PROVE  SInv'
<1>1. clock \in Nat /\ clock' = clock + 1 /\ job' = job
  BY LimitAssumption DEF Tick, TInv, TypeOK
<1>2. JobsOk'
  <2> SUFFICES ASSUME NEW j \in Job PROVE JobOk(j, job[j])'
    BY DEF JobsOk
  <2>1. JobOk(j, job[j]) /\ job[j].plan \in SUBSET Nat /\ job[j].saw \in Next_run_at
    BY CarriedType DEF SInv, JobsOk
  <2>2. job[j].saw # Never /\ job[j].saw <= clock => job[j].saw <= clock + 1
    BY <1>1, <2>1 DEF Next_run_at, Time
  <2>3. \A t \in job[j].plan : clock + 1 < t => clock < t
    BY <1>1, <2>1
  <2> QED BY <1>1, <2>1, <2>2, <2>3 DEF JobOk, Covers
<1> QED BY <1>2, RowStays DEF Tick, SInv

\* Requests are only ever counted up.
LEMMA ManualGrows ==
  ASSUME TInv, [Next]_vars, spent'.manual = 0
  PROVE  spent.manual = 0
<1>1. /\ spent \in [edit : 0..MaxEdit, manual : 0..MaxManual, fault : 0..MaxFault]
      /\ spent.manual \in Nat
  BY LimitAssumption DEF TInv, TypeOK
<1>2. \A p \in Proc : RunNow(p) => spent'.manual = spent.manual + 1
  BY <1>1 DEF RunNow
<1>3. ReadForEdit => spent'.manual = spent.manual
  BY <1>1 DEF ReadForEdit
<1>4. Fails => spent'.manual = spent.manual
  BY <1>1 DEF Fails
<1>5. \A j \in Job : JobStep(j) => spent' = spent
  BY DEF JobStep, RunOnce, ClaimWon, ClaimLost, Finish, AdvanceScheduleAfterRun
<1>6. CASE Operate
  <2>1. \A plan \in Plan, enabled \in BOOLEAN : CreateSchedule(plan, enabled) => spent' = spent
    BY DEF CreateSchedule
  <2>2. DeleteSchedule => spent' = spent
    BY DEF DeleteSchedule
  <2> QED BY <1>1, <1>2, <1>3, <1>6, <2>1, <2>2 DEF Operate
<1>7. CASE EditStep
  BY <1>7 DEF EditStep, MergeEdit, WriteEdit
<1>8. ASSUME NEW p \in Proc, ListDueSchedules(p) \/ ExecuteSchedule(p) \/ Crash(p)
      PROVE  spent.manual = 0
  BY <1>4, <1>8 DEF ListDueSchedules, ExecuteSchedule, Crash
<1>9. ASSUME NEW j \in Job, JobStep(j) \/ RunThrows(j)
      PROVE  spent.manual = 0
  BY <1>4, <1>5, <1>9 DEF RunThrows
<1>10. CASE Tick
  BY <1>10 DEF Tick
<1>11. CASE UNCHANGED vars
  BY <1>11 DEF vars
<1> QED BY <1>6, <1>7, <1>8, <1>9, <1>10, <1>11 DEF Next

LEMMA InvStep == Inv /\ [Next]_vars => Inv'
<1> SUFFICES ASSUME Inv, [Next]_vars PROVE Inv'
  OBVIOUS
<1>1. TInv /\ TInv'
  BY TypeStep DEF Inv
<1> SUFFICES ASSUME spent'.manual = 0 PROVE SInv'
  BY <1>1 DEF Inv
<1>2. SInv
  BY <1>1, ManualGrows DEF Inv
<1>3. CASE Operate
  BY <1>1, <1>2, <1>3, OperateInv
<1>4. CASE EditStep
  BY <1>1, <1>2, <1>4, EditInv
<1>5. ASSUME NEW p \in Proc, ListDueSchedules(p) \/ ExecuteSchedule(p) \/ Crash(p)
      PROVE  SInv'
  BY <1>1, <1>2, <1>5, StartInv, FaultInv
<1>6. ASSUME NEW j \in Job, JobStep(j) \/ RunThrows(j)
      PROVE  SInv'
  BY <1>1, <1>2, <1>6, JobStepInv, FaultInv
<1>7. CASE Tick
  BY <1>1, <1>2, <1>7, TickInv
<1>8. CASE UNCHANGED vars
  BY <1>2, <1>8, RowStays, StayOk DEF vars, SInv
<1> QED BY <1>3, <1>4, <1>5, <1>6, <1>7, <1>8 DEF Next

\* A job enters its run by the claim it wins, and in no other way.
LEMMA StartsByClaim ==
  ASSUME TInv, [Next]_vars, NEW j \in Job, Starts(j)
  PROVE  ClaimWon(j)
<1>0. /\ job[j].pc = "claim" /\ job'[j].pc = "run"
      /\ job \in [Job -> JobState]
  BY DEF Starts, TInv, TypeOK
<1>1. ASSUME NEW k \in Job, JobStep(k), ~ ClaimWon(k)
      PROVE  FALSE
  <2>1. CASE RunOnce(k)
    BY <1>0, <2>1 DEF RunOnce, JobState
  <2>2. CASE ClaimLost(k)
    BY <1>0, <2>2 DEF ClaimLost, NoJob
  <2>3. CASE Finish(k)
    BY <1>0, <2>3 DEF Finish, JobState
  <2>4. CASE AdvanceScheduleAfterRun(k)
    BY <1>0, <2>4 DEF AdvanceScheduleAfterRun, NoJob
  <2> QED BY <1>1, <2>1, <2>2, <2>3, <2>4 DEF JobStep
<1>2. ASSUME NEW k \in Job, ClaimWon(k)
      PROVE  k = j
  BY <1>0, <1>2 DEF ClaimWon
<1>3. ASSUME NEW k \in Job, RunThrows(k)
      PROVE  FALSE
  BY <1>0, <1>3 DEF RunThrows, NoJob
<1>4. ASSUME NEW p \in Proc, ListDueSchedules(p) \/ ExecuteSchedule(p) \/ Crash(p)
      PROVE  FALSE
  <2>1. CASE ListDueSchedules(p)
    BY <1>0, <2>1 DEF ListDueSchedules, NoJob
  <2>2. CASE ExecuteSchedule(p)
    BY <1>0, <2>2 DEF ExecuteSchedule, JobState
  <2>3. CASE Crash(p)
    BY <1>0, <2>3 DEF Crash, NoJob
  <2> QED BY <1>4, <2>1, <2>2, <2>3
<1>5. ASSUME Operate
      PROVE  FALSE
  <2>1. ASSUME NEW p \in Proc, RunNow(p)
        PROVE  FALSE
    BY <1>0, <2>1 DEF RunNow, NoJob
  <2>2. CASE job' = job
    BY <1>0, <2>2
  <2> QED BY <1>5, <2>1, <2>2 DEF Operate, CreateSchedule, ReadForEdit, DeleteSchedule
<1>6. ASSUME EditStep \/ Tick \/ UNCHANGED vars
      PROVE  FALSE
  <2>1. job' = job
    BY <1>6 DEF EditStep, MergeEdit, WriteEdit, Tick, vars
  <2> QED BY <1>0, <2>1
<1> QED BY <1>1, <1>2, <1>3, <1>4, <1>5, <1>6 DEF Next

\* What holds whenever a tick starts a run.
LEMMA StartFacts ==
  ASSUME Inv, [Next]_vars, spent.manual = 0, NEW j \in Job, Starts(j)
  PROVE  /\ There /\ row.enabled
         /\ job[j].saw \notin served /\ job[j].saw > ranUpTo
<1>1. TInv /\ SInv /\ ClaimWon(j)
  BY StartsByClaim DEF Inv
<1>2. /\ There /\ row.enabled /\ ranUpTo < job[j].saw /\ job[j].saw \in Nat
      /\ \A t \in served : t < job[j].saw
  BY <1>1, ClaimWonFacts
<1>3. ranUpTo \in Nat
  BY <1>1 DEF TInv, TypeOK, Time
<1>4. job[j].saw \notin served
  BY <1>2
<1> QED BY <1>2, <1>3, <1>4

\* A tick never starts a disabled or deleted schedule, as long as no "Run now"
\* was requested: for any number of containers, edits and faults.
THEOREM NeverStartsDisabled == Spec => StartsEnabled
<1>1. Inv /\ [Next]_vars
      => [\A j \in Job : Starts(j) /\ spent.manual = 0 => There /\ row.enabled]_vars
  BY StartFacts
<1> QED BY <1>1, InvInit, InvStep, PTL DEF Spec, StartsEnabled

LEMMA NoRequests ==
  ASSUME MaxManual = 0, TInv
  PROVE  spent.manual = 0
  BY DEF TInv, TypeOK

\* Without "Run now", an occurrence starts at most one run, whatever the
\* containers, their crashes and the operator's edits.
THEOREM RunsOnceWithoutRequests == ASSUME MaxManual = 0 PROVE Spec => RunsOnce
<1>1. Inv /\ [Next]_vars => [\A j \in Job : Starts(j) => job[j].saw \notin served]_vars
  BY StartFacts, NoRequests DEF Inv
<1> QED BY <1>1, InvInit, InvStep, PTL DEF Spec, RunsOnce

\* Without "Run now", no tick starts an occurrence that came before the end of
\* a run whose claim stood.
THEOREM SkipsOverrunWithoutRequests == ASSUME MaxManual = 0 PROVE Spec => SkipsOverrun
<1>1. Inv /\ [Next]_vars => [\A j \in Job : Starts(j) => job[j].saw > ranUpTo]_vars
  BY StartFacts, NoRequests DEF Inv
<1> QED BY <1>1, InvInit, InvStep, PTL DEF Spec, SkipsOverrun

-----------------------------------------------------------------------------

-----------------------------------------------------------------------------
(* Arithmetic *)

LEMMA DivMod ==
    ASSUME NEW a \in Int, NEW b \in Nat \ {0}
    PROVE  /\ a \div b \in Int /\ a % b \in Int
           /\ 0 <= a % b /\ a % b < b
           /\ a = b * (a \div b) + (a % b)
OBVIOUS

LEMMA Factor ==
    ASSUME NEW a \in Int, NEW b \in Int, NEW i \in Nat \ {0}
    PROVE  /\ i * a \in Int
           /\ i * a < i * b <=> a < b
           /\ i * (a + 1) = i * a + i
           /\ a >= 0 => i * a >= a
OBVIOUS

LEMMA DivUnique ==
    ASSUME NEW a \in Int, NEW b \in Nat \ {0}, NEW q \in Int, b * q <= a, a < b * (q + 1)
    PROVE  a \div b = q /\ a % b = a - b * q
<1> DEFINE d == a \div b
           r == a % b
<1>1. d \in Int /\ r \in Int /\ a = b * d + r /\ 0 <= r /\ r < b
  BY DivMod
<1> HIDE DEF d, r
<1>2. d \in Int /\ b * d <= a /\ a < b * (d + 1)
  BY <1>1
<1>3. CASE d < q
  <2>1. d + 1 <= q
    BY <1>2, <1>3
  <2>2. b * (d + 1) <= b * q
    BY <1>2, <2>1
  <2> QED BY <1>2, <2>2
<1>4. CASE q < d
  <2>1. q + 1 <= d
    BY <1>2, <1>4
  <2>2. b * (q + 1) <= b * d
    BY <1>2, <2>1
  <2> QED BY <1>2, <2>2
<1> QED BY <1>1, <1>2, <1>3, <1>4 DEF d, r

LEMMA ZeroDiv ==
    ASSUME NEW i \in Nat \ {0}
    PROVE  0 \div i = 0 /\ 0 % i = 0
<1>1. i * 0 = 0 /\ 0 < i * (0 + 1) /\ i * 0 <= 0
  OBVIOUS
<1>2. 0 \div i = 0 /\ 0 % i = 0 - i * 0
  BY <1>1, DivUnique
<1> QED BY <1>1, <1>2

LEMMA Multiple ==
    ASSUME NEW a \in Int, NEW b \in Nat \ {0}
    PROVE  /\ a % b = 0 => a = b * (a \div b)
           /\ (b * a) % b = 0 /\ (b * a) \div b = a
<1>1. a % b = 0 => a = b * (a \div b)
  BY DivMod
<1> DEFINE m == b * a
<1>2. m \in Int /\ b * a <= m /\ m < b * (a + 1) /\ m - b * a = 0
  OBVIOUS
<1> HIDE DEF m
<1>3. m \div b = a /\ m % b = m - b * a
  BY <1>2, DivUnique
<1> QED BY <1>1, <1>2, <1>3 DEF m

-----------------------------------------------------------------------------
(* Local time *)

Zones == {z \in [std : Int, dst : BOOLEAN] : -DayHours < z.std /\ z.std < DayHours - 1}

LEMMA LocalInstant ==
    ASSUME NEW z \in Zones, NEW t \in Int, NEW l \in Int
    PROVE  /\ Local(z, t) \in Int /\ Instant(z, l) \in Int
           /\ Instant(z, l) <= t <=> l <= Local(z, t)
           /\ Local(z, Instant(z, l)) \in {l, l + 1}
BY DstAssumption DEF Local, Instant, Dst, Zones

LEMMA LocalOrder ==
    ASSUME NEW z \in Zones, NEW s \in Int, NEW t \in Int, s <= t
    PROVE  Local(z, s) <= Local(z, t)
BY DstAssumption DEF Local, Dst, Zones

LEMMA DayHour ==
    ASSUME NEW z \in Zones, NEW t \in Int
    PROVE  /\ Day(z, t) \in Int /\ Hour(z, t) \in Int
           /\ 0 <= Hour(z, t) /\ Hour(z, t) < DayHours
           /\ DayHours * Day(z, t) <= Local(z, t) /\ Local(z, t) < DayHours * (Day(z, t) + 1)
           /\ Local(z, t) = Day(z, t) * DayHours + Hour(z, t)
<1> DEFINE l == Local(z, t)
           d == l \div DayHours
           h == l % DayHours
<1>1. l \in Int /\ DayHours \in Nat \ {0}
  BY LocalInstant, DayAssumption
<1> HIDE DEF l
<1>2. d \in Int /\ h \in Int /\ 0 <= h /\ h < DayHours /\ l = DayHours * d + h
  BY <1>1, DivMod
<1> HIDE DEF d, h
<1>3. DayHours * d <= l /\ l < DayHours * (d + 1) /\ l = d * DayHours + h
  BY <1>1, <1>2
<1> QED BY <1>2, <1>3 DEF Day, Hour, d, h, l

LEMMA DayIs ==
    ASSUME NEW z \in Zones, NEW t \in Int, NEW d \in Int,
           DayHours * d <= Local(z, t), Local(z, t) < DayHours * (d + 1)
    PROVE  Day(z, t) = d
BY DivUnique, LocalInstant, DayAssumption DEF Day

LEMMA DayOrder ==
    ASSUME NEW z \in Zones, NEW s \in Int, NEW t \in Int, s <= t
    PROVE  Day(z, s) <= Day(z, t)
<1>1. /\ Day(z, s) \in Int /\ Day(z, t) \in Int /\ DayHours \in Nat \ {0}
      /\ DayHours * Day(z, s) <= Local(z, s) /\ Local(z, t) < DayHours * (Day(z, t) + 1)
      /\ Local(z, s) \in Int /\ Local(z, t) \in Int
  BY DayHour, DayAssumption, LocalInstant
<1>2. DayHours * Day(z, s) \in Int /\ DayHours * (Day(z, t) + 1) \in Int
  BY <1>1
<1>3. DayHours * Day(z, s) < DayHours * (Day(z, t) + 1)
  BY <1>1, <1>2, LocalOrder
<1>4. Day(z, t) + 1 \in Int
  BY <1>1
<1>5. Day(z, s) < Day(z, t) + 1
  BY <1>1, <1>3, <1>4, Factor
<1> QED BY <1>1, <1>5

Hours == 0..(DayHours - 1)

(* Of two days, the same hour comes later on the later one; an hour before  *)
(* today is past and one after today is ahead.                              *)
LEMMA AtIs ==
    ASSUME NEW z \in Zones, NEW d \in Int, NEW h \in Hours
    PROVE  /\ At(z, d, h) \in Int
           /\ Day(z, At(z, d, h)) \in {d, d + 1}
           /\ ~z.dst => Day(z, At(z, d, h)) = d
<1> DEFINE l == d * DayHours + h
           t == At(z, d, h)
<1>1. DayHours \in Nat \ {0, 1} /\ h \in Int /\ 0 <= h /\ h < DayHours /\ l \in Int
  BY DayAssumption DEF Hours
<1>2. t \in Int /\ Local(z, t) \in {l, l + 1}
  BY <1>1, LocalInstant DEF At
<1>3. ~z.dst => Local(z, t) = l
  BY <1>1 DEF At, Local, Instant, Dst, Zones
<1>4. CASE Local(z, t) = l
  <2>1. DayHours * d <= l /\ l < DayHours * (d + 1)
    BY <1>1
  <2>2. Day(z, t) = d
    BY <1>2, <1>4, <2>1, DayIs
  <2> QED BY <1>2, <2>2
<1>5. CASE Local(z, t) = l + 1 /\ h + 1 < DayHours
  <2>1. DayHours * d <= l + 1 /\ l + 1 < DayHours * (d + 1)
    BY <1>1, <1>5
  <2>2. Day(z, t) = d
    BY <1>2, <1>5, <2>1, DayIs
  <2> QED BY <1>2, <2>2
<1>6. CASE Local(z, t) = l + 1 /\ h + 1 = DayHours
  <2>1. DayHours * (d + 1) <= l + 1 /\ l + 1 < DayHours * ((d + 1) + 1) /\ d + 1 \in Int
    BY <1>1, <1>6
  <2>2. Day(z, t) = d + 1
    BY <1>2, <1>6, <2>1, DayIs
  <2>3. Local(z, t) # l
    BY <1>1, <1>6
  <2> QED BY <1>2, <1>3, <2>2, <2>3
<1> QED BY <1>1, <1>2, <1>4, <1>5, <1>6

LEMMA AtPast ==
    ASSUME NEW z \in Zones, NEW d \in Int, NEW h \in Hours, NEW t \in Int
    PROVE  /\ d < Day(z, t) => At(z, d, h) <= t
           /\ d > Day(z, t) => At(z, d, h) > t
<1> DEFINE l == d * DayHours + h
           e == Day(z, t)
<1>1. /\ DayHours \in Nat \ {0, 1} /\ h \in Int /\ 0 <= h /\ h < DayHours /\ l \in Int
      /\ e \in Int /\ Local(z, t) \in Int /\ At(z, d, h) \in Int
      /\ DayHours * e <= Local(z, t) /\ Local(z, t) < DayHours * (e + 1)
  BY DayAssumption, DayHour, LocalInstant DEF Hours, At
<1>2. At(z, d, h) <= t <=> l <= Local(z, t)
  BY <1>1, LocalInstant DEF At
<1> HIDE DEF e
<1>3. CASE d < e
  <2>1. d + 1 <= e
    BY <1>1, <1>3
  <2>2. DayHours * (d + 1) <= DayHours * e
    BY <1>1, <2>1
  <2>3. l < DayHours * (d + 1)
    BY <1>1
  <2> QED BY <1>1, <1>2, <1>3, <2>2, <2>3 DEF e
<1>4. CASE d > e
  <2>1. e + 1 <= d
    BY <1>1, <1>4
  <2>2. DayHours * (e + 1) <= DayHours * d
    BY <1>1, <2>1
  <2>3. DayHours * d <= l
    BY <1>1
  <2> QED BY <1>1, <1>2, <1>4, <2>2, <2>3 DEF e
<1> QED BY <1>1, <1>3, <1>4 DEF e

LEMMA AtOrder ==
    ASSUME NEW z \in Zones, NEW d \in Int, NEW e \in Int, NEW h \in Hours, d < e
    PROVE  At(z, d, h) < At(z, e, h)
<1> DEFINE l == d * DayHours + h
           m == e * DayHours + h
           t == At(z, d, h)
<1>1. DayHours \in Nat \ {0, 1} /\ h \in Int /\ l \in Int /\ m \in Int
  BY DayAssumption DEF Hours
<1>2. t \in Int /\ Local(z, t) \in {l, l + 1}
  BY <1>1, LocalInstant DEF At
<1>3. d + 1 <= e
  OBVIOUS
<1>4. DayHours * (d + 1) <= DayHours * e
  BY <1>1, <1>3
<1>5. l + 2 <= m
  BY <1>1, <1>4
<1>6. At(z, e, h) \in Int /\ (At(z, e, h) <= t <=> m <= Local(z, t))
  BY <1>1, <1>2, LocalInstant DEF At
<1> HIDE DEF l, m, t
<1> QED BY <1>1, <1>2, <1>5, <1>6 DEF t
-----------------------------------------------------------------------------
(* Recurrences that count hours or days *)

LEMMA PlanIs ==
    ASSUME NEW p \in Plans
    PROVE  /\ p.start \in Nat /\ p.end \in Nat \cup {Null} /\ Valid(p)
           /\ p.rec.type \in {"once", "hourly", "daily", "weekly", "monthly"}
           /\ p.rec.interval \in Nat \ {0}
           /\ p.rec.type = "weekly" => p.rec.days # {} /\ p.rec.days \subseteq 0..6
           /\ p.rec.type = "monthly" => p.rec.dayOfMonth \in 1..31
<1>1. PICK r \in Recurrences, s \in StartAts, e \in EndDates : p = [rec |-> r, start |-> s, end |-> e] /\ Valid(p)
  BY DEF Plans
<1>2. p.rec = r /\ p.start = s /\ p.end = e
  BY <1>1
<1>3. /\ r.type \in {"once", "hourly", "daily", "weekly", "monthly"}
      /\ r.interval \in Nat \ {0}
      /\ r.type = "weekly" => r.days # {} /\ r.days \subseteq 0..6
      /\ r.type = "monthly" => r.dayOfMonth \in 1..31
  <2>1. CASE r \in [type : {"once"}, interval : {1}, days : {{}}, dayOfMonth : {1}]
    BY <2>1
  <2>2. CASE r \in [type : {"hourly", "daily"}, interval : Intervals, days : {{}}, dayOfMonth : {1}]
    BY <2>2, ShapeAssumption
  <2>3. CASE r \in [type : {"weekly"}, interval : Intervals, days : Weekdays, dayOfMonth : {1}]
    BY <2>3, ShapeAssumption
  <2>4. CASE r \in [type : {"monthly"}, interval : Intervals, days : {{}}, dayOfMonth : MonthDays]
    BY <2>4, ShapeAssumption
  <2> QED BY <2>1, <2>2, <2>3, <2>4 DEF Recurrences
<1> QED BY <1>1, <1>2, <1>3, ShapeAssumption

(* Instant t is the first after now that the recurrence falls on. *)
First(z, p, now, t) ==
    /\ t \in Int /\ t > now /\ FallsOn(z, p, t)
    /\ \A s \in Int : now < s /\ s < t => ~FallsOn(z, p, s)

LEMMA OnceIsFirst ==
    ASSUME NEW z \in Zones, NEW p \in Plans, p.rec.type = "once", NEW now \in Int
    PROVE  IF p.start > now THEN Once(p, now) = p.start /\ First(z, p, now, p.start)
           ELSE Once(p, now) = Null /\ \A s \in Int : now < s => ~FallsOn(z, p, s)
BY PlanIs DEF Once, First, FallsOn

LEMMA HourlyIsFirst ==
    ASSUME NEW z \in Zones, NEW p \in Plans, p.rec.type = "hourly", NEW now \in Int
    PROVE  First(z, p, now, Hourly(p, now))
<1> DEFINE i == p.rec.interval
           n == AtLeast0(now - p.start) \div i
           a == p.start + n * i
           b == p.start + (n + 1) * i
<1>1. p.start \in Nat /\ i \in Nat \ {0}
  BY PlanIs
<1>2. Hourly(p, now) = IF a <= now THEN b ELSE a
  BY DEF Hourly, OneOrNext
<1>3. \A s : FallsOn(z, p, s) <=> s >= p.start /\ (s - p.start) % i = 0
  BY DEF FallsOn
<1> HIDE DEF i
<1>4. CASE now < p.start
  <2>1. AtLeast0(now - p.start) = 0
    BY <1>1, <1>4 DEF AtLeast0
  <2>2. 0 \div i = 0 /\ 0 % i = 0
    BY <1>1, ZeroDiv
  <2>3. n = 0 /\ 0 % i = 0
    BY <2>1, <2>2
  <2>4. a = p.start /\ Hourly(p, now) = p.start
    BY <1>1, <1>2, <1>4, <2>3
  <2>5. p.start - p.start = 0
    BY <1>1
  <2> QED BY <1>1, <1>3, <1>4, <2>3, <2>4, <2>5 DEF First
<1>5. CASE now >= p.start
  <2> DEFINE e == now - p.start
  <2>1. e \in Int /\ e >= 0 /\ AtLeast0(now - p.start) = e
    BY <1>1, <1>5 DEF AtLeast0
  <2>2. n \in Int /\ e = i * n + (e % i) /\ 0 <= e % i /\ e % i < i /\ e % i \in Int
    BY <1>1, <2>1, DivMod
  <2> HIDE DEF n
  <2>3. i * n \in Int /\ i * (n + 1) = i * n + i /\ i * n <= e /\ e < i * (n + 1) /\ i * (n + 1) \in Int
    BY <1>1, <2>1, <2>2
  <2>4. a = p.start + i * n /\ b = p.start + i * (n + 1)
    BY <1>1, <2>2
  <2>5. a <= now /\ b > now /\ b \in Int /\ b >= p.start
    BY <1>1, <1>5, <2>3, <2>4
  <2>6. FallsOn(z, p, b)
    <3>1. b - p.start = i * (n + 1)
      BY <1>1, <2>3, <2>4
    <3>2. (i * (n + 1)) % i = 0
      <4> DEFINE m == n + 1
      <4>1. m \in Int
        BY <2>2
      <4> HIDE DEF m
      <4>2. (i * m) % i = 0
        BY <1>1, <4>1, Multiple
      <4> QED BY <4>2 DEF m
    <3> QED BY <1>3, <2>5, <3>1, <3>2
  <2>7. ASSUME NEW s \in Int, now < s, s < b, FallsOn(z, p, s) PROVE FALSE
    <3> DEFINE q == (s - p.start) \div i
    <3>1. s - p.start \in Int /\ (s - p.start) % i = 0
      BY <1>1, <1>3, <2>7
    <3>2. s - p.start = i * q /\ q \in Int
      BY <1>1, <3>1, Multiple, DivMod
    <3> HIDE DEF q
    <3>3. i * q \in Int /\ i * n < i * q /\ i * q < i * (n + 1)
      BY <1>1, <2>1, <2>3, <2>4, <2>7, <3>2
    <3>4. n < q /\ q < n + 1
      BY <1>1, <2>2, <3>2, <3>3, Factor
    <3> QED BY <2>2, <3>2, <3>4
  <2>8. Hourly(p, now) = b
    BY <1>2, <2>5
  <2> QED BY <2>5, <2>6, <2>7, <2>8 DEF First
<1> QED BY <1>1, <1>4, <1>5

LEMMA DailyIsFirst ==
    ASSUME NEW z \in Zones, ~z.dst, NEW p \in Plans, p.rec.type = "daily", NEW now \in Int
    PROVE  First(z, p, now, Daily(z, p, now))
<1> DEFINE i == p.rec.interval
           d0 == Day(z, p.start)
           h == Hour(z, p.start)
           today == Day(z, now)
           n == AtLeast0(DaysBetween(z, now, p.start)) \div i
           a == At(z, d0 + n * i, h)
           b == At(z, d0 + (n + 1) * i, h)
<1>1. p.start \in Int /\ i \in Nat \ {0} /\ d0 \in Int /\ today \in Int /\ h \in Hours
  BY PlanIs, DayHour, DayAssumption DEF Hours
<1>2. Daily(z, p, now) = IF a <= now THEN b ELSE a
  BY DEF Daily, OneOrNext
<1>3. DaysBetween(z, now, p.start) = today - d0
  <2> DEFINE x == today - d0
  <2>1. At(z, today, 0) - At(z, d0, 0) = DayHours * x /\ x \in Int
    BY <1>1, DayAssumption DEF At, Instant, Zones
  <2> HIDE DEF x
  <2> QED BY <2>1, Multiple, DayAssumption DEF DaysBetween, x
<1>4. ASSUME NEW s \in Int, FallsOn(z, p, s)
      PROVE  \E d \in Int : s = At(z, d, h) /\ d >= d0 /\ (d - d0) % i = 0
  <2>1. \E d \in {Day(z, s), Day(z, s) - 1} : OnDay(p, d0, d) /\ s = At(z, d, h)
    BY <1>4 DEF FallsOn
  <2> QED BY <2>1, DayHour DEF OnDay
<1>5. ASSUME NEW d \in Int, d >= d0, (d - d0) % i = 0
      PROVE  FallsOn(z, p, At(z, d, h))
  <2>1. Day(z, At(z, d, h)) = d
    BY <1>1, AtIs
  <2>2. OnDay(p, d0, d)
    BY <1>5 DEF OnDay
  <2> QED BY <2>1, <2>2 DEF FallsOn
<1> HIDE DEF i, d0, h, today
<1>6. CASE today < d0
  <2>1. AtLeast0(today - d0) = 0
    BY <1>1, <1>6 DEF AtLeast0
  <2>2. 0 \div i = 0 /\ 0 % i = 0
    BY <1>1, ZeroDiv
  <2>3. n = 0 /\ 0 % i = 0
    BY <1>3, <2>1, <2>2
  <2>4. a = At(z, d0, h) /\ d0 - d0 = 0
    BY <1>1, <2>3
  <2>5. a > now /\ a \in Int
    BY <1>1, <1>6, <2>4, AtPast, AtIs DEF today
  <2>6. FallsOn(z, p, a)
    BY <1>1, <1>5, <2>3, <2>4
  <2>7. ASSUME NEW s \in Int, now < s, s < a, FallsOn(z, p, s) PROVE FALSE
    <3> PICK d \in Int : s = At(z, d, h) /\ d >= d0
      BY <1>4, <2>7
    <3>1. d = d0 \/ d0 < d
      BY <1>1
    <3> QED BY <1>1, <2>4, <2>5, <2>7, <3>1, AtOrder
  <2> QED BY <1>2, <2>5, <2>6, <2>7 DEF First
<1>7. CASE today >= d0
  <2> DEFINE e == today - d0
  <2>1. e \in Int /\ e >= 0 /\ AtLeast0(today - d0) = e
    BY <1>1, <1>7 DEF AtLeast0
  <2>2. n \in Int /\ e = i * n + (e % i) /\ 0 <= e % i /\ e % i < i /\ e % i \in Int
    BY <1>1, <1>3, <2>1, DivMod
  <2> HIDE DEF n
  <2> DEFINE da == d0 + i * n
             db == d0 + i * (n + 1)
  <2> HIDE DEF e
  <2>3. i * n \in Int /\ i * (n + 1) = i * n + i /\ i * n <= e /\ e < i * (n + 1) /\ i * (n + 1) \in Int
    BY <1>1, <2>1, <2>2
  <2>4. d0 + n * i = da /\ d0 + (n + 1) * i = db
    BY <1>1, <2>2
  <2>5. da \in Int /\ db \in Int /\ da <= today /\ today < db
    BY <1>1, <2>1, <2>3 DEF e
  <2>6. a = At(z, da, h) /\ b = At(z, db, h)
    BY <2>4
  <2>7. FallsOn(z, p, a) /\ FallsOn(z, p, b)
    <3>1. n >= 0
      BY <1>1, <2>1, <2>2, <2>3, Factor
    <3>2. da >= d0 /\ db >= d0 /\ da - d0 = i * n /\ db - d0 = i * (n + 1)
      <4>1. i * n >= n
        BY <1>1, <2>2, <3>1, Factor
      <4> QED BY <1>1, <2>2, <2>3, <3>1, <4>1
    <3>3. (da - d0) % i = 0 /\ (db - d0) % i = 0
      <4> DEFINE m == n + 1
      <4>1. m \in Int
        BY <2>2
      <4>2. db - d0 = i * m
        BY <3>2
      <4> HIDE DEF m
      <4>3. (i * n) % i = 0 /\ (i * m) % i = 0
        BY <1>1, <2>2, <4>1, Multiple
      <4> QED BY <3>2, <4>2, <4>3
    <3> QED BY <1>5, <2>5, <2>6, <3>2, <3>3
  <2>8. a \in Int /\ b \in Int /\ b > now /\ a < b
    <3>1. da < db
      BY <1>1, <2>3, <2>5
    <3> QED BY <1>1, <2>5, <2>6, <3>1, AtIs, AtPast, AtOrder DEF today
  <2>9. \* Nothing else falls between now and b.
        ASSUME NEW s \in Int, now < s, s < b, FallsOn(z, p, s) PROVE s = a
    <3> PICK d \in Int : s = At(z, d, h) /\ d >= d0 /\ (d - d0) % i = 0
      BY <1>4, <2>9
    <3> DEFINE q == (d - d0) \div i
    <3>1. d - d0 \in Int
      BY <1>1
    <3>2. d - d0 = i * q /\ q \in Int
      BY <1>1, <3>1, Multiple, DivMod
    <3> HIDE DEF q
    <3>3. ~(d < today)
      BY <1>1, <2>9, AtPast DEF today
    <3>4. ~(db < d) /\ d # db
      BY <1>1, <2>5, <2>6, <2>8, <2>9, AtOrder
    <3>5. today - d0 <= i * q /\ i * q < i * (n + 1) /\ i * q \in Int
      BY <1>1, <2>3, <2>5, <3>2, <3>3, <3>4
    <3>6. i * n <= i * q
      BY <2>1, <2>3, <3>5 DEF e
    <3>7. q < n + 1 /\ ~(q < n)
      <4>1. n + 1 \in Int
        BY <2>2
      <4> QED BY <1>1, <2>2, <2>3, <3>2, <3>5, <3>6, <4>1, Factor
    <3>8. q = n
      BY <2>2, <3>2, <3>7
    <3>9. d = da
      BY <1>1, <2>3, <3>2, <3>8
    <3> QED BY <2>6, <3>9
  <2>10. CASE a <= now
    BY <1>2, <2>7, <2>8, <2>9, <2>10 DEF First
  <2>11. CASE a > now
    BY <1>2, <2>7, <2>8, <2>9, <2>11 DEF First
  <2> QED BY <2>8, <2>10, <2>11
<1> QED BY <1>1, <1>6, <1>7
-----------------------------------------------------------------------------
(* The calendar *)

(* The days of a year before its month k, counted from 0. *)
DaysBefore(k) ==
    IF k = 0 THEN 0 ELSE IF k = 1 THEN 31 ELSE IF k = 2 THEN 59 ELSE IF k = 3 THEN 90
    ELSE IF k = 4 THEN 120 ELSE IF k = 5 THEN 151 ELSE IF k = 6 THEN 181 ELSE IF k = 7 THEN 212
    ELSE IF k = 8 THEN 243 ELSE IF k = 9 THEN 273 ELSE IF k = 10 THEN 304
    ELSE IF k = 11 THEN 334 ELSE 365

LEMMA MonthStarts ==
    ASSUME NEW m \in Int
    PROVE  \E y \in Int : \E k \in 0..11 :
              /\ m = 12 * y + k
              /\ FirstOfMonth(m) = 365 * y + DaysBefore(k)
<1> DEFINE y == m \div 12
           k == m % 12
           c == <<0, 31, 59, 90, 120, 151, 181, 212, 243, 273, 304, 334>>
<1>1. y \in Int /\ k \in 0..11 /\ m = 12 * y + k
  OBVIOUS
<1>2. FirstOfMonth(m) = 365 * y + c[k + 1]
  BY DEF FirstOfMonth
<1>3. /\ c[1] = 0 /\ c[2] = 31 /\ c[3] = 59 /\ c[4] = 90 /\ c[5] = 120 /\ c[6] = 151
      /\ c[7] = 181 /\ c[8] = 212 /\ c[9] = 243 /\ c[10] = 273 /\ c[11] = 304 /\ c[12] = 334
  OBVIOUS
<1> HIDE DEF y, k, c
<1>4. \/ k = 0 \/ k = 1 \/ k = 2 \/ k = 3 \/ k = 4 \/ k = 5
      \/ k = 6 \/ k = 7 \/ k = 8 \/ k = 9 \/ k = 10 \/ k = 11
  BY <1>1
<1>5. c[k + 1] = DaysBefore(k)
  BY <1>3, <1>4 DEF DaysBefore
<1> QED BY <1>1, <1>2, <1>5

LEMMA MonthLength ==
    ASSUME NEW m \in Int
    PROVE  /\ FirstOfMonth(m) \in Int /\ FirstOfMonth(m + 1) \in Int
           /\ DaysInMonth(m) = FirstOfMonth(m + 1) - FirstOfMonth(m) /\ DaysInMonth(m) \in 28..31
           /\ FirstOfMonth(m + 1) <= FirstOfMonth(m) + 31
<1> DEFINE next1 == m + 1
<1>1. next1 \in Int
  OBVIOUS
<1> HIDE DEF next1
<1>2. /\ FirstOfMonth(m) \in Int /\ FirstOfMonth(next1) \in Int
  BY <1>1, MonthStarts DEF DaysBefore
<1>3. FirstOfMonth(next1) - FirstOfMonth(m) \in 28..31
  <2>1. PICK y \in Int, k \in 0..11 :
              /\ m = 12 * y + k
              /\ FirstOfMonth(m) = 365 * y + DaysBefore(k)
    BY MonthStarts
  <2>2. PICK x \in Int, j \in 0..11 :
              /\ next1 = 12 * x + j
              /\ FirstOfMonth(next1) = 365 * x + DaysBefore(j)
    BY <1>1, MonthStarts
  <2>3. IF k = 11 THEN x = y + 1 /\ j = 0 ELSE x = y /\ j = k + 1
    BY <2>1, <2>2 DEF next1
  <2> QED BY <2>1, <2>2, <2>3 DEF DaysBefore
<1>4. FirstOfMonth(next1) <= FirstOfMonth(m) + 31
  BY <1>2, <1>3
<1> QED BY <1>2, <1>3, <1>4 DEF DaysInMonth, next1

LEMMA MonthOrder ==
    ASSUME NEW m \in Int, NEW n \in Int, m <= n
    PROVE  FirstOfMonth(m) <= FirstOfMonth(n)
<1>1. PICK y \in Int, k \in 0..11 :
            /\ m = 12 * y + k
            /\ FirstOfMonth(m) = 365 * y + DaysBefore(k)
  BY MonthStarts
<1>2. PICK x \in Int, j \in 0..11 :
            /\ n = 12 * x + j
            /\ FirstOfMonth(n) = 365 * x + DaysBefore(j)
  BY MonthStarts
<1>3. y < x \/ (y = x /\ k <= j)
  BY <1>1, <1>2
<1> QED BY <1>1, <1>2, <1>3 DEF DaysBefore

(* A month after another begins no earlier than that one ends. *)
LEMMA MonthAfter ==
    ASSUME NEW m \in Int, NEW n \in Int, m < n
    PROVE  FirstOfMonth(m + 1) <= FirstOfMonth(n)
<1>1. m + 1 \in Int /\ m + 1 <= n
  OBVIOUS
<1> QED BY <1>1, MonthOrder

InMonth(day, m) == FirstOfMonth(m) <= day /\ day < FirstOfMonth(m + 1)

LEMMA OneMonth ==
    ASSUME NEW day \in Int, NEW m \in Int, NEW n \in Int, InMonth(day, m), InMonth(day, n)
    PROVE  m = n
<1>1. /\ FirstOfMonth(m) \in Int /\ FirstOfMonth(m + 1) \in Int
      /\ FirstOfMonth(n) \in Int /\ FirstOfMonth(n + 1) \in Int
  BY MonthLength
<1>2. ~(m < n)
  BY <1>1, MonthAfter DEF InMonth
<1>3. ~(n < m)
  BY <1>1, MonthAfter DEF InMonth
<1> QED BY <1>2, <1>3

LEMMA HasMonth ==
    ASSUME NEW day \in Int
    PROVE  \E m \in Int : InMonth(day, m) /\ \E y \in Int, k \in 0..11 : m = 12 * y + k /\ 365 * y <= day /\ day < 365 * y + 365
<1> DEFINE y == day \div 365
           r == day % 365
           m0 == 12 * y
<1>1. y \in Int /\ r \in 0..364 /\ day = 365 * y + r
  OBVIOUS
<1>2. \A k \in 0..12 : FirstOfMonth(m0 + k) = 365 * y + DaysBefore(k)
  <2> TAKE k \in 0..12
  <2>1. m0 + k \in Int
    BY <1>1
  <2>2. PICK x \in Int, j \in 0..11 :
            /\ m0 + k = 12 * x + j
            /\ FirstOfMonth(m0 + k) = 365 * x + DaysBefore(j)
    BY <2>1, MonthStarts
  <2> HIDE DEF y
  <2>3. IF k = 12 THEN x = y + 1 /\ j = 0 ELSE x = y /\ j = k
    BY <1>1, <2>2
  <2> HIDE DEF m0
  <2> QED BY <1>1, <2>2, <2>3 DEF DaysBefore
<1> HIDE DEF y, r
<1>3. \E k \in 0..11 : FirstOfMonth(m0 + k) <= day /\ day < FirstOfMonth(m0 + (k + 1))
  <2> HIDE DEF m0
  <2>2. PICK k \in 0..11 : DaysBefore(k) <= r /\ r < DaysBefore(k + 1)
    BY <1>1 DEF DaysBefore
  <2>3. FirstOfMonth(m0 + k) = 365 * y + DaysBefore(k) /\ FirstOfMonth(m0 + (k + 1)) = 365 * y + DaysBefore(k + 1)
    BY <1>2
  <2>4. DaysBefore(k) \in Int /\ DaysBefore(k + 1) \in Int
    BY DEF DaysBefore
  <2> QED BY <1>1, <2>2, <2>3, <2>4
<1>4. PICK k \in 0..11 : FirstOfMonth(m0 + k) <= day /\ day < FirstOfMonth(m0 + (k + 1))
  BY <1>3
<1>5. m0 + (k + 1) = (m0 + k) + 1 /\ m0 + k \in Int
  BY <1>1
<1> QED BY <1>1, <1>4, <1>5 DEF InMonth

LEMMA MonthIs ==
    ASSUME NEW day \in Int, day >= -1
    PROVE  Month(day) \in Int /\ InMonth(day, Month(day))
<1>1. PICK m \in Int : InMonth(day, m) /\ \E y \in Int, k \in 0..11 :
                                             m = 12 * y + k /\ 365 * y <= day /\ day < 365 * y + 365
  BY HasMonth
<1>2. PICK y \in Int, k \in 0..11 : m = 12 * y + k /\ 365 * y <= day /\ day < 365 * y + 365
  BY <1>1
<1>3. PICK x \in Int, j \in 0..11 :
            /\ m = 12 * x + j
            /\ FirstOfMonth(m) = 365 * x + DaysBefore(j)
  BY MonthStarts
<1>4. x = y /\ j = k
  BY <1>2, <1>3
<1>5. FirstOfMonth(m) <= day /\ day < FirstOfMonth(m) + 31
  <2>1. FirstOfMonth(m + 1) <= FirstOfMonth(m) + 31 /\ FirstOfMonth(m) \in Int /\ FirstOfMonth(m + 1) \in Int
    BY MonthLength
  <2> QED BY <1>1, <2>1 DEF InMonth
<1>6. day \div 31 <= m /\ m <= day \div 28
  BY <1>2, <1>3, <1>4, <1>5 DEF DaysBefore
<1>7. m \in (day \div 31)..(day \div 28)
  BY <1>6
<1>8. /\ Month(day) \in (day \div 31)..(day \div 28)
      /\ FirstOfMonth(Month(day)) <= day /\ day < FirstOfMonth(Month(day) + 1)
  BY <1>1, <1>7 DEF InMonth, Month
<1> QED BY <1>8 DEF InMonth

LEMMA MonthUnique ==
    ASSUME NEW day \in Int, day >= -1, NEW m \in Int, InMonth(day, m)
    PROVE  Month(day) = m
BY MonthIs, OneMonth

LEMMA Clamped ==
    ASSUME NEW m \in Int, NEW n \in 1..31
    PROVE  /\ ClampedDay(m, n) \in Int /\ InMonth(ClampedDay(m, n), m)
           /\ \A day \in Int : InMonth(day, m) =>
                 (day = ClampedDay(m, n) <=>
                    \/ day - FirstOfMonth(m) + 1 = n
                    \/ day + 1 = FirstOfMonth(m + 1) /\ DaysInMonth(m) < n)
<1> DEFINE len == DaysInMonth(m)
           least == MinOf({n, len})
<1>1. len \in 28..31 /\ FirstOfMonth(m) \in Int /\ FirstOfMonth(m + 1) = FirstOfMonth(m) + len
  BY MonthLength
<1>2. ClampedDay(m, n) = FirstOfMonth(m) + least - 1
  BY DEF ClampedDay
<1> HIDE DEF len
<1>3. least = IF n <= len THEN n ELSE len
  <2> DEFINE x == IF n <= len THEN n ELSE len
  <2>1. x \in {n, len} /\ \A w \in {n, len} : x <= w
    BY <1>1
  <2>2. least \in {n, len} /\ \A w \in {n, len} : least <= w
    BY <2>1 DEF MinOf
  <2> QED BY <1>1, <2>1, <2>2
<1> HIDE DEF least
<1> QED BY <1>1, <1>2, <1>3 DEF InMonth, len

LEMMA TodayIs ==
    ASSUME NEW z \in Zones, NEW t \in Int
    PROVE  /\ t >= 0 => Day(z, t) >= -1
           /\ t >= DayHours => Day(z, t) >= 0
<1>1. /\ DayHours \in Nat \ {0, 1} /\ Day(z, t) \in Int /\ Local(z, t) \in Int
      /\ Local(z, t) < DayHours * (Day(z, t) + 1)
      /\ Local(z, t) > t - DayHours
  BY DayAssumption, DayHour, LocalInstant DEF Local, Zones
<1> DEFINE d == Day(z, t)
<1> HIDE DEF d
<1>2. ASSUME t >= 0, d + 1 <= -1 PROVE FALSE
  <2>1. DayHours * (d + 1) <= DayHours * (-1)
    BY <1>1, <1>2 DEF d
  <2> QED BY <1>1, <1>2, <2>1 DEF d
<1>3. ASSUME t >= DayHours, d + 1 <= 0 PROVE FALSE
  <2>1. DayHours * (d + 1) <= DayHours * 0
    BY <1>1, <1>3 DEF d
  <2> QED BY <1>1, <1>3, <2>1 DEF d
<1> QED BY <1>1, <1>2, <1>3 DEF d
-----------------------------------------------------------------------------
(* Months and weeks *)

LEMMA MonthlyIsFirst ==
    ASSUME NEW z \in Zones, NEW p \in Plans, p.rec.type = "monthly", NEW now \in Int, now >= DayHours
    PROVE  First(z, p, now, Monthly(z, p, now))
<1> DEFINE i == p.rec.interval
           dom == p.rec.dayOfMonth
           d0 == Day(z, p.start)
           f == Month(d0)
           h == Hour(z, p.start)
           today == Day(z, now)
           this == Month(today)
           n == AtLeast0(this - f) \div i
           At2(m) == At(z, ClampedDay(m, dom), h)
           a == At2(f + n * i)
           b == At2(f + (n + 1) * i)
<1>1. /\ p.start \in Nat /\ i \in Nat \ {0} /\ dom \in 1..31 /\ d0 \in Int /\ d0 >= -1
      /\ today \in Int /\ today >= 0 /\ h \in Hours
  BY PlanIs, DayHour, TodayIs, DayAssumption DEF Hours
<1>2. f \in Int /\ this \in Int /\ InMonth(today, this)
  BY <1>1, MonthIs
<1>3. Monthly(z, p, now) = IF a <= now THEN b ELSE a
  BY DEF Monthly, OneOrNext
<1>4. ASSUME NEW s \in Int, now < s, FallsOn(z, p, s)
      PROVE  \E m \in Int : s = At2(m) /\ m >= f /\ (m - f) % i = 0
  <2>1. \E d \in {Day(z, s), Day(z, s) - 1} : OnDay(p, d0, d) /\ s = At(z, d, h)
    BY <1>4 DEF FallsOn
  <2>2. PICK d \in {Day(z, s), Day(z, s) - 1} : OnDay(p, d0, d) /\ s = At(z, d, h)
    BY <2>1
  <2>3. Day(z, s) \in Int /\ Day(z, s) >= today
    <3>1. Day(z, now) <= Day(z, s)
      BY <1>4, DayOrder
    <3>2. Day(z, s) \in Int
      BY DayHour
    <3> QED BY <1>1, <3>1, <3>2
  <2>4. d \in Int /\ d >= -1
    BY <1>1, <2>2, <2>3
  <2>5. Month(d) \in Int /\ InMonth(d, Month(d))
    BY <2>4, MonthIs
  <2>6. /\ Month(d) >= f /\ (Month(d) - f) % i = 0
        /\ \/ d - FirstOfMonth(Month(d)) + 1 = dom
           \/ d + 1 = FirstOfMonth(Month(d) + 1) /\ DaysInMonth(Month(d)) < dom
    BY <2>2 DEF OnDay
  <2>7. d = ClampedDay(Month(d), dom)
    <3> DEFINE m == Month(d)
    <3>1. /\ m \in Int /\ InMonth(d, m)
          /\ \/ d - FirstOfMonth(m) + 1 = dom
             \/ d + 1 = FirstOfMonth(m + 1) /\ DaysInMonth(m) < dom
      BY <2>5, <2>6
    <3> HIDE DEF m, dom
    <3>2. d = ClampedDay(m, dom)
      BY <1>1, <2>4, <3>1, Clamped
    <3> QED BY <3>2 DEF m
  <2> QED BY <2>2, <2>5, <2>6, <2>7
<1>5. ASSUME NEW m \in Int, m >= f, (m - f) % i = 0, At2(m) > now
      PROVE  FallsOn(z, p, At2(m))
  <2> DEFINE d == ClampedDay(m, dom)
  <2>1. d \in Int /\ InMonth(d, m)
    BY <1>1, Clamped
  <2>2. At2(m) \in Int /\ Day(z, At2(m)) \in {d, d + 1}
    BY <1>1, <2>1, AtIs
  <2>3. ~(d < today)
    BY <1>1, <1>5, <2>1, <2>2, AtPast
  <2>4. Month(d) = m
    BY <1>1, <2>1, <2>3, MonthUnique
  <2>5. \/ d - FirstOfMonth(m) + 1 = dom
        \/ d + 1 = FirstOfMonth(m + 1) /\ DaysInMonth(m) < dom
    BY <1>1, <2>1, Clamped
  <2> HIDE DEF d
  <2>6. OnDay(p, d0, d)
    BY <1>5, <2>4, <2>5 DEF OnDay
  <2>7. d \in {Day(z, At2(m)), Day(z, At2(m)) - 1}
    BY <2>1, <2>2
  <2>8. At2(m) = At(z, d, h)
    BY DEF d
  <2> QED BY <2>6, <2>7, <2>8 DEF FallsOn
<1>6. \A m \in Int : At2(m) \in Int /\ (m < this => At2(m) <= now) /\ (m > this => At2(m) > now)
  <2> TAKE m \in Int
  <2> DEFINE d == ClampedDay(m, dom)
  <2>1. d \in Int /\ InMonth(d, m)
    BY <1>1, Clamped
  <2>2. /\ FirstOfMonth(m) \in Int /\ FirstOfMonth(m + 1) \in Int
        /\ FirstOfMonth(this) \in Int /\ FirstOfMonth(this + 1) \in Int
    BY <1>2, MonthLength
  <2>3. (m < this => d < today) /\ (m > this => d > today)
    BY <1>1, <1>2, <2>1, <2>2, MonthAfter DEF InMonth
  <2> QED BY <1>1, <2>1, <2>3, AtIs, AtPast
<1>7. \A m, k \in Int : m < k => At2(m) < At2(k)
  <2> TAKE m, k \in Int
  <2> HAVE m < k
  <2>1. /\ ClampedDay(m, dom) \in Int /\ InMonth(ClampedDay(m, dom), m)
        /\ ClampedDay(k, dom) \in Int /\ InMonth(ClampedDay(k, dom), k)
    BY <1>1, Clamped
  <2>2. FirstOfMonth(m + 1) <= FirstOfMonth(k) /\ FirstOfMonth(m + 1) \in Int /\ FirstOfMonth(k) \in Int
    BY MonthAfter, MonthLength
  <2>3. ClampedDay(m, dom) < ClampedDay(k, dom)
    BY <2>1, <2>2 DEF InMonth
  <2> QED BY <1>1, <2>1, <2>3, AtOrder
<1> HIDE DEF i, dom, d0, f, h, today, this, At2
<1>8. CASE this < f
  <2>1. AtLeast0(this - f) = 0
    BY <1>2, <1>8 DEF AtLeast0
  <2>2. 0 \div i = 0 /\ 0 % i = 0
    BY <1>1, ZeroDiv
  <2>3. n = 0 /\ 0 % i = 0
    BY <2>1, <2>2
  <2>4. a = At2(f) /\ f - f = 0
    BY <1>1, <1>2, <2>3
  <2>5. a > now /\ a \in Int
    BY <1>2, <1>6, <1>8, <2>4
  <2>6. FallsOn(z, p, a)
    BY <1>2, <1>5, <2>3, <2>4, <2>5
  <2>7. ASSUME NEW s \in Int, now < s, s < a, FallsOn(z, p, s) PROVE FALSE
    <3> PICK m \in Int : s = At2(m) /\ m >= f
      BY <1>4, <2>7
    <3>1. m = f \/ f < m
      BY <1>2
    <3> QED BY <1>2, <1>7, <2>4, <2>5, <2>7, <3>1
  <2> QED BY <1>3, <2>5, <2>6, <2>7 DEF First
<1>9. CASE this >= f
  <2> DEFINE e == this - f
  <2>1. e \in Int /\ e >= 0 /\ AtLeast0(this - f) = e
    BY <1>2, <1>9 DEF AtLeast0
  <2>2. n \in Int /\ e = i * n + (e % i) /\ 0 <= e % i /\ e % i < i /\ e % i \in Int
    BY <1>1, <2>1, DivMod
  <2> HIDE DEF n
  <2> DEFINE ma == f + i * n
             mb == f + i * (n + 1)
  <2> HIDE DEF e
  <2>3. i * n \in Int /\ i * (n + 1) = i * n + i /\ i * n <= e /\ e < i * (n + 1) /\ i * (n + 1) \in Int
    BY <1>1, <2>1, <2>2
  <2>4. f + n * i = ma /\ f + (n + 1) * i = mb
    BY <1>1, <1>2, <2>2
  <2>5. ma \in Int /\ mb \in Int /\ ma <= this /\ this < mb
    BY <1>2, <2>1, <2>3 DEF e
  <2>6. a = At2(ma) /\ b = At2(mb)
    BY <2>4
  <2>7. (a > now => FallsOn(z, p, a)) /\ (b > now => FallsOn(z, p, b))
    <3>1. n >= 0
      BY <1>1, <2>1, <2>2, <2>3, Factor
    <3>2. ma >= f /\ mb >= f /\ ma - f = i * n /\ mb - f = i * (n + 1)
      <4>1. i * n >= n
        BY <1>1, <2>2, <3>1, Factor
      <4> QED BY <1>1, <1>2, <2>2, <2>3, <3>1, <4>1
    <3>3. (ma - f) % i = 0 /\ (mb - f) % i = 0
      <4> DEFINE m == n + 1
      <4>1. m \in Int
        BY <2>2
      <4>2. mb - f = i * m
        BY <3>2
      <4> HIDE DEF m
      <4>3. (i * n) % i = 0 /\ (i * m) % i = 0
        BY <1>1, <2>2, <4>1, Multiple
      <4> QED BY <3>2, <4>2, <4>3
    <3> QED BY <1>5, <2>5, <2>6, <3>2, <3>3
  <2>8. a \in Int /\ b \in Int /\ b > now /\ a < b
    <3>1. ma < mb
      BY <1>2, <2>5
    <3> QED BY <1>6, <1>7, <2>5, <2>6, <3>1
  <2>9. \* Nothing else falls between now and b.
        ASSUME NEW s \in Int, now < s, s < b, FallsOn(z, p, s) PROVE s = a
    <3> PICK m \in Int : s = At2(m) /\ m >= f /\ (m - f) % i = 0
      BY <1>4, <2>9
    <3> DEFINE q == (m - f) \div i
    <3>1. m - f \in Int
      BY <1>2
    <3>2. m - f = i * q /\ q \in Int
      BY <1>1, <3>1, Multiple, DivMod
    <3> HIDE DEF q
    <3>3. ~(m < this)
      BY <1>2, <1>6, <2>9
    <3>4. ~(mb < m) /\ m # mb
      BY <1>7, <2>5, <2>6, <2>8, <2>9
    <3>5. this - f <= i * q /\ i * q < i * (n + 1) /\ i * q \in Int
      BY <1>1, <1>2, <2>3, <2>5, <3>2, <3>3, <3>4
    <3>6. i * n <= i * q
      BY <2>1, <2>3, <3>5 DEF e
    <3>7. q < n + 1 /\ ~(q < n)
      <4>1. n + 1 \in Int
        BY <2>2
      <4> QED BY <1>1, <2>2, <2>3, <3>2, <3>5, <3>6, <4>1, Factor
    <3>8. q = n
      BY <2>2, <3>2, <3>7
    <3>9. m = ma
      BY <1>2, <2>3, <3>2, <3>8
    <3> QED BY <2>6, <3>9
  <2>10. CASE a <= now
    BY <1>3, <2>7, <2>8, <2>9, <2>10 DEF First
  <2>11. CASE a > now
    BY <1>3, <2>7, <2>8, <2>9, <2>11 DEF First
  <2> QED BY <2>8, <2>10, <2>11
<1> QED BY <1>2, <1>8, <1>9
-----------------------------------------------------------------------------
(* Weeks *)

LEMMA Least ==
    ASSUME NEW S, S \subseteq Nat, S # {}
    PROVE  MinOf(S) \in S /\ \A y \in S : MinOf(S) <= y
<1> DEFINE T == {0..x : x \in S}
<1>1. T \subseteq FiniteSubsetsOf(Nat) /\ T # {}
  <2>1. \A x \in S : 0..x \in FiniteSubsetsOf(Nat)
    BY FS_Interval DEF FiniteSubsetsOf
  <2> QED BY <2>1
<1>2. PICK u \in T : \A v \in T : ~(<<v, u>> \in StrictSubsetOrdering(Nat))
  BY <1>1, WFMin, FS_StrictSubsetOrderingWellFounded
<1>3. PICK x \in S : u = 0..x
  BY <1>2
<1>4. ASSUME NEW y \in S, y < x PROVE FALSE
  <2>1. 0..y \in T /\ 0..x \in T /\ 0..y \subseteq 0..x /\ x \in 0..x /\ ~(x \in 0..y)
    BY <1>4
  <2>2. 0..y \subseteq Nat /\ 0..x \subseteq Nat /\ 0..y # 0..x
    BY <2>1
  <2>3. <<0..y, 0..x>> \in StrictSubsetOrdering(Nat)
    BY <1>1, <2>1, <2>2 DEF StrictSubsetOrdering
  <2> QED BY <1>2, <1>3, <2>1, <2>3
<1>5. \A y \in S : x <= y
  BY <1>4
<1> QED BY <1>5 DEF MinOf

LEMMA WeekdayAfter ==
    ASSUME NEW w \in Int
    PROVE  /\ \A r \in 0..6 : (((w + r) % 7) - (w % 7)) % 7 = r
           /\ \A d \in 0..6 : /\ (d - (w % 7)) % 7 \in 0..6
                              /\ (w + ((d - (w % 7)) % 7)) % 7 = d
OBVIOUS

LEMMA DaysApart ==
    ASSUME NEW z \in Zones, NEW s \in Int, NEW t \in Int
    PROVE  DaysBetween(z, t, s) \in {Day(z, t) - Day(z, s), (Day(z, t) - Day(z, s)) - 1}
<1> DEFINE d == Day(z, s)
           e == Day(z, t)
           x == e - d
           c == At(z, e, 0) - At(z, d, 0)
<1>1. d \in Int /\ e \in Int /\ x \in Int /\ DayHours \in Nat \ {0, 1} /\ z.std \in Int
  BY DayHour, DayAssumption DEF Zones
<1>2. /\ At(z, e, 0) \in {e * DayHours - z.std, e * DayHours - z.std - 1}
      /\ At(z, d, 0) \in {d * DayHours - z.std, d * DayHours - z.std - 1}
  BY <1>1 DEF At, Instant
<1>3. DayHours * x = e * DayHours - d * DayHours
  BY <1>1
<1> DEFINE f == e * DayHours
           g == d * DayHours
           p == DayHours * x
<1>4. f \in Int /\ g \in Int /\ p = f - g /\ p \in Int
  BY <1>1, <1>3
<1>5. c \in {p - 1, p, p + 1}
  <2> HIDE DEF p, f, g, x
  <2> QED BY <1>1, <1>2, <1>4 DEF f, g
<1>6. DayHours * (x + 1) = p + DayHours /\ DayHours * (x - 1) = p - DayHours /\ (x - 1) + 1 = x
  BY <1>1
<1> HIDE DEF c, d, e
<1>7. CASE c = p - 1
  <2> DEFINE y == x - 1
  <2>1. y \in Int /\ DayHours * y <= c /\ c < DayHours * (y + 1) /\ c \in Int
    BY <1>1, <1>4, <1>6, <1>7
  <2> HIDE DEF y
  <2>2. c \div DayHours = y
    BY <1>1, <2>1, DivUnique
  <2> QED BY <2>2 DEF DaysBetween, c, d, e, y
<1>8. CASE c \in {p, p + 1}
  <2>1. DayHours * x <= c /\ c < DayHours * (x + 1) /\ c \in Int
    BY <1>1, <1>4, <1>6, <1>8
  <2> HIDE DEF x
  <2>2. c \div DayHours = x
    BY <1>1, <2>1, DivUnique
  <2> QED BY <2>2 DEF DaysBetween, c, d, e, x
<1> QED BY <1>5, <1>7, <1>8

LEMMA WeeklyIsFirst ==
    ASSUME NEW z \in Zones, NEW p \in Plans, p.rec.type = "weekly", NEW now \in Int, now >= DayHours
    PROVE  First(z, p, now, Weekly(z, p, now))
<1> DEFINE i == p.rec.interval
           days == p.rec.days
           first == Day(z, p.start)
           h == Hour(z, p.start)
           today == Day(z, now)
           apart == AtLeast0(DaysBetween(z, now, p.start))
           weeks == apart \div 7
           turns == weeks \div i
           k0 == AtLeast0(turns - 1)
           Window(k) == first + k * i * 7
           Of(k, d) == Window(k) + ((d - Weekday(Window(k))) % 7)
           Ahead(k) == {t \in {At(z, Of(k, d), h) : d \in days} : t > now}
           hit == CHOOSE k \in k0..(k0 + 999) : Ahead(k) # {} /\ \A y \in k0..(k - 1) : Ahead(y) = {}
<1>1. /\ p.start \in Nat /\ i \in Nat \ {0} /\ days # {} /\ days \subseteq 0..6 /\ first \in Int
      /\ today \in Int /\ h \in Hours
  BY PlanIs, DayHour, DayAssumption DEF Hours
<1>2. Weekly(z, p, now) = MinOf(Ahead(hit))
  BY DEF Weekly
<1>3. DaysBetween(z, now, p.start) \in {today - first, (today - first) - 1}
  BY <1>1, DaysApart
<1>4. ASSUME NEW s \in Int, FallsOn(z, p, s)
      PROVE  \E d \in Int : /\ s = At(z, d, h) /\ d >= first
                            /\ ((d - first) \div 7) % i = 0 /\ Weekday(d) \in days
  <2>1. \E d \in {Day(z, s), Day(z, s) - 1} : OnDay(p, first, d) /\ s = At(z, d, h)
    BY <1>4 DEF FallsOn
  <2> QED BY <2>1, DayHour DEF OnDay
<1>5. ASSUME NEW d \in Int, d >= first, ((d - first) \div 7) % i = 0, Weekday(d) \in days
      PROVE  FallsOn(z, p, At(z, d, h))
  <2>1. Day(z, At(z, d, h)) \in {d, d + 1} /\ Day(z, At(z, d, h)) \in Int
    BY <1>1, AtIs, DayHour
  <2>2. OnDay(p, first, d)
    BY <1>5 DEF OnDay
  <2>3. d \in {Day(z, At(z, d, h)), Day(z, At(z, d, h)) - 1}
    BY <2>1
  <2> QED BY <2>2, <2>3 DEF FallsOn
<1> HIDE DEF i, days, first, h, today
<1>6. /\ apart \in Int /\ apart >= 0 /\ apart >= today - first - 1
      /\ apart > 0 => apart <= today - first
  BY <1>1, <1>3 DEF AtLeast0
<1> HIDE DEF apart
<1>7. weeks \in Int /\ 7 * weeks <= apart /\ apart < 7 * weeks + 7 /\ weeks >= 0
  BY <1>6
<1> HIDE DEF weeks
<1>8. /\ turns \in Int /\ i * turns <= weeks /\ weeks < i * (turns + 1)
      /\ i * turns \in Int /\ i * (turns + 1) = i * turns + i /\ turns >= 0
  <2>1. turns \in Int /\ weeks = i * turns + (weeks % i) /\ 0 <= weeks % i /\ weeks % i < i /\ weeks % i \in Int
    BY <1>1, <1>7, DivMod
  <2> HIDE DEF turns
  <2>2. i * turns \in Int /\ i * (turns + 1) = i * turns + i
    BY <1>1, <2>1
  <2>3. weeks < i * (turns + 1) /\ i * turns <= weeks
    BY <1>1, <1>7, <2>1, <2>2
  <2>4. turns >= 0
    <3> SUFFICES ASSUME turns + 1 <= 0 PROVE FALSE
      BY <2>1
    <3>1. turns <= -1
      BY <2>1
    <3>2. i * turns <= i * (-1)
      BY <1>1, <2>1, <3>1
    <3> QED BY <1>1, <1>7, <2>2, <2>3, <3>2
  <2> QED BY <2>1, <2>2, <2>3, <2>4
<1> HIDE DEF turns
<1>9. k0 \in Nat /\ k0 <= turns /\ turns <= k0 + 1 /\ (k0 = 0 \/ k0 = turns - 1)
  BY <1>8 DEF AtLeast0
<1> HIDE DEF k0
<1>10. \A k \in Int : /\ Window(k) = first + 7 * (i * k) /\ i * k \in Int /\ Window(k) \in Int
                      /\ \A d \in days : Of(k, d) \in Int /\ Of(k, d) - Window(k) \in 0..6
  <2> TAKE k \in Int
  <2>1. Window(k) = first + 7 * (i * k) /\ i * k \in Int /\ Window(k) \in Int
    BY <1>1
  <2> HIDE DEF Window
  <2>2. \A d \in days : Of(k, d) \in Int /\ Of(k, d) - Window(k) \in 0..6
    BY <1>1, <2>1 DEF Weekday
  <2> QED BY <2>1, <2>2
<1> HIDE DEF Window, Of
<1>11. \* A window before the search begins is past.
       ASSUME NEW k \in Nat, k < k0 PROVE Ahead(k) = {}
  <2>1. k + 1 <= turns - 1 /\ k + 2 <= turns /\ k0 = turns - 1
    BY <1>8, <1>9, <1>11
  <2>2. i * (k + 2) <= i * turns
    BY <1>1, <1>8, <2>1
  <2>3. i * (k + 2) = i * k + i + i
    BY <1>1
  <2> DEFINE e == i * k
  <2>4. e \in Int /\ Window(k) = first + 7 * e /\ e >= 0
    BY <1>1, <1>10, Factor
  <2> DEFINE l == i * (k + 2)
             m == i * turns
  <2>8. l = e + i + i /\ l <= m /\ m <= weeks /\ m \in Int
    BY <1>8, <2>2, <2>3
  <2> HIDE DEF e, l, m
  <2>5. weeks > 0 /\ 7 * e + 14 <= today - first
    <3>1. e + 2 <= weeks
      BY <1>1, <1>7, <2>4, <2>8
    <3> QED BY <1>1, <1>6, <1>7, <2>4, <3>1
  <2>6. \A d \in days : Of(k, d) < today
    <3> TAKE d \in days
    <3>1. Of(k, d) \in Int /\ Of(k, d) - Window(k) \in 0..6
      BY <1>10
    <3> QED BY <1>1, <2>4, <2>5, <3>1
  <2>7. \A d \in days : ~(At(z, Of(k, d), h) > now)
    <3> TAKE d \in days
    <3> DEFINE o == Of(k, d)
    <3>1. o \in Int /\ o < today
      BY <1>10, <2>6
    <3> HIDE DEF o
    <3>2. At(z, o, h) <= now /\ At(z, o, h) \in Int
      BY <1>1, <3>1, AtPast, AtIs DEF today
    <3> QED BY <3>2 DEF o
  <2> QED BY <2>7
<1>12. \* The search ends: one of the first four windows it tries is ahead.
       \E k \in k0..(k0 + 999) : Ahead(k) # {}
  <2> DEFINE k == turns + 2
  <2>1. k \in Int /\ k \in k0..(k0 + 999)
    BY <1>8, <1>9
  <2>2. i * k = i * turns + i + i
    BY <1>1, <1>8
  <2>3. 7 * (i * k) >= 7 * weeks + 8
    BY <1>1, <1>7, <1>8, <2>2
  <2>4. 7 * (i * k) > today - first
    BY <1>1, <1>6, <1>7, <1>10, <2>1, <2>3
  <2> PICK d \in days : TRUE
    BY <1>1
  <2> DEFINE o == Of(k, d)
  <2>5. o \in Int /\ o > today
    <3>1. /\ Of(k, d) \in Int /\ Of(k, d) - Window(k) \in 0..6
          /\ Window(k) = first + 7 * (i * k) /\ i * k \in Int
      BY <1>10, <2>1
    <3> QED BY <1>1, <2>4, <3>1
  <2> HIDE DEF o
  <2>6. At(z, o, h) > now
    BY <1>1, <2>5, AtPast DEF today
  <2>7. At(z, o, h) \in Ahead(k)
    BY <2>6 DEF o
  <2> QED BY <2>1, <2>7
<1>13. \A k \in Nat : Ahead(k) \subseteq Nat
  <2> SUFFICES ASSUME NEW k \in Nat, NEW d \in days, At(z, Of(k, d), h) > now
               PROVE  At(z, Of(k, d), h) \in Nat
    OBVIOUS
  <2> DEFINE o == Of(k, d)
  <2>1. o \in Int
    BY <1>10
  <2> HIDE DEF o
  <2>2. At(z, o, h) \in Int
    BY <1>1, <2>1, AtIs
  <2> QED BY <2>2, DayAssumption DEF o
<1>14. \* What falls ahead is in a window.
       ASSUME NEW s \in Int, now < s, FallsOn(z, p, s) PROVE \E k \in Nat : s \in Ahead(k)
  <2>1. PICK d \in Int : /\ s = At(z, d, h) /\ d >= first
                         /\ ((d - first) \div 7) % i = 0 /\ Weekday(d) \in days
    BY <1>4, <1>14
  <2> DEFINE e == (d - first) \div 7
             r == (d - first) % 7
             k == e \div i
  <2>2. e \in Int /\ r \in 0..6 /\ d - first = 7 * e + r /\ e >= 0 /\ e % i = 0
    BY <1>1, <2>1
  <2> HIDE DEF e, r
  <2>3. e = i * k /\ k \in Int
    BY <1>1, <2>2, Multiple, DivMod
  <2> HIDE DEF k
  <2>4. k >= 0
    <3> SUFFICES ASSUME k + 1 <= 0 PROVE FALSE
      BY <2>3
    <3>1. i * (k + 1) <= i * 0 /\ i * (k + 1) = i * k + i
      BY <1>1, <2>3
    <3> QED BY <1>1, <2>2, <2>3, <3>1
  <2> DEFINE w == Window(k)
  <2>5. w \in Int /\ d = w + r
    <3>1. w = first + 7 * e /\ w \in Int
      BY <1>10, <2>3
    <3> QED BY <1>1, <2>2, <3>1
  <2> HIDE DEF w
  <2>6. w + ((Weekday(d) - Weekday(w)) % 7) = d
    BY <2>2, <2>5, WeekdayAfter DEF Weekday
  <2>7. Of(k, Weekday(d)) = d
    BY <2>6 DEF w, Of
  <2>8. s = At(z, Of(k, Weekday(d)), h) /\ Weekday(d) \in days
    BY <2>1, <2>7
  <2>9. s \in Ahead(k)
    BY <1>14, <2>8
  <2> QED BY <2>3, <2>4, <2>9
<1>15. \* What is in a window falls.
       ASSUME NEW k \in Nat, NEW s \in Ahead(k) PROVE FallsOn(z, p, s) /\ s \in Nat /\ s > now
  <2>1. PICK d \in days : s = At(z, Of(k, d), h)
    BY <1>15
  <2> DEFINE w == Window(k)
             o == Of(k, d)
             r == (d - Weekday(w)) % 7
             e == i * k
  <2>2. w = first + 7 * e /\ e \in Int /\ w \in Int /\ o = w + r
    BY <1>10 DEF Of
  <2>3. e >= 0
    BY <1>1, Factor
  <2>4. e % i = 0
    BY <1>1, Multiple
  <2> HIDE DEF w, o, e
  <2>5. r \in 0..6 /\ Weekday(w + r) = d
    BY <1>1, <2>2, WeekdayAfter DEF Weekday
  <2> HIDE DEF r
  <2>6. o \in Int /\ o >= first /\ (o - first) \div 7 = e /\ Weekday(o) = d
    BY <1>1, <2>2, <2>3, <2>5
  <2>7. FallsOn(z, p, At(z, o, h))
    BY <1>5, <2>4, <2>6
  <2> QED BY <1>13, <1>15, <2>1, <2>7 DEF o
<1>16. \* Windows follow one another.
       ASSUME NEW k \in Nat, NEW j \in Nat, k < j, NEW s \in Ahead(k), NEW t \in Ahead(j) PROVE s < t
  <2>1. PICK d \in days : s = At(z, Of(k, d), h)
    BY <1>16
  <2>2. PICK e \in days : t = At(z, Of(j, e), h)
    BY <1>16
  <2> DEFINE o == Of(k, d)
             q == Of(j, e)
  <2>3. i * (k + 1) <= i * j /\ i * (k + 1) = i * k + i
    BY <1>1, <1>16
  <2>4. o \in Int /\ q \in Int /\ o < q
    <3>1. /\ Of(k, d) \in Int /\ Of(k, d) - Window(k) \in 0..6 /\ Window(k) \in Int
          /\ Window(k) = first + 7 * (i * k) /\ i * k \in Int
      BY <1>10
    <3>2. /\ Of(j, e) \in Int /\ Of(j, e) - Window(j) \in 0..6 /\ Window(j) \in Int
          /\ Window(j) = first + 7 * (i * j) /\ i * j \in Int
      BY <1>10
    <3> QED BY <1>1, <2>3, <3>1, <3>2
  <2> HIDE DEF o, q
  <2>5. At(z, o, h) < At(z, q, h)
    BY <1>1, <2>4, AtOrder
  <2> QED BY <2>1, <2>2, <2>5 DEF o, q
<1> HIDE DEF Ahead
<1>17. /\ hit \in k0..(k0 + 999) /\ Ahead(hit) # {}
       /\ \A y \in k0..(hit - 1) : Ahead(y) = {}
  <2> DEFINE S == {k \in k0..(k0 + 999) : Ahead(k) # {}}
             k == MinOf(S)
  <2>1. S \subseteq Nat /\ S # {}
    BY <1>9, <1>12
  <2>2. k \in S /\ \A y \in S : k <= y
    <3> HIDE DEF S
    <3> QED BY <2>1, Least
  <2>3. k \in k0..(k0 + 999) /\ Ahead(k) # {}
    BY <2>2
  <2>4. ASSUME NEW y \in k0..(k - 1), Ahead(y) # {} PROVE FALSE
    <3> HIDE DEF k
    <3>1. y \in S
      BY <1>9, <2>3, <2>4
    <3> QED BY <1>9, <2>2, <2>3, <3>1
  <2> HIDE DEF k, S
  <2> QED BY <2>3, <2>4
<1> HIDE DEF hit
<1> DEFINE m == MinOf(Ahead(hit))
<1>18. hit \in Nat /\ m \in Ahead(hit) /\ \A s \in Ahead(hit) : m <= s
  BY <1>9, <1>13, <1>17, Least
<1> HIDE DEF m
<1>19. FallsOn(z, p, m) /\ m \in Nat /\ m > now
  BY <1>15, <1>18
<1>20. ASSUME NEW s \in Int, now < s, s < m, FallsOn(z, p, s) PROVE FALSE
  <2>1. PICK k \in Nat : s \in Ahead(k)
    BY <1>14, <1>20
  <2>2. ~(k < k0)
    BY <1>11, <2>1
  <2>3. ~(k < hit)
    BY <1>9, <1>17, <1>18, <2>1, <2>2
  <2>4. ~(hit < k)
    BY <1>16, <1>18, <1>19, <1>20, <2>1
  <2>5. k = hit
    BY <1>18, <2>3, <2>4
  <2> QED BY <1>18, <1>19, <1>20, <2>1, <2>5
<1> QED BY <1>2, <1>19, <1>20 DEF First, m
-----------------------------------------------------------------------------
(* The next run *)

(* The occurrence found is the first one ahead; only a one-off runs out. *)
LEMMA OccurrenceIsFirst ==
    ASSUME NEW z \in Zones, NEW p \in Plans, NEW now \in Int, now >= DayHours,
           p.rec.type = "daily" => ~z.dst
    PROVE  \/ Occurrence(z, p, now) \in Int /\ First(z, p, now, Occurrence(z, p, now))
           \/ /\ Occurrence(z, p, now) = Null
              /\ \A s \in Int : now < s => ~FallsOn(z, p, s)
<1> DEFINE o == Occurrence(z, p, now)
<1>1. p.rec.type \in {"once", "hourly", "daily", "weekly", "monthly"}
  BY PlanIs
<1>2. CASE p.rec.type = "once"
  <2>1. o = Once(p, now)
    BY <1>2 DEF Occurrence
  <2> QED BY <1>2, <2>1, OnceIsFirst, PlanIs DEF First
<1>3. CASE p.rec.type = "hourly"
  <2>1. o = Hourly(p, now)
    BY <1>3 DEF Occurrence
  <2> QED BY <1>3, <2>1, HourlyIsFirst DEF First
<1>4. CASE p.rec.type = "daily"
  <2>1. o = Daily(z, p, now)
    BY <1>4 DEF Occurrence
  <2> QED BY <1>4, <2>1, DailyIsFirst DEF First
<1>5. CASE p.rec.type = "weekly"
  <2>1. o = Weekly(z, p, now)
    BY <1>5 DEF Occurrence
  <2> QED BY <1>5, <2>1, WeeklyIsFirst DEF First
<1>6. CASE p.rec.type = "monthly"
  <2>1. o = Monthly(z, p, now)
    BY <1>6 DEF Occurrence
  <2> QED BY <1>6, <2>1, MonthlyIsFirst DEF First
<1> QED BY <1>1, <1>2, <1>3, <1>4, <1>5, <1>6

(* East of UTC and on it, the last day is the end date. *)
LEMMA LastDayIsEnd ==
    ASSUME NEW z \in Zones, NEW p \in Plans, p.end # Null, z.std >= 0
    PROVE  LastDay(z, p) = p.end /\ p.end \in Nat
<1> DEFINE e == p.end
           t == e * DayHours
<1>1. e \in Nat /\ DayHours \in Nat \ {0, 1} /\ t \in Int
  BY PlanIs, DayAssumption
<1>2. Local(z, t) \in {t + z.std, t + z.std + 1} /\ z.std \in Int /\ z.std < DayHours - 1
  <2> HIDE DEF t
  <2>1. z.std \in Int /\ z.std < DayHours - 1
    BY DEF Zones
  <2>2. Local(z, t) = t + z.std \/ Local(z, t) = t + z.std + 1
    BY <1>1, <2>1 DEF Local
  <2> QED BY <2>1, <2>2
<1>3. DayHours * e <= Local(z, t) /\ Local(z, t) < DayHours * (e + 1)
  BY <1>1, <1>2
<1> HIDE DEF t
<1>4. Day(z, t) = e
  BY <1>1, <1>3, DayIs
<1> QED BY <1>1, <1>4 DEF LastDay, t

LEMMA NextRunIsFirst ==
    ASSUME NEW z \in Zones, NEW p \in Plans, NEW now \in Int, now >= DayHours,
           p.rec.type = "daily" => ~z.dst, p.end # Null => z.std >= 0
    PROVE  LET n == ComputeNextRun(z, p, now)
           IN  /\ n # Null => n \in Int /\ n > now /\ Occurs(z, p, n)
               /\ \A t \in Int : now < t /\ (n # Null => t < n) => ~Occurs(z, p, t)
<1> DEFINE n == ComputeNextRun(z, p, now)
           o == Occurrence(z, p, now)
<1>1. n = IF o # Null /\ p.end # Null /\ Day(z, o) > LastDay(z, p) THEN Null ELSE o
  BY DEF ComputeNextRun
<1>2. \/ o \in Int /\ First(z, p, now, o)
      \/ o = Null /\ \A s \in Int : now < s => ~FallsOn(z, p, s)
  BY OccurrenceIsFirst
<1>3. p.end # Null => LastDay(z, p) = p.end /\ p.end \in Nat
  BY LastDayIsEnd
<1> HIDE DEF n, o
<1>4. CASE n # Null
  <2>1. n = o /\ o \in Int /\ First(z, p, now, o) /\ (p.end # Null => ~(Day(z, o) > LastDay(z, p)))
    BY <1>1, <1>2, <1>4
  <2>2. Day(z, o) \in Int
    BY <2>1, DayHour
  <2>3. n \in Int /\ n > now /\ Occurs(z, p, n)
    BY <1>3, <2>1, <2>2 DEF First, Occurs
  <2>4. \A t \in Int : now < t /\ t < n => ~Occurs(z, p, t)
    BY <2>1 DEF First, Occurs
  <2> QED BY <1>4, <2>3, <2>4 DEF n
<1>5. CASE n = Null /\ o = Null
  <2>1. \A t \in Int : now < t => ~Occurs(z, p, t)
    BY <1>2, <1>5, ShapeAssumption DEF Occurs
  <2> QED BY <1>5, <2>1 DEF n
<1>6. CASE n = Null /\ o # Null
  <2>1. o \in Int /\ First(z, p, now, o) /\ p.end # Null /\ Day(z, o) > p.end /\ p.end \in Nat
    BY <1>1, <1>2, <1>3, <1>6
  <2>2. ASSUME NEW t \in Int, now < t PROVE ~Occurs(z, p, t)
    <3>1. CASE t < o
      BY <2>1, <2>2, <3>1 DEF First, Occurs
    <3>2. CASE o <= t
      <4>1. Day(z, o) <= Day(z, t) /\ Day(z, o) \in Int /\ Day(z, t) \in Int
        BY <2>1, <3>2, DayOrder, DayHour
      <4> QED BY <2>1, <4>1 DEF Occurs
    <3> QED BY <2>1, <3>1, <3>2
  <2> QED BY <1>6, <2>2 DEF n
<1> QED BY <1>4, <1>5, <1>6

(* The plan of ScheduleClaim that a recurrence stands for. *)
Occurrences(z, p) == {t \in Nat : Occurs(z, p, t)}

(* ScheduleClaim takes a schedule for the set of its occurrences, and its     *)
(* computeNextRun for the first of them after now. That is what               *)
(* computeNextRun answers from the recurrence, the same null included, for   *)
(* every recurrence NextIsFirst is about.                                     *)
THEOREM PlansAreOccurrences ==
    ASSUME NEW z \in Zone, NEW p \in Plans, NEW now \in Int, now >= DayHours,
           p.rec.type = "daily" => ~z.dst, p.end # Null => z.std >= 0
    PROVE  LET t == NextOccurrence(Occurrences(z, p), now)
           IN  ComputeNextRun(z, p, now) = IF t = Never THEN Null ELSE t
<1> DEFINE n == ComputeNextRun(z, p, now)
           s == Later(Occurrences(z, p), now)
<1>1. z \in Zones
  BY ZoneAssumption DEF Zones
<1>2. /\ n # Null => n \in Int /\ n > now /\ Occurs(z, p, n)
      /\ \A t \in Int : now < t /\ (n # Null => t < n) => ~Occurs(z, p, t)
  BY <1>1, NextRunIsFirst
<1>3. \A t : t \in s <=> t \in Nat /\ Occurs(z, p, t) /\ t > now
  BY DEF Later, Occurrences
<1>4. NextOccurrence(Occurrences(z, p), now) = IF s = {} THEN Never ELSE Earliest(s)
  BY DEF NextOccurrence
<1> HIDE DEF n, s
<1>5. CASE n = Null
  <2>1. s = {}
    BY <1>2, <1>3, <1>5
  <2> QED BY <1>4, <1>5, <2>1 DEF n
<1>6. CASE n # Null
  <2>1. n \in s /\ n \in Int /\ \A t \in s : t \in Int /\ n <= t
    BY <1>2, <1>3, <1>6, DayAssumption
  <2>2. Earliest(s) = n
    <3> DEFINE e == Earliest(s)
    <3>1. e \in s /\ \A u \in s : e <= u
      BY <2>1 DEF Earliest
    <3> HIDE DEF e
    <3>2. e \in Int /\ n <= e /\ e <= n
      BY <2>1, <3>1
    <3>3. e = n
      BY <2>1, <3>2
    <3> QED BY <3>3 DEF e
  <2>3. n # Never
    BY <2>1, NeverAssumption
  <2> QED BY <1>4, <2>1, <2>2, <2>3 DEF n
<1> QED BY <1>5, <1>6

-----------------------------------------------------------------------------
(* The specification *)

(* `next` is what computeNextRun answers for `from`. *)
Asked ==
    /\ zone \in Zone /\ schedule \in Plans
    /\ asOf \in Int /\ asOf >= DayHours
    /\ answer = ComputeNextRun(zone, schedule, asOf)

LEMMA AlwaysAsked == AskSpec => []Asked
<1>1. AskFirst => Asked
  BY DayAssumption DEF AskFirst, Asked
<1>2. Asked /\ [Ask]_askVars => Asked'
  <2> SUFFICES ASSUME Asked, [Ask]_askVars PROVE Asked'
    OBVIOUS
  <2>1. CASE Ask
    BY <2>1, DayAssumption DEF Asked, Ask
  <2>2. CASE UNCHANGED askVars
    BY <2>2 DEF Asked, askVars
  <2> QED BY <2>1, <2>2
<1> QED BY <1>1, <1>2, PTL DEF AskSpec

LEMMA AskedIsFirst == Asked => NextIsFirst
<1> DEFINE last == IF answer # Null THEN answer - 1
                   ELSE IF schedule.end = Null THEN schedule.start
                   ELSE (LastDay(zone, schedule) + 1) * DayHours
<1> SUFFICES ASSUME Asked, schedule.rec.type = "daily" => ~zone.dst, schedule.end # Null => zone.std >= 0
             PROVE  /\ answer # Null => answer > asOf /\ Occurs(zone, schedule, answer)
                    /\ \A t \in (asOf + 1)..last : ~Occurs(zone, schedule, t)
  BY DEF NextIsFirst
<1>1. zone \in Zones /\ schedule \in Plans /\ asOf \in Int
  BY ZoneAssumption DEF Asked, Zones
<1>2. /\ answer # Null => answer \in Int /\ answer > asOf /\ Occurs(zone, schedule, answer)
      /\ \A t \in Int : asOf < t /\ (answer # Null => t < answer) => ~Occurs(zone, schedule, t)
  BY <1>1, NextRunIsFirst DEF Asked
<1>3. last \in Int /\ (answer # Null => last < answer)
  BY <1>1, <1>2, PlanIs, LastDayIsEnd, DayAssumption
<1>4. \A t \in (asOf + 1)..last : t \in Int /\ asOf < t /\ (answer # Null => t < answer)
  <2> HIDE DEF last
  <2> QED BY <1>1, <1>2, <1>3
<1> QED BY <1>2, <1>4

(* For every start, interval, set of weekdays and day of the month, in every *)
(* time zone and at whatever hour it is asked, computeNextRun answers with   *)
(* the first occurrence after now, and with null only when none is left: a   *)
(* daily recurrence in a zone without summer time, an end date in a zone not *)
(* west of UTC, everything else in any.                                      *)
THEOREM NextRunsAreFirst == AskSpec => []NextIsFirst
<1>1. Asked => NextIsFirst
  BY AskedIsFirst
<1> QED BY <1>1, AlwaysAsked, PTL
=============================================================================
