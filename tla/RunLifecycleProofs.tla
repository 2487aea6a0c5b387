------------------------- MODULE RunLifecycleProofs -------------------------
(* Proofs about RunLifecycle, for any containers, runs and time bounds. *)
EXTENDS RunLifecycle, FiniteSetTheorems, TLAPS

---------------------------------------------------------------------------
(* Type correctness.  A container that is executing has a run: TypeOK alone *)
(* is not inductive, because executeTarget's writes go to that run's row.   *)

HasRun == \A p \in Proc : Executing(p) => main[p].run \in Run

TInv == TypeOK /\ HasRun

LEMMA AtType == \A pc \in MainPc : At(pc) \in Main
  BY TimeAssumption DEF At, Main, MainPc

LEMMA NoDispatchType == NoDispatch \in Dispatch
  BY TimeAssumption DEF NoDispatch, Dispatch, ClaimCap

LEMMA NoRowType == NoRow \in Row
  BY TimeAssumption DEF NoRow, Row, RowStatus, BeatCap, ClaimCap

\* Ageing never leaves the range it saturates in.
LEMMA OlderType ==
  ASSUME NEW cap \in Nat, NEW age \in 0..cap
  PROVE  Older(age, cap) \in 0..cap
  BY DEF Older

\* An UPDATE by id leaves a table of rows.
LEMMA WriteType ==
  ASSUME TypeOK, NEW r \in Run, NEW row \in Row, Write(r, row)
  PROVE  rows' \in [Run -> Row]
  BY DEF TypeOK, Write

\* finishRun keeps the types of the tables it writes.
LEMMA FinishRunType ==
  ASSUME TypeOK, NEW r \in Run, NEW status \in RowStatus, NEW fp \in SUBSET Category,
         NEW notify \in {"none", "pending"}, FinishRun(r, status, fp, notify)
  PROVE  rows' \in [Run -> Row] /\ task' \in [Task -> Dispatch]
<1>1. [rows[r] EXCEPT !.status = status, !.fp = fp, !.notify = notify,
                      !.beat = 0, !.claim = 0] \in Row
  <2>1. rows[r] \in Row
    BY DEF TypeOK
  <2>2. 0 \in 0..BeatCap /\ 0 \in 0..ClaimCap
    BY TimeAssumption DEF BeatCap, ClaimCap
  <2>3. \A row \in Row : [row EXCEPT !.status = status, !.fp = fp, !.notify = notify,
                                    !.beat = 0, !.claim = 0] \in Row
    BY <2>2 DEF Row
  <2> QED BY <2>1, <2>3
<1>2. rows' \in [Run -> Row]
  BY <1>1, WriteType DEF FinishRun
<1>3. task' \in [Task -> Dispatch]
  <2>1. \A t \in Task : [task[t] EXCEPT !.own = FALSE] \in Dispatch
    BY DEF TypeOK, Dispatch
  <2> QED BY <2>1 DEF FinishRun, TypeOK
<1> QED BY <1>2, <1>3

\* How many rows there ever were is a number.
LEMMA BornType == Cardinality({y \in Run : rows[y].status # "none"}) \in Nat
<1>1. IsFiniteSet({y \in Run : rows[y].status # "none"})
  BY RunAssumption, FS_Subset
<1> QED BY <1>1, FS_CardinalityType

\* A container moved to another point of its program keeps the invariant
\* if what it carries there is typed and, when executing, has a run.
LEMMA MoveType ==
  ASSUME TInv, NEW p \in Proc, NEW m \in Main, main' = [main EXCEPT ![p] = m],
         m.pc \in {"scan", "synced", "write", "announce", "catch"} => m.run \in Run
  PROVE  main' \in [Proc -> Main] /\ HasRun'
  BY DEF TInv, TypeOK, HasRun, Executing

LEMMA StayType ==
  ASSUME TInv, main' = main
  PROVE  main' \in [Proc -> Main] /\ HasRun'
  BY DEF TInv, TypeOK, HasRun, Executing

LEMMA TypeInit == Init => TInv
  BY AtType, NoDispatchType, NoRowType, BoundAssumption
  DEF Init, TInv, TypeOK, MainPc, HasRun, Executing, At

LEMMA InsertedType ==
  ASSUME TInv, NEW r \in Run, NEW trig \in {"manual", "schedule"}, NEW gone \in SUBSET Run,
         Inserted(r, trig, gone)
  PROVE  rows' \in [Run -> Row]
<1> DEFINE born == Cardinality({y \in Run : rows[y].status # "none"}) + 1
           new == [NoRow EXCEPT !.status = "running", !.trig = trig, !.born = born]
           pruned == [NoRow EXCEPT !.status = "pruned"]
<1>1. born \in Nat
  BY BornType
<1> HIDE DEF born
<1>2. new \in Row /\ pruned \in Row
  BY <1>1, NoRowType DEF Row, RowStatus, NoRow
<1>3. \A x \in Run : rows'[x] \in {new, pruned, rows[x]}
  BY DEF Inserted, born
<1>4. rows' = [x \in Run |-> rows'[x]]
  BY DEF Inserted
<1> HIDE DEF new, pruned
<1> QED BY <1>2, <1>3, <1>4 DEF TInv, TypeOK

\* What an insert does to each row.
LEMMA InsertedRows ==
  ASSUME NEW r \in Run, NEW trig, NEW gone, Inserted(r, trig, gone)
  PROVE  /\ rows'[r].status = "running" /\ rows'[r].beat = 0
         /\ \A x \in Run : x # r =>
               \/ rows'[x] = rows[x]
               \/ rows'[x].status = "pruned" /\ rows'[x].notify = "none"
<1>1. rows'[r].status = "running" /\ rows'[r].beat = 0
  BY DEF Inserted, NoRow
<1>2. ASSUME NEW x \in Run, x # r
      PROVE  \/ rows'[x] = rows[x]
             \/ rows'[x].status = "pruned" /\ rows'[x].notify = "none"
  <2>1. rows'[x] = IF x \in gone THEN [NoRow EXCEPT !.status = "pruned"] ELSE rows[x]
    BY <1>2 DEF Inserted
  <2>2. LET row == [NoRow EXCEPT !.status = "pruned"] IN
          row.status = "pruned" /\ row.notify = "none"
    BY DEF NoRow
  <2> QED BY <2>1, <2>2
<1> QED BY <1>1, <1>2

LEMMA StartRunType ==
  ASSUME TInv, NEW p \in Proc, NEW r \in Run, NEW trig \in {"manual", "schedule"},
         NEW cats \in SUBSET Category, StartRun(p, r, trig, cats)
  PROVE  TInv'
<1> DEFINE m == [At("scan") EXCEPT !.run = r, !.todo = cats]
<1>1. rows' \in [Run -> Row]
  BY InsertedType DEF StartRun
<1>2. m \in Main /\ m.run \in Run
  <2>1. At("scan") \in Main
    BY AtType DEF MainPc
  <2> QED BY <2>1 DEF Main
<1>3. main' = [main EXCEPT ![p] = m]
  BY DEF StartRun
<1> HIDE DEF m
<1>4. main' \in [Proc -> Main] /\ HasRun'
  BY <1>2, <1>3, MoveType
<1> QED BY <1>1, <1>4 DEF StartRun, TInv, TypeOK

LEMMA ScanType ==
  ASSUME TInv, NEW p \in Proc, Scan(p)
  PROVE  TInv'
<1> DEFINE r == main[p].run
<1>1. main[p] \in Main
  BY DEF TInv, TypeOK
<1>2. Executing(p) => r \in Run /\ rows[r] \in Row
  BY DEF TInv, TypeOK, HasRun
<1>3. CASE ContextFails(p)
  <2>1. [main[p] EXCEPT !.pc = "catch"] \in Main
    BY <1>1 DEF Main, MainPc
  <2> QED BY <1>1, <1>2, <1>3, <2>1, MoveType DEF ContextFails, TInv, TypeOK, Executing, Main
<1>4. ASSUME NEW c \in Category, CategoryFails(p, c) PROVE TInv'
  <2> DEFINE m == [main[p] EXCEPT !.todo = @ \ {c}, !.seen = @ \cup {"failed"}]
  <2>1. m \in Main /\ m.run = r
    BY <1>1 DEF Main, MainPc
  <2>2. main' = [main EXCEPT ![p] = m] /\ r \in Run
    BY <1>2, <1>4 DEF CategoryFails, Executing
  <2> HIDE DEF m
  <2>3. main' \in [Proc -> Main] /\ HasRun'
    BY <2>1, <2>2, MoveType
  <2> QED BY <1>4, <2>3 DEF CategoryFails, TInv, TypeOK
<1>5. ASSUME NEW c \in Category, CategorySynced(p, c) PROVE TInv'
  <2>1. r \in Run
    BY <1>2, <1>5 DEF CategorySynced, Executing
  <2>2. PICK new \in {{}, {c}} :
          /\ main' = [main EXCEPT ![p].pc = "synced", ![p].todo = @ \ {c}, ![p].batch = new]
          /\ durable' = durable \cup ({r} \X new)
    BY <1>5 DEF CategorySynced
  <2> DEFINE m == [main[p] EXCEPT !.pc = "synced", !.todo = @ \ {c}, !.batch = new]
  <2>3. m \in Main /\ m.run = r /\ main' = [main EXCEPT ![p] = m]
    BY <1>1, <2>2 DEF Main, MainPc
  <2> HIDE DEF m
  <2>4. main' \in [Proc -> Main] /\ HasRun'
    BY <2>1, <2>3, MoveType
  <2>5. durable' \subseteq Run \X Category
    BY <2>1, <2>2 DEF TInv, TypeOK
  <2> QED BY <1>5, <2>4, <2>5 DEF CategorySynced, TInv, TypeOK
<1>6. CASE ProgressRead(p)
  <2>1. r \in Run /\ rows[r].fp \subseteq Category
    BY <1>2, <1>6 DEF ProgressRead, Executing, Row
  <2>2. PICK coverage \in {{}, {"partial"}} :
          main' = [main EXCEPT ![p].pc = "write", ![p].found = @ \cup main[p].batch,
                               ![p].base = rows[r].fp, ![p].seen = @ \cup coverage]
    BY <1>6 DEF ProgressRead
  <2> DEFINE m == [main[p] EXCEPT !.pc = "write", !.found = @ \cup main[p].batch,
                                  !.base = rows[r].fp, !.seen = @ \cup coverage]
  <2>3. m \in Main /\ m.run = r /\ main' = [main EXCEPT ![p] = m]
    BY <1>1, <2>1, <2>2 DEF Main, MainPc
  <2> HIDE DEF m
  <2>4. main' \in [Proc -> Main] /\ HasRun'
    BY <2>1, <2>3, MoveType
  <2> QED BY <1>6, <2>4 DEF ProgressRead, TInv, TypeOK
<1>7. CASE ProgressWrite(p)
  <2> DEFINE fp == main[p].base \cup main[p].batch
  <2>1. r \in Run /\ rows[r] \in Row
    BY <1>2, <1>7 DEF ProgressWrite, Executing
  <2>2. [rows[r] EXCEPT !.fp = fp] \in Row
    BY <1>1, <2>1 DEF Row, Main
  <2>3. rows' \in [Run -> Row]
    BY <1>7, <2>1, <2>2, WriteType DEF ProgressWrite, TInv
  <2> DEFINE m == [main[p] EXCEPT !.pc = "scan", !.batch = {}, !.base = {},
                                  !.seen = @ \cup {"ok"}]
  <2>4. m \in Main /\ m.run = r /\ main' = [main EXCEPT ![p] = m]
    BY <1>1, <1>7 DEF ProgressWrite, Main, MainPc
  <2> HIDE DEF m
  <2>5. main' \in [Proc -> Main] /\ HasRun'
    BY <2>1, <2>4, MoveType
  <2>6. recorded' \subseteq Run \X Category
    BY <1>1, <1>7, <2>1 DEF ProgressWrite, TInv, TypeOK, Main
  <2> QED BY <1>7, <2>3, <2>5, <2>6 DEF ProgressWrite, TInv, TypeOK
<1>8. CASE FinishScan(p)
  <2> DEFINE f == main[p].found
  <2>1. r \in Run /\ f \in SUBSET Category
    BY <1>1, <1>2, <1>8 DEF FinishScan, Executing, Main
  <2>2. RunStatus(main[p].seen) \in RowStatus
    BY DEF RunStatus, RowStatus
  <2>3. PICK notify \in {"none", "pending"} : FinishRun(r, RunStatus(main[p].seen), f, notify)
    BY <1>8 DEF FinishScan
  <2>4. rows' \in [Run -> Row] /\ task' \in [Task -> Dispatch]
    BY <2>1, <2>2, <2>3, FinishRunType DEF TInv
  <2>5. [At("announce") EXCEPT !.run = r, !.found = f] \in Main /\ At("idle") \in Main
    BY <2>1, AtType DEF Main, MainPc, At
  <2>6. main' \in [Proc -> Main] /\ HasRun'
    BY <1>8, <2>1, <2>5, MoveType DEF FinishScan, At
  <2> QED BY <1>8, <2>4, <2>6 DEF FinishScan, TInv, TypeOK
<1>9. CASE Announce(p)
  <2>1. [NoDispatch EXCEPT !.pc = "claim", !.what = main[p].found] \in Dispatch
    BY <1>1, NoDispatchType DEF Dispatch, NoDispatch, Main
  <2>2. main' \in [Proc -> Main] /\ HasRun'
    BY <1>9, AtType, MoveType DEF Announce, MainPc, At
  <2> QED BY <1>9, <2>1, <2>2 DEF Announce, TInv, TypeOK
<1>10. CASE CatchFinish(p)
  <2>1. r \in Run
    BY <1>2, <1>10 DEF CatchFinish, Executing
  <2>2. rows' \in [Run -> Row] /\ task' \in [Task -> Dispatch]
    BY <1>10, <2>1, FinishRunType DEF CatchFinish, TInv, RowStatus
  <2>3. main' \in [Proc -> Main] /\ HasRun'
    BY <1>10, AtType, MoveType DEF CatchFinish, MainPc, At
  <2> QED BY <1>10, <2>2, <2>3 DEF CatchFinish, TInv, TypeOK
<1> QED BY <1>3, <1>4, <1>5, <1>6, <1>7, <1>8, <1>9, <1>10 DEF Scan

LEMMA SweepType ==
  ASSUME TInv, NEW p \in Proc, Sweep(p)
  PROVE  TInv'
<1>1. main[p] \in Main
  BY DEF TInv, TypeOK
<1>2. \A r \in Run : rows[r] \in Row
  BY DEF TInv, TypeOK
<1>3. CASE ListStale(p)
  <2> DEFINE pc == IF main[p].pc = "boot" THEN "boot1" ELSE "sweep1"
             list == {[run |-> r, fp |-> rows[r].fp] :
                        r \in {x \in Run : rows[x].status = "running" /\ rows[x].beat > Stale}}
             m == [At(pc) EXCEPT !.list = list]
  <2>1. list \subseteq Listed
    BY <1>2 DEF Listed, Row
  <2>2. At(pc) \in Main /\ At(pc).pc = pc
    BY AtType DEF MainPc, At
  <2>3. main' = [main EXCEPT ![p] = m]
    BY <1>3 DEF ListStale
  <2> HIDE DEF list
  <2>4. m \in Main /\ m.pc = pc
    BY <2>1, <2>2 DEF Main
  <2> HIDE DEF m
  <2>5. main' \in [Proc -> Main] /\ HasRun'
    BY <2>3, <2>4, MoveType
  <2> QED BY <1>3, <2>5 DEF ListStale, TInv, TypeOK
<1>4. CASE RecoverInterrupted(p)
  <2>1. PICK e \in main[p].list :
          /\ FinishRun(e.run, "error", e.fp,
                IF rows[e.run].trig = "schedule" /\ e.fp # {} THEN "pending" ELSE "none")
          /\ main' = [main EXCEPT ![p].list = @ \ {e}]
    BY <1>4 DEF RecoverInterrupted
  <2>2. e.run \in Run /\ e.fp \in SUBSET Category
    BY <1>1, <2>1 DEF Main, Listed
  <2>3. rows' \in [Run -> Row] /\ task' \in [Task -> Dispatch]
    BY <2>1, <2>2, FinishRunType DEF TInv, RowStatus
  <2> DEFINE m == [main[p] EXCEPT !.list = @ \ {e}]
  <2>4. m \in Main /\ m.pc = main[p].pc /\ main' = [main EXCEPT ![p] = m]
    BY <1>1, <2>1 DEF Main
  <2> HIDE DEF m
  <2>5. main' \in [Proc -> Main] /\ HasRun'
    BY <1>4, <2>4, MoveType DEF RecoverInterrupted
  <2> QED BY <1>4, <2>3, <2>5 DEF RecoverInterrupted, TInv, TypeOK
<1>5. CASE ListDue(p)
  <2> DEFINE list == {[run |-> r, fp |-> rows[r].fp] : r \in {x \in Run : Due(x, 0)}}
             m == [At("sweep2") EXCEPT !.list = list]
  <2>1. list \subseteq Listed
    BY <1>2 DEF Listed, Row
  <2>2. At("sweep2") \in Main /\ At("sweep2").pc = "sweep2"
    BY AtType DEF MainPc, At
  <2>3. main' = [main EXCEPT ![p] = m]
    BY <1>5 DEF ListDue
  <2> HIDE DEF list
  <2>4. m \in Main /\ m.pc = "sweep2"
    BY <2>1, <2>2 DEF Main
  <2> HIDE DEF m
  <2>5. main' \in [Proc -> Main] /\ HasRun'
    BY <2>3, <2>4, MoveType
  <2> QED BY <1>5, <2>5 DEF ListDue, TInv, TypeOK
<1>6. CASE RecoverPending(p)
  <2>1. PICK e \in main[p].list :
          /\ task' = [task EXCEPT ![<<p, "sweep", e.run>>] =
                        [NoDispatch EXCEPT !.pc = "claim", !.what = e.fp]]
          /\ main' = [main EXCEPT ![p].list = @ \ {e}]
    BY <1>6 DEF RecoverPending
  <2>2. [NoDispatch EXCEPT !.pc = "claim", !.what = e.fp] \in Dispatch
    BY <1>1, <2>1, NoDispatchType DEF Main, Listed, Dispatch
  <2> DEFINE m == [main[p] EXCEPT !.list = @ \ {e}]
  <2>3. m \in Main /\ m.pc = main[p].pc /\ main' = [main EXCEPT ![p] = m]
    BY <1>1, <2>1 DEF Main
  <2> HIDE DEF m
  <2>4. main' \in [Proc -> Main] /\ HasRun'
    BY <1>6, <2>3, MoveType DEF RecoverPending
  <2> QED BY <1>6, <2>1, <2>2, <2>4 DEF RecoverPending, TInv, TypeOK
<1>7. CASE EndSweep(p)
  <2>1. main' \in [Proc -> Main] /\ HasRun'
    BY <1>7, AtType, MoveType DEF EndSweep, MainPc, At
  <2> QED BY <1>7, <2>1 DEF EndSweep, TInv, TypeOK
<1> QED BY <1>3, <1>4, <1>5, <1>6, <1>7 DEF Sweep

LEMMA HeartbeatType ==
  ASSUME TInv, NEW p \in Proc, Heartbeat(p)
  PROVE  TInv'
<1>1. main[p].run \in Run
  BY DEF Heartbeat, TInv, HasRun
<1>2. \A row \in Row : [row EXCEPT !.beat = 0] \in Row
  BY TimeAssumption DEF Row, BeatCap
<1>3. rows' \in [Run -> Row]
  BY <1>1, <1>2 DEF Heartbeat, TInv, TypeOK
<1> QED BY <1>3, StayType DEF Heartbeat, TInv, TypeOK

LEMMA RestartType ==
  ASSUME TInv, NEW p \in Proc, Restart(p)
  PROVE  TInv'
<1>1. main' \in [Proc -> Main] /\ HasRun'
  BY AtType, MoveType DEF Restart, MainPc, At
<1> QED BY <1>1 DEF Restart, TInv, TypeOK

LEMMA StampType == ASSUME TInv, NEW t \in Task PROVE Stamp(t) \in 0..PassBound
<1>1. t[1] \in Proc
  BY DEF Task
<1> QED BY <1>1, TimeAssumption DEF Stamp, TInv, TypeOK, Main

LEMMA DispatchType ==
  ASSUME TInv, NEW t \in Task, DispatchStep(t)
  PROVE  TInv'
<1> DEFINE r == t[3]
<1>1. r \in Run /\ rows[r] \in Row /\ task[t] \in Dispatch
  BY DEF TInv, TypeOK, Task
<1>2. Stamp(t) \in 0..ClaimCap
  BY StampType, TimeAssumption DEF ClaimCap
<1>3. 0 \in 0..ClaimCap
  BY TimeAssumption DEF ClaimCap
<1>4. CASE ClaimWon(t)
  <2>1. [rows[r] EXCEPT !.notify = "sending", !.claim = Stamp(t)] \in Row
    BY <1>1, <1>2 DEF Row
  <2>2. [task[t] EXCEPT !.pc = "send", !.age = Stamp(t), !.own = TRUE] \in Dispatch
    BY <1>1, <1>2 DEF Dispatch
  <2>3. rows' = [rows EXCEPT ![r] = [rows[r] EXCEPT !.notify = "sending", !.claim = Stamp(t)]]
    BY <1>1, <1>4 DEF ClaimWon, TInv, TypeOK
  <2>4. task' = [task EXCEPT ![t] = [task[t] EXCEPT !.pc = "send", !.age = Stamp(t), !.own = TRUE]]
    BY <1>1, <1>4 DEF ClaimWon, TInv, TypeOK
  <2>5. rows' \in [Run -> Row] /\ task' \in [Task -> Dispatch]
    BY <1>1, <2>1, <2>2, <2>3, <2>4 DEF TInv, TypeOK
  <2> QED BY <1>4, <2>5, StayType DEF ClaimWon, TInv, TypeOK
<1>5. CASE ClaimLost(t)
  BY <1>5, NoDispatchType, StayType DEF ClaimLost, TInv, TypeOK
<1>6. CASE Send(t)
  <2>1. [task[t] EXCEPT !.pc = "mark"] \in Dispatch /\ task[t].what \subseteq Category
    BY <1>1 DEF Dispatch
  <2>2. task' \in [Task -> Dispatch] /\ attempted' \subseteq Run \X Category
    BY <1>1, <1>6, <2>1 DEF Send, TInv, TypeOK
  <2> QED BY <1>6, <2>2, StayType DEF Send, TInv, TypeOK
<1>7. CASE MarkSent(t)
  <2>1. [rows[r] EXCEPT !.notify = "sent", !.claim = 0] \in Row
    BY <1>1, <1>3 DEF Row
  <2>2. rows' \in [Run -> Row]
    BY <1>1, <1>7, <2>1, WriteType DEF MarkSent, TInv
  <2> QED BY <1>7, <2>2, NoDispatchType, StayType DEF MarkSent, TInv, TypeOK
<1> QED BY <1>4, <1>5, <1>6, <1>7 DEF DispatchStep

\* A database failure is counted, and moves one container.
LEMMA DbFailsType ==
  ASSUME TInv, DbFails
  PROVE  faults' \in [crash : 0..MaxCrash, db : 0..MaxDbFail]
  BY BoundAssumption DEF DbFails, TInv, TypeOK

LEMMA FaultType ==
  ASSUME TInv, Fault
  PROVE  TInv'
<1>1. ASSUME NEW p \in Proc, Crash(p) PROVE TInv'
  <2>1. main' \in [Proc -> Main] /\ HasRun'
    BY <1>1, AtType, MoveType DEF Crash, MainPc, At
  <2>2. task' \in [Task -> Dispatch]
    BY <1>1, NoDispatchType DEF Crash, TInv, TypeOK
  <2>3. faults' \in [crash : 0..MaxCrash, db : 0..MaxDbFail]
    BY <1>1, BoundAssumption DEF Crash, TInv, TypeOK
  <2> QED BY <1>1, <2>1, <2>2, <2>3 DEF Crash, TInv, TypeOK
<1>2. ASSUME NEW p \in Proc, CategoryThrows(p) PROVE TInv'
  <2> DEFINE m == [main[p] EXCEPT !.pc = "scan", !.batch = {}, !.base = {},
                                  !.seen = @ \cup {"failed"}]
  <2>1. m \in Main /\ m.run = main[p].run
    BY DEF TInv, TypeOK, Main, MainPc
  <2>2. main' = [main EXCEPT ![p] = m] /\ main[p].run \in Run
    BY <1>2 DEF CategoryThrows, TInv, HasRun, Executing
  <2> HIDE DEF m
  <2>3. main' \in [Proc -> Main] /\ HasRun'
    BY <2>1, <2>2, MoveType
  <2> QED BY <1>2, <2>3, DbFailsType DEF CategoryThrows, TInv, TypeOK
<1>3. ASSUME NEW p \in Proc, FinishThrows(p) PROVE TInv'
  <2> DEFINE m == [main[p] EXCEPT !.pc = "catch"]
  <2>1. m \in Main /\ m.run = main[p].run
    BY DEF TInv, TypeOK, Main, MainPc
  <2>2. main' = [main EXCEPT ![p] = m] /\ main[p].run \in Run
    BY <1>3 DEF FinishThrows, TInv, HasRun, Executing
  <2> HIDE DEF m
  <2>3. main' \in [Proc -> Main] /\ HasRun'
    BY <2>1, <2>2, MoveType
  <2> QED BY <1>3, <2>3, DbFailsType DEF FinishThrows, TInv, TypeOK
<1>4. ASSUME NEW p \in Proc, CatchThrows(p) PROVE TInv'
  <2>1. main' \in [Proc -> Main] /\ HasRun'
    BY <1>4, AtType, MoveType DEF CatchThrows, MainPc, At
  <2> QED BY <1>4, <2>1, DbFailsType DEF CatchThrows, TInv, TypeOK
<1>5. ASSUME NEW p \in Proc, SweepThrows(p) PROVE TInv'
  <2> DEFINE m == [main[p] EXCEPT !.list = {}]
  <2>1. m \in Main /\ m.run = main[p].run /\ m.pc = main[p].pc
    BY DEF TInv, TypeOK, Main, MainPc
  <2>2. \/ main[p].pc = "boot1" /\ main' = [main EXCEPT ![p] = m]
        \/ main' = [main EXCEPT ![p] = At("idle")]
    BY <1>5 DEF SweepThrows
  <2>3. At("idle") \in Main /\ At("idle").pc = "idle"
    BY AtType DEF MainPc, At
  <2> HIDE DEF m
  <2>4. main' \in [Proc -> Main] /\ HasRun'
    BY <2>1, <2>2, <2>3, MoveType
  <2> QED BY <1>5, <2>4, DbFailsType DEF SweepThrows, TInv, TypeOK
<1>6. ASSUME NEW t \in Task, DispatchThrows(t) PROVE TInv'
  <2>1. task' \in [Task -> Dispatch]
    BY <1>6, NoDispatchType DEF DispatchThrows, TInv, TypeOK
  <2>2. t[1] \in Proc
    BY DEF Task
  <2>3. main' \in [Proc -> Main] /\ HasRun'
    <3>1. CASE main' = main
      BY <3>1, StayType
    <3>2. CASE main' = [main EXCEPT ![t[1]] = At("idle")]
      BY <2>2, <3>2, AtType, MoveType DEF MainPc, At
    <3> QED BY <1>6, <3>1, <3>2 DEF DispatchThrows
  <2> QED BY <1>6, <2>1, <2>3, DbFailsType DEF DispatchThrows, TInv, TypeOK
<1>7. ASSUME NEW p \in Proc, NEW r \in Run, NEW trig \in {"manual", "schedule"},
             StartThrows(p, r, trig)
      PROVE  TInv'
  <2>1. PICK gone \in SUBSET {x \in Run : PrunedBy(x, trig)} : Inserted(r, trig, gone)
    BY <1>7 DEF StartThrows
  <2>2. rows' \in [Run -> Row]
    BY <2>1, InsertedType
  <2>3. main' \in [Proc -> Main] /\ HasRun'
    BY <1>7, StayType DEF StartThrows
  <2> QED BY <1>7, <2>2, <2>3, DbFailsType DEF StartThrows, TInv, TypeOK
<1> QED BY <1>1, <1>2, <1>3, <1>4, <1>5, <1>6, <1>7 DEF Fault

LEMMA TickType ==
  ASSUME TInv, Tick
  PROVE  TInv'
<1>1. BeatCap \in Nat /\ ClaimCap \in Nat
  BY TimeAssumption DEF BeatCap, ClaimCap
<1>2. ASSUME NEW r \in Run PROVE rows'[r] \in Row
  <2> DEFINE beat == IF rows[r].status = "running" THEN Older(rows[r].beat, BeatCap)
                     ELSE rows[r].beat
             claim == IF rows[r].notify = "sending" THEN Older(rows[r].claim, ClaimCap)
                      ELSE rows[r].claim
  <2>1. rows[r] \in Row
    BY DEF TInv, TypeOK
  <2>2. beat \in 0..BeatCap /\ claim \in 0..ClaimCap
    BY <1>1, <2>1, OlderType DEF Row
  <2>3. rows'[r] = [rows[r] EXCEPT !.beat = beat, !.claim = claim]
    BY DEF Tick
  <2> HIDE DEF beat, claim
  <2> QED BY <2>1, <2>2, <2>3 DEF Row
<1>3. ASSUME NEW p \in Proc
      PROVE  main'[p] \in Main /\ main'[p].pc = main[p].pc /\ main'[p].run = main[p].run
  <2> DEFINE age == IF main[p].pc = "sweep2" THEN main[p].age + 1 ELSE main[p].age
  <2>1. main[p] \in Main
    BY DEF TInv, TypeOK
  <2>2. age \in 0..PassBound
    <3>1. main[p].age \in 0..PassBound
      BY <2>1 DEF Main
    <3>2. main[p].pc = "sweep2" => main[p].age < PassBound
      BY DEF Tick, MayPass
    <3> QED BY <3>1, <3>2, TimeAssumption
  <2>3. main'[p] = [main[p] EXCEPT !.age = age]
    BY DEF Tick
  <2> HIDE DEF age
  <2> QED BY <2>1, <2>2, <2>3 DEF Main
<1>4. ASSUME NEW t \in Task PROVE task'[t] \in Dispatch
  <2> DEFINE age == IF Holding(t) THEN Older(task[t].age, ClaimCap) ELSE task[t].age
  <2>1. task[t] \in Dispatch
    BY DEF TInv, TypeOK
  <2>2. age \in 0..ClaimCap
    BY <1>1, <2>1, OlderType DEF Dispatch
  <2>3. task'[t] = [task[t] EXCEPT !.age = age]
    BY DEF Tick
  <2> HIDE DEF age
  <2> QED BY <2>1, <2>2, <2>3 DEF Dispatch
<1>5. /\ rows' \in [Run -> Row]
      /\ main' \in [Proc -> Main]
      /\ task' \in [Task -> Dispatch]
  BY <1>2, <1>3, <1>4 DEF Tick
<1>6. HasRun'
  BY <1>3 DEF TInv, HasRun, Executing
<1> QED BY <1>5, <1>6 DEF Tick, TInv, TypeOK

LEMMA TypeStep == TInv /\ [Next]_vars => TInv'
<1> SUFFICES ASSUME TInv, [Next]_vars PROVE TInv'
  OBVIOUS
<1>1. ASSUME NEW p \in Proc, NEW r \in Run, NEW trig \in {"manual", "schedule"},
             NEW cats \in SUBSET Category, StartRun(p, r, trig, cats)
      PROVE  TInv'
  BY <1>1, StartRunType
<1>2. ASSUME NEW p \in Proc, Heartbeat(p) \/ Scan(p) \/ Sweep(p) \/ Restart(p)
      PROVE  TInv'
  BY <1>2, HeartbeatType, ScanType, SweepType, RestartType
<1>3. ASSUME NEW t \in Task, DispatchStep(t) PROVE TInv'
  BY <1>3, DispatchType
<1>4. CASE Fault
  BY <1>4, FaultType
<1>5. CASE Tick
  BY <1>5, TickType
<1>6. CASE UNCHANGED vars
  BY <1>6, StayType DEF vars, TInv, TypeOK
<1> QED BY <1>1, <1>2, <1>3, <1>4, <1>5, <1>6 DEF Next

\* Every state of the system is typed: rows, containers and dispatches only
\* ever hold what the code can write, for any number of each.
THEOREM TypeCorrect == Spec => []TypeOK
<1>1. Spec => []TInv
  BY TypeInit, TypeStep, PTL DEF Spec
<1>2. TInv => TypeOK
  BY DEF TInv
<1> QED BY <1>1, <1>2, PTL

---------------------------------------------------------------------------
(* One holder.  The row and the dispatch that claimed it age together, so   *)
(* while a live dispatch keeps its deadline the claim it wrote is never     *)
(* older than Stale, and nobody else finds the entry due.                   *)

Owns(t) == Holding(t) /\ task[t].own

\* A row that is not there has no entry.
NoEntry == \A r \in Run : rows[r].status \in {"none", "pruned"} => rows[r].notify = "none"

HeldClaims ==
    \A t \in Task : Owns(t) =>
        /\ task[t].age <= BoundOf(t)
        /\ rows[t[3]].notify \in {"sending", "sent"} \/ rows[t[3]].status = "pruned"
        /\ rows[t[3]].notify = "sending" => rows[t[3]].claim = task[t].age

HInv == TInv /\ NoEntry /\ HeldClaims /\ OneHolder

LEMMA OneHolderOwns ==
  OneHolder <=> \A t, u \in Task : t[3] = u[3] /\ Owns(t) /\ Owns(u) => t = u
  BY DEF OneHolder, Owns

\* A step that makes nobody an owner keeps HInv, if each row an owner is left
\* on keeps its entry and claim, is marked sent, or is pruned.
LEMMA HoldFrame ==
  ASSUME HInv, TInv', NoEntry',
         \A t \in Task : Owns(t)' =>
            /\ Owns(t) /\ task'[t].age = task[t].age
            /\ \/ /\ rows'[t[3]].notify = rows[t[3]].notify
                  /\ rows'[t[3]].claim = rows[t[3]].claim
                  /\ rows[t[3]].status = "pruned" => rows'[t[3]].status = "pruned"
               \/ rows'[t[3]].notify = "sent"
               \/ rows'[t[3]].status = "pruned" /\ rows'[t[3]].notify = "none"
  PROVE  HInv'
<1>1. HeldClaims'
  BY DEF HInv, HeldClaims, BoundOf
<1>2. OneHolder'
  BY OneHolderOwns DEF HInv, OneHolder, Owns
<1> QED BY <1>1, <1>2 DEF HInv

\* A step that leaves the table and every held task alone keeps HInv.
LEMMA HoldQuiet ==
  ASSUME HInv, TInv', rows' = rows,
         \A t \in Task : task'[t] = task[t] \/ task'[t].own = FALSE
  PROVE  HInv'
  BY HoldFrame DEF HInv, NoEntry, Owns, Holding

\* finishRun: the run's own entry has no owner afterwards.
LEMMA HoldFinish ==
  ASSUME HInv, TInv', NEW r \in Run, NEW status \in {"success", "partial", "error"},
         NEW fp \in SUBSET Category, NEW notify \in {"none", "pending"},
         FinishRun(r, status, fp, notify)
  PROVE  HInv'
<1>1. rows \in [Run -> Row] /\ task \in [Task -> Dispatch]
  BY DEF HInv, TInv, TypeOK
<1>2. \A x \in Run : x # r => rows'[x] = rows[x]
  BY <1>1 DEF FinishRun, Write
<1>3. rows'[r] = rows[r] \/ rows'[r].status = status
  BY <1>1 DEF FinishRun, Write, Row
<1>4. NoEntry'
  BY <1>2, <1>3 DEF HInv, NoEntry
<1>5. \A t \in Task : IF t[3] = r THEN ~Owns(t)' ELSE task'[t] = task[t]
  BY <1>1 DEF FinishRun, Owns, Holding, Dispatch
<1>6. \A t \in Task : t[3] \in Run
  BY DEF Task
<1>7. \A t \in Task : Owns(t)' => Owns(t) /\ task'[t] = task[t] /\ rows'[t[3]] = rows[t[3]]
  BY <1>2, <1>5, <1>6 DEF Owns, Holding
<1> QED BY <1>4, <1>7, HoldFrame

LEMMA HoldInit == Init => HInv
<1> SUFFICES ASSUME Init PROVE HInv
  OBVIOUS
<1>1. \A t \in Task : ~Owns(t)
  BY DEF Init, Owns, Holding, NoDispatch
<1>2. NoEntry
  BY DEF Init, NoEntry, NoRow
<1> QED BY <1>1, <1>2, TypeInit, OneHolderOwns DEF HInv, HeldClaims

\* Nobody owns the entry of a run that is only now inserted.
LEMMA HoldInserted ==
  ASSUME HInv, TInv', NEW r \in Run, rows[r].status = "none", NEW trig, NEW gone,
         Inserted(r, trig, gone), task' = task
  PROVE  HInv'
<1>1. rows'[r].status = "running"
  BY InsertedRows
<1>2. \A x \in Run : x # r => \/ rows'[x] = rows[x]
                              \/ rows'[x].status = "pruned" /\ rows'[x].notify = "none"
  BY InsertedRows
<1>3. NoEntry'
  BY <1>1, <1>2 DEF HInv, NoEntry
<1>4. \A t \in Task : Owns(t) => t[3] \in Run /\ t[3] # r
  BY DEF HInv, HeldClaims, NoEntry, Task
<1>5. \A t \in Task : Owns(t)' => Owns(t) /\ task'[t].age = task[t].age
  BY DEF Owns, Holding
<1> QED BY <1>2, <1>3, <1>4, <1>5, HoldFrame

LEMMA HoldStartRun ==
  ASSUME HInv, TInv', NEW p \in Proc, NEW r \in Run, NEW trig \in {"manual", "schedule"},
         NEW cats \in SUBSET Category, StartRun(p, r, trig, cats)
  PROVE  HInv'
  BY HoldInserted DEF StartRun

LEMMA HoldScan ==
  ASSUME HInv, TInv', NEW p \in Proc, Scan(p)
  PROVE  HInv'
<1> DEFINE r == main[p].run
<1>1. rows \in [Run -> Row] /\ main[p] \in Main /\ task \in [Task -> Dispatch]
  BY DEF HInv, TInv, TypeOK
<1>2. Executing(p) => r \in Run
  BY DEF HInv, TInv, HasRun
<1>3. CASE \/ ContextFails(p)
           \/ \E c \in Category : CategoryFails(p, c) \/ CategorySynced(p, c)
           \/ ProgressRead(p)
  BY <1>3, HoldQuiet DEF ContextFails, CategoryFails, CategorySynced, ProgressRead
<1>4. CASE ProgressWrite(p)
  <2>1. r \in Run /\ task' = task
    BY <1>2, <1>4 DEF ProgressWrite, Executing
  <2>2. \A x \in Run : /\ rows'[x].notify = rows[x].notify
                        /\ rows'[x].claim = rows[x].claim
                        /\ rows'[x].status = rows[x].status
    BY <1>1, <1>4, <2>1 DEF ProgressWrite, Write, Row
  <2>3. NoEntry'
    BY <2>2 DEF HInv, NoEntry
  <2>4. \A t \in Task : t[3] \in Run
    BY DEF Task
  <2> QED BY <2>1, <2>2, <2>3, <2>4, HoldFrame DEF Owns, Holding
<1>5. CASE FinishScan(p)
  <2>1. r \in Run /\ main[p].found \in SUBSET Category
    BY <1>1, <1>2, <1>5 DEF FinishScan, Executing, Main
  <2>2. RunStatus(main[p].seen) \in {"success", "partial", "error"}
    BY DEF RunStatus
  <2>3. PICK notify \in {"none", "pending"} :
          FinishRun(r, RunStatus(main[p].seen), main[p].found, notify)
    BY <1>5 DEF FinishScan
  <2> QED BY <2>1, <2>2, <2>3, HoldFinish
<1>6. CASE Announce(p)
  BY <1>1, <1>6, HoldQuiet DEF Announce, NoDispatch
<1>7. CASE CatchFinish(p)
  <2>1. r \in Run
    BY <1>2, <1>7 DEF CatchFinish, Executing
  <2> QED BY <1>7, <2>1, HoldFinish DEF CatchFinish
<1> QED BY <1>3, <1>4, <1>5, <1>6, <1>7 DEF Scan

LEMMA HoldSweep ==
  ASSUME HInv, TInv', NEW p \in Proc, Sweep(p)
  PROVE  HInv'
<1>1. task \in [Task -> Dispatch] /\ main[p] \in Main
  BY DEF HInv, TInv, TypeOK
<1>2. CASE ListStale(p) \/ ListDue(p) \/ EndSweep(p)
  BY <1>2, HoldQuiet DEF ListStale, ListDue, EndSweep
<1>3. CASE RecoverInterrupted(p)
  <2>1. PICK e \in main[p].list : FinishRun(e.run, "error", e.fp,
            IF rows[e.run].trig = "schedule" /\ e.fp # {} THEN "pending" ELSE "none")
    BY <1>3 DEF RecoverInterrupted
  <2>2. e.run \in Run /\ e.fp \in SUBSET Category
    BY <1>1 DEF Main, Listed
  <2> QED BY <2>1, <2>2, HoldFinish
<1>4. CASE RecoverPending(p)
  BY <1>1, <1>4, HoldQuiet DEF RecoverPending, NoDispatch
<1> QED BY <1>2, <1>3, <1>4 DEF Sweep

LEMMA HoldHeartbeat ==
  ASSUME HInv, TInv', NEW p \in Proc, Heartbeat(p)
  PROVE  HInv'
<1>1. rows \in [Run -> Row] /\ task' = task
  BY DEF Heartbeat, HInv, TInv, TypeOK
<1>2. \A x \in Run : /\ rows'[x].notify = rows[x].notify
                      /\ rows'[x].claim = rows[x].claim
                      /\ rows'[x].status = rows[x].status
  BY <1>1 DEF Heartbeat, Row
<1>3. NoEntry'
  BY <1>2 DEF HInv, NoEntry
<1>4. \A t \in Task : t[3] \in Run
  BY DEF Task
<1> QED BY <1>1, <1>2, <1>3, <1>4, HoldFrame DEF Owns, Holding

LEMMA HoldFault ==
  ASSUME HInv, TInv', Fault
  PROVE  HInv'
<1>1. task \in [Task -> Dispatch]
  BY DEF HInv, TInv, TypeOK
<1>2. ASSUME NEW p \in Proc, Crash(p) PROVE HInv'
  <2>1. rows' = rows /\ \A t \in Task : task'[t] = task[t] \/ task'[t] = NoDispatch
    BY <1>2 DEF Crash
  <2>2. NoDispatch.own = FALSE
    BY DEF NoDispatch
  <2> QED BY <2>1, <2>2, HoldQuiet
<1>3. ASSUME NEW p \in Proc,
             CategoryThrows(p) \/ FinishThrows(p) \/ CatchThrows(p) \/ SweepThrows(p)
      PROVE  HInv'
  <2>1. rows' = rows /\ task' = task
    BY <1>3 DEF CategoryThrows, FinishThrows, CatchThrows, SweepThrows
  <2> QED BY <2>1, HoldQuiet
<1>4. ASSUME NEW t \in Task, DispatchThrows(t) PROVE HInv'
  <2>1. rows' = rows /\ \A u \in Task : task'[u] = task[u] \/ task'[u] = NoDispatch
    BY <1>1, <1>4 DEF DispatchThrows
  <2>2. NoDispatch.own = FALSE
    BY DEF NoDispatch
  <2> QED BY <2>1, <2>2, HoldQuiet
<1>5. ASSUME NEW p \in Proc, NEW r \in Run, NEW trig \in {"manual", "schedule"},
             StartThrows(p, r, trig)
      PROVE  HInv'
  BY <1>5, HoldInserted DEF StartThrows
<1> QED BY <1>2, <1>3, <1>4, <1>5 DEF Fault

\* The claim: whoever wins it finds no other owner.
LEMMA HoldClaim ==
  ASSUME SendBound <= Stale, PassBound <= Stale,
         HInv, TInv', NEW t \in Task, ClaimWon(t)
  PROVE  HInv'
<1> DEFINE r == t[3]
<1>1. /\ r \in Run
      /\ rows \in [Run -> Row]
      /\ task \in [Task -> Dispatch]
      /\ Stamp(t) \in 0..PassBound
  BY StampType DEF HInv, TInv, TypeOK, Task
<1>2. /\ rows'[r].status = rows[r].status
      /\ rows'[r].notify = "sending"
      /\ rows'[r].claim = Stamp(t)
      /\ \A x \in Run : x # r => rows'[x] = rows[x]
  BY <1>1 DEF ClaimWon, Row
<1>3. /\ task'[t].age = Stamp(t)
      /\ \A u \in Task : u # t => task'[u] = task[u]
  BY <1>1 DEF ClaimWon, Dispatch
<1>4. \A u \in Task : u[3] = r => ~Owns(u)
  <2> SUFFICES ASSUME NEW u \in Task, u[3] = r, Owns(u) PROVE FALSE
    OBVIOUS
  <2>1. rows[r].notify = "pending" \/ (rows[r].notify = "sending" /\ rows[r].claim > Stale + Stamp(t))
    BY DEF ClaimWon, Due
  <2>2. rows[r].notify = "sending" /\ rows[r].claim = task[u].age
    BY <1>1, <2>1 DEF HInv, HeldClaims, NoEntry
  <2>3. task[u].age <= BoundOf(u) /\ BoundOf(u) <= Stale
    BY DEF HInv, HeldClaims, BoundOf
  <2>4. task[u].age \in Nat /\ BoundOf(u) \in Nat /\ Stale \in Nat
    BY <1>1, TimeAssumption DEF Dispatch, BoundOf
  <2> QED BY <1>1, <2>1, <2>2, <2>3, <2>4
<1>5. rows[r].status \notin {"none", "pruned"}
  BY <1>1 DEF ClaimWon, Due, HInv, NoEntry
<1>6. NoEntry'
  BY <1>2, <1>5 DEF HInv, NoEntry
<1>7. Stamp(t) <= BoundOf(t)
  BY <1>1, TimeAssumption DEF Stamp, BoundOf
<1>8. \A u \in Task : u[3] \in Run /\ (u # t => (Owns(u)' <=> Owns(u)))
  BY <1>3 DEF Owns, Holding, Task
<1>9. HeldClaims'
  <2> SUFFICES ASSUME NEW u \in Task, Owns(u)'
               PROVE  (/\ task[u].age <= BoundOf(u)
                       /\ rows[u[3]].notify \in {"sending", "sent"} \/ rows[u[3]].status = "pruned"
                       /\ rows[u[3]].notify = "sending" => rows[u[3]].claim = task[u].age)'
    BY DEF HeldClaims
  <2>1. CASE u = t
    BY <1>2, <1>3, <1>7, <2>1 DEF BoundOf
  <2>2. CASE u # t
    BY <1>2, <1>3, <1>4, <1>8, <2>2 DEF HInv, HeldClaims, BoundOf
  <2> QED BY <2>1, <2>2
<1>10. OneHolder'
  BY <1>4, <1>8, OneHolderOwns DEF HInv, OneHolder, Owns
<1> QED BY <1>6, <1>9, <1>10 DEF HInv

LEMMA HoldDispatch ==
  ASSUME SendBound <= Stale, PassBound <= Stale,
         HInv, TInv', NEW t \in Task, DispatchStep(t)
  PROVE  HInv'
<1> DEFINE r == t[3]
<1>1. r \in Run /\ rows \in [Run -> Row] /\ task \in [Task -> Dispatch]
  BY DEF HInv, TInv, TypeOK, Task
<1>2. CASE ClaimWon(t)
  BY <1>2, HoldClaim
<1>3. CASE ClaimLost(t)
  BY <1>1, <1>3, HoldQuiet DEF ClaimLost, NoDispatch
<1>4. CASE Send(t)
  <2>1. rows' = rows
    BY <1>4 DEF Send
  <2>2. \A u \in Task : Owns(u)' => Owns(u) /\ task'[u].age = task[u].age
    BY <1>1, <1>4 DEF Send, Owns, Holding, Dispatch
  <2> QED BY <2>1, <2>2, HoldFrame DEF HInv, NoEntry
<1>5. CASE MarkSent(t)
  <2>1. /\ \A x \in Run : x # r => rows'[x] = rows[x]
        /\ rows'[r] = rows[r] \/ rows'[r].notify = "sent"
        /\ rows'[r].status = rows[r].status
        /\ rows[r].status \in {"none", "pruned"} => rows'[r] = rows[r]
    BY <1>1, <1>5 DEF MarkSent, Write, Row, Present
  <2>2. \A u \in Task : Owns(u)' => Owns(u) /\ task'[u].age = task[u].age
    BY <1>1, <1>5 DEF MarkSent, Owns, Holding, NoDispatch
  <2>3. NoEntry'
    BY <2>1 DEF HInv, NoEntry
  <2>4. \A u \in Task : u[3] \in Run
    BY DEF Task
  <2> QED BY <2>1, <2>2, <2>3, <2>4, HoldFrame
<1> QED BY <1>2, <1>3, <1>4, <1>5 DEF DispatchStep

LEMMA HoldTick ==
  ASSUME HInv, TInv', Tick
  PROVE  HInv'
<1>1. /\ rows \in [Run -> Row] /\ task \in [Task -> Dispatch]
      /\ \A t \in Task : t[3] \in Run
  BY DEF HInv, TInv, TypeOK, Task
<1>2. \A r \in Run : rows'[r].notify = rows[r].notify /\ rows'[r].status = rows[r].status
  BY <1>1 DEF Tick, Row
<1>3. \A t \in Task : Owns(t)' => Owns(t)
  BY <1>1 DEF Tick, Owns, Holding, Dispatch
<1>4. NoEntry'
  BY <1>2 DEF HInv, NoEntry
<1>5. HeldClaims'
  <2> SUFFICES ASSUME NEW t \in Task, Owns(t)'
               PROVE  (/\ task[t].age <= BoundOf(t)
                       /\ rows[t[3]].notify \in {"sending", "sent"} \/ rows[t[3]].status = "pruned"
                       /\ rows[t[3]].notify = "sending" => rows[t[3]].claim = task[t].age)'
    BY DEF HeldClaims
  <2>1. Owns(t) /\ Holding(t) /\ t[3] \in Run
    BY <1>1, <1>3 DEF Owns
  <2>2. task'[t].age = Older(task[t].age, ClaimCap)
    BY <1>1, <2>1 DEF Tick, Dispatch
  <2>3. /\ rows[t[3]].notify \in {"sending", "sent"} \/ rows[t[3]].status = "pruned"
        /\ rows[t[3]].notify = "sending" => rows[t[3]].claim = task[t].age
    BY <2>1 DEF HInv, HeldClaims
  <2>4. rows[t[3]].notify = "sending" =>
           rows'[t[3]].claim = Older(rows[t[3]].claim, ClaimCap)
    BY <1>1, <2>1 DEF Tick, Row
  <2>5. rows[t[3]].notify = "sending" => rows'[t[3]].claim = task'[t].age
    BY <2>2, <2>3, <2>4
  <2>6. task'[t].age <= BoundOf(t)
    <3>1. task[t].age < BoundOf(t)
      BY <2>1 DEF Tick, MayPass
    <3>2. /\ task[t].age \in Nat /\ BoundOf(t) \in Nat /\ ClaimCap \in Nat
          /\ task[t].age <= ClaimCap
      BY <1>1, TimeAssumption DEF Dispatch, BoundOf, ClaimCap
    <3> QED BY <2>2, <3>1, <3>2 DEF Older
  <2> QED BY <1>2, <2>1, <2>3, <2>5, <2>6 DEF BoundOf
<1>6. OneHolder'
  BY <1>3, OneHolderOwns DEF HInv, OneHolder, Owns
<1> QED BY <1>4, <1>5, <1>6 DEF HInv

LEMMA HoldStep ==
  ASSUME SendBound <= Stale, PassBound <= Stale
  PROVE  HInv /\ [Next]_vars => HInv'
<1> SUFFICES ASSUME HInv, [Next]_vars PROVE HInv'
  OBVIOUS
<1>1. TInv'
  BY TypeStep DEF HInv
<1>2. ASSUME NEW p \in Proc, NEW r \in Run, NEW trig \in {"manual", "schedule"},
             NEW cats \in SUBSET Category, StartRun(p, r, trig, cats)
      PROVE  HInv'
  BY <1>1, <1>2, HoldStartRun
<1>3. ASSUME NEW p \in Proc, Heartbeat(p) \/ Scan(p) \/ Sweep(p) PROVE HInv'
  BY <1>1, <1>3, HoldHeartbeat, HoldScan, HoldSweep
<1>4. ASSUME NEW p \in Proc, Restart(p) PROVE HInv'
  BY <1>1, <1>4, HoldQuiet DEF Restart
<1>5. ASSUME NEW t \in Task, DispatchStep(t) PROVE HInv'
  BY <1>1, <1>5, HoldDispatch
<1>6. CASE Fault
  BY <1>1, <1>6, HoldFault
<1>7. CASE Tick
  BY <1>1, <1>7, HoldTick
<1>8. CASE UNCHANGED vars
  BY <1>1, <1>8, HoldQuiet DEF vars
<1> QED BY <1>2, <1>3, <1>4, <1>5, <1>6, <1>7, <1>8 DEF Next

\* If no live dispatch, and no recovery pass, outlasts Stale, then between two
\* openings of an entry at most one live dispatch holds it, however many
\* containers share the database and whatever crashes or database failures
\* happen: claimNotifyDispatch is a lease.
THEOREM ClaimIsExclusive ==
  ASSUME SendBound <= Stale, PassBound <= Stale
  PROVE  Spec => []OneHolder
<1>1. Spec => []HInv
  BY HoldInit, HoldStep, PTL DEF Spec
<1>2. HInv => OneHolder
  BY DEF HInv
<1> QED BY <1>1, <1>2, PTL

---------------------------------------------------------------------------
(* Reaping.  A live executor keeps its own heartbeat younger than Stale, so *)
(* the row of a run being executed never gets on a recovery pass's list, and *)
(* a run on a list is never started again.                                  *)

Reaping(p) == main[p].pc \in {"boot1", "sweep1"}

ExecutedFresh ==
    \A q \in Proc : Executing(q) =>
        /\ rows[main[q].run].status # "none"
        /\ rows[main[q].run].status = "running" => rows[main[q].run].beat <= BeatBound

ListedStarted ==
    \A p \in Proc : Reaping(p) => \A e \in main[p].list : rows[e.run].status # "none"

RInv == TInv /\ ExecutedFresh /\ ListedStarted /\ ReapsOnlyDead

\* No row is forgotten, and none starts running or loses its heartbeat.
RowsKept ==
    \A r \in Run :
        /\ rows'[r].status = "none" => rows[r].status = "none"
        /\ rows'[r].status = "running" =>
              rows[r].status = "running" /\ rows'[r].beat <= rows[r].beat

\* Nobody starts executing or listing.
MainKept ==
    \A p \in Proc :
        /\ Executing(p)' => Executing(p) /\ main'[p].run = main[p].run
        /\ Reaping(p)' => Reaping(p) /\ main'[p].list \subseteq main[p].list

LEMMA ExecutedRun == TInv => \A q \in Proc : Executing(q) => main[q].run \in Run
  BY DEF TInv, HasRun, Executing

LEMMA ListedRun == TInv => \A p \in Proc : \A e \in main[p].list : e.run \in Run
<1> SUFFICES ASSUME TInv, NEW p \in Proc, NEW e \in main[p].list PROVE e.run \in Run
  OBVIOUS
<1>1. main[p] \in Main
  BY DEF TInv, TypeOK
<1> QED BY <1>1 DEF Main, Listed

LEMMA ReapFrame ==
  ASSUME RInv, TInv', RowsKept, MainKept
  PROVE  RInv'
<1>1. ExecutedFresh'
  <2> SUFFICES ASSUME NEW q \in Proc, Executing(q)'
               PROVE  (/\ rows[main[q].run].status # "none"
                       /\ rows[main[q].run].status = "running" =>
                             rows[main[q].run].beat <= BeatBound)'
    BY DEF ExecutedFresh
  <2> DEFINE r == main[q].run
  <2>1. Executing(q) /\ main'[q].run = r
    BY DEF MainKept
  <2>2. r \in Run
    BY <2>1, ExecutedRun DEF RInv
  <2>3. rows[r] \in Row /\ rows'[r] \in Row
    BY <2>2 DEF RInv, TInv, TypeOK
  <2>4. /\ rows[r].status # "none"
        /\ rows[r].status = "running" => rows[r].beat <= BeatBound
    BY <2>1 DEF RInv, ExecutedFresh
  <2>5. rows[r].beat \in Nat /\ rows'[r].beat \in Nat /\ BeatBound \in Nat
    BY <2>3, TimeAssumption DEF Row
  <2> QED BY <2>1, <2>2, <2>4, <2>5 DEF RowsKept
<1>2. ListedStarted'
  BY ListedRun DEF RInv, ListedStarted, RowsKept, MainKept
<1>3. ReapsOnlyDead'
  BY DEF RInv, ReapsOnlyDead, MainKept, Reaping
<1> QED BY <1>1, <1>2, <1>3 DEF RInv

\* The statements on one row keep the others, and never start a run.
LEMMA FinishKeeps ==
  ASSUME TInv, NEW r \in Run, NEW status \in {"success", "partial", "error"},
         NEW fp, NEW notify, FinishRun(r, status, fp, notify)
  PROVE  RowsKept
<1>1. rows \in [Run -> Row]
  BY DEF TInv, TypeOK
<1>2. \A x \in Run : rows'[x] = rows[x] \/ rows'[x].status = status
  BY <1>1 DEF FinishRun, Write, Row
<1>3. \A x \in Run : rows[x].beat \in Nat
  BY <1>1 DEF Row
<1> QED BY <1>2, <1>3 DEF RowsKept

LEMMA SameRowsKept ==
  ASSUME TInv, \A x \in Run : /\ rows'[x].status = rows[x].status
                              /\ rows'[x].beat \in {rows[x].beat, 0}
  PROVE  RowsKept
<1>1. \A x \in Run : rows[x].beat \in Nat
  BY DEF TInv, TypeOK, Row
<1> QED BY <1>1 DEF RowsKept

LEMMA MoveKeeps ==
  ASSUME NEW p \in Proc, \A q \in Proc : q # p => main'[q] = main[q],
         Executing(p)' => Executing(p) /\ main'[p].run = main[p].run,
         Reaping(p)' => Reaping(p) /\ main'[p].list \subseteq main[p].list
  PROVE  MainKept
  BY DEF MainKept, Executing, Reaping

LEMMA ReapStartRun ==
  ASSUME RInv, TInv', NEW p \in Proc, NEW r \in Run, NEW trig \in {"manual", "schedule"},
         NEW cats \in SUBSET Category, StartRun(p, r, trig, cats)
  PROVE  RInv'
<1>1. /\ rows[r].status = "none"
      /\ rows'[r].status = "running"
      /\ rows'[r].beat = 0
  BY InsertedRows DEF StartRun
<1>2. \A x \in Run : x # r => rows'[x] = rows[x] \/ rows'[x].status = "pruned"
  BY InsertedRows DEF StartRun
<1>3. main'[p].run = r /\ main'[p].pc = "scan"
  BY DEF StartRun, At, RInv, TInv, TypeOK
<1>4. \A q \in Proc : q # p => main'[q] = main[q]
  BY DEF StartRun, RInv, TInv, TypeOK
<1>5. \A q \in Proc : Executing(q) => main[q].run \in Run /\ main[q].run # r
  BY <1>1, ExecutedRun DEF RInv, ExecutedFresh
<1>6. \A q \in Proc : Reaping(q) => \A e \in main[q].list : e.run \in Run /\ e.run # r
  BY <1>1, ListedRun DEF RInv, ListedStarted
<1>7. ExecutedFresh'
  <2> SUFFICES ASSUME NEW q \in Proc, Executing(q)'
               PROVE  (/\ rows[main[q].run].status # "none"
                       /\ rows[main[q].run].status = "running" =>
                             rows[main[q].run].beat <= BeatBound)'
    BY DEF ExecutedFresh
  <2>1. CASE q = p
    BY <1>1, <1>3, <2>1, TimeAssumption
  <2>2. CASE q # p
    <3>1. Executing(q) /\ main'[q] = main[q]
      BY <1>4, <2>2 DEF Executing
    <3> QED BY <1>2, <1>5, <3>1 DEF RInv, ExecutedFresh
  <2> QED BY <2>1, <2>2
<1>8. \A q \in Proc : Reaping(q)' => q # p
  BY <1>3 DEF Reaping
<1>9. ListedStarted'
  BY <1>2, <1>4, <1>6, <1>8 DEF RInv, ListedStarted, Reaping
<1>10. ReapsOnlyDead'
  <2> SUFFICES ASSUME NEW o \in Proc, NEW q \in Proc, Reaping(o)', Executing(q)',
                      NEW e \in main'[o].list
               PROVE  e.run # main'[q].run
    BY DEF ReapsOnlyDead, Reaping
  <2>1. Reaping(o) /\ main'[o] = main[o]
    BY <1>4, <1>8 DEF Reaping
  <2>2. CASE q = p
    BY <1>3, <1>6, <2>1, <2>2
  <2>3. CASE q # p
    <3>1. Executing(q) /\ main'[q] = main[q]
      BY <1>4, <2>3 DEF Executing
    <3> QED BY <2>1, <3>1 DEF RInv, ReapsOnlyDead, Reaping
  <2> QED BY <2>2, <2>3
<1> QED BY <1>7, <1>9, <1>10 DEF RInv

LEMMA ReapScan ==
  ASSUME RInv, TInv', NEW p \in Proc, Scan(p)
  PROVE  RInv'
<1> DEFINE r == main[p].run
<1>1. main \in [Proc -> Main] /\ rows \in [Run -> Row] /\ TInv
  BY DEF RInv, TInv, TypeOK
<1>2. Executing(p) => r \in Run
  BY DEF RInv, TInv, HasRun
<1>3. CASE \/ ContextFails(p)
           \/ \E c \in Category : CategoryFails(p, c) \/ CategorySynced(p, c)
           \/ ProgressRead(p)
  <2>1. rows' = rows
    BY <1>3 DEF ContextFails, CategoryFails, CategorySynced, ProgressRead
  <2>2. MainKept
    <3>1. /\ main[p].pc \in {"scan", "synced"}
          /\ \A q \in Proc : q # p => main'[q] = main[q]
      BY <1>1, <1>3 DEF ContextFails, CategoryFails, CategorySynced, ProgressRead
    <3>2. main'[p].pc \in {"catch", "scan", "synced", "write"} /\ main'[p].run = main[p].run
      <4>1. main[p] \in Main /\ Proc = DOMAIN main
        BY <1>1
      <4>2. CASE ContextFails(p)
        BY <4>1, <4>2 DEF ContextFails, Main
      <4>3. CASE \E c \in Category : CategoryFails(p, c)
        BY <4>1, <4>3 DEF CategoryFails, Main
      <4>4. CASE \E c \in Category : CategorySynced(p, c)
        BY <4>1, <4>4 DEF CategorySynced, Main
      <4>5. CASE ProgressRead(p)
        BY <4>1, <4>5 DEF ProgressRead, Main
      <4> QED BY <1>3, <4>2, <4>3, <4>4, <4>5
    <3> QED BY <3>1, <3>2, MoveKeeps DEF Executing, Reaping
  <2> QED BY <1>1, <2>1, <2>2, SameRowsKept, ReapFrame
<1>4. CASE ProgressWrite(p)
  <2>1. r \in Run
    BY <1>2, <1>4 DEF ProgressWrite, Executing
  <2>2. \A x \in Run : rows'[x].status = rows[x].status /\ rows'[x].beat = rows[x].beat
    BY <1>1, <1>4, <2>1 DEF ProgressWrite, Write, Row
  <2>3. MainKept
    BY <1>1, <1>4 DEF ProgressWrite, MainKept, Executing, Reaping, Main
  <2> QED BY <1>1, <2>2, <2>3, SameRowsKept, ReapFrame
<1>5. CASE FinishScan(p)
  <2>1. r \in Run
    BY <1>2, <1>5 DEF FinishScan, Executing
  <2>2. RunStatus(main[p].seen) \in {"success", "partial", "error"}
    BY DEF RunStatus
  <2>3. PICK notify \in {"none", "pending"} :
          /\ FinishRun(r, RunStatus(main[p].seen), main[p].found, notify)
          /\ \/ main' = [main EXCEPT ![p] = [At("announce") EXCEPT !.run = r, !.found = main[p].found]]
             \/ main' = [main EXCEPT ![p] = At("idle")]
    BY <1>5 DEF FinishScan
  <2>4. RowsKept
    BY <1>1, <2>1, <2>2, <2>3, FinishKeeps
  <2>5. MainKept
    <3>1. /\ Executing(p)
          /\ \A q \in Proc : q # p => main'[q] = main[q]
      BY <1>1, <1>5, <2>3 DEF FinishScan, Executing
    <3>2. \/ main'[p].pc = "announce" /\ main'[p].run = main[p].run
          \/ main'[p].pc = "idle"
      <4>1. CASE main' = [main EXCEPT ![p] =
                            [At("announce") EXCEPT !.run = r, !.found = main[p].found]]
        BY <1>1, <4>1 DEF At
      <4>2. CASE main' = [main EXCEPT ![p] = At("idle")]
        BY <1>1, <4>2 DEF At
      <4> QED BY <2>3, <4>1, <4>2
    <3> QED BY <3>1, <3>2, MoveKeeps DEF Executing, Reaping
  <2> QED BY <2>4, <2>5, ReapFrame
<1>6. CASE Announce(p)
  <2>1. rows' = rows /\ MainKept
    BY <1>1, <1>6 DEF Announce, MainKept, Executing, Reaping, At
  <2> QED BY <1>1, <2>1, SameRowsKept, ReapFrame
<1>7. CASE CatchFinish(p)
  <2>1. r \in Run
    BY <1>2, <1>7 DEF CatchFinish, Executing
  <2>2. RowsKept
    BY <1>1, <1>7, <2>1, FinishKeeps DEF CatchFinish
  <2>3. MainKept
    BY <1>1, <1>7 DEF CatchFinish, MainKept, Executing, Reaping, At
  <2> QED BY <2>2, <2>3, ReapFrame
<1> QED BY <1>3, <1>4, <1>5, <1>6, <1>7 DEF Scan

\* The list itself: a run whose heartbeat is stale is being executed by nobody.
LEMMA ReapList ==
  ASSUME BeatBound <= Stale, RInv, TInv', NEW p \in Proc, ListStale(p)
  PROVE  RInv'
<1> DEFINE stale == {x \in Run : rows[x].status = "running" /\ rows[x].beat > Stale}
           list == {[run |-> x, fp |-> rows[x].fp] : x \in stale}
<1>1. main \in [Proc -> Main] /\ rows \in [Run -> Row] /\ TInv
  BY DEF RInv, TInv, TypeOK
<1>2. /\ rows' = rows
      /\ main[p].pc \in {"boot", "idle"}
      /\ main' = [main EXCEPT ![p] =
                    [At(IF main[p].pc = "boot" THEN "boot1" ELSE "sweep1") EXCEPT !.list = list]]
  BY DEF ListStale
<1>3. main'[p].list = list /\ main'[p].pc \in {"boot1", "sweep1"}
  BY <1>1, <1>2 DEF At
<1>4. \A q \in Proc : q # p => main'[q] = main[q]
  BY <1>1, <1>2
<1>5. \A e \in list : e.run \in stale
  OBVIOUS
<1>6. \A q \in Proc : Executing(q) => main[q].run \notin stale
  <2> SUFFICES ASSUME NEW q \in Proc, Executing(q), main[q].run \in stale PROVE FALSE
    OBVIOUS
  <2>1. rows[main[q].run].beat <= BeatBound /\ rows[main[q].run].beat > Stale
    BY DEF RInv, ExecutedFresh
  <2>2. rows[main[q].run].beat \in Nat
    BY <1>1 DEF Row
  <2> QED BY <2>1, <2>2, TimeAssumption
<1>7. \A x \in stale : x \in Run /\ rows[x].status # "none"
  OBVIOUS
<1> HIDE DEF stale, list
<1>8. \A q \in Proc : Executing(q)' => q # p /\ Executing(q) /\ main'[q] = main[q]
  BY <1>3, <1>4 DEF Executing
<1>9. ExecutedFresh'
  BY <1>2, <1>8 DEF RInv, ExecutedFresh
<1>10. ListedStarted'
  <2> SUFFICES ASSUME NEW q \in Proc, Reaping(q)', NEW e \in main'[q].list
               PROVE  rows[e.run].status # "none"
    BY <1>2 DEF ListedStarted
  <2>1. CASE q = p
    BY <1>3, <1>5, <1>7, <2>1
  <2>2. CASE q # p
    BY <1>4, <2>2 DEF RInv, ListedStarted, Reaping
  <2> QED BY <2>1, <2>2
<1>11. ReapsOnlyDead'
  <2> SUFFICES ASSUME NEW o \in Proc, NEW q \in Proc, Reaping(o)', Executing(q)',
                      NEW e \in main'[o].list
               PROVE  e.run # main'[q].run
    BY DEF ReapsOnlyDead, Reaping
  <2>1. Executing(q) /\ main'[q] = main[q]
    BY <1>8
  <2>2. CASE o = p
    BY <1>3, <1>5, <1>6, <2>1, <2>2
  <2>3. CASE o # p
    BY <1>4, <2>1, <2>3 DEF RInv, ReapsOnlyDead, Reaping
  <2> QED BY <2>2, <2>3
<1> QED BY <1>9, <1>10, <1>11 DEF RInv

LEMMA ReapSweep ==
  ASSUME BeatBound <= Stale, RInv, TInv', NEW p \in Proc, Sweep(p)
  PROVE  RInv'
<1>1. main \in [Proc -> Main] /\ TInv
  BY DEF RInv, TInv, TypeOK
<1>2. CASE ListStale(p)
  BY <1>2, ReapList
<1>3. CASE RecoverInterrupted(p)
  <2>1. PICK e \in main[p].list :
          /\ FinishRun(e.run, "error", e.fp,
                IF rows[e.run].trig = "schedule" /\ e.fp # {} THEN "pending" ELSE "none")
          /\ main' = [main EXCEPT ![p].list = @ \ {e}]
    BY <1>3 DEF RecoverInterrupted
  <2>2. e.run \in Run
    BY <1>1, ListedRun
  <2>3. RowsKept
    BY <1>1, <2>1, <2>2, FinishKeeps
  <2>4. MainKept
    BY <1>1, <2>1 DEF MainKept, Executing, Reaping, Main
  <2> QED BY <2>3, <2>4, ReapFrame
<1>4. CASE ListDue(p) \/ EndSweep(p)
  <2>1. rows' = rows /\ MainKept
    BY <1>1, <1>4 DEF ListDue, EndSweep, MainKept, Executing, Reaping, At
  <2> QED BY <1>1, <2>1, SameRowsKept, ReapFrame
<1>5. CASE RecoverPending(p)
  <2>1. rows' = rows /\ main[p].pc = "sweep2"
    BY <1>5 DEF RecoverPending
  <2>2. PICK list : main' = [main EXCEPT ![p].list = list]
    BY <1>5 DEF RecoverPending
  <2>3. MainKept
    BY <1>1, <2>1, <2>2 DEF MainKept, Executing, Reaping, Main
  <2> QED BY <1>1, <2>1, <2>3, SameRowsKept, ReapFrame
<1> QED BY <1>2, <1>3, <1>4, <1>5 DEF Sweep

LEMMA ReapDispatch ==
  ASSUME RInv, TInv', NEW t \in Task, DispatchStep(t)
  PROVE  RInv'
<1>1. TInv /\ rows \in [Run -> Row] /\ t[3] \in Run
  BY DEF RInv, TInv, TypeOK, Task
<1>2. main' = main
  BY DEF DispatchStep, ClaimWon, ClaimLost, Send, MarkSent
<1>3. \A x \in Run : rows'[x].status = rows[x].status /\ rows'[x].beat = rows[x].beat
  <2>1. CASE ClaimWon(t)
    BY <1>1, <2>1 DEF ClaimWon, Row
  <2>2. CASE ClaimLost(t) \/ Send(t)
    BY <2>2 DEF ClaimLost, Send
  <2>3. CASE MarkSent(t)
    BY <1>1, <2>3 DEF MarkSent, Write, Row
  <2> QED BY <2>1, <2>2, <2>3 DEF DispatchStep
<1>4. MainKept
  BY <1>2 DEF MainKept, Executing, Reaping
<1> QED BY <1>1, <1>3, <1>4, SameRowsKept, ReapFrame

LEMMA ReapHeartbeat ==
  ASSUME RInv, TInv', NEW p \in Proc, Heartbeat(p)
  PROVE  RInv'
<1>1. TInv /\ rows \in [Run -> Row] /\ main' = main
  BY DEF Heartbeat, RInv, TInv, TypeOK
<1>2. \A x \in Run : rows'[x].status = rows[x].status /\ rows'[x].beat \in {rows[x].beat, 0}
  BY <1>1 DEF Heartbeat, Row
<1>3. MainKept
  BY <1>1 DEF MainKept, Executing, Reaping
<1> QED BY <1>1, <1>2, <1>3, SameRowsKept, ReapFrame

LEMMA ReapFault ==
  ASSUME RInv, TInv', Fault
  PROVE  RInv'
<1>1. TInv /\ main \in [Proc -> Main]
  BY DEF RInv, TInv, TypeOK
<1>2. ASSUME NEW p \in Proc, Crash(p) \/ CatchThrows(p) PROVE RInv'
  <2>1. rows' = rows /\ main' \in {[main EXCEPT ![p] = At("down")], [main EXCEPT ![p] = At("idle")]}
    BY <1>2 DEF Crash, CatchThrows
  <2>2. MainKept
    BY <1>1, <2>1 DEF MainKept, Executing, Reaping, At
  <2> QED BY <1>1, <2>1, <2>2, SameRowsKept, ReapFrame
<1>3. ASSUME NEW p \in Proc, CategoryThrows(p) \/ SweepThrows(p) PROVE RInv'
  <2>1. rows' = rows
    BY <1>3 DEF CategoryThrows, SweepThrows
  <2>2. MainKept
    BY <1>1, <1>3 DEF CategoryThrows, SweepThrows, MainKept, Executing, Reaping, At, Main
  <2> QED BY <1>1, <2>1, <2>2, SameRowsKept, ReapFrame
<1>4. ASSUME NEW p \in Proc, FinishThrows(p) PROVE RInv'
  <2>1. rows' = rows
    BY <1>4 DEF FinishThrows
  <2>2. MainKept
    BY <1>1, <1>4 DEF FinishThrows, MainKept, Executing, Reaping, Main
  <2> QED BY <1>1, <2>1, <2>2, SameRowsKept, ReapFrame
<1>5. ASSUME NEW t \in Task, DispatchThrows(t) PROVE RInv'
  <2>1. rows' = rows /\ (main' = main \/ main' = [main EXCEPT ![t[1]] = At("idle")])
    BY <1>5 DEF DispatchThrows
  <2>2. MainKept
    BY <1>1, <2>1 DEF MainKept, Executing, Reaping, At
  <2> QED BY <1>1, <2>1, <2>2, SameRowsKept, ReapFrame
<1>6. ASSUME NEW p \in Proc, NEW r \in Run, NEW trig \in {"manual", "schedule"},
             StartThrows(p, r, trig)
      PROVE  RInv'
  <2>1. rows[r].status = "none" /\ main' = main
    BY <1>6 DEF StartThrows
  <2>2. \A x \in Run : x # r => rows'[x] = rows[x] \/ rows'[x].status = "pruned"
    BY <1>6, InsertedRows DEF StartThrows
  <2>3. \A q \in Proc : Executing(q) => main[q].run \in Run /\ main[q].run # r
    BY <1>1, <2>1, ExecutedRun DEF RInv, ExecutedFresh
  <2>4. \A q \in Proc : Reaping(q) => \A e \in main[q].list : e.run \in Run /\ e.run # r
    BY <1>1, <2>1, ListedRun DEF RInv, ListedStarted
  <2>5. ExecutedFresh'
    BY <2>1, <2>2, <2>3 DEF RInv, ExecutedFresh, Executing
  <2>6. ListedStarted'
    BY <2>1, <2>2, <2>4 DEF RInv, ListedStarted, Reaping
  <2>7. ReapsOnlyDead'
    BY <2>1 DEF RInv, ReapsOnlyDead, Executing
  <2> QED BY <2>5, <2>6, <2>7 DEF RInv
<1> QED BY <1>2, <1>3, <1>4, <1>5, <1>6 DEF Fault

LEMMA ReapTick ==
  ASSUME RInv, TInv', Tick
  PROVE  RInv'
<1>1. rows \in [Run -> Row] /\ main \in [Proc -> Main]
  BY DEF RInv, TInv, TypeOK
<1>2. \A r \in Run :
         /\ rows'[r].status = rows[r].status
         /\ rows[r].status = "running" => rows'[r].beat = Older(rows[r].beat, BeatCap)
  BY <1>1 DEF Tick, Row
<1>3. \A p \in Proc : /\ main'[p].pc = main[p].pc
                      /\ main'[p].run = main[p].run
                      /\ main'[p].list = main[p].list
  BY <1>1 DEF Tick, Main
<1>4. \A p \in Proc : Executing(p)' <=> Executing(p)
  BY <1>3 DEF Executing
<1>5. ExecutedFresh'
  <2> SUFFICES ASSUME NEW q \in Proc, Executing(q)'
               PROVE  (/\ rows[main[q].run].status # "none"
                       /\ rows[main[q].run].status = "running" =>
                             rows[main[q].run].beat <= BeatBound)'
    BY DEF ExecutedFresh
  <2> DEFINE r == main[q].run
  <2>1. Executing(q) /\ r \in Run /\ main'[q].run = r
    BY <1>3, <1>4, ExecutedRun DEF RInv
  <2>2. rows[r].status # "none"
    BY <2>1 DEF RInv, ExecutedFresh
  <2>3. rows[r].status = "running" => rows'[r].beat <= BeatBound
    <3> SUFFICES ASSUME rows[r].status = "running" PROVE rows'[r].beat <= BeatBound
      OBVIOUS
    <3>1. rows[r].beat < BeatBound
      BY <2>1 DEF Tick, MayPass
    <3>2. rows[r].beat \in 0..BeatCap /\ BeatCap \in Nat /\ BeatBound \in Nat
      BY <1>1, <2>1, TimeAssumption DEF Row, BeatCap
    <3>3. rows'[r].beat = Older(rows[r].beat, BeatCap)
      BY <1>2, <2>1
    <3> QED BY <3>1, <3>2, <3>3 DEF Older
  <2> QED BY <1>2, <2>1, <2>2, <2>3
<1>6. ListedStarted'
  BY <1>2, <1>3, ListedRun DEF RInv, ListedStarted, Reaping
<1>7. ReapsOnlyDead'
  BY <1>3, <1>4 DEF RInv, ReapsOnlyDead
<1> QED BY <1>5, <1>6, <1>7 DEF RInv

LEMMA ReapInit == Init => RInv
  BY TypeInit DEF Init, RInv, ExecutedFresh, ListedStarted, ReapsOnlyDead, Executing, Reaping, At

LEMMA ReapStep ==
  ASSUME BeatBound <= Stale
  PROVE  RInv /\ [Next]_vars => RInv'
<1> SUFFICES ASSUME RInv, [Next]_vars PROVE RInv'
  OBVIOUS
<1>1. TInv' /\ TInv /\ main \in [Proc -> Main]
  BY TypeStep DEF RInv, TInv, TypeOK
<1>2. ASSUME NEW p \in Proc, NEW r \in Run, NEW trig \in {"manual", "schedule"},
             NEW cats \in SUBSET Category, StartRun(p, r, trig, cats)
      PROVE  RInv'
  BY <1>1, <1>2, ReapStartRun
<1>3. ASSUME NEW p \in Proc, Heartbeat(p) \/ Scan(p) \/ Sweep(p) PROVE RInv'
  BY <1>1, <1>3, ReapHeartbeat, ReapScan, ReapSweep
<1>4. ASSUME NEW p \in Proc, Restart(p) PROVE RInv'
  <2>1. rows' = rows /\ MainKept
    BY <1>1, <1>4 DEF Restart, MainKept, Executing, Reaping, At
  <2> QED BY <1>1, <2>1, SameRowsKept, ReapFrame
<1>5. ASSUME NEW t \in Task, DispatchStep(t) PROVE RInv'
  BY <1>1, <1>5, ReapDispatch
<1>6. CASE Fault
  BY <1>1, <1>6, ReapFault
<1>7. CASE Tick
  BY <1>1, <1>7, ReapTick
<1>8. CASE UNCHANGED vars
  <2>1. rows' = rows /\ MainKept
    BY <1>8 DEF vars, MainKept, Executing, Reaping
  <2> QED BY <1>1, <2>1, SameRowsKept, ReapFrame
<1> QED BY <1>2, <1>3, <1>4, <1>5, <1>6, <1>7, <1>8 DEF Next

\* If no live executor lets its heartbeat grow older than Stale, then a
\* recovery pass of any container, at any point of it, is about to close only
\* runs that no live container executes: listStaleRunningRuns never takes a
\* slow scan for a dead one.
THEOREM OnlyDeadAreReaped ==
  ASSUME BeatBound <= Stale
  PROVE  Spec => []ReapsOnlyDead
<1>1. Spec => []RInv
  BY ReapInit, ReapStep, PTL DEF Spec
<1>2. RInv => ReapsOnlyDead
  BY DEF RInv
<1> QED BY <1>1, <1>2, PTL

---------------------------------------------------------------------------
(* What is owed.  Until a database call fails, what was recorded on a run's *)
(* row is in everything that may come to write the row or send its entry.   *)

Recorded(r) == {c \in Category : <<r, c>> \in recorded}

Writing(p) == main[p].pc \in {"scan", "synced", "write", "catch"}

\* The run is over, and no container will write its progress any more.
Ended(r) ==
    /\ rows[r].status \notin {"none", "running"}
    /\ \A p \in Proc : Writing(p) => main[p].run # r

\* A run is executed by one container.
OneExecutor ==
    \A p, q \in Proc : Executing(p) /\ Executing(q) /\ main[p].run = main[q].run => p = q

RowOwes(r) ==
    /\ rows[r].status = "none" => Recorded(r) = {}
    /\ Present(r) => Recorded(r) \subseteq rows[r].fp
    /\ rows[r].notify \in {"pending", "sending"} => Present(r) /\ rows[r].status # "running"
    /\ Present(r) /\ rows[r].status # "running" /\ rows[r].trig = "schedule" =>
          \/ rows[r].notify \in {"pending", "sending"}
          \/ {r} \X (Recorded(r) \cap Problems) \subseteq attempted

\* What was recorded is in whatever a container carries: its fingerprints in
\* memory, what it read of the row, the rows it listed.
ProcCarries(p) ==
    LET r == main[p].run IN
    /\ Writing(p) => rows[r].status \in {"running", "pruned"}
    /\ main[p].pc \in {"scan", "synced", "write", "announce"} => Recorded(r) \subseteq main[p].found
    /\ main[p].pc = "write" => /\ main[p].batch \subseteq main[p].found
                               /\ Present(r) => Recorded(r) \subseteq main[p].base
    /\ Writing(p) /\ (main[p].pc = "catch" \/ main[p].seen = {}) => Recorded(r) = {}
    /\ main[p].pc = "announce" => Ended(r)
    /\ Reaping(p) => \A e \in main[p].list : Recorded(e.run) \subseteq e.fp
    /\ main[p].pc = "sweep2" => \A e \in main[p].list : Recorded(e.run) \subseteq e.fp /\ Ended(e.run)

TaskCarries(t) ==
    task[t].pc # "none" =>
        /\ Recorded(t[3]) \subseteq task[t].what /\ Ended(t[3])
        /\ task[t].pc = "mark" => {t[3]} \X task[t].what \subseteq attempted

Owing ==
    /\ OneExecutor
    /\ \A r \in Run : RowOwes(r)
    /\ \A p \in Proc : ProcCarries(p)
    /\ \A t \in Task : TaskCarries(t)

\* Nothing recorded is dropped on its way, until a database call fails.
OInv == RInv /\ (faults.db = 0 => Owing)

LEMMA OwingTypes ==
  ASSUME TInv
  PROVE  /\ rows \in [Run -> Row] /\ main \in [Proc -> Main] /\ task \in [Task -> Dispatch]
         /\ \A p \in Proc : Writing(p) \/ main[p].pc = "announce" => Executing(p) /\ main[p].run \in Run
         /\ \A p \in Proc : Executing(p) => Writing(p) \/ main[p].pc = "announce"
         /\ \A p \in Proc : \A e \in main[p].list : e.run \in Run
         /\ \A t \in Task : t[3] \in Run
<1>1. \A p \in Proc : Executing(p) <=> Writing(p) \/ main[p].pc = "announce"
  BY DEF Executing, Writing
<1> QED BY <1>1, ListedRun, ExecutedRun DEF TInv, TypeOK, Task

\* A run that is over stays over.
LEMMA EndedStays ==
  ASSUME NEW r, Ended(r), rows'[r].status \notin {"none", "running"},
         \A p \in Proc : Writing(p)' => (Writing(p) /\ main'[p].run = main[p].run)
                                        \/ main'[p].run # r
  PROVE  Ended(r)'
  BY DEF Ended

LEMMA SoleStays ==
  ASSUME OneExecutor,
         \A p \in Proc : Executing(p)' => Executing(p) /\ main'[p].run = main[p].run
  PROVE  OneExecutor'
  BY DEF OneExecutor

LEMMA RowStays ==
  ASSUME NEW r \in Run, RowOwes(r), Recorded(r)' = Recorded(r), attempted \subseteq attempted',
         rows'[r].status = rows[r].status, rows'[r].trig = rows[r].trig,
         rows'[r].fp = rows[r].fp, rows'[r].notify = rows[r].notify
  PROVE  RowOwes(r)'
  BY DEF RowOwes, Present

\* What a container carries is still enough when it is left alone.
LEMMA ProcStays ==
  ASSUME NEW p \in Proc, ProcCarries(p),
         main'[p].pc = main[p].pc, main'[p].run = main[p].run, main'[p].found = main[p].found,
         main'[p].batch = main[p].batch, main'[p].base = main[p].base,
         main'[p].seen = main[p].seen, main'[p].list \subseteq main[p].list,
         Writing(p) => rows'[main[p].run].status \in {rows[main[p].run].status, "pruned"},
         Executing(p) => Recorded(main[p].run)' = Recorded(main[p].run),
         main[p].pc = "announce" => Ended(main[p].run)',
         \A e \in main[p].list :
            /\ Recorded(e.run)' = Recorded(e.run)
            /\ main[p].pc = "sweep2" /\ Ended(e.run) => Ended(e.run)'
  PROVE  ProcCarries(p)'
<1> DEFINE r == main[p].run
<1>1. Writing(p)' <=> Writing(p)
  BY DEF Writing
<1>2. Reaping(p)' <=> Reaping(p)
  BY DEF Reaping
<1>3. Writing(p) \/ main[p].pc = "announce" <=> Executing(p)
  BY DEF Writing, Executing
<1>4. main'[p].run = r
  OBVIOUS
<1>5. (Writing(p) => rows[r].status \in {"running", "pruned"})'
  BY <1>1, <1>4 DEF ProcCarries
<1>6. (main[p].pc \in {"scan", "synced", "write", "announce"} =>
          Recorded(main[p].run) \subseteq main[p].found)'
  BY <1>3, <1>4 DEF ProcCarries, Writing
<1>7. (main[p].pc = "write" => /\ main[p].batch \subseteq main[p].found
                               /\ Present(main[p].run) => Recorded(main[p].run) \subseteq main[p].base)'
  BY <1>3, <1>4 DEF ProcCarries, Writing, Present
<1>8. (Writing(p) /\ (main[p].pc = "catch" \/ main[p].seen = {}) => Recorded(main[p].run) = {})'
  BY <1>1, <1>3, <1>4 DEF ProcCarries
<1>9. (main[p].pc = "announce" => Ended(main[p].run))'
  BY <1>4 DEF ProcCarries
<1>10. (Reaping(p) => \A e \in main[p].list : Recorded(e.run) \subseteq e.fp)'
  BY <1>2 DEF ProcCarries
<1>11. (main[p].pc = "sweep2" =>
          \A e \in main[p].list : Recorded(e.run) \subseteq e.fp /\ Ended(e.run))'
  BY DEF ProcCarries
<1> QED BY <1>5, <1>6, <1>7, <1>8, <1>9, <1>10, <1>11 DEF ProcCarries

\* One that has let go of everything carries nothing.
LEMMA ProcFree ==
  ASSUME NEW p \in Proc, main'[p].pc \in {"down", "boot", "idle"}
  PROVE  ProcCarries(p)'
  BY DEF ProcCarries, Writing, Reaping

LEMMA TaskStays ==
  ASSUME NEW t \in Task, TaskCarries(t),
         \/ task'[t].pc = "none"
         \/ task'[t].pc = task[t].pc /\ task'[t].what = task[t].what,
         Recorded(t[3])' = Recorded(t[3]), attempted \subseteq attempted',
         Ended(t[3]) => Ended(t[3])'
  PROVE  TaskCarries(t)'
  BY DEF TaskCarries

\* A row, a container or a dispatch that a step leaves alone.
RowAlike(r) ==
    /\ rows'[r].status = rows[r].status /\ rows'[r].trig = rows[r].trig
    /\ rows'[r].fp = rows[r].fp /\ rows'[r].notify = rows[r].notify

ProcAlike(p) ==
    \/ main'[p].pc \in {"down", "boot", "idle"}
    \/ /\ main'[p].pc = main[p].pc /\ main'[p].run = main[p].run /\ main'[p].found = main[p].found
       /\ main'[p].batch = main[p].batch /\ main'[p].base = main[p].base
       /\ main'[p].seen = main[p].seen /\ main'[p].list \subseteq main[p].list
       /\ Writing(p) => rows'[main[p].run].status \in {rows[main[p].run].status, "pruned"}

TaskAlike(t) ==
    \/ task'[t].pc = "none"
    \/ task'[t].pc = task[t].pc /\ task'[t].what = task[t].what

LEMMA OwingFrame ==
  ASSUME TInv, Owing, recorded' = recorded, attempted \subseteq attempted',
         \A r \in Run : rows'[r].status \in {"none", "running"} => rows'[r].status = rows[r].status,
         \A p \in Proc : /\ Executing(p)' => Executing(p) /\ main'[p].run = main[p].run
                         /\ Writing(p)' => Writing(p)
  PROVE  /\ OneExecutor'
         /\ \A r \in Run : Ended(r) => Ended(r)'
         /\ \A r \in Run : RowAlike(r) => RowOwes(r)'
         /\ \A p \in Proc : ProcAlike(p) => ProcCarries(p)'
         /\ \A t \in Task : TaskAlike(t) => TaskCarries(t)'
<1>0. \A r : Recorded(r)' = Recorded(r)
  BY DEF Recorded
<1>1. OneExecutor'
  BY SoleStays DEF Owing
<1>2. ASSUME NEW r \in Run, Ended(r) PROVE Ended(r)'
  <2>1. rows'[r].status \notin {"none", "running"}
    BY <1>2 DEF Ended
  <2>2. \A p \in Proc : Writing(p)' => Writing(p) /\ main'[p].run = main[p].run
    BY DEF Writing, Executing
  <2> QED BY <1>2, <2>1, <2>2, EndedStays
<1>3. ASSUME NEW r \in Run, RowAlike(r) PROVE RowOwes(r)'
  BY <1>0, <1>3, RowStays DEF RowAlike, Owing
<1>4. ASSUME NEW p \in Proc, ProcAlike(p) PROVE ProcCarries(p)'
  <2>1. CASE main'[p].pc \in {"down", "boot", "idle"}
    BY <2>1, ProcFree
  <2>2. CASE main'[p].pc \notin {"down", "boot", "idle"}
    <3>1. ProcCarries(p)
      BY DEF Owing
    <3>2. main[p].pc = "announce" => Ended(main[p].run)'
      <4> SUFFICES ASSUME main[p].pc = "announce" PROVE Ended(main[p].run)'
        OBVIOUS
      <4>1. main'[p].run = main[p].run
        BY <1>4, <2>2 DEF ProcAlike
      <4>2. Ended(main[p].run) /\ main[p].run \in Run
        BY <3>1, OwingTypes DEF ProcCarries
      <4> DEFINE r == main[p].run
      <4>3. \A x \in Run : x = r => Ended(x)'
        BY <1>2, <4>2
      <4> QED BY <4>1, <4>2, <4>3 DEF Ended
    <3>3. \A e \in main[p].list : Ended(e.run) => Ended(e.run)'
      BY <1>2, OwingTypes
    <3>4. /\ main'[p].pc = main[p].pc /\ main'[p].run = main[p].run /\ main'[p].found = main[p].found
          /\ main'[p].batch = main[p].batch /\ main'[p].base = main[p].base
          /\ main'[p].seen = main[p].seen /\ main'[p].list \subseteq main[p].list
          /\ Writing(p) => rows'[main[p].run].status \in {rows[main[p].run].status, "pruned"}
      BY <1>4, <2>2 DEF ProcAlike
    <3>5. Recorded(main[p].run)' = Recorded(main[p].run)
      BY <3>4 DEF Recorded
    <3> QED BY <1>0, <3>1, <3>2, <3>3, <3>4, <3>5, ProcStays
  <2> QED BY <2>1, <2>2
<1>5. ASSUME NEW t \in Task, TaskAlike(t) PROVE TaskCarries(t)'
  BY <1>0, <1>2, <1>5, TaskStays, OwingTypes DEF TaskAlike, Owing
<1> QED BY <1>1, <1>2, <1>3, <1>4, <1>5

\* A step that leaves every row, container and dispatch alone.
LEMMA OwingQuiet ==
  ASSUME TInv, Owing, recorded' = recorded, attempted \subseteq attempted',
         \A r \in Run : RowAlike(r),
         \A p \in Proc : ProcAlike(p),
         \A t \in Task : TaskAlike(t)
  PROVE  Owing'
<1>1. \A r \in Run : rows'[r].status \in {"none", "running"} => rows'[r].status = rows[r].status
  BY DEF RowAlike
<1>2. \A p \in Proc : /\ Executing(p)' => Executing(p) /\ main'[p].run = main[p].run
                      /\ Writing(p)' => Writing(p)
  BY DEF ProcAlike, Executing, Writing
<1> QED BY <1>1, <1>2, OwingFrame DEF Owing

\* One that also moves container p, which carries enough where it gets.
LEMMA OwingMove ==
  ASSUME TInv, Owing, recorded' = recorded, attempted' = attempted,
         NEW p \in Proc, rows' = rows,
         \A q \in Proc : q # p => main'[q] = main[q],
         Executing(p)' => Executing(p) /\ main'[p].run = main[p].run,
         Writing(p)' => Writing(p),
         (\A r \in Run : Ended(r) => Ended(r)') => ProcCarries(p)',
         \A t \in Task : TaskAlike(t)
  PROVE  Owing'
<1>1. \A q \in Proc : /\ Executing(q)' => Executing(q) /\ main'[q].run = main[q].run
                      /\ Writing(q)' => Writing(q)
  BY DEF Executing, Writing
<1>2. \A r \in Run : RowAlike(r)
  BY DEF RowAlike
<1>3. \A q \in Proc : q # p => ProcAlike(q)
  BY DEF ProcAlike
<1>4. \A r \in Run : rows'[r].status \in {"none", "running"} => rows'[r].status = rows[r].status
  OBVIOUS
<1> QED BY <1>1, <1>2, <1>3, <1>4, OwingFrame DEF Owing

LEMMA OwingHeartbeat ==
  ASSUME RInv, Owing, NEW p \in Proc, Heartbeat(p)
  PROVE  Owing'
<1>1. TInv /\ rows \in [Run -> Row]
  BY DEF RInv, TInv, TypeOK
<1>2. \A r \in Run : RowAlike(r)
  BY <1>1 DEF Heartbeat, RowAlike, Row
<1>3. main' = main /\ task' = task /\ recorded' = recorded /\ attempted' = attempted
  BY DEF Heartbeat
<1>4. (\A q \in Proc : ProcAlike(q)) /\ \A t \in Task : TaskAlike(t)
  <2>1. \A q \in Proc : Writing(q) => main[q].run \in Run
    BY <1>1, OwingTypes
  <2> QED BY <1>2, <1>3, <2>1 DEF ProcAlike, TaskAlike, RowAlike
<1> QED BY <1>1, <1>2, <1>3, <1>4, OwingQuiet

LEMMA OwingTick ==
  ASSUME RInv, Owing, Tick
  PROVE  Owing'
<1>1. TInv /\ rows \in [Run -> Row] /\ main \in [Proc -> Main] /\ task \in [Task -> Dispatch]
  BY DEF RInv, TInv, TypeOK
<1>2. \A r \in Run : /\ rows'[r].status = rows[r].status /\ rows'[r].trig = rows[r].trig
                     /\ rows'[r].fp = rows[r].fp /\ rows'[r].notify = rows[r].notify
  BY <1>1 DEF Tick, Row
<1>3. UNCHANGED <<durable, recorded, attempted, faults>>
  BY DEF Tick
<1>4. \A q \in Proc :
        /\ main'[q].pc = main[q].pc /\ main'[q].run = main[q].run /\ main'[q].found = main[q].found
        /\ main'[q].batch = main[q].batch /\ main'[q].base = main[q].base
        /\ main'[q].seen = main[q].seen /\ main'[q].list = main[q].list
  BY <1>1 DEF Tick, Main
<1>5. \A t \in Task : task'[t].pc = task[t].pc /\ task'[t].what = task[t].what
  BY <1>1 DEF Tick, Dispatch
<1>6. \A q \in Proc : ProcAlike(q)
  <2>1. \A q \in Proc : Writing(q) => main[q].run \in Run
    BY <1>1, OwingTypes
  <2> QED BY <1>2, <1>4, <2>1 DEF ProcAlike
<1>7. (\A r \in Run : RowAlike(r)) /\ \A t \in Task : TaskAlike(t)
  BY <1>2, <1>5 DEF RowAlike, TaskAlike
<1> QED BY <1>1, <1>3, <1>6, <1>7, OwingQuiet

\* A container that dies, restarts or ends its sweep drops what it carried.
LEMMA OwingFree ==
  ASSUME RInv, Owing, NEW p \in Proc, Crash(p) \/ Restart(p) \/ EndSweep(p)
  PROVE  Owing'
<1>1. TInv /\ main \in [Proc -> Main]
  BY DEF RInv, TInv, TypeOK
<1>2. rows' = rows /\ recorded' = recorded /\ attempted' = attempted
  BY DEF Crash, Restart, EndSweep
<1>3. main'[p].pc \in {"down", "boot", "idle"} /\ \A q \in Proc : q # p => main'[q] = main[q]
  BY <1>1 DEF Crash, Restart, EndSweep, At
<1>4. \A t \in Task : TaskAlike(t)
  BY DEF Crash, Restart, EndSweep, TaskAlike, NoDispatch
<1>5. (\A r \in Run : RowAlike(r)) /\ \A q \in Proc : ProcAlike(q)
  BY <1>2, <1>3 DEF RowAlike, ProcAlike
<1> QED BY <1>1, <1>2, <1>4, <1>5, OwingQuiet

LEMMA OwingContextFails ==
  ASSUME RInv, Owing, NEW p \in Proc, ContextFails(p)
  PROVE  Owing'
<1>1. TInv /\ main \in [Proc -> Main] /\ main[p] \in Main
  BY DEF RInv, TInv, TypeOK
<1>2. /\ main[p].pc = "scan" /\ main[p].seen = {}
      /\ main' = [main EXCEPT ![p].pc = "catch"]
      /\ rows' = rows /\ task' = task /\ recorded' = recorded /\ attempted' = attempted
  BY DEF ContextFails
<1>3. /\ main'[p].pc = "catch" /\ main'[p].run = main[p].run
      /\ \A q \in Proc : q # p => main'[q] = main[q]
  BY <1>1, <1>2 DEF Main
<1>4. ProcCarries(p)'
  <2>1. ProcCarries(p) /\ Writing(p)
    BY <1>2 DEF Owing, Writing
  <2> QED BY <1>2, <1>3, <2>1 DEF ProcCarries, Writing, Reaping, Recorded
<1> QED BY <1>1, <1>2, <1>3, <1>4, OwingMove DEF Writing, Executing, TaskAlike

LEMMA OwingCategory ==
  ASSUME RInv, Owing, NEW p \in Proc, NEW c \in Category, CategoryFails(p, c) \/ CategorySynced(p, c)
  PROVE  Owing'
<1>1. TInv /\ main \in [Proc -> Main] /\ main[p] \in Main
  BY DEF RInv, TInv, TypeOK
<1>2. /\ main[p].pc = "scan"
      /\ rows' = rows /\ task' = task /\ recorded' = recorded /\ attempted' = attempted
  BY DEF CategoryFails, CategorySynced
<1>3. /\ main'[p].pc \in {"scan", "synced"} /\ main'[p].run = main[p].run
      /\ main'[p].found = main[p].found /\ main[p].seen \subseteq main'[p].seen
      /\ \A q \in Proc : q # p => main'[q] = main[q]
  <2>1. CASE CategoryFails(p, c)
    BY <1>1, <2>1 DEF CategoryFails, Main
  <2>2. CASE CategorySynced(p, c)
    <3>1. PICK new : main' = [main EXCEPT ![p].pc = "synced", ![p].todo = @ \ {c}, ![p].batch = new]
      BY <2>2 DEF CategorySynced
    <3> QED BY <1>1, <3>1 DEF Main
  <2> QED BY <2>1, <2>2
<1>4. ProcCarries(p)'
  <2>1. ProcCarries(p) /\ Writing(p)
    BY <1>2 DEF Owing, Writing
  <2>2. main'[p].seen = {} => main[p].seen = {}
    BY <1>3
  <2> QED BY <1>2, <1>3, <2>1, <2>2 DEF ProcCarries, Writing, Reaping, Recorded
<1> QED BY <1>1, <1>2, <1>3, <1>4, OwingMove DEF Writing, Executing, TaskAlike

LEMMA OwingProgressRead ==
  ASSUME RInv, Owing, NEW p \in Proc, ProgressRead(p)
  PROVE  Owing'
<1>1. TInv /\ main \in [Proc -> Main] /\ main[p] \in Main
  BY DEF RInv, TInv, TypeOK
<1>2. PICK coverage \in {{}, {"partial"}} :
        main' = [main EXCEPT ![p].pc = "write", ![p].found = @ \cup main[p].batch,
                             ![p].base = rows[main[p].run].fp, ![p].seen = @ \cup coverage]
  BY DEF ProgressRead
<1>3. /\ main[p].pc = "synced"
      /\ rows' = rows /\ task' = task /\ recorded' = recorded /\ attempted' = attempted
  BY DEF ProgressRead
<1>4. /\ main'[p].pc = "write" /\ main'[p].run = main[p].run /\ main'[p].batch = main[p].batch
      /\ main'[p].found = main[p].found \cup main[p].batch
      /\ main'[p].base = rows[main[p].run].fp /\ main'[p].seen = main[p].seen \cup coverage
      /\ \A q \in Proc : q # p => main'[q] = main[q]
  BY <1>1, <1>2 DEF Main
<1>5. ProcCarries(p)'
  <2>1. ProcCarries(p) /\ Writing(p)
    BY <1>3 DEF Owing, Writing
  <2>2. RowOwes(main[p].run)
    BY <1>1, <2>1, OwingTypes DEF Owing
  <2>3. main'[p].seen = {} => main[p].seen = {}
    BY <1>4
  <2> QED BY <1>3, <1>4, <2>1, <2>2, <2>3 DEF ProcCarries, RowOwes, Writing, Reaping, Recorded, Present
<1> QED BY <1>1, <1>3, <1>4, <1>5, OwingMove DEF Writing, Executing, TaskAlike

\* finishRun by container p, when nobody else executes the run it closes.
LEMMA OwingClose ==
  ASSUME TInv, Owing, recorded' = recorded, attempted' = attempted,
         NEW p \in Proc, NEW r \in Run, NEW status \in {"success", "partial", "error"},
         NEW fp, NEW notify \in {"none", "pending"}, FinishRun(r, status, fp, notify),
         rows[r].status # "none", Recorded(r) \subseteq fp,
         notify = "pending" \/ rows[r].trig # "schedule" \/ Recorded(r) \cap Problems = {},
         \A q \in Proc : q # p => main'[q] = main[q] /\ (Executing(q) => main[q].run # r),
         Executing(p)' => Executing(p) /\ main'[p].run = main[p].run,
         ~Writing(p)',
         (Ended(r)' /\ \A x \in Run : Ended(x) => Ended(x)') => ProcCarries(p)'
  PROVE  Owing'
<1>1. rows \in [Run -> Row] /\ task \in [Task -> Dispatch]
  BY DEF TInv, TypeOK
<1>2. /\ \A x \in Run : x # r => rows'[x] = rows[x]
      /\ Present(r) => /\ rows'[r].status = status /\ rows'[r].fp = fp
                       /\ rows'[r].notify = notify /\ rows'[r].trig = rows[r].trig
      /\ ~Present(r) => rows'[r] = rows[r]
  BY <1>1 DEF FinishRun, Write, Row
<1>3. \A t \in Task : TaskAlike(t)
  <2> SUFFICES ASSUME NEW t \in Task PROVE TaskAlike(t)
    OBVIOUS
  <2>1. task'[t] = task[t] \/ task'[t] = [task[t] EXCEPT !.own = FALSE]
    BY DEF FinishRun
  <2>2. task[t] \in Dispatch
    BY <1>1
  <2> QED BY <2>1, <2>2 DEF TaskAlike, Dispatch
<1>4. \A x \in Run : rows'[x].status \in {"none", "running"} => rows'[x].status = rows[x].status
  BY <1>2
<1>5. \A q \in Proc : /\ Executing(q)' => Executing(q) /\ main'[q].run = main[q].run
                      /\ Writing(q)' => Writing(q)
  BY DEF Executing, Writing
<1>6. /\ OneExecutor'
      /\ \A x \in Run : Ended(x) => Ended(x)'
      /\ \A x \in Run : RowAlike(x) => RowOwes(x)'
      /\ \A q \in Proc : ProcAlike(q) => ProcCarries(q)'
      /\ \A t \in Task : TaskAlike(t) => TaskCarries(t)'
  BY <1>4, <1>5, OwingFrame
<1>7. Ended(r)'
  <2>1. rows'[r].status \notin {"none", "running"}
    BY <1>2 DEF Present
  <2>2. \A q \in Proc : Writing(q)' => q # p /\ Executing(q) /\ main'[q] = main[q]
    BY DEF Writing, Executing
  <2> QED BY <2>1, <2>2 DEF Ended
<1>8. \A x \in Run : RowOwes(x)'
  <2> SUFFICES ASSUME NEW x \in Run PROVE RowOwes(x)'
    OBVIOUS
  <2>1. CASE x # r \/ ~Present(r)
    <3>1. RowAlike(x)
      BY <1>2, <2>1 DEF RowAlike
    <3> QED BY <1>6, <3>1
  <2>2. CASE x = r /\ Present(r)
    <3>1. Recorded(r)' = Recorded(r)
      BY DEF Recorded
    <3>2. rows'[r].notify = "none" /\ rows'[r].trig = "schedule" =>
             {r} \X (Recorded(r) \cap Problems) \subseteq attempted
      BY <1>2, <2>2
    <3> QED BY <1>2, <2>2, <3>1, <3>2 DEF RowOwes, Present
  <2> QED BY <2>1, <2>2
<1>9. \A q \in Proc : ProcCarries(q)'
  <2> SUFFICES ASSUME NEW q \in Proc, q # p PROVE ProcCarries(q)'
    BY <1>6, <1>7
  <2>1. Writing(q) => main[q].run \in Run /\ main[q].run # r
    BY OwingTypes DEF Writing, Executing
  <2>2. ProcAlike(q)
    BY <1>2, <2>1 DEF ProcAlike
  <2> QED BY <1>6, <2>2
<1> QED BY <1>3, <1>6, <1>8, <1>9 DEF Owing

LEMMA OwingFinishScan ==
  ASSUME RInv, Owing, NEW p \in Proc, FinishScan(p)
  PROVE  Owing'
<1>0. PICK r : r = main[p].run
  OBVIOUS
<1>1. TInv /\ main \in [Proc -> Main] /\ main[p] \in Main
  BY DEF RInv, TInv, TypeOK
<1>2. main[p].pc = "scan" /\ recorded' = recorded /\ attempted' = attempted
  BY DEF FinishScan
<1>3. RunStatus(main[p].seen) \in {"success", "partial", "error"}
  BY DEF RunStatus
<1>4. PICK notify \in {"none", "pending"} :
        /\ FinishRun(r, RunStatus(main[p].seen), main[p].found, notify)
        /\ notify = "pending" \/ rows[r].trig # "schedule" \/ main[p].found \cap Problems = {}
        /\ \/ main' = [main EXCEPT ![p] = [At("announce") EXCEPT !.run = r, !.found = main[p].found]]
           \/ main' = [main EXCEPT ![p] = At("idle")]
  BY <1>0 DEF FinishScan
<1>5. /\ r \in Run /\ Executing(p) /\ Writing(p)
      /\ rows[r].status # "none"
      /\ Recorded(r) \subseteq main[p].found
  <2>1. Executing(p) /\ Writing(p) /\ ProcCarries(p)
    BY <1>2 DEF Executing, Writing, Owing
  <2> QED BY <1>0, <1>1, <1>2, <2>1, OwingTypes DEF RInv, ExecutedFresh, ProcCarries
<1>6. /\ \A q \in Proc : q # p => main'[q] = main[q]
      /\ \/ main'[p].pc = "announce" /\ main'[p].run = r /\ main'[p].found = main[p].found
         \/ main'[p].pc = "idle"
  <2>1. CASE main' = [main EXCEPT ![p] = [At("announce") EXCEPT !.run = r, !.found = main[p].found]]
    BY <1>1, <2>1 DEF At
  <2>2. CASE main' = [main EXCEPT ![p] = At("idle")]
    BY <1>1, <2>2 DEF At
  <2> QED BY <1>4, <2>1, <2>2
<1>7. \A q \in Proc : q # p => (Executing(q) => main[q].run # r)
  BY <1>0, <1>5 DEF Owing, OneExecutor
<1>8. ~Writing(p)' /\ (Executing(p)' => main'[p].run = r)
  BY <1>6 DEF Writing, Executing
<1>9. Ended(r)' => ProcCarries(p)'
  <2>1. Recorded(r)' = Recorded(r)
    BY <1>2 DEF Recorded
  <2> QED BY <1>5, <1>6, <2>1 DEF ProcCarries, Writing, Reaping
<1> QED BY <1>0, <1>1, <1>2, <1>3, <1>4, <1>5, <1>6, <1>7, <1>8, <1>9, OwingClose

LEMMA OwingCatchFinish ==
  ASSUME RInv, Owing, NEW p \in Proc, CatchFinish(p)
  PROVE  Owing'
<1>1. TInv /\ main \in [Proc -> Main]
  BY DEF RInv, TInv, TypeOK
<1>2. /\ main[p].pc = "catch" /\ recorded' = recorded /\ attempted' = attempted
      /\ FinishRun(main[p].run, "error", {}, "none")
      /\ main' = [main EXCEPT ![p] = At("idle")]
  BY DEF CatchFinish
<1>3. main'[p].pc = "idle" /\ \A q \in Proc : q # p => main'[q] = main[q]
  BY <1>1, <1>2 DEF At
<1>4. Executing(p) /\ Writing(p) /\ ProcCarries(p)
  BY <1>2 DEF Executing, Writing, Owing
<1>5. main[p].run \in Run /\ rows[main[p].run].status # "none" /\ Recorded(main[p].run) = {}
  BY <1>1, <1>2, <1>4, OwingTypes DEF RInv, ExecutedFresh, ProcCarries
<1>6. \A q \in Proc : q # p => (Executing(q) => main[q].run # main[p].run)
  BY <1>4 DEF Owing, OneExecutor
<1>7. ~Writing(p)' /\ ~Executing(p)' /\ ProcCarries(p)'
  BY <1>3, ProcFree DEF Writing, Executing
<1> QED BY <1>1, <1>2, <1>3, <1>5, <1>6, <1>7, OwingClose

LEMMA OwingAnnounce ==
  ASSUME RInv, Owing, NEW p \in Proc, Announce(p)
  PROVE  Owing'
<1>0. PICK r, u : r = main[p].run /\ u = <<p, "live", r>>
  OBVIOUS
<1>1. TInv /\ main \in [Proc -> Main] /\ task \in [Task -> Dispatch]
  BY DEF RInv, TInv, TypeOK
<1>2. /\ main[p].pc = "announce"
      /\ rows' = rows /\ recorded' = recorded /\ attempted' = attempted
      /\ task' = [task EXCEPT ![u] = [NoDispatch EXCEPT !.pc = "claim", !.what = main[p].found]]
      /\ main' = [main EXCEPT ![p] = At("idle")]
  BY <1>0 DEF Announce
<1>3. r \in Run /\ u \in Task /\ Recorded(r) \subseteq main[p].found /\ Ended(r)
  <2>1. ProcCarries(p)
    BY DEF Owing
  <2> QED BY <1>0, <1>1, <1>2, <2>1, OwingTypes DEF ProcCarries, Task, Origin
<1>4. main'[p].pc = "idle" /\ \A q \in Proc : q # p => main'[q] = main[q]
  BY <1>1, <1>2 DEF At
<1>5. /\ \A t \in Task : t # u => task'[t] = task[t]
      /\ task'[u].pc = "claim" /\ task'[u].what = main[p].found
  BY <1>1, <1>2, <1>3 DEF NoDispatch
<1>6. \A q \in Proc : ProcAlike(q)
  BY <1>2, <1>4 DEF ProcAlike
<1>7. \A q \in Proc : /\ Executing(q)' => Executing(q) /\ main'[q].run = main[q].run
                      /\ Writing(q)' => Writing(q)
  BY <1>6 DEF ProcAlike, Executing, Writing
<1>8. /\ OneExecutor'
      /\ \A x \in Run : Ended(x) => Ended(x)'
      /\ \A x \in Run : RowAlike(x) => RowOwes(x)'
      /\ \A q \in Proc : ProcAlike(q) => ProcCarries(q)'
      /\ \A t \in Task : TaskAlike(t) => TaskCarries(t)'
  BY <1>1, <1>2, <1>7, OwingFrame
<1>9. TaskCarries(u)'
  <2>1. u[3] = r /\ Ended(r)' /\ Recorded(r)' = Recorded(r)
    BY <1>0, <1>2, <1>3, <1>8 DEF Recorded
  <2> QED BY <1>3, <1>5, <2>1 DEF TaskCarries
<1>10. \A t \in Task : TaskCarries(t)'
  BY <1>5, <1>8, <1>9 DEF TaskAlike
<1> QED BY <1>2, <1>6, <1>8, <1>10 DEF Owing, RowAlike

\* What progress records is what it read and the batch: nothing is overwritten,
\* since nobody else writes the row of a run being executed.
LEMMA OwingProgressWrite ==
  ASSUME RInv, Owing, NEW p \in Proc, ProgressWrite(p)
  PROVE  Owing'
<1>0. PICK r, batch : r = main[p].run /\ batch = main[p].batch
  OBVIOUS
<1>1. /\ TInv /\ rows \in [Run -> Row] /\ main \in [Proc -> Main]
      /\ main[p] \in Main
  BY DEF RInv, TInv, TypeOK
<1>2. /\ main[p].pc = "write"
      /\ Write(r, [rows[r] EXCEPT !.fp = main[p].base \cup batch])
      /\ recorded' = recorded \cup ({r} \X batch)
      /\ main' = [main EXCEPT ![p].pc = "scan", ![p].batch = {}, ![p].base = {},
                              ![p].seen = @ \cup {"ok"}]
      /\ task' = task /\ attempted' = attempted
  BY <1>0 DEF ProgressWrite
<1>3. Executing(p) /\ Writing(p) /\ ProcCarries(p) /\ r \in Run
  BY <1>0, <1>1, <1>2, OwingTypes DEF Executing, Writing, Owing
<1>4. /\ rows[r].status \in {"running", "pruned"}
      /\ Recorded(r) \subseteq main[p].found /\ batch \subseteq main[p].found
      /\ Present(r) => Recorded(r) \subseteq main[p].base
  BY <1>0, <1>2, <1>3 DEF ProcCarries
<1>5. /\ main'[p].pc = "scan" /\ main'[p].run = r /\ main'[p].found = main[p].found
      /\ main'[p].seen # {}
      /\ \A q \in Proc : q # p => main'[q] = main[q]
  BY <1>0, <1>1, <1>2 DEF Main
<1>6. /\ \A x \in Run : x # r => rows'[x] = rows[x]
      /\ rows'[r].status = rows[r].status /\ rows'[r].notify = rows[r].notify
      /\ Present(r) => rows'[r].fp = main[p].base \cup batch
  <2>1. rows[r] \in Row
    BY <1>1, <1>3
  <2> QED BY <1>1, <1>2, <1>3, <2>1 DEF Write, Row
<1>7. /\ \A x : x # r => Recorded(x)' = Recorded(x)
      /\ Recorded(r)' \subseteq Recorded(r) \cup batch
  BY <1>2 DEF Recorded
<1>8. \A q \in Proc : q # p => (Executing(q) => main[q].run # r)
  BY <1>0, <1>3 DEF Owing, OneExecutor
<1>9. \A x : ~(x = r /\ Ended(x))
  BY <1>0, <1>3 DEF Ended
<1>10. \A x \in Run : Ended(x) => Ended(x)'
  <2> SUFFICES ASSUME NEW x \in Run, Ended(x) PROVE Ended(x)'
    OBVIOUS
  <2>1. rows'[x].status \notin {"none", "running"}
    BY <1>6, <1>9 DEF Ended
  <2>2. \A q \in Proc : Writing(q)' => Writing(q) /\ main'[q].run = main[q].run
    BY <1>0, <1>3, <1>5 DEF Writing
  <2> QED BY <2>1, <2>2, EndedStays
<1>11. OneExecutor'
  <2>1. \A q \in Proc : Executing(q)' => Executing(q) /\ main'[q].run = main[q].run
    BY <1>0, <1>3, <1>5 DEF Executing
  <2> QED BY <2>1, SoleStays DEF Owing
<1>12. \A x \in Run : RowOwes(x)'
  <2> SUFFICES ASSUME NEW x \in Run PROVE RowOwes(x)'
    OBVIOUS
  <2>1. RowOwes(x)
    BY DEF Owing
  <2>2. CASE x = r
    <3>1. Present(r)' <=> Present(r)
      BY <1>6 DEF Present
    <3> QED BY <1>4, <1>6, <1>7, <2>1, <2>2, <3>1 DEF RowOwes, Present
  <2>3. CASE x # r
    BY <1>2, <1>6, <1>7, <2>1, <2>3, RowStays
  <2> QED BY <2>2, <2>3
<1>13. \A q \in Proc : ProcCarries(q)'
  <2>1. ProcCarries(p)'
    BY <1>4, <1>5, <1>6, <1>7 DEF ProcCarries, Writing, Reaping
  <2>2. ASSUME NEW q \in Proc, q # p PROVE ProcCarries(q)'
    <3>1. ProcCarries(q) /\ main'[q] = main[q]
      BY <1>5, <2>2 DEF Owing
    <3>2. Executing(q) => main[q].run \in Run /\ main[q].run # r
      BY <1>1, <1>8, <2>2, ExecutedRun
    <3>3. Writing(q) => rows'[main[q].run].status = rows[main[q].run].status
      BY <1>6, <3>2 DEF Writing, Executing
    <3>4. Executing(q) => Recorded(main[q].run)' = Recorded(main[q].run)
      BY <1>7, <3>1, <3>2 DEF Recorded
    <3>5. main[q].pc = "announce" => Ended(main[q].run)'
      <4> SUFFICES ASSUME main[q].pc = "announce" PROVE Ended(main[q].run)'
        OBVIOUS
      <4>1. PICK x \in Run : x = main[q].run
        BY <3>2 DEF Executing
      <4>2. Ended(x)'
        BY <1>10, <3>1, <4>1 DEF ProcCarries
      <4> QED BY <3>1, <4>1, <4>2 DEF Ended
    <3>6. \A e \in main[q].list :
            /\ main[q].pc \in {"boot1", "sweep1", "sweep2"} => Recorded(e.run)' = Recorded(e.run)
            /\ main[q].pc = "sweep2" /\ Ended(e.run) => Ended(e.run)'
      <4>1. Reaping(q) => \A e \in main[q].list : e.run # r
        BY <1>0, <1>3 DEF RInv, ReapsOnlyDead, Reaping
      <4>2. main[q].pc = "sweep2" => \A e \in main[q].list : e.run # r
        BY <1>9, <3>1 DEF ProcCarries
      <4> QED BY <1>1, <1>7, <1>10, <4>1, <4>2, ListedRun DEF Reaping
    <3>7. Executing(q) \/ Reaping(q) \/ main[q].pc = "sweep2" \/ main[q].pc \in {"down", "boot", "idle"}
      BY <1>1 DEF Main, MainPc, Executing, Reaping
    <3> QED BY <3>1, <3>3, <3>4, <3>5, <3>6, <3>7 DEF ProcCarries, Writing, Reaping, Executing, Present
  <2> QED BY <2>1, <2>2
<1>14. \A t \in Task : TaskCarries(t)'
  <2> SUFFICES ASSUME NEW t \in Task PROVE TaskCarries(t)'
    OBVIOUS
  <2>1. TaskCarries(t) /\ t[3] \in Run
    BY <1>1, OwingTypes DEF Owing
  <2>2. task[t].pc # "none" => Recorded(t[3])' = Recorded(t[3]) /\ Ended(t[3])'
    BY <1>7, <1>9, <1>10, <2>1 DEF TaskCarries
  <2> QED BY <1>2, <2>1, <2>2 DEF TaskCarries
<1> QED BY <1>11, <1>12, <1>13, <1>14 DEF Owing

\* Recovery lists a run with everything recorded on its row.
LEMMA OwingListStale ==
  ASSUME RInv, Owing, NEW p \in Proc, ListStale(p)
  PROVE  Owing'
<1>1. TInv /\ main \in [Proc -> Main]
  BY DEF RInv, TInv, TypeOK
<1> DEFINE list == {[run |-> r, fp |-> rows[r].fp] :
                      r \in {x \in Run : rows[x].status = "running" /\ rows[x].beat > Stale}}
<1>2. PICK pc \in {"boot1", "sweep1"} : main' = [main EXCEPT ![p] = [At(pc) EXCEPT !.list = list]]
  BY DEF ListStale
<1>3. rows' = rows /\ task' = task /\ recorded' = recorded /\ attempted' = attempted
  BY DEF ListStale
<1>4. \A e \in list : Recorded(e.run) \subseteq e.fp
  <2> SUFFICES ASSUME NEW r \in Run, rows[r].status = "running" PROVE Recorded(r) \subseteq rows[r].fp
    OBVIOUS
  <2>1. RowOwes(r)
    BY DEF Owing
  <2> QED BY <2>1 DEF RowOwes, Present
<1>5. /\ main'[p].pc \in {"boot1", "sweep1"} /\ main'[p].list = list
      /\ \A q \in Proc : q # p => main'[q] = main[q]
  BY <1>1, <1>2 DEF At
<1> HIDE DEF list
<1>6. ProcCarries(p)'
  BY <1>3, <1>4, <1>5 DEF ProcCarries, Writing, Reaping, Recorded
<1> QED BY <1>1, <1>3, <1>5, <1>6, OwingMove DEF Writing, Executing, TaskAlike

LEMMA OwingRecoverInterrupted ==
  ASSUME RInv, Owing, NEW p \in Proc, RecoverInterrupted(p)
  PROVE  Owing'
<1>1. TInv /\ main \in [Proc -> Main] /\ main[p] \in Main
  BY DEF RInv, TInv, TypeOK
<1>2. PICK e \in main[p].list :
        /\ FinishRun(e.run, "error", e.fp,
              IF rows[e.run].trig = "schedule" /\ e.fp # {} THEN "pending" ELSE "none")
        /\ main' = [main EXCEPT ![p].list = @ \ {e}]
  BY DEF RecoverInterrupted
<1>3. /\ main[p].pc \in {"boot1", "sweep1"} /\ Reaping(p) /\ ProcCarries(p)
      /\ recorded' = recorded /\ attempted' = attempted
  BY DEF RecoverInterrupted, Reaping, Owing
<1>4. e.run \in Run /\ rows[e.run].status # "none" /\ Recorded(e.run) \subseteq e.fp
  BY <1>1, <1>2, <1>3, ListedRun DEF RInv, ListedStarted, ProcCarries
<1>5. /\ main'[p].pc = main[p].pc /\ main'[p].list \subseteq main[p].list
      /\ \A q \in Proc : q # p => main'[q] = main[q]
  BY <1>1, <1>2 DEF Main
<1>6. \A q \in Proc : Executing(q) => main[q].run # e.run
  BY <1>2, <1>3 DEF RInv, ReapsOnlyDead
<1>7. ~Writing(p)' /\ ~Executing(p)'
  BY <1>3, <1>5 DEF Writing, Executing
<1>8. ProcCarries(p)'
  BY <1>3, <1>5, <1>7 DEF ProcCarries, Writing, Reaping, Recorded
<1>9. PICK notify \in {"none", "pending"} :
        /\ FinishRun(e.run, "error", e.fp, notify)
        /\ notify = "pending" \/ rows[e.run].trig # "schedule" \/ e.fp = {}
  BY <1>2
<1> QED BY <1>1, <1>3, <1>4, <1>5, <1>6, <1>7, <1>8, <1>9, OwingClose

\* An entry that is due is of a run that is over.
LEMMA OwingListDue ==
  ASSUME RInv, Owing, NEW p \in Proc, ListDue(p)
  PROVE  Owing'
<1>1. TInv /\ main \in [Proc -> Main]
  BY DEF RInv, TInv, TypeOK
<1> DEFINE list == {[run |-> r, fp |-> rows[r].fp] : r \in {x \in Run : Due(x, 0)}}
<1>2. /\ main' = [main EXCEPT ![p] = [At("sweep2") EXCEPT !.list = list]]
      /\ rows' = rows /\ task' = task /\ recorded' = recorded /\ attempted' = attempted
  BY DEF ListDue
<1>3. \A e \in list : e.run \in Run /\ Recorded(e.run) \subseteq e.fp /\ Ended(e.run)
  <2> SUFFICES ASSUME NEW r \in Run, Due(r, 0) PROVE Recorded(r) \subseteq rows[r].fp /\ Ended(r)
    OBVIOUS
  <2>1. RowOwes(r) /\ rows[r].notify \in {"pending", "sending"}
    BY DEF Owing, Due
  <2>2. Present(r) /\ rows[r].status # "running" /\ Recorded(r) \subseteq rows[r].fp
    BY <2>1 DEF RowOwes
  <2>3. \A q \in Proc : Writing(q) => rows[main[q].run].status \in {"running", "pruned"}
    BY DEF Owing, ProcCarries
  <2> QED BY <2>2, <2>3 DEF Ended, Present
<1>4. /\ main'[p].pc = "sweep2" /\ main'[p].list = list
      /\ \A q \in Proc : q # p => main'[q] = main[q]
  BY <1>1, <1>2 DEF At
<1> HIDE DEF list
<1>5. ASSUME \A r \in Run : Ended(r) => Ended(r)' PROVE ProcCarries(p)'
  <2>1. \A e \in list : Recorded(e.run)' \subseteq e.fp /\ Ended(e.run)'
    BY <1>2, <1>3, <1>5 DEF Recorded
  <2> QED BY <1>4, <2>1 DEF ProcCarries, Writing, Reaping
<1> QED BY <1>1, <1>2, <1>4, <1>5, OwingMove DEF Writing, Executing, TaskAlike

LEMMA OwingRecoverPending ==
  ASSUME RInv, Owing, NEW p \in Proc, RecoverPending(p)
  PROVE  Owing'
<1>1. TInv /\ main \in [Proc -> Main] /\ main[p] \in Main /\ task \in [Task -> Dispatch]
  BY DEF RInv, TInv, TypeOK
<1>2. PICK e \in main[p].list :
        /\ task' = [task EXCEPT ![<<p, "sweep", e.run>>] =
                      [NoDispatch EXCEPT !.pc = "claim", !.what = e.fp]]
        /\ main' = [main EXCEPT ![p].list = @ \ {e}]
  BY DEF RecoverPending
<1>3. PICK u : u = <<p, "sweep", e.run>>
  OBVIOUS
<1>4. /\ main[p].pc = "sweep2"
      /\ rows' = rows /\ recorded' = recorded /\ attempted' = attempted
  BY DEF RecoverPending
<1>5. e.run \in Run /\ u \in Task /\ u[3] = e.run /\ Recorded(e.run) \subseteq e.fp /\ Ended(e.run)
  <2>1. ProcCarries(p)
    BY DEF Owing
  <2> QED BY <1>1, <1>2, <1>3, <1>4, <2>1, ListedRun DEF ProcCarries, Task, Origin
<1>6. /\ \A t \in Task : t # u => task'[t] = task[t]
      /\ task'[u].pc = "claim" /\ task'[u].what = e.fp
  BY <1>1, <1>2, <1>3, <1>5 DEF NoDispatch
<1>7. \A q \in Proc : ProcAlike(q)
  <2>1. /\ main'[p].pc = main[p].pc /\ main'[p].run = main[p].run /\ main'[p].found = main[p].found
        /\ main'[p].batch = main[p].batch /\ main'[p].base = main[p].base
        /\ main'[p].seen = main[p].seen /\ main'[p].list \subseteq main[p].list
        /\ \A q \in Proc : q # p => main'[q] = main[q]
    BY <1>1, <1>2 DEF Main
  <2> QED BY <1>4, <2>1 DEF ProcAlike
<1>8. \A q \in Proc : /\ Executing(q)' => Executing(q) /\ main'[q].run = main[q].run
                      /\ Writing(q)' => Writing(q)
  BY <1>7 DEF ProcAlike, Executing, Writing
<1>9. /\ OneExecutor'
      /\ \A x \in Run : Ended(x) => Ended(x)'
      /\ \A x \in Run : RowAlike(x) => RowOwes(x)'
      /\ \A q \in Proc : ProcAlike(q) => ProcCarries(q)'
      /\ \A t \in Task : TaskAlike(t) => TaskCarries(t)'
  BY <1>1, <1>4, <1>8, OwingFrame
<1>10. TaskCarries(u)'
  <2>1. Ended(u[3])' /\ Recorded(u[3])' = Recorded(u[3])
    BY <1>4, <1>5, <1>9 DEF Recorded
  <2> QED BY <1>5, <1>6, <2>1 DEF TaskCarries
<1>11. \A t \in Task : TaskCarries(t)'
  BY <1>6, <1>9, <1>10 DEF TaskAlike
<1> QED BY <1>4, <1>7, <1>9, <1>11 DEF Owing, RowAlike

\* The dispatch of u: what it sends is what was recorded, and the entry is
\* marked sent only after it was handed over.
LEMMA OwingDispatch ==
  ASSUME RInv, Owing, NEW u \in Task, DispatchStep(u)
  PROVE  Owing'
<1>1. /\ TInv /\ rows \in [Run -> Row] /\ task \in [Task -> Dispatch]
      /\ task[u] \in Dispatch /\ u[3] \in Run /\ rows[u[3]] \in Row
  BY OwingTypes DEF RInv, TInv, TypeOK
<1>2. main' = main /\ recorded' = recorded /\ attempted \subseteq attempted'
  BY DEF DispatchStep, ClaimWon, ClaimLost, Send, MarkSent
<1>3. /\ \A t \in Task : t # u => task'[t] = task[t]
      /\ \A x \in Run : x # u[3] => rows'[x] = rows[x]
      /\ \A x \in Run : /\ rows'[x].status = rows[x].status
                        /\ rows'[x].trig = rows[x].trig /\ rows'[x].fp = rows[x].fp
  <2>1. CASE ClaimWon(u)
    BY <1>1, <2>1 DEF ClaimWon, Row
  <2>2. CASE ClaimLost(u)
    BY <1>1, <2>2 DEF ClaimLost
  <2>3. CASE Send(u)
    BY <1>1, <2>3 DEF Send
  <2>4. CASE MarkSent(u)
    BY <1>1, <2>4 DEF MarkSent, Write, Row
  <2> QED BY <2>1, <2>2, <2>3, <2>4 DEF DispatchStep
<1>4. /\ OneExecutor'
      /\ \A x \in Run : Ended(x) => Ended(x)'
      /\ \A x \in Run : RowAlike(x) => RowOwes(x)'
      /\ \A q \in Proc : ProcAlike(q) => ProcCarries(q)'
      /\ \A t \in Task : TaskAlike(t) => TaskCarries(t)'
  <2>1. \A q \in Proc : /\ Executing(q)' => Executing(q) /\ main'[q].run = main[q].run
                        /\ Writing(q)' => Writing(q)
    BY <1>2 DEF Executing, Writing
  <2>2. \A x \in Run : rows'[x].status \in {"none", "running"} => rows'[x].status = rows[x].status
    BY <1>3
  <2> QED BY <1>1, <1>2, <2>1, <2>2, OwingFrame
<1>5. \A q \in Proc : ProcCarries(q)'
  <2>1. \A q \in Proc : Writing(q) => main[q].run \in Run
    BY <1>1, OwingTypes
  <2>2. \A q \in Proc : ProcAlike(q)
    BY <1>2, <1>3, <2>1 DEF ProcAlike
  <2> QED BY <1>4, <2>2
<1>6. RowOwes(u[3]) /\ TaskCarries(u)
  BY <1>1 DEF Owing
<1>7. RowOwes(u[3])' /\ TaskCarries(u)'
  <2>1. Recorded(u[3])' = Recorded(u[3]) /\ (Present(u[3])' <=> Present(u[3]))
    BY <1>1, <1>2, <1>3 DEF Recorded, Present
  <2>2. Ended(u[3]) => Ended(u[3])'
    BY <1>1, <1>4
  <2>3. CASE ClaimWon(u)
    <3>1. /\ rows'[u[3]].notify = "sending" /\ rows[u[3]].notify \in {"pending", "sending"}
          /\ task[u].pc = "claim" /\ task'[u].pc = "send" /\ task'[u].what = task[u].what
          /\ attempted' = attempted
      BY <1>1, <2>3 DEF ClaimWon, Due, Row, Dispatch
    <3>2. RowOwes(u[3])'
      BY <1>1, <1>3, <1>6, <2>1, <3>1 DEF RowOwes
    <3> QED BY <1>6, <2>1, <2>2, <3>1, <3>2 DEF TaskCarries
  <2>4. CASE ClaimLost(u)
    <3>1. rows' = rows /\ attempted' = attempted /\ task'[u].pc = "none"
      BY <1>1, <2>4 DEF ClaimLost, NoDispatch
    <3> QED BY <1>1, <1>4, <3>1 DEF RowAlike, TaskAlike
  <2>5. CASE Send(u)
    <3>1. /\ rows' = rows /\ attempted' = attempted \cup ({u[3]} \X task[u].what)
          /\ task[u].pc = "send" /\ task'[u].pc = "mark" /\ task'[u].what = task[u].what
      BY <1>1, <2>5 DEF Send, Dispatch
    <3>2. RowOwes(u[3])'
      BY <1>1, <1>4, <3>1 DEF RowAlike
    <3> QED BY <1>6, <2>1, <2>2, <3>1, <3>2 DEF TaskCarries
  <2>6. CASE MarkSent(u)
    <3>1. /\ task[u].pc = "mark" /\ task'[u].pc = "none" /\ attempted' = attempted
          /\ rows'[u[3]].notify = "sent" \/ (~Present(u[3]) /\ rows' = rows)
      BY <1>1, <2>6 DEF MarkSent, Write, NoDispatch, Row
    <3>2. {u[3]} \X (Recorded(u[3]) \cap Problems) \subseteq attempted
      BY <1>6, <3>1 DEF TaskCarries
    <3>3. RowOwes(u[3])'
      <4>1. CASE rows'[u[3]].notify = "sent"
        BY <1>1, <1>3, <1>6, <2>1, <3>1, <3>2, <4>1 DEF RowOwes
      <4>2. CASE rows' = rows
        BY <1>1, <1>4, <4>2 DEF RowAlike
      <4> QED BY <3>1, <4>1, <4>2
    <3> QED BY <3>1, <3>3 DEF TaskCarries
  <2> QED BY <2>3, <2>4, <2>5, <2>6 DEF DispatchStep
<1>8. \A x \in Run : RowOwes(x)'
  <2>1. \A x \in Run : x # u[3] => RowAlike(x)
    BY <1>3 DEF RowAlike
  <2> QED BY <1>4, <1>7, <2>1
<1>9. \A t \in Task : TaskCarries(t)'
  <2>1. \A t \in Task : t # u => TaskAlike(t)
    BY <1>3 DEF TaskAlike
  <2> QED BY <1>4, <1>7, <2>1
<1> QED BY <1>4, <1>5, <1>8, <1>9 DEF Owing

\* A run that starts has nothing recorded, and nobody carries anything of it.
LEMMA OwingStartRun ==
  ASSUME RInv, Owing, NEW p \in Proc, NEW r \in Run, NEW trig \in {"manual", "schedule"},
         NEW cats \in SUBSET Category, StartRun(p, r, trig, cats)
  PROVE  Owing'
<1>1. TInv /\ main \in [Proc -> Main] /\ rows \in [Run -> Row]
  BY DEF RInv, TInv, TypeOK
<1>2. /\ main[p].pc = "idle" /\ rows[r].status = "none"
      /\ Inserted(r, trig, {x \in Run : PrunedBy(x, trig)})
      /\ main' = [main EXCEPT ![p] = [At("scan") EXCEPT !.run = r, !.todo = cats]]
      /\ task' = task /\ recorded' = recorded /\ attempted' = attempted
  BY DEF StartRun
<1>3. Recorded(r) = {}
  <2>1. RowOwes(r)
    BY DEF Owing
  <2> QED BY <1>2, <2>1 DEF RowOwes
<1>4. rows'[r].status = "running" /\ rows'[r].notify = "none"
  BY <1>2 DEF Inserted, NoRow
<1>5. \A x \in Run : x # r => \/ rows'[x] = rows[x]
                              \/ rows'[x].status = "pruned" /\ rows'[x].notify = "none"
  BY <1>2 DEF Inserted, NoRow
<1>6. /\ main'[p].pc = "scan" /\ main'[p].run = r /\ main'[p].seen = {}
      /\ \A q \in Proc : q # p => main'[q] = main[q]
  BY <1>1, <1>2 DEF At
<1>7. \A x : Recorded(x)' = Recorded(x)
  BY <1>2 DEF Recorded
<1>8. \A q \in Proc : Executing(q) => main[q].run \in Run /\ main[q].run # r
  BY <1>1, <1>2, ExecutedRun DEF RInv, ExecutedFresh
<1>9. \A x \in Run : Ended(x) => Ended(x)'
  <2> SUFFICES ASSUME NEW x \in Run, Ended(x) PROVE Ended(x)'
    OBVIOUS
  <2>1. x # r
    BY <1>2 DEF Ended
  <2>2. rows'[x].status \notin {"none", "running"}
    BY <1>5, <2>1 DEF Ended
  <2>3. \A q \in Proc : Writing(q)' => (Writing(q) /\ main'[q].run = main[q].run) \/ main'[q].run # x
    BY <1>6, <2>1 DEF Writing
  <2> QED BY <2>2, <2>3, EndedStays
<1>10. OneExecutor'
  <2> SUFFICES ASSUME NEW o \in Proc, NEW q \in Proc, Executing(o)', Executing(q)',
                      main'[o].run = main'[q].run
               PROVE  o = q
    BY DEF OneExecutor
  <2>1. \A x \in Proc : x # p /\ Executing(x)' => Executing(x) /\ main'[x] = main[x]
    BY <1>6 DEF Executing
  <2> QED BY <1>6, <1>8, <2>1 DEF Owing, OneExecutor
<1>11. \A x \in Run : RowOwes(x)'
  <2> SUFFICES ASSUME NEW x \in Run PROVE RowOwes(x)'
    OBVIOUS
  <2>1. RowOwes(x)
    BY DEF Owing
  <2>2. CASE x = r
    BY <1>3, <1>4, <1>7, <2>2 DEF RowOwes
  <2>3. CASE x # r /\ rows'[x] = rows[x]
    BY <1>2, <1>7, <2>1, <2>3, RowStays
  <2>4. CASE x # r /\ rows'[x].status = "pruned" /\ rows'[x].notify = "none"
    BY <2>4 DEF RowOwes, Present
  <2> QED BY <1>5, <2>2, <2>3, <2>4
<1>12. \A q \in Proc : ProcCarries(q)'
  <2>1. ProcCarries(p)'
    BY <1>3, <1>4, <1>6, <1>7 DEF ProcCarries, Writing, Reaping
  <2>2. ASSUME NEW q \in Proc, q # p PROVE ProcCarries(q)'
    <3>1. ProcCarries(q) /\ main'[q] = main[q]
      BY <1>6, <2>2 DEF Owing
    <3>2. Writing(q) => rows'[main[q].run].status \in {rows[main[q].run].status, "pruned"}
      BY <1>5, <1>8 DEF Writing, Executing
    <3>3. main[q].pc = "announce" => Ended(main[q].run)'
      <4> SUFFICES ASSUME main[q].pc = "announce" PROVE Ended(main[q].run)'
        OBVIOUS
      <4>1. PICK x \in Run : x = main[q].run
        BY <1>8 DEF Executing
      <4>2. Ended(x)'
        BY <1>9, <3>1, <4>1 DEF ProcCarries
      <4> QED BY <3>1, <4>1, <4>2 DEF Ended
    <3>4. \A e \in main[q].list : Ended(e.run) => Ended(e.run)'
      BY <1>1, <1>9, ListedRun
    <3>5. Recorded(main[q].run)' = Recorded(main[q].run)
      BY <1>7, <3>1 DEF Recorded
    <3> QED BY <1>7, <3>1, <3>2, <3>3, <3>4, <3>5, ProcStays
  <2> QED BY <2>1, <2>2
<1>13. \A t \in Task : TaskCarries(t)'
  BY <1>1, <1>2, <1>7, <1>9, TaskStays, OwingTypes DEF Owing
<1> QED BY <1>10, <1>11, <1>12, <1>13 DEF Owing

LEMMA OwingInit == Init => Owing
<1> SUFFICES ASSUME Init PROVE Owing
  OBVIOUS
<1>1. /\ \A r \in Run : rows[r].status = "none" /\ rows[r].notify = "none"
      /\ \A p \in Proc : main[p].pc = "idle"
      /\ \A t \in Task : task[t].pc = "none"
      /\ recorded = {}
  BY DEF Init, NoRow, At, NoDispatch
<1>2. OneExecutor
  BY <1>1 DEF OneExecutor, Executing
<1>3. \A r \in Run : RowOwes(r)
  BY <1>1 DEF RowOwes, Recorded, Present
<1>4. \A p \in Proc : ProcCarries(p)
  BY <1>1 DEF ProcCarries, Writing, Reaping
<1> QED BY <1>1, <1>2, <1>3, <1>4 DEF Owing, TaskCarries

LEMMA OwingScan ==
  ASSUME RInv, Owing, NEW p \in Proc, Scan(p)
  PROVE  Owing'
  BY OwingContextFails, OwingCategory, OwingProgressRead, OwingProgressWrite,
     OwingFinishScan, OwingAnnounce, OwingCatchFinish DEF Scan

LEMMA OwingSweep ==
  ASSUME RInv, Owing, NEW p \in Proc, Sweep(p)
  PROVE  Owing'
  BY OwingListStale, OwingRecoverInterrupted, OwingListDue, OwingRecoverPending,
     OwingFree DEF Sweep

\* A step that is not a failed database call keeps what is owed.
LEMMA OwingStep ==
  ASSUME RInv, Owing, [Next]_vars, faults'.db = 0
  PROVE  Owing'
<1>1. faults \in [crash : 0..MaxCrash, db : 0..MaxDbFail]
  BY DEF RInv, TInv, TypeOK
<1>2. ~DbFails
  BY <1>1, BoundAssumption DEF DbFails
<1>3. ASSUME NEW p \in Proc, NEW r \in Run, NEW trig \in {"manual", "schedule"},
             NEW cats \in SUBSET Category, StartRun(p, r, trig, cats)
      PROVE  Owing'
  BY <1>3, OwingStartRun
<1>4. ASSUME NEW p \in Proc, Heartbeat(p) \/ Scan(p) \/ Sweep(p) \/ Restart(p)
      PROVE  Owing'
  BY <1>4, OwingHeartbeat, OwingScan, OwingSweep, OwingFree
<1>5. ASSUME NEW t \in Task, DispatchStep(t) PROVE Owing'
  BY <1>5, OwingDispatch
<1>6. CASE Fault
  <2>1. PICK p \in Proc : Crash(p)
    BY <1>2, <1>6 DEF Fault, StartThrows, CategoryThrows, FinishThrows, CatchThrows, SweepThrows,
       DispatchThrows
  <2> QED BY <2>1, OwingFree
<1>7. CASE Tick
  BY <1>7, OwingTick
<1>8. CASE UNCHANGED vars
  <2>1. /\ rows' = rows /\ main' = main /\ task' = task
        /\ recorded' = recorded /\ attempted' = attempted
    BY <1>8 DEF vars
  <2> QED BY <2>1, OwingQuiet DEF RInv, RowAlike, ProcAlike, TaskAlike
<1> QED BY <1>3, <1>4, <1>5, <1>6, <1>7, <1>8 DEF Next

\* Failed calls are only ever counted up.
LEMMA OwingFaults ==
  ASSUME TInv, [Next]_vars, faults'.db = 0
  PROVE  faults.db = 0
<1>1. faults \in [crash : 0..MaxCrash, db : 0..MaxDbFail]
  BY DEF TInv, TypeOK
<1>2. ~DbFails
  BY <1>1, BoundAssumption DEF DbFails
<1>3. ASSUME NEW p \in Proc, Crash(p) PROVE faults'.db = faults.db
  BY <1>1, <1>3 DEF Crash
<1>4. CASE Fault
  <2>1. PICK p \in Proc : Crash(p)
    BY <1>2, <1>4 DEF Fault, StartThrows, CategoryThrows, FinishThrows, CatchThrows, SweepThrows,
       DispatchThrows
  <2> QED BY <1>3, <2>1
<1>5. ASSUME NEW p \in Proc, Scan(p) PROVE faults' = faults
  BY <1>5 DEF Scan, ContextFails, CategoryFails, CategorySynced, ProgressRead, ProgressWrite,
     FinishScan, Announce, CatchFinish
<1>6. ASSUME NEW p \in Proc, Sweep(p) PROVE faults' = faults
  BY <1>6 DEF Sweep, ListStale, RecoverInterrupted, ListDue, RecoverPending, EndSweep
<1>7. ASSUME NEW t \in Task, DispatchStep(t) PROVE faults' = faults
  BY <1>7 DEF DispatchStep, ClaimWon, ClaimLost, Send, MarkSent
<1>8. ASSUME NEW p \in Proc, Heartbeat(p) \/ Restart(p) PROVE faults' = faults
  BY <1>8 DEF Heartbeat, Restart
<1>9. ASSUME NEW p \in Proc, NEW r \in Run, NEW trig \in {"manual", "schedule"},
             NEW cats \in SUBSET Category, StartRun(p, r, trig, cats)
      PROVE  faults' = faults
  BY <1>9 DEF StartRun
<1>10. CASE Tick
  BY <1>10 DEF Tick
<1>11. CASE UNCHANGED vars
  BY <1>11 DEF vars
<1> QED BY <1>4, <1>5, <1>6, <1>7, <1>8, <1>9, <1>10, <1>11 DEF Next

\* RecordedIsOwed: until a database call fails, what a scheduled run recorded is
\* on its row while it runs, and due, held or handed over once it is closed,
\* whoever crashes and however recoveries, dispatches and executors interleave
\* (run-executor.ts executeTarget, startup-recovery.ts, dispatch.ts).
THEOREM RecordedStaysOwed ==
  ASSUME BeatBound <= Stale
  PROVE  Spec => []RecordedIsOwed
<1>1. Init => OInv
  BY ReapInit, OwingInit DEF OInv
<1>2. OInv /\ [Next]_vars => OInv'
  <2> SUFFICES ASSUME OInv, [Next]_vars PROVE OInv'
    OBVIOUS
  <2>1. RInv'
    BY ReapStep DEF OInv
  <2>2. faults'.db = 0 => faults.db = 0
    BY OwingFaults DEF OInv, RInv
  <2> QED BY <2>1, <2>2, OwingStep DEF OInv
<1>3. OInv => RecordedIsOwed
  <2> SUFFICES ASSUME OInv, faults.db = 0, NEW r \in Run, NEW c \in Problems,
                      <<r, c>> \in recorded, Present(r), rows[r].trig = "schedule"
               PROVE  /\ c \in rows[r].fp
                      /\ rows[r].status # "running" =>
                            rows[r].notify \in {"pending", "sending"} \/ <<r, c>> \in attempted
    BY DEF RecordedIsOwed
  <2>1. RowOwes(r) /\ c \in Recorded(r)
    BY ProblemsAssumption DEF OInv, Owing, Recorded
  <2> QED BY <2>1 DEF RowOwes
<1> QED BY <1>1, <1>2, <1>3, PTL DEF Spec

---------------------------------------------------------------------------
(* The outbox's promise.  With one container nobody closes a run behind its *)
(* executor or behind another recovery pass: what is written on a row is    *)
(* always the row as it was and more, and a dispatch sends what is on it.   *)

Alone == \A p, q \in Proc : p = q

Over(r) == Present(r) /\ rows[r].status # "running"
Owed(r) == rows[r].notify \in {"pending", "sending"}
AllTold(r, what) == {r} \X what \subseteq attempted

RowKept(r) ==
    /\ rows[r].status = "none" => rows[r].fp = {} /\ \A c \in Category : <<r, c>> \notin attempted
    /\ Owed(r) => Over(r)

\* What the executor knows of its row.
RunKept(p) ==
    LET r == main[p].run IN
    Executing(p) =>
        /\ rows[r].status # "none"
        /\ \A t \in Task : t[3] = r => task[t].pc = "none"
        /\ main[p].pc \in {"synced", "write"} => \A c, d \in main[p].batch : c = d
        /\ main[p].pc = "write" => main[p].batch \subseteq main[p].found
        /\ Present(r) =>
              /\ main[p].pc \in {"scan", "synced", "write"} =>
                    /\ rows[r].status = "running" /\ rows[r].fp \subseteq main[p].found
                    /\ main[p].seen = {} => rows[r].fp = {}
              /\ main[p].pc = "write" => main[p].base = rows[r].fp
              /\ main[p].pc = "announce" => Owed(r) /\ rows[r].fp = main[p].found
              /\ main[p].pc = "catch" => \/ rows[r].status = "running" /\ rows[r].fp = {}
                                         \/ faults.db > 0 /\ (rows[r].status = "running" \/ Owed(r))

ListKept(p) ==
    /\ Reaping(p) => \A e \in main[p].list :
          /\ rows[e.run].status # "none"
          /\ Present(e.run) => rows[e.run].status = "running" /\ rows[e.run].fp = e.fp
    /\ main[p].pc = "sweep2" => \A e \in main[p].list :
          /\ rows[e.run].status # "none"
          /\ Present(e.run) => Over(e.run) /\ rows[e.run].fp = e.fp

TaskKept(t) ==
    task[t].pc # "none" =>
        /\ rows[t[3]].status # "none"
        /\ Present(t[3]) =>
              /\ Over(t[3]) /\ task[t].what = rows[t[3]].fp
              /\ task[t].pc = "send" => Owed(t[3]) \/ AllTold(t[3], task[t].what)
              /\ task[t].pc = "mark" => AllTold(t[3], task[t].what)

Kept ==
    /\ \A r \in Run : RowKept(r)
    /\ \A p \in Proc : RunKept(p) /\ ListKept(p)
    /\ \A t \in Task : TaskKept(t)

KInv == TInv /\ Kept

\* What of a row the promise reads.
RowSame(r) ==
    /\ rows'[r].status = rows[r].status /\ rows'[r].trig = rows[r].trig
    /\ rows'[r].fp = rows[r].fp /\ rows'[r].notify = rows[r].notify

RunSame(p) ==
    /\ main'[p].pc = main[p].pc /\ main'[p].run = main[p].run /\ main'[p].found = main[p].found
    /\ main'[p].batch = main[p].batch /\ main'[p].base = main[p].base
    /\ main'[p].seen = main[p].seen /\ main'[p].list \subseteq main[p].list

LEMMA KeptTypes ==
  ASSUME TInv
  PROVE  /\ rows \in [Run -> Row] /\ main \in [Proc -> Main] /\ task \in [Task -> Dispatch]
         /\ \A p \in Proc : Executing(p) => main[p].run \in Run
         /\ \A p \in Proc : \A e \in main[p].list : e.run \in Run /\ e.fp \in SUBSET Category
         /\ \A t \in Task : t[3] \in Run
<1>1. \A p \in Proc : main[p] \in Main
  BY DEF TInv, TypeOK
<1>2. \A p \in Proc : \A e \in main[p].list : e.run \in Run /\ e.fp \in SUBSET Category
  BY <1>1 DEF Main, Listed
<1> QED BY <1>2, ExecutedRun DEF TInv, TypeOK, Task

LEMMA KeptRow ==
  ASSUME NEW r, RowKept(r), RowSame(r),
         \A c \in Category : <<r, c>> \in attempted' => <<r, c>> \in attempted
  PROVE  RowKept(r)'
  BY DEF RowKept, RowSame, Owed, Over, Present

LEMMA KeptRun ==
  ASSUME NEW p \in Proc, RunKept(p), RunSame(p),
         Executing(p) => RowSame(main[p].run) \/ rows'[main[p].run].status = "pruned",
         faults.db > 0 => faults'.db > 0,
         \A t \in Task : TaskAlike(t)
  PROVE  RunKept(p)'
<1> SUFFICES ASSUME Executing(p)' PROVE RunKept(p)'
  BY DEF RunKept
<1>1. Executing(p) /\ main'[p].run = main[p].run
  BY DEF RunSame, Executing
<1>2. \A t \in Task : t[3] = main[p].run => task'[t].pc = "none"
  BY <1>1 DEF RunKept, TaskAlike
<1>3. CASE RowSame(main[p].run)
  BY <1>1, <1>2, <1>3 DEF RunKept, RunSame, RowSame, Present, Owed
<1>4. CASE rows'[main[p].run].status = "pruned"
  BY <1>1, <1>2, <1>4 DEF RunKept, RunSame, Present
<1> QED BY <1>1, <1>3, <1>4

LEMMA KeptList ==
  ASSUME NEW p \in Proc, ListKept(p), main'[p].pc = main[p].pc, main'[p].list \subseteq main[p].list,
         \A e \in main'[p].list : RowSame(e.run) \/ rows'[e.run].status = "pruned"
  PROVE  ListKept(p)'
<1>1. Reaping(p)' <=> Reaping(p)
  BY DEF Reaping
<1>2. \A e \in main'[p].list : rows'[e.run].status # "pruned" => RowSame(e.run)
  OBVIOUS
<1>3. (Reaping(p) => \A e \in main[p].list :
          /\ rows[e.run].status # "none"
          /\ Present(e.run) => rows[e.run].status = "running" /\ rows[e.run].fp = e.fp)'
  BY <1>1, <1>2 DEF ListKept, RowSame, Present
<1>4. (main[p].pc = "sweep2" => \A e \in main[p].list :
          /\ rows[e.run].status # "none"
          /\ Present(e.run) => Over(e.run) /\ rows[e.run].fp = e.fp)'
  BY <1>2 DEF ListKept, RowSame, Present, Over
<1> QED BY <1>3, <1>4 DEF ListKept

LEMMA KeptTask ==
  ASSUME NEW t \in Task, TaskKept(t), TaskAlike(t), attempted \subseteq attempted',
         task[t].pc # "none" => RowSame(t[3]) \/ rows'[t[3]].status = "pruned"
  PROVE  TaskKept(t)'
<1> SUFFICES ASSUME task'[t].pc # "none" PROVE TaskKept(t)'
  BY DEF TaskKept
<1>1. task'[t].pc = task[t].pc /\ task'[t].what = task[t].what
  BY DEF TaskAlike
<1>2. AllTold(t[3], task[t].what) => AllTold(t[3], task[t].what)'
  BY <1>1 DEF AllTold
<1>3. CASE RowSame(t[3])
  BY <1>1, <1>2, <1>3 DEF TaskKept, RowSame, Present, Over, Owed
<1>4. CASE rows'[t[3]].status = "pruned"
  BY <1>1, <1>4 DEF TaskKept, Present
<1> QED BY <1>1, <1>3, <1>4

\* One that does nothing holds nothing.
LEMMA KeptFree ==
  ASSUME NEW p \in Proc, main'[p].pc \in {"down", "boot", "idle"}
  PROVE  RunKept(p)' /\ ListKept(p)'
  BY DEF RunKept, ListKept, Executing, Reaping

\* A step of the only container that leaves the rows alone.
LEMMA KeptMove ==
  ASSUME Alone, TInv, Kept, NEW p \in Proc, \A r \in Run : RowSame(r), attempted' = attempted,
         RunKept(p)', ListKept(p)', \A t \in Task : TaskAlike(t) \/ TaskKept(t)'
  PROVE  Kept'
<1>1. \A r \in Run : RowKept(r)'
  BY KeptRow DEF Kept
<1>2. \A t \in Task : TaskKept(t)'
  BY KeptTask, KeptTypes DEF Kept
<1> QED BY <1>1, <1>2 DEF Kept, Alone

\* Steps the promise does not see.
LEMMA PromiseStutter ==
  ASSUME TInv, TInv', \A r \in Run : rows'[r].trig = rows[r].trig /\ rows'[r].fp = rows[r].fp
                                     /\ rows'[r].status = rows[r].status,
         \A r \in Run : Owed(r)' <=> Owed(r),
         attempted' = attempted, faults'.db > 0 <=> faults.db > 0
  PROVE  UNCHANGED Outbox!vars
<1>1. \A r \in Run : Present(r)' <=> Present(r)
  BY DEF Present
<1>2. attempted \subseteq Run \X Category
  BY DEF TInv, TypeOK
<1>3. {r \in Run : Present(r) /\ rows[r].trig = "schedule"}'
        = {r \in Run : Present(r) /\ rows[r].trig = "schedule"}
  BY <1>1
<1>4. [r \in Run |-> IF rows[r].status \in {"none", "running"} THEN "open"
                     ELSE IF rows[r].notify \in {"pending", "sending"} THEN "owed"
                     ELSE "closed"]'
        = [r \in Run |-> IF rows[r].status \in {"none", "running"} THEN "open"
                     ELSE IF rows[r].notify \in {"pending", "sending"} THEN "owed"
                     ELSE "closed"]
  BY DEF Owed
<1>5. [r \in Run |-> rows[r].fp]' = [r \in Run |-> rows[r].fp]
  OBVIOUS
<1>6. {x \in attempted : Present(x[1])}' = {x \in attempted : Present(x[1])}
  BY <1>1, <1>2
<1>7. (faults.db > 0)' = (faults.db > 0)
  OBVIOUS
<1> QED BY <1>3, <1>4, <1>5, <1>6, <1>7 DEF Outbox!vars

\* Nothing the invariant reads moves, but for what is dropped.
LEMMA KeptStill ==
  ASSUME TInv, Kept, attempted' = attempted, faults.db > 0 => faults'.db > 0,
         \A r \in Run : RowSame(r),
         \A p \in Proc : RunSame(p) \/ main'[p].pc \in {"down", "boot", "idle"},
         \A t \in Task : TaskAlike(t)
  PROVE  Kept'
<1>1. \A r \in Run : RowKept(r)'
  BY KeptRow DEF Kept
<1>2. \A t \in Task : TaskKept(t)'
  BY KeptTask, KeptTypes DEF Kept
<1>3. ASSUME NEW p \in Proc, RunSame(p) PROVE RunKept(p)' /\ ListKept(p)'
  <2>1. \A e \in main'[p].list : RowSame(e.run)
    BY <1>3, KeptTypes DEF RunSame
  <2>2. main'[p].pc = main[p].pc /\ main'[p].list \subseteq main[p].list
    BY <1>3 DEF RunSame
  <2> QED BY <1>3, <2>1, <2>2, KeptRun, KeptList, KeptTypes DEF Kept
<1>4. ASSUME NEW p \in Proc, main'[p].pc \in {"down", "boot", "idle"} PROVE RunKept(p)' /\ ListKept(p)'
  BY <1>4, KeptFree
<1> QED BY <1>1, <1>2, <1>3, <1>4 DEF Kept

\* A step that leaves alone, or drops, everything the invariant reads.
Still ==
    /\ attempted' = attempted /\ faults'.db = faults.db
    /\ \A r \in Run : RowSame(r)
    /\ \A p \in Proc : RunSame(p) \/ main'[p].pc \in {"down", "boot", "idle"}
    /\ \A t \in Task : TaskAlike(t)

LEMMA HeartbeatStill ==
  ASSUME TInv, NEW p \in Proc, Heartbeat(p)
  PROVE  Still
<1>1. rows \in [Run -> Row]
  BY KeptTypes
<1>2. \A r \in Run : /\ rows'[r].status = rows[r].status /\ rows'[r].trig = rows[r].trig
                     /\ rows'[r].fp = rows[r].fp /\ rows'[r].notify = rows[r].notify
  BY <1>1 DEF Heartbeat, Row
<1>3. main' = main /\ task' = task /\ attempted' = attempted /\ faults' = faults
  BY DEF Heartbeat
<1> QED BY <1>2, <1>3 DEF Still, RowSame, RunSame, TaskAlike

LEMMA TickStill ==
  ASSUME TInv, Tick
  PROVE  Still
<1>1. rows \in [Run -> Row] /\ main \in [Proc -> Main] /\ task \in [Task -> Dispatch]
  BY KeptTypes
<1>2. attempted' = attempted /\ faults' = faults
  BY DEF Tick
<1>3. \A r \in Run : /\ rows'[r].status = rows[r].status /\ rows'[r].trig = rows[r].trig
                     /\ rows'[r].fp = rows[r].fp /\ rows'[r].notify = rows[r].notify
  BY <1>1 DEF Tick, Row
<1>4. \A p \in Proc :
        /\ main'[p].pc = main[p].pc /\ main'[p].run = main[p].run /\ main'[p].found = main[p].found
        /\ main'[p].batch = main[p].batch /\ main'[p].base = main[p].base
        /\ main'[p].seen = main[p].seen /\ main'[p].list = main[p].list
  BY <1>1 DEF Tick, Main
<1>5. \A t \in Task : task'[t].pc = task[t].pc /\ task'[t].what = task[t].what
  BY <1>1 DEF Tick, Dispatch
<1> QED BY <1>2, <1>3, <1>4, <1>5 DEF Still, RowSame, RunSame, TaskAlike

LEMMA DropStill ==
  ASSUME TInv, NEW p \in Proc, EndSweep(p) \/ Restart(p) \/ Crash(p)
  PROVE  Still
<1>1. main \in [Proc -> Main] /\ faults \in [crash : 0..MaxCrash, db : 0..MaxDbFail]
  BY DEF TInv, TypeOK
<1>2. rows' = rows /\ attempted' = attempted
  BY DEF EndSweep, Restart, Crash
<1>3. faults'.db = faults.db
  BY <1>1 DEF EndSweep, Restart, Crash
<1>4. main'[p].pc \in {"down", "boot", "idle"} /\ \A q \in Proc : q # p => main'[q] = main[q]
  BY <1>1 DEF EndSweep, Restart, Crash, At
<1>5. \A t \in Task : task'[t] = task[t] \/ task'[t] = NoDispatch
  BY DEF EndSweep, Restart, Crash
<1> QED BY <1>2, <1>3, <1>4, <1>5 DEF Still, RowSame, RunSame, TaskAlike, NoDispatch

LEMMA ClaimLostStill ==
  ASSUME TInv, NEW u \in Task, ClaimLost(u)
  PROVE  Still
<1>1. task \in [Task -> Dispatch]
  BY KeptTypes
<1>2. rows' = rows /\ attempted' = attempted /\ main' = main /\ faults' = faults
  BY DEF ClaimLost
<1>3. \A t \in Task : task'[t] = task[t] \/ task'[t] = NoDispatch
  BY <1>1 DEF ClaimLost
<1> QED BY <1>2, <1>3 DEF Still, RowSame, RunSame, TaskAlike, NoDispatch

LEMMA StillKeeps ==
  ASSUME TInv, TInv', Kept, Still
  PROVE  Kept' /\ UNCHANGED Outbox!vars
<1>1. \A r \in Run : Owed(r)' <=> Owed(r)
  BY DEF Still, RowSame, Owed
<1> QED BY <1>1, KeptStill, PromiseStutter DEF Still, RowSame

\* What only moves the executor, or hands a run to a dispatch.
LEMMA KeptContextFails ==
  ASSUME Alone, TInv, Kept, NEW p \in Proc, ContextFails(p)
  PROVE  Kept'
<1>1. main \in [Proc -> Main] /\ main[p] \in Main
  BY KeptTypes
<1>2. /\ main[p].pc = "scan" /\ main[p].seen = {} /\ main' = [main EXCEPT ![p].pc = "catch"]
      /\ rows' = rows /\ task' = task /\ attempted' = attempted /\ faults' = faults
  BY DEF ContextFails
<1>3. main'[p].pc = "catch" /\ main'[p].run = main[p].run
  BY <1>1, <1>2 DEF Main
<1>4. RunKept(p) /\ Executing(p)
  BY <1>2 DEF Kept, Executing
<1>5. RunKept(p)'
  BY <1>2, <1>3, <1>4 DEF RunKept, Present, Executing
<1>6. ListKept(p)'
  BY <1>3 DEF ListKept, Reaping
<1> QED BY <1>2, <1>5, <1>6, KeptMove DEF RowSame, TaskAlike

LEMMA KeptCategory ==
  ASSUME Alone, TInv, Kept, NEW p \in Proc, NEW c \in Category,
         CategoryFails(p, c) \/ CategorySynced(p, c)
  PROVE  Kept'
<1>1. main \in [Proc -> Main] /\ main[p] \in Main
  BY KeptTypes
<1>2. /\ main[p].pc = "scan"
      /\ rows' = rows /\ task' = task /\ attempted' = attempted /\ faults' = faults
  BY DEF CategoryFails, CategorySynced
<1>3. /\ main'[p].run = main[p].run /\ main'[p].found = main[p].found
      /\ main[p].seen \subseteq main'[p].seen
      /\ \/ main'[p].pc = "scan"
         \/ main'[p].pc = "synced" /\ main'[p].batch \subseteq {c}
  <2>1. CASE CategoryFails(p, c)
    BY <1>1, <2>1 DEF CategoryFails, Main
  <2>2. CASE CategorySynced(p, c)
    <3>1. PICK new \in {{}, {c}} :
            main' = [main EXCEPT ![p].pc = "synced", ![p].todo = @ \ {c}, ![p].batch = new]
      BY <2>2 DEF CategorySynced
    <3> QED BY <1>1, <3>1 DEF Main
  <2> QED BY <2>1, <2>2
<1>4. RunKept(p) /\ Executing(p)
  BY <1>2 DEF Kept, Executing
<1>5. main'[p].seen = {} => main[p].seen = {}
  BY <1>3
<1>6. RunKept(p)'
  BY <1>2, <1>3, <1>4, <1>5 DEF RunKept, Present, Executing
<1>7. ListKept(p)'
  BY <1>3 DEF ListKept, Reaping
<1> QED BY <1>2, <1>6, <1>7, KeptMove DEF RowSame, TaskAlike

LEMMA KeptProgressRead ==
  ASSUME Alone, TInv, Kept, NEW p \in Proc, ProgressRead(p)
  PROVE  Kept'
<1>1. main \in [Proc -> Main] /\ main[p] \in Main
  BY KeptTypes
<1>2. PICK coverage \in {{}, {"partial"}} :
        main' = [main EXCEPT ![p].pc = "write", ![p].found = @ \cup main[p].batch,
                             ![p].base = rows[main[p].run].fp, ![p].seen = @ \cup coverage]
  BY DEF ProgressRead
<1>3. /\ main[p].pc = "synced"
      /\ rows' = rows /\ task' = task /\ attempted' = attempted /\ faults' = faults
  BY DEF ProgressRead
<1>4. /\ main'[p].pc = "write" /\ main'[p].run = main[p].run /\ main'[p].batch = main[p].batch
      /\ main'[p].found = main[p].found \cup main[p].batch
      /\ main'[p].base = rows[main[p].run].fp /\ main'[p].seen = main[p].seen \cup coverage
  BY <1>1, <1>2 DEF Main
<1>5. RunKept(p) /\ Executing(p)
  BY <1>3 DEF Kept, Executing
<1>6. main'[p].seen = {} => main[p].seen = {}
  BY <1>4
<1>7. RunKept(p)'
  BY <1>3, <1>4, <1>5, <1>6 DEF RunKept, Present, Executing
<1>8. ListKept(p)'
  BY <1>4 DEF ListKept, Reaping
<1> QED BY <1>3, <1>7, <1>8, KeptMove DEF RowSame, TaskAlike

\* A dispatch begins with what is on the row of a run that is over.
LEMMA KeptAnnounce ==
  ASSUME Alone, TInv, Kept, NEW p \in Proc, Announce(p)
  PROVE  Kept'
<1>0. PICK r, u : r = main[p].run /\ u = <<p, "live", r>>
  OBVIOUS
<1>1. main \in [Proc -> Main] /\ task \in [Task -> Dispatch]
  BY KeptTypes
<1>2. /\ main[p].pc = "announce"
      /\ rows' = rows /\ attempted' = attempted
      /\ task' = [task EXCEPT ![u] = [NoDispatch EXCEPT !.pc = "claim", !.what = main[p].found]]
      /\ main' = [main EXCEPT ![p] = At("idle")]
  BY <1>0 DEF Announce
<1>3. RunKept(p) /\ Executing(p) /\ r \in Run /\ u \in Task /\ u[3] = r
  BY <1>0, <1>2, KeptTypes DEF Kept, Executing, Task, Origin
<1>4. main'[p].pc = "idle"
  BY <1>1, <1>2 DEF At
<1>5. /\ \A t \in Task : t # u => task'[t] = task[t]
      /\ task'[u].pc = "claim" /\ task'[u].what = main[p].found
  BY <1>1, <1>2, <1>3 DEF NoDispatch
<1>6. /\ rows[r].status # "none"
      /\ Present(r) => Over(r) /\ rows[r].fp = main[p].found
  <2>1. RowKept(r)
    BY <1>3 DEF Kept
  <2> QED BY <1>0, <1>2, <1>3, <2>1 DEF RunKept, RowKept
<1>7. TaskKept(u)'
  BY <1>2, <1>3, <1>5, <1>6 DEF TaskKept, Present, Over
<1>8. \A t \in Task : TaskAlike(t) \/ TaskKept(t)'
  BY <1>5, <1>7 DEF TaskAlike
<1> QED BY <1>2, <1>4, <1>8, KeptFree, KeptMove DEF RowSame

LEMMA KeptLists ==
  ASSUME Alone, TInv, Kept, NEW p \in Proc, ListStale(p) \/ ListDue(p)
  PROVE  Kept'
<1>1. main \in [Proc -> Main]
  BY KeptTypes
<1>2. rows' = rows /\ task' = task /\ attempted' = attempted
  BY DEF ListStale, ListDue
<1>3. RunKept(p)' /\ ListKept(p)'
  <2>1. CASE ListStale(p)
    <3> DEFINE list == {[run |-> r, fp |-> rows[r].fp] :
                          r \in {x \in Run : rows[x].status = "running" /\ rows[x].beat > Stale}}
    <3>1. PICK pc \in {"boot1", "sweep1"} : main' = [main EXCEPT ![p] = [At(pc) EXCEPT !.list = list]]
      BY <2>1 DEF ListStale
    <3>2. \A e \in list : rows[e.run].status = "running" /\ rows[e.run].fp = e.fp
      OBVIOUS
    <3> HIDE DEF list
    <3>3. main'[p].pc \in {"boot1", "sweep1"} /\ main'[p].list = list
      BY <1>1, <3>1 DEF At
    <3> QED BY <1>2, <3>2, <3>3 DEF RunKept, ListKept, Executing, Reaping
  <2>2. CASE ListDue(p)
    <3> DEFINE list == {[run |-> r, fp |-> rows[r].fp] : r \in {x \in Run : Due(x, 0)}}
    <3>1. main' = [main EXCEPT ![p] = [At("sweep2") EXCEPT !.list = list]]
      BY <2>2 DEF ListDue
    <3>2. \A e \in list : e.run \in Run /\ Owed(e.run) /\ rows[e.run].fp = e.fp
      BY DEF Due, Owed
    <3> HIDE DEF list
    <3>3. main'[p].pc = "sweep2" /\ main'[p].list = list
      BY <1>1, <3>1 DEF At
    <3>4. \A e \in list : Over(e.run) /\ rows[e.run].fp = e.fp
      BY <3>2 DEF Kept, RowKept
    <3> QED BY <1>2, <3>3, <3>4 DEF RunKept, ListKept, Executing, Reaping, Over, Present
  <2> QED BY <2>1, <2>2
<1> QED BY <1>2, <1>3, KeptMove DEF RowSame, TaskAlike

LEMMA KeptRecoverPending ==
  ASSUME Alone, TInv, Kept, NEW p \in Proc, RecoverPending(p)
  PROVE  Kept'
<1>1. main \in [Proc -> Main] /\ main[p] \in Main /\ task \in [Task -> Dispatch]
  BY KeptTypes
<1>2. PICK e \in main[p].list :
        /\ task' = [task EXCEPT ![<<p, "sweep", e.run>>] =
                      [NoDispatch EXCEPT !.pc = "claim", !.what = e.fp]]
        /\ main' = [main EXCEPT ![p].list = @ \ {e}]
  BY DEF RecoverPending
<1>3. PICK u : u = <<p, "sweep", e.run>>
  OBVIOUS
<1>4. main[p].pc = "sweep2" /\ rows' = rows /\ attempted' = attempted
  BY DEF RecoverPending
<1>5. e.run \in Run /\ u \in Task /\ u[3] = e.run
  BY <1>2, <1>3, KeptTypes DEF Task, Origin
<1>6. /\ \A t \in Task : t # u => task'[t] = task[t]
      /\ task'[u].pc = "claim" /\ task'[u].what = e.fp
  BY <1>1, <1>2, <1>3, <1>5 DEF NoDispatch
<1>7. /\ ListKept(p) /\ rows[e.run].status # "none"
      /\ Present(e.run) => Over(e.run) /\ rows[e.run].fp = e.fp
  BY <1>2, <1>4 DEF Kept, ListKept
<1>8. TaskKept(u)'
  BY <1>4, <1>5, <1>6, <1>7 DEF TaskKept, Present, Over
<1>9. main'[p].pc = "sweep2" /\ main'[p].list \subseteq main[p].list
  BY <1>1, <1>2, <1>4 DEF Main
<1>10. ListKept(p)'
  BY <1>4, <1>7, <1>9, KeptList DEF RowSame
<1>11. RunKept(p)'
  BY <1>9 DEF RunKept, Executing
<1>12. \A t \in Task : TaskAlike(t) \/ TaskKept(t)'
  BY <1>6, <1>8 DEF TaskAlike
<1> QED BY <1>4, <1>10, <1>11, <1>12, KeptMove DEF RowSame

\* The outbox as the rows show it.
Asked == {r \in Run : Present(r) /\ rows[r].trig = "schedule"}
Entry == [r \in Run |-> IF rows[r].status \in {"none", "running"} THEN "open"
                        ELSE IF rows[r].notify \in {"pending", "sending"} THEN "owed"
                        ELSE "closed"]
Gathered == [r \in Run |-> rows[r].fp]
Told == {x \in attempted : Present(x[1])}

\* A failed database call that leaves the rows alone is the promise's Fail.
LEMMA PromiseFails ==
  ASSUME TInv, TInv', DbFails, rows' = rows, attempted' = attempted
  PROVE  Outbox!Fail
<1>1. faults.db \in Nat /\ faults'.db = faults.db + 1
  BY BoundAssumption DEF DbFails, TInv, TypeOK
<1>2. (faults.db > 0)' = TRUE
  BY <1>1
<1>3. \A r \in Run : Present(r)' <=> Present(r)
  BY DEF Present
<1>4. Asked' = Asked /\ Told' = Told
  BY <1>3 DEF Asked, Told, TInv, TypeOK
<1>5. Entry' = Entry /\ Gathered' = Gathered
  BY DEF Entry, Gathered
<1> QED BY <1>2, <1>4, <1>5 DEF Outbox!Fail, Asked, Entry, Gathered, Told

LEMMA KeptThrows ==
  ASSUME Alone, TInv, Kept, NEW p \in Proc,
         CategoryThrows(p) \/ FinishThrows(p) \/ CatchThrows(p) \/ SweepThrows(p)
  PROVE  Kept' /\ DbFails /\ rows' = rows /\ attempted' = attempted
<1>1. main \in [Proc -> Main] /\ main[p] \in Main
  BY KeptTypes
<1>2. DbFails /\ rows' = rows /\ task' = task /\ attempted' = attempted
  BY DEF CategoryThrows, FinishThrows, CatchThrows, SweepThrows
<1>3. faults'.db > 0
  BY <1>2, BoundAssumption DEF DbFails, TInv, TypeOK
<1>4. RunKept(p)' /\ ListKept(p)'
  <2>1. CASE CategoryThrows(p)
    <3>1. /\ main[p].pc \in {"synced", "write"} /\ main'[p].pc = "scan"
          /\ main'[p].run = main[p].run /\ main'[p].found = main[p].found /\ main'[p].seen # {}
      BY <1>1, <2>1 DEF CategoryThrows, Main
    <3>2. RunKept(p) /\ Executing(p)
      BY <3>1 DEF Kept, Executing
    <3> QED BY <1>2, <3>1, <3>2 DEF RunKept, ListKept, Reaping, Present, Executing
  <2>2. CASE FinishThrows(p)
    <3>1. /\ main[p].pc \in {"announce", "scan"} /\ main'[p].pc = "catch"
          /\ main'[p].run = main[p].run
      BY <1>1, <2>2 DEF FinishThrows, Main
    <3>2. RunKept(p) /\ Executing(p)
      BY <3>1 DEF Kept, Executing
    <3>3. Present(main[p].run) => rows[main[p].run].status = "running" \/ Owed(main[p].run)
      BY <3>1, <3>2 DEF RunKept
    <3> QED BY <1>2, <1>3, <3>1, <3>2, <3>3 DEF RunKept, ListKept, Reaping, Present, Executing, Owed
  <2>3. CASE CatchThrows(p)
    <3>1. main'[p].pc = "idle"
      BY <1>1, <2>3 DEF CatchThrows, At
    <3> QED BY <3>1, KeptFree
  <2>4. CASE SweepThrows(p)
    <3>1. main'[p].pc = "idle" \/ (main'[p].pc = "boot1" /\ main'[p].list = {})
      BY <1>1, <2>4 DEF SweepThrows, At, Main
    <3> QED BY <3>1 DEF RunKept, ListKept, Executing, Reaping
  <2> QED BY <2>1, <2>2, <2>3, <2>4
<1> QED BY <1>2, <1>4, KeptMove DEF RowSame, TaskAlike

LEMMA KeptDispatchThrows ==
  ASSUME TInv, Kept, NEW u \in Task, DispatchThrows(u)
  PROVE  Kept' /\ DbFails /\ rows' = rows /\ attempted' = attempted
<1>1. main \in [Proc -> Main] /\ task \in [Task -> Dispatch]
  BY KeptTypes
<1>2. DbFails /\ rows' = rows /\ attempted' = attempted
  BY DEF DispatchThrows
<1>3. faults'.db > 0
  BY <1>2, BoundAssumption DEF DbFails, TInv, TypeOK
<1>4. \A t \in Task : task'[t] = task[t] \/ task'[t] = NoDispatch
  BY <1>1 DEF DispatchThrows
<1>5. \A p \in Proc : main'[p] = main[p] \/ main'[p].pc = "idle"
  BY <1>1 DEF DispatchThrows, At
<1>6. \A p \in Proc : RunSame(p) \/ main'[p].pc \in {"down", "boot", "idle"}
  BY <1>5 DEF RunSame
<1>7. \A t \in Task : TaskAlike(t)
  BY <1>4 DEF TaskAlike, NoDispatch
<1> QED BY <1>2, <1>3, <1>6, <1>7, KeptStill DEF RowSame

\* A step of the only container that writes one row.
LEMMA KeptWrite ==
  ASSUME Alone, TInv, Kept, NEW p \in Proc, NEW r \in Run,
         \A x \in Run : x # r => RowSame(x), RowKept(r)', attempted \subseteq attempted',
         \A x \in Run : x # r => \A c \in Category : <<x, c>> \in attempted' => <<x, c>> \in attempted,
         RunKept(p)', ListKept(p)',
         \A t \in Task : TaskKept(t)' \/ (TaskAlike(t) /\ t[3] # r)
  PROVE  Kept'
<1>1. \A x \in Run : RowKept(x)'
  BY KeptRow DEF Kept
<1>2. \A t \in Task : TaskKept(t)'
  BY KeptTask, KeptTypes DEF Kept
<1> QED BY <1>1, <1>2 DEF Kept, Alone

\* What such a step does to the outbox.
LEMMA PromiseRow ==
  ASSUME TInv, TInv', NEW r \in Run, \A x \in Run : x # r => RowSame(x), Present(r)' <=> Present(r),
         rows'[r].trig = rows[r].trig
  PROVE  /\ Asked' = Asked
         /\ Entry' = [Entry EXCEPT ![r] = Entry'[r]]
         /\ Gathered' = [Gathered EXCEPT ![r] = rows'[r].fp]
         /\ attempted' = attempted => Told' = Told
<1>1. \A x \in Run : (Present(x)' <=> Present(x)) /\ rows'[x].trig = rows[x].trig
  BY DEF RowSame, Present
<1>2. Asked' = Asked
  BY <1>1 DEF Asked
<1>3. Entry' = [Entry EXCEPT ![r] = Entry'[r]]
  BY DEF Entry, RowSame
<1>4. Gathered' = [Gathered EXCEPT ![r] = rows'[r].fp]
  BY DEF Gathered, RowSame
<1>5. attempted' = attempted => Told' = Told
  BY <1>1 DEF Told, TInv, TypeOK
<1> QED BY <1>2, <1>3, <1>4, <1>5

\* A write that finds its row pruned.
LEMMA PromisePruned ==
  ASSUME TInv, TInv', rows' = rows, attempted' = attempted, faults' = faults
  PROVE  UNCHANGED Outbox!vars
  BY PromiseStutter DEF Owed

LEMMA KeptProgressWrite ==
  ASSUME Alone, TInv, TInv', Kept, NEW p \in Proc, ProgressWrite(p)
  PROVE  Kept' /\ [Outbox!Next]_(Outbox!vars)
<1>0. PICK r, fp : r = main[p].run /\ fp = main[p].base \cup main[p].batch
  OBVIOUS
<1>1. main \in [Proc -> Main] /\ main[p] \in Main /\ rows \in [Run -> Row] /\ r \in Run
  BY <1>0, KeptTypes DEF ProgressWrite, Executing
<1>2. /\ main[p].pc = "write" /\ Write(r, [rows[r] EXCEPT !.fp = fp])
      /\ main' = [main EXCEPT ![p].pc = "scan", ![p].batch = {}, ![p].base = {},
                              ![p].seen = @ \cup {"ok"}]
      /\ task' = task /\ attempted' = attempted /\ faults' = faults
  BY <1>0 DEF ProgressWrite
<1>3. /\ main'[p].pc = "scan" /\ main'[p].run = r /\ main'[p].found = main[p].found
      /\ main'[p].seen # {}
  BY <1>0, <1>1, <1>2 DEF Main
<1>4. /\ rows[r].status # "none"
      /\ \A t \in Task : t[3] = r => task[t].pc = "none"
      /\ \A c, d \in main[p].batch : c = d
      /\ main[p].batch \subseteq main[p].found
      /\ Present(r) => /\ rows[r].status = "running" /\ rows[r].fp \subseteq main[p].found
                       /\ main[p].base = rows[r].fp
  BY <1>0, <1>1, <1>2 DEF Kept, RunKept, Executing
<1>5. CASE Present(r)
  <2>1. /\ rows' = [rows EXCEPT ![r].fp = fp]
        /\ fp = rows[r].fp \cup main[p].batch
    BY <1>0, <1>1, <1>2, <1>4, <1>5 DEF Write
  <2>2. /\ \A x \in Run : x # r => RowSame(x)
        /\ rows'[r].status = "running" /\ rows'[r].notify = rows[r].notify
        /\ rows'[r].trig = rows[r].trig /\ rows'[r].fp = fp
    BY <1>1, <1>4, <1>5, <2>1 DEF RowSame, Row
  <2>3. RowKept(r)'
    BY <1>1, <1>4, <1>5, <2>2 DEF Kept, RowKept, Owed, Over
  <2>4. RunKept(p)'
    BY <1>2, <1>3, <1>4, <1>5, <2>1, <2>2 DEF RunKept
  <2>5. ListKept(p)'
    BY <1>3 DEF ListKept, Reaping
  <2>6. \A t \in Task : TaskKept(t)' \/ (TaskAlike(t) /\ t[3] # r)
    BY <1>2, <1>4 DEF TaskKept, TaskAlike
  <2>7. Kept'
    BY <1>1, <1>2, <2>2, <2>3, <2>4, <2>5, <2>6, KeptWrite
  <2>8. Present(r)' <=> Present(r)
    BY <1>4, <1>5, <2>2 DEF Present
  <2>9. /\ Asked' = Asked /\ Told' = Told /\ Gathered' = [Gathered EXCEPT ![r] = fp]
        /\ Entry' = [Entry EXCEPT ![r] = Entry'[r]]
    BY <1>1, <1>2, <2>2, <2>8, PromiseRow
  <2>10. Entry[r] = "open" /\ Entry' = Entry /\ Gathered[r] = rows[r].fp
    <3>1. rows[r].status = "running" /\ rows'[r].status = "running"
      BY <1>4, <1>5, <2>2
    <3>2. Entry[r] = "open" /\ Entry'[r] = "open" /\ Gathered[r] = rows[r].fp
      BY <1>1, <3>1 DEF Entry, Gathered
    <3>3. Entry = [Entry EXCEPT ![r] = "open"]
      BY <1>1, <3>2 DEF Entry
    <3> QED BY <2>9, <3>2, <3>3
  <2>11. CASE main[p].batch = {}
    <3>1. \A x \in Run : RowSame(x)
      BY <2>1, <2>2, <2>11, <1>4, <1>5 DEF RowSame
    <3> QED BY <1>2, <2>7, <3>1, PromiseStutter DEF RowSame, Owed
  <2>12. ASSUME NEW c \in main[p].batch PROVE Outbox!Gather(r, c)
    <3>1. fp = rows[r].fp \cup {c}
      BY <1>4, <2>1, <2>12
    <3> QED BY <1>2, <2>9, <2>10, <3>1 DEF Outbox!Gather, Asked, Entry, Gathered, Told
  <2>13. main[p].batch \subseteq Category
    BY <1>1 DEF Main
  <2> QED BY <1>1, <2>7, <2>11, <2>12, <2>13 DEF Outbox!Next
<1>6. CASE ~Present(r)
  <2>1. rows' = rows
    BY <1>2, <1>6 DEF Write
  <2>2. RunKept(p)'
    BY <1>2, <1>3, <1>4, <1>6, <2>1 DEF RunKept, Present
  <2>3. ListKept(p)'
    BY <1>3 DEF ListKept, Reaping
  <2> QED BY <1>2, <2>1, <2>2, <2>3, KeptMove, PromisePruned DEF RowSame, TaskAlike
<1> QED BY <1>5, <1>6

\* finishRun closes a row, and every dispatch stays where it is.
LEMMA ClosingWrite ==
  ASSUME TInv, NEW r \in Run, NEW status, NEW fp, NEW notify, FinishRun(r, status, fp, notify)
  PROVE  /\ \A t \in Task : task'[t].pc = task[t].pc /\ task'[t].what = task[t].what
         /\ \A x \in Run : x # r => RowSame(x)
         /\ Present(r) => /\ rows'[r].status = status /\ rows'[r].fp = fp
                          /\ rows'[r].notify = notify /\ rows'[r].trig = rows[r].trig
         /\ ~Present(r) => rows' = rows
<1>1. rows \in [Run -> Row] /\ task \in [Task -> Dispatch]
  BY KeptTypes
<1>2. \A t \in Task : task'[t].pc = task[t].pc /\ task'[t].what = task[t].what
  BY <1>1 DEF FinishRun, Dispatch
<1>3. CASE Present(r)
  BY <1>1, <1>2, <1>3 DEF FinishRun, Write, Row, RowSame
<1>4. CASE ~Present(r)
  BY <1>2, <1>4 DEF FinishRun, Write, RowSame
<1> QED BY <1>3, <1>4

\* What closing an open row is to the outbox.
LEMMA PromiseCloses ==
  ASSUME TInv, TInv', NEW r \in Run, NEW status \in {"success", "partial", "error"},
         NEW fp \in SUBSET Category, NEW notify \in {"none", "pending"},
         FinishRun(r, status, fp, notify), rows[r].status = "running", rows[r].fp \subseteq fp,
         attempted' = attempted, faults' = faults,
         notify = "none" => rows[r].trig # "schedule" \/ fp \cap Problems = {}
  PROVE  Outbox!Next
<1>1. Present(r)
  BY DEF Present
<1>2. /\ \A x \in Run : x # r => RowSame(x)
      /\ rows'[r].status = status /\ rows'[r].fp = fp
      /\ rows'[r].notify = notify /\ rows'[r].trig = rows[r].trig
  BY <1>1, ClosingWrite
<1>3. Present(r)' <=> Present(r)
  BY <1>1, <1>2 DEF Present
<1>4. /\ Asked' = Asked /\ Told' = Told /\ Gathered' = [Gathered EXCEPT ![r] = fp]
      /\ Entry' = [Entry EXCEPT ![r] = Entry'[r]]
  BY <1>2, <1>3, PromiseRow
<1>5. Entry[r] = "open" /\ Gathered[r] = rows[r].fp /\ (r \in Asked => rows[r].trig = "schedule")
  BY DEF Entry, Gathered, Asked
<1>6. Entry'[r] = IF notify = "pending" THEN "owed" ELSE "closed"
  BY <1>2 DEF Entry
<1>7. Outbox!Close(r, fp)
  BY <1>4, <1>5, <1>6 DEF Outbox!Close, Asked, Entry, Gathered, Told
<1> QED BY <1>7 DEF Outbox!Next

LEMMA KeptFinishScan ==
  ASSUME Alone, TInv, TInv', Kept, NEW p \in Proc, FinishScan(p)
  PROVE  Kept' /\ [Outbox!Next]_(Outbox!vars)
<1>0. PICK r, f, status : r = main[p].run /\ f = main[p].found /\ status = RunStatus(main[p].seen)
  OBVIOUS
<1>1. /\ main \in [Proc -> Main] /\ main[p] \in Main /\ r \in Run
      /\ status \in {"success", "partial", "error"} /\ f \in SUBSET Category
  BY <1>0, KeptTypes DEF FinishScan, Executing, Main, RunStatus
<1>2. PICK willNotify \in BOOLEAN :
        /\ willNotify <=> /\ rows[r].trig = "schedule"
                          /\ f \cap Problems # {} \/ (f # {} /\ willNotify)
        /\ FinishRun(r, status, f, IF willNotify THEN "pending" ELSE "none")
        /\ main' = [main EXCEPT ![p] = IF willNotify
                      THEN [At("announce") EXCEPT !.run = r, !.found = f] ELSE At("idle")]
  <2>1. PICK includesAdvisories \in BOOLEAN :
          LET willNotify == /\ rows[r].trig = "schedule"
                            /\ f \cap Problems # {} \/ (f # {} /\ includesAdvisories) IN
          /\ FinishRun(r, status, f, IF willNotify THEN "pending" ELSE "none")
          /\ main' = [main EXCEPT ![p] = IF willNotify
                        THEN [At("announce") EXCEPT !.run = r, !.found = f] ELSE At("idle")]
    BY <1>0 DEF FinishScan
  <2> DEFINE will == /\ rows[r].trig = "schedule"
                     /\ f \cap Problems # {} \/ (f # {} /\ includesAdvisories)
  <2> WITNESS will \in BOOLEAN
  <2> QED BY <2>1
<1>3. main[p].pc = "scan" /\ attempted' = attempted /\ faults' = faults
  BY DEF FinishScan
<1>4. /\ rows[r].status # "none"
      /\ \A t \in Task : t[3] = r => task[t].pc = "none"
      /\ Present(r) => rows[r].status = "running" /\ rows[r].fp \subseteq f
  BY <1>0, <1>1, <1>3 DEF Kept, RunKept, Executing
<1>5. /\ \A t \in Task : task'[t].pc = task[t].pc /\ task'[t].what = task[t].what
      /\ \A x \in Run : x # r => RowSame(x)
      /\ Present(r) => /\ rows'[r].status = status /\ rows'[r].fp = f
                       /\ rows'[r].notify = IF willNotify THEN "pending" ELSE "none"
      /\ ~Present(r) => rows' = rows
  BY <1>1, <1>2, ClosingWrite
<1>6. RowKept(r)'
  BY <1>1, <1>3, <1>4, <1>5 DEF Kept, RowKept, Owed, Over, Present
<1>7. RunKept(p)' /\ ListKept(p)'
  <2>1. CASE ~willNotify
    BY <1>1, <1>2, <2>1, KeptFree DEF At
  <2>2. CASE willNotify
    <3>1. main'[p].pc = "announce" /\ main'[p].run = r /\ main'[p].found = f
      BY <1>1, <1>2, <2>2 DEF At
    <3>2. rows'[r].status # "none" /\ \A t \in Task : t[3] = r => task'[t].pc = "none"
      BY <1>1, <1>4, <1>5
    <3>3. Present(r)' => Owed(r)' /\ rows'[r].fp = f
      BY <1>5, <2>2 DEF Present, Owed
    <3> QED BY <3>1, <3>2, <3>3 DEF RunKept, ListKept, Reaping, Executing
  <2> QED BY <2>1, <2>2
<1>8. \A t \in Task : TaskKept(t)' \/ (TaskAlike(t) /\ t[3] # r)
  BY <1>4, <1>5 DEF TaskKept, TaskAlike
<1>9. Kept'
  BY <1>1, <1>3, <1>5, <1>6, <1>7, <1>8, KeptWrite
<1>10. CASE Present(r)
  BY <1>1, <1>2, <1>3, <1>4, <1>9, <1>10, PromiseCloses
<1>11. CASE ~Present(r)
  BY <1>3, <1>5, <1>9, <1>11, PromisePruned
<1> QED BY <1>10, <1>11

LEMMA KeptCatchFinish ==
  ASSUME Alone, TInv, TInv', Kept, NEW p \in Proc, CatchFinish(p)
  PROVE  Kept' /\ [Outbox!Next]_(Outbox!vars)
<1>0. PICK r : r = main[p].run
  OBVIOUS
<1>1. main \in [Proc -> Main] /\ r \in Run
  BY <1>0, KeptTypes DEF CatchFinish, Executing
<1>2. /\ main[p].pc = "catch" /\ FinishRun(r, "error", {}, "none")
      /\ main' = [main EXCEPT ![p] = At("idle")]
      /\ attempted' = attempted /\ faults' = faults
  BY <1>0 DEF CatchFinish
<1>3. /\ rows[r].status # "none"
      /\ \A t \in Task : t[3] = r => task[t].pc = "none"
      /\ Present(r) => \/ rows[r].status = "running" /\ rows[r].fp = {}
                       \/ faults.db > 0 /\ (rows[r].status = "running" \/ Owed(r))
  BY <1>0, <1>1, <1>2 DEF Kept, RunKept, Executing
<1>4. /\ \A t \in Task : task'[t].pc = task[t].pc /\ task'[t].what = task[t].what
      /\ \A x \in Run : x # r => RowSame(x)
      /\ Present(r) => /\ rows'[r].status = "error" /\ rows'[r].fp = {}
                       /\ rows'[r].notify = "none" /\ rows'[r].trig = rows[r].trig
      /\ ~Present(r) => rows' = rows
  BY <1>1, <1>2, ClosingWrite
<1>5. RowKept(r)'
  BY <1>1, <1>2, <1>3, <1>4 DEF Kept, RowKept, Owed, Over, Present
<1>6. RunKept(p)' /\ ListKept(p)'
  BY <1>1, <1>2, KeptFree DEF At
<1>7. \A t \in Task : TaskKept(t)' \/ (TaskAlike(t) /\ t[3] # r)
  BY <1>3, <1>4 DEF TaskKept, TaskAlike
<1>8. Kept'
  BY <1>1, <1>2, <1>4, <1>5, <1>6, <1>7, KeptWrite
<1>9. CASE Present(r) /\ rows[r].status = "running" /\ rows[r].fp = {}
  BY <1>1, <1>2, <1>8, <1>9, PromiseCloses
<1>10. CASE Present(r) /\ faults.db > 0 /\ (rows[r].status = "running" \/ Owed(r))
  <2>1. Present(r)' <=> Present(r)
    BY <1>4, <1>10 DEF Present
  <2>2. /\ Asked' = Asked /\ Told' = Told /\ Gathered' = [Gathered EXCEPT ![r] = {}]
        /\ Entry' = [Entry EXCEPT ![r] = Entry'[r]]
    BY <1>1, <1>2, <1>4, <1>10, <2>1, PromiseRow
  <2>3. Entry'[r] = "closed"
    BY <1>1, <1>4, <1>10 DEF Entry
  <2>4. Entry[r] # "closed"
    BY <1>1, <1>10 DEF Entry, Owed
  <2>5. faults.db > 0 /\ faults' = faults
    BY <1>2, <1>10
  <2>6. Outbox!Abandon(r)
    BY <2>2, <2>3, <2>4, <2>5 DEF Outbox!Abandon, Asked, Entry, Gathered, Told
  <2> QED BY <1>1, <1>8, <2>6 DEF Outbox!Next
<1>11. CASE ~Present(r)
  BY <1>2, <1>4, <1>8, <1>11, PromisePruned
<1> QED BY <1>3, <1>9, <1>10, <1>11

LEMMA KeptRecoverInterrupted ==
  ASSUME Alone, TInv, TInv', Kept, NEW p \in Proc, RecoverInterrupted(p)
  PROVE  Kept' /\ [Outbox!Next]_(Outbox!vars)
<1>1. main \in [Proc -> Main] /\ main[p] \in Main
  BY KeptTypes
<1>2. PICK e \in main[p].list :
        /\ FinishRun(e.run, "error", e.fp,
              IF rows[e.run].trig = "schedule" /\ e.fp # {} THEN "pending" ELSE "none")
        /\ main' = [main EXCEPT ![p].list = @ \ {e}]
  BY DEF RecoverInterrupted
<1>3. PICK r, notify : r = e.run
        /\ notify = IF rows[e.run].trig = "schedule" /\ e.fp # {} THEN "pending" ELSE "none"
  OBVIOUS
<1>4. r \in Run /\ e.fp \in SUBSET Category /\ FinishRun(r, "error", e.fp, notify)
  BY <1>2, <1>3, KeptTypes
<1>5. /\ main[p].pc \in {"boot1", "sweep1"} /\ attempted' = attempted /\ faults' = faults
  BY DEF RecoverInterrupted
<1>6. \A d \in main[p].list : /\ rows[d.run].status # "none"
                              /\ Present(d.run) => rows[d.run].status = "running" /\ rows[d.run].fp = d.fp
  BY <1>5 DEF Kept, ListKept, Reaping
<1>7. /\ \A t \in Task : task'[t].pc = task[t].pc /\ task'[t].what = task[t].what
      /\ \A x \in Run : x # r => RowSame(x)
      /\ Present(r) => /\ rows'[r].status = "error" /\ rows'[r].fp = e.fp
                       /\ rows'[r].notify = notify
      /\ ~Present(r) => rows' = rows
  BY <1>4, ClosingWrite
<1>8. main'[p].pc = main[p].pc /\ main'[p].list = main[p].list \ {e}
  BY <1>1, <1>2 DEF Main
<1>9. RowKept(r)'
  BY <1>2, <1>3, <1>4, <1>5, <1>6, <1>7 DEF Kept, RowKept, Owed, Over, Present
<1>10. RunKept(p)'
  BY <1>5, <1>8 DEF RunKept, Executing
<1>11. ListKept(p)'
  <2>1. ASSUME NEW d \in main'[p].list PROVE RowSame(d.run) \/ rows'[d.run].status = "pruned"
    <3>1. d \in main[p].list /\ d # e /\ d.run \in Run
      BY <1>8, <2>1, KeptTypes
    <3>2. CASE d.run # r
      BY <1>7, <3>1, <3>2
    <3>3. CASE d.run = r /\ Present(r)
      <4>1. d.fp = e.fp /\ d.run = e.run
        BY <1>2, <1>3, <1>6, <3>1, <3>3
      <4>2. d \in Listed /\ e \in Listed
        BY <1>1, <1>2, <3>1 DEF Main
      <4>3. d = [run |-> d.run, fp |-> d.fp] /\ e = [run |-> e.run, fp |-> e.fp]
        BY <4>2 DEF Listed
      <4> QED BY <3>1, <4>1, <4>3
    <3>4. CASE d.run = r /\ ~Present(r)
      BY <1>7, <3>4 DEF RowSame
    <3> QED BY <3>2, <3>3, <3>4
  <2>2. ListKept(p)
    BY DEF Kept
  <2>3. main'[p].list \subseteq main[p].list
    BY <1>8
  <2> QED BY <1>8, <2>1, <2>2, <2>3, KeptList
<1>12. ASSUME NEW t \in Task PROVE TaskKept(t)' \/ (TaskAlike(t) /\ t[3] # r)
  <2>1. TaskKept(t)
    BY DEF Kept
  <2>2. CASE t[3] = r
    BY <1>2, <1>3, <1>6, <1>7, <2>1, <2>2 DEF TaskKept, Over, Present
  <2> QED BY <1>7, <2>2 DEF TaskAlike
<1>13. Kept'
  BY <1>4, <1>5, <1>7, <1>9, <1>10, <1>11, <1>12, KeptWrite
<1>14. CASE Present(r)
  <2>1. rows[r].status = "running" /\ rows[r].fp \subseteq e.fp
    BY <1>2, <1>3, <1>6, <1>14
  <2>2. notify \in {"none", "pending"}
        /\ (notify = "none" => rows[r].trig # "schedule" \/ e.fp \cap Problems = {})
    BY <1>3
  <2> QED BY <1>4, <1>5, <1>13, <2>1, <2>2, PromiseCloses
<1>15. CASE ~Present(r)
  BY <1>5, <1>7, <1>13, <1>15, PromisePruned
<1> QED BY <1>14, <1>15

\* A run that a dispatch has in hand is over, and is nobody's to close.
LEMMA DispatchedRun ==
  ASSUME Kept, NEW t \in Task, task[t].pc # "none"
  PROVE  /\ rows[t[3]].status # "none"
         /\ \A p \in Proc : Executing(p) => main[p].run # t[3]
         /\ \A p \in Proc : Reaping(p) => \A e \in main[p].list : Present(e.run) => e.run # t[3]
<1>1. TaskKept(t)
  BY DEF Kept
<1>2. \A p \in Proc : Executing(p) => main[p].run # t[3]
  BY DEF Kept, RunKept
<1>3. \A p \in Proc : Reaping(p) => \A e \in main[p].list : Present(e.run) => e.run # t[3]
  BY <1>1 DEF Kept, ListKept, TaskKept, Over
<1> QED BY <1>1, <1>2, <1>3 DEF TaskKept

\* A dispatch writes its row without reopening it or changing what it holds.
LEMMA KeptDispatchWrite ==
  ASSUME Alone, TInv, Kept, NEW u \in Task, task[u].pc # "none", main' = main, faults' = faults,
         attempted \subseteq attempted',
         \A x \in Run : x # u[3] => \A c \in Category : <<x, c>> \in attempted' => <<x, c>> \in attempted,
         \A x \in Run : x # u[3] => RowSame(x),
         rows'[u[3]].status = rows[u[3]].status, rows'[u[3]].fp = rows[u[3]].fp,
         Owed(u[3])' => Over(u[3])',
         \A t \in Task : t # u => task'[t] = task[t],
         \A t \in Task : t[3] = u[3] => TaskKept(t)'
  PROVE  Kept'
<1>0. PICK r, p : r = u[3] /\ p = u[1]
  OBVIOUS
<1>1. r \in Run /\ p \in Proc
  BY <1>0 DEF Task
<1>2. /\ rows[r].status # "none"
      /\ \A q \in Proc : Executing(q) => main[q].run # r
  BY <1>0, DispatchedRun
<1>3. RowKept(r)'
  BY <1>0, <1>2 DEF RowKept
<1>4. \A t \in Task : task[t].pc # "none" => t[3] # main[p].run \/ ~Executing(p)
  BY <1>1 DEF Kept, RunKept
<1>5. ASSUME Executing(p) PROVE RunKept(p)'
  <2>1. RowSame(main[p].run) /\ RunSame(p)
    BY <1>0, <1>1, <1>2, <1>5, KeptTypes DEF RunSame
  <2>2. RunKept(p)
    BY <1>1 DEF Kept
  <2>3. ASSUME NEW t \in Task, t[3] = main[p].run PROVE task'[t].pc = "none"
    <3>1. t # u /\ task[t].pc = "none"
      BY <1>0, <1>1, <1>2, <1>4, <1>5, <2>3
    <3> QED BY <3>1
  <2> QED BY <1>5, <2>1, <2>2, <2>3 DEF RunKept, RowSame, Executing, Present, Owed
<1>6. ~Executing(p) => RunKept(p)'
  BY DEF RunKept, Executing
<1>7. ListKept(p)'
  BY <1>0, <1>1, KeptTypes DEF Kept, ListKept, Reaping, RowSame, Present, Over
<1>8. \A t \in Task : TaskKept(t)' \/ (TaskAlike(t) /\ t[3] # r)
  BY <1>0 DEF TaskAlike
<1> QED BY <1>0, <1>1, <1>3, <1>5, <1>6, <1>7, <1>8, KeptWrite

LEMMA KeptClaimWon ==
  ASSUME Alone, TInv, TInv', Kept, NEW u \in Task, ClaimWon(u)
  PROVE  Kept' /\ UNCHANGED Outbox!vars
<1>0. PICK r : r = u[3]
  OBVIOUS
<1>1. rows \in [Run -> Row] /\ task \in [Task -> Dispatch] /\ r \in Run
  BY <1>0, KeptTypes
<1>2. /\ task[u].pc = "claim" /\ Owed(r)
      /\ rows' = [rows EXCEPT ![r].notify = "sending", ![r].claim = Stamp(u)]
      /\ task' = [task EXCEPT ![u].pc = "send", ![u].age = Stamp(u), ![u].own = TRUE]
      /\ main' = main /\ attempted' = attempted /\ faults' = faults
  BY <1>0 DEF ClaimWon, Due, Owed
<1>3. /\ \A x \in Run : x # r => RowSame(x)
      /\ rows'[r].status = rows[r].status /\ rows'[r].fp = rows[r].fp
      /\ rows'[r].trig = rows[r].trig /\ rows'[r].notify = "sending"
  BY <1>1, <1>2 DEF RowSame, Row
<1>4. /\ \A t \in Task : t # u => task'[t] = task[t]
      /\ task'[u].pc = "send" /\ task'[u].what = task[u].what
  BY <1>1, <1>2 DEF Dispatch
<1>5. Over(r)
  BY <1>1, <1>2 DEF Kept, RowKept
<1>6. ASSUME NEW t \in Task, t[3] = r PROVE TaskKept(t)'
  <2>1. task'[t].pc # "none" => task[t].pc # "none" /\ task'[t].what = task[t].what
    BY <1>2, <1>4
  <2>2. TaskKept(t)
    BY DEF Kept
  <2>3. (task'[t].pc = "mark" => task[t].pc = "mark") /\ Owed(r)'
    BY <1>3, <1>4 DEF Owed
  <2> QED BY <1>2, <1>3, <1>5, <1>6, <2>1, <2>2, <2>3 DEF TaskKept, Over, Present, AllTold
<1>7. Kept'
  BY <1>0, <1>2, <1>3, <1>4, <1>5, <1>6, KeptDispatchWrite DEF Over, Present
<1>8. \A x \in Run : Owed(x)' <=> Owed(x)
  BY <1>2, <1>3 DEF Owed, RowSame
<1>9. \A x \in Run : /\ rows'[x].trig = rows[x].trig /\ rows'[x].fp = rows[x].fp
                     /\ rows'[x].status = rows[x].status
  BY <1>3 DEF RowSame
<1> QED BY <1>2, <1>7, <1>8, <1>9, PromiseStutter

LEMMA KeptSend ==
  ASSUME Alone, TInv, TInv', Kept, NEW u \in Task, Send(u)
  PROVE  Kept' /\ [Outbox!Next]_(Outbox!vars)
<1>0. PICK r, what : r = u[3] /\ what = task[u].what
  OBVIOUS
<1>1. task \in [Task -> Dispatch] /\ r \in Run
  BY <1>0, KeptTypes
<1>2. /\ task[u].pc = "send" /\ attempted' = attempted \cup ({r} \X what)
      /\ task' = [task EXCEPT ![u].pc = "mark"]
      /\ rows' = rows /\ main' = main /\ faults' = faults
  BY <1>0 DEF Send
<1>3. /\ \A t \in Task : t # u => task'[t] = task[t]
      /\ task'[u].pc = "mark" /\ task'[u].what = what
  BY <1>0, <1>1, <1>2 DEF Dispatch
<1>4. TaskKept(u)
  BY DEF Kept
<1>5. RowKept(r)
  BY <1>1 DEF Kept
<1>6. \A x \in Run : x # r => \A c \in Category : <<x, c>> \in attempted' => <<x, c>> \in attempted
  BY <1>2
<1>7. ASSUME NEW t \in Task, t[3] = r PROVE TaskKept(t)'
  <2>1. CASE t = u
    <3>1. AllTold(r, what)'
      BY <1>2 DEF AllTold
    <3> QED BY <1>0, <1>2, <1>3, <1>4, <2>1, <3>1 DEF TaskKept, Present, Over, AllTold
  <2>2. CASE t # u
    <3>1. TaskKept(t) /\ task'[t] = task[t] /\ attempted \subseteq attempted'
      BY <1>2, <1>3, <2>2 DEF Kept
    <3> QED BY <1>2, <3>1 DEF TaskKept, Present, Over, Owed, AllTold
  <2> QED BY <2>1, <2>2
<1>8. Kept'
  <2>1. attempted \subseteq attempted' /\ \A x \in Run : x # r => RowSame(x)
    BY <1>2 DEF RowSame
  <2>2. Owed(r)' => Over(r)'
    BY <1>2, <1>5 DEF RowKept, Owed, Over, Present
  <2> QED BY <1>0, <1>2, <1>3, <1>6, <1>7, <2>1, <2>2, KeptDispatchWrite
<1>9. \A x \in Run : Present(x)' <=> Present(x)
  BY <1>2 DEF Present
<1>10. Asked' = Asked /\ Entry' = Entry /\ Gathered' = Gathered
  BY <1>2, <1>9 DEF Asked, Entry, Gathered
<1>11. what \in SUBSET Category /\ attempted \subseteq Run \X Category
  BY <1>0, <1>1 DEF Dispatch, TInv, TypeOK
<1>12. /\ \A x \in {r} \X what : x[1] = r
       /\ \A x \in attempted : x[1] \in Run
  BY <1>11
<1>13. Told' = {x \in attempted \cup ({r} \X what) : Present(x[1])}
  <2>1. Told' = {x \in attempted' : Present(x[1])'}
    BY DEF Told
  <2>2. \A x \in attempted' : Present(x[1])' <=> Present(x[1])
    BY <1>1, <1>2, <1>9, <1>12
  <2>3. attempted' = attempted \cup ({r} \X what)
    BY <1>2
  <2> QED BY <2>1, <2>2, <2>3
<1>14. CASE Present(r)
  <2>1. Told' = Told \cup ({r} \X what)
    BY <1>14, <1>12, <1>13 DEF Told
  <2>2. Over(r) /\ what = rows[r].fp /\ (Owed(r) \/ AllTold(r, what))
    BY <1>0, <1>2, <1>4, <1>14 DEF TaskKept
  <2>3. CASE Owed(r)
    <3>1. Entry[r] = "owed" /\ Gathered[r] = what
      BY <1>1, <2>2, <2>3 DEF Entry, Gathered, Over, Present, Owed
    <3>2. Outbox!Tell(r)
      BY <1>2, <1>10, <2>1, <3>1 DEF Outbox!Tell, Asked, Entry, Gathered, Told
    <3> QED BY <1>1, <1>8, <3>2 DEF Outbox!Next
  <2>4. CASE AllTold(r, what)
    <3>1. attempted' = attempted
      BY <1>2, <2>4 DEF AllTold
    <3> QED BY <1>2, <1>8, <3>1, PromisePruned
  <2> QED BY <2>2, <2>3, <2>4
<1>15. CASE ~Present(r)
  <2>1. Told' = Told
    BY <1>15, <1>12, <1>13 DEF Told
  <2>2. UNCHANGED Outbox!vars
    BY <1>2, <1>10, <2>1 DEF Outbox!vars, Asked, Entry, Gathered, Told
  <2> QED BY <1>8, <2>2
<1> QED BY <1>14, <1>15

LEMMA KeptMarkSent ==
  ASSUME Alone, TInv, TInv', Kept, NEW u \in Task, MarkSent(u)
  PROVE  Kept' /\ [Outbox!Next]_(Outbox!vars)
<1>0. PICK r, what : r = u[3] /\ what = task[u].what
  OBVIOUS
<1>1. rows \in [Run -> Row] /\ task \in [Task -> Dispatch] /\ r \in Run
  BY <1>0, KeptTypes
<1>2. /\ task[u].pc = "mark" /\ Write(r, [rows[r] EXCEPT !.notify = "sent", !.claim = 0])
      /\ task' = [task EXCEPT ![u] = NoDispatch]
      /\ main' = main /\ attempted' = attempted /\ faults' = faults
  BY <1>0 DEF MarkSent
<1>3. /\ \A t \in Task : t # u => task'[t] = task[t]
      /\ task'[u].pc = "none"
  BY <1>1, <1>2 DEF NoDispatch
<1>4. TaskKept(u) /\ RowKept(r)
  BY <1>1 DEF Kept
<1>5. CASE Present(r)
  <2>1. Over(r) /\ what = rows[r].fp /\ AllTold(r, what)
    BY <1>0, <1>2, <1>4, <1>5 DEF TaskKept
  <2>2. /\ \A x \in Run : x # r => RowSame(x)
        /\ rows'[r].status = rows[r].status /\ rows'[r].fp = rows[r].fp
        /\ rows'[r].trig = rows[r].trig /\ rows'[r].notify = "sent"
    BY <1>1, <1>2, <1>5 DEF Write, RowSame, Row
  <2>3. ASSUME NEW t \in Task, t[3] = r PROVE TaskKept(t)'
    <3>1. CASE t = u
      BY <1>3, <3>1 DEF TaskKept
    <3>2. CASE t # u
      <4>1. TaskKept(t) /\ task'[t] = task[t]
        BY <1>3, <3>2 DEF Kept
      <4>2. AllTold(r, what)'
        BY <1>2, <2>1 DEF AllTold
      <4> QED BY <1>5, <2>1, <2>2, <2>3, <4>1, <4>2 DEF TaskKept, Present, Over, AllTold
    <3> QED BY <3>1, <3>2
  <2>4. Kept'
    <3>1. attempted \subseteq attempted' /\ ~Owed(r)'
      BY <1>2, <2>2 DEF Owed
    <3>2. \A x \in Run : x # r => \A c \in Category : <<x, c>> \in attempted' => <<x, c>> \in attempted
      BY <1>2
    <3> QED BY <1>0, <1>2, <1>3, <2>2, <2>3, <3>1, <3>2, KeptDispatchWrite
  <2>5. Present(r)' <=> Present(r)
    BY <2>2 DEF Present
  <2>6. /\ Asked' = Asked /\ Told' = Told /\ Gathered' = [Gathered EXCEPT ![r] = rows[r].fp]
        /\ Entry' = [Entry EXCEPT ![r] = Entry'[r]]
    BY <1>1, <1>2, <2>2, <2>5, PromiseRow
  <2>7. Gathered' = Gathered /\ Entry'[r] = "closed"
    BY <1>1, <2>1, <2>2, <2>6 DEF Gathered, Entry, Over, Present
  <2>8. CASE Owed(r)
    <3>1. Entry[r] = "owed" /\ Gathered[r] = what
      BY <1>1, <2>1, <2>8 DEF Entry, Gathered, Over, Present, Owed
    <3>2. {r} \X what \subseteq Told
      BY <1>1, <1>5, <2>1 DEF AllTold, Told
    <3>3. Outbox!Settle(r)
      BY <1>2, <2>6, <2>7, <3>1, <3>2 DEF Outbox!Settle, Asked, Entry, Gathered, Told
    <3> QED BY <1>1, <2>4, <3>3 DEF Outbox!Next
  <2>9. CASE ~Owed(r)
    <3>1. \A x \in Run : Owed(x)' <=> Owed(x)
      BY <2>2, <2>9 DEF Owed, RowSame
    <3>2. \A x \in Run : /\ rows'[x].trig = rows[x].trig /\ rows'[x].fp = rows[x].fp
                         /\ rows'[x].status = rows[x].status
      BY <2>2 DEF RowSame
    <3> QED BY <1>2, <2>4, <3>1, <3>2, PromiseStutter
  <2> QED BY <2>8, <2>9
<1>6. CASE ~Present(r)
  <2>1. rows' = rows
    BY <1>2, <1>6 DEF Write
  <2>2. \A t \in Task : TaskAlike(t)
    BY <1>3 DEF TaskAlike
  <2>3. Kept'
    BY <1>2, <2>1, <2>2, KeptStill DEF RowSame, RunSame
  <2> QED BY <1>2, <2>1, <2>3, PromisePruned
<1> QED BY <1>5, <1>6

\* A start inserts an empty row and prunes some that are there.
LEMMA InsertedFresh ==
  ASSUME NEW r \in Run, NEW trig, NEW gone \in SUBSET {x \in Run : PrunedBy(x, trig)},
         rows[r].status = "none", Inserted(r, trig, gone)
  PROVE  /\ rows'[r].status = "running" /\ rows'[r].fp = {}
         /\ rows'[r].trig = trig /\ rows'[r].notify = "none"
         /\ r \notin gone
         /\ \A x \in gone : /\ x \in Run /\ Present(x)
                            /\ rows'[x].status = "pruned" /\ rows'[x].fp = {} /\ rows'[x].notify = "none"
         /\ \A x \in Run : x # r /\ x \notin gone => rows'[x] = rows[x]
<1>1. \A x \in gone : x \in Run /\ Present(x)
  BY DEF PrunedBy
<1>2. r \notin gone
  BY <1>1 DEF Present
<1>3. rows'[r].status = "running" /\ rows'[r].fp = {} /\ rows'[r].trig = trig /\ rows'[r].notify = "none"
  BY DEF Inserted, NoRow
<1>4. \A x \in Run : x # r /\ x \in gone => rows'[x] = [NoRow EXCEPT !.status = "pruned"]
  BY DEF Inserted
<1>5. \A x \in Run : x # r /\ x \notin gone => rows'[x] = rows[x]
  BY DEF Inserted
<1>6. \A x \in gone : rows'[x].status = "pruned" /\ rows'[x].fp = {} /\ rows'[x].notify = "none"
  BY <1>1, <1>2, <1>4 DEF NoRow
<1> QED BY <1>1, <1>2, <1>3, <1>5, <1>6

LEMMA KeptInserted ==
  ASSUME Alone, TInv, TInv', Kept, NEW p \in Proc, NEW r \in Run, NEW trig \in {"manual", "schedule"},
         NEW gone \in SUBSET {x \in Run : PrunedBy(x, trig)},
         rows[r].status = "none", Inserted(r, trig, gone), task' = task, attempted' = attempted,
         RunKept(p)', ListKept(p)'
  PROVE  Kept'
<1>1. /\ rows'[r].status = "running" /\ rows'[r].notify = "none"
      /\ \A x \in gone : rows'[x].status = "pruned" /\ rows'[x].notify = "none"
      /\ \A x \in Run : x # r /\ x \notin gone => rows'[x] = rows[x]
  BY InsertedFresh
<1>2. ASSUME NEW x \in Run PROVE RowKept(x)'
  <2>1. CASE x = r \/ x \in gone
    BY <1>1, <2>1 DEF RowKept, Owed
  <2>2. CASE x # r /\ x \notin gone
    BY <1>1, <2>2, KeptRow DEF Kept, RowSame
  <2> QED BY <2>1, <2>2
<1>3. ASSUME NEW t \in Task PROVE TaskKept(t)'
  <2>1. TaskKept(t) /\ t[3] \in Run
    BY KeptTypes DEF Kept
  <2>2. CASE t[3] = r
    BY <2>1, <2>2 DEF TaskKept
  <2>3. CASE t[3] # r
    <3>1. task[t].pc # "none" => RowSame(t[3]) \/ rows'[t[3]].status = "pruned"
      BY <1>1, <2>1, <2>3 DEF RowSame
    <3> QED BY <2>1, <3>1, KeptTask DEF TaskAlike
  <2> QED BY <2>2, <2>3
<1> QED BY <1>2, <1>3 DEF Kept, Alone

LEMMA PromiseBegins ==
  ASSUME TInv, TInv', Kept, NEW r \in Run, NEW trig \in {"manual", "schedule"},
         NEW gone \in SUBSET {x \in Run : PrunedBy(x, trig)},
         rows[r].status = "none", Inserted(r, trig, gone), attempted' = attempted,
         faults' = faults \/ DbFails
  PROVE  Outbox!Next
<1>1. /\ rows'[r].status = "running" /\ rows'[r].fp = {} /\ rows'[r].trig = trig
      /\ r \notin gone
      /\ \A x \in gone : /\ x \in Run /\ Present(x)
                         /\ rows'[x].status = "pruned" /\ rows'[x].fp = {} /\ rows'[x].notify = "none"
      /\ \A x \in Run : x # r /\ x \notin gone => rows'[x] = rows[x]
  BY InsertedFresh
<1>2. rows[r].fp = {} /\ \A c \in Category : <<r, c>> \notin attempted
  BY DEF Kept, RowKept
<1>3. ~Present(r) /\ \A x \in Run : Present(x)' <=> x = r \/ (Present(x) /\ x \notin gone)
  BY <1>1 DEF Present
<1>4. Entry[r] = "open" /\ Gathered[r] = {}
  BY <1>2 DEF Entry, Gathered
<1>5. Asked' = IF trig = "schedule" THEN (Asked \ gone) \cup {r} ELSE Asked \ gone
  <2>1. \A x \in Run : x # r => (x \in Asked' <=> x \in Asked \ gone)
    BY <1>1, <1>3 DEF Asked
  <2>2. (r \in Asked' <=> trig = "schedule") /\ r \notin Asked
    BY <1>1, <1>3 DEF Asked
  <2>3. Asked \subseteq Run /\ Asked' \subseteq Run
    BY DEF Asked
  <2> QED BY <2>1, <2>2, <2>3
<1>6. Entry' = [x \in Run |-> IF x \in gone THEN "closed" ELSE Entry[x]]
  <2>1. \A x \in Run : Entry'[x] = IF x \in gone THEN "closed" ELSE Entry[x]
    BY <1>1 DEF Entry
  <2>2. Entry' = [x \in Run |-> Entry'[x]]
    BY DEF Entry
  <2> QED BY <2>1, <2>2
<1>7. Gathered' = [x \in Run |-> IF x \in gone THEN {} ELSE Gathered[x]]
  <2>1. \A x \in Run : Gathered'[x] = IF x \in gone THEN {} ELSE Gathered[x]
    BY <1>1, <1>2 DEF Gathered
  <2>2. Gathered' = [x \in Run |-> Gathered'[x]]
    BY DEF Gathered
  <2> QED BY <2>1, <2>2
<1>8. Told' = Told \ (gone \X Category)
  <2>1. attempted \subseteq Run \X Category
    BY DEF TInv, TypeOK
  <2>2. \A x \in attempted : x[1] \in Run /\ x[2] \in Category /\ x = <<x[1], x[2]>>
    BY <2>1
  <2>3. \A x \in attempted : x[1] # r
    BY <1>2, <2>2
  <2>4. \A x \in attempted : Present(x[1])' <=> Present(x[1]) /\ x[1] \notin gone
    BY <1>3, <2>2, <2>3
  <2>5. \A x \in attempted : x \in gone \X Category <=> x[1] \in gone
    BY <2>2
  <2>6. Told' = {x \in attempted : Present(x[1])'}
    BY DEF Told
  <2> QED BY <2>4, <2>5, <2>6 DEF Told
<1>9. (faults.db > 0)' \in {faults.db > 0, TRUE}
  <2>1. CASE faults' = faults
    BY <2>1
  <2>2. CASE DbFails
    <3>1. faults.db \in Nat /\ faults'.db = faults.db + 1
      BY <2>2, BoundAssumption DEF DbFails, TInv, TypeOK
    <3>2. (faults.db > 0)' = TRUE
      BY <3>1
    <3> QED BY <3>2
  <2> QED BY <2>1, <2>2
<1>10. Outbox!Begin(r, gone)
  BY <1>1, <1>4, <1>5, <1>6, <1>7, <1>8, <1>9 DEF Outbox!Begin, Asked, Entry, Gathered, Told
<1>11. gone \in SUBSET Run
  BY <1>1
<1> QED BY <1>10, <1>11 DEF Outbox!Next

LEMMA KeptStartRun ==
  ASSUME Alone, TInv, TInv', Kept, NEW p \in Proc, NEW r \in Run, NEW trig \in {"manual", "schedule"},
         NEW cats \in SUBSET Category, StartRun(p, r, trig, cats)
  PROVE  Kept' /\ Outbox!Next
<1>0. PICK gone : gone = {x \in Run : PrunedBy(x, trig)}
  OBVIOUS
<1>1. main \in [Proc -> Main]
  BY KeptTypes
<1>2. /\ rows[r].status = "none" /\ Inserted(r, trig, gone)
      /\ main' = [main EXCEPT ![p] = [At("scan") EXCEPT !.run = r, !.todo = cats]]
      /\ task' = task /\ attempted' = attempted /\ faults' = faults
  BY <1>0 DEF StartRun
<1>3. main'[p].pc = "scan" /\ main'[p].run = r /\ main'[p].found = {}
  BY <1>1, <1>2 DEF At
<1>4. gone \in SUBSET {x \in Run : PrunedBy(x, trig)}
  BY <1>0
<1>5. rows'[r].status = "running" /\ rows'[r].fp = {}
  BY <1>2, <1>4, InsertedFresh
<1>6. \A t \in Task : t[3] = r => task[t].pc = "none"
  BY <1>2 DEF Kept, TaskKept
<1>7. RunKept(p)' /\ ListKept(p)'
  BY <1>2, <1>3, <1>5, <1>6 DEF RunKept, ListKept, Reaping
<1> QED BY <1>2, <1>4, <1>7, KeptInserted, PromiseBegins

LEMMA KeptStartThrows ==
  ASSUME Alone, TInv, TInv', Kept, NEW p \in Proc, NEW r \in Run, NEW trig \in {"manual", "schedule"},
         StartThrows(p, r, trig)
  PROVE  Kept' /\ Outbox!Next
<1>1. PICK gone \in SUBSET {x \in Run : PrunedBy(x, trig)} : Inserted(r, trig, gone)
  BY DEF StartThrows
<1>2. /\ rows[r].status = "none" /\ main[p].pc = "idle" /\ DbFails
      /\ main' = main /\ task' = task /\ attempted' = attempted
  BY DEF StartThrows
<1>3. RunKept(p)' /\ ListKept(p)'
  BY <1>2, KeptFree
<1> QED BY <1>1, <1>2, <1>3, KeptInserted, PromiseBegins

LEMMA PromiseInit ==
  ASSUME Init
  PROVE  Kept /\ Outbox!Init
<1>1. \A r \in Run : rows[r] = NoRow
  BY DEF Init
<1>2. \A p \in Proc : main[p].pc = "idle"
  BY DEF Init, At
<1>3. \A t \in Task : task[t].pc = "none"
  BY DEF Init, NoDispatch
<1>4. attempted = {} /\ faults.db = 0
  BY DEF Init
<1>5. Kept
  BY <1>1, <1>2, <1>3, <1>4
     DEF Kept, RowKept, RunKept, ListKept, TaskKept, Owed, NoRow, Executing, Reaping
<1>6. Asked = {} /\ Told = {}
  BY <1>1, <1>4 DEF Asked, Told, Present, NoRow
<1>7. Entry = [r \in Run |-> "open"] /\ Gathered = [r \in Run |-> {}]
  BY <1>1 DEF Entry, Gathered, NoRow
<1>8. (faults.db > 0) = FALSE
  BY <1>4
<1> QED BY <1>5, <1>6, <1>7, <1>8 DEF Outbox!Init, Asked, Entry, Gathered, Told

\* Steps that leave the rows and what was handed over alone.
LEMMA PromiseScanSteps ==
  ASSUME Alone, TInv, TInv', Kept, NEW p \in Proc, Scan(p)
  PROVE  Kept' /\ [Outbox!Next]_(Outbox!vars)
<1>1. CASE ContextFails(p)
  BY <1>1, KeptContextFails, PromisePruned DEF ContextFails
<1>2. ASSUME NEW c \in Category, CategoryFails(p, c) \/ CategorySynced(p, c)
      PROVE  Kept' /\ [Outbox!Next]_(Outbox!vars)
  BY <1>2, KeptCategory, PromisePruned DEF CategoryFails, CategorySynced
<1>3. CASE ProgressRead(p)
  BY <1>3, KeptProgressRead, PromisePruned DEF ProgressRead
<1>4. CASE Announce(p)
  BY <1>4, KeptAnnounce, PromisePruned DEF Announce
<1> QED BY <1>1, <1>2, <1>3, <1>4, KeptProgressWrite, KeptFinishScan, KeptCatchFinish DEF Scan

LEMMA PromiseSweepSteps ==
  ASSUME Alone, TInv, TInv', Kept, NEW p \in Proc, Sweep(p)
  PROVE  Kept' /\ [Outbox!Next]_(Outbox!vars)
<1>1. CASE ListStale(p) \/ ListDue(p)
  BY <1>1, KeptLists, PromisePruned DEF ListStale, ListDue
<1>2. CASE RecoverPending(p)
  BY <1>2, KeptRecoverPending, PromisePruned DEF RecoverPending
<1>3. CASE EndSweep(p)
  BY <1>3, DropStill, StillKeeps
<1> QED BY <1>1, <1>2, <1>3, KeptRecoverInterrupted DEF Sweep

LEMMA PromiseFaultSteps ==
  ASSUME Alone, TInv, TInv', Kept, Fault
  PROVE  Kept' /\ [Outbox!Next]_(Outbox!vars)
<1>1. ASSUME NEW p \in Proc, Crash(p) PROVE Kept' /\ [Outbox!Next]_(Outbox!vars)
  BY <1>1, DropStill, StillKeeps
<1>2. ASSUME NEW p \in Proc,
             CategoryThrows(p) \/ FinishThrows(p) \/ CatchThrows(p) \/ SweepThrows(p)
      PROVE  Kept' /\ [Outbox!Next]_(Outbox!vars)
  BY <1>2, KeptThrows, PromiseFails DEF Outbox!Next
<1>3. ASSUME NEW t \in Task, DispatchThrows(t) PROVE Kept' /\ [Outbox!Next]_(Outbox!vars)
  BY <1>3, KeptDispatchThrows, PromiseFails DEF Outbox!Next
<1> QED BY <1>1, <1>2, <1>3, KeptStartThrows DEF Fault

LEMMA PromiseStep ==
  ASSUME Alone, TInv, TInv', Kept, [Next]_vars
  PROVE  Kept' /\ [Outbox!Next]_(Outbox!vars)
<1>1. CASE Fault
  BY <1>1, PromiseFaultSteps
<1>2. ASSUME NEW p \in Proc, Scan(p) \/ Sweep(p) PROVE Kept' /\ [Outbox!Next]_(Outbox!vars)
  BY <1>2, PromiseScanSteps, PromiseSweepSteps
<1>3. ASSUME NEW p \in Proc, Heartbeat(p) \/ Restart(p) PROVE Kept' /\ [Outbox!Next]_(Outbox!vars)
  BY <1>3, HeartbeatStill, DropStill, StillKeeps
<1>4. ASSUME NEW p \in Proc, NEW r \in Run, NEW trig \in {"manual", "schedule"},
             NEW cats \in SUBSET Category, StartRun(p, r, trig, cats)
      PROVE  Kept' /\ [Outbox!Next]_(Outbox!vars)
  BY <1>4, KeptStartRun
<1>5. ASSUME NEW t \in Task, DispatchStep(t) PROVE Kept' /\ [Outbox!Next]_(Outbox!vars)
  <2>1. CASE ClaimLost(t)
    BY <1>5, <2>1, ClaimLostStill, StillKeeps
  <2> QED BY <1>5, <2>1, KeptClaimWon, KeptSend, KeptMarkSent DEF DispatchStep
<1>6. CASE Tick
  BY <1>6, TickStill, StillKeeps
<1>7. CASE UNCHANGED vars
  <2>1. rows' = rows /\ main' = main /\ task' = task /\ attempted' = attempted /\ faults' = faults
    BY <1>7 DEF vars
  <2>2. Still
    BY <2>1 DEF Still, RowSame, RunSame, TaskAlike
  <2> QED BY <2>2, StillKeeps
<1> QED BY <1>1, <1>2, <1>3, <1>4, <1>5, <1>6, <1>7 DEF Next

\* KeepsPromise: with one container the run rows, the executor, the recovery
\* passes and the dispatches together do nothing but what the outbox promises,
\* through every crash and restart: a run closes with all that was recorded on
\* it and owed, and is settled only after every batch of it was handed over
\* (run-executor.ts executeTarget, dispatch.ts dispatchAndMarkSent).
THEOREM OneContainerKeepsPromise ==
  ASSUME Alone
  PROVE  Spec => KeepsPromise
<1>1. Init => KInv /\ Outbox!Init
  BY TypeInit, PromiseInit DEF KInv
<1>2. KInv /\ [Next]_vars => KInv' /\ [Outbox!Next]_(Outbox!vars)
  BY TypeStep, PromiseStep DEF KInv
<1> QED BY <1>1, <1>2, PTL DEF Spec, KeepsPromise, Outbox!Spec
=============================================================================
