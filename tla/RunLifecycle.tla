---------------------------- MODULE RunLifecycle ----------------------------
(***************************************************************************)
(* A scan run and its notification outbox, shared by the containers that   *)
(* use one database (lib/run-executor.ts, lib/schedule-runs.ts,            *)
(* lib/startup-recovery.ts, lib/notifications/dispatch.ts).                *)
(*                                                                         *)
(* A container executes one run at a time.  It keeps the run's row alive   *)
(* with a heartbeat, records each category's new findings on the row, and  *)
(* closes the row with an outbox entry when there is something to          *)
(* announce.  Dispatching an entry is claim, send, mark.  Any container    *)
(* sweeps: it closes rows whose heartbeat is stale and dispatches entries  *)
(* that are due.  Each database statement is one step, so containers       *)
(* interleave between any two statements, as they do in the code.          *)
(*                                                                         *)
(* The new findings of category c found by run r are one batch, <<r, c>>;  *)
(* a row's fingerprints are the categories recorded on it.  Time is        *)
(* relative: every heartbeat, claim and `now` carries its age, and         *)
(* Tick lets all of them grow, saturating just past the last comparison    *)
(* that can tell two ages apart.                                           *)
(***************************************************************************)
EXTENDS Integers, FiniteSets

CONSTANTS
    Proc,       \* containers sharing the database
    Run,        \* run ids
    NoRun,      \* no run: what an idle container is executing
    Category,   \* categories a run may scan
    Problems,   \* the categories whose new findings every channel is told of;
                \* the others hold only Advisories
    Stale,      \* STALE_AFTER_MS, in ticks
    BeatBound,  \* the oldest a live executor lets its heartbeat get
    SendBound,  \* the longest a live post-scan dispatch holds its claim
    PassBound,  \* the longest one recovery pass over the outbox lasts
    KeepRuns,   \* MAX_RUNS_PER_BUCKET
    MaxCrash,   \* bound: how many crashes are considered
    MaxDbFail   \* bound: how many failed database calls are considered

ASSUME RunAssumption == NoRun \notin Run /\ IsFiniteSet(Run)
ASSUME ProblemsAssumption == Problems \subseteq Category
ASSUME TimeAssumption ==
    /\ Stale \in Nat \ {0}
    /\ BeatBound \in Nat
    /\ SendBound \in Nat
    /\ PassBound \in Nat
ASSUME BoundAssumption ==
    /\ KeepRuns \in Nat \ {0}
    /\ MaxCrash \in Nat
    /\ MaxDbFail \in Nat

VARIABLES
    rows,       \* the schedule_runs table
    main,       \* per container: the tick, scan or startup it is in
    task,       \* per container, origin and run: a dispatchAndMarkSent call
    durable,    \* batches committed to the findings table
    recorded,   \* history: batches recorded on a run's row
    attempted,  \* history: batches handed to the channels
    faults      \* crashes and failed database calls so far

vars == <<rows, main, task, durable, recorded, attempted, faults>>

---------------------------------------------------------------------------
(* Values *)

BeatCap == Stale + 1                \* every older heartbeat is just as stale
ClaimCap == Stale + PassBound + 1   \* a claim is compared with a pass's `now`

Older(age, cap) == IF age < cap THEN age + 1 ELSE cap

Origin == {"live", "sweep"}   \* fired after a scan, or awaited by recovery
Task == Proc \X Origin \X Run

RowStatus == {"none", "running", "success", "partial", "error", "pruned"}

Row == [status : RowStatus,
        trig   : {"manual", "schedule"},
        fp     : SUBSET Category,       \* newFindingFingerprints, changedFindings
        notify : {"none", "pending", "sending", "sent"},
        beat   : 0..BeatCap,            \* age of heartbeatAt
        claim  : 0..ClaimCap,           \* age of notifyClaimedAt while "sending"
        born   : Nat]                   \* order of startedAt

NoRow == [status |-> "none", trig |-> "manual", fp |-> {}, notify |-> "none",
          beat |-> 0, claim |-> 0, born |-> 0]

Listed == [run : Run, fp : SUBSET Category]   \* a row as a sweep read it

MainPc == {"down", "boot", "idle",                        \* not executing
           "scan", "synced", "write", "announce", "catch", \* executeTarget
           "boot1", "sweep1", "sweep2"}                    \* the two passes

Main == [pc    : MainPc,
         run   : Run \cup {NoRun},
         todo  : SUBSET Category,                \* categories still to scan
         batch : SUBSET Category,                \* what the category just synced
         base  : SUBSET Category,                \* fingerprints progress read
         found : SUBSET Category,                \* newFingerprints in memory
         seen  : SUBSET {"ok", "partial", "failed"},
         list  : SUBSET Listed,                  \* rows the pass still has to do
         age   : 0..PassBound]                   \* age of pass 2's `now`

At(pc) == [pc |-> pc, run |-> NoRun, todo |-> {}, batch |-> {}, base |-> {},
           found |-> {}, seen |-> {}, list |-> {}, age |-> 0]

Dispatch == [pc   : {"none", "claim", "send", "mark"},
             what : SUBSET Category,
             age  : 0..ClaimCap,   \* age of the claim's `now`
             own  : BOOLEAN]       \* history: claimed, and not reopened since

NoDispatch == [pc |-> "none", what |-> {}, age |-> 0, own |-> FALSE]

Present(r) == rows[r].status \notin {"none", "pruned"}

Executing(p) == main[p].pc \in {"scan", "synced", "write", "announce", "catch"}
Holding(t) == task[t].pc \in {"send", "mark"}

---------------------------------------------------------------------------
(* Statements on a row.  An UPDATE whose row was pruned changes nothing. *)

Write(r, row) == rows' = IF Present(r) THEN [rows EXCEPT ![r] = row] ELSE rows

\* finishRun: by id, whatever the row holds by now.
FinishRun(r, status, fp, notify) ==
    /\ Write(r, [rows[r] EXCEPT !.status = status, !.fp = fp, !.notify = notify,
                                !.beat = 0, !.claim = 0])
    /\ task' = [t \in Task |->
                   IF t[3] = r THEN [task[t] EXCEPT !.own = FALSE] ELSE task[t]]

\* pruneOldRuns: the newest KeepRuns rows of a bucket stay.
Newer(r, x) == Present(x) /\ rows[x].trig = rows[r].trig /\ rows[x].born > rows[r].born
PrunedBy(r, trig) ==
    /\ Present(r)
    /\ rows[r].trig = trig
    /\ Cardinality({x \in Run : Newer(r, x)}) + 1 >= KeepRuns

\* Variants: any claim can be taken over; no claim ever can.
DueAnyClaim(r, age) == rows[r].notify \in {"pending", "sending"} /\ age >= 0
DueNoTakeover(r, age) == rows[r].notify = "pending" /\ age >= 0

\* notifyDueCondition, for a `now` that is `age` ticks old.
Due(r, age) ==
    \/ rows[r].notify = "pending"
    \/ rows[r].notify = "sending" /\ rows[r].claim > Stale + age

---------------------------------------------------------------------------
(* executeTarget *)

\* startRun's insert, and what pruneOldRuns deletes.
Inserted(r, trig, gone) ==
    rows' = [x \in Run |->
        IF x = r THEN [NoRow EXCEPT !.status = "running", !.trig = trig,
                          !.born = Cardinality({y \in Run : rows[y].status # "none"}) + 1]
        ELSE IF x \in gone THEN [NoRow EXCEPT !.status = "pruned"]
        ELSE rows[x]]

\* startRun: insert and prune, one step because nothing reads a row's age in between.
StartRun(p, r, trig, cats) ==
    /\ main[p].pc = "idle"
    /\ rows[r].status = "none"
    /\ Inserted(r, trig, {x \in Run : PrunedBy(x, trig)})
    /\ main' = [main EXCEPT ![p] = [At("scan") EXCEPT !.run = r, !.todo = cats]]
    /\ UNCHANGED <<task, durable, recorded, attempted, faults>>

\* heartbeatRun: a no-op once the row is closed.
Heartbeat(p) ==
    /\ Executing(p)
    /\ rows[main[p].run].status = "running"
    /\ rows[main[p].run].beat > 0
    /\ rows' = [rows EXCEPT ![main[p].run].beat = 0]
    /\ UNCHANGED <<main, task, durable, recorded, attempted, faults>>

\* createScanContext, or the read of the categories, throws before any scan.
ContextFails(p) ==
    /\ main[p].pc = "scan"
    /\ main[p].seen = {}
    /\ main' = [main EXCEPT ![p].pc = "catch"]
    /\ UNCHANGED <<rows, task, durable, recorded, attempted, faults>>

\* runCategoryScan throws before its findings are committed.
CategoryFails(p, c) ==
    /\ main[p].pc = "scan"
    /\ c \in main[p].todo
    /\ main' = [main EXCEPT ![p].todo = @ \ {c}, ![p].seen = @ \cup {"failed"}]
    /\ UNCHANGED <<rows, task, durable, recorded, attempted, faults>>

\* syncScanFindingsDetailed commits the category's findings; some are new, or none.
CategorySynced(p, c) ==
    /\ main[p].pc = "scan"
    /\ c \in main[p].todo
    /\ \E new \in {{}, {c}} :
          /\ main' = [main EXCEPT ![p].pc = "synced", ![p].todo = @ \ {c}, ![p].batch = new]
          /\ durable' = durable \cup ({main[p].run} \X new)
    /\ UNCHANGED <<rows, task, recorded, attempted, faults>>

\* runCategoryScan returns; recordCategoryProgress reads the row.
ProgressRead(p) ==
    /\ main[p].pc = "synced"
    /\ \E coverage \in {{}, {"partial"}} :
          main' = [main EXCEPT ![p].pc = "write",
                               ![p].found = @ \cup main[p].batch,
                               ![p].base = rows[main[p].run].fp,
                               ![p].seen = @ \cup coverage]
    /\ UNCHANGED <<rows, task, durable, recorded, attempted, faults>>

\* Variant: it writes the batch alone.
ProgressOverwrite(p) ==
    LET r == main[p].run IN
    /\ main[p].pc = "write"
    /\ Write(r, [rows[r] EXCEPT !.fp = main[p].batch])
    /\ recorded' = recorded \cup ({r} \X main[p].batch)
    /\ main' = [main EXCEPT ![p].pc = "scan", ![p].batch = {}, ![p].base = {},
                            ![p].seen = @ \cup {"ok"}]
    /\ UNCHANGED <<task, durable, attempted, faults>>

\* recordCategoryProgress writes what it read plus the batch.
ProgressWrite(p) ==
    LET r == main[p].run
        fp == main[p].base \cup main[p].batch IN
    /\ main[p].pc = "write"
    /\ Write(r, [rows[r] EXCEPT !.fp = fp])
    /\ recorded' = recorded \cup ({r} \X main[p].batch)
    /\ main' = [main EXCEPT ![p].pc = "scan", ![p].batch = {}, ![p].base = {},
                            ![p].seen = @ \cup {"ok"}]
    /\ UNCHANGED <<task, durable, attempted, faults>>

\* Variant: a rule's status, "failed", is taken for a run's.
RunStatusOfRule(seen) ==
    IF "failed" \in seen /\ "ok" \notin seen THEN "failed" ELSE "success"

RunStatus(seen) ==
    IF "failed" \in seen /\ "ok" \notin seen THEN "error"
    ELSE IF seen \cap {"failed", "partial"} # {} THEN "partial"
    ELSE "success"

\* The run ends: one finishRun closes the row and opens its outbox entry.
\* Whether the schedule has a channel that includes advisories is an
\* operator's setting, read here.
FinishScan(p) ==
    LET r == main[p].run
        f == main[p].found IN
    /\ main[p].pc = "scan"
    /\ main[p].todo = {}
    /\ \E includesAdvisories \in BOOLEAN :
          LET willNotify == /\ rows[r].trig = "schedule"
                            /\ f \cap Problems # {} \/ (f # {} /\ includesAdvisories) IN
          /\ FinishRun(r, RunStatus(main[p].seen), f, IF willNotify THEN "pending" ELSE "none")
          /\ main' = [main EXCEPT ![p] = IF willNotify
                        THEN [At("announce") EXCEPT !.run = r, !.found = f] ELSE At("idle")]
    /\ UNCHANGED <<durable, recorded, attempted, faults>>

\* getRun, then dispatchAndMarkSent is started and not awaited.
Announce(p) ==
    LET t == <<p, "live", main[p].run>> IN
    /\ main[p].pc = "announce"
    /\ task' = [task EXCEPT ![t] = [NoDispatch EXCEPT !.pc = "claim", !.what = main[p].found]]
    /\ main' = [main EXCEPT ![p] = At("idle")]
    /\ UNCHANGED <<rows, durable, recorded, attempted, faults>>

\* The outer catch closes the row with nothing in it.
CatchFinish(p) ==
    /\ main[p].pc = "catch"
    /\ FinishRun(main[p].run, "error", {}, "none")
    /\ main' = [main EXCEPT ![p] = At("idle")]
    /\ UNCHANGED <<durable, recorded, attempted, faults>>

---------------------------------------------------------------------------
(* Recovery: at startup, and at the head of every scheduler tick *)

\* Variants: every running row is taken for an orphan; only a startup sweeps.
ListRunning(p) ==
    /\ main[p].pc \in {"boot", "idle"}
    /\ main' = [main EXCEPT ![p] =
          [At(IF main[p].pc = "boot" THEN "boot1" ELSE "sweep1") EXCEPT
             !.list = {[run |-> r, fp |-> rows[r].fp] :
                         r \in {x \in Run : rows[x].status = "running"}}]]
    /\ UNCHANGED <<rows, task, durable, recorded, attempted, faults>>
ListStaleAtBoot(p) ==
    /\ main[p].pc = "boot"
    /\ main' = [main EXCEPT ![p] = [At("boot1") EXCEPT
          !.list = {[run |-> r, fp |-> rows[r].fp] :
                      r \in {x \in Run : rows[x].status = "running" /\ rows[x].beat > Stale}}]]
    /\ UNCHANGED <<rows, task, durable, recorded, attempted, faults>>

\* Pass 1 lists the running rows whose heartbeat is stale.
ListStale(p) ==
    /\ main[p].pc \in {"boot", "idle"}
    /\ main' = [main EXCEPT ![p] =
          [At(IF main[p].pc = "boot" THEN "boot1" ELSE "sweep1") EXCEPT
             !.list = {[run |-> r, fp |-> rows[r].fp] :
                         r \in {x \in Run : rows[x].status = "running" /\ rows[x].beat > Stale}}]]
    /\ UNCHANGED <<rows, task, durable, recorded, attempted, faults>>

\* Variant: the recorded fingerprints are left out of the closing write.
RecoverWithoutProgress(p) ==
    /\ main[p].pc \in {"boot1", "sweep1"}
    /\ \E e \in main[p].list :
          /\ FinishRun(e.run, "error", {}, "none")
          /\ main' = [main EXCEPT ![p].list = @ \ {e}]
    /\ UNCHANGED <<durable, recorded, attempted, faults>>

\* recoverInterruptedRuns closes one of them, from what it listed.
RecoverInterrupted(p) ==
    /\ main[p].pc \in {"boot1", "sweep1"}
    /\ \E e \in main[p].list :
          /\ FinishRun(e.run, "error", e.fp,
                IF rows[e.run].trig = "schedule" /\ e.fp # {} THEN "pending" ELSE "none")
          /\ main' = [main EXCEPT ![p].list = @ \ {e}]
    /\ UNCHANGED <<durable, recorded, attempted, faults>>

\* Pass 2 takes `now` and lists the entries due.
ListDue(p) ==
    /\ main[p].pc \in {"boot1", "sweep1"}
    /\ main[p].list = {}
    /\ main' = [main EXCEPT ![p] = [At("sweep2") EXCEPT
          !.list = {[run |-> r, fp |-> rows[r].fp] : r \in {x \in Run : Due(x, 0)}}]]
    /\ UNCHANGED <<rows, task, durable, recorded, attempted, faults>>

SweepTaskDone(p) == \A r \in Run : task[<<p, "sweep", r>>].pc = "none"

\* recoverPendingNotifications dispatches one listed entry and awaits it.
RecoverPending(p) ==
    /\ main[p].pc = "sweep2"
    /\ SweepTaskDone(p)
    /\ \E e \in main[p].list :
          /\ task' = [task EXCEPT ![<<p, "sweep", e.run>>] =
                        [NoDispatch EXCEPT !.pc = "claim", !.what = e.fp]]
          /\ main' = [main EXCEPT ![p].list = @ \ {e}]
    /\ UNCHANGED <<rows, durable, recorded, attempted, faults>>

EndSweep(p) ==
    /\ main[p].pc = "sweep2"
    /\ SweepTaskDone(p)
    /\ main[p].list = {}
    /\ main' = [main EXCEPT ![p] = At("idle")]
    /\ UNCHANGED <<rows, task, durable, recorded, attempted, faults>>

---------------------------------------------------------------------------
(* dispatchAndMarkSent.  A live dispatch takes `now` as it claims; recovery *)
(* hands every dispatch of a pass the `now` the pass began with.            *)

Stamp(t) == IF t[2] = "sweep" THEN main[t[1]].age ELSE 0

\* claimNotifyDispatch: one conditional UPDATE.
ClaimWon(t) ==
    /\ task[t].pc = "claim"
    /\ Due(t[3], Stamp(t))
    /\ rows' = [rows EXCEPT ![t[3]].notify = "sending", ![t[3]].claim = Stamp(t)]
    /\ task' = [task EXCEPT ![t].pc = "send", ![t].age = Stamp(t), ![t].own = TRUE]
    /\ UNCHANGED <<main, durable, recorded, attempted, faults>>

ClaimLost(t) ==
    /\ task[t].pc = "claim"
    /\ ~Due(t[3], Stamp(t))
    /\ task' = [task EXCEPT ![t] = NoDispatch]
    /\ UNCHANGED <<rows, main, durable, recorded, attempted, faults>>

\* Suppressed findings are dropped and dispatchNotifications tries each channel.
Send(t) ==
    /\ task[t].pc = "send"
    /\ attempted' = attempted \cup ({t[3]} \X task[t].what)
    /\ task' = [task EXCEPT ![t].pc = "mark"]
    /\ UNCHANGED <<rows, main, durable, recorded, faults>>

\* markNotifySent: by id, whoever holds the claim by now.
MarkSent(t) ==
    /\ task[t].pc = "mark"
    /\ Write(t[3], [rows[t[3]] EXCEPT !.notify = "sent", !.claim = 0])
    /\ task' = [task EXCEPT ![t] = NoDispatch]
    /\ UNCHANGED <<main, durable, recorded, attempted, faults>>

---------------------------------------------------------------------------
(* Failures *)

Crash(p) ==
    /\ faults.crash < MaxCrash
    /\ main[p].pc # "down"
    /\ main' = [main EXCEPT ![p] = At("down")]
    /\ task' = [t \in Task |-> IF t[1] = p THEN NoDispatch ELSE task[t]]
    /\ faults' = [faults EXCEPT !.crash = @ + 1]
    /\ UNCHANGED <<rows, durable, recorded, attempted>>

Restart(p) ==
    /\ main[p].pc = "down"
    /\ main' = [main EXCEPT ![p] = At("boot")]
    /\ UNCHANGED <<rows, task, durable, recorded, attempted, faults>>

DbFails ==
    /\ faults.db < MaxDbFail
    /\ faults' = [faults EXCEPT !.db = @ + 1]

\* startRun's prune, or its read back, throws: the row is there and runs for
\* nobody, and some of the rows to prune may be gone.
StartThrows(p, r, trig) ==
    /\ DbFails
    /\ main[p].pc = "idle"
    /\ rows[r].status = "none"
    /\ \E gone \in SUBSET {x \in Run : PrunedBy(x, trig)} : Inserted(r, trig, gone)
    /\ UNCHANGED <<main, task, durable, recorded, attempted>>

\* A category's calls after its findings were committed throw: the snapshot
\* refresh, before executeTarget has the new findings, or the progress
\* record, after it has them.
CategoryThrows(p) ==
    /\ DbFails
    /\ main[p].pc \in {"synced", "write"}
    /\ main' = [main EXCEPT ![p].pc = "scan", ![p].batch = {}, ![p].base = {},
                            ![p].seen = @ \cup {"failed"}]
    /\ UNCHANGED <<rows, task, durable, recorded, attempted>>

\* finishRun, or the getRun after it, throws into the outer catch.
FinishThrows(p) ==
    /\ DbFails
    /\ main[p].pc = "announce" \/ (main[p].pc = "scan" /\ main[p].todo = {})
    /\ main' = [main EXCEPT ![p].pc = "catch"]
    /\ UNCHANGED <<rows, task, durable, recorded, attempted>>

\* finishRun throws inside the catch: executeTarget rejects, the row stays.
CatchThrows(p) ==
    /\ DbFails
    /\ main[p].pc = "catch"
    /\ main' = [main EXCEPT ![p] = At("idle")]
    /\ UNCHANGED <<rows, task, durable, recorded, attempted>>

\* A pass throws.  Startup goes on with pass 2; a tick gives up both.
SweepThrows(p) ==
    /\ DbFails
    /\ \/ main[p].pc = "boot1" /\ main' = [main EXCEPT ![p].list = {}]
       \/ main[p].pc \in {"sweep1", "sweep2"} /\ SweepTaskDone(p)
            /\ main' = [main EXCEPT ![p] = At("idle")]
    /\ UNCHANGED <<rows, task, durable, recorded, attempted>>

\* A dispatch throws: a live one is swallowed, recovery's ends the pass.
DispatchThrows(t) ==
    /\ DbFails
    /\ task[t].pc # "none"
    /\ task' = [task EXCEPT ![t] = NoDispatch]
    /\ main' = IF t[2] = "sweep" THEN [main EXCEPT ![t[1]] = At("idle")] ELSE main
    /\ UNCHANGED <<rows, durable, recorded, attempted>>

---------------------------------------------------------------------------
(* Time passes no faster than live containers keep their deadlines. *)

BoundOf(t) == IF t[2] = "sweep" THEN PassBound ELSE SendBound

MayPass ==
    /\ \A p \in Proc : Executing(p) /\ rows[main[p].run].status = "running"
                         => rows[main[p].run].beat < BeatBound
    /\ \A p \in Proc : main[p].pc = "sweep2" => main[p].age < PassBound
    /\ \A t \in Task : Holding(t) => task[t].age < BoundOf(t)

Tick ==
    /\ MayPass
    /\ rows' = [r \in Run |-> [rows[r] EXCEPT
          !.beat = IF rows[r].status = "running" THEN Older(@, BeatCap) ELSE @,
          !.claim = IF rows[r].notify = "sending" THEN Older(@, ClaimCap) ELSE @]]
    /\ main' = [p \in Proc |-> [main[p] EXCEPT
          !.age = IF main[p].pc = "sweep2" THEN @ + 1 ELSE @]]
    /\ task' = [t \in Task |-> [task[t] EXCEPT
          !.age = IF Holding(t) THEN Older(@, ClaimCap) ELSE @]]
    /\ UNCHANGED <<durable, recorded, attempted, faults>>

---------------------------------------------------------------------------

Init ==
    /\ rows = [r \in Run |-> NoRow]
    /\ main = [p \in Proc |-> At("idle")]
    /\ task = [t \in Task |-> NoDispatch]
    /\ durable = {}
    /\ recorded = {}
    /\ attempted = {}
    /\ faults = [crash |-> 0, db |-> 0]

Scan(p) ==
    \/ ContextFails(p)
    \/ \E c \in Category : CategoryFails(p, c) \/ CategorySynced(p, c)
    \/ ProgressRead(p)
    \/ ProgressWrite(p)
    \/ FinishScan(p)
    \/ Announce(p)
    \/ CatchFinish(p)

Sweep(p) ==
    \/ ListStale(p)
    \/ RecoverInterrupted(p)
    \/ ListDue(p)
    \/ RecoverPending(p)
    \/ EndSweep(p)

DispatchStep(t) == ClaimWon(t) \/ ClaimLost(t) \/ Send(t) \/ MarkSent(t)

Fault ==
    \/ \E p \in Proc :
          \/ \E r \in Run, trig \in {"manual", "schedule"} : StartThrows(p, r, trig)
          \/ Crash(p) \/ CategoryThrows(p) \/ FinishThrows(p)
          \/ CatchThrows(p) \/ SweepThrows(p)
    \/ \E t \in Task : DispatchThrows(t)

Next ==
    \/ \E p \in Proc :
          \/ \E r \in Run, trig \in {"manual", "schedule"}, cats \in SUBSET Category :
                StartRun(p, r, trig, cats)
          \/ Heartbeat(p)
          \/ Scan(p)
          \/ Sweep(p)
          \/ Restart(p)
    \/ \E t \in Task : DispatchStep(t)
    \/ Fault
    \/ Tick

Spec == Init /\ [][Next]_vars

\* The event loop runs every pending continuation, the scheduler ticks every
\* 30 seconds, the platform restarts a dead container, and time passes.
Fairness ==
    /\ \A p \in Proc : WF_vars(Scan(p)) /\ WF_vars(Sweep(p)) /\ WF_vars(Restart(p))
    /\ \A p \in Proc : WF_vars(Heartbeat(p))
    /\ \A t \in Task : WF_vars(DispatchStep(t))
    /\ WF_vars(Tick)

FairSpec == Spec /\ Fairness

---------------------------------------------------------------------------
(* Properties *)

\* Every row, container and dispatch holds a value the code can write.
TypeOK ==
    /\ rows \in [Run -> Row]
    /\ main \in [Proc -> Main]
    /\ task \in [Task -> Dispatch]
    /\ durable \subseteq Run \X Category
    /\ recorded \subseteq Run \X Category
    /\ attempted \subseteq Run \X Category
    /\ faults \in [crash : 0..MaxCrash, db : 0..MaxDbFail]

\* Between two openings of a run's outbox entry, no two live dispatches hold
\* it: claimNotifyDispatch's conditional UPDATE lets one of them win, and a
\* claim is taken over only once its owner can no longer be alive.
OneHolder ==
    \A t, u \in Task :
        /\ t[3] = u[3] /\ Holding(t) /\ Holding(u)
        /\ task[t].own /\ task[u].own
        => t = u

\* A batch the channels must hear of is never dropped once it is recorded on
\* a scheduled run's row, as long as no database call fails: while the run is
\* open it is still on the row, and once the run is closed its entry is due,
\* held, or was handed over.
RecordedIsOwed ==
    faults.db = 0 => \A r \in Run : \A c \in Problems :
        <<r, c>> \in recorded /\ Present(r) /\ rows[r].trig = "schedule" =>
            /\ c \in rows[r].fp
            /\ rows[r].status # "running" =>
                  rows[r].notify \in {"pending", "sending"} \/ <<r, c>> \in attempted

\* No container is about to close the row of a run that a live container is
\* still executing: a heartbeat older than Stale means its owner is gone.
ReapsOnlyDead ==
    \A p, q \in Proc :
        main[p].pc \in {"boot1", "sweep1"} /\ Executing(q) =>
            \A e \in main[p].list : e.run # main[q].run

\* schedule-runs.ts:243 and dispatch.ts:220: two live containers never send
\* the same run's batch.
NeverTwiceFromLive ==
    \A t, u \in Task : t[3] = u[3] /\ t[1] # u[1] => ~(Holding(t) /\ Holding(u))

\* notifications.md: a restart delays a notification, it does not lose it.
\* The code breaks it when it stops between the sync and the run's progress.
RestartNeverLoses ==
    \A r \in Run : \A c \in Problems :
        /\ <<r, c>> \in durable
        /\ rows[r].status \in {"success", "partial", "error"}
        /\ rows[r].trig = "schedule"
        => rows[r].notify \in {"pending", "sending"} \/ <<r, c>> \in attempted

\* Every run is closed in the end: by its executor, or by whoever sweeps
\* after its container died.
RunsClose == \A r \in Run : rows[r].status = "running" ~> rows[r].status # "running"

\* Every outbox entry is dispatched in the end, or gone with its pruned row.
OutboxDrains ==
    \A r \in Run : rows[r].notify \in {"pending", "sending"} ~> rows[r].notify \in {"sent", "none"}

\* A single container, crashing and restarting, keeps the outbox's promise.
Outbox == INSTANCE NotificationOutbox WITH
    asked    <- {r \in Run : Present(r) /\ rows[r].trig = "schedule"},
    entry    <- [r \in Run |-> IF rows[r].status \in {"none", "running"} THEN "open"
                              ELSE IF rows[r].notify \in {"pending", "sending"} THEN "owed"
                              ELSE "closed"],
    gathered <- [r \in Run |-> rows[r].fp],
    told     <- {x \in attempted : Present(x[1])},
    failed   <- faults.db > 0

KeepsPromise == Outbox!Spec
=============================================================================
