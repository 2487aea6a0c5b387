-------------------------- MODULE FindingLifecycle --------------------------
(***************************************************************************)
(* What scans make of the findings table (lib/scan-runner.ts,              *)
(* lib/db/findings.ts), while operators move, disable, clear and delete    *)
(* rules (lib/rules.ts) and the estate they are checked against drifts.    *)
(*                                                                         *)
(* A scan of one category loads its rules, queries them one after the      *)
(* other, and commits what they returned in one transaction: findings are  *)
(* opened, reopened or updated, those a rule proved gone are fixed, and    *)
(* every transition leaves an event.  Within a container scans run one at  *)
(* a time, and on SQLite a transaction excludes every other one; on        *)
(* Postgres two containers' transactions interleave between statements.    *)
(*                                                                         *)
(* A finding is a rule and a resource.  The kinds "state" and "advisory"   *)
(* live alike and are one here; Activity rules are the others.  Outcomes   *)
(* other than success (failed, capped, invalid) differ only in how much of *)
(* the truth they return, and are one outcome that returns some of it.     *)
(***************************************************************************)
EXTENDS FiniteSets, Naturals

CONSTANTS
    Scanner,    \* containers: each runs one scan at a time
    Rule,
    Activity,   \* the rules whose findings are things that happened
    Resource,
    RowVal,     \* rows a query can return for a resource
    Category,
    Home,       \* the category every rule starts in
    Serial,     \* a transaction excludes every other one (SQLite)
    MaxDrift,   \* bound: how many changes of the estate are considered
    MaxEdit     \* bound: how many operator actions are considered

ASSUME KindAssumption == Activity \subseteq Rule
ASSUME HomeAssumption == Home \in Category
ASSUME SerialAssumption == Serial \in BOOLEAN
ASSUME BoundsAssumption == MaxDrift \in Nat /\ MaxEdit \in Nat

VARIABLES
    estate,     \* the rows each rule's query would return for each resource now
    rules,      \* the rules table
    findings,   \* the findings table, with each finding's rows
    trail,      \* the finding_events table, replayed per finding
    scan,       \* per scanner: the runCategoryScan it is in
    watch,      \* history: what the estate held during each scan
    stood,      \* history: rows that never went away since the finding opened
    spent       \* drifts and edits so far

vars == <<estate, rules, findings, trail, scan, watch, stood, spent>>

---------------------------------------------------------------------------

Fp == Rule \X Resource    \* computeFingerprint, computeActivityFingerprint
NoRows == [f \in Fp |-> {}]

Finding == [status   : {"none", "active", "fixed"},
            category : Category,
            rows     : SUBSET RowVal]
NoFinding == [status |-> "none", category |-> Home, rows |-> {}]

Trail == [last  : {"none", "created", "reactivated", "resolved"},
          rows  : SUBSET RowVal,   \* the opening rows, row_added and row_removed replayed
          whole : BOOLEAN]         \* opened by a rule that ran to success
NoTrail == [last |-> "none", rows |-> {}, whole |-> FALSE]

ScanState == [pc       : {"idle", "query", "sync", "upsert", "resolve", "synced"},
              category : Category,
              covered  : SUBSET Resource,      \* what the run's starter may see
              todo     : SUBSET Rule,          \* rules loaded and not yet run
              ran      : SUBSET Rule,          \* ranRuleIds: those that succeeded
              found    : [Fp -> SUBSET RowVal],
              known    : [Fp -> Finding],      \* what the sync classified against
              stale    : SUBSET Fp,            \* what the sync is about to resolve
              opened   : SUBSET Fp,            \* newFindings
              gained   : [Fp -> SUBSET RowVal]] \* changedFindings
Idle == [pc |-> "idle", category |-> Home, covered |-> {}, todo |-> {}, ran |-> {},
         found |-> NoRows, known |-> [f \in Fp |-> NoFinding], stale |-> {},
         opened |-> {}, gained |-> NoRows]

Watch == [gone  : SUBSET Fp,               \* absent at some moment of the scan
          there : SUBSET Fp,               \* present at some moment of the scan
          held  : [Fp -> SUBSET RowVal]]   \* rows that stayed since they were queried
NoWatch == [gone |-> {}, there |-> {}, held |-> NoRows]

Of(r) == {f \in Fp : f[1] = r}
Seen(s) == {f \in Fp : scan[s].found[f] # {}}
InTransaction(s) == scan[s].pc \in {"upsert", "resolve"}

\* Row locks an open transaction holds on what it has upserted.
Locked(s) == IF scan[s].pc = "resolve" THEN Seen(s) ELSE {}
MayLock(s, fps) == \A t \in Scanner \ {s} : Locked(t) \cap fps = {}

---------------------------------------------------------------------------
(* runCategoryScan *)

\* The enabled rules of the category are loaded; a run can be narrowed to
\* some rules and to what its starter covers.
Begin(s, c, only, covered) ==
    /\ scan[s].pc = "idle"
    /\ scan' = [scan EXCEPT ![s] = [Idle EXCEPT
          !.pc = "query", !.category = c, !.covered = covered,
          !.todo = {r \in only : rules[r].there /\ rules[r].on /\ rules[r].category = c}]]
    /\ watch' = [watch EXCEPT ![s] = [NoWatch EXCEPT
          !.gone = {f \in Fp : estate[f] = {}}, !.there = {f \in Fp : estate[f] # {}}]]
    /\ UNCHANGED <<estate, rules, findings, trail, stood, spent>>

\* What rule r returns of the covered resources: everything there is.
Answer(s, r) ==
    [f \in Fp |-> IF f[1] = r /\ f[2] \in scan[s].covered THEN estate[f] ELSE scan[s].found[f]]

QuerySucceeds(s, r) ==
    /\ scan[s].pc = "query"
    /\ r \in scan[s].todo
    /\ scan' = [scan EXCEPT ![s].todo = @ \ {r}, ![s].ran = @ \cup {r}, ![s].found = Answer(s, r)]
    /\ watch' = [watch EXCEPT ![s].held = [f \in Fp |-> IF f[1] = r THEN Answer(s, r)[f] ELSE @[f]]]
    /\ UNCHANGED <<estate, rules, findings, trail, stood, spent>>

\* It fails, is truncated, is limited or has rows without an id: some of it.
QueryIncomplete(s, r) ==
    /\ scan[s].pc = "query"
    /\ r \in scan[s].todo
    /\ \E kept \in [Of(r) -> SUBSET RowVal] :
          /\ \A f \in Of(r) : kept[f] \subseteq Answer(s, r)[f]
          /\ scan' = [scan EXCEPT
                ![s].todo = @ \ {r},
                ![s].found = [f \in Fp |-> IF f[1] = r THEN kept[f] ELSE @[f]]]
    /\ watch' = [watch EXCEPT ![s].held = [f \in Fp |-> IF f[1] = r THEN Answer(s, r)[f] ELSE @[f]]]
    /\ UNCHANGED <<estate, rules, findings, trail, stood, spent>>

Save(s) ==
    /\ scan[s].pc = "query"
    /\ scan[s].todo = {}
    /\ scan' = [scan EXCEPT ![s].pc = "sync"]
    /\ UNCHANGED <<estate, rules, findings, trail, watch, stood, spent>>

---------------------------------------------------------------------------
(* syncScanFindingsDetailed *)

\* The transaction begins and reads the findings that were seen.
Classify(s) ==
    /\ scan[s].pc = "sync"
    /\ Serial => \A t \in Scanner : ~InTransaction(t)
    /\ scan' = [scan EXCEPT ![s].pc = "upsert", ![s].known = findings]
    /\ UNCHANGED <<estate, rules, findings, trail, watch, stood, spent>>

\* Variants: whatever the rule's outcome; only those filed under the category.
StaleOfAny(s) ==
    {f \in Fp : f[1] \notin Activity /\ findings[f].status = "active"
                /\ findings[f].category = scan[s].category
                /\ f[2] \in scan[s].covered /\ f \notin Seen(s)}
StaleOfCategory(s) ==
    {f \in Fp : f[1] \in scan[s].ran \ Activity /\ findings[f].status = "active"
                /\ f[2] \in scan[s].covered /\ f \notin Seen(s)
                /\ findings[f].category = scan[s].category}

\* Open findings of a rule that succeeded, covered by this run and not seen.
StaleActive(s) ==
    {f \in Fp : f[1] \in scan[s].ran \ Activity /\ findings[f].status = "active"
                /\ f[2] \in scan[s].covered /\ f \notin Seen(s)}

\* What was seen is upserted, unseen by others yet; then the stale are read.
Upsert(s) ==
    /\ scan[s].pc = "upsert"
    /\ MayLock(s, Seen(s))
    /\ scan' = [scan EXCEPT ![s].pc = "resolve", ![s].stale = StaleActive(s)]
    /\ UNCHANGED <<estate, rules, findings, trail, watch, stood, spent>>

Was(s, f) == scan[s].known[f].status

\* Classified as created or reactivated.
Opens(s, f) == f \in Seen(s) /\ Was(s, f) # "active"

\* Variant: the rows of a rule that did not complete are compared too.
ComparesAlways(s, f) == f \in Seen(s) /\ Was(s, f) = "active"

\* An open finding's rows are compared, and replaced, by a rule that succeeded.
Compares(s, f) == f \in Seen(s) /\ Was(s, f) = "active" /\ f[1] \in scan[s].ran

\* Variant: the event's name for it is stored.
ResolvedAsEvent(row) == [row EXCEPT !.status = "resolved"]
Resolved(row) == [row EXCEPT !.status = "fixed"]

Stored(s, f) ==
    IF f \in Seen(s) THEN
        [status |-> "active", category |-> scan[s].category,
         rows |-> IF Opens(s, f) \/ Compares(s, f) THEN scan[s].found[f] ELSE findings[f].rows]
    ELSE IF f \in scan[s].stale THEN Resolved(findings[f])
    ELSE findings[f]

\* Variant: a finding that comes back is logged like one still open.
LoggedOnceCreated(s, f) ==
    IF Opens(s, f) /\ Was(s, f) = "none" THEN
        [last |-> "created", rows |-> scan[s].found[f], whole |-> f[1] \in scan[s].ran]
    ELSE IF f \in scan[s].stale THEN [trail[f] EXCEPT !.last = "resolved"]
    ELSE trail[f]

\* Its events: one for a transition, or one per row gained and lost.
Logged(s, f) ==
    IF Opens(s, f) THEN
        [last |-> IF Was(s, f) = "none" THEN "created" ELSE "reactivated",
         rows |-> scan[s].found[f], whole |-> f[1] \in scan[s].ran]
    ELSE IF Compares(s, f) THEN
        [trail[f] EXCEPT !.rows = (@ \ (scan[s].known[f].rows \ scan[s].found[f]))
                                   \cup (scan[s].found[f] \ scan[s].known[f].rows)]
    ELSE IF f \in scan[s].stale THEN [trail[f] EXCEPT !.last = "resolved"]
    ELSE trail[f]

\* The stale are resolved, the events inserted, and the transaction commits.
Commit(s) ==
    /\ scan[s].pc = "resolve"
    /\ MayLock(s, scan[s].stale)
    /\ findings' = [f \in Fp |-> Stored(s, f)]
    /\ trail' = [f \in Fp |-> Logged(s, f)]
    /\ scan' = [scan EXCEPT ![s].pc = "synced",
          ![s].opened = {f \in Fp : Opens(s, f)},
          ![s].gained = [f \in Fp |-> IF Compares(s, f)
                           THEN scan[s].found[f] \ scan[s].known[f].rows ELSE {}]]
    /\ stood' = [f \in Fp |-> IF Opens(s, f) THEN watch[s].held[f] ELSE stood[f]]
    /\ UNCHANGED <<estate, rules, watch, spent>>

\* It returns its new and changed findings.
Return(s) ==
    /\ scan[s].pc = "synced"
    /\ scan' = [scan EXCEPT ![s] = Idle]
    /\ watch' = [watch EXCEPT ![s] = NoWatch]
    /\ UNCHANGED <<estate, rules, findings, trail, stood, spent>>

\* A call throws, Postgres breaks a deadlock, or the container dies, before
\* the commit: the transaction, if there is one, is rolled back.
Stop(s) ==
    /\ scan[s].pc \in {"query", "sync", "upsert", "resolve"}
    /\ scan' = [scan EXCEPT ![s] = Idle]
    /\ watch' = [watch EXCEPT ![s] = NoWatch]
    /\ UNCHANGED <<estate, rules, findings, trail, stood, spent>>

---------------------------------------------------------------------------
(* Operators and the estate.  An operator's transaction on the findings is *)
(* not overlapped with a sync's here, on either database.                  *)

Edit ==
    /\ spent.edit < MaxEdit
    /\ spent' = [spent EXCEPT !.edit = @ + 1]

\* updateRule, switchRuleVersion: a rule moves to another category.
MoveRule(r, c) ==
    /\ Edit
    /\ rules[r].there /\ rules[r].category # c
    /\ rules' = [rules EXCEPT ![r].category = c]
    /\ UNCHANGED <<estate, findings, trail, scan, watch, stood>>

\* setRulesEnabled
ToggleRule(r) ==
    /\ Edit
    /\ rules[r].there
    /\ rules' = [rules EXCEPT ![r].on = ~@]
    /\ UNCHANGED <<estate, findings, trail, scan, watch, stood>>

\* removeFindingRowsForRule: a rule's findings, rows and events.
RemoveFindingRowsForRule(r) ==
    /\ \A s \in Scanner : ~InTransaction(s)
    /\ findings' = [f \in Fp |-> IF f[1] = r THEN NoFinding ELSE findings[f]]
    /\ trail' = [f \in Fp |-> IF f[1] = r THEN NoTrail ELSE trail[f]]

\* deleteFindingsForRule: "Clear findings".
ClearFindings(r) ==
    /\ Edit
    /\ rules[r].there
    /\ RemoveFindingRowsForRule(r)
    /\ UNCHANGED <<estate, rules, scan, watch, stood>>

DeleteRule(r) ==
    /\ Edit
    /\ rules[r].there
    /\ rules' = [rules EXCEPT ![r].there = FALSE]
    /\ RemoveFindingRowsForRule(r)
    /\ UNCHANGED <<estate, scan, watch, stood>>

\* What a rule's query would return for a resource changes.
Drift(f, now) ==
    /\ spent.drift < MaxDrift
    /\ spent' = [spent EXCEPT !.drift = @ + 1]
    /\ estate[f] # now
    /\ estate' = [estate EXCEPT ![f] = now]
    /\ stood' = [stood EXCEPT ![f] = @ \cap now]
    /\ watch' = [s \in Scanner |-> IF scan[s].pc = "idle" THEN watch[s]
                   ELSE [gone  |-> watch[s].gone \cup {x \in {f} : now = {}},
                         there |-> watch[s].there \cup {x \in {f} : now # {}},
                         held  |-> [watch[s].held EXCEPT ![f] = @ \cap now]]]
    /\ UNCHANGED <<rules, findings, trail, scan>>

---------------------------------------------------------------------------

Init ==
    /\ estate \in [Fp -> {{}, RowVal}]
    /\ rules = [r \in Rule |-> [there |-> TRUE, on |-> TRUE, category |-> Home]]
    /\ findings = [f \in Fp |-> NoFinding]
    /\ trail = [f \in Fp |-> NoTrail]
    /\ scan = [s \in Scanner |-> Idle]
    /\ watch = [s \in Scanner |-> NoWatch]
    /\ stood = NoRows
    /\ spent = [drift |-> 0, edit |-> 0]

ScanStep(s) ==
    \/ \E c \in Category, only \in SUBSET Rule, covered \in SUBSET Resource :
          Begin(s, c, only, covered)
    \/ \E r \in Rule : QuerySucceeds(s, r) \/ QueryIncomplete(s, r)
    \/ Save(s)
    \/ Classify(s)
    \/ Upsert(s)
    \/ Commit(s)
    \/ Return(s)
    \/ Stop(s)

Operate ==
    \E r \in Rule :
        \/ \E c \in Category : MoveRule(r, c)
        \/ ToggleRule(r)
        \/ ClearFindings(r)
        \/ DeleteRule(r)

Next ==
    \/ \E s \in Scanner : ScanStep(s)
    \/ Operate
    \/ \E f \in Fp, now \in SUBSET RowVal : Drift(f, now)

Spec == Init /\ [][Next]_vars

---------------------------------------------------------------------------
(* Properties *)

\* Every table row, scan and history holds a value the code can write.
TypeOK ==
    /\ estate \in [Fp -> SUBSET RowVal]
    /\ rules \in [Rule -> [there : BOOLEAN, on : BOOLEAN, category : Category]]
    /\ findings \in [Fp -> Finding]
    /\ trail \in [Fp -> Trail]
    /\ scan \in [Scanner -> ScanState]
    /\ watch \in [Scanner -> Watch]
    /\ stood \in [Fp -> SUBSET RowVal]
    /\ spent \in [drift : 0..MaxDrift, edit : 0..MaxEdit]

\* The events tell the same story as the table: replaying a finding's
\* created, reactivated, resolved and row events gives its status and rows.
EventsAgree ==
    \A f \in Fp :
        /\ findings[f].rows = trail[f].rows
        /\ findings[f].status = "none" <=> trail[f].last = "none"
        /\ findings[f].status = "active" <=> trail[f].last \in {"created", "reactivated"}

\* A finding is marked fixed only if its resource really did not match at some
\* moment of the scan that says so, and never when it is an activity: "the
\* query broke" and "the problem is gone" are never the same signal.
FixedOnlyOnProof ==
    [][\A f \in Fp : findings[f].status = "active" /\ findings'[f].status = "fixed" =>
          f[1] \notin Activity /\ \E s \in Scanner : f \in watch[s].gone]_vars

Commits(s) == scan[s].pc = "resolve" /\ scan'[s].pc = "synced"

\* A rule that ran to success leaves open no finding that was absent all
\* through its scan, wherever the rule's older findings are filed.
NothingLingers ==
    [][\A s \in Scanner : Commits(s) =>
          \A f \in Fp : /\ f[1] \in scan[s].ran \ Activity
                        /\ f[2] \in scan[s].covered
                        /\ f \notin watch[s].there
                        => findings'[f].status # "active"]_vars

\* A scan announces a row as gained only if that row was really away at some
\* moment since the finding opened, if a complete scan opened it.
GainsAreReal ==
    [][\A s \in Scanner : Commits(s) =>
          \A f \in Fp : trail[f].whole => scan'[s].gained[f] \cap stood[f] = {}]_vars

\* notifications.md:51-53: "a partial result never produces a false gained a
\* row", whoever opened the finding.  The code breaks it (README, Divergences).
PartialNeverGains ==
    [][\A s \in Scanner : Commits(s) =>
          \A f \in Fp : scan'[s].gained[f] \cap stood[f] = {}]_vars

\* notifications.md:50-51: a finding that came back after being fixed is
\* announced as new by the scan that reopened it.  On Postgres the code breaks it.
ComebackAnnounced ==
    [][\A f \in Fp : findings[f].status # "active" /\ findings'[f].status = "active" =>
          \E s \in Scanner : Commits(s) /\ f \in scan'[s].opened]_vars

\* rules.ts:289: a rule and its findings are deleted together, so no finding
\* belongs to a rule that is gone.  A scan that outlives the rule breaks it.
NoOrphans == \A f \in Fp : rules[f[1]].there \/ findings[f].status = "none"
=============================================================================
