------------------------------- MODULE Startup -------------------------------
(***************************************************************************)
(* A database through its starts: the upgrade of SchemaUpgrade and         *)
(* FindingUpgrade from any shape an older release left, with the process   *)
(* stopping between any two statements, steps that roll back, scans while  *)
(* it serves, and a spell on the previous release.                         *)
(*                                                                         *)
(* Init puts an old schema under today's findings or old findings under    *)
(* today's schema: no step of one half reads what the other half writes.   *)
(***************************************************************************)
EXTENDS FindingUpgrade

CONSTANTS
    MaxCrashes,   \* stops in the middle of a start
    MaxFailures,  \* steps that roll back
    MaxScans,     \* scans after the vintage's two, and deletions
    MaxReturns,   \* spells on the previous release
    Spelled       \* how the vintage's two scans spelled the resource: a set of pairs

ASSUME BoundsAreNat == {MaxCrashes, MaxFailures, MaxScans, MaxReturns} \subseteq Nat
ASSUME SpellingsAreKnown == Spelled \subseteq {"lower", "mixed"} \X {"lower", "mixed"}

VARIABLES
    owned,   \* what the vintage's tables held
    truth,   \* the finding as its scans saw it
    torn,    \* the process stopped inside remap()
    budget   \* what has been used of the bounds

upgradeVars == <<db, at, data, seen, failed, owned, truth, torn, budget>>

NoEvent == <<>>
Nothing == [x \in {} |-> x]   \* no findings, or no rows
Back == Serving + 1
Bounds == [crashes |-> MaxCrashes, failures |-> MaxFailures, scans |-> MaxScans, returns |-> MaxReturns]
Spend(what) == budget[what] < Bounds[what] /\ budget' = [budget EXCEPT ![what] = @ + 1]

---------------------------------------------------------------------------
(* Vintages of the schema *)

Row(id, filter, conditions, groups) ==
    [id |-> id, filter |-> filter, conditions |-> conditions, condition_groups |-> groups,
     raw_kql |-> NoKql, type |-> "shipped"]
Authored == {Row("a", "f", "c", "g"), Row("b", Blank, "c", Blank)}
Written == {[Row("k", Blank, Blank, Blank) EXCEPT !["raw_kql"] = {"kql"}]}
OnGraph == {Row("graph", Blank, "c", Blank)}

As(rows, cols) == Table(DOMAIN cols, {[c \in DOMAIN cols |-> r[cols[c]]] : r \in rows})
Named(names) == [c \in names |-> c]
EarlyNames == Put(Named({"id", "filter"}), "rules", "conditions")
LegacyNames == Put(Put(EarlyNames, "rule_groups", "condition_groups"), "source", "type")
TodayNames == Named({"id", "filter", "conditions", "condition_groups", "raw_kql", "type"})

\* The table the rules are in, their rows, and each column with the column it is today.
RuleShapes ==
    {<<"policies", Authored, LegacyNames>>,
     <<"rules", {[r EXCEPT !["condition_groups"] = Blank, !["type"] = "custom"] : r \in Authored}, EarlyNames>>,
     <<"rules", Authored \cup Written, Put(LegacyNames, "raw_kql", "raw_kql")>>,
     <<"rules", Authored \cup Written \cup OnGraph, TodayNames>>,
     <<"rules", {}, Named({})>>}

Days == {"monday", "tuesday"}
PerDay == Table({"id", "compliance_pct"}, {[id |-> d, compliance_pct |-> "pct"] : d \in Days})
PerSubscription ==
    Table({"id", "compliance_pct", "subscription_id"},
          {[id |-> d, compliance_pct |-> "pct", subscription_id |-> Blank] : d \in Days})
Posture ==
    Table({"id", "posture_pct", "subscription_id"},
          {[id |-> d, posture_pct |-> "pct", subscription_id |-> Blank] : d \in Days})

\* As it was, or as a rebuild of an older release left it: staged beside the old table,
\* or staged with the old one dropped and perhaps created again, empty.
SnapshotShapes ==
    {<<PerDay, NoTable, NoTable>>, <<PerSubscription, NoTable, NoTable>>,
     <<PerDay, PerSubscription, NoTable>>, <<NoTable, PerSubscription, NoTable>>,
     <<Table(PerSubscription.cols, {}), PerSubscription, NoTable>>, <<NoTable, NoTable, Posture>>,
     <<Table(PerSubscription.cols, {}), NoTable, Posture>>}

Kept(t, cols) == Table({"id"} \cup cols, {[c \in {"id"} \cup cols |-> IF c = "id" THEN t ELSE "state"]})
NullableShapes(t, kind) ==
    {<<Kept(t, {NotNull}), NoTable>>, <<Kept(t, kind), NoTable>>,
     <<Kept(t, {NotNull}), Kept(t, kind)>>, <<NoTable, Kept(t, kind)>>}

CronSchedules ==
    Table({"id", "categories", "cron", "enabled"},
          {[id |-> s, categories |-> s, cron |-> "daily", enabled |-> TRUE] : s \in {"s1", "s2"}})

Oldest ==
    [rules |-> <<"policies", Authored, LegacyNames>>, findings |-> <<Kept("f", {NotNull}), NoTable>>,
     snapshots |-> <<PerDay, NoTable, NoTable>>, suppressions |-> <<Kept("s", {NotNull}), NoTable>>,
     schedules |-> CronSchedules]
Latest ==
    [rules |-> <<"rules", Authored \cup Written \cup OnGraph, TodayNames>>, schedules |-> NoTable,
     snapshots |-> <<NoTable, NoTable, Posture>>, findings |-> <<Kept("f", {"kind"}), NoTable>>,
     suppressions |-> <<Kept("s", {}), NoTable>>]

\* No step reads two of the five, so each is varied on its own, beside the others at their
\* oldest and at their latest.
Vintages ==
    UNION {{[v EXCEPT !.rules = x] : x \in RuleShapes} \cup {[v EXCEPT !.snapshots = x] : x \in SnapshotShapes}
           \cup {[v EXCEPT !.findings = x] : x \in NullableShapes("f", {"kind"})}
           \cup {[v EXCEPT !.suppressions = x] : x \in NullableShapes("s", {})}
           \cup {[v EXCEPT !.schedules = x] : x \in {NoTable, CronSchedules}} : v \in {Oldest, Latest}}

FileOf(v) ==
    [t \in Tables |->
        CASE t = v.rules[1] -> As(v.rules[2], v.rules[3])
          [] t = "schedules" -> v.schedules
          [] t = "compliance_snapshots" -> v.snapshots[1]
          [] t = "compliance_snapshots_new" -> v.snapshots[2]
          [] t = "posture_snapshots" -> v.snapshots[3]
          [] t = "findings" -> v.findings[1]
          [] t = "findings_new" -> v.findings[2]
          [] t = "suppressions" -> v.suppressions[1]
          [] t = "suppressions_new" -> v.suppressions[2]
          [] OTHER -> NoTable]

\* What a rule runs: its KQL, or what its conditions compile to.  A Graph rule keeps them.
Query(r) ==
    IF r["raw_kql"] # NoKql THEN r["raw_kql"]
    ELSE IF r["id"] = "graph" THEN r["conditions"] ELSE {Compiled(r)}
RulesOf(rows) == {<<r["id"], r["type"], Query(r)>> : r \in rows}
Ids(rows) == {r["id"] : r \in rows}

---------------------------------------------------------------------------
(* Vintages of the findings *)

Found(rule, res, i, first, times, open) ==
    [rule |-> rule, res |-> res, old |-> i, counted |-> FALSE, rowsScan |-> 0, last |-> i,
     first |-> first, times |-> times, open |-> open]
Scan(blob, rule, res) ==
    [blob |-> blob, fp |-> Legacy(rule, res), rule |-> rule, res |-> res, has |-> FALSE, recs |-> {}]

\* Two scans under the case-sensitive formula: one finding, or two when the casing changed.
TwoScans(rule, spelled) ==
    LET earlier == Legacy(rule, spelled[1])
        later == Legacy(rule, spelled[2])
    IN [rules |-> {rule}, list |-> {later}, sup |-> [fp |-> later, res |-> spelled[2]],
        event |-> earlier, rows |-> Nothing, marks |-> {"findings", "snapshots"},
        fin |-> IF earlier = later THEN [fp \in {later} |-> Found(rule, spelled[2], 2, 1, 2, TRUE)]
                ELSE [fp \in {earlier, later} |->
                        IF fp = later THEN Found(rule, spelled[2], 2, 2, 1, TRUE)
                        ELSE Found(rule, spelled[1], 1, 1, 1, FALSE)],
        scans |-> <<Scan("full", rule, spelled[1]), Scan("full", rule, spelled[2])>>]

\* From before findings were stored at all: two scan blobs and a suppression.
BlobsOnly(rule, spelled, blobs) ==
    [TwoScans(rule, spelled) EXCEPT
        !.fin = Nothing, !.marks = {}, !.event = NoEvent, !.list = {},
        !.scans = [i \in 1..2 |-> Scan(blobs[i], rule, spelled[i])]]

Blobs == {"full", "empty", "bad"}
OfBlobs(blobs) ==
    LET full == {i \in {1, 2} : blobs[i] = "full"}
    IN [first |-> IF full = {} THEN 0 ELSE Min(full), times |-> Cardinality(full),
        rows |-> IF full = {} THEN 0 ELSE Max(full), open |-> blobs[2] = "full", listed |-> FALSE,
        found |-> [i \in 1..2 |-> blobs[i] = "full"]]

---------------------------------------------------------------------------
(* A start, and what comes between two *)

NoFile == [t \in Tables |-> NoTable]
Fresh == [rules |-> {}, list |-> {}, sup |-> [fp |-> NoEvent, res |-> "lower"], event |-> NoEvent,
          rows |-> Nothing, marks |-> {}, fin |-> Nothing, scans |-> <<>>]
Truth(of) == [first |-> of.first, times |-> of.times, rows |-> of.rows, open |-> of.open,
              found |-> of.found, split |-> FALSE, cut |-> FALSE, listed |-> of.listed]

OldSchema ==
    \E v \in Vintages :
        /\ db = FileOf(v)
        /\ owned = [rules |-> RulesOf(v.rules[2]), days |-> Days, findings |-> {"f"}, suppressions |-> {"s"},
                    schedules |-> Ids(v.schedules.rows)]
        /\ data = Fresh
        /\ truth = Truth([first |-> 0, times |-> 0, rows |-> 0, open |-> FALSE, found |-> <<>>, listed |-> FALSE])

\* A rule of the old id has one spelling here: see SplitAndRenamed in the README.
OldFindings ==
    /\ db = NoFile
    /\ owned = [rules |-> {}, days |-> {}, findings |-> {}, suppressions |-> {}, schedules |-> {}]
    /\ \E rule \in {"old", "new"}, spelled \in Spelled, standIn \in BOOLEAN :
          /\ rule = "old" => spelled[1] = spelled[2]
          /\ rule = "new" => ~standIn
          /\ data = [TwoScans(rule, spelled) EXCEPT !.rules = @ \cup IF standIn THEN {"new"} ELSE {}]
          /\ truth = Truth([first |-> 1, times |-> 2, rows |-> 2, open |-> TRUE,
                            found |-> [i \in 1..2 |-> TRUE], listed |-> rule = "new"])

OldBlobs ==
    /\ db = NoFile
    /\ owned = [rules |-> {}, days |-> {}, findings |-> {}, suppressions |-> {}, schedules |-> {}]
    /\ \E blobs \in Blobs \X Blobs :
          /\ data = BlobsOnly("new", <<"lower", "lower">>, blobs)
          /\ truth = Truth(OfBlobs(blobs))

UpgradeInit ==
    /\ OldSchema \/ OldFindings \/ OldBlobs
    /\ at = 0 /\ seen = {} /\ failed = {} /\ torn = FALSE
    /\ budget = [what \in DOMAIN Bounds |-> 0]

Boot ==
    /\ at = 0
    /\ at' = 1 /\ seen' = {} /\ failed' = {}
    /\ UNCHANGED <<db, data, owned, truth, torn, budget>>

Upgrade ==
    \/ SchemaStep /\ UNCHANGED <<data, seen, failed, owned, truth, torn, budget>>
    \/ /\ FindingStep
       /\ IF failed' = failed THEN UNCHANGED budget ELSE Spend("failures")
       /\ UNCHANGED <<db, owned, truth, torn>>

\* The process stops: the statement it was at is in the file or is not.
Crash ==
    /\ at \in 1..(Serving - 1) /\ Spend("crashes")
    /\ at' = 0
    /\ UNCHANGED <<db, data, seen, failed, owned, truth, torn>>

\* It stops between the statements remap() makes for one finding.
CrashInRemap ==
    /\ FStep("remapFindings") /\ Spend("crashes")
    /\ \E fp \in ToRemap, statements \in 1..3 : data' = Remapped(data, fp, data.fin[fp].res, statements)
    /\ torn' = TRUE /\ at' = 0
    /\ UNCHANGED <<db, seen, failed, owned, truth>>

Restart ==
    /\ at \in {Serving, Back}
    /\ at' = 0
    /\ UNCHANGED <<db, data, seen, failed, owned, truth, torn, budget>>

---------------------------------------------------------------------------
(* Scans of the rule *)

Now == Len(data.scans) + 1
Here == Current("new", "lower")

\* What the scan saw, whatever the tables make of it; a scan that could not complete
\* keeps the rows of an open finding, and proves nothing when it found nothing.
SawIt(complete) ==
    LET first == truth.first = 0 \/ (DOMAIN data.fin = {} /\ "findings" \notin data.marks)
    IN truth' = [truth EXCEPT
         !.first = IF first THEN Now ELSE @, !.times = IF first THEN 1 ELSE @ + 1,
         !.rows = IF ~first /\ truth.open /\ ~complete THEN @ ELSE Now, !.open = TRUE,
         !.found = Append(@, TRUE),
         !.split = @ \/ "rekeyed" \notin data.marks, !.cut = @ \/ "findings" \notin data.marks]
SawNothing == truth' = [truth EXCEPT !.open = FALSE, !.found = Append(@, FALSE)]

\* Open findings of the rule that a completed scan did not report.
Closed(fin, complete) ==
    [fp \in DOMAIN fin |-> [fin[fp] EXCEPT !.open = @ /\ (~complete \/ fp = Here)]]

\* Kept rows stay current if they were, and stay marked for the next copy if not.
KeptFrom(f) == IF f.rowsScan = f.last THEN Now ELSE f.rowsScan

\* syncScanFindings() and the stored scan: records, and no blob.
ScanFinds(spelling, complete) ==
    LET was == Here \in DOMAIN data.fin
        f == data.fin[Here]
        kept == was /\ f.open /\ ~complete
        stored == [rule |-> "new", res |-> IF was THEN f.res ELSE spelling,
                   old |-> IF kept THEN f.old ELSE Now, counted |-> IF kept THEN f.counted ELSE TRUE,
                   rowsScan |-> IF kept THEN KeptFrom(f) ELSE Now, last |-> Now,
                   first |-> IF was THEN f.first ELSE Now, times |-> IF was THEN f.times + 1 ELSE 1,
                   open |-> TRUE]
    IN /\ at = Serving /\ Spend("scans")
       /\ data' = [data EXCEPT
             !.fin = Put(Closed(@, complete), Here, stored),
             !.rows = IF kept THEN @ ELSE Put(@, Here, Now),
             !.scans = Append(@, [Scan("empty", "new", spelling) EXCEPT !.has = TRUE, !.recs = {Here}])]
       /\ SawIt(complete)
       /\ UNCHANGED <<db, at, seen, failed, owned, torn>>

ScanFindsNothing ==
    /\ at = Serving /\ Spend("scans")
    /\ data' = [data EXCEPT
          !.fin = [fp \in DOMAIN @ |-> [@[fp] EXCEPT !.open = FALSE]],
          !.scans = Append(@, [Scan("empty", "new", "lower") EXCEPT !.has = TRUE])]
    /\ SawNothing
    /\ UNCHANGED <<db, at, seen, failed, owned, torn>>

---------------------------------------------------------------------------
(* The previous release: the old columns and a blob, no rows and no records *)

GoBack ==
    /\ at = Serving /\ {"rekeyed", "copied", "findings"} \subseteq data.marks /\ Spend("returns")
    /\ at' = Back
    /\ UNCHANGED <<db, data, seen, failed, owned, truth, torn>>

PreviousScan(spelling, found) ==
    LET was == Here \in DOMAIN data.fin
        f == data.fin[Here]
        stored == IF was THEN [f EXCEPT !.old = Now, !.last = Now, !.times = @ + 1, !.open = TRUE]
                  ELSE Found("new", spelling, Now, Now, 1, TRUE)
    IN /\ at = Back /\ Spend("scans")
       /\ data' = [data EXCEPT
             !.fin = IF found THEN Put(Closed(@, TRUE), Here, stored)
                     ELSE [fp \in DOMAIN @ |-> [@[fp] EXCEPT !.open = FALSE]],
             !.scans = Append(@, [Scan(IF found THEN "full" ELSE "empty", "new", spelling) EXCEPT !.fp = Here])]
       /\ IF found THEN SawIt(TRUE) ELSE SawNothing
       /\ UNCHANGED <<db, at, seen, failed, owned, torn>>

\* It deletes a finding and leaves the rows it knows nothing of.
PreviousDeletes ==
    /\ at = Back /\ Spend("scans")
    /\ data' = [data EXCEPT !.fin = Nothing]
    /\ truth' = [truth EXCEPT !.first = 0, !.times = 0, !.rows = 0, !.open = FALSE]
    /\ UNCHANGED <<db, at, seen, failed, owned, torn>>

Serve ==
    \/ \E spelling \in {"lower", "mixed"}, complete \in BOOLEAN : ScanFinds(spelling, complete)
    \/ ScanFindsNothing
    \/ GoBack
    \/ \E spelling \in {"lower", "mixed"}, found \in BOOLEAN : PreviousScan(spelling, found)
    \/ PreviousDeletes

UpgradeNext == Boot \/ Upgrade \/ Crash \/ CrashInRemap \/ Restart \/ Serve
UpgradeSpec == UpgradeInit /\ [][UpgradeNext]_upgradeVars

---------------------------------------------------------------------------
(* Properties *)

\* The shape of the findings tables (lib/db/schema.ts as migrate.ts fills it).
UpgradeTypeOK ==
    /\ at \in 0..Back
    /\ DOMAIN data.fin \subseteq Fp /\ DOMAIN data.rows \subseteq Fp
    /\ \A fp \in DOMAIN data.fin : /\ data.fin[fp].rule \in {"old", "new"}
                                   /\ data.fin[fp].first <= data.fin[fp].last
                                   /\ data.fin[fp].rowsScan <= data.fin[fp].last
    /\ \A i \in DOMAIN data.scans : data.scans[i].recs # {} => data.scans[i].has
    /\ \A t \in Tables : \A r \in db[t].rows : DOMAIN r = db[t].cols
    /\ data.rules \subseteq {"old", "new"} /\ data.list \subseteq Fp
    /\ \A what \in DOMAIN Bounds : budget[what] \in 0..Bounds[what]

\* Whatever shape the file had, and wherever earlier starts stopped, a start that gets
\* to serving serves everything the file held: its rules with what they run, its trend,
\* findings, suppressions and schedules (migrate.ts, RB-QA-009, 010 and 011).
NothingStranded ==
    at = Serving =>
        /\ RulesOf(db["rules"].rows) = owned.rules
        /\ "posture_pct" \in db["posture_snapshots"].cols /\ Ids(db["posture_snapshots"].rows) = owned.days
        /\ Ids(db["findings"].rows) = owned.findings /\ Ids(db["suppressions"].rows) = owned.suppressions
        /\ {r["id"] : r \in {x \in db["schedules"].rows : x["target"] = x["id"] /\ ~x["enabled"]}} = owned.schedules

\* The finding's own tables can be held to what the scans saw: it was moved to today's
\* fingerprint before a scan looked for it there, and its history was rebuilt.
Settled ==
    /\ at = Serving /\ "rekeyed" \in data.marks /\ ~truth.split
    /\ "findings" \in data.marks \/ truth.cut

\* A suppression, the last event and a notification still to be sent name the fingerprint
\* the next scan will compute, through a renamed rule, a casing fix and stops in between
\* (remapFingerprints(), planFingerprintRekey()).
NamesFollow ==
    (at = Serving /\ "rekeyed" \in data.marks) =>
        /\ data.sup.fp \in {NoEvent, Here}
        /\ ~truth.split => (torn \/ data.event \in {NoEvent, Here})
        /\ (truth.listed /\ ~truth.split) => data.list = {Here}

\* The finding has the age, the sightings and the status its scans gave it, and is the
\* only one open (fingerprint-rekey.ts, backfillFindings()).
AgeKept ==
    (Settled /\ truth.first # 0) =>
        /\ Here \in DOMAIN data.fin
        /\ data.fin[Here].first = truth.first /\ data.fin[Here].open = truth.open
        /\ "category" \notin data.marks => data.fin[Here].times = truth.times
        /\ \A fp \in DOMAIN data.fin \ {Here} : ~data.fin[fp].open

\* The rows read, from the table once it was copied and from the old column by the
\* previous release, are those of the last complete scan; a finding that is gone has none
\* (finding-rows-copy.ts).
RowsServed ==
    /\ (Settled /\ "copyRows" \notin failed) =>
          /\ truth.rows # 0 => IF "copied" \in data.marks THEN Here \in DOMAIN data.rows /\ data.rows[Here] = truth.rows
                               ELSE data.fin[Here].old = truth.rows
          /\ DOMAIN data.rows \subseteq DOMAIN data.fin
    /\ (at = Back /\ ~truth.split /\ Here \in DOMAIN data.fin) => data.fin[Here].old = truth.rows

\* What a scan found can be read back, from its records or from its blob, at every
\* moment (convertScanBlobs(), emptyScanBlobs()).
ScansReadable ==
    \A i \in DOMAIN data.scans :
        IF data.scans[i].has THEN (data.scans[i].recs # {}) = truth.found[i]
        ELSE data.scans[i].blob = "bad" \/ (data.scans[i].blob = "full") = truth.found[i]

\* migrate.ts:1555 says of a failed move that the old fingerprints keep working
\* exactly as before until it succeeds.  A scan in between breaks it.
OldKeysWork ==
    (at = Serving /\ truth.first # 0 /\ "findings" \in data.marks /\ "category" \notin data.marks) =>
        \E fp \in DOMAIN data.fin : data.fin[fp].open = truth.open /\ data.fin[fp].first = truth.first
=============================================================================
