---------------------------- MODULE SchemaUpgrade ----------------------------
(***************************************************************************)
(* The schema half of runMigrations() in lib/db/migrate.ts: what it does   *)
(* on every start to the tables and columns of a SQLite file of any past   *)
(* shape.  Each statement commits on its own, one that fails is swallowed  *)
(* and leaves the file as it was, and the container may stop between any   *)
(* two of them; the next start begins again at the top.                    *)
(*                                                                         *)
(* A database gives each table its columns and its rows, a row being a     *)
(* function from columns to values.  Only columns whose data has to move   *)
(* are kept: those that are merely added are left out, as no data of an    *)
(* older release can be lost by them.                                      *)
(***************************************************************************)
EXTENDS Naturals, Sequences

VARIABLES
    db,   \* the tables of the file
    at    \* the step of the start that runs next; 0 when the process is not up

Tables == {"policies", "rules", "compliance_snapshots", "compliance_snapshots_new",
           "posture_snapshots", "findings", "findings_new", "suppressions",
           "suppressions_new", "schedules"}

---------------------------------------------------------------------------
(* Statements: what SQLite does, or nothing when it would refuse *)

\* A text with nothing in it.
Blank == ""

\* A constraint, kept as a column: NOT NULL on resource_id.
NotNull == "resource_id NOT NULL"

NoTable == [cols |-> {}, rows |-> {}]
There(t) == db[t].cols # {}
Table(cols, rows) == [cols |-> cols, rows |-> rows]

\* f, with v at x.
Put(f, x, v) == [y \in DOMAIN f \cup {x} |-> IF y = x THEN v ELSE f[y]]

RenameTable(from, to) ==
    db' = IF There(from) /\ ~There(to)
          THEN [db EXCEPT ![to] = db[from], ![from] = NoTable] ELSE db

AddColumn(t, c, default) ==
    db' = IF There(t) /\ c \notin db[t].cols
          THEN [db EXCEPT ![t] = Table(@.cols \cup {c}, {Put(r, c, default) : r \in @.rows})]
          ELSE db

Renamed(r, from, to) ==
    [c \in (DOMAIN r \ {from}) \cup {to} |-> IF c = to THEN r[from] ELSE r[c]]

RenameColumn(t, from, to) ==
    db' = IF from \in db[t].cols /\ to \notin db[t].cols
          THEN [db EXCEPT ![t] = Table((@.cols \ {from}) \cup {to},
                                       {Renamed(r, from, to) : r \in @.rows})]
          ELSE db

WithoutColumn(r, gone) == [c \in DOMAIN r \ {gone} |-> r[c]]

DropColumn(t, gone) ==
    db' = [db EXCEPT ![t] = Table(@.cols \ {gone}, {WithoutColumn(r, gone) : r \in @.rows})]

---------------------------------------------------------------------------
(* The order, which is load-bearing *)

\* Variant: RB-QA-010, as the comment of migrate.ts:1037-1041 tells it.
AddBeforeRename == <<"addGroups", "groups">>

GroupColumns == <<"groups", "addGroups">>

SchemaOrder ==
    <<"policies", "create",
      "reclaimSnapshots", "dropStagedSnapshots", "rebuildSnapshots",
      "shell", "posture", "posturePct",
      "reclaimFindings", "dropStagedFindings", "rebuildFindings",
      "reclaimSuppressions", "dropStagedSuppressions", "rebuildSuppressions",
      "rawKql", "type", "addType", GroupColumns[1], GroupColumns[2],
      "conditions", "compile", "addTarget", "addRecurrence", "recurrence", "dropCategories", "dropCron">>

\* The step the start is at.
Step(s) == at \in DOMAIN SchemaOrder /\ SchemaOrder[at] = s
Does(s) == Step(s) /\ at' = at + 1

---------------------------------------------------------------------------
(* Tables *)

\* policies was rules' first name; it keeps its rows if nothing took the name.
RenamePolicies == Does("policies") /\ RenameTable("policies", "rules")

Created == [t \in Tables |->
    CASE t = "rules" -> {"id", "filter", "conditions"}
      [] t = "compliance_snapshots" -> {"id", "subscription_id", "compliance_pct"}
      [] t = "findings" -> {"id", "kind"}
      [] t = "suppressions" -> {"id"}
      [] t = "schedules" -> {"id", "categories", "cron", "enabled"}
      [] OTHER -> {}]

\* CREATE TABLE IF NOT EXISTS for every table, in today's first shape.
CreateTables ==
    /\ Does("create")
    /\ db' = [t \in Tables |-> IF There(t) THEN db[t] ELSE Table(Created[t], {})]

\* The staged copy holds the only rows left when the live table is the new, empty one.
Reclaimed(live, staged, new) ==
    IF new \subseteq db[live].cols /\ db[live].rows = {} THEN db[staged].rows ELSE db[live].rows

Reclaim(step, live, staged, new) ==
    /\ Does(step)
    /\ db' = IF There(staged) THEN [db EXCEPT ![live] = Table(@.cols, Reclaimed(live, staged, new))] ELSE db

DropTable(step, t) == Does(step) /\ db' = [db EXCEPT ![t] = NoTable]

\* A row as the new table takes it.
Copied(r, old, new, default) == [c \in (DOMAIN r \ old) \cup new |-> IF c \in new THEN default ELSE r[c]]

\* A key or a NOT NULL cannot be altered, so the table is copied into a new one that
\* takes its name, in one transaction; a staged table still there makes it fail.
Rebuild(step, live, staged, old, new, default) ==
    /\ Does(step)
    /\ db' = IF There(live) /\ old \subseteq db[live].cols /\ new \cap db[live].cols = {} /\ ~There(staged)
             THEN [db EXCEPT ![live] = Table((@.cols \ old) \cup new, {Copied(r, old, new, default) : r \in @.rows})]
             ELSE db

\* One row for each subscription instead of one for each category and day.
SnapshotsStep ==
    \/ Reclaim("reclaimSnapshots", "compliance_snapshots", "compliance_snapshots_new", {"subscription_id"})
    \/ DropTable("dropStagedSnapshots", "compliance_snapshots_new")
    \/ Rebuild("rebuildSnapshots", "compliance_snapshots", "compliance_snapshots_new",
               {}, {"subscription_id"}, Blank)

\* An activity finding has no resource: resource_id becomes nullable, kind is new.
FindingsStep ==
    \/ Reclaim("reclaimFindings", "findings", "findings_new", {"kind"})
    \/ DropTable("dropStagedFindings", "findings_new")
    \/ Rebuild("rebuildFindings", "findings", "findings_new", {NotNull}, {"kind"}, "state")

SuppressionsStep ==
    \/ Reclaim("reclaimSuppressions", "suppressions", "suppressions_new", {})
    \/ DropTable("dropStagedSuppressions", "suppressions_new")
    \/ Rebuild("rebuildSuppressions", "suppressions", "suppressions_new",
               {NotNull}, {}, Blank)

\* Every start after the rename creates the old table again, empty: dropped here.
DropShell ==
    /\ Does("shell")
    /\ db' = IF There("posture_snapshots") THEN [db EXCEPT !["compliance_snapshots"] = NoTable] ELSE db

RenamePosture == Does("posture") /\ RenameTable("compliance_snapshots", "posture_snapshots")
RenamePosturePct == Does("posturePct") /\ RenameColumn("posture_snapshots", "compliance_pct", "posture_pct")

---------------------------------------------------------------------------
(* Rules *)

\* A KQL column holds a query or none.
NoKql == {}

AddRawKql == Does("rawKql") /\ AddColumn("rules", "raw_kql", NoKql)
RenameType == Does("type") /\ RenameColumn("rules", "source", "type")
AddType == Does("addType") /\ AddColumn("rules", "type", "custom")
RenameGroups == Does("groups") /\ RenameColumn("rules", "rule_groups", "condition_groups")
AddGroups == Does("addGroups") /\ AddColumn("rules", "condition_groups", Blank)
RenameConditions == Does("conditions") /\ RenameColumn("rules", "rules", "conditions")

\* Resource Graph rules that carry conditions only.
LegacyConditionRows == {r \in db["rules"].rows : r["raw_kql"] = NoKql /\ r["id"] # "graph"}

\* buildRuleQuery() over the merged filter, conditions and groups.
Compiled(r) == <<r["filter"], r["conditions"], r["condition_groups"]>>

AsKql(r) == [r EXCEPT !["raw_kql"] = {Compiled(r)}, !["conditions"] = Blank, !["condition_groups"] = Blank]

\* One UPDATE per rule; the step is over when no such rule is left.
Compile ==
    \/ /\ Step("compile")
       /\ \E r \in LegacyConditionRows :
             db' = [db EXCEPT !["rules"] = Table(@.cols, (@.rows \ {r}) \cup {AsKql(r)})]
       /\ at' = at
    \/ Does("compile") /\ LegacyConditionRows = {} /\ db' = db

---------------------------------------------------------------------------
(* Schedules *)

\* A recurrence with no start, which the next step looks for.
AddRecurrence ==
    \/ Does("addTarget") /\ AddColumn("schedules", "target", "all")
    \/ Does("addRecurrence") /\ AddColumn("schedules", "start_at", Blank)

\* A cron preset does not map onto a recurrence: the schedule becomes a daily one,
\* disabled, over the categories it had.
AsDaily(r) == [r EXCEPT !["target"] = r["categories"], !["start_at"] = "now", !["enabled"] = FALSE]

\* One UPDATE per schedule.
Recurrence ==
    \/ /\ Step("recurrence")
       /\ {"cron", "categories"} \subseteq db["schedules"].cols
       /\ \E r \in db["schedules"].rows :
             /\ r["start_at"] = Blank
             /\ db' = [db EXCEPT !["schedules"] = Table(@.cols, (@.rows \ {r}) \cup {AsDaily(r)})]
       /\ at' = at
    \/ /\ Does("recurrence")
       /\ {"cron", "categories"} \subseteq db["schedules"].cols =>
             \A r \in db["schedules"].rows : r["start_at"] # Blank
       /\ db' = db

DropCron ==
    \/ Does("dropCategories") /\ DropColumn("schedules", "categories")
    \/ Does("dropCron") /\ DropColumn("schedules", "cron")

SchemaStep ==
    \/ RenamePolicies \/ CreateTables \/ SnapshotsStep
    \/ DropShell \/ RenamePosture \/ RenamePosturePct \/ FindingsStep \/ SuppressionsStep
    \/ AddRawKql \/ RenameType \/ AddType \/ RenameGroups \/ AddGroups \/ RenameConditions
    \/ Compile \/ AddRecurrence \/ Recurrence \/ DropCron
=============================================================================
