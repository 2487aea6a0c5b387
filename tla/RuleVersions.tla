----------------------------- MODULE RuleVersions -----------------------------
(***************************************************************************)
(* One shipped rule from its pack's source to an install: the sync that    *)
(* gives a fetched rule its version (lib/pack-versioning.ts), the releases *)
(* that ship it, and the starts that bring it to a database                *)
(* (planRuleSeeding in lib/rule-versions.ts, executed by db/migrate.ts and *)
(* db/pg/seeds.ts), beside the Admins who toggle, switch and copy it.      *)
(*                                                                         *)
(* An install may skip releases, go back to an older one, and date from    *)
(* before rules had versions.  On Postgres a start reads, and later writes *)
(* what it planned, while another container may serve.                     *)
(*                                                                         *)
(* A definition is its query.  A version is the number of the commit it    *)
(* was synced at; RuleBeat Core's are numbered by hand, one per change.    *)
(***************************************************************************)
EXTENDS Naturals, FiniteSets

CONSTANTS Sources,      \* [pack, graph, enabled, history]: whether the rule asks Graph, and is shipped
                        \* enabled; its query at each commit
          Commits,      \* the number of commits
          Mispaired,    \* the query the rule was shipped with by mistake
          Edited,       \* one an install stored before rules had versions
          Databases,    \* the databases an install may use
          MaxReleases,  \* bound: catalogues released
          Pseudo,       \* the version "before-versioning" of releases 0.8 and 0.9
          None

Corrected == 1    \* APRL_QUERY_CORRECTION.version: the commit the mistake was shipped at

Queries == {Mispaired, Edited, None} \cup {s.history[c] : s \in Sources, c \in 1..Commits}
Versions == (1..Commits) \cup {None, Pseudo}
Row == [type : {"builtin", "custom"}, enabled : BOOLEAN, query : Queries, version : Versions,
        retired : BOOLEAN, origin : Versions]

ASSUME RuleVersionsAssumption ==
    /\ Commits \in Nat \ {0} /\ MaxReleases \in Nat
    /\ \A s \in Sources :
          /\ s.pack \in {"rulebeat-core", "aprl-v2"} /\ (s.graph => s.pack = "rulebeat-core")
          /\ s.enabled \in BOOLEAN
          /\ DOMAIN s.history = 1..Commits /\ s.history[1] # None
          /\ \A c \in 1..Commits : s.history[c] \notin {Mispaired, Edited}
    /\ Mispaired # Edited /\ None \notin {Mispaired, Edited, Pseudo}
    /\ {None, Pseudo} \cap (1..Commits) = {} /\ None \notin Row
    /\ Databases \subseteq {"sqlite", "pg"}

VARIABLES source, pinned,  \* the pack's source, and the commit its file was last synced at
          mistaken,        \* whether the transform pairs rules with the wrong queries
          file,            \* the rule's entry in the pack file, or None
          releases,        \* the catalogues released: the entry, and whether its file can be read
          db, row,         \* the rule's row in rules, or None
          copy,            \* origin_version of a custom rule copied from it, None when there is none
          recorded,        \* rule_versions: a query for each version
          starting,        \* the start under way, or None
          started,         \* the catalogue of the last start, None once someone changed something
          serving,         \* whether a start has ended
          ran,             \* history: the query the rule last ran under each version
          aged             \* history: whether the row dates from before rules had versions

author == <<source, pinned, mistaken, file, releases>>
install == <<db, row, copy, recorded, starting, started, serving, ran, aged>>
vars == <<author, install>>

Core == source.pack = "rulebeat-core"
Unversioned(r) == r.version \in {None, Pseudo}

---------------------------------------------------------------------------
(* The pack sync *)

\* What the transform makes of upstream at a commit.
Fetched(commit) ==
    IF source.history[commit] = None THEN None
    ELSE IF mistaken THEN Mispaired ELSE source.history[commit]

\* versionPackRules: an unchanged rule keeps its version, any other takes the commit's.
Versioned(before, query, commit) ==
    CASE query = None -> None
      [] before # None /\ before.query = query -> before
      [] OTHER -> [version |-> commit, query |-> query]

\* The file is synced at another commit, for a pack an older one too.
Sync(commit) ==
    /\ starting = None /\ ~mistaken
    /\ commit # pinned /\ (Core => commit > pinned)
    /\ pinned' = commit
    /\ file' = Versioned(file, Fetched(commit), commit)
    /\ UNCHANGED <<source, mistaken, releases, install>>

\* The mistake was found while the file was still pinned to the commit it was made at.
CorrectTransform ==
    /\ starting = None /\ mistaken
    /\ mistaken' = FALSE
    /\ file' = [version |-> pinned, query |-> source.history[pinned]]
    /\ UNCHANGED <<source, pinned, releases, install>>

\* RuleBeat Core is part of the build; a pack's file can be one that cannot be read.
Release ==
    /\ starting = None /\ Cardinality(releases) < MaxReleases
    /\ \E readable \in {TRUE, Core} :
          releases' = releases \cup {[entry |-> file, readable |-> readable]}
    /\ UNCHANGED <<source, pinned, mistaken, file, install>>

---------------------------------------------------------------------------
(* The plan of a start *)

Shipped(release) == IF release.readable THEN release.entry ELSE None

When(condition, action) == IF condition THEN {action} ELSE {}

\* Variant: an enabled rule moves too.
MovesAny(r, e) == ~Unversioned(r) /\ e.version > r.version

\* Only a disabled rule moves, and only to a newer version.
Moves(r, e) == ~Unversioned(r) /\ ~r.enabled /\ e.version > r.version

\* The one correction in place, of an enabled rule too.
NeedsQueryCorrection(r, e) ==
    /\ source.pack = "aprl-v2" /\ r.type = "builtin"
    /\ e.version = Corrected /\ r.version = Corrected /\ r.query # e.query

\* A Graph query an install tuned while it could: the rule becomes theirs.
GraphTuned(r, e) == r.version = None /\ source.graph /\ r.query \notin {None, e.query}

\* A row from before Graph rules had a query takes the shipped one.
LacksGraph(r) == source.graph /\ r.query = None

PlanShipped(r, e) ==
    CASE r.origin # None -> {}
      [] r.origin = None /\ GraphTuned(r, e) -> {"convert"}
      [] OTHER ->
           LET query == IF LacksGraph(r) THEN e.query ELSE r.query
           IN  When(r.type # "builtin", "adopt")
               \cup When(LacksGraph(r), "backfill")
               \cup When(e.version \notin DOMAIN recorded, "record")
               \cup (CASE Unversioned(r) -> {IF query = e.query THEN "set-running" ELSE "apply"}
                       [] Moves(r, e) -> {"apply"}
                       [] ~Moves(r, e) /\ NeedsQueryCorrection(r, e) -> {"correct"}
                       [] OTHER -> {})
               \cup When(r.retired, "unretire")

\* Variant: labelled again at every start.
PlanDroppedAgain(r, release) ==
    When(r.version = Pseudo, "clear-running")
    \cup When(release.readable /\ r.type = "builtin" /\ r.origin = None, "retire")

\* A rule no pack ships is labelled, unless its pack could not be read; it keeps its query.
PlanDropped(r, release) ==
    IF r.type # "builtin" \/ r.origin # None THEN When(r.version = Pseudo, "clear-running")
    ELSE When(r.version = Pseudo, "clear-running")
         \cup When(release.readable /\ ~r.retired, "retire")

\* planRuleSeeding.
Plan(release) ==
    LET e == Shipped(release)
    IN  (CASE row = None /\ e = None -> {}
           [] row = None /\ e # None -> {"insert"} \cup When(e.version \notin DOMAIN recorded, "record")
           [] row # None /\ e # None -> PlanShipped(row, e)
           [] OTHER -> PlanDropped(row, release))
        \cup When(copy = Pseudo, "clear-origin-version")
        \cup When(Pseudo \in DOMAIN recorded, "delete-recorded")

---------------------------------------------------------------------------
(* A start *)

Init ==
    /\ source \in Sources /\ pinned = 1
    /\ mistaken \in {FALSE, source.pack = "aprl-v2"}
    /\ file = [version |-> 1, query |-> Fetched(1)]
    /\ releases = {}
    /\ db \in Databases
    /\ \/ row = None /\ recorded = <<>> /\ copy = None
       \/ \E type \in {"builtin", "custom"}, enabled \in BOOLEAN,
             query \in {file.query, Edited} \cup When(source.graph, None) :
             /\ row = [type |-> type, enabled |-> enabled, query |-> query, version |-> None,
                       retired |-> FALSE, origin |-> None]
             /\ recorded = <<>> /\ copy = None
       \/ /\ ~source.graph
          /\ row = [type |-> "builtin", enabled |-> TRUE, query |-> Edited, version |-> Pseudo,
                    retired |-> FALSE, origin |-> None]
          /\ recorded = [v \in {1, Pseudo} |-> IF v = 1 THEN file.query ELSE Edited]
          /\ copy \in {None, Pseudo}
    /\ aged = (row # None)
    /\ starting = None /\ started = None /\ serving = FALSE /\ ran = <<>>

\* The catalogue is loaded, the rows and the recorded versions are read.
BeginStart(release) ==
    /\ starting = None
    /\ starting' = [release |-> release, plan |-> Plan(release), alone |-> TRUE]
    /\ started' = None
    /\ UNCHANGED <<author, db, row, copy, recorded, serving, ran, aged>>

Inserted(e) == [type |-> "builtin", enabled |-> source.enabled, query |-> e.query, version |-> e.version,
                retired |-> FALSE, origin |-> None]

\* The plan's writes to the row, each by its id and whatever the row has become.
Rewritten(r, plan, e) ==
    LET writes == plan \cap {"apply", "correct"} # {}
    IN  [type |-> IF "adopt" \in plan THEN "builtin" ELSE IF "convert" \in plan THEN "custom" ELSE r.type,
         enabled |-> r.enabled,
         query |-> IF writes \/ ("backfill" \in plan /\ r.query = None) THEN e.query ELSE r.query,
         version |-> IF writes \/ "set-running" \in plan THEN e.version
                     ELSE IF plan \cap {"convert", "clear-running"} # {} THEN None ELSE r.version,
         retired |-> "retire" \in plan \/ (r.retired /\ plan \cap {"unretire", "convert"} = {}),
         origin |-> IF "convert" \in plan THEN e.version ELSE r.origin]

\* Variant: the correction leaves the recorded query.
RecordsUncorrected(plan, e) ==
    LET added == IF "record" \in plan THEN {e.version} \ DOMAIN recorded ELSE {}
        kept == DOMAIN recorded \ When("delete-recorded" \in plan, Pseudo)
    IN  [v \in kept \cup added |-> IF v \in added THEN e.query ELSE recorded[v]]

\* And to rule_versions: a version is recorded once, and only the correction changes it.
Records(plan, e) ==
    LET added == IF "record" \in plan THEN {e.version} \ DOMAIN recorded ELSE {}
        kept == DOMAIN recorded \ When("delete-recorded" \in plan, Pseudo)
    IN  [v \in kept \cup added |->
            IF v \in added \/ ("correct" \in plan /\ v = e.version) THEN e.query ELSE recorded[v]]

\* History: a built-in runs its query under its version.
Ran(r) ==
    IF r = None THEN ran
    ELSE IF r.type # "builtin" \/ Unversioned(r) THEN ran
    ELSE [v \in DOMAIN ran \cup {r.version} |-> IF v = r.version THEN r.query ELSE ran[v]]

\* The writes commit together.
EndStart ==
    /\ starting # None
    /\ LET plan == starting.plan
           e == Shipped(starting.release)
       IN  /\ row' = IF row # None THEN Rewritten(row, plan, e)
                     ELSE IF "insert" \in plan THEN Inserted(e) ELSE None
           /\ recorded' = Records(plan, e)
           /\ copy' = IF "clear-origin-version" \in plan /\ copy = Pseudo THEN None ELSE copy
    /\ ran' = Ran(row')
    /\ starting' = None /\ serving' = TRUE
    /\ started' = IF starting.alone THEN starting.release ELSE None
    /\ UNCHANGED <<author, db, aged>>

---------------------------------------------------------------------------
(* Admins *)

\* SQLite's start is one synchronous transaction; on Postgres another container serves.
Served == serving /\ row # None /\ (db = "sqlite" => starting = None)

Touched == /\ started' = None
           /\ starting' = IF starting = None THEN None ELSE [starting EXCEPT !.alone = FALSE]

Toggle ==
    /\ Served
    /\ row' = [row EXCEPT !.enabled = ~row.enabled]
    /\ Touched
    /\ UNCHANGED <<author, db, copy, recorded, serving, ran, aged>>

\* switchRuleVersion: whatever this install has recorded; a custom rule has no versions.
Switch(version) ==
    /\ Served /\ row.type = "builtin" /\ version \in DOMAIN recorded
    /\ row' = [row EXCEPT !.version = version, !.query = recorded[version]]
    /\ ran' = Ran(row')
    /\ Touched
    /\ UNCHANGED <<author, db, copy, recorded, serving, aged>>

\* duplicateRule: the copy remembers the version.
Duplicate ==
    /\ Served
    /\ copy' = IF row.type = "builtin" THEN row.version ELSE row.origin
    /\ Touched
    /\ UNCHANGED <<author, db, row, recorded, serving, ran, aged>>

\* Only a custom rule can be deleted: one an upgrade converted, or found unshipped.
Delete ==
    /\ Served /\ row.type = "custom"
    /\ row' = None
    /\ Touched
    /\ UNCHANGED <<author, db, copy, recorded, serving, ran, aged>>

\* And only a custom rule's query can be edited.
Edit ==
    /\ Served /\ row.type = "custom" /\ row.query # Edited
    /\ row' = [row EXCEPT !.query = Edited]
    /\ Touched
    /\ UNCHANGED <<author, db, copy, recorded, serving, ran, aged>>

---------------------------------------------------------------------------
Next ==
    \/ \E commit \in 1..Commits : Sync(commit)
    \/ CorrectTransform \/ Release
    \/ \E release \in releases : BeginStart(release)
    \/ EndStart
    \/ \E version \in DOMAIN recorded : Switch(version)
    \/ Toggle \/ Duplicate \/ Edit \/ Delete

Spec == Init /\ [][Next]_vars

---------------------------------------------------------------------------
(* Properties *)

Entry == [version : 1..Commits, query : Queries]

\* Every variable keeps its type.
TypeOK ==
    /\ source \in Sources /\ pinned \in 1..Commits /\ mistaken \in BOOLEAN
    /\ file \in Entry \cup {None}
    /\ releases \subseteq [entry : Entry \cup {None}, readable : BOOLEAN]
    /\ db \in Databases
    /\ row \in Row \cup {None} /\ copy \in Versions
    /\ DOMAIN recorded \subseteq Versions /\ \A v \in DOMAIN recorded : recorded[v] \in Queries
    /\ starting # None => starting.release \in releases /\ starting.alone \in BOOLEAN
    /\ started \in releases \cup {None}
    /\ serving \in BOOLEAN /\ aged \in BOOLEAN
    /\ DOMAIN ran \subseteq 1..Commits /\ \A v \in DOMAIN ran : ran[v] \in Queries

\* rule-versions.ts:13: "an upgrade never changes what an enabled shipped rule runs",
\* bar the correction and a rule that had no version; nor a rule that is an Admin's.
EnabledStands ==
    [][db = "sqlite" /\ starting # None /\ starting' = None /\ row # None =>
          (((row.type = "builtin" /\ row.enabled /\ ~Unversioned(row)) \/ row.origin # None) =>
              \/ row'.query = row.query /\ row'.version = row.version
              \/ source.pack = "aprl-v2" /\ row.version = Corrected /\ row'.version = Corrected)]_vars

\* The query a rule last ran under a version is what the install has recorded for it,
\* so that going back to a version runs what it ran before.
GoesBack(version) == version \in DOMAIN recorded /\ recorded[version] = ran[version]

\* Every version but the corrected one, for a row that dates from before versions.
GoingBack ==
    db = "sqlite" =>
        \A v \in DOMAIN ran : GoesBack(v) \/ (aged /\ source.pack = "aprl-v2" /\ v = Corrected)

\* docs/public/rule-versions.md:46: "You can return to any recorded version".  Broken for a
\* row that was on the pseudo-version: the shipped query is applied to it under a version
\* whose record, made by an older release, is the wrong query, and is never corrected.
AlwaysGoesBack == db = "sqlite" => \A v \in DOMAIN ran : GoesBack(v)

\* The same of Postgres, and of EnabledStands.  Broken by an Admin of a container that
\* serves while another starts: what they enable, the start still moves.
StandsWhileServing ==
    [][starting # None /\ starting' = None /\ row # None =>
          (row.type = "builtin" /\ row.enabled /\ ~Unversioned(row) =>
              row'.version = row.version)]_vars

\* docs/engineering/decisions/0009: "a second start changes nothing".
Settles == started # None => Plan(started) = {}
=============================================================================
