-------------------------- MODULE RuleVersionsProofs --------------------------
(* A shipped rule for any source, number of commits and releases: no start    *)
(* moves an enabled rule, going back to a version runs what it ran, and a     *)
(* second start plans nothing.                                                *)
EXTENDS RuleVersions, TLAPS

Aprl == source.pack = "aprl-v2"

\* What a version can stand for: the query at its commit, or the mistake.
AtCommit(v, q) ==
    /\ v \in 1..Commits /\ q # None
    /\ q = source.history[v] \/ (Aprl /\ v = Corrected /\ q = Mispaired)

EntryOK(e) == e # None => AtCommit(e.version, e.query)

\* The pack's side.
Authored ==
    /\ source \in Sources /\ pinned \in 1..Commits
    /\ mistaken => Aprl /\ pinned = Corrected
    /\ EntryOK(file)
    /\ \A r \in releases : EntryOK(r.entry)

Numbering == {"set-running", "apply", "correct"}

\* What takes something from the shipped rule.
Shipping == Numbering \cup {"insert", "record", "backfill", "convert"}

\* A row that is custom afterwards.
MakesCustom(plan) ==
    "adopt" \notin plan /\ ((row # None /\ row.type = "custom") \/ "convert" \in plan)

\* A start under way plans from a released catalogue; with nobody else acting, from
\* the row as it still is.  A custom rule is numbered only when it is adopted.
Planned ==
    starting # None =>
        /\ starting.release \in releases
        /\ starting.alone => starting.plan = Plan(starting.release)
        /\ db = "sqlite" => starting.alone
        /\ MakesCustom(starting.plan) => starting.plan \cap Numbering = {}
        /\ Shipped(starting.release) = None => starting.plan \cap Shipping = {}
        /\ starting = [release |-> starting.release, plan |-> starting.plan, alone |-> starting.alone]

\* What is recorded can be switched to.
Listed ==
    /\ DOMAIN recorded \subseteq Versions \ {None}
    /\ \A v \in DOMAIN recorded : recorded[v] \in Queries

\* What an Admin owns has no version.
Kinds ==
    row # None =>
        /\ row \in Row
        /\ row.type = "custom" => row.version = None

\* The corrected version, for a row that dates from before versions.
Excused(v) == aged /\ Aprl /\ v = Corrected

\* On SQLite: what is recorded is what was shipped, and a numbered row runs it.
Recorded ==
    db = "sqlite" =>
        /\ \A v \in DOMAIN recorded :
              recorded[v] # None /\ (v # Pseudo => AtCommit(v, recorded[v]))
        /\ row # None =>
              /\ row.origin # None => row.type = "custom"
              /\ ~Unversioned(row) =>
                    /\ row.version \in DOMAIN recorded /\ row.query # None
                    /\ recorded[row.version] = row.query \/ Excused(row.version)
        /\ \A v \in DOMAIN ran : v \in 1..Commits /\ (GoesBack(v) \/ Excused(v))

\* A row installed with versions was shipped, and stays a built-in with one.
Young ==
    db = "sqlite" /\ ~aged =>
        /\ Pseudo \notin DOMAIN recorded
        /\ row = None => DOMAIN recorded = {} /\ DOMAIN ran = {}
        /\ row # None => row.type = "builtin" /\ ~Unversioned(row)

IInv == Authored /\ Planned /\ Listed /\ Kinds /\ Recorded /\ Young

-----------------------------------------------------------------------------
(* What a start makes of the row and of what is recorded, in each case of    *)
(* its plan.                                                                  *)

NewRow(release) ==
    IF row # None THEN Rewritten(row, Plan(release), Shipped(release))
    ELSE IF "insert" \in Plan(release) THEN Inserted(Shipped(release)) ELSE None

NewRecorded(release) == Records(Plan(release), Shipped(release))

\* A row the plan of a shipped rule may number.
Followed(e) == row.origin = None /\ ~GraphTuned(row, e)

\* It takes the release's version: it had none, it moves, or it is corrected.
Takes(e) == Unversioned(row) \/ Moves(row, e) \/ NeedsQueryCorrection(row, e)

LEMMA OutsideVersions ==
    ASSUME NEW v, NEW q, AtCommit(v, q)
    PROVE  v # None /\ v # Pseudo /\ v \in Nat /\ q # None
  <1>1. Commits \in Nat /\ {None, Pseudo} \cap (1..Commits) = {}
    BY RuleVersionsAssumption
  <1> QED BY <1>1 DEF AtCommit

\* Nothing is shipped: a row is labelled at most, and nothing recorded.
LEMMA WhenDropped ==
    ASSUME NEW release, Shipped(release) = None
    PROVE  /\ row = None => NewRow(release) = None
           /\ row # None =>
                 /\ NewRow(release).type = row.type /\ NewRow(release).enabled = row.enabled
                 /\ NewRow(release).query = row.query /\ NewRow(release).origin = row.origin
                 /\ NewRow(release).version = IF row.version = Pseudo THEN None ELSE row.version
                 /\ row.type = "builtin" /\ row.origin = None /\ release.readable
                       => NewRow(release).retired
           /\ NewRecorded(release) = [v \in DOMAIN recorded \ {Pseudo} |-> recorded[v]]
           /\ Plan(release) \cap Shipping = {}
  <1> DEFINE others == When(copy = Pseudo, "clear-origin-version")
                       \cup When(Pseudo \in DOMAIN recorded, "delete-recorded")
  <1>1. CASE row = None
    <2>1. Plan(release) = others
      BY <1>1, Zenon DEF Plan
    <2> QED BY <1>1, <2>1 DEF NewRow, NewRecorded, Records, When, Shipping, Numbering
  <1>2. CASE row # None
    <2>1. Plan(release) = PlanDropped(row, release) \cup others
      BY <1>2 DEF Plan
    <2>2. /\ PlanDropped(row, release) \subseteq {"clear-running", "retire"}
          /\ "clear-running" \in PlanDropped(row, release) <=> row.version = Pseudo
          /\ row.type = "builtin" /\ row.origin = None /\ release.readable /\ ~row.retired
                => "retire" \in PlanDropped(row, release)
      BY DEF PlanDropped, When
    <2>3. /\ Plan(release) \cap {"adopt", "convert", "apply", "correct", "backfill", "set-running",
                                  "record", "unretire", "insert"} = {}
          /\ "clear-running" \in Plan(release) <=> row.version = Pseudo
          /\ "delete-recorded" \in Plan(release) <=> Pseudo \in DOMAIN recorded
          /\ row.type = "builtin" /\ row.origin = None /\ release.readable /\ ~row.retired
                => "retire" \in Plan(release)
      BY <2>1, <2>2 DEF When
    <2>4. NewRow(release) = Rewritten(row, Plan(release), None)
      BY <1>2 DEF NewRow
    <2>5. NewRecorded(release) = [v \in DOMAIN recorded \ {Pseudo} |-> recorded[v]]
      BY <2>3 DEF NewRecorded, Records, When
    <2>6. /\ NewRow(release).type = row.type /\ NewRow(release).enabled = row.enabled
          /\ NewRow(release).query = row.query /\ NewRow(release).origin = row.origin
          /\ NewRow(release).version = IF row.version = Pseudo THEN None ELSE row.version
      BY <2>3, <2>4 DEF Rewritten
    <2>7. row.type = "builtin" /\ row.origin = None /\ release.readable => NewRow(release).retired
      <3>1. NewRow(release).retired =
              ("retire" \in Plan(release) \/ (row.retired /\ Plan(release) \cap {"unretire", "convert"} = {}))
        BY <2>4 DEF Rewritten
      <3> QED BY <2>3, <3>1
    <2> QED BY <1>2, <2>3, <2>5, <2>6, <2>7 DEF Shipping, Numbering
  <1> QED BY <1>1, <1>2

\* A first row is the shipped rule.
LEMMA WhenInserted ==
    ASSUME NEW release, row = None, Shipped(release) # None, EntryOK(Shipped(release))
    PROVE  /\ NewRow(release) = Inserted(Shipped(release))
           /\ NewRecorded(release) =
                 [v \in (DOMAIN recorded \ {Pseudo}) \cup {Shipped(release).version} |->
                     IF v \in DOMAIN recorded THEN recorded[v] ELSE Shipped(release).query]
  <1> DEFINE e == Shipped(release)
  <1>1. Plan(release) = ({"insert"} \cup When(e.version \notin DOMAIN recorded, "record"))
                        \cup When(copy = Pseudo, "clear-origin-version")
                        \cup When(Pseudo \in DOMAIN recorded, "delete-recorded")
    BY DEF Plan
  <1>2. /\ "insert" \in Plan(release) /\ "correct" \notin Plan(release)
        /\ "record" \in Plan(release) <=> e.version \notin DOMAIN recorded
        /\ "delete-recorded" \in Plan(release) <=> Pseudo \in DOMAIN recorded
    BY <1>1 DEF When
  <1>3. e.version # Pseudo
    BY OutsideVersions DEF EntryOK
  <1>4. NewRow(release) = Inserted(e)
    BY <1>2 DEF NewRow
  <1>5. NewRecorded(release) =
           [v \in (DOMAIN recorded \ {Pseudo}) \cup {e.version} |->
               IF v \in DOMAIN recorded THEN recorded[v] ELSE e.query]
    BY <1>2, <1>3 DEF NewRecorded, Records, When
  <1> QED BY <1>4, <1>5

\* A rule an Admin owns is left as it is.
LEMMA WhenTheirs ==
    ASSUME NEW release, row # None, Shipped(release) # None, row.origin # None
    PROVE  /\ NewRow(release).type = row.type /\ NewRow(release).enabled = row.enabled
           /\ NewRow(release).query = row.query /\ NewRow(release).origin = row.origin
           /\ NewRow(release).version = row.version
           /\ NewRecorded(release) = [v \in DOMAIN recorded \ {Pseudo} |-> recorded[v]]
  <1>1. PlanShipped(row, Shipped(release)) = {}
    BY DEF PlanShipped
  <1>2. Plan(release) = When(copy = Pseudo, "clear-origin-version")
                        \cup When(Pseudo \in DOMAIN recorded, "delete-recorded")
    BY <1>1 DEF Plan
  <1>3. /\ Plan(release) \subseteq {"clear-origin-version", "delete-recorded"}
        /\ "delete-recorded" \in Plan(release) <=> Pseudo \in DOMAIN recorded
    BY <1>2 DEF When
  <1>4. NewRow(release) = Rewritten(row, Plan(release), Shipped(release))
    BY DEF NewRow
  <1>5. NewRecorded(release) = [v \in DOMAIN recorded \ {Pseudo} |-> recorded[v]]
    BY <1>3 DEF NewRecorded, Records, When
  <1> QED BY <1>3, <1>4, <1>5 DEF Rewritten

\* A Graph query an install tuned becomes a rule of its own.
LEMMA WhenTuned ==
    ASSUME NEW release, row # None, Shipped(release) # None, row.origin = None,
           GraphTuned(row, Shipped(release))
    PROVE  /\ NewRow(release).type = "custom" /\ NewRow(release).version = None
           /\ NewRow(release).origin = Shipped(release).version
           /\ NewRecorded(release) = [v \in DOMAIN recorded \ {Pseudo} |-> recorded[v]]
  <1>1. PlanShipped(row, Shipped(release)) = {"convert"}
    BY DEF PlanShipped
  <1>2. Plan(release) = {"convert"} \cup When(copy = Pseudo, "clear-origin-version")
                        \cup When(Pseudo \in DOMAIN recorded, "delete-recorded")
    BY <1>1 DEF Plan
  <1>3. /\ Plan(release) \subseteq {"convert", "clear-origin-version", "delete-recorded"}
        /\ "convert" \in Plan(release)
        /\ "delete-recorded" \in Plan(release) <=> Pseudo \in DOMAIN recorded
    BY <1>2 DEF When
  <1>4. NewRow(release) = Rewritten(row, Plan(release), Shipped(release))
    BY DEF NewRow
  <1>5. NewRecorded(release) = [v \in DOMAIN recorded \ {Pseudo} |-> recorded[v]]
    BY <1>3 DEF NewRecorded, Records, When
  <1> QED BY <1>3, <1>4, <1>5 DEF Rewritten

\* Any other row takes the release's version or keeps its own.
LEMMA WhenFollowed ==
    ASSUME NEW release, row # None, Shipped(release) # None, EntryOK(Shipped(release)),
           Followed(Shipped(release))
    PROVE  LET e == Shipped(release)
           IN  /\ NewRow(release).type = "builtin" /\ NewRow(release).enabled = row.enabled
               /\ NewRow(release).origin = None /\ ~NewRow(release).retired
               /\ NewRow(release).version = IF Takes(e) THEN e.version ELSE row.version
               /\ NewRow(release).query =
                     IF Takes(e) \/ LacksGraph(row) THEN e.query ELSE row.query
               /\ NewRecorded(release) =
                     [v \in (DOMAIN recorded \ {Pseudo}) \cup {e.version} |->
                         IF v \notin DOMAIN recorded THEN e.query
                         ELSE IF /\ v = e.version /\ ~Unversioned(row) /\ ~Moves(row, e)
                                 /\ NeedsQueryCorrection(row, e)
                         THEN e.query ELSE recorded[v]]
               /\ "convert" \notin Plan(release)
               /\ row.type = "custom" => "adopt" \in Plan(release)
  <1> DEFINE e == Shipped(release)
             P == Plan(release)
             query == IF LacksGraph(row) THEN e.query ELSE row.query
             number == CASE Unversioned(row) -> {IF query = e.query THEN "set-running" ELSE "apply"}
                         [] Moves(row, e) -> {"apply"}
                         [] ~Moves(row, e) /\ NeedsQueryCorrection(row, e) -> {"correct"}
                         [] OTHER -> {}
             corrects == ~Unversioned(row) /\ ~Moves(row, e) /\ NeedsQueryCorrection(row, e)
  <1>1. P = When(row.type # "builtin", "adopt") \cup When(LacksGraph(row), "backfill")
            \cup When(e.version \notin DOMAIN recorded, "record") \cup number
            \cup When(row.retired, "unretire")
            \cup When(copy = Pseudo, "clear-origin-version")
            \cup When(Pseudo \in DOMAIN recorded, "delete-recorded")
    BY DEF Plan, PlanShipped, Followed
  <1>2. /\ number \subseteq Numbering
        /\ "correct" \in number <=> corrects
        /\ "apply" \in number <=>
              \/ Unversioned(row) /\ query # e.query
              \/ ~Unversioned(row) /\ Moves(row, e)
        /\ "set-running" \in number <=> Unversioned(row) /\ query = e.query
    <2> HIDE DEF query
    <2>1. CASE Unversioned(row)
      <3>1. ~Moves(row, e)
        BY <2>1 DEF Moves
      <3>2. ~NeedsQueryCorrection(row, e)
        BY <2>1, OutsideVersions DEF NeedsQueryCorrection, Unversioned, EntryOK
      <3>3. number = {IF query = e.query THEN "set-running" ELSE "apply"}
        BY <2>1, <3>1, <3>2
      <3> QED BY <2>1, <3>1, <3>2, <3>3 DEF Numbering
    <2>2. CASE ~Unversioned(row) /\ Moves(row, e)
      <3>1. number = {"apply"}
        BY <2>2
      <3> QED BY <2>2, <3>1 DEF Numbering
    <2>3. CASE corrects
      <3>1. number = {"correct"}
        BY <2>3
      <3> QED BY <2>3, <3>1 DEF Numbering
    <2>4. CASE ~Unversioned(row) /\ ~Moves(row, e) /\ ~NeedsQueryCorrection(row, e)
      <3>1. number = {}
        BY <2>4
      <3> QED BY <2>4, <3>1 DEF Numbering
    <2> QED BY <2>1, <2>2, <2>3, <2>4
  <1> HIDE DEF number
  <1>3. /\ "adopt" \in P <=> row.type # "builtin"
        /\ "backfill" \in P <=> LacksGraph(row)
        /\ "record" \in P <=> e.version \notin DOMAIN recorded
        /\ "correct" \in P <=> corrects
        /\ "apply" \in P <=> "apply" \in number
        /\ "set-running" \in P <=> Unversioned(row) /\ query = e.query
        /\ "unretire" \in P <=> row.retired
        /\ "delete-recorded" \in P <=> Pseudo \in DOMAIN recorded
        /\ "convert" \notin P /\ "retire" \notin P /\ "clear-running" \notin P
    BY <1>1, <1>2 DEF When, Numbering
  <1> HIDE DEF P
  <1>4. NewRow(release) = Rewritten(row, P, e)
    BY DEF NewRow, P
  <1>5. /\ NewRow(release).type = "builtin" /\ NewRow(release).enabled = row.enabled
        /\ NewRow(release).origin = None
    BY <1>3, <1>4 DEF Rewritten, Followed
  <1>6. ~NewRow(release).retired
    <2>1. NewRow(release).retired =
            ("retire" \in P \/ (row.retired /\ P \cap {"unretire", "convert"} = {}))
      BY <1>4 DEF Rewritten
    <2> QED BY <1>3, <2>1
  <1>7. P \cap {"apply", "correct"} # {} <=> "apply" \in number \/ corrects
    BY <1>3
  <1>8. NewRow(release).version = IF Takes(e) THEN e.version ELSE row.version
    BY <1>2, <1>3, <1>4, <1>7 DEF Rewritten, Takes
  <1>9. NewRow(release).query = IF Takes(e) \/ LacksGraph(row) THEN e.query ELSE row.query
    BY <1>2, <1>3, <1>4, <1>7 DEF Rewritten, Takes, LacksGraph
  <1>10. e.version # Pseudo
    BY OutsideVersions DEF EntryOK
  <1>11. NewRecorded(release) = Records(P, e)
    BY DEF NewRecorded, P
  <1>12. NewRecorded(release) =
           [v \in (DOMAIN recorded \ {Pseudo}) \cup {e.version} |->
               IF v \notin DOMAIN recorded THEN e.query
               ELSE IF v = e.version /\ corrects THEN e.query ELSE recorded[v]]
    BY <1>3, <1>10, <1>11 DEF Records, When
  <1>13. "convert" \notin Plan(release) /\ (row.type = "custom" => "adopt" \in Plan(release))
    BY <1>3 DEF P
  <1> QED BY <1>5, <1>6, <1>8, <1>9, <1>12, <1>13

\* What makes a row custom does not number it.
LEMMA CustomUnnumbered ==
    ASSUME NEW release, EntryOK(Shipped(release)), MakesCustom(Plan(release))
    PROVE  Plan(release) \cap Numbering = {}
  <1> DEFINE others == When(copy = Pseudo, "clear-origin-version")
                       \cup When(Pseudo \in DOMAIN recorded, "delete-recorded")
  <1>1. CASE row = None /\ Shipped(release) = None
    <2>1. Plan(release) = others
      BY <1>1, Zenon DEF Plan
    <2> QED BY <2>1 DEF When, Numbering
  <1>2. CASE row = None /\ Shipped(release) # None
    <2>1. Plan(release) = {"insert"} \cup When(Shipped(release).version \notin DOMAIN recorded, "record")
                          \cup others
      BY <1>2 DEF Plan
    <2> QED BY <2>1 DEF When, Numbering
  <1>3. CASE row # None /\ Shipped(release) = None
    <2>1. Plan(release) = PlanDropped(row, release) \cup others
      BY <1>3 DEF Plan
    <2>2. PlanDropped(row, release) \subseteq {"clear-running", "retire"}
      BY DEF PlanDropped, When
    <2> QED BY <2>1, <2>2 DEF When, Numbering
  <1>4. CASE row # None /\ Shipped(release) # None /\ row.origin # None
    <2>1. PlanShipped(row, Shipped(release)) = {}
      BY <1>4 DEF PlanShipped
    <2>2. Plan(release) = others
      BY <1>4, <2>1 DEF Plan
    <2> QED BY <2>2 DEF When, Numbering
  <1>5. CASE row # None /\ Shipped(release) # None /\ row.origin = None /\ GraphTuned(row, Shipped(release))
    <2>1. PlanShipped(row, Shipped(release)) = {"convert"}
      BY <1>5 DEF PlanShipped
    <2>2. Plan(release) = {"convert"} \cup others
      BY <1>5, <2>1 DEF Plan
    <2> QED BY <2>2 DEF When, Numbering
  <1>6. CASE row # None /\ Shipped(release) # None /\ Followed(Shipped(release))
    BY <1>6, WhenFollowed DEF MakesCustom
  <1> QED BY <1>1, <1>2, <1>3, <1>4, <1>5, <1>6 DEF Followed

\* With nobody else acting, a start does what it planned.
LEMMA EndsAsPlanned ==
    ASSUME Planned, EndStart, starting.alone, NEW release, release = starting.release
    PROVE  /\ row' = NewRow(release) /\ recorded' = NewRecorded(release)
           /\ starting.plan = Plan(release) /\ release \in releases
  BY DEF Planned, EndStart, NewRow, NewRecorded

LEMMA ShippedOK ==
    ASSUME Authored, NEW release \in releases
    PROVE  EntryOK(Shipped(release))
  BY DEF Authored, Shipped, EntryOK

-----------------------------------------------------------------------------
(* The invariant. *)

Admin ==
    \/ \E version \in DOMAIN recorded : Switch(version)
    \/ Toggle \/ Duplicate \/ Edit \/ Delete

Author == (\E commit \in 1..Commits : Sync(commit)) \/ CorrectTransform \/ Release

LEMMA Corrected1 == Corrected \in 1..Commits /\ Commits \in Nat
  BY RuleVersionsAssumption DEF Corrected

LEMMA AuthoredHolds ==
    ASSUME Authored, [Next]_vars
    PROVE  Authored'
  <1>1. \A c \in 1..Commits : source.history[c] \notin {Mispaired, Edited}
    BY RuleVersionsAssumption DEF Authored
  <1>2. source.history[Corrected] # None
    BY RuleVersionsAssumption DEF Authored, Corrected
  <1>3. ASSUME NEW commit \in 1..Commits, Sync(commit) PROVE Authored'
    <2>1. Fetched(commit) = source.history[commit]
      BY <1>3 DEF Sync, Fetched
    <2>2. EntryOK(Versioned(file, Fetched(commit), commit))
      <3>1. CASE Fetched(commit) = None
        BY <3>1 DEF Versioned, EntryOK, Authored, AtCommit
      <3>2. CASE Fetched(commit) # None /\ file # None /\ file.query = Fetched(commit)
        BY <3>2 DEF Versioned, Authored
      <3>3. CASE Fetched(commit) # None /\ ~(file # None /\ file.query = Fetched(commit))
        <4>1. Versioned(file, Fetched(commit), commit) = [version |-> commit, query |-> Fetched(commit)]
          BY <3>3 DEF Versioned
        <4> QED BY <2>1, <3>3, <4>1 DEF EntryOK, AtCommit
      <3> QED BY <3>1, <3>2, <3>3
    <2>3. EntryOK(file)'
      BY <1>3, <2>2 DEF Sync, EntryOK, AtCommit, Aprl
    <2> QED BY <1>3, <2>3 DEF Sync, Authored, EntryOK, AtCommit, Aprl
  <1>4. CASE CorrectTransform
    <2>1. EntryOK(file)'
      BY <1>2, <1>4 DEF CorrectTransform, Authored, EntryOK, AtCommit, Aprl
    <2> QED BY <1>4, <2>1 DEF CorrectTransform, Authored, EntryOK, AtCommit, Aprl
  <1>5. CASE Release
    <2>1. PICK readable \in {TRUE, Core} :
             releases' = releases \cup {[entry |-> file, readable |-> readable]}
      BY <1>5 DEF Release
    <2> QED BY <1>5, <2>1 DEF Release, Authored, EntryOK, AtCommit, Aprl
  <1>6. CASE UNCHANGED author
    BY <1>6 DEF author, Authored, EntryOK, AtCommit, Aprl
  <1>7. CASE (\E release \in releases : BeginStart(release)) \/ EndStart \/ Admin
    BY <1>6, <1>7 DEF BeginStart, EndStart, Admin, Switch, Toggle, Duplicate, Edit, Delete
  <1>8. CASE UNCHANGED vars
    BY <1>6, <1>8 DEF vars
  <1> QED BY <1>3, <1>4, <1>5, <1>7, <1>8 DEF Next, Admin

\* What an Admin's step leaves alone.
LEMMA AdminSteps ==
    ASSUME Kinds, Listed, Admin
    PROVE  /\ UNCHANGED <<author, db, recorded, serving, aged>>
           /\ Touched /\ row # None /\ (db = "sqlite" => starting = None)
           /\ \/ row' = None /\ row.type = "custom"
              \/ row' \in Row /\ row'.type = row.type /\ row'.origin = row.origin
           /\ \/ row' = None /\ ran' = ran
              \/ row'.version = row.version /\ ran' = ran
                   /\ (row.type = "builtin" => row'.query = row.query)
              \/ /\ row.type = "builtin" /\ row'.version \in DOMAIN recorded
                 /\ row'.query = recorded[row'.version] /\ ran' = Ran(row')
  <1>1. CASE \E version \in DOMAIN recorded : Switch(version)
    BY <1>1 DEF Switch, Kinds, Listed, Served, Row, author
  <1>2. CASE Toggle
    BY <1>2 DEF Toggle, Kinds, Served, Row, author
  <1>3. CASE Duplicate
    BY <1>3 DEF Duplicate, Kinds, Served, author
  <1>4. CASE Delete
    BY <1>4 DEF Delete, Served, author
  <1>5. CASE Edit
    BY <1>5 DEF Edit, Kinds, Served, Row, Queries, author
  <1> QED BY <1>1, <1>2, <1>3, <1>4, <1>5 DEF Admin

\* What EndStart leaves, whatever others did meanwhile.
LEMMA EndsTyped ==
    ASSUME Authored, Planned, Listed, Kinds, EndStart
    PROVE  Listed' /\ Kinds' /\ (row # None => row' # None)
  <1> DEFINE plan == starting.plan
             e == Shipped(starting.release)
             actions == plan \cap {"apply", "correct"} # {}
  <1>1. EntryOK(e) /\ (e = None => plan \cap Shipping = {})
    BY ShippedOK DEF Planned, EndStart
  <1>2. e # None => e.version \in 1..Commits /\ e.query \in Queries
    BY <1>1 DEF EntryOK, AtCommit, Authored, Queries
  <1>3. recorded' = Records(plan, e)
    BY DEF EndStart
  <1>4. DOMAIN recorded' = (DOMAIN recorded \ When("delete-recorded" \in plan, Pseudo))
                           \cup (IF "record" \in plan THEN {e.version} \ DOMAIN recorded ELSE {})
    BY <1>3 DEF Records
  <1>5. Listed'
    BY <1>1, <1>2, <1>3, <1>4, RuleVersionsAssumption DEF Listed, Records, Shipping, Numbering, Versions, Queries
  <1>6. CASE row # None
    <2>1. row' = Rewritten(row, plan, e)
      BY <1>6 DEF EndStart
    <2>2. row'.type \in {"builtin", "custom"} /\ row'.retired \in BOOLEAN
      BY <1>6, <2>1 DEF Rewritten, Kinds, Row
    <2>3. row'.query \in Queries /\ row'.version \in Versions /\ row'.origin \in Versions
      BY <1>1, <1>2, <1>6, <2>1 DEF Rewritten, Kinds, Row, Shipping, Numbering, Versions
    <2>4. row' \in Row
      BY <1>6, <2>1, <2>2, <2>3 DEF Rewritten, Kinds, Row
    <2>5. row'.type = "custom" => row'.version = None
      <3>1. row'.type = "custom" => MakesCustom(plan)
        BY <1>6, <2>1 DEF Rewritten, Kinds, Row, MakesCustom
      <3>2. MakesCustom(plan) => plan \cap Numbering = {}
        BY DEF Planned, EndStart
      <3> QED BY <1>6, <2>1, <3>1, <3>2 DEF Rewritten, Kinds, Row, Numbering, MakesCustom
    <2> QED BY <1>5, <2>4, <2>5, RuleVersionsAssumption DEF Kinds
  <1>7. CASE row = None
    <2>1. (row' = Inserted(e) /\ e # None) \/ row' = None
      BY <1>1, <1>7 DEF EndStart, Shipping
    <2>2. source.enabled \in BOOLEAN
      BY RuleVersionsAssumption DEF Authored
    <2>3. e # None => Inserted(e) \in Row /\ Inserted(e).type = "builtin"
      <3>1. ASSUME e # None PROVE Inserted(e) \in Row
        <4>1. e.version \in Versions /\ None \in Versions /\ e.query \in Queries
          BY <1>2, <3>1 DEF Versions
        <4> HIDE DEF e
        <4> QED BY <2>2, <4>1 DEF Inserted, Row
      <3> QED BY <3>1 DEF Inserted
    <2> QED BY <1>5, <1>7, <2>1, <2>3 DEF Kinds
  <1> QED BY <1>6, <1>7

LEMMA InitHolds ==
    ASSUME Init
    PROVE  IInv
  <1>1. /\ source \in Sources /\ pinned = 1 /\ file = [version |-> 1, query |-> Fetched(1)]
        /\ mistaken => Aprl
        /\ starting = None /\ ran = <<>> /\ releases = {} /\ mistaken \in BOOLEAN
    BY DEF Init, Aprl
  <1>2. AtCommit(1, Fetched(1)) /\ Fetched(1) \in Queries /\ 1 \in 1..Commits
    <2>1. source.history[1] # None /\ Mispaired # None /\ 1 \in 1..Commits
      BY <1>1, RuleVersionsAssumption
    <2>2. Fetched(1) = IF mistaken THEN Mispaired ELSE source.history[1]
      BY <2>1 DEF Fetched
    <2> QED BY <1>1, <2>1, <2>2 DEF AtCommit, Corrected, Queries
  <1>3. Authored /\ Planned
    BY <1>1, <1>2, Corrected1 DEF Authored, Planned, EntryOK, Corrected
  <1>4. DOMAIN ran = {}
    BY <1>1
  <1>5. CASE row = None /\ recorded = <<>>
    <2>1. DOMAIN recorded = {}
      BY <1>5
    <2> QED BY <1>3, <1>4, <1>5, <2>1 DEF IInv, Listed, Kinds, Recorded, Young, Unversioned
  <1>6. CASE \E type \in {"builtin", "custom"}, enabled \in BOOLEAN,
               query \in {file.query, Edited} \cup When(source.graph, None) :
               /\ row = [type |-> type, enabled |-> enabled, query |-> query, version |-> None,
                         retired |-> FALSE, origin |-> None]
               /\ recorded = <<>> /\ copy = None
    <2>1. DOMAIN recorded = {} /\ aged = (row # None)
      BY <1>6 DEF Init
    <2>2. row \in Row /\ row.version = None /\ row.origin = None
      BY <1>1, <1>2, <1>6 DEF Row, Versions, Queries, When
    <2>3. row # None
      BY <2>2, RuleVersionsAssumption
    <2> QED BY <1>3, <1>4, <2>1, <2>2, <2>3 DEF IInv, Listed, Kinds, Recorded, Young, Unversioned
  <1>7. CASE /\ row = [type |-> "builtin", enabled |-> TRUE, query |-> Edited, version |-> Pseudo,
                       retired |-> FALSE, origin |-> None]
             /\ recorded = [v \in {1, Pseudo} |-> IF v = 1 THEN file.query ELSE Edited]
    <2>1. row \in Row /\ row.version = Pseudo /\ row.origin = None /\ row.type = "builtin"
      BY <1>7 DEF Row, Versions, Queries
    <2>2. row # None
      BY <2>1, RuleVersionsAssumption
    <2>3. /\ DOMAIN recorded = {1, Pseudo} /\ Pseudo # 1 /\ None \notin {1, Pseudo, Edited}
          /\ recorded[1] = Fetched(1) /\ recorded[Pseudo] = Edited
      BY <1>1, <1>2, <1>7, RuleVersionsAssumption
    <2>4. Listed
      BY <1>2, <2>3 DEF Listed, Versions, Queries
    <2>5. \A v \in DOMAIN recorded : recorded[v] # None /\ (v # Pseudo => AtCommit(v, recorded[v]))
      BY <1>2, <2>3 DEF AtCommit
    <2>6. aged
      BY <2>2 DEF Init
    <2> QED BY <1>3, <1>4, <2>1, <2>4, <2>5, <2>6 DEF IInv, Kinds, Recorded, Young, Unversioned
  <1> QED BY <1>5, <1>6, <1>7 DEF Init

LEMMA PlannedHolds ==
    ASSUME Authored, Planned, Listed, Kinds, [Next]_vars
    PROVE  Planned'
  <1>1. ASSUME NEW release \in releases, BeginStart(release) PROVE Planned'
    <2>1. EntryOK(Shipped(release))
      BY <1>1, ShippedOK
    <2>2. starting' = [release |-> release, plan |-> Plan(release), alone |-> TRUE]
      BY <1>1 DEF BeginStart
    <2>3. Plan(release)' = Plan(release) /\ Shipped(release)' = Shipped(release)
      BY <1>1 DEF BeginStart, author, Plan, PlanShipped, PlanDropped, Shipped, GraphTuned, LacksGraph,
                  NeedsQueryCorrection, Moves, Unversioned
    <2>4. Shipped(release) = None => Plan(release) \cap Shipping = {}
      BY WhenDropped
    <2>5. MakesCustom(Plan(release)) => Plan(release) \cap Numbering = {}
      BY <2>1, CustomUnnumbered
    <2>6. releases' = releases /\ row' = row
      BY <1>1 DEF BeginStart, author
    <2> QED BY <2>2, <2>3, <2>4, <2>5, <2>6 DEF Planned, MakesCustom, Shipped
  <1>2. CASE EndStart
    BY <1>2 DEF EndStart, Planned
  <1>3. CASE Author
    BY <1>3 DEF Author, Sync, CorrectTransform, Release, install, Planned
  <1>4. CASE Admin
    <2>1. /\ UNCHANGED <<author, db>> /\ Touched /\ (db = "sqlite" => starting = None)
          /\ row # None /\ (row' = None \/ row'.type = row.type)
      BY <1>4, AdminSteps
    <2>2. CASE starting = None
      BY <2>1, <2>2 DEF Touched, Planned
    <2>3. CASE starting # None
      <3>1. /\ starting'.release = starting.release /\ starting'.plan = starting.plan /\ ~starting'.alone
            /\ starting' = [release |-> starting'.release, plan |-> starting'.plan, alone |-> starting'.alone]
        BY <2>1, <2>3 DEF Touched, Planned
      <3>2. MakesCustom(starting.plan)' => MakesCustom(starting.plan)
        BY <2>1, <3>1 DEF MakesCustom
      <3> QED BY <2>1, <2>3, <3>1, <3>2 DEF Planned, author, Shipped
    <2> QED BY <2>2, <2>3
  <1>5. CASE UNCHANGED vars
    BY <1>5 DEF vars, author, install, Planned, Plan, PlanShipped, PlanDropped, Shipped, GraphTuned, LacksGraph,
                NeedsQueryCorrection, Moves, Unversioned, MakesCustom
  <1> QED BY <1>1, <1>2, <1>3, <1>4, <1>5 DEF Next, Admin, Author

\* A version that is recorded, a second time.
RecordedRight == \A v \in DOMAIN recorded : recorded[v] # None /\ (v # Pseudo => AtCommit(v, recorded[v]))

\* A row with a version runs what is recorded for it.
RowRight ==
    row # None =>
        /\ row.origin # None => row.type = "custom"
        /\ ~Unversioned(row) =>
              /\ row.version \in DOMAIN recorded /\ row.query # None
              /\ recorded[row.version] = row.query \/ Excused(row.version)

RanRight == \A v \in DOMAIN ran : v \in 1..Commits /\ (GoesBack(v) \/ Excused(v))

\* The four facts a start on SQLite has to leave: the records, the row, what an earlier
\* version was recorded with, and a young row's.
LEMMA SqliteStart ==
    ASSUME IInv, EndStart, db = "sqlite", UNCHANGED <<source, aged>>
    PROVE  /\ RecordedRight' /\ RowRight'
           /\ \A v \in DOMAIN recorded \ {Pseudo} :
                 /\ v \in DOMAIN recorded'
                 /\ \/ recorded'[v] = recorded[v]
                    \/ /\ row' # None /\ row'.type = "builtin"
                       /\ ~Unversioned(row') /\ row'.version = v
           /\ ~aged =>
                 /\ Pseudo \notin DOMAIN recorded'
                 /\ row' = None => row = None /\ DOMAIN recorded' = DOMAIN recorded
                 /\ row' # None => row'.type = "builtin" /\ ~Unversioned(row')
  <1>1. starting.alone
    BY DEF IInv, Planned, EndStart
  <1>2. PICK release : release = starting.release
    OBVIOUS
  <1>3. /\ row' = NewRow(release) /\ recorded' = NewRecorded(release) /\ release \in releases
    BY <1>1, <1>2, EndsAsPlanned DEF IInv
  <1> DEFINE e == Shipped(release)
  <1>4. EntryOK(e)
    BY <1>3, ShippedOK DEF IInv
  <1>5. Kinds'
    BY EndsTyped DEF IInv
  <1>6. \A v, q : AtCommit(v, q)' <=> AtCommit(v, q)
    BY DEF AtCommit, Aprl
  <1>7. \A v : Excused(v)' <=> Excused(v)
    BY DEF Excused, Aprl
  <1>8. RecordedRight /\ RowRight /\ Kinds
    BY DEF IInv, Recorded, RecordedRight, RowRight
  <1>9. ~aged => /\ Pseudo \notin DOMAIN recorded
                 /\ row = None => DOMAIN recorded = {}
                 /\ row # None => row.type = "builtin" /\ ~Unversioned(row)
    BY DEF IInv, Young
  <1>10. row # None => row' # None
    BY EndsTyped DEF IInv
  \* The records kept as they are, less the pseudo-version.
  <1>11. ASSUME NewRecorded(release) = [v \in DOMAIN recorded \ {Pseudo} |-> recorded[v]]
         PROVE  /\ RecordedRight'
                /\ \A v \in DOMAIN recorded \ {Pseudo} : v \in DOMAIN recorded' /\ recorded'[v] = recorded[v]
                /\ ~aged => Pseudo \notin DOMAIN recorded' /\ DOMAIN recorded' = DOMAIN recorded
    BY <1>3, <1>6, <1>8, <1>9, <1>11 DEF RecordedRight
  <1>12. CASE e = None
    <2>1. CASE row = None
      BY <1>3, <1>11, <1>12, <2>1, WhenDropped DEF RowRight
    <2>2. CASE row # None
      <3>1. /\ row'.type = row.type /\ row'.query = row.query /\ row'.origin = row.origin
            /\ row'.version = IF row.version = Pseudo THEN None ELSE row.version
        BY <1>3, <1>12, <2>2, WhenDropped
      <3>2. NewRecorded(release) = [v \in DOMAIN recorded \ {Pseudo} |-> recorded[v]]
        BY <1>12, WhenDropped
      <3>3. RowRight'
        BY <1>7, <1>8, <1>11, <2>2, <3>1, <3>2 DEF RowRight, Unversioned
      <3> QED BY <1>9, <1>10, <1>11, <2>2, <3>1, <3>2, <3>3 DEF Unversioned
    <2> QED BY <2>1, <2>2
  <1>13. CASE e # None /\ row = None
    <2>1. /\ row' = Inserted(e)
          /\ recorded' = [v \in (DOMAIN recorded \ {Pseudo}) \cup {e.version} |->
                             IF v \in DOMAIN recorded THEN recorded[v] ELSE e.query]
      BY <1>3, <1>4, <1>13, WhenInserted
    <2>2. AtCommit(e.version, e.query) /\ e.version # None /\ e.version # Pseudo /\ e.query # None
      BY <1>4, <1>13, OutsideVersions DEF EntryOK
    <2>3. RecordedRight'
      BY <1>6, <1>8, <2>1, <2>2 DEF RecordedRight
    <2>4. recorded'[e.version] = e.query \/ Excused(e.version)
      BY <1>8, <1>9, <1>13, <2>1, <2>2 DEF RecordedRight, AtCommit, Excused
    <2>5. /\ row'.type = "builtin" /\ row'.origin = None /\ row'.version = e.version /\ row'.query = e.query
      BY <2>1 DEF Inserted
    <2>6. row' # None
      <3>1. e.version \in Versions /\ e.query \in Queries /\ source.enabled \in BOOLEAN /\ None \in Versions
        BY <2>2, RuleVersionsAssumption DEF IInv, Authored, AtCommit, Versions, Queries
      <3>2. Inserted(e) \in Row
        <4> HIDE DEF e
        <4> QED BY <3>1 DEF Inserted, Row
      <3> QED BY <2>1, <3>2, RuleVersionsAssumption
    <2> QED BY <1>7, <1>9, <2>1, <2>2, <2>3, <2>4, <2>5, <2>6 DEF RowRight, Unversioned
  <1>14. CASE e # None /\ row # None /\ row.origin # None
    <2>1. /\ row'.type = row.type /\ row'.query = row.query /\ row'.origin = row.origin
          /\ row'.version = row.version
      BY <1>3, <1>14, WhenTheirs
    <2>2. NewRecorded(release) = [v \in DOMAIN recorded \ {Pseudo} |-> recorded[v]]
      BY <1>14, WhenTheirs
    <2>3. Unversioned(row)
      BY <1>8, <1>14 DEF RowRight, Kinds, Unversioned
    <2> QED BY <1>8, <1>9, <1>10, <1>11, <1>14, <2>1, <2>2, <2>3 DEF RowRight, Unversioned
  <1>15. CASE e # None /\ row # None /\ row.origin = None /\ GraphTuned(row, e)
    <2>1. row'.type = "custom" /\ row'.version = None
      BY <1>3, <1>15, WhenTuned
    <2>2. NewRecorded(release) = [v \in DOMAIN recorded \ {Pseudo} |-> recorded[v]]
      BY <1>15, WhenTuned
    <2>3. aged
      BY <1>9, <1>15 DEF GraphTuned, Unversioned
    <2> QED BY <1>10, <1>11, <1>15, <2>1, <2>2, <2>3 DEF RowRight, Unversioned
  <1>16. CASE e # None /\ row # None /\ Followed(e)
    <2> DEFINE corrects == ~Unversioned(row) /\ ~Moves(row, e) /\ NeedsQueryCorrection(row, e)
    <2>1. /\ row'.type = "builtin" /\ row'.origin = None
          /\ row'.version = IF Takes(e) THEN e.version ELSE row.version
          /\ row'.query = IF Takes(e) \/ LacksGraph(row) THEN e.query ELSE row.query
      BY <1>3, <1>4, <1>16, WhenFollowed
    <2>2. recorded' = [v \in (DOMAIN recorded \ {Pseudo}) \cup {e.version} |->
                         IF v \notin DOMAIN recorded THEN e.query
                         ELSE IF v = e.version /\ corrects THEN e.query ELSE recorded[v]]
      BY <1>3, <1>4, <1>16, WhenFollowed
    <2>3. /\ AtCommit(e.version, e.query) /\ e.version # None /\ e.version # Pseudo /\ e.query # None
          /\ e.version \in Nat
      BY <1>4, <1>16, OutsideVersions DEF EntryOK
    <2> HIDE DEF corrects
    <2>4. RecordedRight'
      BY <1>6, <1>8, <2>2, <2>3 DEF RecordedRight
    <2>5. corrects => Takes(e) /\ e.version = row.version
      BY DEF corrects, Takes, NeedsQueryCorrection
    <2>6. ~Unversioned(row) => /\ row.version \in DOMAIN recorded /\ row.query # None /\ ~LacksGraph(row)
                               /\ row.version # Pseudo /\ row.version # None
                               /\ recorded[row.version] = row.query \/ Excused(row.version)
      BY <1>8, <1>16 DEF RowRight, LacksGraph, Unversioned
    <2>7. CASE Takes(e)
      <3>1. recorded'[e.version] = e.query \/ Excused(e.version)
        <4>1. CASE aged \/ ~Aprl \/ e.version # Corrected
          BY <1>8, <2>2, <2>3, <4>1 DEF RecordedRight, AtCommit, Excused
        <4>2. CASE ~aged /\ Aprl /\ e.version = Corrected
          <5>1. ~Unversioned(row) /\ row.version \in 1..Commits
            BY <1>8, <1>9, <1>16, <2>6, <4>2 DEF RecordedRight, AtCommit
          <5>2. ~Moves(row, e)
            BY <4>2, <5>1, Corrected1 DEF Moves, Corrected
          <5>3. corrects
            BY <2>7, <5>1, <5>2 DEF Takes, corrects
          <5> QED BY <2>2, <2>3, <5>3
        <4> QED BY <4>1, <4>2
      <3> QED BY <1>7, <1>9, <1>10, <1>16, <2>1, <2>2, <2>3, <2>4, <2>5, <2>7, <3>1 DEF RowRight, Unversioned
    <2>8. CASE ~Takes(e)
      <3>1. ~Unversioned(row) /\ ~corrects
        BY <2>5, <2>8 DEF Takes
      <3>2. row'.version = row.version /\ row'.query = row.query
        BY <2>1, <2>6, <2>8, <3>1
      <3>3. \A v \in DOMAIN recorded \ {Pseudo} : v \in DOMAIN recorded' /\ recorded'[v] = recorded[v]
        BY <2>2, <3>1
      <3> QED BY <1>7, <1>9, <1>10, <1>16, <2>1, <2>2, <2>3, <2>4, <2>6, <3>1, <3>2, <3>3
              DEF RowRight, Unversioned
    <2> QED BY <2>7, <2>8
  <1> QED BY <1>12, <1>13, <1>14, <1>15, <1>16 DEF Followed

\* What neither a start nor an Admin touches.
Kept == UNCHANGED <<source, db, aged, row, recorded, ran>>

LEMMA KeptHolds ==
    ASSUME Recorded, Young, Kinds, Listed, Kept
    PROVE  Recorded' /\ Young' /\ Kinds' /\ Listed'
  BY DEF Kept, Recorded, Young, Kinds, Listed, AtCommit, Aprl, Excused, GoesBack, Unversioned

LEMMA AdminHolds ==
    ASSUME IInv, Admin
    PROVE  Listed' /\ Kinds' /\ Recorded' /\ Young'
  <1>1. /\ UNCHANGED <<source, db, recorded, aged>> /\ row # None
        /\ \/ row' = None /\ row.type = "custom"
           \/ row' \in Row /\ row'.type = row.type /\ row'.origin = row.origin
        /\ \/ row' = None /\ ran' = ran
           \/ row'.version = row.version /\ ran' = ran
                /\ (row.type = "builtin" => row'.query = row.query)
           \/ /\ row.type = "builtin" /\ row'.version \in DOMAIN recorded
              /\ row'.query = recorded[row'.version] /\ ran' = Ran(row')
    BY AdminSteps DEF IInv, author
  <1>2. row' # None => row' \in Row
    BY <1>1
  <1>3. /\ Listed /\ Kinds /\ Recorded /\ Young
        /\ \A v, q : AtCommit(v, q)' <=> AtCommit(v, q)
        /\ \A v : Excused(v)' <=> Excused(v)
    BY <1>1 DEF IInv, AtCommit, Aprl, Excused
  <1>4. row \in Row /\ (row.type = "custom" => row.version = None)
    BY <1>1, <1>3 DEF Kinds
  <1>5. Listed'
    BY <1>1, <1>3 DEF Listed
  <1>6. Kinds'
    BY <1>1, <1>2, <1>4 DEF Kinds, Row
  <1>7. CASE row' = None
    <2>1. ran' = ran /\ row.type = "custom"
      BY <1>1, <1>2, <1>4, <1>7, RuleVersionsAssumption
    <2>2. Recorded'
      BY <1>1, <1>3, <1>7, <2>1 DEF Recorded, GoesBack
    <2>3. Young'
      BY <1>1, <1>3, <1>7, <2>1 DEF Young
    <2> QED BY <1>5, <1>6, <2>2, <2>3
  <1>8. CASE row' # None /\ row'.version = row.version /\ ran' = ran
               /\ (row.type = "builtin" => row'.query = row.query)
    <2>1. ~Unversioned(row') => row.type = "builtin" /\ ~Unversioned(row)
      BY <1>1, <1>4, <1>8 DEF Unversioned, Row
    <2> QED BY <1>1, <1>3, <1>5, <1>6, <1>8, <2>1 DEF Recorded, Young, GoesBack, Unversioned
  <1>9. CASE /\ row' # None /\ row.type = "builtin" /\ row'.version \in DOMAIN recorded
             /\ row'.query = recorded[row'.version] /\ ran' = Ran(row')
    <2>1. CASE Unversioned(row')
      <3>1. ran' = ran
        BY <1>9, <2>1 DEF Ran
      <3>2. aged \/ db # "sqlite"
        BY <1>1, <1>3, <1>9, <2>1 DEF Young, Listed, Unversioned
      <3> QED BY <1>1, <1>3, <1>5, <1>6, <1>9, <2>1, <3>1, <3>2 DEF Recorded, Young, GoesBack
    <2>2. CASE ~Unversioned(row')
      <3>1. ran' = [v \in DOMAIN ran \cup {row'.version} |-> IF v = row'.version THEN row'.query ELSE ran[v]]
        BY <1>1, <1>9, <2>2 DEF Ran
      <3>2. db = "sqlite" => row'.version \in 1..Commits /\ row'.query # None
        BY <1>3, <1>9, <2>2 DEF Recorded, AtCommit, Unversioned
      <3> QED BY <1>1, <1>3, <1>5, <1>6, <1>9, <2>2, <3>1, <3>2 DEF Recorded, Young, GoesBack
    <2> QED BY <2>1, <2>2
  <1> QED BY <1>1, <1>5, <1>6, <1>7, <1>8, <1>9

LEMMA EndHolds ==
    ASSUME IInv, EndStart
    PROVE  Listed' /\ Kinds' /\ Recorded' /\ Young'
  <1>1. Listed' /\ Kinds'
    BY EndsTyped DEF IInv
  <1>2. UNCHANGED <<source, db, aged>> /\ ran' = Ran(row')
    BY DEF EndStart, author
  <1>3. CASE db # "sqlite"
    BY <1>1, <1>2, <1>3 DEF Recorded, Young
  <1>4. CASE db = "sqlite"
    <2>1. /\ RecordedRight' /\ RowRight'
          /\ \A v \in DOMAIN recorded \ {Pseudo} :
                /\ v \in DOMAIN recorded'
                /\ \/ recorded'[v] = recorded[v]
                   \/ /\ row' # None /\ row'.type = "builtin"
                      /\ ~Unversioned(row') /\ row'.version = v
          /\ ~aged =>
                /\ Pseudo \notin DOMAIN recorded'
                /\ row' = None => row = None /\ DOMAIN recorded' = DOMAIN recorded
                /\ row' # None => row'.type = "builtin" /\ ~Unversioned(row')
      BY <1>2, <1>4, SqliteStart
    <2>2. RanRight /\ (~aged /\ row = None => DOMAIN recorded = {} /\ DOMAIN ran = {})
      BY <1>4 DEF IInv, Recorded, RanRight, Young
    <2>3. \A v : Excused(v)' <=> Excused(v)
      BY <1>2 DEF Excused, Aprl
    <2>4. \A v \in DOMAIN ran : v \in DOMAIN recorded \ {Pseudo} \/ Excused(v)
      BY <2>2, RuleVersionsAssumption DEF RanRight, GoesBack
    <2>5. RanRight'
      <3>1. CASE row' # None /\ row'.type = "builtin" /\ ~Unversioned(row')
        <4>1. ran' = [v \in DOMAIN ran \cup {row'.version} |->
                         IF v = row'.version THEN row'.query ELSE ran[v]]
          BY <1>2, <3>1 DEF Ran
        <4>2. /\ row'.version \in DOMAIN recorded' /\ row'.version \in 1..Commits
              /\ recorded'[row'.version] = row'.query \/ Excused(row'.version)
          BY <2>1, <2>3, <3>1 DEF RowRight, RecordedRight, AtCommit, Unversioned
        <4>3. ASSUME NEW v \in DOMAIN ran, v # row'.version PROVE GoesBack(v)' \/ Excused(v)
          BY <2>1, <2>2, <2>4, <4>1, <4>3 DEF RanRight, GoesBack
        <4> QED BY <2>2, <2>3, <4>1, <4>2, <4>3 DEF RanRight, GoesBack
      <3>2. CASE ~(row' # None /\ row'.type = "builtin" /\ ~Unversioned(row'))
        <4>1. ran' = ran
          BY <1>2, <3>2 DEF Ran
        <4> QED BY <2>1, <2>2, <2>3, <2>4, <3>2, <4>1 DEF RanRight, GoesBack
      <3> QED BY <3>1, <3>2
    <2>6. Recorded'
      BY <2>1, <2>5 DEF Recorded, RecordedRight, RowRight, RanRight
    <2>7. Young'
      <3>1. row' = None => ran' = ran
        BY <1>2 DEF Ran
      <3> QED BY <1>2, <2>1, <2>2, <3>1 DEF Young
    <2> QED BY <1>1, <2>6, <2>7
  <1> QED BY <1>3, <1>4

LEMMA Inductive ==
    ASSUME IInv, [Next]_vars
    PROVE  IInv'
  <1>1. Authored' /\ Planned'
    BY AuthoredHolds, PlannedHolds DEF IInv
  <1>2. CASE Kept
    BY <1>1, <1>2, KeptHolds DEF IInv
  <1>3. CASE Admin
    BY <1>1, <1>3, AdminHolds DEF IInv
  <1>4. CASE EndStart
    BY <1>1, <1>4, EndHolds DEF IInv
  <1>5. ASSUME NEW commit \in 1..Commits, Sync(commit) PROVE Kept
    BY <1>5 DEF Sync, Kept, install
  <1>6. CorrectTransform \/ Release => Kept
    BY DEF CorrectTransform, Release, Kept, install
  <1>7. ASSUME NEW release \in releases, BeginStart(release) PROVE Kept
    BY <1>7 DEF BeginStart, Kept, author
  <1>8. UNCHANGED vars => Kept
    BY DEF vars, author, install, Kept
  <1> QED BY <1>2, <1>3, <1>4, <1>5, <1>6, <1>7, <1>8 DEF Next, Admin

LEMMA Invariant == Spec => []IInv
  <1>1. Init => IInv
    BY InitHolds
  <1>2. IInv /\ [Next]_vars => IInv'
    BY Inductive
  <1> QED BY <1>1, <1>2, PTL DEF Spec

\* The queries it ran are typed too.
LEMMA RanTyped ==
    ASSUME NEW r, r # None => r \in Row, ran' = Ran(r),
           DOMAIN ran \subseteq 1..Commits, \A v \in DOMAIN ran : ran[v] \in Queries
    PROVE  DOMAIN ran' \subseteq 1..Commits /\ \A v \in DOMAIN ran' : ran'[v] \in Queries
  <1>1. CASE r # None /\ r.type = "builtin" /\ ~Unversioned(r)
    <2>1. ran' = [v \in DOMAIN ran \cup {r.version} |-> IF v = r.version THEN r.query ELSE ran[v]]
      BY <1>1 DEF Ran
    <2>2. r.version \in 1..Commits /\ r.query \in Queries
      BY <1>1 DEF Row, Versions, Unversioned
    <2> QED BY <2>1, <2>2
  <1>2. CASE ~(r # None /\ r.type = "builtin" /\ ~Unversioned(r))
    BY <1>2 DEF Ran
  <1> QED BY <1>1, <1>2

LEMMA TypeInductive ==
    ASSUME IInv, TypeOK, [Next]_vars
    PROVE  TypeOK'
  <1>1. IInv'
    BY Inductive
  <1>2. /\ source' = source => source' \in Sources
        /\ row' \in Row \cup {None}
        /\ DOMAIN recorded' \subseteq Versions /\ \A v \in DOMAIN recorded' : recorded'[v] \in Queries
    BY <1>1 DEF IInv, Kinds, Listed, TypeOK
  <1>3. ASSUME NEW commit \in 1..Commits, Sync(commit) PROVE TypeOK'
    <2>1. Fetched(commit) # None => [version |-> commit, query |-> Fetched(commit)] \in Entry
      BY DEF TypeOK, Fetched, Entry, Queries
    <2>2. Versioned(file, Fetched(commit), commit) \in Entry \cup {None}
      <3>1. CASE Fetched(commit) = None
        BY <3>1 DEF Versioned, IInv, Authored, EntryOK, AtCommit
      <3>2. CASE Fetched(commit) # None /\ file # None /\ file.query = Fetched(commit)
        BY <3>2 DEF Versioned, TypeOK
      <3>3. CASE Fetched(commit) # None /\ ~(file # None /\ file.query = Fetched(commit))
        BY <2>1, <3>3 DEF Versioned
      <3> QED BY <3>1, <3>2, <3>3
    <2> QED BY <1>3, <2>2 DEF Sync, TypeOK, install
  <1>4. CASE CorrectTransform
    <2>1. [version |-> pinned, query |-> source.history[pinned]] \in Entry
      BY DEF TypeOK, Entry, Queries
    <2> QED BY <1>4, <2>1 DEF CorrectTransform, TypeOK, install
  <1>5. CASE Release
    <2>1. PICK readable \in {TRUE, Core} :
             releases' = releases \cup {[entry |-> file, readable |-> readable]}
      BY <1>5 DEF Release
    <2>2. releases' \subseteq [entry : Entry \cup {None}, readable : BOOLEAN]
      <3>1. readable \in BOOLEAN
        BY <2>1 DEF Core
      <3>2. [entry |-> file, readable |-> readable] \in [entry : Entry \cup {None}, readable : BOOLEAN]
        BY <3>1 DEF TypeOK
      <3> QED BY <2>1, <3>2 DEF TypeOK
    <2> QED BY <1>5, <2>1, <2>2 DEF Release, TypeOK, install
  <1>6. ASSUME NEW release \in releases, BeginStart(release) PROVE TypeOK'
    BY <1>6 DEF BeginStart, TypeOK, author
  <1>7. CASE EndStart
    <2>1. DOMAIN ran' \subseteq 1..Commits /\ \A v \in DOMAIN ran' : ran'[v] \in Queries
      BY <1>2, <1>7, RanTyped DEF EndStart, TypeOK
    <2>2. UNCHANGED <<author, db, aged>> /\ starting' = None /\ serving' = TRUE
          /\ started' \in releases \cup {None} /\ copy' \in Versions
      BY <1>7 DEF EndStart, TypeOK, Versions
    <2> QED BY <1>2, <2>1, <2>2 DEF TypeOK, author
  <1>8. CASE Admin
    <2>1. /\ UNCHANGED <<author, db, serving, aged>> /\ Touched
          /\ ran' = ran \/ ran' = Ran(row')
      BY <1>8, AdminSteps DEF IInv
    <2>2. DOMAIN ran' \subseteq 1..Commits /\ \A v \in DOMAIN ran' : ran'[v] \in Queries
      BY <1>2, <2>1, RanTyped DEF TypeOK
    <2>3. copy' \in Versions
      BY <1>8 DEF Admin, Switch, Toggle, Duplicate, Edit, Delete, Served, TypeOK, Row
    <2>4. started' = None /\ (starting' # None => starting'.release \in releases /\ starting'.alone \in BOOLEAN)
      BY <2>1 DEF Touched, IInv, Planned
    <2> QED BY <1>2, <2>1, <2>2, <2>3, <2>4 DEF TypeOK, author
  <1>9. CASE UNCHANGED vars
    BY <1>9 DEF vars, author, install, TypeOK
  <1> QED BY <1>3, <1>4, <1>5, <1>6, <1>7, <1>8, <1>9 DEF Next, Admin

\* Every variable of RuleVersions keeps its type: the pack's file and the releases made
\* of it, the row and what is recorded for it, and a start under way.
THEOREM TypeCorrect == Spec => []TypeOK
  <1>1. Init => TypeOK
    <2> SUFFICES ASSUME Init PROVE TypeOK
      OBVIOUS
    <2>1. IInv
      BY InitHolds
    <2>2. /\ source \in Sources /\ pinned \in 1..Commits /\ file = [version |-> 1, query |-> Fetched(1)]
          /\ mistaken \in BOOLEAN /\ aged \in BOOLEAN /\ serving \in BOOLEAN /\ db \in Databases
          /\ starting = None /\ started = None /\ ran = <<>> /\ releases = {}
      BY <2>1 DEF Init, IInv, Authored
    <2>3. file \in Entry
      <3>1. Fetched(1) \in Queries /\ 1 \in 1..Commits
        BY <2>2, RuleVersionsAssumption DEF Fetched, Queries
      <3> QED BY <2>2, <3>1 DEF Entry
    <2>4. copy \in Versions
      BY DEF Init, Versions
    <2>5. DOMAIN ran = {}
      BY <2>2
    <2> QED BY <2>1, <2>2, <2>3, <2>4, <2>5 DEF TypeOK, IInv, Kinds, Listed
  <1>2. IInv /\ TypeOK /\ [Next]_vars => TypeOK'
    BY TypeInductive
  <1> QED BY <1>1, <1>2, Invariant, PTL DEF Spec

\* Going back to a version runs what it ran: on SQLite the query a rule last ran under a
\* version is what is recorded for it (switchRuleVersion, planRuleSeeding), but for the
\* corrected version of a row that dates from before rules had versions.
THEOREM GoingBackRunsTheSame == Spec => []GoingBack
  <1>1. IInv => GoingBack
    BY DEF IInv, Recorded, GoingBack, Excused, Aprl
  <1> QED BY <1>1, Invariant, PTL

-----------------------------------------------------------------------------
(* A second start plans nothing. *)

LEMMA NothingToDo ==
    ASSUME NEW release, copy' # Pseudo, Pseudo \notin DOMAIN recorded',
           \/ row' = None /\ Shipped(release)' = None
           \/ /\ row' # None /\ Shipped(release)' = None /\ row'.version # Pseudo
              /\ row'.type = "builtin" /\ row'.origin = None /\ release.readable => row'.retired
           \/ row' # None /\ Shipped(release)' # None /\ row'.origin # None
           \/ /\ row' # None /\ Shipped(release)' # None /\ row'.origin = None
              /\ row'.type = "builtin" /\ ~row'.retired
              /\ Shipped(release)'.version \in DOMAIN recorded'
              /\ ~Unversioned(row)' /\ ~LacksGraph(row)'
              /\ ~Moves(row, Shipped(release))' /\ ~NeedsQueryCorrection(row, Shipped(release))'
    PROVE  Plan(release)' = {}
  <1>1. /\ When(copy = Pseudo, "clear-origin-version")' = {}
        /\ When(Pseudo \in DOMAIN recorded, "delete-recorded")' = {}
    BY DEF When
  <1>2. CASE row' = None /\ Shipped(release)' = None
    BY <1>1, <1>2 DEF Plan
  <1>3. CASE /\ row' # None /\ Shipped(release)' = None /\ row'.version # Pseudo
             /\ row'.type = "builtin" /\ row'.origin = None /\ release.readable => row'.retired
    <2>1. PlanDropped(row', release) = {}
      BY <1>3 DEF PlanDropped, When
    <2> QED BY <1>1, <1>3, <2>1 DEF Plan
  <1>4. CASE row' # None /\ Shipped(release)' # None /\ row'.origin # None
    <2>1. PlanShipped(row, Shipped(release))' = {}
      BY <1>4 DEF PlanShipped
    <2> QED BY <1>1, <1>4, <2>1 DEF Plan
  <1>5. CASE /\ row' # None /\ Shipped(release)' # None /\ row'.origin = None
             /\ row'.type = "builtin" /\ ~row'.retired
             /\ Shipped(release)'.version \in DOMAIN recorded'
             /\ ~Unversioned(row)' /\ ~LacksGraph(row)'
             /\ ~Moves(row, Shipped(release))' /\ ~NeedsQueryCorrection(row, Shipped(release))'
    <2>1. ~GraphTuned(row, Shipped(release))'
      BY <1>5 DEF GraphTuned, Unversioned
    <2>2. PlanShipped(row, Shipped(release))' = {}
      <3>1. /\ When(row.type # "builtin", "adopt")' = {} /\ When(LacksGraph(row), "backfill")' = {}
            /\ When(Shipped(release).version \notin DOMAIN recorded, "record")' = {}
            /\ When(row.retired, "unretire")' = {}
        BY <1>5 DEF When
      <3> QED BY <1>5, <2>1, <3>1 DEF PlanShipped
    <2> QED BY <1>1, <1>5, <2>2 DEF Plan
  <1> QED BY <1>2, <1>3, <1>4, <1>5

\* After a start with nobody else acting, there is nothing left to plan.
LEMMA StartSettles ==
    ASSUME IInv, EndStart, starting.alone, NEW release, release = starting.release
    PROVE  Plan(release)' = {}
  <1> DEFINE e == Shipped(release)
  <1>1. /\ row' = NewRow(release) /\ recorded' = NewRecorded(release)
        /\ starting.plan = Plan(release) /\ release \in releases
    BY EndsAsPlanned DEF IInv
  <1>2. EntryOK(e)
    BY <1>1, ShippedOK DEF IInv
  <1>3. Shipped(release)' = e /\ source' = source
    BY DEF EndStart, author, Shipped
  <1>4. copy' # Pseudo
    <2>1. copy = Pseudo => "clear-origin-version" \in Plan(release)
      BY DEF Plan, When
    <2> QED BY <1>1, <2>1, RuleVersionsAssumption DEF EndStart
  <1>5. Kinds /\ Kinds' /\ (row # None => row' # None)
    BY EndsTyped DEF IInv
  <1>6. CASE e = None
    <2>1. Pseudo \notin DOMAIN recorded'
      BY <1>1, <1>6, WhenDropped
    <2>2. CASE row = None
      BY <1>1, <1>3, <1>4, <1>6, <2>1, <2>2, WhenDropped, NothingToDo
    <2>3. CASE row # None
      <3>1. /\ row'.type = row.type /\ row'.origin = row.origin
            /\ row'.version = IF row.version = Pseudo THEN None ELSE row.version
            /\ row.type = "builtin" /\ row.origin = None /\ release.readable => row'.retired
        BY <1>1, <1>6, <2>3, WhenDropped
      <3>2. row'.version # Pseudo
        BY <3>1, RuleVersionsAssumption
      <3> QED BY <1>3, <1>4, <1>5, <1>6, <2>1, <2>3, <3>1, <3>2, NothingToDo
    <2> QED BY <2>2, <2>3
  <1>7. ASSUME e # None
        PROVE  /\ AtCommit(e.version, e.query) /\ e.version # None /\ e.version # Pseudo
               /\ e.query # None /\ e.version \in Nat
    BY <1>2, <1>7, OutsideVersions DEF EntryOK
  <1>8. CASE e # None /\ row = None
    <2>1. /\ row' = Inserted(e)
          /\ recorded' = [v \in (DOMAIN recorded \ {Pseudo}) \cup {e.version} |->
                             IF v \in DOMAIN recorded THEN recorded[v] ELSE e.query]
      BY <1>1, <1>2, <1>8, WhenInserted
    <2>2. row' # None
      <3>1. e.version \in Versions /\ e.query \in Queries /\ source.enabled \in BOOLEAN /\ None \in Versions
        BY <1>7, <1>8, RuleVersionsAssumption DEF IInv, Authored, AtCommit, Versions, Queries
      <3>2. Inserted(e) \in Row
        <4> HIDE DEF e
        <4> QED BY <3>1 DEF Inserted, Row
      <3> QED BY <2>1, <3>2, RuleVersionsAssumption
    <2>3. /\ row'.type = "builtin" /\ row'.origin = None /\ row'.version = e.version
          /\ row'.query = e.query /\ ~row'.retired
      BY <2>1 DEF Inserted
    <2>4. /\ ~Unversioned(row)' /\ ~LacksGraph(row)'
          /\ ~Moves(row, Shipped(release))' /\ ~NeedsQueryCorrection(row, Shipped(release))'
      BY <1>3, <1>7, <1>8, <2>3 DEF Unversioned, LacksGraph, Moves, NeedsQueryCorrection
    <2> HIDE DEF e
    <2>5. e.version \in DOMAIN recorded' /\ Pseudo \notin DOMAIN recorded'
      BY <1>7, <1>8, <2>1
    <2> QED BY <1>3, <1>4, <1>8, <2>2, <2>3, <2>4, <2>5, NothingToDo
  <1>9. CASE e # None /\ row # None /\ row.origin # None
    BY <1>1, <1>3, <1>4, <1>5, <1>9, WhenTheirs, NothingToDo
  <1>10. CASE e # None /\ row # None /\ row.origin = None /\ GraphTuned(row, e)
    <2>1. row'.origin # None /\ Pseudo \notin DOMAIN recorded'
      BY <1>1, <1>7, <1>10, WhenTuned
    <2> QED BY <1>3, <1>4, <1>5, <1>10, <2>1, NothingToDo
  <1>11. CASE e # None /\ row # None /\ Followed(e)
    <2>1. /\ row'.type = "builtin" /\ row'.origin = None /\ ~row'.retired
          /\ row'.enabled = row.enabled
          /\ row'.version = IF Takes(e) THEN e.version ELSE row.version
          /\ row'.query = IF Takes(e) \/ LacksGraph(row) THEN e.query ELSE row.query
      BY <1>1, <1>2, <1>11, WhenFollowed
    <2>2. DOMAIN recorded' = (DOMAIN recorded \ {Pseudo}) \cup {e.version}
      BY <1>1, <1>2, <1>11, WhenFollowed
    <2>3. CASE Takes(e)
      <3>1. /\ ~Unversioned(row)' /\ ~LacksGraph(row)'
            /\ ~Moves(row, Shipped(release))' /\ ~NeedsQueryCorrection(row, Shipped(release))'
        BY <1>3, <1>7, <1>11, <2>1, <2>3 DEF Unversioned, LacksGraph, Moves, NeedsQueryCorrection
      <3> QED BY <1>3, <1>4, <1>5, <1>7, <1>11, <2>1, <2>2, <3>1, NothingToDo
    <2>4. CASE ~Takes(e)
      <3>1. row.type = "builtin"
        BY <1>5, <1>11, <2>4 DEF Kinds, Row, Takes, Unversioned
      <3>2. /\ ~Unversioned(row)' /\ ~LacksGraph(row)'
            /\ ~Moves(row, Shipped(release))' /\ ~NeedsQueryCorrection(row, Shipped(release))'
        BY <1>3, <1>7, <1>11, <2>1, <2>4, <3>1
           DEF Takes, Unversioned, LacksGraph, Moves, NeedsQueryCorrection
      <3> QED BY <1>3, <1>4, <1>5, <1>7, <1>11, <2>1, <2>2, <3>2, NothingToDo
    <2> QED BY <2>3, <2>4
  <1> QED BY <1>6, <1>8, <1>9, <1>10, <1>11 DEF Followed

\* A second start of one catalogue with nothing changed in between plans nothing
\* (planRuleSeeding), on either database.
THEOREM SecondStartPlansNothing == Spec => []Settles
  <1>1. Init => Settles
    BY DEF Init, Settles
  <1>2. ASSUME IInv, Settles, [Next]_vars PROVE Settles'
    <2>1. CASE EndStart
      <3>1. CASE starting.alone
        <4>1. PICK release : release = starting.release
          OBVIOUS
        <4>2. started' = release
          BY <2>1, <3>1, <4>1 DEF EndStart
        <4>3. Plan(release)' = {}
          BY <1>2, <2>1, <3>1, <4>1, StartSettles
        <4> QED BY <4>2, <4>3 DEF Settles
      <3>2. CASE ~starting.alone
        BY <2>1, <3>2 DEF EndStart, Settles
      <3> QED BY <3>1, <3>2
    <2>2. CASE Admin
      BY <1>2, <2>2, AdminSteps DEF IInv, Touched, Settles
    <2>3. CASE \E release \in releases : BeginStart(release)
      BY <2>3 DEF BeginStart, Settles
    <2>4. CASE Author \/ UNCHANGED vars
      <3>1. UNCHANGED <<source, row, copy, recorded, started>>
        BY <2>4 DEF Author, Sync, CorrectTransform, Release, install, vars, author
      <3>2. Plan(started)' = Plan(started)
        BY <3>1 DEF Plan, PlanShipped, PlanDropped, Shipped, GraphTuned, LacksGraph,
                    NeedsQueryCorrection, Moves, Unversioned
      <3> QED BY <1>2, <3>1, <3>2 DEF Settles
    <2> QED BY <1>2, <2>1, <2>2, <2>3, <2>4 DEF Next, Admin, Author
  <1> QED BY <1>1, <1>2, Invariant, PTL DEF Spec

\* On SQLite no start changes what an enabled shipped rule runs, nor a rule that is an
\* Admin's, but for the one correction (rule-versions.ts:13, planRuleSeeding).
THEOREM EnabledRulesStand == Spec => EnabledStands
  <1> DEFINE Stands ==
        db = "sqlite" /\ starting # None /\ starting' = None /\ row # None =>
          (((row.type = "builtin" /\ row.enabled /\ ~Unversioned(row)) \/ row.origin # None) =>
              \/ row'.query = row.query /\ row'.version = row.version
              \/ source.pack = "aprl-v2" /\ row.version = Corrected /\ row'.version = Corrected)
  <1>1. ASSUME IInv, [Next]_vars PROVE Stands \/ UNCHANGED vars
    <2> SUFFICES ASSUME db = "sqlite", starting # None, starting' = None, row # None,
                        (row.type = "builtin" /\ row.enabled /\ ~Unversioned(row)) \/ row.origin # None
                 PROVE  Stands \/ UNCHANGED vars
      OBVIOUS
    <2>1. CASE EndStart
      <3>1. PICK release : release = starting.release
        OBVIOUS
      <3>2. row' = NewRow(release) /\ release \in releases
        BY <1>1, <2>1, <3>1, EndsAsPlanned DEF IInv, Planned
      <3> DEFINE e == Shipped(release)
      <3>3. EntryOK(e)
        BY <1>1, <3>2, ShippedOK DEF IInv
      <3>4. /\ row.origin # None => Unversioned(row) /\ row.version = None
            /\ ~Unversioned(row) => row.query # None
        BY <1>1 DEF IInv, Recorded, Kinds, Unversioned
      <3>5. CASE e = None
        BY <3>2, <3>4, <3>5, WhenDropped, RuleVersionsAssumption DEF Unversioned
      <3>6. CASE e # None /\ row.origin # None
        BY <3>2, <3>6, WhenTheirs
      <3>7. CASE e # None /\ row.origin = None
        <4>1. ~GraphTuned(row, e) /\ ~LacksGraph(row) /\ ~Moves(row, e)
          BY <3>4, <3>7 DEF GraphTuned, LacksGraph, Moves, Unversioned
        <4>2. /\ row'.version = IF Takes(e) THEN e.version ELSE row.version
              /\ row'.query = IF Takes(e) THEN e.query ELSE row.query
          BY <3>2, <3>3, <3>7, <4>1, WhenFollowed DEF Followed
        <4>3. Takes(e) => source.pack = "aprl-v2" /\ row.version = Corrected /\ e.version = Corrected
          BY <3>7, <4>1 DEF Takes, NeedsQueryCorrection
        <4> QED BY <4>2, <4>3
      <3> QED BY <3>5, <3>6, <3>7
    <2>2. CASE Admin \/ Author \/ (\E release \in releases : BeginStart(release))
      BY <1>1, <2>2, AdminSteps DEF IInv, Author, Sync, CorrectTransform, Release, BeginStart, install
    <2> QED BY <1>1, <2>1, <2>2 DEF Next, Admin, Author
  <1>2. IInv /\ [Next]_vars => [Stands]_vars
    BY <1>1
  <1> QED BY <1>2, Invariant, PTL DEF Spec, EnabledStands
=============================================================================
