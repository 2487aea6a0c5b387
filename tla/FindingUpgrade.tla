---------------------------- MODULE FindingUpgrade ----------------------------
(***************************************************************************)
(* The findings half of a start: what runMigrations() (lib/db/migrate.ts)  *)
(* does after the schema to stored findings, their rows, suppressions and  *)
(* scans, the seeding of a shipped rule, and the two one-time backfills of *)
(* instrumentation.ts.  Postgres runs the same plans (lib/db/pg/           *)
(* bootstrap.ts) inside one transaction.                                   *)
(*                                                                         *)
(* One shipped rule, which an old install knows as "old" and this release  *)
(* as "new"; one resource, which Azure spells "lower" or "mixed".  A       *)
(* fingerprint is what is hashed: a rule and a spelling.  Scans are        *)
(* numbered in the order they were saved, and the rows a scan stored are   *)
(* its number.                                                             *)
(***************************************************************************)
EXTENDS SchemaUpgrade, Integers, FiniteSets, FiniteSetsExt, Functions

VARIABLES
    data,    \* the findings tables of the file
    seen,    \* what the loop of the running step has been through
    failed   \* the steps of this start that rolled back

Fp == {"old", "new"} \X {"lower", "mixed"}
Legacy(rule, res) == <<rule, res>>
Current(rule, res) == <<rule, "lower">>

FindingOrder ==
    <<"standIn", "renameRule", "remapFindings", "remapSuppressions", "remapRecords", "references",
      "rekey", "copyRows", "convert", "empty", "seed",
      "backfillCategory", "backfillFindings", "backfillSnapshots">>

FStep(s) ==
    /\ at - Len(SchemaOrder) \in DOMAIN FindingOrder
    /\ FindingOrder[at - Len(SchemaOrder)] = s
FDoes(s) == FStep(s) /\ at' = at + 1 /\ seen' = {}

Serving == Len(SchemaOrder) + Len(FindingOrder) + 1

\* A step in a transaction of its own: all of it, or a logged failure and none of it.
OwnTransaction(s, d) ==
    /\ FDoes(s)
    /\ \/ data' = d /\ UNCHANGED failed
       \/ data' = data /\ failed' = failed \cup {s}

Rekeyed(f, from, to) == [x \in (DOMAIN f \ {from}) \cup {to} |-> IF x = to THEN f[from] ELSE f[x]]
Without(f, gone) == Restrict(f, DOMAIN f \ gone)

---------------------------------------------------------------------------
(* renameRuleIds(): the fixed pairs, statement by statement *)

\* The old row holds what the user chose; a row seeded under the new id goes.
DropStandIn ==
    /\ FDoes("standIn")
    /\ data' = IF data.rules = {"old", "new"} THEN [data EXCEPT !.rules = {"old"}] ELSE data
    /\ UNCHANGED failed

RenameRule ==
    /\ FDoes("renameRule")
    /\ data' = IF "old" \in data.rules THEN [data EXCEPT !.rules = {"new"}] ELSE data
    /\ UNCHANGED failed

\* Variant: as if no fingerprint had ever been case-sensitive.
OldKeysToday(res) == {Current("old", res)}

\* What the old id would have produced for a resource, by either formula.
OldKeys(res) == {Current("old", res), Legacy("old", res)}

\* remap(): up to four statements, each swallowed when it collides.
Remapped(d, fp, res, statements) ==
    LET to == Current("new", res)
        moves == fp \in DOMAIN d.fin /\ to \notin DOMAIN d.fin
        rowsMove == moves /\ fp \in DOMAIN d.rows /\ to \notin DOMAIN d.rows
    IN IF fp \notin OldKeys(res) THEN d
       ELSE [d EXCEPT
              !.fin = IF statements >= 1 /\ moves THEN Rekeyed(@, fp, to) ELSE @,
              !.event = IF statements >= 2 /\ @ = fp THEN to ELSE @,
              !.sup = IF statements >= 3 /\ @.fp = fp THEN [@ EXCEPT !.fp = to] ELSE @,
              !.rows = IF statements >= 4 /\ rowsMove THEN Rekeyed(@, fp, to) ELSE @]

ToRemap == {fp \in DOMAIN data.fin : data.fin[fp].rule = "old"} \ seen

RemapFindings ==
    /\ \/ /\ FStep("remapFindings")
          /\ \E fp \in ToRemap :
                /\ data' = Remapped(data, fp, data.fin[fp].res, 4)
                /\ seen' = seen \cup {fp, Current("new", data.fin[fp].res)}
          /\ at' = at
       \/ FDoes("remapFindings") /\ ToRemap = {} /\ data' = data
    /\ UNCHANGED failed

RemapSuppressions ==
    /\ FDoes("remapSuppressions")
    /\ data' = Remapped(data, data.sup.fp, data.sup.res, 4)
    /\ UNCHANGED failed

Recorded(s) == [s EXCEPT !.recs = {IF fp[1] = "old" THEN Current("new", fp[2]) ELSE fp : fp \in @}]

RemapRecords ==
    /\ FDoes("remapRecords")
    /\ data' = [data EXCEPT !.scans = [i \in DOMAIN @ |-> Recorded(@[i])]]
    /\ UNCHANGED failed

\* The rule id in scan blobs, findings and the rest.
RenameReferences ==
    /\ FDoes("references")
    /\ data' = [data EXCEPT !.scans = [i \in DOMAIN @ |-> [@[i] EXCEPT !.rule = "new"]],
                            !.fin = [fp \in DOMAIN @ |-> [@[fp] EXCEPT !.rule = "new"]]]
    /\ UNCHANGED failed

---------------------------------------------------------------------------
(* planFingerprintRekey(), once *)

\* Findings under the case-sensitive formula of their own rule and resource.
Group(d, next) ==
    {fp \in DOMAIN d.fin : /\ fp = Legacy(d.fin[fp].rule, d.fin[fp].res)
                           /\ next = Current(d.fin[fp].rule, d.fin[fp].res)}

\* The most recent sighting, then the one still open.
Survivor(d, group) ==
    CHOOSE fp \in group : \A x \in group :
        \/ d.fin[fp].last > d.fin[x].last
        \/ d.fin[fp].last = d.fin[x].last /\ (d.fin[fp].open \/ ~d.fin[x].open)

Rekey1(d, next) ==
    LET group == Group(d, next)
        survivor == Survivor(d, group)
        gone == (group \cup {next}) \ {survivor}
        merged == [d.fin[survivor] EXCEPT
                     !.first = Min({d.fin[x].first : x \in group}),
                     !.times = FoldFunctionOnSet(+, 0, [x \in group |-> d.fin[x].times], group)]
        follow(fp) == IF fp \in group THEN next ELSE fp
        lone == \E r \in d.rules : Legacy(r, d.sup.res) = d.sup.fp /\ Current(r, d.sup.res) = next
    IN IF group = {} \/ (next \in DOMAIN d.fin /\ next \notin group)
       THEN IF lone THEN [d EXCEPT !.sup.fp = next] ELSE d
       ELSE [d EXCEPT
              !.fin = Put(Without(@, gone \cup {survivor}), next, merged),
              !.rows = IF survivor \in DOMAIN @ THEN Put(Without(@, gone \cup {survivor}), next, @[survivor])
                       ELSE Without(@, gone),
              !.event = follow(@),
              !.sup.fp = IF @ \notin group /\ lone THEN next ELSE follow(@),
              !.list = {follow(fp) : fp \in @}]

Rekeying(d) ==
    IF "rekeyed" \in d.marks THEN d
    ELSE LET one == Rekey1(d, Current("old", "lower"))
         IN [Rekey1(one, Current("new", "lower")) EXCEPT !.marks = @ \cup {"rekeyed"}]

RekeyFingerprintCase == OwnTransaction("rekey", Rekeying(data))

---------------------------------------------------------------------------
(* copyFindingRows(): on every start, proved by reading back *)

\* Variant: only what was never copied.
StaleUncounted(f) == ~f.counted

\* Stored or rescanned by a release that does not write the table.
Stale(f) == ~f.counted \/ f.rowsScan # f.last

CopyingRows(d) ==
    LET plan == {fp \in DOMAIN d.fin : "copied" \in d.marks => Stale(d.fin[fp])}
    IN [d EXCEPT
          !.rows = [fp \in (DOMAIN @ \cap DOMAIN d.fin) \cup plan |->
                       IF fp \in plan THEN d.fin[fp].old ELSE @[fp]],
          !.fin = [fp \in DOMAIN @ |-> IF fp \in plan
                       THEN [@[fp] EXCEPT !.counted = TRUE, !.rowsScan = d.fin[fp].last]
                       ELSE @[fp]],
          !.marks = @ \cup {"copied"}]

CopyFindingRows == OwnTransaction("copyRows", CopyingRows(data))

---------------------------------------------------------------------------
(* convertScanBlobs() and emptyScanBlobs(): one transaction for each scan *)

\* The records a scan's blob plans to, under the fingerprints of today.
Converted(s) ==
    [s EXCEPT !.has = TRUE,
              !.recs = IF s.blob = "full" THEN {Current(s.rule, s.res)} ELSE {}]

\* Variant: whatever has records already.
PendingAll(d) == DOMAIN d.scans \ seen

Pending(d) == {i \in DOMAIN d.scans : ~d.scans[i].has} \ seen

ConvertScanBlobs ==
    \/ /\ FStep("convert")
       /\ \E i \in Pending(data) :
             /\ \/ /\ data' = IF data.scans[i].blob = "bad" THEN data
                              ELSE [data EXCEPT !.scans[i] = Converted(@)]
                   /\ UNCHANGED failed
                \/ data' = data /\ failed' = failed \cup {"convert"}
             /\ seen' = seen \cup {i}
       /\ at' = at
    \/ FDoes("convert") /\ Pending(data) = {} /\ UNCHANGED <<data, failed>>

\* Variant: as soon as the records are there.
EmptyableAtOnce(d) == {i \in DOMAIN d.scans : d.scans[i].has /\ d.scans[i].blob # "empty"}

\* Only once both backfills have read the blobs.
Emptyable(d) ==
    {i \in DOMAIN d.scans : /\ {"findings", "snapshots"} \subseteq d.marks
                            /\ d.scans[i].has
                            /\ d.scans[i].blob # "empty"}

EmptyScanBlobs ==
    \/ /\ FStep("empty")
       /\ \E i \in Emptyable(data) \ seen :
             /\ \/ data' = [data EXCEPT !.scans[i].blob = "empty"] /\ UNCHANGED failed
                \/ data' = data /\ failed' = failed \cup {"empty"}
             /\ seen' = seen \cup {i}
       /\ at' = at
    \/ FDoes("empty") /\ Emptyable(data) \subseteq seen /\ UNCHANGED <<data, failed>>

---------------------------------------------------------------------------
(* Seeding and the backfills *)

\* seedRules(): the shipped rule is there after every start.
SeedRule == FDoes("seed") /\ data' = [data EXCEPT !.rules = @ \cup {"new"}] /\ UNCHANGED failed

\* A scan of this release keeps no blob: it is not what it found.
LeftOut(s) == s.blob = "empty" /\ s.recs # {}
History(d) == {i \in DOMAIN d.scans : ~LeftOut(d.scans[i])}
HasScanLeftOut(d) == \E i \in DOMAIN d.scans : LeftOut(d.scans[i])

\* Every blob parses, and no scan saved since already tells more.
MayReplay(d) == ~HasScanLeftOut(d) /\ \A i \in History(d) : d.scans[i].blob # "bad"

\* syncScanFindings() of one stored scan, under the fingerprint its blob holds.  A
\* rule that found nothing is not among those that ran, so nothing is resolved.
Replayed(d, i) ==
    LET s == d.scans[i]
        was == s.fp \in DOMAIN d.fin
        f == [rule |-> s.rule, res |-> s.res, old |-> i, counted |-> TRUE, rowsScan |-> i, last |-> i,
              first |-> IF was THEN d.fin[s.fp].first ELSE i,
              times |-> IF was THEN d.fin[s.fp].times + 1 ELSE 1, open |-> TRUE]
        closed == [fp \in DOMAIN d.fin |-> [d.fin[fp] EXCEPT !.open = @ /\ d.fin[fp].rule # s.rule]]
    IN IF s.blob # "full" THEN d
       ELSE [d EXCEPT !.fin = Put(closed, s.fp, f), !.rows = Put(@, s.fp, i)]

\* Oldest first: what the tables are after each scan of the history.
Replays(d) ==
    LET history == History(d)
        replay[i \in 0..Len(d.scans)] ==
            IF i = 0 THEN d
            ELSE IF i \in history THEN Replayed(replay[i - 1], i) ELSE replay[i - 1]
    IN replay

\* Then the newest again, with every enabled rule as having run.
Rebuilt(d) ==
    LET newest == Max(History(d))
        last == Replayed(Replays(d)[Len(d.scans)], newest)
    IN [d EXCEPT
          !.rows = last.rows,
          !.fin = IF d.scans[newest].blob = "full" THEN last.fin
                  ELSE [fp \in DOMAIN last.fin |-> [last.fin[fp] EXCEPT !.open = FALSE]]]

Marked(d, mark) == [d EXCEPT !.marks = @ \cup {mark}]

\* Stored scans that found something, to be replayed once.
Waiting(d) ==
    IF {"findings", "category"} \cap d.marks = {}
    THEN {i \in History(d) : d.scans[i].blob # "empty"} ELSE {}

\* The rebuilt category and its record fall in one transaction.
BackfillCategory ==
    IF Waiting(data) # {} /\ MayReplay(data)
    THEN OwnTransaction("backfillCategory", Marked(Rebuilt(data), "category"))
    ELSE FDoes("backfillCategory") /\ UNCHANGED <<data, failed>>

\* The marker of the whole backfill follows when no category is left.
BackfillFindings ==
    /\ FDoes("backfillFindings")
    /\ data' = IF Waiting(data) = {} THEN Marked(data, "findings") ELSE data
    /\ UNCHANGED failed

\* A blob that does not parse throws out of the whole backfill.
BackfillSnapshots ==
    /\ FDoes("backfillSnapshots")
    /\ \/ /\ "snapshots" \notin data.marks
          /\ \A i \in History(data) : data.scans[i].blob # "bad"
          /\ data' = Marked(data, "snapshots")
       \/ data' = data
    /\ UNCHANGED failed

FindingStep ==
    \/ DropStandIn \/ RenameRule \/ RemapFindings \/ RemapSuppressions \/ RemapRecords
    \/ RenameReferences \/ RekeyFingerprintCase \/ CopyFindingRows \/ ConvertScanBlobs
    \/ EmptyScanBlobs \/ SeedRule \/ BackfillCategory \/ BackfillFindings \/ BackfillSnapshots
=============================================================================
