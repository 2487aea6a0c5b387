--------------------------- MODULE FindingProofs ----------------------------
(* Proofs about findings, and about the screens that read them. *)
EXTENDS FindingLifecycle, ReadSession, TLAPS

(* FindingLifecycle for any rules, resources, operators and drifts: what a scan *)
(* marks fixed was away, whoever scans beside it; and when transactions do not  *)
(* overlap, the table and its events agree and nothing lingers.                 *)

\* Transactions on the findings do not overlap: on SQLite, or with one container.
OneScanner == \A s, t \in Scanner : s = t
Alone == Serial \/ OneScanner

\* What a scan has seen of the estate, whatever the others do meanwhile.
Proof(s) ==
    /\ scan[s].ran \cap scan[s].todo = {}
    /\ \A f \in Fp :
          /\ scan[s].found[f] # {} => f[2] \in scan[s].covered /\ f \in watch[s].there
          /\ f[1] \in scan[s].ran /\ f[2] \in scan[s].covered /\ scan[s].found[f] = {} =>
                f \in watch[s].gone
          /\ scan[s].pc # "idle" =>
                IF estate[f] = {} THEN f \in watch[s].gone ELSE f \in watch[s].there
          /\ scan[s].pc = "resolve" /\ f \in scan[s].stale =>
                /\ f[1] \in scan[s].ran \ Activity /\ f[2] \in scan[s].covered
                /\ scan[s].found[f] = {}

IInv == TypeOK /\ \A s \in Scanner : Proof(s)

\* A transaction that is alone works on the table as it is.
Current(s) ==
    /\ InTransaction(s) => scan[s].known = findings
    /\ scan[s].pc = "resolve" => scan[s].stale = StaleActive(s)
    /\ \A t \in Scanner : InTransaction(s) /\ InTransaction(t) => s = t

AInv == IInv /\ (\A s \in Scanner : Current(s)) /\ EventsAgree

\* Rows that stayed since they were queried are there, and were all returned.
Held(s) ==
    \A f \in Fp :
        /\ watch[s].held[f] \subseteq estate[f]
        /\ scan[s].pc = "idle" => watch[s].held[f] = {}
        /\ f[1] \in scan[s].ran => watch[s].held[f] \subseteq scan[s].found[f]
        /\ f[1] \in scan[s].ran /\ f[2] \in scan[s].covered => stood[f] \subseteq scan[s].found[f]

\* Rows that stayed since a complete scan opened their finding are stored.
Stood ==
    \A f \in Fp :
        /\ stood[f] \subseteq estate[f]
        /\ trail[f].whole /\ findings[f].status = "active" => stood[f] \subseteq findings[f].rows

SInv == AInv /\ (\A s \in Scanner : Held(s)) /\ Stood

-----------------------------------------------------------------------------
(* Types *)

LEMMA IdleTyped ==
    /\ NoRows \in [Fp -> SUBSET RowVal]
    /\ NoFinding \in Finding /\ NoTrail \in Trail
    /\ Idle \in ScanState /\ NoWatch \in Watch
  <1>1. NoRows \in [Fp -> SUBSET RowVal] /\ NoFinding \in Finding /\ NoTrail \in Trail
    BY HomeAssumption DEF NoRows, NoFinding, NoTrail, Finding, Trail
  <1>2. Idle \in ScanState
    BY <1>1, HomeAssumption DEF Idle, ScanState
  <1>3. NoWatch \in Watch
    BY <1>1 DEF NoWatch, Watch
  <1> QED BY <1>1, <1>2, <1>3

LEMMA AnswerTyped ==
    ASSUME TypeOK, NEW s \in Scanner, NEW r \in Rule
    PROVE  Answer(s, r) \in [Fp -> SUBSET RowVal]
  <1>1. scan[s].found \in [Fp -> SUBSET RowVal]
    BY DEF TypeOK, ScanState
  <1> QED BY <1>1 DEF Answer, TypeOK

LEMMA StoredTyped ==
    ASSUME TypeOK, NEW s \in Scanner, NEW f \in Fp
    PROVE  Stored(s, f) \in Finding /\ Logged(s, f) \in Trail
  <1>1. /\ scan[s].found[f] \in SUBSET RowVal /\ scan[s].category \in Category
        /\ scan[s].known[f] \in Finding /\ findings[f] \in Finding /\ trail[f] \in Trail
    BY DEF TypeOK, ScanState
  <1>2. Resolved(findings[f]) \in Finding
    BY <1>1 DEF Resolved, Finding
  <1>3. Stored(s, f) \in Finding
    BY <1>1, <1>2 DEF Stored, Finding
  <1>4. [trail[f] EXCEPT !.last = "resolved"] \in Trail
    BY <1>1 DEF Trail
  <1>5. [trail[f] EXCEPT !.rows = (@ \ (scan[s].known[f].rows \ scan[s].found[f]))
                                   \cup (scan[s].found[f] \ scan[s].known[f].rows)] \in Trail
    BY <1>1 DEF Trail, Finding
  <1>6. [last |-> IF Was(s, f) = "none" THEN "created" ELSE "reactivated",
         rows |-> scan[s].found[f], whole |-> f[1] \in scan[s].ran] \in Trail
    BY <1>1 DEF Trail
  <1>7. Logged(s, f) \in Trail
    BY <1>1, <1>4, <1>5, <1>6 DEF Logged
  <1> QED BY <1>3, <1>7

\* A scan that changes one scanner's state to a typed one keeps the rest.
LEMMA OneScan ==
    ASSUME TypeOK, NEW s \in Scanner, NEW new \in ScanState,
           scan' = [scan EXCEPT ![s] = new]
    PROVE  scan' \in [Scanner -> ScanState] /\ scan'[s] = new
           /\ \A t \in Scanner \ {s} : scan'[t] = scan[t]
  BY DEF TypeOK

LEMMA TypeStep ==
    ASSUME TypeOK, [Next]_vars
    PROVE  TypeOK'
  <1> USE IdleTyped
  <1>0. CASE UNCHANGED vars
    BY <1>0 DEF TypeOK, vars
  <1>1. ASSUME NEW s \in Scanner, NEW c \in Category, NEW only \in SUBSET Rule,
               NEW covered \in SUBSET Resource, Begin(s, c, only, covered)
        PROVE  TypeOK'
    <2> DEFINE todo == {r \in only : rules[r].there /\ rules[r].on /\ rules[r].category = c}
               new == [Idle EXCEPT !.pc = "query", !.category = c, !.covered = covered, !.todo = todo]
               seen == [NoWatch EXCEPT !.gone = {f \in Fp : estate[f] = {}},
                                       !.there = {f \in Fp : estate[f] # {}}]
    <2>1. new \in ScanState
      BY DEF ScanState
    <2>2. seen \in Watch
      BY DEF Watch
    <2>3. scan' = [scan EXCEPT ![s] = new] /\ watch' = [watch EXCEPT ![s] = seen]
      BY <1>1 DEF Begin
    <2> HIDE DEF new, seen
    <2> QED BY <1>1, <2>1, <2>2, <2>3 DEF Begin, TypeOK
  <1>2. ASSUME NEW s \in Scanner, NEW r \in Rule, QuerySucceeds(s, r)
        PROVE  TypeOK'
    <2> DEFINE held == [f \in Fp |-> IF f[1] = r THEN Answer(s, r)[f] ELSE watch[s].held[f]]
    <2>1. Answer(s, r) \in [Fp -> SUBSET RowVal]
      BY AnswerTyped
    <2>2. watch[s] \in Watch /\ scan[s] \in ScanState
      BY DEF TypeOK
    <2>3. held \in [Fp -> SUBSET RowVal]
      BY <2>1, <2>2 DEF Watch
    <2> DEFINE new == [scan[s] EXCEPT !.todo = @ \ {r}, !.ran = @ \cup {r}, !.found = Answer(s, r)]
    <2>4. scan' \in [Scanner -> ScanState]
      <3>1. new \in ScanState
        BY <2>1, <2>2 DEF ScanState
      <3>2. scan' = [scan EXCEPT ![s] = new]
        BY <1>2 DEF QuerySucceeds
      <3> HIDE DEF new
      <3> QED BY <3>1, <3>2, OneScan
    <2>5. watch' = [watch EXCEPT ![s].held = held]
      BY <1>2 DEF QuerySucceeds
    <2>6. watch' \in [Scanner -> Watch]
      <3> HIDE DEF held
      <3> QED BY <2>2, <2>3, <2>5 DEF TypeOK, Watch
    <2> QED BY <1>2, <2>4, <2>6 DEF QuerySucceeds, TypeOK
  <1>3. ASSUME NEW s \in Scanner, NEW r \in Rule, QueryIncomplete(s, r)
        PROVE  TypeOK'
    <2> DEFINE held == [f \in Fp |-> IF f[1] = r THEN Answer(s, r)[f] ELSE watch[s].held[f]]
    <2>1. Answer(s, r) \in [Fp -> SUBSET RowVal]
      BY AnswerTyped
    <2>2. watch[s] \in Watch /\ scan[s] \in ScanState
      BY DEF TypeOK
    <2>3. held \in [Fp -> SUBSET RowVal]
      BY <2>1, <2>2 DEF Watch
    <2>4. PICK kept \in [Of(r) -> SUBSET RowVal] :
             scan' = [scan EXCEPT
                ![s].todo = @ \ {r},
                ![s].found = [f \in Fp |-> IF f[1] = r THEN kept[f] ELSE @[f]]]
      BY <1>3 DEF QueryIncomplete
    <2>5. [f \in Fp |-> IF f[1] = r THEN kept[f] ELSE scan[s].found[f]] \in [Fp -> SUBSET RowVal]
      BY <2>2 DEF Of, ScanState
    <2>6. scan' \in [Scanner -> ScanState]
      BY <2>2, <2>4, <2>5 DEF TypeOK, ScanState
    <2>7. watch' = [watch EXCEPT ![s].held = held]
      BY <1>3 DEF QueryIncomplete
    <2>8. watch' \in [Scanner -> Watch]
      <3> HIDE DEF held
      <3> QED BY <2>2, <2>3, <2>7 DEF TypeOK, Watch
    <2> QED BY <1>3, <2>6, <2>8 DEF QueryIncomplete, TypeOK
  <1>4. ASSUME NEW s \in Scanner, Save(s) \/ Classify(s)
        PROVE  TypeOK'
    <2>1. [scan[s] EXCEPT !.pc = "sync"] \in ScanState
      BY DEF TypeOK, ScanState
    <2>2. [scan[s] EXCEPT !.pc = "upsert", !.known = findings] \in ScanState
      BY DEF TypeOK, ScanState
    <2>3. \/ scan' = [scan EXCEPT ![s] = [scan[s] EXCEPT !.pc = "sync"]]
          \/ scan' = [scan EXCEPT ![s] = [scan[s] EXCEPT !.pc = "upsert", !.known = findings]]
      BY <1>4 DEF Save, Classify
    <2>4. scan' \in [Scanner -> ScanState]
      BY <2>1, <2>2, <2>3, OneScan
    <2> QED BY <1>4, <2>4 DEF Save, Classify, TypeOK
  <1>5. ASSUME NEW s \in Scanner, Upsert(s)
        PROVE  TypeOK'
    <2>1. StaleActive(s) \in SUBSET Fp
      BY DEF StaleActive
    <2> DEFINE new == [scan[s] EXCEPT !.pc = "resolve", !.stale = StaleActive(s)]
    <2>2. new \in ScanState
      BY <2>1 DEF TypeOK, ScanState
    <2>3. scan' = [scan EXCEPT ![s] = new]
      BY <1>5 DEF Upsert
    <2> HIDE DEF new
    <2>4. scan' \in [Scanner -> ScanState]
      BY <2>2, <2>3, OneScan
    <2> QED BY <1>5, <2>4 DEF Upsert, TypeOK
  <1>6. ASSUME NEW s \in Scanner, Commit(s)
        PROVE  TypeOK'
    <2> DEFINE gained == [f \in Fp |-> IF Compares(s, f)
                            THEN scan[s].found[f] \ scan[s].known[f].rows ELSE {}]
               opened == {f \in Fp : Opens(s, f)}
    <2>1. scan[s] \in ScanState /\ watch[s] \in Watch
      BY DEF TypeOK
    <2>2. gained \in [Fp -> SUBSET RowVal] /\ opened \in SUBSET Fp
      BY <2>1 DEF ScanState
    <2>3. scan' = [scan EXCEPT ![s].pc = "synced", ![s].opened = opened, ![s].gained = gained]
      BY <1>6 DEF Commit
    <2>4. scan' \in [Scanner -> ScanState]
      <3> HIDE DEF gained, opened
      <3> QED BY <2>1, <2>2, <2>3 DEF TypeOK, ScanState
    <2>5. findings' \in [Fp -> Finding] /\ trail' \in [Fp -> Trail]
      BY <1>6, StoredTyped DEF Commit
    <2>6. stood' \in [Fp -> SUBSET RowVal]
      BY <1>6, <2>1 DEF Commit, TypeOK, Watch
    <2> QED BY <1>6, <2>4, <2>5, <2>6 DEF Commit, TypeOK
  <1>7. ASSUME NEW s \in Scanner, Return(s) \/ Stop(s)
        PROVE  TypeOK'
    BY <1>7 DEF Return, Stop, TypeOK
  <1>8. ASSUME NEW r \in Rule, NEW c \in Category, MoveRule(r, c)
        PROVE  TypeOK'
    BY <1>8, BoundsAssumption DEF MoveRule, Edit, TypeOK
  <1>9. ASSUME NEW r \in Rule, ToggleRule(r)
        PROVE  TypeOK'
    <2>1. rules' \in [Rule -> [there : BOOLEAN, on : BOOLEAN, category : Category]]
      <3> DEFINE new == [rules[r] EXCEPT !.on = ~rules[r].on]
      <3>1. rules[r] \in [there : BOOLEAN, on : BOOLEAN, category : Category]
        BY DEF TypeOK
      <3>2. (~rules[r].on) \in BOOLEAN
        OBVIOUS
      <3>3. new \in [there : BOOLEAN, on : BOOLEAN, category : Category]
        BY <3>1, <3>2
      <3>4. rules' = [rules EXCEPT ![r] = new]
        BY <1>9 DEF ToggleRule
      <3> HIDE DEF new
      <3> QED BY <3>3, <3>4 DEF TypeOK
    <2> QED BY <1>9, <2>1, BoundsAssumption DEF ToggleRule, Edit, TypeOK
  <1>10. ASSUME NEW r \in Rule, ClearFindings(r) \/ DeleteRule(r)
         PROVE  TypeOK'
    <2>1. findings' \in [Fp -> Finding] /\ trail' \in [Fp -> Trail]
      BY <1>10 DEF ClearFindings, DeleteRule, RemoveFindingRowsForRule, TypeOK
    <2>2. spent' \in [drift : 0..MaxDrift, edit : 0..MaxEdit]
      BY <1>10, BoundsAssumption DEF ClearFindings, DeleteRule, Edit, TypeOK
    <2> QED BY <1>10, <2>1, <2>2 DEF ClearFindings, DeleteRule, TypeOK
  <1>11. ASSUME NEW f \in Fp, NEW now \in SUBSET RowVal, Drift(f, now)
         PROVE  TypeOK'
    <2>1. ASSUME NEW s \in Scanner
          PROVE  [gone  |-> watch[s].gone \cup {x \in {f} : now = {}},
                  there |-> watch[s].there \cup {x \in {f} : now # {}},
                  held  |-> [watch[s].held EXCEPT ![f] = @ \cap now]] \in Watch
      BY DEF TypeOK, Watch
    <2>2. watch' \in [Scanner -> Watch]
      BY <1>11, <2>1 DEF Drift, TypeOK
    <2>3. estate' \in [Fp -> SUBSET RowVal] /\ stood' \in [Fp -> SUBSET RowVal]
      BY <1>11 DEF Drift, TypeOK
    <2>4. spent' \in [drift : 0..MaxDrift, edit : 0..MaxEdit]
      BY <1>11, BoundsAssumption DEF Drift, TypeOK
    <2> QED BY <1>11, <2>2, <2>3, <2>4 DEF Drift, TypeOK
  <1> QED BY <1>0, <1>1, <1>2, <1>3, <1>4, <1>5, <1>6, <1>7, <1>8, <1>9, <1>10, <1>11
          DEF Next, ScanStep, Operate

\* Every table row, scan and history holds a value the code can write.
THEOREM TypeCorrect == Spec => []TypeOK
  <1>1. Init => TypeOK
    BY IdleTyped, HomeAssumption, BoundsAssumption DEF Init, TypeOK
  <1>2. TypeOK /\ [Next]_vars => TypeOK'
    BY TypeStep
  <1> QED BY <1>1, <1>2, PTL DEF Spec

-----------------------------------------------------------------------------
(* What each step makes of the scan it belongs to. *)

\* A step of one scan leaves every other scan, and the estate, alone.
LEMMA Elsewhere ==
    ASSUME TypeOK, NEW s \in Scanner, ScanStep(s)
    PROVE  /\ estate' = estate
           /\ \A t \in Scanner \ {s} : scan'[t] = scan[t] /\ watch'[t] = watch[t]
  BY DEF ScanStep, Begin, QuerySucceeds, QueryIncomplete, Save, Classify, Upsert, Commit, Return,
         Stop, TypeOK

LEMMA AfterBegin ==
    ASSUME TypeOK, NEW s \in Scanner, NEW c \in Category, NEW only \in SUBSET Rule,
           NEW covered \in SUBSET Resource, Begin(s, c, only, covered)
    PROVE  /\ scan[s].pc = "idle" /\ scan'[s].pc = "query"
           /\ scan'[s].ran = {} /\ scan'[s].found = NoRows
           /\ watch'[s].gone = {f \in Fp : estate[f] = {}}
           /\ watch'[s].there = {f \in Fp : estate[f] # {}}
           /\ watch'[s].held = NoRows
  BY DEF Begin, TypeOK, Idle, NoWatch

LEMMA AfterQuery ==
    ASSUME TypeOK, NEW s \in Scanner, NEW r \in Rule, QuerySucceeds(s, r)
    PROVE  /\ scan[s].pc = "query" /\ scan'[s].pc = "query" /\ r \in scan[s].todo
           /\ scan'[s].ran = scan[s].ran \cup {r} /\ scan'[s].todo = scan[s].todo \ {r}
           /\ scan'[s].covered = scan[s].covered
           /\ \A f \in Fp :
                 /\ scan'[s].found[f] =
                       IF f[1] = r /\ f[2] \in scan[s].covered THEN estate[f] ELSE scan[s].found[f]
                 /\ watch'[s].held[f] =
                       IF f[1] = r THEN scan'[s].found[f] ELSE watch[s].held[f]
           /\ watch'[s].gone = watch[s].gone /\ watch'[s].there = watch[s].there
  <1>1. scan'[s] = [scan[s] EXCEPT !.todo = @ \ {r}, !.ran = @ \cup {r}, !.found = Answer(s, r)]
    BY DEF QuerySucceeds, TypeOK
  <1>2. watch'[s] = [watch[s] EXCEPT
           !.held = [f \in Fp |-> IF f[1] = r THEN Answer(s, r)[f] ELSE watch[s].held[f]]]
    BY DEF QuerySucceeds, TypeOK
  <1>3. scan[s] \in ScanState /\ watch[s] \in Watch
    BY DEF TypeOK
  <1>4. /\ scan'[s].ran = scan[s].ran \cup {r} /\ scan'[s].todo = scan[s].todo \ {r}
        /\ scan'[s].covered = scan[s].covered /\ scan'[s].pc = scan[s].pc
        /\ scan'[s].found = Answer(s, r)
    BY <1>1, <1>3 DEF ScanState
  <1>5. /\ watch'[s].gone = watch[s].gone /\ watch'[s].there = watch[s].there
        /\ watch'[s].held = [f \in Fp |-> IF f[1] = r THEN Answer(s, r)[f] ELSE watch[s].held[f]]
    BY <1>2, <1>3 DEF Watch
  <1>6. \A f \in Fp : Answer(s, r)[f] =
           IF f[1] = r /\ f[2] \in scan[s].covered THEN estate[f] ELSE scan[s].found[f]
    BY DEF Answer
  <1>7. scan[s].pc = "query" /\ r \in scan[s].todo
    BY DEF QuerySucceeds
  <1> QED BY <1>4, <1>5, <1>6, <1>7

LEMMA AfterIncomplete ==
    ASSUME TypeOK, NEW s \in Scanner, NEW r \in Rule, QueryIncomplete(s, r)
    PROVE  /\ scan[s].pc = "query" /\ scan'[s].pc = "query" /\ r \in scan[s].todo
           /\ scan'[s].ran = scan[s].ran /\ scan'[s].todo = scan[s].todo \ {r}
           /\ scan'[s].covered = scan[s].covered
           /\ \A f \in Fp :
                 /\ f[1] = r =>
                       /\ scan'[s].found[f] \subseteq Answer(s, r)[f]
                       /\ watch'[s].held[f] = Answer(s, r)[f]
                 /\ f[1] # r =>
                       /\ scan'[s].found[f] = scan[s].found[f]
                       /\ watch'[s].held[f] = watch[s].held[f]
           /\ watch'[s].gone = watch[s].gone /\ watch'[s].there = watch[s].there
  <1>1. PICK kept \in [Of(r) -> SUBSET RowVal] :
           /\ \A f \in Of(r) : kept[f] \subseteq Answer(s, r)[f]
           /\ scan' = [scan EXCEPT
                ![s].todo = @ \ {r},
                ![s].found = [f \in Fp |-> IF f[1] = r THEN kept[f] ELSE @[f]]]
    BY DEF QueryIncomplete
  <1>2. scan'[s] = [scan[s] EXCEPT !.todo = @ \ {r},
           !.found = [f \in Fp |-> IF f[1] = r THEN kept[f] ELSE scan[s].found[f]]]
    BY <1>1 DEF TypeOK
  <1>3. watch'[s] = [watch[s] EXCEPT
           !.held = [f \in Fp |-> IF f[1] = r THEN Answer(s, r)[f] ELSE watch[s].held[f]]]
    BY DEF QueryIncomplete, TypeOK
  <1>4. scan[s] \in ScanState /\ watch[s] \in Watch
    BY DEF TypeOK
  <1>5. /\ scan'[s].ran = scan[s].ran /\ scan'[s].todo = scan[s].todo \ {r}
        /\ scan'[s].covered = scan[s].covered /\ scan'[s].pc = scan[s].pc
        /\ scan'[s].found = [f \in Fp |-> IF f[1] = r THEN kept[f] ELSE scan[s].found[f]]
    BY <1>2, <1>4 DEF ScanState
  <1>6. /\ watch'[s].gone = watch[s].gone /\ watch'[s].there = watch[s].there
        /\ watch'[s].held = [f \in Fp |-> IF f[1] = r THEN Answer(s, r)[f] ELSE watch[s].held[f]]
    BY <1>3, <1>4 DEF Watch
  <1>7. \A f \in Fp : f[1] = r => kept[f] \subseteq Answer(s, r)[f]
    BY <1>1 DEF Of
  <1>8. scan[s].pc = "query" /\ r \in scan[s].todo
    BY DEF QueryIncomplete
  <1>9. ASSUME NEW f \in Fp
        PROVE  /\ f[1] = r =>
                    /\ scan'[s].found[f] \subseteq Answer(s, r)[f]
                    /\ watch'[s].held[f] = Answer(s, r)[f]
               /\ f[1] # r =>
                    /\ scan'[s].found[f] = scan[s].found[f]
                    /\ watch'[s].held[f] = watch[s].held[f]
    <2>1. scan'[s].found[f] = IF f[1] = r THEN kept[f] ELSE scan[s].found[f]
      BY <1>5
    <2>2. watch'[s].held[f] = IF f[1] = r THEN Answer(s, r)[f] ELSE watch[s].held[f]
      BY <1>6
    <2> QED BY <1>7, <2>1, <2>2
  <1> QED BY <1>5, <1>6, <1>8, <1>9

\* Saving, and the first two steps of the sync, keep what the queries returned.
LEMMA AfterSync ==
    ASSUME TypeOK, NEW s \in Scanner, Save(s) \/ Classify(s) \/ Upsert(s) \/ Commit(s)
    PROVE  /\ scan[s].pc \in {"query", "sync", "upsert", "resolve"} /\ scan'[s].pc # "idle"
           /\ scan'[s].ran = scan[s].ran /\ scan'[s].todo = scan[s].todo
           /\ scan'[s].covered = scan[s].covered /\ scan'[s].found = scan[s].found
           /\ watch' = watch
           /\ scan'[s].pc = "resolve" =>
                 scan[s].pc = "upsert" /\ scan'[s].stale = StaleActive(s)
           /\ scan[s].pc = "resolve" => scan'[s].pc = "synced"
  <1>1. CASE Save(s)
    BY <1>1 DEF Save, TypeOK, ScanState
  <1>2. CASE Classify(s)
    BY <1>2 DEF Classify, TypeOK, ScanState
  <1>3. CASE Upsert(s)
    <2>1. scan'[s] = [scan[s] EXCEPT !.pc = "resolve", !.stale = StaleActive(s)]
      BY <1>3 DEF Upsert, TypeOK
    <2> QED BY <1>3, <2>1 DEF Upsert, TypeOK, ScanState
  <1>4. CASE Commit(s)
    <2> DEFINE opened == {f \in Fp : Opens(s, f)}
               gained == [f \in Fp |-> IF Compares(s, f)
                            THEN scan[s].found[f] \ scan[s].known[f].rows ELSE {}]
    <2>1. scan'[s] = [scan[s] EXCEPT !.pc = "synced", !.opened = opened, !.gained = gained]
      BY <1>4 DEF Commit, TypeOK
    <2> HIDE DEF opened, gained
    <2>2. scan[s] \in ScanState
      BY DEF TypeOK
    <2>3. scan[s].pc = "resolve" /\ watch' = watch
      BY <1>4 DEF Commit
    <2>4. /\ scan'[s].pc = "synced" /\ scan'[s].ran = scan[s].ran /\ scan'[s].todo = scan[s].todo
          /\ scan'[s].covered = scan[s].covered /\ scan'[s].found = scan[s].found
      BY <2>1, <2>2 DEF ScanState
    <2> QED BY <2>3, <2>4
  <1> QED BY <1>1, <1>2, <1>3, <1>4

LEMMA AfterEnd ==
    ASSUME TypeOK, NEW s \in Scanner, Return(s) \/ Stop(s)
    PROVE  scan'[s] = Idle /\ watch'[s] = NoWatch
  BY DEF Return, Stop, TypeOK

LEMMA AfterDrift ==
    ASSUME TypeOK, NEW f \in Fp, NEW now \in SUBSET RowVal, Drift(f, now)
    PROVE  /\ scan' = scan /\ findings' = findings /\ trail' = trail
           /\ estate'[f] = now /\ \A x \in Fp \ {f} : estate'[x] = estate[x]
           /\ \A x \in Fp : stood'[x] = IF x = f THEN stood[f] \cap now ELSE stood[x]
           /\ \A t \in Scanner :
                 /\ scan[t].pc = "idle" => watch'[t] = watch[t]
                 /\ scan[t].pc # "idle" =>
                       /\ watch[t].gone \subseteq watch'[t].gone
                       /\ watch[t].there \subseteq watch'[t].there
                       /\ now = {} => f \in watch'[t].gone
                       /\ now # {} => f \in watch'[t].there
                       /\ \A x \in Fp : watch'[t].held[x] =
                             IF x = f THEN watch[t].held[f] \cap now ELSE watch[t].held[x]
  <1>1. scan' = scan /\ findings' = findings /\ trail' = trail
    BY DEF Drift
  <1>2. estate'[f] = now /\ \A x \in Fp \ {f} : estate'[x] = estate[x]
    BY DEF Drift, TypeOK
  <1>3. \A x \in Fp : stood'[x] = IF x = f THEN stood[f] \cap now ELSE stood[x]
    BY DEF Drift, TypeOK
  <1>4. ASSUME NEW t \in Scanner, scan[t].pc = "idle"
        PROVE  watch'[t] = watch[t]
    BY <1>4 DEF Drift
  <1>5. ASSUME NEW t \in Scanner, scan[t].pc # "idle"
        PROVE  /\ watch[t].gone \subseteq watch'[t].gone
               /\ watch[t].there \subseteq watch'[t].there
               /\ now = {} => f \in watch'[t].gone
               /\ now # {} => f \in watch'[t].there
               /\ \A x \in Fp : watch'[t].held[x] =
                     IF x = f THEN watch[t].held[f] \cap now ELSE watch[t].held[x]
    <2>1. watch'[t] = [gone  |-> watch[t].gone \cup {x \in {f} : now = {}},
                       there |-> watch[t].there \cup {x \in {f} : now # {}},
                       held  |-> [watch[t].held EXCEPT ![f] = @ \cap now]]
      BY <1>5 DEF Drift
    <2>2. /\ watch'[t].gone = watch[t].gone \cup {x \in {f} : now = {}}
          /\ watch'[t].there = watch[t].there \cup {x \in {f} : now # {}}
          /\ watch'[t].held = [watch[t].held EXCEPT ![f] = @ \cap now]
      BY <2>1
    <2>3. watch[t].held \in [Fp -> SUBSET RowVal]
      BY DEF TypeOK, Watch
    <2>4. \A x \in Fp : watch'[t].held[x] =
             IF x = f THEN watch[t].held[f] \cap now ELSE watch[t].held[x]
      BY <2>2, <2>3
    <2> QED BY <2>2, <2>4
  <1> QED BY <1>1, <1>2, <1>3, <1>4, <1>5

\* Operators change no scan and no estate.
LEMMA AfterOperate ==
    ASSUME Operate
    PROVE  estate' = estate /\ scan' = scan /\ watch' = watch /\ stood' = stood
  BY DEF Operate, MoveRule, ToggleRule, ClearFindings, DeleteRule

-----------------------------------------------------------------------------
(* What a scan marks fixed was away. *)

LEMMA ProofHere ==
    ASSUME IInv, NEW s \in Scanner, ScanStep(s)
    PROVE  Proof(s)'
  <1>0. TypeOK /\ Proof(s) /\ scan[s] \in ScanState /\ estate' = estate
    BY Elsewhere DEF IInv, TypeOK
  <1>1. ASSUME NEW c \in Category, NEW only \in SUBSET Rule,
               NEW covered \in SUBSET Resource, Begin(s, c, only, covered)
        PROVE  Proof(s)'
    BY <1>0, <1>1, AfterBegin DEF Proof, NoRows
  <1>2. ASSUME NEW r \in Rule, QuerySucceeds(s, r)
        PROVE  Proof(s)'
    BY <1>0, <1>2, AfterQuery DEF Proof
  <1>3. ASSUME NEW r \in Rule, QueryIncomplete(s, r)
        PROVE  Proof(s)'
    <2>1. \A f \in Fp : scan'[s].found[f] # {} => f[2] \in scan[s].covered /\ f \in watch[s].there
      BY <1>0, <1>3, AfterIncomplete DEF Proof, Answer
    <2> QED BY <1>0, <1>3, <2>1, AfterIncomplete DEF Proof
  <1>4. ASSUME Save(s) \/ Classify(s) \/ Upsert(s) \/ Commit(s)
        PROVE  Proof(s)'
    <2>1. \A f \in StaleActive(s) :
             /\ f[1] \in scan[s].ran \ Activity /\ f[2] \in scan[s].covered
             /\ scan[s].found[f] = {}
      BY DEF StaleActive, Seen
    <2> QED BY <1>0, <1>4, <2>1, AfterSync DEF Proof
  <1>5. ASSUME Return(s) \/ Stop(s)
        PROVE  Proof(s)'
    BY <1>0, <1>5, AfterEnd DEF Proof, Idle, NoRows
  <1> QED BY <1>1, <1>2, <1>3, <1>4, <1>5 DEF ScanStep

LEMMA ProofDrift ==
    ASSUME IInv, NEW f \in Fp, NEW now \in SUBSET RowVal, Drift(f, now), NEW t \in Scanner
    PROVE  Proof(t)'
  <1>1. TypeOK /\ Proof(t)
    BY DEF IInv
  <1>2. scan' = scan /\ estate'[f] = now /\ \A x \in Fp \ {f} : estate'[x] = estate[x]
    BY <1>1, AfterDrift
  <1>3. CASE scan[t].pc = "idle"
    <2>1. watch'[t] = watch[t]
      BY <1>1, <1>3, AfterDrift
    <2> QED BY <1>1, <1>2, <1>3, <2>1 DEF Proof
  <1>4. CASE scan[t].pc # "idle"
    <2>1. watch[t].gone \subseteq watch'[t].gone /\ watch[t].there \subseteq watch'[t].there
      BY <1>1, <1>4, AfterDrift
    <2>2. ASSUME now = {} PROVE f \in watch'[t].gone
      BY <1>1, <1>4, <2>2, AfterDrift
    <2>3. ASSUME now # {} PROVE f \in watch'[t].there
      BY <1>1, <1>4, <2>3, AfterDrift
    <2> QED BY <1>1, <1>2, <1>4, <2>1, <2>2, <2>3 DEF Proof
  <1> QED BY <1>3, <1>4


LEMMA Inductive ==
    ASSUME IInv, [Next]_vars
    PROVE  IInv'
  <1>0. TypeOK'
    BY TypeStep DEF IInv
  <1>1. CASE UNCHANGED vars
    BY <1>0, <1>1 DEF IInv, Proof, vars
  <1>2. ASSUME NEW s \in Scanner, ScanStep(s)
        PROVE  IInv'
    <2>1. ASSUME NEW t \in Scanner \ {s}
          PROVE  Proof(t)'
      BY <1>2, Elsewhere DEF IInv, Proof
    <2> QED BY <1>0, <1>2, <2>1, ProofHere DEF IInv
  <1>3. CASE Operate
    BY <1>0, <1>3, AfterOperate DEF IInv, Proof
  <1>4. ASSUME NEW f \in Fp, NEW now \in SUBSET RowVal, Drift(f, now)
        PROVE  IInv'
    BY <1>0, <1>4, ProofDrift DEF IInv
  <1> QED BY <1>1, <1>2, <1>3, <1>4 DEF Next

LEMMA Starts == Init => IInv
  <1> SUFFICES ASSUME Init PROVE IInv
    OBVIOUS
  <1>1. TypeOK
    BY IdleTyped, HomeAssumption, BoundsAssumption DEF Init, TypeOK
  <1>2. \A s \in Scanner : scan[s] = Idle
    BY DEF Init
  <1> QED BY <1>1, <1>2 DEF IInv, Proof, Idle, NoRows

LEMMA Invariant == Spec => []IInv
  BY Starts, Inductive, PTL DEF Spec

\* What a commit makes of a finding and its events; who else changes the table.
LEMMA AfterCommit ==
    ASSUME TypeOK, NEW s \in Scanner, Commit(s), NEW f \in Fp
    PROVE  /\ scan[s].pc = "resolve" /\ estate' = estate /\ watch' = watch
           /\ findings'[f] = Stored(s, f) /\ trail'[f] = Logged(s, f)
           /\ stood'[f] = IF Opens(s, f) THEN watch[s].held[f] ELSE stood[f]
           /\ scan'[s].gained[f] =
                 IF Compares(s, f) THEN scan[s].found[f] \ scan[s].known[f].rows ELSE {}
  <1>1. /\ scan[s].pc = "resolve" /\ estate' = estate /\ watch' = watch
        /\ findings'[f] = Stored(s, f) /\ trail'[f] = Logged(s, f)
        /\ stood'[f] = IF Opens(s, f) THEN watch[s].held[f] ELSE stood[f]
    BY DEF Commit
  <1> DEFINE opened == {x \in Fp : Opens(s, x)}
             gained == [x \in Fp |-> IF Compares(s, x)
                          THEN scan[s].found[x] \ scan[s].known[x].rows ELSE {}]
  <1>2. scan'[s] = [scan[s] EXCEPT !.pc = "synced", !.opened = opened, !.gained = gained]
    BY DEF Commit, TypeOK
  <1>3. scan[s] \in ScanState
    BY DEF TypeOK
  <1>4. scan'[s].gained = gained
    <2> HIDE DEF opened, gained
    <2> QED BY <1>2, <1>3 DEF ScanState
  <1> QED BY <1>1, <1>4

LEMMA AfterRemoval ==
    ASSUME NEW r \in Rule, ClearFindings(r) \/ DeleteRule(r)
    PROVE  /\ \A s \in Scanner : ~InTransaction(s)
           /\ \A f \in Fp :
                 /\ findings'[f] = IF f[1] = r THEN NoFinding ELSE findings[f]
                 /\ trail'[f] = IF f[1] = r THEN NoTrail ELSE trail[f]
  BY DEF ClearFindings, DeleteRule, RemoveFindingRowsForRule

\* The table is changed by commits and removals alone.
LEMMA WhoWrites ==
    ASSUME [Next]_vars
    PROVE  \/ findings' = findings /\ trail' = trail /\ stood' = stood
           \/ \E s \in Scanner : Commit(s)
           \/ \E r \in Rule : ClearFindings(r) \/ DeleteRule(r)
           \/ \E f \in Fp, now \in SUBSET RowVal : Drift(f, now)
  <1> DEFINE Same == findings' = findings /\ trail' = trail /\ stood' = stood
  <1>1. CASE UNCHANGED vars
    BY <1>1 DEF vars
  <1>2. ASSUME NEW s \in Scanner, ScanStep(s)
        PROVE  Same \/ Commit(s)
    <2>1. ASSUME NEW c \in Category, NEW only \in SUBSET Rule, NEW covered \in SUBSET Resource,
                 Begin(s, c, only, covered)
          PROVE  Same
      BY <2>1 DEF Begin
    <2>2. ASSUME NEW r \in Rule, QuerySucceeds(s, r) \/ QueryIncomplete(s, r)
          PROVE  Same
      BY <2>2 DEF QuerySucceeds, QueryIncomplete
    <2>3. Save(s) \/ Classify(s) \/ Upsert(s) \/ Return(s) \/ Stop(s) => Same
      BY DEF Save, Classify, Upsert, Return, Stop
    <2> HIDE DEF Same
    <2> QED BY <1>2, <2>1, <2>2, <2>3 DEF ScanStep
  <1>3. CASE Operate
    <2>1. ASSUME NEW r \in Rule, NEW c \in Category, MoveRule(r, c)
          PROVE  Same
      BY <2>1 DEF MoveRule
    <2>2. ASSUME NEW r \in Rule, ToggleRule(r)
          PROVE  Same
      BY <2>2 DEF ToggleRule
    <2> QED BY <1>3, <2>1, <2>2 DEF Operate
  <1> QED BY <1>1, <1>2, <1>3 DEF Next

LEMMA FixedStep ==
    ASSUME IInv, [Next]_vars, NEW f \in Fp,
           findings[f].status = "active", findings'[f].status = "fixed"
    PROVE  f[1] \notin Activity /\ \E s \in Scanner : f \in watch[s].gone
  <1>1. CASE findings' = findings
    BY <1>1
  <1>2. ASSUME NEW s \in Scanner, Commit(s)
        PROVE  f[1] \notin Activity /\ f \in watch[s].gone
    <2>1. findings'[f] = Stored(s, f) /\ scan[s].pc = "resolve"
      BY <1>2, AfterCommit DEF IInv
    <2>2. f \in scan[s].stale
      BY <2>1 DEF Stored
    <2> QED BY <2>1, <2>2 DEF IInv, Proof
  <1>3. ASSUME NEW r \in Rule, ClearFindings(r) \/ DeleteRule(r)
        PROVE  FALSE
    BY <1>3, AfterRemoval DEF NoFinding
  <1>4. ASSUME NEW x \in Fp, NEW now \in SUBSET RowVal, Drift(x, now)
        PROVE  FALSE
    BY <1>4 DEF Drift
  <1> QED BY <1>1, <1>2, <1>3, <1>4, WhoWrites

\* A finding is marked fixed only if its resource did not match at some moment of
\* the scan that says so, and never when it is an activity: on either database,
\* whatever other scans and operators do meanwhile.
THEOREM FixedHasProof == Spec => FixedOnlyOnProof
  <1>1. IInv /\ [Next]_vars =>
           \A f \in Fp : findings[f].status = "active" /\ findings'[f].status = "fixed" =>
              f[1] \notin Activity /\ \E s \in Scanner : f \in watch[s].gone
    BY FixedStep
  <1> QED BY <1>1, Invariant, PTL DEF Spec, FixedOnlyOnProof

-----------------------------------------------------------------------------
(* Transactions that do not overlap. *)

LEMMA CurrentStep ==
    ASSUME AInv, Alone, [Next]_vars, NEW t \in Scanner
    PROVE  Current(t)'
  <1>0. TypeOK /\ TypeOK' /\ \A s \in Scanner : Current(s)
    BY TypeStep DEF AInv, IInv
  <1>1. ASSUME findings' = findings, scan' = scan
        PROVE  Current(t)'
    BY <1>0, <1>1 DEF Current, InTransaction, StaleActive, Seen
  <1>2. ASSUME NEW s \in Scanner, ScanStep(s), findings' = findings, ~InTransaction(s)'
        PROVE  Current(t)'
    <2>1. \A u \in Scanner \ {s} : scan'[u] = scan[u]
      BY <1>0, <1>2, Elsewhere
    <2> QED BY <1>0, <1>2, <2>1 DEF Current, InTransaction, StaleActive, Seen
  <1>3. ASSUME NEW s \in Scanner, Classify(s)
        PROVE  Current(t)'
    <2>1. /\ findings' = findings /\ scan'[s].known = findings /\ scan'[s].pc = "upsert"
          /\ \A u \in Scanner \ {s} : scan'[u] = scan[u]
      BY <1>0, <1>3 DEF Classify, TypeOK, ScanState
    <2>2. \A u \in Scanner \ {s} : ~InTransaction(u)
      BY <1>3 DEF Alone, OneScanner, Classify
    <2> QED BY <1>0, <2>1, <2>2 DEF Current, InTransaction
  <1>4. ASSUME NEW s \in Scanner, Upsert(s)
        PROVE  Current(t)'
    <2> DEFINE new == [scan[s] EXCEPT !.pc = "resolve", !.stale = StaleActive(s)]
    <2>1. findings' = findings /\ scan[s].pc = "upsert" /\ scan' = [scan EXCEPT ![s] = new]
      BY <1>4 DEF Upsert
    <2>2. scan'[s] = new /\ \A u \in Scanner \ {s} : scan'[u] = scan[u]
      BY <1>0, <2>1 DEF TypeOK
    <2>3. scan[s] \in ScanState
      BY <1>0 DEF TypeOK
    <2>4. /\ new.pc = "resolve" /\ new.stale = StaleActive(s) /\ new.known = scan[s].known
          /\ new.ran = scan[s].ran /\ new.covered = scan[s].covered /\ new.found = scan[s].found
      BY <2>3 DEF ScanState
    <2>5. StaleActive(s)' = StaleActive(s)
      BY <2>1, <2>2, <2>4 DEF StaleActive, Seen
    <2>6. CASE t = s
      BY <1>0, <2>1, <2>2, <2>4, <2>5, <2>6 DEF Current, InTransaction
    <2>7. CASE t # s
      <3>1. ~InTransaction(t)
        BY <1>0, <2>1, <2>7 DEF Current, InTransaction
      <3> QED BY <2>2, <2>7, <3>1 DEF Current, InTransaction
    <2> QED BY <2>6, <2>7
  <1>5. ASSUME NEW s \in Scanner, Commit(s)
        PROVE  Current(t)'
    <2>1. scan[s].pc = "resolve" /\ scan'[s].pc = "synced"
      BY <1>0, <1>5, AfterSync DEF Commit
    <2>2. \A u \in Scanner \ {s} : scan'[u] = scan[u] /\ ~InTransaction(u)
      BY <1>0, <1>5, <2>1, Elsewhere DEF ScanStep, Current, InTransaction
    <2> QED BY <2>1, <2>2 DEF Current, InTransaction
  <1>6. ASSUME NEW r \in Rule, ClearFindings(r) \/ DeleteRule(r)
        PROVE  Current(t)'
    <2>1. scan' = scan /\ ~InTransaction(t)
      BY <1>6, AfterRemoval DEF ClearFindings, DeleteRule
    <2> QED BY <2>1 DEF Current, InTransaction
  <1>7. ASSUME NEW s \in Scanner, NEW c \in Category, NEW only \in SUBSET Rule,
               NEW covered \in SUBSET Resource, Begin(s, c, only, covered)
        PROVE  findings' = findings /\ ~InTransaction(s)'
    BY <1>0, <1>7, AfterBegin DEF Begin, InTransaction
  <1>8. ASSUME NEW s \in Scanner, NEW r \in Rule, QuerySucceeds(s, r) \/ QueryIncomplete(s, r)
        PROVE  findings' = findings /\ ~InTransaction(s)'
    <2>1. CASE QuerySucceeds(s, r)
      BY <1>0, <2>1, AfterQuery DEF QuerySucceeds, InTransaction
    <2>2. CASE QueryIncomplete(s, r)
      BY <1>0, <2>2, AfterIncomplete DEF QueryIncomplete, InTransaction
    <2> QED BY <1>8, <2>1, <2>2
  <1>9. ASSUME NEW s \in Scanner, Save(s) \/ Return(s) \/ Stop(s)
        PROVE  findings' = findings /\ ~InTransaction(s)'
    BY <1>0, <1>9 DEF Save, Return, Stop, InTransaction, Idle, TypeOK, ScanState
  <1>10. ASSUME NEW s \in Scanner, ScanStep(s)
         PROVE  Current(t)'
    BY <1>2, <1>3, <1>4, <1>5, <1>7, <1>8, <1>9, <1>10 DEF ScanStep
  <1>11. CASE Operate
    <2>1. ASSUME NEW r \in Rule, NEW c \in Category, MoveRule(r, c)
          PROVE  findings' = findings /\ scan' = scan
      BY <2>1 DEF MoveRule
    <2>2. ASSUME NEW r \in Rule, ToggleRule(r)
          PROVE  findings' = findings /\ scan' = scan
      BY <2>2 DEF ToggleRule
    <2> QED BY <1>1, <1>6, <1>11, <2>1, <2>2 DEF Operate
  <1>12. ASSUME NEW f \in Fp, NEW now \in SUBSET RowVal, Drift(f, now)
         PROVE  Current(t)'
    BY <1>1, <1>12 DEF Drift
  <1>13. CASE UNCHANGED vars
    BY <1>1, <1>13 DEF vars
  <1> QED BY <1>10, <1>11, <1>12, <1>13 DEF Next

\* A commit that is alone writes the table and its events alike.
LEMMA AgreeHere ==
    ASSUME AInv, Alone, NEW s \in Scanner, Commit(s), NEW f \in Fp
    PROVE  /\ findings'[f].rows = trail'[f].rows
           /\ findings'[f].status = "none" <=> trail'[f].last = "none"
           /\ findings'[f].status = "active" <=> trail'[f].last \in {"created", "reactivated"}
  <1>1. /\ findings'[f] = Stored(s, f) /\ trail'[f] = Logged(s, f)
        /\ scan[s].pc = "resolve"
    BY AfterCommit DEF AInv, IInv
  <1>2. scan[s].known = findings /\ scan[s].stale = StaleActive(s)
    BY <1>1 DEF AInv, Current, InTransaction
  <1>3. /\ findings[f].rows = trail[f].rows
        /\ findings[f].status = "none" <=> trail[f].last = "none"
        /\ findings[f].status = "active" <=> trail[f].last \in {"created", "reactivated"}
    BY DEF AInv, EventsAgree
  <1>4. findings[f] \in Finding /\ trail[f] \in Trail /\ scan[s].found[f] \in SUBSET RowVal
    BY DEF AInv, IInv, TypeOK, ScanState
  <1>5. CASE Opens(s, f)
    <2>1. /\ Stored(s, f) = [status |-> "active", category |-> scan[s].category,
                             rows |-> scan[s].found[f]]
          /\ Logged(s, f).last \in {"created", "reactivated"}
          /\ Logged(s, f).rows = scan[s].found[f]
      BY <1>5 DEF Stored, Logged, Opens
    <2> QED BY <1>1, <2>1
  <1>6. CASE Compares(s, f)
    <2> DEFINE new == (trail[f].rows \ (scan[s].known[f].rows \ scan[s].found[f]))
                         \cup (scan[s].found[f] \ scan[s].known[f].rows)
    <2>1. ~Opens(s, f) /\ findings[f].status = "active"
      BY <1>2, <1>6 DEF Opens, Compares, Was
    <2>2. /\ Stored(s, f) = [status |-> "active", category |-> scan[s].category,
                             rows |-> scan[s].found[f]]
          /\ Logged(s, f) = [trail[f] EXCEPT !.rows = new]
      BY <1>6, <2>1 DEF Stored, Logged, Compares
    <2>3. Logged(s, f).rows = new /\ Logged(s, f).last = trail[f].last
      <3> HIDE DEF new
      <3> QED BY <1>4, <2>2 DEF Trail
    <2>4. new = scan[s].found[f]
      BY <1>2, <1>3
    <2> HIDE DEF new
    <2> QED BY <1>1, <1>3, <2>1, <2>2, <2>3, <2>4
  <1>7. CASE f \in Seen(s) /\ ~Opens(s, f) /\ ~Compares(s, f)
    <2>1. findings[f].status = "active" /\ f \notin scan[s].stale
      BY <1>2, <1>7 DEF Opens, Was, StaleActive
    <2>2. /\ Stored(s, f) = [status |-> "active", category |-> scan[s].category,
                             rows |-> findings[f].rows]
          /\ Logged(s, f) = trail[f]
      BY <1>7, <2>1 DEF Stored, Logged
    <2> QED BY <1>1, <1>3, <2>1, <2>2
  <1>8. CASE f \notin Seen(s) /\ f \in scan[s].stale
    <2>1. findings[f].status = "active"
      BY <1>2, <1>8 DEF StaleActive
    <2>2. /\ Stored(s, f) = Resolved(findings[f])
          /\ Logged(s, f) = [trail[f] EXCEPT !.last = "resolved"]
      BY <1>8 DEF Stored, Logged, Opens, Compares
    <2>3. /\ Stored(s, f).status = "fixed" /\ Stored(s, f).rows = findings[f].rows
          /\ Logged(s, f).last = "resolved" /\ Logged(s, f).rows = trail[f].rows
      BY <1>4, <2>2 DEF Resolved, Finding, Trail
    <2> QED BY <1>1, <1>3, <2>3
  <1>9. CASE f \notin Seen(s) /\ f \notin scan[s].stale
    <2>1. Stored(s, f) = findings[f] /\ Logged(s, f) = trail[f]
      BY <1>9 DEF Stored, Logged, Opens, Compares
    <2> QED BY <1>1, <1>3, <2>1
  <1> QED BY <1>5, <1>6, <1>7, <1>8, <1>9

LEMMA AgreeStep ==
    ASSUME AInv, Alone, [Next]_vars
    PROVE  EventsAgree'
  <1>1. EventsAgree
    BY DEF AInv
  <1>2. CASE findings' = findings /\ trail' = trail
    BY <1>1, <1>2 DEF EventsAgree
  <1>3. ASSUME NEW s \in Scanner, Commit(s)
        PROVE  EventsAgree'
    BY <1>3, AgreeHere DEF EventsAgree
  <1>4. ASSUME NEW r \in Rule, ClearFindings(r) \/ DeleteRule(r)
        PROVE  EventsAgree'
    <2> SUFFICES ASSUME NEW f \in Fp
                 PROVE  /\ findings'[f].rows = trail'[f].rows
                        /\ findings'[f].status = "none" <=> trail'[f].last = "none"
                        /\ findings'[f].status = "active" <=>
                              trail'[f].last \in {"created", "reactivated"}
      BY DEF EventsAgree
    <2>1. CASE f[1] = r
      <3>1. findings'[f] = NoFinding /\ trail'[f] = NoTrail
        BY <1>4, <2>1, AfterRemoval
      <3> QED BY <3>1 DEF NoFinding, NoTrail
    <2>2. CASE f[1] # r
      <3>1. findings'[f] = findings[f] /\ trail'[f] = trail[f]
        BY <1>4, <2>2, AfterRemoval
      <3> QED BY <1>1, <3>1 DEF EventsAgree
    <2> QED BY <2>1, <2>2
  <1>5. ASSUME NEW f \in Fp, NEW now \in SUBSET RowVal, Drift(f, now)
        PROVE  findings' = findings /\ trail' = trail
    BY <1>5 DEF Drift
  <1> QED BY <1>2, <1>3, <1>4, <1>5, WhoWrites

LEMMA StartsAlone == Init => AInv
  <1> SUFFICES ASSUME Init PROVE AInv
    OBVIOUS
  <1>1. \A s \in Scanner : Current(s)
    BY DEF Init, Current, InTransaction, Idle
  <1>2. EventsAgree
    BY DEF Init, EventsAgree, NoFinding, NoTrail
  <1> QED BY <1>1, <1>2, Starts DEF AInv

LEMMA AloneInvariant ==
    ASSUME Alone
    PROVE  Spec => []AInv
  <1>1. AInv /\ [Next]_vars => AInv'
    BY Inductive, CurrentStep, AgreeStep DEF AInv
  <1> QED BY <1>1, StartsAlone, PTL DEF Spec

\* On SQLite, or with one container, replaying a finding's events gives its status
\* and its rows.
THEOREM EventsTellTheTable ==
    ASSUME Alone
    PROVE  Spec => []EventsAgree
  <1>1. AInv => EventsAgree
    BY DEF AInv
  <1> QED BY <1>1, AloneInvariant, PTL

LEMMA CommitsIsCommit ==
    ASSUME TypeOK, [Next]_vars, NEW s \in Scanner, Commits(s)
    PROVE  Commit(s)
  <1>1. scan' # scan
    BY DEF Commits
  <1>2. ~Operate
    BY <1>1, AfterOperate
  <1>3. \A x \in Fp, now \in SUBSET RowVal : ~Drift(x, now)
    BY <1>1 DEF Drift
  <1>4. PICK u \in Scanner : ScanStep(u)
    BY <1>1, <1>2, <1>3 DEF Next, vars
  <1>5. u = s
    BY <1>4, Elsewhere DEF Commits
  <1>6. ASSUME NEW c \in Category, NEW only \in SUBSET Rule, NEW covered \in SUBSET Resource,
               Begin(s, c, only, covered)
        PROVE  FALSE
    BY <1>6 DEF Begin, Commits
  <1>7. ASSUME NEW r \in Rule, QuerySucceeds(s, r) \/ QueryIncomplete(s, r)
        PROVE  FALSE
    BY <1>7 DEF QuerySucceeds, QueryIncomplete, Commits
  <1>8. ~Save(s) /\ ~Classify(s) /\ ~Upsert(s) /\ ~Return(s)
    BY DEF Save, Classify, Upsert, Return, Commits
  <1>9. ~Stop(s)
    BY AfterEnd DEF Commits, Idle
  <1> QED BY <1>4, <1>5, <1>6, <1>7, <1>8, <1>9 DEF ScanStep

LEMMA LingersStep ==
    ASSUME AInv, Alone, [Next]_vars, NEW s \in Scanner, Commits(s),
           NEW f \in Fp, f[1] \in scan[s].ran \ Activity, f[2] \in scan[s].covered,
           f \notin watch[s].there
    PROVE  findings'[f].status # "active"
  <1>1. Commit(s)
    BY CommitsIsCommit DEF AInv, IInv
  <1>2. findings'[f] = Stored(s, f) /\ scan[s].pc = "resolve"
    BY <1>1, AfterCommit DEF AInv, IInv
  <1>3. scan[s].stale = StaleActive(s)
    BY <1>2 DEF AInv, Current
  <1>4. f \notin Seen(s)
    BY DEF AInv, IInv, Proof, Seen
  <1>5. CASE findings[f].status = "active"
    <2>1. f \in scan[s].stale
      BY <1>3, <1>4, <1>5 DEF StaleActive
    <2>2. findings[f] \in Finding
      BY DEF AInv, IInv, TypeOK
    <2>3. Resolved(findings[f]).status = "fixed"
      BY <2>2 DEF Resolved, Finding
    <2> QED BY <1>2, <1>4, <2>1, <2>3 DEF Stored
  <1>6. CASE findings[f].status # "active"
    <2>1. f \notin scan[s].stale
      BY <1>3, <1>6 DEF StaleActive
    <2> QED BY <1>2, <1>4, <1>6, <2>1 DEF Stored
  <1> QED BY <1>5, <1>6

\* On SQLite, or with one container, a rule that ran to success leaves open no
\* finding that was absent all through its scan.
THEOREM NoneLingers ==
    ASSUME Alone
    PROVE  Spec => NothingLingers
  <1>1. AInv /\ [Next]_vars =>
           \A s \in Scanner : Commits(s) =>
              \A f \in Fp : /\ f[1] \in scan[s].ran \ Activity
                            /\ f[2] \in scan[s].covered
                            /\ f \notin watch[s].there
                            => findings'[f].status # "active"
    BY LingersStep
  <1> QED BY <1>1, AloneInvariant, PTL DEF Spec, NothingLingers

-----------------------------------------------------------------------------
(* One scanner. *)

LEMMA HeldStep ==
    ASSUME SInv, OneScanner, [Next]_vars, NEW s \in Scanner
    PROVE  Held(s)'
  <1>0. TypeOK /\ Proof(s) /\ Held(s) /\ Stood /\ scan[s] \in ScanState
    BY DEF SInv, AInv, IInv, TypeOK
  <1>1. CASE scan' = scan /\ watch' = watch /\ estate' = estate /\ stood' = stood
    BY <1>0, <1>1 DEF Held
  <1>2. ASSUME NEW c \in Category, NEW only \in SUBSET Rule,
               NEW covered \in SUBSET Resource, Begin(s, c, only, covered)
        PROVE  Held(s)'
    <2>1. scan'[s].ran = {} /\ watch'[s].held = NoRows
      BY <1>0, <1>2, AfterBegin
    <2> QED BY <2>1 DEF Held, NoRows
  <1>3. ASSUME NEW r \in Rule, QuerySucceeds(s, r)
        PROVE  Held(s)'
    <2>1. estate' = estate /\ stood' = stood
      BY <1>3 DEF QuerySucceeds
    <2> SUFFICES ASSUME NEW f \in Fp
                 PROVE  /\ watch'[s].held[f] \subseteq estate'[f]
                        /\ scan'[s].pc = "idle" => watch'[s].held[f] = {}
                        /\ f[1] \in scan'[s].ran => watch'[s].held[f] \subseteq scan'[s].found[f]
                        /\ f[1] \in scan'[s].ran /\ f[2] \in scan'[s].covered =>
                              stood'[f] \subseteq scan'[s].found[f]
      BY DEF Held
    <2>2. /\ scan'[s].pc = "query" /\ scan'[s].ran = scan[s].ran \cup {r}
          /\ scan'[s].covered = scan[s].covered
          /\ scan'[s].found[f] =
                IF f[1] = r /\ f[2] \in scan[s].covered THEN estate[f] ELSE scan[s].found[f]
          /\ watch'[s].held[f] = IF f[1] = r THEN scan'[s].found[f] ELSE watch[s].held[f]
      BY <1>0, <1>3, AfterQuery
    <2>3. f[2] \notin scan[s].covered => scan[s].found[f] = {}
      BY <1>0 DEF Proof
    <2>4. CASE f[1] = r
      BY <1>0, <2>1, <2>2, <2>3, <2>4 DEF Stood
    <2>5. CASE f[1] # r
      BY <1>0, <2>1, <2>2, <2>5 DEF Held
    <2> QED BY <2>4, <2>5
  <1>4. ASSUME NEW r \in Rule, QueryIncomplete(s, r)
        PROVE  Held(s)'
    <2>1. estate' = estate /\ stood' = stood
      BY <1>4 DEF QueryIncomplete
    <2> SUFFICES ASSUME NEW f \in Fp
                 PROVE  /\ watch'[s].held[f] \subseteq estate'[f]
                        /\ scan'[s].pc = "idle" => watch'[s].held[f] = {}
                        /\ f[1] \in scan'[s].ran => watch'[s].held[f] \subseteq scan'[s].found[f]
                        /\ f[1] \in scan'[s].ran /\ f[2] \in scan'[s].covered =>
                              stood'[f] \subseteq scan'[s].found[f]
      BY DEF Held
    <2>2. /\ scan'[s].pc = "query" /\ scan'[s].ran = scan[s].ran /\ r \in scan[s].todo
          /\ scan'[s].covered = scan[s].covered
          /\ f[1] = r => watch'[s].held[f] = Answer(s, r)[f]
          /\ f[1] # r =>
                /\ scan'[s].found[f] = scan[s].found[f]
                /\ watch'[s].held[f] = watch[s].held[f]
      BY <1>0, <1>4, AfterIncomplete
    <2>3. r \notin scan[s].ran
      BY <1>0, <2>2 DEF Proof
    <2>4. CASE f[1] = r
      <3>1. Answer(s, r)[f] = IF f[2] \in scan[s].covered THEN estate[f] ELSE scan[s].found[f]
        BY <2>4 DEF Answer
      <3>2. f[2] \notin scan[s].covered => scan[s].found[f] = {}
        BY <1>0 DEF Proof
      <3> QED BY <2>1, <2>2, <2>3, <2>4, <3>1, <3>2
    <2>5. CASE f[1] # r
      BY <1>0, <2>1, <2>2, <2>5 DEF Held
    <2> QED BY <2>4, <2>5
  <1>5. CASE Save(s) \/ Classify(s) \/ Upsert(s)
    <2>1. estate' = estate /\ stood' = stood
      BY <1>5 DEF Save, Classify, Upsert
    <2> QED BY <1>0, <1>5, <2>1, AfterSync DEF Held
  <1>6. CASE Commit(s)
    <2>1. /\ scan'[s].ran = scan[s].ran /\ scan'[s].covered = scan[s].covered
          /\ scan'[s].found = scan[s].found /\ scan'[s].pc # "idle" /\ watch' = watch
      BY <1>0, <1>6, AfterSync
    <2>2. estate' = estate
      BY <1>6 DEF Commit
    <2>3. \A f \in Fp : stood'[f] = watch[s].held[f] \/ stood'[f] = stood[f]
      BY <1>0, <1>6, AfterCommit
    <2> QED BY <1>0, <2>1, <2>2, <2>3 DEF Held
  <1>7. CASE Return(s) \/ Stop(s)
    BY <1>0, <1>7, AfterEnd DEF Held, Idle, NoWatch, NoRows
  <1>8. ASSUME NEW u \in Scanner, ScanStep(u)
        PROVE  Held(s)'
    <2>1. ScanStep(s)
      BY <1>8 DEF OneScanner
    <2> QED BY <1>2, <1>3, <1>4, <1>5, <1>6, <1>7, <2>1 DEF ScanStep
  <1>9. ASSUME NEW f \in Fp, NEW now \in SUBSET RowVal, Drift(f, now)
        PROVE  Held(s)'
    <2>1. /\ scan' = scan /\ estate'[f] = now /\ \A x \in Fp \ {f} : estate'[x] = estate[x]
          /\ \A x \in Fp : stood'[x] = IF x = f THEN stood[f] \cap now ELSE stood[x]
      BY <1>0, <1>9, AfterDrift
    <2>2. CASE scan[s].pc = "idle"
      <3>1. watch'[s] = watch[s]
        BY <1>0, <1>9, <2>2, AfterDrift
      <3> QED BY <1>0, <2>1, <2>2, <3>1 DEF Held
    <2>3. CASE scan[s].pc # "idle"
      <3>1. \A x \in Fp : watch'[s].held[x] =
               IF x = f THEN watch[s].held[f] \cap now ELSE watch[s].held[x]
        <4>1. watch'[s].held = [watch[s].held EXCEPT ![f] = @ \cap now]
          BY <1>9, <2>3 DEF Drift
        <4>2. watch[s].held \in [Fp -> SUBSET RowVal]
          BY <1>0 DEF TypeOK, Watch
        <4> QED BY <4>1, <4>2
      <3> QED BY <1>0, <2>1, <2>3, <3>1 DEF Held
    <2> QED BY <2>2, <2>3
  <1>10. UNCHANGED vars => scan' = scan /\ watch' = watch /\ estate' = estate /\ stood' = stood
    BY DEF vars
  <1> QED BY <1>1, <1>8, <1>9, <1>10, AfterOperate DEF Next

LEMMA StoodHere ==
    ASSUME SInv, NEW s \in Scanner, Commit(s), OneScanner, NEW f \in Fp
    PROVE  /\ stood'[f] \subseteq estate'[f]
           /\ trail'[f].whole /\ findings'[f].status = "active" =>
                 stood'[f] \subseteq findings'[f].rows
  <1>0. TypeOK /\ Proof(s) /\ Held(s) /\ Stood
    BY DEF SInv, AInv, IInv
  <1>1. /\ findings'[f] = Stored(s, f) /\ trail'[f] = Logged(s, f) /\ estate' = estate
        /\ stood'[f] = IF Opens(s, f) THEN watch[s].held[f] ELSE stood[f]
        /\ scan[s].pc = "resolve"
    BY <1>0, AfterCommit
  <1>2. scan[s].known = findings
    BY <1>1 DEF SInv, AInv, Current, InTransaction
  <1>3. findings[f] \in Finding /\ trail[f] \in Trail
    BY <1>0 DEF TypeOK
  <1>4. stood'[f] \subseteq estate'[f]
    BY <1>0, <1>1 DEF Held, Stood
  <1>5. CASE Opens(s, f)
    <2>1. /\ Stored(s, f).rows = scan[s].found[f]
          /\ Logged(s, f).whole <=> f[1] \in scan[s].ran
      BY <1>5 DEF Stored, Logged, Opens
    <2> QED BY <1>0, <1>1, <1>4, <1>5, <2>1 DEF Held
  <1>6. CASE Compares(s, f)
    <2>1. ~Opens(s, f) /\ f[1] \in scan[s].ran /\ f[2] \in scan[s].covered
      BY <1>0, <1>6 DEF Opens, Compares, Seen, Proof
    <2>2. Stored(s, f).rows = scan[s].found[f]
      BY <1>6, <2>1 DEF Stored, Compares
    <2> QED BY <1>0, <1>1, <1>4, <2>1, <2>2 DEF Held
  <1>7. CASE f \in Seen(s) /\ ~Opens(s, f) /\ ~Compares(s, f)
    <2>1. findings[f].status = "active" /\ f \notin scan[s].stale
      <3>1. findings[f].status = "active"
        BY <1>2, <1>7 DEF Opens, Was
      <3>2. f \notin scan[s].stale
        BY <1>0, <1>1, <1>7 DEF Proof, Seen
      <3> QED BY <3>1, <3>2
    <2>2. Stored(s, f).rows = findings[f].rows /\ Logged(s, f) = trail[f]
      BY <1>7, <2>1 DEF Stored, Logged
    <2> QED BY <1>0, <1>1, <1>4, <1>7, <2>1, <2>2 DEF Stood
  <1>8. CASE f \notin Seen(s) /\ f \in scan[s].stale
    <2>1. Stored(s, f).status = "fixed"
      BY <1>3, <1>8 DEF Stored, Resolved, Finding
    <2> QED BY <1>1, <1>4, <2>1
  <1>9. CASE f \notin Seen(s) /\ f \notin scan[s].stale
    <2>1. Stored(s, f) = findings[f] /\ Logged(s, f) = trail[f] /\ ~Opens(s, f)
      BY <1>9 DEF Stored, Logged, Opens, Compares
    <2> QED BY <1>0, <1>1, <1>4, <2>1 DEF Stood
  <1> QED BY <1>5, <1>6, <1>7, <1>8, <1>9

LEMMA StoodStep ==
    ASSUME SInv, OneScanner, [Next]_vars
    PROVE  Stood'
  <1>0. TypeOK /\ Stood
    BY DEF SInv, AInv, IInv
  <1>1. ASSUME NEW s \in Scanner, Commit(s)
        PROVE  Stood'
    BY <1>1, StoodHere DEF Stood
  <1>2. ASSUME NEW r \in Rule, ClearFindings(r) \/ DeleteRule(r)
        PROVE  Stood'
    <2>1. estate' = estate /\ stood' = stood
      BY <1>2 DEF ClearFindings, DeleteRule
    <2>2. \A f \in Fp : \/ findings'[f] = NoFinding /\ trail'[f] = NoTrail
                        \/ findings'[f] = findings[f] /\ trail'[f] = trail[f]
      BY <1>2, AfterRemoval
    <2> QED BY <1>0, <2>1, <2>2 DEF Stood, NoTrail
  <1>3. ASSUME NEW f \in Fp, NEW now \in SUBSET RowVal, Drift(f, now)
        PROVE  Stood'
    <2>1. /\ findings' = findings /\ trail' = trail
          /\ estate'[f] = now /\ \A x \in Fp \ {f} : estate'[x] = estate[x]
          /\ \A x \in Fp : stood'[x] = IF x = f THEN stood[f] \cap now ELSE stood[x]
      BY <1>0, <1>3, AfterDrift
    <2> QED BY <1>0, <2>1 DEF Stood
  <1>4. CASE findings' = findings /\ trail' = trail /\ stood' = stood
             /\ ~(\E f \in Fp, now \in SUBSET RowVal : Drift(f, now))
    <2>1. estate' = estate
      BY <1>0, <1>4, Elsewhere, AfterOperate DEF Next, vars
    <2> QED BY <1>0, <1>4, <2>1 DEF Stood
  <1> QED BY <1>1, <1>2, <1>3, <1>4, WhoWrites

LEMMA GainsStep ==
    ASSUME SInv, [Next]_vars, NEW s \in Scanner, Commits(s), NEW f \in Fp, trail[f].whole
    PROVE  scan'[s].gained[f] \cap stood[f] = {}
  <1>1. TypeOK /\ Stood
    BY DEF SInv, AInv, IInv
  <1>2. /\ scan[s].pc = "resolve"
        /\ scan'[s].gained[f] =
              IF Compares(s, f) THEN scan[s].found[f] \ scan[s].known[f].rows ELSE {}
    BY <1>1, CommitsIsCommit, AfterCommit
  <1>3. scan[s].known = findings
    BY <1>2 DEF SInv, AInv, Current, InTransaction
  <1>4. CASE Compares(s, f)
    <2>1. findings[f].status = "active"
      BY <1>3, <1>4 DEF Compares, Was
    <2>2. stood[f] \subseteq findings[f].rows
      BY <1>1, <2>1 DEF Stood
    <2> QED BY <1>2, <1>3, <1>4, <2>2
  <1>5. CASE ~Compares(s, f)
    BY <1>2, <1>5
  <1> QED BY <1>4, <1>5

\* With one container, a row announced as gained was really away at some moment since
\* a complete scan opened its finding.
THEOREM GainsWereAway ==
    ASSUME OneScanner
    PROVE  Spec => GainsAreReal
  <1>0. Alone
    BY DEF Alone
  <1>1. Init => SInv
    <2> SUFFICES ASSUME Init PROVE SInv
      OBVIOUS
    <2>1. \A s \in Scanner : Held(s)
      BY DEF Init, Held, Idle, NoWatch, NoRows
    <2>2. Stood
      BY DEF Init, Stood, NoTrail, NoRows
    <2> QED BY <2>1, <2>2, StartsAlone DEF SInv
  <1>2. SInv /\ [Next]_vars => SInv'
    <2> SUFFICES ASSUME SInv, [Next]_vars PROVE SInv'
      OBVIOUS
    <2>1. AInv'
      BY <1>0, Inductive, CurrentStep, AgreeStep DEF SInv, AInv
    <2> QED BY <2>1, HeldStep, StoodStep DEF SInv
  <1>3. SInv /\ [Next]_vars =>
           \A s \in Scanner : Commits(s) =>
              \A f \in Fp : trail[f].whole => scan'[s].gained[f] \cap stood[f] = {}
    BY GainsStep
  <1> QED BY <1>1, <1>2, <1>3, PTL DEF Spec, GainsAreReal

-----------------------------------------------------------------------------

(* ReadSession, for any screens, filters, texts and bound: whatever order reads, *)
(* answers, aborts and resets come in.                                          *)

Maybe(S) == S \cup {None}

FeedRead == [id : Nat, query : Queries, at : {"asked", "answered", "failed", "refused"},
             version : Nat, stale : Maybe(Answers)]
LazyRead == [query : Queries, epoch : Nat, at : {"asked", "answered", "failed"}, version : Nat]
State == [status : {"loading", "ready", "failed", "refused"}, query : Maybe(Queries), data : Maybe(Answers)]
Entry == [status : {"none", "loading", "ready", "failed"}, version : Nat]

FeedTypes ==
    /\ latest \in Nat
    /\ requested \in Maybe(Queries) /\ current \in Maybe(Queries) /\ pending \in Maybe(Queries)
    /\ reads \subseteq FeedRead
    /\ shown \in State

Types ==
    /\ stored \in Nat /\ since \in Nat /\ since <= stored
    /\ wanted \in Queries
    /\ epoch \in Nat /\ entries \in [Queries -> Entry] /\ lazy \subseteq LazyRead
    /\ FeedTypes

(* The reads on their way are told apart by their numbers, and the newest   *)
(* was started for the request the feed last asked about.                   *)
Numbered ==
    /\ \A r \in reads : r.id <= latest
    /\ \A r, s \in reads : r.id = s.id => r = s

(* While the newest read is out the screen loads, with what it would show   *)
(* if that read failed; the read saw everything since the last refresh.     *)
NewestIsOut ==
    \A r \in reads : r.id = latest =>
        /\ r.query = current
        /\ shown.status = "loading" /\ shown.data = r.stale
        /\ r.at = "answered" => r.version >= since

(* Nothing is read before the first request. *)
NothingFirst == current = None => reads = {} /\ shown.status = "loading"

Refused == shown.status = "refused" => shown.data = None

LazyFresh ==
    \A r \in lazy : /\ r.epoch <= epoch
                    /\ r.epoch = epoch /\ r.at = "answered" => r.version >= since

ScreenIInv == Types /\ Numbered /\ NewestIsOut /\ NothingFirst /\ Refused /\ LazyFresh /\ ShowsTheNewest

FeedInv == Numbered /\ NewestIsOut /\ NothingFirst /\ Refused

(* The feed's half of ShowsTheNewest. *)
ReadyIsNewest ==
    shown.status = "ready" =>
        /\ shown.data.query = shown.query /\ shown.query = current
        /\ shown.data.version >= since

EntriesFresh == \A q \in Queries : entries[q].status = "ready" => entries[q].version >= since

LEMMA InitScreenIInv == ASSUME ScreenInit PROVE ScreenIInv
BY ReadSessionAssumption
   DEF ScreenInit, ScreenIInv, Types, FeedTypes, Numbered, NewestIsOut, NothingFirst, Refused, LazyFresh,
       ShowsTheNewest, Maybe, State, Entry, NoEntry

-----------------------------------------------------------------------------
(* A new read: whatever it is for, and whether or not it comes with a refresh. *)

LEMMA FeedStarts ==
    ASSUME FeedTypes, Numbered, NEW q \in Queries, Start(q), pending' \in Maybe(Queries)
    PROVE  /\ FeedTypes' /\ Numbered' /\ NewestIsOut' /\ NothingFirst' /\ Refused'
           /\ shown'.status = "loading" /\ current' # None
<1> DEFINE new == [id |-> latest + 1, query |-> q, at |-> "asked", version |-> 0, stale |-> StaleOf(shown)]
<1>1. StaleOf(shown) \in Maybe(Answers)
  BY DEF FeedTypes, State, Maybe, StaleOf
<1>2. /\ new \in FeedRead /\ new.id = latest + 1 /\ new.query = q /\ new.at = "asked"
      /\ new.stale = StaleOf(shown)
  BY <1>1 DEF FeedRead, FeedTypes
<1>3. /\ reads' = Aborted(reads) \cup {new} /\ Aborted(reads) \subseteq reads
      /\ latest' = latest + 1 /\ current' = q /\ requested' = q
      /\ shown' = [status |-> "loading", query |-> q, data |-> StaleOf(shown)]
  BY DEF Start, Aborted
<1> HIDE DEF new
<1>4. FeedTypes'
  BY <1>1, <1>2, <1>3 DEF FeedTypes, State, Maybe
<1>5. \A r \in reads : r.id \in Nat /\ r.id <= latest
  BY DEF Numbered, FeedTypes, FeedRead
<1>6. latest \in Nat
  BY DEF FeedTypes
<1>7. Numbered'
  BY <1>2, <1>3, <1>5, <1>6 DEF Numbered
<1>8. NewestIsOut'
  <2> SUFFICES ASSUME NEW r \in reads', r.id = latest'
               PROVE  /\ r.query = current' /\ shown'.status = "loading" /\ shown'.data = r.stale
                      /\ r.at = "answered" => r.version >= since'
    BY DEF NewestIsOut
  <2>1. r = new
    BY <1>3, <1>5, <1>6
  <2> QED BY <2>1, <1>2, <1>3
<1>9. q # None
  BY ReadSessionAssumption
<1> QED BY <1>3, <1>4, <1>7, <1>8, <1>9 DEF NothingFirst, Refused

LEMMA Requests ==
    ASSUME FeedTypes, FeedInv, ReadyIsNewest, since' = since, NEW q \in Queries, Request(q)
    PROVE  FeedTypes' /\ FeedInv' /\ ReadyIsNewest'
<1> USE DEF FeedInv
<1>1. CASE AskedAlready(q) \/ Waits(q)
  <2>1. /\ latest' = latest /\ requested' = requested /\ current' = current
        /\ reads' = reads /\ shown' = shown /\ pending' \in Maybe(Queries)
    BY <1>1 DEF AskedAlready, Waits, Maybe
  <2> QED BY <2>1 DEF FeedTypes, Numbered, NewestIsOut, NothingFirst, Refused, ReadyIsNewest
<1>2. CASE AskedNow(q)
  <2>1. Start(q) /\ pending' \in Maybe(Queries)
    BY <1>2 DEF AskedNow, Maybe
  <2> QED BY <2>1, FeedStarts DEF ReadyIsNewest
<1> QED BY <1>1, <1>2 DEF Request

LEMMA Refreshes ==
    ASSUME FeedTypes, FeedInv, current # None, RefreshFeed
    PROVE  FeedTypes' /\ FeedInv' /\ ReadyIsNewest'
<1>1. (IF pending # None THEN pending ELSE current) \in Queries
  BY DEF FeedTypes, Maybe
<1>2. pending' \in Maybe(Queries)
  BY DEF RefreshFeed, Maybe
<1> QED BY <1>1, <1>2, FeedStarts DEF RefreshFeed, FeedInv, ReadyIsNewest

-----------------------------------------------------------------------------
(* A read that changes on its way. *)

(* Reads among themselves: one of them changes, but for its number, its request and what it would leave. *)
LEMMA Changes ==
    ASSUME FeedTypes, FeedInv, ReadyIsNewest, NEW r \in reads, NEW x \in FeedRead,
           x.id = r.id, x.query = r.query, x.stale = r.stale, x.at = "answered" => x.version >= since,
           reads' = (reads \ {r}) \cup {x}, since' = since,
           UNCHANGED <<latest, requested, current, pending, shown>>
    PROVE  FeedTypes' /\ FeedInv' /\ ReadyIsNewest'
<1>1. FeedTypes'
  BY DEF FeedTypes
<1>2. Numbered'
  BY DEF FeedInv, Numbered
<1>3. NewestIsOut'
  BY DEF FeedInv, NewestIsOut
<1> QED BY <1>1, <1>2, <1>3 DEF FeedInv, NothingFirst, Refused, ReadyIsNewest

LEMMA Delivers ==
    ASSUME FeedTypes, FeedInv, ReadyIsNewest, since' = since, Deliver
    PROVE  FeedTypes' /\ FeedInv' /\ ReadyIsNewest'
<1> PICK r \in reads : /\ r.at # "asked" /\ reads' = reads \ {r}
                       /\ shown' = IF IsLatest(r) THEN Publish(r) ELSE shown
  BY DEF Deliver
<1>1. UNCHANGED <<latest, requested, current, pending>>
  BY DEF Deliver
<1>2. r \in FeedRead /\ r.at \in {"answered", "failed", "refused"}
  BY DEF FeedTypes, FeedRead
<1>3. Numbered'
  BY <1>1 DEF FeedInv, Numbered
<1>4. CASE IsLatest(r)
  <2>1. /\ shown' = Publish(r) /\ r.query = current /\ r.id = latest
        /\ r.at = "answered" => r.version >= since
    BY <1>4 DEF IsLatest, FeedInv, NewestIsOut
  <2>2. current # None
    BY DEF FeedInv, NothingFirst
  <2>3. shown' \in State
    BY <1>2, <2>1 DEF Publish, State, FeedRead, Maybe, Answers
  <2>4. \A s \in reads' : s.id # latest
    BY <2>1 DEF FeedInv, Numbered
  <2>5. NewestIsOut'
    BY <2>4, <1>1 DEF NewestIsOut
  <2>6. Refused' /\ ReadyIsNewest'
    BY <1>1, <1>2, <2>1 DEF Publish, Refused, ReadyIsNewest
  <2> QED BY <1>1, <1>3, <2>2, <2>3, <2>5, <2>6 DEF FeedTypes, FeedInv, NothingFirst
<1>5. CASE ~IsLatest(r)
  BY <1>1, <1>3, <1>5 DEF FeedTypes, FeedInv, NewestIsOut, NothingFirst, Refused, ReadyIsNewest
<1> QED BY <1>4, <1>5

LEMMA Leaves ==
    ASSUME FeedTypes, FeedInv, ReadyIsNewest, since' = since,
           pending' = None, latest' = latest + 1, requested' = None,
           reads' = Aborted(reads), current' = current, shown' = shown
    PROVE  FeedTypes' /\ FeedInv' /\ ReadyIsNewest'
<1>1. \A r \in reads' : r \in reads /\ r.id \in Nat /\ r.id <= latest
  BY DEF Aborted, FeedInv, Numbered, FeedTypes, FeedRead
<1>2. latest \in Nat
  BY DEF FeedTypes
<1> QED BY <1>1, <1>2 DEF FeedTypes, FeedInv, Numbered, NewestIsOut, NothingFirst, Refused, ReadyIsNewest, Maybe

-----------------------------------------------------------------------------
(* The lazy reads *)

LazyTypes == epoch \in Nat /\ entries \in [Queries -> Entry] /\ lazy \subseteq LazyRead

LEMMA Loads ==
    ASSUME LazyTypes, LazyFresh, EntriesFresh, since \in Nat, since' = since, NEW q \in Queries, Load(q)
    PROVE  LazyTypes' /\ LazyFresh' /\ EntriesFresh'
<1> DEFINE new == [query |-> q, epoch |-> epoch, at |-> "asked", version |-> 0]
<1>1. new \in LazyRead /\ new.epoch = epoch /\ new.at = "asked"
  BY DEF LazyTypes, LazyRead
<1>2. lazy' = lazy \cup {new} /\ epoch' = epoch
  BY DEF Load
<1> HIDE DEF new
<1>3. entries' = [entries EXCEPT ![q] = [status |-> "loading", version |-> 0]]
  BY DEF Load
<1>4. LazyTypes'
  BY <1>1, <1>2, <1>3 DEF LazyTypes, Entry
<1>5. LazyFresh'
  BY <1>1, <1>2 DEF LazyFresh, LazyTypes
<1>6. EntriesFresh'
  BY <1>3 DEF EntriesFresh, LazyTypes
<1> QED BY <1>4, <1>5, <1>6

LEMMA LazyChanges ==
    ASSUME LazyTypes, LazyFresh, EntriesFresh, since' = since, NEW r \in lazy, NEW x \in LazyRead,
           x.epoch = r.epoch, x.at = "answered" => x.version >= since,
           lazy' = (lazy \ {r}) \cup {x}, epoch' = epoch, entries' = entries
    PROVE  LazyTypes' /\ LazyFresh' /\ EntriesFresh'
BY DEF LazyTypes, LazyFresh, EntriesFresh

LEMMA LazyDelivers ==
    ASSUME LazyTypes, LazyFresh, EntriesFresh, since' = since, DeliverLazy
    PROVE  LazyTypes' /\ LazyFresh' /\ EntriesFresh'
<1> PICK r \in lazy : /\ r.at # "asked" /\ lazy' = lazy \ {r}
                      /\ entries' = IF r.epoch # epoch THEN entries
                                    ELSE [entries EXCEPT ![r.query] =
                                            [status |-> IF r.at = "answered" THEN "ready" ELSE "failed",
                                             version |-> r.version]]
  BY DEF DeliverLazy
<1>1. epoch' = epoch
  BY DEF DeliverLazy
<1>2. r.query \in Queries /\ r.version \in Nat
  BY DEF LazyTypes, LazyRead
<1>3. LazyFresh'
  BY <1>1 DEF LazyFresh
<1>4. LazyTypes'
  BY <1>1, <1>2 DEF LazyTypes, Entry
<1>5. EntriesFresh'
  BY <1>2 DEF EntriesFresh, LazyTypes, LazyFresh
<1> QED BY <1>3, <1>4, <1>5

LEMMA Resets ==
    ASSUME LazyTypes, LazyFresh, Reset
    PROVE  LazyTypes' /\ LazyFresh' /\ EntriesFresh'
<1>1. \A r \in lazy : r.epoch \in Nat /\ r.epoch <= epoch
  BY DEF LazyTypes, LazyRead, LazyFresh
<1> QED BY <1>1 DEF Reset, LazyTypes, LazyFresh, EntriesFresh, Entry, NoEntry

-----------------------------------------------------------------------------

World == stored \in Nat /\ since \in Nat /\ since <= stored /\ wanted \in Queries

LEMMA IInvIs ==
    ScreenIInv <=> World /\ LazyTypes /\ LazyFresh /\ EntriesFresh /\ FeedTypes /\ FeedInv /\ ReadyIsNewest
BY DEF ScreenIInv, Types, World, LazyTypes, EntriesFresh, FeedInv, ReadyIsNewest, ShowsTheNewest

FeedHolds == FeedTypes /\ FeedInv /\ ReadyIsNewest
LazyHolds == LazyTypes /\ LazyFresh /\ EntriesFresh

LEMMA FeedStays == ASSUME FeedHolds, UNCHANGED feedVars, since' = since PROVE FeedHolds'
BY DEF FeedHolds, feedVars, FeedTypes, FeedInv, Numbered, NewestIsOut, NothingFirst, Refused, ReadyIsNewest

LEMMA LazyStays == ASSUME LazyHolds, UNCHANGED lazyVars, since' = since PROVE LazyHolds'
BY DEF LazyHolds, lazyVars, LazyTypes, LazyFresh, EntriesFresh

LEMMA ScreenSteps == ASSUME ScreenIInv, [ScreenNext]_screenVars PROVE ScreenIInv'
<1>1. World /\ FeedHolds /\ LazyHolds
  BY IInvIs DEF FeedHolds, LazyHolds
<1> SUFFICES World' /\ FeedHolds' /\ LazyHolds'
  BY DEF World, FeedHolds, LazyHolds, ScreenIInv, Types, LazyTypes, EntriesFresh, FeedInv, ReadyIsNewest, ShowsTheNewest
<1>2. CASE Change
  BY <1>1, <1>2, FeedStays, LazyStays DEF Change, World
<1>3. CASE RequestEffect
  <2>1. Request(wanted) /\ since' = since /\ UNCHANGED lazyVars /\ World'
    BY <1>1, <1>3 DEF RequestEffect, World, worldVars
  <2> QED BY <1>1, <2>1, Requests, LazyStays DEF FeedHolds, World
<1>4. CASE Refresh
  <2>1. World'
    BY <1>1, <1>4 DEF Refresh, World
  <2>2. LazyHolds'
    BY <1>1, <1>4, Resets DEF Refresh, LazyHolds
  <2>3. CASE current # None
    BY <1>1, <1>4, <2>1, <2>2, <2>3, Refreshes DEF Refresh, FeedHolds
  <2>4. CASE current = None
    <3>1. UNCHANGED feedVars
      BY <1>4, <2>4 DEF Refresh
    <3>2. reads = {} /\ shown.status = "loading"
      BY <1>1, <2>4 DEF FeedHolds, FeedInv, NothingFirst
    <3> QED BY <1>1, <2>1, <2>2, <3>1, <3>2 DEF feedVars, FeedHolds, FeedTypes, FeedInv, Numbered, NewestIsOut,
                                   NothingFirst, Refused, ReadyIsNewest
  <2> QED BY <2>1, <2>2, <2>3, <2>4
<1>5. CASE Retry
  <2>1. RefreshFeed /\ since' = since /\ UNCHANGED lazyVars /\ World' /\ shown.status = "failed"
    BY <1>1, <1>5 DEF Retry, World, worldVars
  <2>2. current # None
    BY <1>1, <2>1 DEF FeedHolds, FeedInv, NothingFirst
  <2> QED BY <1>1, <2>1, <2>2, Refreshes, LazyStays DEF FeedHolds
<1>6. CASE Dispose
  BY <1>1, <1>6, Leaves, LazyStays DEF Dispose, World, FeedHolds
<1>7. CASE Remount
  BY <1>1, <1>7, FeedStays, LazyStays DEF Remount, World, worldVars
<1>8. CASE TypingPauses
  <2>1. Start(pending) /\ pending # None /\ pending' = None /\ since' = since /\ UNCHANGED lazyVars /\ World'
    BY <1>1, <1>8 DEF TypingPauses, World, worldVars
  <2>2. pending \in Queries /\ pending' \in Maybe(Queries)
    BY <1>1, <2>1 DEF FeedHolds, FeedTypes, Maybe
  <2> QED BY <1>1, <2>1, <2>2, FeedStarts, LazyStays DEF FeedHolds, FeedInv, ReadyIsNewest
<1>9. CASE ServerAnswers
  <2>1. /\ World' /\ since' = since /\ stored \in Nat /\ since <= stored /\ since \in Nat
        /\ UNCHANGED <<latest, requested, current, pending, shown, epoch, entries>>
    BY <1>1, <1>9 DEF ServerAnswers, World, worldVars
  <2>2. CASE \E r \in reads : r.at = "asked" /\ reads' = (reads \ {r}) \cup {Answered(r)} /\ UNCHANGED lazy
    <3> PICK r \in reads : reads' = (reads \ {r}) \cup {Answered(r)} /\ UNCHANGED lazy
      BY <2>2
    <3>1. /\ Answered(r) \in FeedRead /\ Answered(r).id = r.id /\ Answered(r).query = r.query
          /\ Answered(r).stale = r.stale /\ Answered(r).version >= since
      BY <1>1, <2>1 DEF Answered, FeedHolds, FeedTypes, FeedRead
    <3> QED BY <1>1, <2>1, <3>1, Changes, LazyStays DEF FeedHolds, lazyVars
  <2>3. CASE \E r \in lazy : r.at = "asked" /\ lazy' = (lazy \ {r}) \cup {Answered(r)} /\ UNCHANGED reads
    <3> PICK r \in lazy : lazy' = (lazy \ {r}) \cup {Answered(r)} /\ UNCHANGED reads
      BY <2>3
    <3>1. Answered(r) \in LazyRead /\ Answered(r).epoch = r.epoch /\ Answered(r).version >= since
      BY <1>1, <2>1 DEF Answered, LazyHolds, LazyTypes, LazyRead
    <3> QED BY <1>1, <2>1, <3>1, LazyChanges, FeedStays DEF LazyHolds, feedVars
  <2> QED BY <1>9, <2>2, <2>3 DEF ServerAnswers
<1>10. CASE Fail
  <2>1. /\ World' /\ since' = since
        /\ UNCHANGED <<latest, requested, current, pending, shown, epoch, entries>>
    BY <1>1, <1>10 DEF Fail, World
  <2>2. CASE \E r \in reads, outcome \in Outcomes :
                reads' = (reads \ {r}) \cup {[r EXCEPT !.at = outcome]} /\ UNCHANGED lazy
    <3> PICK r \in reads, outcome \in {"failed", "refused"} :
                reads' = (reads \ {r}) \cup {[r EXCEPT !.at = outcome]} /\ UNCHANGED lazy
      BY <2>2 DEF Outcomes
    <3> DEFINE x == [r EXCEPT !.at = outcome]
    <3>1. /\ x \in FeedRead /\ x.id = r.id /\ x.query = r.query /\ x.stale = r.stale /\ x.at # "answered"
      BY <1>1 DEF FeedHolds, FeedTypes, FeedRead
    <3> HIDE DEF x
    <3>2. reads' = (reads \ {r}) \cup {x}
      BY DEF x
    <3> QED BY <1>1, <2>1, <3>1, <3>2, Changes, LazyStays DEF FeedHolds, lazyVars
  <2>3. CASE \E r \in lazy : lazy' = (lazy \ {r}) \cup {[r EXCEPT !.at = "failed"]} /\ UNCHANGED reads
    <3> PICK r \in lazy : lazy' = (lazy \ {r}) \cup {[r EXCEPT !.at = "failed"]} /\ UNCHANGED reads
      BY <2>3
    <3> DEFINE x == [r EXCEPT !.at = "failed"]
    <3>1. x \in LazyRead /\ x.epoch = r.epoch /\ x.at # "answered"
      BY <1>1 DEF LazyHolds, LazyTypes, LazyRead
    <3> HIDE DEF x
    <3>2. lazy' = (lazy \ {r}) \cup {x}
      BY DEF x
    <3> QED BY <1>1, <2>1, <3>1, <3>2, LazyChanges, FeedStays DEF LazyHolds, feedVars
  <2> QED BY <1>10, <2>2, <2>3 DEF Fail
<1>11. CASE Deliver
  <2>1. World' /\ since' = since /\ UNCHANGED lazyVars
    BY <1>1, <1>11 DEF Deliver, World, worldVars
  <2> QED BY <1>1, <1>11, <2>1, Delivers, LazyStays DEF FeedHolds
<1>12. CASE Store
  BY <1>1, <1>12, FeedStays, LazyStays DEF Store, World
<1>13. CASE LoadEffect \/ RetryLoad
  <2>1. Load(wanted) /\ World' /\ since' = since /\ UNCHANGED feedVars
    BY <1>1, <1>13 DEF LoadEffect, RetryLoad, World, worldVars
  <2> QED BY <1>1, <2>1, Loads, FeedStays DEF LazyHolds, World
<1>14. CASE DeliverLazy
  <2>1. World' /\ since' = since /\ UNCHANGED feedVars
    BY <1>1, <1>14 DEF DeliverLazy, World, worldVars
  <2> QED BY <1>1, <1>14, <2>1, LazyDelivers, FeedStays DEF LazyHolds
<1>15. CASE UNCHANGED screenVars
  BY <1>1, <1>15, FeedStays, LazyStays DEF screenVars, World, worldVars
<1> QED BY <1>2, <1>3, <1>4, <1>5, <1>6, <1>7, <1>8, <1>9, <1>10, <1>11, <1>12, <1>13, <1>14, <1>15 DEF ScreenNext

(* Every reachable state of the screens satisfies the invariant: whatever is *)
(* on its way answers a request that was made, and the newest request is     *)
(* still out or has been shown.                                              *)
THEOREM AlwaysScreenIInv == ScreenSpec => []ScreenIInv
<1>1. ScreenInit => ScreenIInv
  BY InitScreenIInv
<1>2. ScreenIInv /\ [ScreenNext]_screenVars => ScreenIInv'
  BY ScreenSteps
<1> QED BY <1>1, <1>2, PTL DEF ScreenSpec

(* Whatever order requests, effects, timers, aborts and answers come in, a    *)
(* screen that is ready shows the newest request's own answer, read no       *)
(* earlier than the last refresh; no expanded group is older either.         *)
THEOREM TheNewestIsShown == ScreenSpec => []ShowsTheNewest
BY AlwaysScreenIInv, PTL DEF ScreenIInv

-----------------------------------------------------------------------------

LEMMA KeepsWhatItHas ==
    ASSUME ScreenIInv, [ScreenNext]_screenVars, feed # "explorer", shown.data # None, shown'.data = None
    PROVE  shown'.status = "refused"
<1>1. shown.status # "refused"
  BY DEF ScreenIInv, Refused
<1>2. ASSUME NEW q, Start(q) PROVE FALSE
  <2>1. StaleOf(shown) = shown.data
    BY <1>1 DEF StaleOf
  <2> QED BY <1>2, <2>1 DEF Start
<1>3. ASSUME shown' = shown PROVE FALSE
  BY <1>3
<1>4. CASE Deliver
  <2> PICK r \in reads : r.at # "asked" /\ shown' = IF IsLatest(r) THEN Publish(r) ELSE shown
    BY <1>4 DEF Deliver
  <2>1. IsLatest(r) /\ shown' = Publish(r)
    BY <1>3
  <2>2. r \in FeedRead /\ r.at \in {"answered", "failed", "refused"} /\ shown.data = r.stale
    BY <2>1 DEF ScreenIInv, Types, FeedTypes, FeedRead, NewestIsOut, IsLatest
  <2>3. CASE r.at = "answered"
    <3>1. shown'.data \in Answers
      BY <2>1, <2>2, <2>3 DEF Publish, Answers, FeedRead
    <3> QED BY <3>1, ReadSessionAssumption
  <2>4. CASE r.at = "failed"
    BY <2>1, <2>2, <2>4 DEF Publish
  <2>5. CASE r.at = "refused"
    BY <2>1, <2>5 DEF Publish
  <2> QED BY <2>2, <2>3, <2>4, <2>5
<1>5. CASE RequestEffect
  BY <1>2, <1>3, <1>5 DEF RequestEffect, Request, AskedAlready, Waits, AskedNow
<1>6. CASE Refresh \/ Retry \/ TypingPauses
  BY <1>2, <1>3, <1>6 DEF Refresh, Retry, TypingPauses, RefreshFeed, feedVars
<1>7. CASE Change \/ Dispose \/ Remount \/ ServerAnswers \/ Fail \/ Store
  BY <1>3, <1>7 DEF Change, Dispose, Remount, ServerAnswers, Fail, Store, feedVars
<1>8. CASE LoadEffect \/ RetryLoad \/ DeliverLazy \/ UNCHANGED screenVars
  BY <1>3, <1>8 DEF LoadEffect, RetryLoad, DeliverLazy, screenVars, feedVars
<1> QED BY <1>4, <1>5, <1>6, <1>7, <1>8 DEF ScreenNext

(* On every screen but the Explorer, which clears its groups when a query    *)
(* fails, what a request has shown is not taken away again: only a refusal   *)
(* of the user's access empties the screen.                                  *)
THEOREM AnswersAreKept == ScreenSpec => KeepsAnswer
<1>1. ScreenIInv /\ [ScreenNext]_screenVars =>
        [feed # "explorer" /\ shown.data # None /\ shown'.data = None => shown'.status = "refused"]_screenVars
  BY KeepsWhatItHas
<1> QED BY <1>1, AlwaysScreenIInv, PTL DEF ScreenSpec, KeepsAnswer
=============================================================================
