------------------------------- MODULE Library -------------------------------
(***************************************************************************)
(* Personal rules and Library requests: lib/db/personal-rules.ts,          *)
(* library-requests.ts, library-request-cleanup.ts, deleteUser() of        *)
(* users.ts and the writes of one rule in lib/rules.ts.                    *)
(*                                                                         *)
(* A call is one HTTP request.  Its route checks the person and, in some   *)
(* routes, reads a Personal rule or a library rule; after more awaits (the *)
(* body, the category, a probe of the query, a whole run) it opens one     *)
(* transaction, which reads again what it decides on and then writes.  The *)
(* three moments are steps of their own and the steps of several calls     *)
(* interleave: Receive..., Begin or Refuse, and a Commit... per operation. *)
(*                                                                         *)
(* On SQLite a transaction has the database to itself (SqliteGate).  On    *)
(* Postgres it runs at READ COMMITTED and is kept out only by the advisory *)
(* locks the code names: what it read at its start may be stale when it    *)
(* writes, and each write applies its WHERE to the rows as they are then.  *)
(*                                                                         *)
(* A definition is its name, the one field two rules may not share; names  *)
(* are already trimmed and lower-cased.  The query backend, which no edit  *)
(* changes, and the wording of audit entries are left out.                 *)
(***************************************************************************)
EXTENDS Naturals, FiniteSets

CONSTANTS Users,        \* authors of Personal rules; reviewers stay and are not named
          PersonalIds,  \* ids of Personal rules, drawn once each
          RuleIds,      \* ids of library rules
          Existing,     \* the library rules there are at the start
          Builtin,      \* those of them that ship with the product
          RequestIds,   \* ids of Library requests
          Names,        \* rule names
          Callers,      \* calls that may be under way at once
          MaxCalls,     \* a bound: calls received in all
          None          \* a column that is NULL

ASSUME LibraryAssumption ==
    /\ Builtin \subseteq Existing /\ Existing \subseteq RuleIds
    /\ MaxCalls \in Nat
    /\ None \notin Users \cup PersonalIds \cup RuleIds \cup RequestIds \cup Names

VARIABLES postgres,  \* which of the two databases this deployment runs on
          users,     \* rows of users
          personal,  \* rows of personal_rules
          results,   \* the Personal rules with rows in personal_rule_results
          library,   \* rows of rules
          requests,  \* rows of library_requests
          calls,     \* the calls under way
          received,  \* how many there have been
          copied     \* history: the Personal rule a library rule was copied from

vars == <<postgres, users, personal, results, library, requests, calls, received, copied>>

Stage == {"unused", "live", "gone"}

NameLocked == {"approve", "copy", "create", "update"}

RequestLocked == {"send", "approve", "reject", "withdraw", "deletePersonal"}

Unlocked == {"run", "delete", "deleteUser"}

Operations == NameLocked \cup RequestLocked \cup Unlocked

Idle == [op |-> "none", at |-> "route", by |-> None, on |-> None, name |-> None,
         target |-> None, earlier |-> None]

Call(op, by, on, name) ==
    [Idle EXCEPT !.op = op, !.by = by, !.on = on, !.name = name]

UnsentRequest == [status |-> "unused", personal |-> None, author |-> None, name |-> None,
                  target |-> None, rule |-> None]

NoPersonal == [stage |-> "unused", owner |-> None, name |-> None, source |-> None, rule |-> None]

TypeOK ==
    /\ postgres \in BOOLEAN /\ users \subseteq Users /\ results \subseteq PersonalIds
    /\ personal \in [PersonalIds -> [stage : Stage, owner : Users \cup {None},
                                     name : Names \cup {None}, source : RuleIds \cup {None},
                                     rule : RuleIds \cup {None}]]
    /\ library \in [RuleIds -> [stage : Stage, name : Names \cup {None}]]
    /\ requests \in [RequestIds ->
          [status : {"unused", "open", "approved", "rejected", "withdrawn"},
           personal : PersonalIds \cup {None}, author : Users \cup {None},
           name : Names \cup {None}, target : RuleIds \cup {None}, rule : RuleIds \cup {None}]]
    /\ received \in 0..MaxCalls
    /\ copied \in [RuleIds -> PersonalIds \cup {None}]
    /\ \A c \in Callers : /\ calls[c].op \in Operations \cup {"none", "personalCopy"}
                          /\ calls[c].at \in {"route", "tx"}

Init ==
    /\ postgres \in BOOLEAN
    /\ users = Users
    /\ personal = [p \in PersonalIds |-> NoPersonal]
    /\ results = {}
    /\ \E named \in [Existing -> Names] :
         library = [l \in RuleIds |-> IF l \in Existing THEN [stage |-> "live", name |-> named[l]]
                                     ELSE [stage |-> "unused", name |-> None]]
    /\ requests = [r \in RequestIds |-> UnsentRequest]
    /\ calls = [c \in Callers |-> Idle]
    /\ received = 0
    /\ copied = [l \in RuleIds |-> None]

-----------------------------------------------------------------------------
(* What the handlers look up. *)

Live(l) == library[l].stage = "live"

NameTaken(n, except) == \E l \in RuleIds \ {except} : Live(l) /\ library[l].name = n

Owns(u, p) == personal[p].stage = "live" /\ personal[p].owner = u

HasOpen(p) == \E r \in RequestIds : requests[r].status = "open" /\ requests[r].personal = p

Resubmittable(r, p, u) ==
    requests[r].author = u /\ requests[r].personal = p /\ requests[r].status = "rejected"

(* createLibraryRequest(): a resubmission with no target of its own keeps the earlier one's. *)
TargetOf(call) ==
    IF call.target = None /\ call.earlier # None THEN requests[call.earlier].target ELSE call.target

Editable(l) == Live(l) /\ l \notin Builtin

UpdateNameOk(l, n) == library[l].name = n \/ ~NameTaken(n, l)

-----------------------------------------------------------------------------
(* Transactions. *)

(* Mutant: updateRule() without its advisory lock. *)
LocksButUpdate(op) ==
    IF ~postgres THEN {"gate"}
    ELSE (IF op \in NameLocked \ {"update"} THEN {"name"} ELSE {})
         \cup (IF op \in RequestLocked THEN {"request"} ELSE {})

(* Mutant: createLibraryRequest() without its advisory lock. *)
LocksButSend(op) ==
    IF ~postgres THEN {"gate"}
    ELSE (IF op \in NameLocked THEN {"name"} ELSE {})
         \cup (IF op \in RequestLocked \ {"send"} THEN {"request"} ELSE {})

(* Mutant: replacePersonalRuleResults() without a transaction. *)
LocksButRun(op) ==
    IF ~postgres THEN (IF op = "run" THEN {} ELSE {"gate"})
    ELSE (IF op \in NameLocked THEN {"name"} ELSE {})
         \cup (IF op \in RequestLocked THEN {"request"} ELSE {})

Locks(op) ==
    IF ~postgres THEN {"gate"}
    ELSE (IF op \in NameLocked THEN {"name"} ELSE {})
         \cup (IF op \in RequestLocked THEN {"request"} ELSE {})

CanBegin(op) == \A d \in Callers : calls[d].at = "tx" => Locks(calls[d].op) \cap Locks(op) = {}

(* A statement outside a transaction waits for the gate on SQLite (settle() of exec.ts). *)
Settled == ~postgres => \A d \in Callers : calls[d].at # "tx"

AcceptsSend(call) ==
    /\ ~HasOpen(call.on)
    /\ call.earlier # None => Resubmittable(call.earlier, call.on, call.by)
    /\ TargetOf(call) # None => Editable(TargetOf(call))

AcceptsApprove(call) ==
    LET target == requests[call.on].target IN
    /\ requests[call.on].status = "open"
    /\ IF target = None THEN ~NameTaken(call.name, None)
       ELSE Editable(target) /\ UpdateNameOk(target, call.name)

AcceptsClose(call) ==
    /\ requests[call.on].status = "open"
    /\ call.by # None => requests[call.on].author = call.by

(* Mutant: the copy does not read the Personal rule again. *)
AcceptsCopyUnread(call) == ~NameTaken(call.name, None)

AcceptsCopy(call) ==
    LET rule == personal[call.on].rule IN
    /\ ~(Owns(call.by, call.on) /\ rule # None /\ Live(rule))
    /\ ~NameTaken(call.name, None)

(* What the transaction of a call reads first; FALSE is one of its refusals. *)
Accepts(call) ==
    \/ call.op = "send" /\ AcceptsSend(call)
    \/ call.op = "approve" /\ AcceptsApprove(call)
    \/ call.op \in {"reject", "withdraw"} /\ AcceptsClose(call)
    \/ call.op = "copy" /\ AcceptsCopy(call)
    \/ call.op \in {"run", "deletePersonal"} /\ Owns(call.by, call.on)
    \/ call.op = "create" /\ ~NameTaken(call.name, None)
    \/ call.op = "update" /\ Live(call.on) /\ UpdateNameOk(call.on, call.name)
    \/ call.op = "delete" /\ Live(call.on)
    \/ call.op = "deleteUser" /\ call.on \in users

Begin(c) ==
    /\ calls[c].op \in Operations /\ calls[c].at = "route"
    /\ CanBegin(calls[c].op) /\ Accepts(calls[c])
    /\ calls' = [calls EXCEPT ![c].at = "tx", ![c].target =
                    IF calls[c].op = "send" THEN TargetOf(calls[c]) ELSE @]
    /\ UNCHANGED <<postgres, users, personal, results, library, requests, received, copied>>

Refuse(c) ==
    /\ calls[c].op \in Operations /\ calls[c].at = "route"
    /\ CanBegin(calls[c].op) /\ ~Accepts(calls[c])
    /\ calls' = [calls EXCEPT ![c] = Idle]
    /\ UNCHANGED <<postgres, users, personal, results, library, requests, received, copied>>

-----------------------------------------------------------------------------
(* A call arrives: what its route checks and reads before the transaction. *)

Receive(c, call) ==
    /\ calls[c] = Idle /\ received < MaxCalls
    /\ calls' = [calls EXCEPT ![c] = call]
    /\ received' = received + 1
    /\ UNCHANGED <<postgres, users, personal, results, library, requests, copied>>

UnderWay(op) == Cardinality({c \in Callers : calls[c].op = op})

UnusedRequests == {r \in RequestIds : requests[r].status = "unused"}

UnusedRules == {l \in RuleIds : library[l].stage = "unused"}

UnusedPersonal == {p \in PersonalIds : personal[p].stage = "unused"}

(* Ids run out only in a small instance. *)
RuleIdLeft == UnderWay("copy") + UnderWay("approve") + UnderWay("create") < Cardinality(UnusedRules)

MayUpdate(p, l) ==
    /\ l \in {personal[p].rule, personal[p].source}
    /\ Editable(l)

ReceiveSend(c) ==
    /\ UnderWay("send") < Cardinality(UnusedRequests)
    /\ \E p \in PersonalIds, u \in users, earlier \in RequestIds \cup {None}, target \in RuleIds \cup {None} :
         /\ Owns(u, p)
         /\ target # None => MayUpdate(p, target)
         /\ earlier # None => requests[earlier].status # "unused"
         /\ Receive(c, [Call("send", u, p, personal[p].name) EXCEPT !.earlier = earlier, !.target = target])

ReceiveApprove(c) ==
    /\ RuleIdLeft
    /\ \E r \in RequestIds, n \in Names :
         /\ requests[r].status = "open"
         /\ requests[r].target # None => Editable(requests[r].target)
         /\ Receive(c, Call("approve", None, r, n))

ReceiveReject(c) ==
    \E r \in RequestIds \ UnusedRequests : Receive(c, Call("reject", None, r, None))

ReceiveWithdraw(c) ==
    \E r \in RequestIds \ UnusedRequests, u \in users : Receive(c, Call("withdraw", u, r, None))

ReceiveLibraryCopy(c) ==
    /\ RuleIdLeft
    /\ \E p \in PersonalIds, u \in users :
         Owns(u, p) /\ Receive(c, Call("copy", u, p, personal[p].name))

ReceiveRun(c) ==
    \E p \in PersonalIds, u \in users : Owns(u, p) /\ Receive(c, Call("run", u, p, None))

ReceivePersonalCopy(c) ==
    /\ UnderWay("personalCopy") < Cardinality(UnusedPersonal)
    /\ \E l \in RuleIds, u \in users :
         Live(l) /\ Receive(c, Call("personalCopy", u, l, library[l].name))

ReceiveDeletePersonal(c) ==
    \E p \in PersonalIds, u \in users : Owns(u, p) /\ Receive(c, Call("deletePersonal", u, p, None))

ReceiveDeleteUser(c) == \E u \in users : Receive(c, Call("deleteUser", None, u, None))

ReceiveRuleWrite(c) ==
    \/ RuleIdLeft /\ \E n \in Names : Receive(c, Call("create", None, None, n))
    \/ \E l \in RuleIds, n \in Names : Editable(l) /\ Receive(c, Call("update", None, l, n))
    \/ \E l \in RuleIds : Editable(l) /\ Receive(c, Call("delete", None, l, None))

-----------------------------------------------------------------------------
(* Personal rules: statements outside a transaction. *)

CreatePersonal ==
    /\ Settled
    /\ \E p \in UnusedPersonal, u \in users, n \in Names :
         personal' = [personal EXCEPT ![p] =
            [NoPersonal EXCEPT !.stage = "live", !.owner = u, !.name = n]]
    /\ UnderWay("personalCopy") < Cardinality(UnusedPersonal)
    /\ UNCHANGED <<postgres, users, results, library, requests, calls, received, copied>>

SavePersonalCopy(c) ==
    /\ calls[c].op = "personalCopy" /\ Settled
    /\ \E p \in UnusedPersonal :
         personal' = [personal EXCEPT ![p] =
            [NoPersonal EXCEPT !.stage = "live", !.owner = calls[c].by,
                               !.name = calls[c].name, !.source = calls[c].on]]
    /\ calls' = [calls EXCEPT ![c] = Idle]
    /\ UNCHANGED <<postgres, users, results, library, requests, received, copied>>

EditPersonal ==
    /\ Settled
    /\ \E p \in PersonalIds, n \in Names :
         personal[p].stage = "live" /\ personal' = [personal EXCEPT ![p].name = n]
    /\ UNCHANGED <<postgres, users, results, library, requests, calls, received, copied>>

-----------------------------------------------------------------------------
(* The writes of each transaction, and its commit. *)

Commits(c, op) ==
    /\ calls[c].op = op /\ calls[c].at = "tx"
    /\ calls' = [calls EXCEPT ![c] = Idle]
    /\ UNCHANGED <<postgres, received>>

CommitSend(c) ==
    /\ Commits(c, "send")
    /\ \E r \in UnusedRequests :
         requests' = [requests EXCEPT ![r] =
            [status |-> "open", personal |-> calls[c].on, author |-> calls[c].by,
             name |-> calls[c].name, target |-> calls[c].target, rule |-> None]]
    /\ UNCHANGED <<users, personal, results, library, copied>>

(* setPersonalRuleLibraryRule(): points the Personal rule at the rule it became. *)
Pointed(p, u, l) ==
    IF p # None /\ Owns(u, p) THEN [personal EXCEPT ![p].rule = l] ELSE personal

(* Mutant: the request's own id stored as its rule. *)
ApprovedAsItself(r, l) == [requests EXCEPT ![r].status = "approved", ![r].rule = r]

Approved(r, l) == [requests EXCEPT ![r].status = "approved", ![r].rule = l]

(* updateRuleOn() throws when the row it reads back is gone, and the transaction rolls back. *)
CommitApprove(c) ==
    /\ Commits(c, "approve")
    /\ LET r == calls[c].on
           target == requests[r].target
           p == requests[r].personal
       IN IF target = None
          THEN \E l \in UnusedRules :
                 /\ library' = [library EXCEPT ![l] = [stage |-> "live", name |-> calls[c].name]]
                 /\ requests' = Approved(r, l)
                 /\ personal' = Pointed(p, requests[r].author, l)
          ELSE IF Live(target)
               THEN /\ library' = [library EXCEPT ![target].name = calls[c].name]
                    /\ requests' = Approved(r, target)
                    /\ personal' = Pointed(p, requests[r].author, target)
               ELSE UNCHANGED <<library, requests, personal>>
    /\ UNCHANGED <<users, results, copied>>

CommitReject(c) ==
    /\ Commits(c, "reject")
    /\ requests' = [requests EXCEPT ![calls[c].on].status = "rejected"]
    /\ UNCHANGED <<users, personal, results, library, copied>>

CommitWithdraw(c) ==
    /\ Commits(c, "withdraw")
    /\ requests' = [requests EXCEPT ![calls[c].on].status = "withdrawn"]
    /\ UNCHANGED <<users, personal, results, library, copied>>

CommitCopy(c) ==
    /\ Commits(c, "copy")
    /\ \E l \in UnusedRules :
         /\ library' = [library EXCEPT ![l] = [stage |-> "live", name |-> calls[c].name]]
         /\ personal' = Pointed(calls[c].on, calls[c].by, l)
         /\ copied' = [copied EXCEPT ![l] = calls[c].on]
    /\ UNCHANGED <<users, results, requests>>

CommitRun(c) ==
    /\ Commits(c, "run")
    /\ results' = results \cup {calls[c].on}
    /\ UNCHANGED <<users, personal, library, requests, copied>>

(* Mutant: every request of the set is withdrawn, closed ones too. *)
DetachedAndWithdrawn(R) ==
    [r \in RequestIds |->
        IF r \in R THEN [requests[r] EXCEPT !.personal = None, !.status = "withdrawn"]
        ELSE requests[r]]

(* Of some requests the open ones are withdrawn, and all lose their Personal rule. *)
Detached(R) ==
    [r \in RequestIds |->
        IF r \in R
        THEN [requests[r] EXCEPT !.personal = None,
                                 !.status = IF @ = "open" THEN "withdrawn" ELSE @]
        ELSE requests[r]]

Removed(P) == [p \in PersonalIds |-> IF p \in P THEN [NoPersonal EXCEPT !.stage = "gone"] ELSE personal[p]]

CommitDeletePersonal(c) ==
    /\ Commits(c, "deletePersonal")
    /\ results' = results \ {calls[c].on}
    /\ requests' = Detached({r \in RequestIds : requests[r].personal = calls[c].on})
    /\ personal' = Removed({calls[c].on})
    /\ UNCHANGED <<users, library, copied>>

OwnedBy(u) == {p \in PersonalIds : Owns(u, p)}

CommitDeleteUser(c) ==
    /\ Commits(c, "deleteUser")
    /\ users' = users \ {calls[c].on}
    /\ results' = results \ OwnedBy(calls[c].on)
    /\ requests' = Detached({r \in RequestIds : requests[r].author = calls[c].on})
    /\ personal' = Removed(OwnedBy(calls[c].on))
    /\ UNCHANGED <<library, copied>>

CommitCreate(c) ==
    /\ Commits(c, "create")
    /\ \E l \in UnusedRules :
         library' = [library EXCEPT ![l] = [stage |-> "live", name |-> calls[c].name]]
    /\ UNCHANGED <<users, personal, results, requests, copied>>

CommitUpdate(c) ==
    /\ Commits(c, "update")
    /\ library' = IF Live(calls[c].on) THEN [library EXCEPT ![calls[c].on].name = calls[c].name]
                  ELSE library
    /\ UNCHANGED <<users, personal, results, requests, copied>>

(* Mutant: only the link back to the source is cleared. *)
UnlinkedBack(l) ==
    [p \in PersonalIds |-> [personal[p] EXCEPT !.source = IF @ = l THEN None ELSE @]]

(* A Personal rule keeps no link to a rule that is gone; a request keeps its target. *)
Unlinked(l) ==
    [p \in PersonalIds |->
        [personal[p] EXCEPT !.source = IF @ = l THEN None ELSE @, !.rule = IF @ = l THEN None ELSE @]]

CommitDelete(c) ==
    /\ Commits(c, "delete")
    /\ library' = [library EXCEPT ![calls[c].on] = [stage |-> "gone", name |-> None]]
    /\ personal' = Unlinked(calls[c].on)
    /\ UNCHANGED <<users, results, requests, copied>>

Commit(c) ==
    \/ CommitSend(c) \/ CommitApprove(c) \/ CommitReject(c) \/ CommitWithdraw(c)
    \/ CommitCopy(c) \/ CommitRun(c) \/ CommitDeletePersonal(c) \/ CommitDeleteUser(c)
    \/ CommitCreate(c) \/ CommitUpdate(c) \/ CommitDelete(c)

Arrive(c) ==
    \/ ReceiveSend(c) \/ ReceiveApprove(c) \/ ReceiveReject(c) \/ ReceiveWithdraw(c)
    \/ ReceiveLibraryCopy(c) \/ ReceiveRun(c) \/ ReceivePersonalCopy(c)
    \/ ReceiveDeletePersonal(c) \/ ReceiveDeleteUser(c) \/ ReceiveRuleWrite(c)

Next ==
    \/ CreatePersonal \/ EditPersonal
    \/ \E c \in Callers : Arrive(c) \/ SavePersonalCopy(c) \/ Begin(c) \/ Refuse(c) \/ Commit(c)

Spec == Init /\ [][Next]_vars

-----------------------------------------------------------------------------
(* A Personal rule never has two open requests, however its author's sends *)
(* overlap: createLibraryRequest() looks and inserts under one lock.       *)
OneOpenPerRule ==
    \A r1, r2 \in RequestIds :
        requests[r1].status = "open" /\ requests[r2].status = "open"
        /\ requests[r1].personal = requests[r2].personal /\ requests[r1].personal # None => r1 = r2

(* A Personal rule's libraryRuleId names a rule that exists, although      *)
(* deleteRule() takes neither lock that approvals and copies hold.         *)
PointsToARule == \A p \in PersonalIds : personal[p].rule # None => Live(personal[p].rule)

(* Stored results belong to a Personal rule that exists, on SQLite, where  *)
(* a run that outlives its rule finds it gone (replacePersonalRuleResults).*)
ResultsHaveRule == ~postgres => \A p \in results : personal[p].stage = "live"

(* What is removed leaves nothing that names it: neither a pointer to a     *)
(* library rule nor the results of a Personal one.                         *)
NothingDangles == PointsToARule /\ ResultsHaveRule

(* Two library rules copied from one Personal rule that still exists mean  *)
(* that a request was approved in between, which pointed it elsewhere:     *)
(* clicks on "copy to library" alone, renames between them included, do    *)
(* not add it twice (copyPersonalRuleToLibrary).                           *)
CopiedOnce ==
    \A p \in PersonalIds : \A l1, l2 \in {l \in RuleIds : Live(l) /\ copied[l] = p} :
        personal[p].stage = "live" /\ l1 # l2 =>
            \E r \in RequestIds : requests[r].status = "approved"

(* No step gives two library rules one name.  Pairs that an install held   *)
(* before the check existed stay as they are, and one of a pair can still  *)
(* be saved under its own name (updateRuleOn).                             *)
NoNewDuplicate ==
    [][\A l1, l2 \in RuleIds :
          l1 # l2 /\ library'[l1].stage = "live" /\ library'[l2].stage = "live"
          /\ library'[l1].name = library'[l2].name =>
              Live(l1) /\ Live(l2) /\ library[l1].name = library[l2].name]_vars

(* On SQLite a request that is closed keeps the decision that closed it.   *)
DecidedOnce ==
    [][~postgres => \A r \in RequestIds :
          requests[r].status \in {"approved", "rejected", "withdrawn"} =>
              requests'[r].status = requests[r].status]_vars

(* The comment at users.ts:353: no open request waits for a reviewer on a  *)
(* person who is gone.  A request sent meanwhile breaks it.                *)
NoneWaitsForTheGone ==
    \A r \in RequestIds : requests[r].status = "open" => requests[r].author \in users
=============================================================================
