-------------------------------- MODULE Access --------------------------------
(***************************************************************************)
(* People, their Role and what they hold: lib/db/users.ts,                 *)
(* lib/db/role-assignments.ts, and the mirror of a Linked account's Azure  *)
(* role assignments, lib/access-mirror.ts and access-mirror-refresh.ts.    *)
(*                                                                         *)
(* An Admin holds everything and has no rows.  A Viewer or Editor holds    *)
(* rows an Admin chose (Manual access) or the Scopes the last read of      *)
(* their Linked account found (Mirrored access).  A read takes as long as  *)
(* Azure takes; what it found is written afterwards, in one transaction    *)
(* that looks at the person again.  Three things read: the scheduler's     *)
(* pass over everyone, a sign-in, and an Admin linking an account.         *)
(*                                                                         *)
(* As in Library, a transaction has the database to itself on SQLite; on   *)
(* Postgres it reads, may be overtaken, and writes.  There the code takes  *)
(* row locks on the Admins before it counts them.                          *)
(***************************************************************************)
EXTENDS Naturals, FiniteSets

CONSTANTS Databases,     \* which databases to look at: TRUE is Postgres, FALSE is SQLite
          People,        \* email addresses
          Owner,         \* the Admin a deployment is set up with
          Accounts,      \* Azure accounts one can be linked to
          Scopes,        \* every Scope a row can name
          AzureScopes,   \* those a mirror can write: never Everything
          Everything,    \* the Scope that covers all
          ManualChoices, \* what an Admin may choose as Manual access
          Callers,       \* requests under way
          Pass,          \* the refresh the scheduler has under way
          MaxCalls,      \* a bound: requests received
          MaxChanges,    \* a bound: changes made in Azure
          MaxFailures,   \* a bound: reads of Azure that fail
          None

Rows == [Scopes -> {"none", "viewer", "editor"}]

ASSUME AccessAssumption ==
    /\ Databases \subseteq BOOLEAN /\ Owner \in People
    /\ AzureScopes \subseteq Scopes /\ Everything \in Scopes \ AzureScopes
    /\ ManualChoices \subseteq Rows
    /\ Pass \notin Callers /\ None \notin People \cup Accounts
    /\ MaxCalls \in Nat /\ MaxChanges \in Nat /\ MaxFailures \in Nat

VARIABLES postgres,  \* which of the two databases this deployment runs on
          person,    \* rows of users
          held,      \* rows of role_assignments, by person
          azure,     \* what each account is assigned in Azure
          calls,     \* requests and refreshes under way
          due,       \* whom the scheduler's pass has left, with the account it listed
          received, changes, failures

vars == <<postgres, person, held, azure, calls, due, received, changes, failures>>

Actors == Callers \cup {Pass}

Gone == [role |-> "none", source |-> "none", linked |-> None, status |-> "none"]

NoRows == [s \in Scopes |-> "none"]

OnEverything(role) == [NoRows EXCEPT ![Everything] = role]

MirroredRows(role, found) == [s \in Scopes |-> IF s \in found \cap AzureScopes THEN role ELSE "none"]

HighestRole(rows) == IF \E s \in Scopes : rows[s] = "editor" THEN "editor" ELSE "viewer"

Idle == [op |-> "none", at |-> "idle", on |-> None, role |-> "none", rows |-> NoRows,
         chosen |-> FALSE, account |-> None, found |-> {}, was |-> "none"]

TypeOK ==
    /\ postgres \in BOOLEAN
    /\ person \in [People -> [role : {"none", "admin", "editor", "viewer"},
                              source : {"none", "manual", "mirrored"},
                              linked : Accounts \cup {None}, status : {"none", "ok", "failed"}]]
    /\ held \in [People -> Rows]
    /\ azure \in [Accounts -> SUBSET AzureScopes]
    /\ due \subseteq People \X Accounts
    /\ \A c \in Actors : /\ calls[c].found \subseteq AzureScopes /\ calls[c].rows \in Rows
                         /\ calls[c].at \in {"idle", "asked", "failed", "ready", "tx", "locked"}
    /\ received \in 0..MaxCalls /\ changes \in 0..MaxChanges /\ failures \in 0..MaxFailures

(* A deployment starts with the one Admin it was set up with, and accounts that hold nothing. *)
Init ==
    /\ postgres \in Databases
    /\ person = [u \in People |-> IF u = Owner THEN [Gone EXCEPT !.role = "admin"] ELSE Gone]
    /\ held = [u \in People |-> NoRows]
    /\ azure = [a \in Accounts |-> {}]
    /\ calls = [c \in Actors |-> Idle]
    /\ due = {}
    /\ received = 0 /\ changes = 0 /\ failures = 0

Admins == {u \in People : person[u].role = "admin"}

Exists(u) == person[u].role # "none"

Refreshable(u) == person[u].role # "admin" /\ person[u].source = "mirrored" /\ person[u].linked # None

(* Mutant: mirrored, to whichever account. *)
StillMirrored(row, account) == row.role \notin {"none", "admin"} /\ row.source = "mirrored"

StillMirroredTo(row, account) ==
    row.role \notin {"none", "admin"} /\ row.source = "mirrored" /\ row.linked = account

-----------------------------------------------------------------------------
(* Requests and refreshes arrive. *)

Receive(c, call) ==
    /\ calls[c] = Idle /\ received < MaxCalls
    /\ calls' = [calls EXCEPT ![c] = call]
    /\ received' = received + 1
    /\ UNCHANGED <<postgres, person, held, azure, due, changes, failures>>

Request(op, u, at) == [Idle EXCEPT !.op = op, !.on = u, !.at = at]

ReceiveCreate(c) ==
    \E u \in People :
        /\ ~Exists(u)
        /\ \/ Receive(c, [Request("create", u, "ready") EXCEPT !.role = "admin"])
           \/ \E rows \in ManualChoices :
                Receive(c, [Request("create", u, "ready") EXCEPT !.role = HighestRole(rows), !.rows = rows])
           \/ \E account \in Accounts, role \in {"editor", "viewer"} :
                Receive(c, [Request("create", u, "asked") EXCEPT !.role = role, !.account = account])

(* The route asks for the access a demoted Admin is to hold, and for none otherwise. *)
ReceiveRole(c) ==
    \E u \in People, role \in {"admin", "editor", "viewer"} :
        /\ Exists(u)
        /\ IF person[u].role = "admin" /\ role # "admin"
           THEN \E rows \in ManualChoices :
                  Receive(c, [Request("role", u, "ready") EXCEPT !.role = role, !.rows = rows, !.chosen = TRUE])
           ELSE Receive(c, [Request("role", u, "ready") EXCEPT !.role = role])

ReceiveManual(c) ==
    \E u \in People, rows \in ManualChoices :
        /\ Exists(u) /\ person[u].role # "admin"
        /\ Receive(c, [Request("manual", u, "ready") EXCEPT !.rows = rows])

ReceiveMirror(c) ==
    \E u \in People, account \in Accounts, role \in {"editor", "viewer"} :
        /\ Exists(u) /\ person[u].role # "admin"
        /\ Receive(c, [Request("mirror", u, "asked") EXCEPT !.account = account, !.role = role])

ReceiveDelete(c) == \E u \in People : Exists(u) /\ Receive(c, Request("delete", u, "ready"))

SignIn(c) ==
    \E u \in People :
        /\ Refreshable(u)
        /\ Receive(c, [Request("refresh", u, "asked") EXCEPT !.account = person[u].linked])

(* Mutant: the pass lists only those whose last read failed. *)
StartPassAfterFailures ==
    /\ due = {} /\ calls[Pass] = Idle
    /\ due' = {<<u, person[u].linked>> : u \in {v \in People : Refreshable(v) /\ person[v].status = "failed"}}
    /\ due' # {}
    /\ UNCHANGED <<postgres, person, held, azure, calls, received, changes, failures>>

(* refreshMirrorsIfDue(): everyone as they are now, then one after another. *)
StartPass ==
    /\ due = {} /\ calls[Pass] = Idle
    /\ due' = {<<u, person[u].linked>> : u \in {v \in People : Refreshable(v)}}
    /\ due' # {}
    /\ UNCHANGED <<postgres, person, held, azure, calls, received, changes, failures>>

NextPerson ==
    /\ calls[Pass] = Idle
    /\ \E d \in due :
         /\ calls' = [calls EXCEPT ![Pass] = [Request("refresh", d[1], "asked") EXCEPT !.account = d[2]]]
         /\ due' = due \ {d}
    /\ UNCHANGED <<postgres, person, held, azure, received, changes, failures>>

-----------------------------------------------------------------------------
(* Azure. *)

Assign ==
    /\ changes < MaxChanges
    /\ changes' = changes + 1
    /\ \E account \in Accounts, S \in SUBSET AzureScopes :
         S # azure[account] /\ azure' = [azure EXCEPT ![account] = S]
    /\ UNCHANGED <<postgres, person, held, calls, due, received, failures>>

(* mirrorAccount() never throws: a read ends as Scopes found or as a failure. *)
ReadAzure(c) ==
    /\ calls[c].at = "asked"
    /\ calls' = [calls EXCEPT ![c].at = "ready", ![c].found = azure[calls[c].account]]
    /\ UNCHANGED <<postgres, person, held, azure, due, received, changes, failures>>

FailToRead(c) ==
    /\ calls[c].at = "asked" /\ failures < MaxFailures
    /\ failures' = failures + 1
    /\ calls' = IF calls[c].op \in {"create", "mirror"} THEN [calls EXCEPT ![c] = Idle]
                ELSE [calls EXCEPT ![c].at = "ready", ![c].op = "failure"]
    /\ UNCHANGED <<postgres, person, held, azure, due, received, changes>>

-----------------------------------------------------------------------------
(* Transactions. *)

InTransaction(c) == calls[c].at \in {"tx", "locked"}

CanBegin == ~postgres => \A d \in Actors : ~InTransaction(d)

(* What the transaction finds when it reads the person; FALSE is one of its refusals. *)
Accepts(call) ==
    LET row == person[call.on] IN
    \/ call.op = "create" /\ row.role = "none"
    \/ call.op = "role" /\ row.role \notin {"none", call.role}
    \/ call.op \in {"manual", "mirror"} /\ row.role \notin {"none", "admin"}
    \/ call.op \in {"refresh", "failure"} /\ StillMirroredTo(row, call.account)
    \/ call.op = "delete" /\ row.role # "none"

Begin(c) ==
    /\ calls[c].at = "ready" /\ CanBegin
    /\ calls' = [calls EXCEPT ![c] =
                    IF Accepts(calls[c]) THEN [@ EXCEPT !.at = "tx", !.was = person[calls[c].on].role]
                    ELSE Idle]
    /\ UNCHANGED <<postgres, person, held, azure, due, received, changes, failures>>

(* Mutant: a removal does not count the Admins. *)
ChecksLastAdminOnDemotion(call) == call.op = "role" /\ call.was = "admin"

ChecksLastAdmin(call) == call.op \in {"role", "delete"} /\ call.was = "admin"

(* lockAdminRowsForUpdate(), then the count of the Admins there are by then. *)
LockAdmins(c) ==
    /\ calls[c].at = "tx" /\ ChecksLastAdmin(calls[c])
    /\ \A d \in Actors : calls[d].at # "locked"
    /\ calls' = [calls EXCEPT ![c] = IF Cardinality(Admins) = 1 THEN Idle ELSE [@ EXCEPT !.at = "locked"]]
    /\ UNCHANGED <<postgres, person, held, azure, due, received, changes, failures>>

(* A write to an Admin's row waits for whoever holds the Admins' rows. *)
Commits(c, ops) ==
    /\ calls[c].op \in ops
    /\ calls[c].at = IF ChecksLastAdmin(calls[c]) THEN "locked" ELSE "tx"
    /\ calls[c].on \in Admins => \A d \in Actors \ {c} : calls[d].at # "locked"
    /\ calls' = [calls EXCEPT ![c] = Idle]
    /\ UNCHANGED <<postgres, azure, due, received, changes, failures>>

Writes(u, row, rows) ==
    /\ person' = [person EXCEPT ![u] = row]
    /\ held' = [held EXCEPT ![u] = rows]

(* Mutant: a first read that leaves no status. *)
MirroredUnread(role, account) == [role |-> role, source |-> "mirrored", linked |-> account, status |-> "unread"]

Mirrored(role, account) == [role |-> role, source |-> "mirrored", linked |-> account, status |-> "ok"]

Manual(role) == [role |-> role, source |-> "manual", linked |-> None, status |-> "none"]

Admin == [Gone EXCEPT !.role = "admin"]

(* Two requests for one address: the second insert meets the unique index. *)
CommitCreate(c) ==
    /\ Commits(c, {"create"})
    /\ LET call == calls[c] IN
       IF Exists(call.on) THEN UNCHANGED <<person, held>>
       ELSE IF call.role = "admin" THEN Writes(call.on, Admin, NoRows)
       ELSE IF call.account # None
       THEN Writes(call.on, Mirrored(call.role, call.account), MirroredRows(call.role, call.found))
       ELSE Writes(call.on, Manual(call.role), call.rows)

(* The row a statement of this transaction finds: none once the person is gone. *)
Found(u, row) == IF Exists(u) THEN row ELSE Gone

Kept(u, rows) == IF Exists(u) THEN rows ELSE NoRows

(* Mutant: a promoted person keeps their rows. *)
CommitPromoteKeepsRows(c) ==
    /\ Commits(c, {"role"}) /\ calls[c].role = "admin"
    /\ Writes(calls[c].on, Found(calls[c].on, Admin), held[calls[c].on])

CommitPromote(c) ==
    /\ Commits(c, {"role"}) /\ calls[c].role = "admin"
    /\ Writes(calls[c].on, Found(calls[c].on, Admin), NoRows)

(* Demoted with the access the request chose, or with Everything when it chose none. *)
CommitDemote(c) ==
    /\ Commits(c, {"role"}) /\ calls[c].role # "admin" /\ calls[c].was = "admin"
    /\ LET u == calls[c].on
           rows == calls[c].rows
       IN IF calls[c].chosen
          THEN Writes(u, Found(u, Manual(HighestRole(rows))), Kept(u, rows))
          ELSE Writes(u, Found(u, Manual(calls[c].role)), Kept(u, OnEverything(calls[c].role)))

CommitRole(c) ==
    /\ Commits(c, {"role"}) /\ calls[c].role # "admin" /\ calls[c].was # "admin"
    /\ LET u == calls[c].on
           role == calls[c].role
       IN Writes(u, Found(u, [person[u] EXCEPT !.role = role]),
                 [s \in Scopes |-> IF held[u][s] = "none" THEN "none" ELSE role])

CommitManual(c) ==
    /\ Commits(c, {"manual"})
    /\ LET u == calls[c].on
           rows == calls[c].rows
       IN Writes(u, Found(u, Manual(HighestRole(rows))), Kept(u, rows))

CommitMirror(c) ==
    /\ Commits(c, {"mirror"})
    /\ LET u == calls[c].on
           call == calls[c]
       IN Writes(u, Found(u, Mirrored(call.role, call.account)),
                 Kept(u, MirroredRows(call.role, call.found)))

CommitRefresh(c) ==
    /\ Commits(c, {"refresh"})
    /\ LET u == calls[c].on
       IN Writes(u, Found(u, [person[u] EXCEPT !.status = "ok"]),
                 Kept(u, MirroredRows(calls[c].was, calls[c].found)))

CommitFailure(c) ==
    /\ Commits(c, {"failure"})
    /\ person' = [person EXCEPT ![calls[c].on] = Found(calls[c].on, [@ EXCEPT !.status = "failed"])]
    /\ UNCHANGED held

CommitDelete(c) == Commits(c, {"delete"}) /\ Writes(calls[c].on, Gone, NoRows)

Commit(c) ==
    \/ CommitCreate(c) \/ CommitPromote(c) \/ CommitDemote(c) \/ CommitRole(c) \/ CommitManual(c)
    \/ CommitMirror(c) \/ CommitRefresh(c) \/ CommitFailure(c) \/ CommitDelete(c)

Advance(c) == ReadAzure(c) \/ Begin(c) \/ LockAdmins(c) \/ Commit(c)

Next ==
    \/ \E c \in Callers : \/ ReceiveCreate(c) \/ ReceiveRole(c) \/ ReceiveManual(c)
                          \/ ReceiveMirror(c) \/ ReceiveDelete(c) \/ SignIn(c)
    \/ StartPass \/ NextPerson \/ Assign
    \/ \E c \in Actors : Advance(c) \/ FailToRead(c)

Spec == Init /\ [][Next]_vars

(* The scheduler ticks, its pass goes on to the next person, and every     *)
(* request and refresh goes on to its next step.                           *)
Fairness ==
    /\ WF_vars(StartPass) /\ WF_vars(NextPerson)
    /\ \A c \in Actors : WF_vars(Advance(c))

FairSpec == Spec /\ Fairness

-----------------------------------------------------------------------------
(* A deployment never loses its last Admin, on SQLite, whoever demotes and *)
(* removes whom at once (updateUserRole, deleteUser).                      *)
AdminRemains == ~postgres => Admins # {}

(* What a person holds fits where it came from, on SQLite: an Admin has no *)
(* rows and no account; a mirrored person has an account and the rows of   *)
(* a mirror, all at the person's Role; nobody else has an account, and no  *)
(* row is above the person's Role.                                         *)
RowsFitSource ==
    ~postgres => \A u \in People :
        /\ person[u].role \in {"none", "admin"} => person[u] \in {Gone, Admin} /\ held[u] = NoRows
        /\ person[u].source = "mirrored" =>
              /\ person[u].linked # None /\ person[u].status # "none"
              /\ \E S \in SUBSET AzureScopes : held[u] = MirroredRows(person[u].role, S)
        /\ person[u].source = "manual" => person[u].linked = None /\ person[u].status = "none"
        /\ (\E s \in Scopes : held[u][s] = "editor") => person[u].role = "editor"

(* A refresh, however long it took, writes only to a person who is still   *)
(* mirrored to the account it read, on SQLite: a hand-made change made     *)
(* while it ran stands (recordMirrorRefresh).                              *)
HandMadeStands ==
    [][~postgres => \A c \in Actors, u \in People :
          CommitRefresh(c) /\ calls[c].on = u /\ ~(Refreshable(u) /\ person[u].linked = calls[c].account) =>
              held'[u] = held[u] /\ person'[u] = person[u]]_vars

(* The same whatever the database, as users.ts:279 has it: "so it can      *)
(* never overwrite a hand-made change".  On Postgres the code breaks it.   *)
NeverOverwrites ==
    [][\A c \in Actors, u \in People :
          CommitRefresh(c) /\ calls[c].on = u /\ person[u].source = "manual" => held'[u] = held[u]]_vars

(* Once Azure stops changing and its reads stop failing, everyone who      *)
(* stays mirrored ends up holding what Azure gives, late reads included.   *)
MirrorCatchesUp ==
    <>[](\A u \in People :
            Refreshable(u) => held[u] = MirroredRows(person[u].role, azure[person[u].linked]))
=============================================================================
