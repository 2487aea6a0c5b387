------------------------------ MODULE AccessProofs ------------------------------
(* Access for any people, accounts, Scopes and requests: on SQLite an Admin   *)
(* remains, rows fit their source, and a late refresh undoes nothing.         *)
EXTENDS Access, FiniteSetTheorems, TLAPS

Roles == {"none", "admin", "editor", "viewer"}

RowType == [role : Roles, source : {"none", "manual", "mirrored"},
            linked : Accounts \cup {None}, status : {"none", "ok", "failed"}]

CallType ==
    [op : {"none", "create", "role", "manual", "mirror", "delete", "refresh", "failure"},
     at : {"idle", "asked", "failed", "ready", "tx", "locked"},
     on : People \cup {None}, role : Roles, rows : Rows, chosen : BOOLEAN,
     account : Accounts \cup {None}, found : SUBSET AzureScopes, was : Roles]

\* What a request or refresh carries, by what it is and how far it is.
CallOK(call) ==
    /\ call \in CallType
    /\ call.at # "idle" => call.on \in People
    /\ call.at = "asked" => call.account \in Accounts
    /\ call.op = "create" =>
          /\ call.role # "none"
          /\ call.role # "admin" /\ call.account = None => call.role = HighestRole(call.rows)
    /\ call.op = "role" => call.role # "none"
    /\ call.op = "mirror" => call.role \in {"editor", "viewer"} /\ call.account \in Accounts
    /\ call.op \in {"refresh", "failure"} => call.account \in Accounts
    /\ call.op = "refresh" /\ call.at \in {"tx", "locked"} => call.was \in {"editor", "viewer"}
    /\ call.at = "locked" => ChecksLastAdmin(call)

CallsOK == calls \in [Actors -> CallType] /\ \A c \in Actors : CallOK(calls[c])

OneTransaction ==
    ~postgres => \A c, d \in Actors : InTransaction(c) /\ InTransaction(d) => c = d

\* On SQLite what a transaction has read stays true until it commits: the person
\* it accepted, and, once it has counted the Admins, another one.
Current ==
    ~postgres => \A c \in Actors :
        /\ InTransaction(c) => calls[c].was = person[calls[c].on].role /\ Accepts(calls[c])
        /\ calls[c].at = "locked" => \E v \in Admins : v # calls[c].on

\* RowsFitSource, of one person.
Fits(row, rows) ==
    /\ row.role \in {"none", "admin"} => row \in {Gone, Admin} /\ rows = NoRows
    /\ row.source = "mirrored" =>
          /\ row.linked # None /\ row.status # "none"
          /\ \E S \in SUBSET AzureScopes : rows = MirroredRows(row.role, S)
    /\ row.source = "manual" => row.linked = None /\ row.status = "none"
    /\ (\E s \in Scopes : rows[s] = "editor") => row.role = "editor"

AllFit == ~postgres => \A u \in People : Fits(person[u], held[u])

IInv == TypeOK /\ CallsOK /\ OneTransaction /\ Current /\ AllFit /\ AdminRemains

-----------------------------------------------------------------------------
(* Rows, and the records of people. *)

LEMMA SomeRows ==
    /\ NoRows \in Rows
    /\ \A role \in {"none", "editor", "viewer"} : OnEverything(role) \in Rows
    /\ \A role \in {"none", "editor", "viewer"}, S \in SUBSET AzureScopes :
          MirroredRows(role, S) \in Rows
    /\ \A rows \in Rows : HighestRole(rows) \in {"editor", "viewer"}
  BY AccessAssumption DEF NoRows, Rows, OnEverything, MirroredRows, HighestRole

LEMMA SomePeople ==
    /\ Gone \in RowType /\ Admin \in RowType
    /\ Gone.role = "none" /\ Admin.role = "admin"
    /\ \A role \in Roles : Manual(role) \in RowType
    /\ \A role \in Roles, a \in Accounts : Mirrored(role, a) \in RowType
  BY DEF Gone, Admin, Manual, Mirrored, RowType, Roles

LEMMA EmptyFits == Fits(Gone, NoRows) /\ Fits(Admin, NoRows)
  BY DEF Fits, Gone, Admin, NoRows

LEMMA ManualFits ==
    ASSUME NEW rows \in Rows
    PROVE  Fits(Manual(HighestRole(rows)), rows)
  BY SomeRows DEF Fits, Manual, HighestRole, Gone, Admin

LEMMA EverythingFits ==
    ASSUME NEW role \in {"editor", "viewer"}
    PROVE  Fits(Manual(role), OnEverything(role))
  BY DEF Fits, Manual, OnEverything, NoRows, Gone, Admin

LEMMA MirroredFits ==
    ASSUME NEW role \in {"editor", "viewer"}, NEW a \in Accounts, NEW S \in SUBSET AzureScopes
    PROVE  Fits(Mirrored(role, a), MirroredRows(role, S))
  <1>1. a # None
    BY AccessAssumption
  <1>2. \A s \in Scopes : MirroredRows(role, S)[s] \in {"none", role}
    BY DEF MirroredRows
  <1> QED BY <1>1, <1>2 DEF Fits, Mirrored

LEMMA IdleOK == CallOK(Idle) /\ Idle.at = "idle" /\ Idle \in CallType
  BY SomeRows DEF CallOK, Idle, CallType, Roles

-----------------------------------------------------------------------------
LEMMA InitIInv == Init => IInv
  <1> SUFFICES ASSUME Init PROVE IInv
    OBVIOUS
  <1>1. \A c \in Actors : calls[c] = Idle
    BY DEF Init
  <1>2. CallsOK
    BY <1>1, IdleOK DEF CallsOK, Init
  <1>3. person \in [People -> RowType]
    BY SomePeople DEF Init, Admin
  <1>4. held \in [People -> Rows]
    BY SomeRows DEF Init
  <1>5. TypeOK
    <2>1. /\ \A c \in Actors : /\ calls[c].found \subseteq AzureScopes /\ calls[c].rows \in Rows
                               /\ calls[c].at \in {"idle", "asked", "failed", "ready", "tx", "locked"}
      BY <1>2 DEF CallsOK, CallType
    <2>2. received \in 0..MaxCalls /\ changes \in 0..MaxChanges /\ failures \in 0..MaxFailures
      BY AccessAssumption, SMT DEF Init
    <2> QED BY <1>3, <1>4, <2>1, <2>2, AccessAssumption DEF TypeOK, Init, RowType, Roles
  <1>6. OneTransaction /\ Current
    BY <1>1, IdleOK DEF OneTransaction, Current, InTransaction
  <1>7. AllFit
    BY EmptyFits DEF AllFit, Init, Admin
  <1>8. AdminRemains
    BY AccessAssumption DEF AdminRemains, Admins, Init, Gone
  <1> QED BY <1>2, <1>5, <1>6, <1>7, <1>8 DEF IInv

\* A request or refresh that goes on, outside every transaction.
LEMMA CallMoves ==
    ASSUME IInv, NEW c \in Actors, NEW call, CallOK(call), call.at \notin {"tx", "locked"},
           calls' = [calls EXCEPT ![c] = call],
           UNCHANGED <<postgres, person, held, azure>>,
           due' \subseteq People \X Accounts,
           received' \in 0..MaxCalls, changes' \in 0..MaxChanges, failures' \in 0..MaxFailures
    PROVE  IInv'
  <1>1. \A d \in Actors : calls'[d] = IF d = c THEN call ELSE calls[d]
    BY DEF IInv, CallsOK
  <1>2. CallsOK'
    BY <1>1 DEF IInv, CallsOK, CallOK
  <1>3. TypeOK'
    BY <1>2 DEF IInv, TypeOK, CallsOK, CallType
  <1>4. OneTransaction'
    BY <1>1 DEF IInv, OneTransaction, InTransaction
  <1>5. Current'
    BY <1>1 DEF IInv, Current, InTransaction, Accepts, StillMirroredTo, Admins
  <1>6. AllFit' /\ AdminRemains'
    BY DEF IInv, AllFit, AdminRemains, Admins
  <1> QED BY <1>2, <1>3, <1>4, <1>5, <1>6 DEF IInv

\* A request arrives.
LEMMA ReceiveKeeps ==
    ASSUME IInv, NEW c \in Callers, NEW call, CallOK(call), call.at \notin {"tx", "locked"},
           Receive(c, call)
    PROVE  IInv'
  <1>1. received' \in 0..MaxCalls
    BY AccessAssumption, SMT DEF Receive, IInv, TypeOK
  <1>2. c \in Actors
    BY DEF Actors
  <1> QED BY <1>1, <1>2, CallMoves DEF Receive, IInv, TypeOK

LEMMA ArriveKeeps ==
    ASSUME IInv, NEW c \in Callers,
           \/ ReceiveCreate(c) \/ ReceiveRole(c) \/ ReceiveManual(c)
           \/ ReceiveMirror(c) \/ ReceiveDelete(c) \/ SignIn(c)
    PROVE  IInv'
  <1> USE DEF CallType, Request, Idle, Roles
  <1>1. ManualChoices \subseteq Rows /\ NoRows \in Rows /\ None \notin Accounts
        /\ \A rows \in Rows : HighestRole(rows) \in {"editor", "viewer"}
    BY AccessAssumption, SomeRows
  <1>2. CASE ReceiveCreate(c)
    <2>1. PICK u \in People :
             \/ Receive(c, [Request("create", u, "ready") EXCEPT !.role = "admin"])
             \/ \E rows \in ManualChoices :
                  Receive(c, [Request("create", u, "ready") EXCEPT !.role = HighestRole(rows), !.rows = rows])
             \/ \E account \in Accounts, role \in {"editor", "viewer"} :
                  Receive(c, [Request("create", u, "asked") EXCEPT !.role = role, !.account = account])
      BY <1>2 DEF ReceiveCreate
    <2>2. CASE Receive(c, [Request("create", u, "ready") EXCEPT !.role = "admin"])
      <3>1. CallOK([Request("create", u, "ready") EXCEPT !.role = "admin"])
        BY <1>1 DEF CallOK
      <3> QED BY <2>2, <3>1, ReceiveKeeps
    <2>3. ASSUME NEW rows \in ManualChoices,
                 Receive(c, [Request("create", u, "ready") EXCEPT !.role = HighestRole(rows), !.rows = rows])
          PROVE  IInv'
      <3>1. CallOK([Request("create", u, "ready") EXCEPT !.role = HighestRole(rows), !.rows = rows])
        BY <1>1 DEF CallOK
      <3> QED BY <2>3, <3>1, ReceiveKeeps
    <2>4. ASSUME NEW account \in Accounts, NEW role \in {"editor", "viewer"},
                 Receive(c, [Request("create", u, "asked") EXCEPT !.role = role, !.account = account])
          PROVE  IInv'
      <3>1. CallOK([Request("create", u, "asked") EXCEPT !.role = role, !.account = account])
        BY <1>1 DEF CallOK
      <3> QED BY <2>4, <3>1, ReceiveKeeps
    <2> QED BY <2>1, <2>2, <2>3, <2>4
  <1>3. CASE ReceiveRole(c)
    <2>1. PICK u \in People, role \in {"admin", "editor", "viewer"} :
             \/ \E rows \in ManualChoices :
                  Receive(c, [Request("role", u, "ready") EXCEPT !.role = role, !.rows = rows, !.chosen = TRUE])
             \/ Receive(c, [Request("role", u, "ready") EXCEPT !.role = role])
      BY <1>3 DEF ReceiveRole
    <2>2. ASSUME NEW rows \in ManualChoices,
                 Receive(c, [Request("role", u, "ready") EXCEPT !.role = role, !.rows = rows, !.chosen = TRUE])
          PROVE  IInv'
      <3>1. CallOK([Request("role", u, "ready") EXCEPT !.role = role, !.rows = rows, !.chosen = TRUE])
        BY <1>1 DEF CallOK
      <3> QED BY <2>2, <3>1, ReceiveKeeps
    <2>3. CASE Receive(c, [Request("role", u, "ready") EXCEPT !.role = role])
      <3>1. CallOK([Request("role", u, "ready") EXCEPT !.role = role])
        BY <1>1 DEF CallOK
      <3> QED BY <2>3, <3>1, ReceiveKeeps
    <2> QED BY <2>1, <2>2, <2>3
  <1>4. CASE ReceiveManual(c)
    <2>1. PICK u \in People, rows \in ManualChoices :
             Receive(c, [Request("manual", u, "ready") EXCEPT !.rows = rows])
      BY <1>4 DEF ReceiveManual
    <2>2. CallOK([Request("manual", u, "ready") EXCEPT !.rows = rows])
      BY <1>1 DEF CallOK
    <2> QED BY <2>1, <2>2, ReceiveKeeps
  <1>5. CASE ReceiveMirror(c)
    <2>1. PICK u \in People, account \in Accounts, role \in {"editor", "viewer"} :
             Receive(c, [Request("mirror", u, "asked") EXCEPT !.account = account, !.role = role])
      BY <1>5 DEF ReceiveMirror
    <2>2. CallOK([Request("mirror", u, "asked") EXCEPT !.account = account, !.role = role])
      BY <1>1 DEF CallOK
    <2> QED BY <2>1, <2>2, ReceiveKeeps
  <1>6. CASE ReceiveDelete(c)
    <2>1. PICK u \in People : Receive(c, Request("delete", u, "ready"))
      BY <1>6 DEF ReceiveDelete
    <2>2. CallOK(Request("delete", u, "ready"))
      BY <1>1 DEF CallOK
    <2> QED BY <2>1, <2>2, ReceiveKeeps
  <1>7. CASE SignIn(c)
    <2>1. PICK u \in People :
             /\ Refreshable(u)
             /\ Receive(c, [Request("refresh", u, "asked") EXCEPT !.account = person[u].linked])
      BY <1>7 DEF SignIn
    <2>2. person[u].linked \in Accounts
      BY <2>1 DEF Refreshable, IInv, TypeOK
    <2>3. CallOK([Request("refresh", u, "asked") EXCEPT !.account = person[u].linked])
      BY <1>1, <2>2 DEF CallOK
    <2> QED BY <2>1, <2>3, ReceiveKeeps
  <1> QED BY <1>2, <1>3, <1>4, <1>5, <1>6, <1>7

\* The scheduler's pass.
LEMMA PassKeeps ==
    ASSUME IInv, StartPass \/ NextPerson
    PROVE  IInv'
  <1>1. CASE StartPass
    <2>1. due' \subseteq People \X Accounts
      BY <1>1 DEF StartPass, Refreshable, IInv, TypeOK
    <2>2. UNCHANGED <<postgres, person, held, azure, calls, received, changes, failures>>
      BY <1>1 DEF StartPass
    <2>3. TypeOK' /\ CallsOK'
      BY <2>1, <2>2 DEF IInv, TypeOK, CallsOK
    <2>4. OneTransaction' /\ Current' /\ AllFit' /\ AdminRemains'
      BY <2>2 DEF IInv, OneTransaction, Current, InTransaction, Accepts, StillMirroredTo,
                  Admins, AllFit, AdminRemains
    <2> QED BY <2>3, <2>4 DEF IInv
  <1>2. CASE NextPerson
    <2>1. PICK d \in due :
             /\ calls' = [calls EXCEPT ![Pass] = [Request("refresh", d[1], "asked") EXCEPT !.account = d[2]]]
             /\ due' = due \ {d}
      BY <1>2 DEF NextPerson
    <2>2. d[1] \in People /\ d[2] \in Accounts /\ due' \subseteq People \X Accounts
      BY <2>1 DEF IInv, TypeOK
    <2>3. CallOK([Request("refresh", d[1], "asked") EXCEPT !.account = d[2]])
      BY <2>2, SomeRows DEF CallOK, CallType, Request, Idle, Roles
    <2>4. [Request("refresh", d[1], "asked") EXCEPT !.account = d[2]].at \notin {"tx", "locked"}
      BY DEF Request, Idle
    <2>5. /\ UNCHANGED <<postgres, person, held, azure, received, changes, failures>>
          /\ Pass \in Actors
      BY <1>2 DEF NextPerson, Actors
    <2> DEFINE call == [Request("refresh", d[1], "asked") EXCEPT !.account = d[2]]
    <2>6. /\ CallOK(call) /\ call.at \notin {"tx", "locked"}
          /\ calls' = [calls EXCEPT ![Pass] = call]
      BY <2>1, <2>3, <2>4
    <2> HIDE DEF call
    <2>7. received' \in 0..MaxCalls /\ changes' \in 0..MaxChanges /\ failures' \in 0..MaxFailures
      BY <2>5 DEF IInv, TypeOK
    <2> QED BY <2>2, <2>5, <2>6, <2>7, CallMoves
  <1> QED BY <1>1, <1>2

\* Azure changes, and answers, or fails to.
LEMMA AssignKeeps ==
    ASSUME IInv, Assign
    PROVE  IInv'
  <1>1. UNCHANGED <<postgres, person, held, calls, due, received, failures>>
    BY DEF Assign
  <1>2. azure' \in [Accounts -> SUBSET AzureScopes]
    BY DEF Assign, IInv, TypeOK
  <1>3. changes' \in 0..MaxChanges
    BY AccessAssumption, SMT DEF Assign, IInv, TypeOK
  <1>4. TypeOK' /\ CallsOK'
    BY <1>1, <1>2, <1>3 DEF IInv, TypeOK, CallsOK
  <1>5. OneTransaction' /\ Current' /\ AllFit' /\ AdminRemains'
    BY <1>1 DEF IInv, OneTransaction, Current, InTransaction, Accepts, StillMirroredTo,
                Admins, AllFit, AdminRemains
  <1> QED BY <1>4, <1>5 DEF IInv

LEMMA ReadKeeps ==
    ASSUME IInv, NEW c \in Actors, ReadAzure(c)
    PROVE  IInv'
  <1> DEFINE call == [calls[c] EXCEPT !.at = "ready", !.found = azure[calls[c].account]]
  <1>1. CallOK(calls[c]) /\ calls[c] \in CallType /\ calls[c].at = "asked"
    BY DEF IInv, CallsOK, ReadAzure, CallOK
  <1>2. azure[calls[c].account] \in SUBSET AzureScopes
    BY <1>1 DEF IInv, TypeOK, CallOK
  <1>3. CallOK(call) /\ call.at = "ready"
    BY <1>1, <1>2 DEF CallOK, CallType, ChecksLastAdmin
  <1>4. calls' = [calls EXCEPT ![c] = call]
    BY DEF ReadAzure, IInv, CallsOK
  <1> HIDE DEF call
  <1>5. /\ UNCHANGED <<postgres, person, held, azure>> /\ due' \subseteq People \X Accounts
        /\ received' \in 0..MaxCalls /\ changes' \in 0..MaxChanges /\ failures' \in 0..MaxFailures
    BY DEF ReadAzure, IInv, TypeOK
  <1> QED BY <1>3, <1>4, <1>5, CallMoves

LEMMA FailKeeps ==
    ASSUME IInv, NEW c \in Actors, FailToRead(c)
    PROVE  IInv'
  <1> DEFINE call == [calls[c] EXCEPT !.at = "ready", !.op = "failure"]
  <1>1. CallOK(calls[c]) /\ calls[c] \in CallType /\ calls[c].at = "asked"
    BY DEF IInv, CallsOK, FailToRead, CallOK
  <1>2. CallOK(call) /\ call.at = "ready"
    BY <1>1 DEF CallOK, CallType, ChecksLastAdmin
  <1>3. \/ calls' = [calls EXCEPT ![c] = Idle]
        \/ calls' = [calls EXCEPT ![c] = call]
    BY DEF FailToRead, IInv, CallsOK
  <1> HIDE DEF call
  <1>4. failures' \in 0..MaxFailures
    BY AccessAssumption, SMT DEF FailToRead, IInv, TypeOK
  <1>5. /\ UNCHANGED <<postgres, person, held, azure>> /\ due' \subseteq People \X Accounts
        /\ received' \in 0..MaxCalls /\ changes' \in 0..MaxChanges
    BY DEF FailToRead, IInv, TypeOK
  <1>6. CASE calls' = [calls EXCEPT ![c] = Idle]
    BY <1>4, <1>5, <1>6, IdleOK, CallMoves
  <1>7. CASE calls' = [calls EXCEPT ![c] = call]
    BY <1>2, <1>4, <1>5, <1>7, CallMoves
  <1> QED BY <1>3, <1>6, <1>7

-----------------------------------------------------------------------------
(* Transactions. *)

LEMMA BeginKeeps ==
    ASSUME IInv, NEW c \in Actors, Begin(c)
    PROVE  IInv'
  <1>1. /\ CallOK(calls[c]) /\ calls[c] \in CallType /\ calls[c].at = "ready"
        /\ calls[c].on \in People
    BY DEF IInv, CallsOK, Begin, CallOK
  <1>2. /\ UNCHANGED <<postgres, person, held, azure, due, received, changes, failures>>
        /\ due' \subseteq People \X Accounts
        /\ received' \in 0..MaxCalls /\ changes' \in 0..MaxChanges /\ failures' \in 0..MaxFailures
    BY DEF Begin, IInv, TypeOK
  <1>3. CASE ~Accepts(calls[c])
    <2>1. calls' = [calls EXCEPT ![c] = Idle]
      BY <1>3 DEF Begin
    <2> QED BY <1>2, <2>1, IdleOK, CallMoves
  <1>4. CASE Accepts(calls[c])
    <2> DEFINE call == [calls[c] EXCEPT !.at = "tx", !.was = person[calls[c].on].role]
    <2>1. person[calls[c].on] \in RowType
      BY <1>1 DEF IInv, TypeOK, RowType, Roles
    <2>2. /\ call.at = "tx" /\ call.was = person[call.on].role /\ call.on = calls[c].on
          /\ call.op = calls[c].op /\ call.role = calls[c].role /\ call.account = calls[c].account
      BY <1>1 DEF CallType
    <2>3. Accepts(call)
      BY <1>4, <2>2 DEF Accepts
    <2>4. CallOK(call)
      <3>1. call \in CallType
        BY <1>1, <2>1 DEF CallType, RowType
      <3>2. call.op = "refresh" => call.was \in {"editor", "viewer"}
        BY <2>1, <2>2, <2>3 DEF Accepts, StillMirroredTo, RowType, Roles
      <3>3. call.rows = calls[c].rows
        BY <1>1 DEF CallType
      <3> QED BY <1>1, <2>2, <3>1, <3>2, <3>3 DEF CallOK
    <2>5. calls' = [calls EXCEPT ![c] = call]
      BY <1>4 DEF Begin, IInv, CallsOK
    <2>6. \A d \in Actors : calls'[d] = IF d = c THEN call ELSE calls[d]
      BY <2>5 DEF IInv, CallsOK
    <2> HIDE DEF call
    <2>7. CallsOK'
      BY <2>4, <2>5, <2>6 DEF IInv, CallsOK, CallOK
    <2>8. TypeOK'
      BY <1>2, <2>7 DEF IInv, TypeOK, CallsOK, CallType
    <2>9. ~postgres => \A d \in Actors : ~InTransaction(d)
      BY DEF Begin, CanBegin
    <2>10. OneTransaction'
      BY <1>2, <2>6, <2>9 DEF OneTransaction, InTransaction
    <2>11. Current'
      <3>1. SUFFICES ASSUME ~postgres, NEW d \in Actors
                     PROVE  /\ InTransaction(d)' => calls'[d].was = person[calls'[d].on].role /\ Accepts(calls'[d])
                            /\ calls'[d].at = "locked" => \E v \in Admins : v # calls'[d].on
        BY <1>2 DEF Current, Accepts, StillMirroredTo, Admins
      <3>2. CASE d = c
        BY <2>2, <2>3, <2>6, <3>2
      <3>3. CASE d # c
        BY <2>6, <2>9, <3>1, <3>3 DEF InTransaction
      <3> QED BY <3>2, <3>3
    <2>12. AllFit' /\ AdminRemains'
      BY <1>2 DEF IInv, AllFit, AdminRemains, Admins
    <2> QED BY <2>7, <2>8, <2>10, <2>11, <2>12 DEF IInv
  <1> QED BY <1>3, <1>4

\* On SQLite the Admins that are counted are those there are at the commit.
LEMMA LockKeeps ==
    ASSUME IInv, NEW c \in Actors, LockAdmins(c)
    PROVE  IInv'
  <1>1. /\ CallOK(calls[c]) /\ calls[c] \in CallType /\ calls[c].at = "tx"
        /\ calls[c].on \in People /\ ChecksLastAdmin(calls[c])
    BY DEF IInv, CallsOK, LockAdmins, CallOK
  <1>2. /\ UNCHANGED <<postgres, person, held, azure, due, received, changes, failures>>
        /\ due' \subseteq People \X Accounts
        /\ received' \in 0..MaxCalls /\ changes' \in 0..MaxChanges /\ failures' \in 0..MaxFailures
    BY DEF LockAdmins, IInv, TypeOK
  <1>3. CASE Cardinality(Admins) = 1
    <2>1. calls' = [calls EXCEPT ![c] = Idle]
      BY <1>3 DEF LockAdmins
    <2> QED BY <1>2, <2>1, IdleOK, CallMoves
  <1>4. CASE Cardinality(Admins) # 1
    <2> DEFINE call == [calls[c] EXCEPT !.at = "locked"]
    <2>1. /\ call \in CallType /\ call.at = "locked" /\ call.was = calls[c].was /\ call.on = calls[c].on
          /\ call.op = calls[c].op /\ call.role = calls[c].role /\ call.account = calls[c].account
          /\ call.rows = calls[c].rows
      BY <1>1 DEF CallType
    <2>2. CallOK(call)
      BY <1>1, <2>1 DEF CallOK, ChecksLastAdmin
    <2>3. calls' = [calls EXCEPT ![c] = call]
      BY <1>4 DEF LockAdmins, IInv, CallsOK
    <2>4. \A d \in Actors : calls'[d] = IF d = c THEN call ELSE calls[d]
      BY <2>3 DEF IInv, CallsOK
    <2>5. ~postgres => /\ call.was = person[call.on].role /\ Accepts(call)
                       /\ \E v \in Admins : v # call.on
      <3> SUFFICES ASSUME ~postgres PROVE /\ call.was = person[call.on].role /\ Accepts(call)
                                          /\ \E v \in Admins : v # call.on
        OBVIOUS
      <3>1. calls[c].was = person[calls[c].on].role /\ Accepts(calls[c])
        BY <1>1 DEF IInv, Current, InTransaction
      <3>2. calls[c].on \in Admins
        BY <1>1, <3>1 DEF Admins, ChecksLastAdmin
      <3>3. Admins # {calls[c].on}
        BY <1>4, FS_Singleton
      <3>4. Accepts(call)
        BY <2>1, <3>1 DEF Accepts
      <3> QED BY <2>1, <3>1, <3>2, <3>3, <3>4
    <2> HIDE DEF call
    <2>6. CallsOK'
      BY <2>2, <2>3, <2>4 DEF IInv, CallsOK, CallOK
    <2>7. TypeOK'
      BY <1>2, <2>6 DEF IInv, TypeOK, CallsOK, CallType
    <2>8. OneTransaction'
      BY <1>1, <1>2, <2>4 DEF IInv, OneTransaction, InTransaction
    <2>9. Current'
      <3>1. SUFFICES ASSUME ~postgres, NEW d \in Actors
                     PROVE  /\ InTransaction(d)' => calls'[d].was = person[calls'[d].on].role /\ Accepts(calls'[d])
                            /\ calls'[d].at = "locked" => \E v \in Admins : v # calls'[d].on
        BY <1>2 DEF Current, Accepts, StillMirroredTo, Admins
      <3>2. CASE d = c
        BY <2>4, <2>5, <3>1, <3>2
      <3>3. CASE d # c
        BY <2>4, <3>1, <3>3 DEF IInv, Current, InTransaction
      <3> QED BY <3>2, <3>3
    <2>10. AllFit' /\ AdminRemains'
      BY <1>2 DEF IInv, AllFit, AdminRemains, Admins
    <2> QED BY <2>6, <2>7, <2>8, <2>9, <2>10 DEF IInv
  <1> QED BY <1>3, <1>4

\* A commit that gives a person a row and assignments that fit, and takes the
\* Role of an Admin only from one of several.
LEMMA WriteKeeps ==
    ASSUME IInv, NEW c \in Actors, NEW ops, Commits(c, ops),
           NEW u \in People, NEW row \in RowType, NEW rows \in Rows, Writes(u, row, rows),
           ~postgres => /\ Fits(row, rows)
                        /\ \/ row.role = "admin"
                           \/ person[u].role # "admin"
                           \/ \E v \in Admins : v # u
    PROVE  IInv'
  <1>1. /\ UNCHANGED <<postgres, azure, due, received, changes, failures>>
        /\ calls' = [calls EXCEPT ![c] = Idle]
    BY DEF Commits
  <1>2. \A d \in Actors : calls'[d] = IF d = c THEN Idle ELSE calls[d]
    BY <1>1 DEF IInv, CallsOK
  <1>3. CallsOK'
    BY <1>1, <1>2, IdleOK DEF IInv, CallsOK, CallOK
  <1>4. /\ person' \in [People -> RowType]
        /\ \A v \in People : person'[v] = IF v = u THEN row ELSE person[v]
    BY DEF Writes, IInv, TypeOK, RowType, Roles
  <1>5. /\ held' \in [People -> Rows]
        /\ \A v \in People : held'[v] = IF v = u THEN rows ELSE held[v]
    BY DEF Writes, IInv, TypeOK
  <1>6. TypeOK'
    BY <1>1, <1>3, <1>4, <1>5 DEF IInv, TypeOK, CallsOK, CallType, RowType, Roles
  <1>7. InTransaction(c)
    BY DEF Commits, InTransaction
  <1>8. ~postgres => \A d \in Actors : d # c => ~InTransaction(d)
    BY <1>7 DEF IInv, OneTransaction
  <1>9. ~postgres => \A d \in Actors : ~InTransaction(d)'
    BY <1>2, <1>8, IdleOK DEF InTransaction
  <1>10. OneTransaction' /\ Current'
    BY <1>1, <1>9 DEF OneTransaction, Current, InTransaction
  <1>11. AllFit'
    BY <1>1, <1>4, <1>5 DEF IInv, AllFit, Fits
  <1>12. AdminRemains'
    <2> SUFFICES ASSUME ~postgres PROVE Admins' # {}
      BY <1>1 DEF AdminRemains
    <2>1. PICK v \in Admins : TRUE
      BY DEF IInv, AdminRemains
    <2>2. CASE row.role = "admin"
      BY <1>4, <2>2 DEF Admins
    <2>3. CASE person[u].role # "admin"
      BY <1>4, <2>1, <2>3 DEF Admins
    <2>4. CASE \E w \in Admins : w # u
      BY <1>4, <2>4 DEF Admins
    <2> QED BY <2>2, <2>3, <2>4
  <1> QED BY <1>3, <1>6, <1>10, <1>11, <1>12 DEF IInv

\* What the transaction that commits knows.
LEMMA Committing ==
    ASSUME IInv, NEW c \in Actors, NEW ops, Commits(c, ops)
    PROVE  /\ CallOK(calls[c]) /\ calls[c] \in CallType /\ calls[c].op \in ops
           /\ calls[c].on \in People
           /\ person[calls[c].on] \in RowType /\ held[calls[c].on] \in Rows
           /\ calls[c].op = "refresh" => calls[c].was \in {"editor", "viewer"}
           /\ ~postgres =>
                 /\ calls[c].was = person[calls[c].on].role
                 /\ Accepts(calls[c])
                 /\ Fits(person[calls[c].on], held[calls[c].on])
                 /\ ChecksLastAdmin(calls[c]) => \E v \in Admins : v # calls[c].on
  <1>1. CallOK(calls[c]) /\ calls[c].op \in ops /\ calls[c].at \in {"tx", "locked"}
    BY DEF Commits, IInv, CallsOK
  <1>2. calls[c] \in CallType /\ calls[c].on \in People
    BY <1>1 DEF CallOK
  <1>3. person[calls[c].on] \in RowType /\ held[calls[c].on] \in Rows
    BY <1>2 DEF IInv, TypeOK, RowType, Roles
  <1>4. calls[c].op = "refresh" => calls[c].was \in {"editor", "viewer"}
    BY <1>1 DEF CallOK
  <1>5. ASSUME ~postgres
        PROVE  /\ calls[c].was = person[calls[c].on].role
               /\ Accepts(calls[c])
               /\ Fits(person[calls[c].on], held[calls[c].on])
               /\ ChecksLastAdmin(calls[c]) => \E v \in Admins : v # calls[c].on
    BY <1>1, <1>2, <1>5 DEF IInv, Current, AllFit, InTransaction, Commits
  <1> QED BY <1>1, <1>2, <1>3, <1>4, <1>5

LEMMA CommitCreateKeeps ==
    ASSUME IInv, NEW c \in Actors, CommitCreate(c)
    PROVE  IInv'
  <1> DEFINE call == calls[c]
  <1> DEFINE u == call.on
  <1>1. /\ Commits(c, {"create"}) /\ CallOK(call) /\ call \in CallType /\ call.op = "create"
        /\ u \in People /\ person[u] \in RowType
    BY Committing DEF CommitCreate
  <1>2. CASE Exists(u)
    <2>1. calls' = [calls EXCEPT ![c] = Idle] /\ UNCHANGED <<person, held>>
      BY <1>2 DEF CommitCreate, Commits
    <2>2. /\ UNCHANGED <<postgres, azure>> /\ due' \subseteq People \X Accounts
          /\ received' \in 0..MaxCalls /\ changes' \in 0..MaxChanges /\ failures' \in 0..MaxFailures
      BY <1>1 DEF Commits, IInv, TypeOK
    <2> QED BY <2>1, <2>2, IdleOK, CallMoves
  <1>3. CASE ~Exists(u)
    <2>1. person[u].role # "admin"
      BY <1>3 DEF Exists
    <2>2. CASE call.role = "admin"
      <3>1. Writes(u, Admin, NoRows)
        BY <1>3, <2>2 DEF CommitCreate
      <3> QED BY <1>1, <2>1, <3>1, SomePeople, SomeRows, EmptyFits, WriteKeeps
    <2>3. CASE call.role # "admin" /\ call.account # None
      <3>1. Writes(u, Mirrored(call.role, call.account), MirroredRows(call.role, call.found))
        BY <1>3, <2>3 DEF CommitCreate
      <3>2. /\ call.role \in {"editor", "viewer"} /\ call.account \in Accounts
            /\ call.found \in SUBSET AzureScopes
        BY <1>1, <2>3 DEF CallOK, CallType, Roles
      <3>3. /\ Mirrored(call.role, call.account) \in RowType
            /\ MirroredRows(call.role, call.found) \in Rows
            /\ Fits(Mirrored(call.role, call.account), MirroredRows(call.role, call.found))
        BY <3>2, SomePeople, SomeRows, MirroredFits DEF Roles
      <3> QED BY <1>1, <2>1, <3>1, <3>3, WriteKeeps
    <2>4. CASE call.role # "admin" /\ call.account = None
      <3>1. Writes(u, Manual(call.role), call.rows)
        BY <1>3, <2>4 DEF CommitCreate
      <3>2. call.rows \in Rows /\ call.role \in Roles /\ call.role = HighestRole(call.rows)
        BY <1>1, <2>4 DEF CallOK, CallType
      <3>3. Manual(call.role) \in RowType /\ Fits(Manual(call.role), call.rows)
        BY <3>2, SomePeople, ManualFits
      <3> QED BY <1>1, <2>1, <3>1, <3>2, <3>3, WriteKeeps
    <2> QED BY <2>2, <2>3, <2>4
  <1> QED BY <1>2, <1>3

LEMMA CommitPromoteKeeps ==
    ASSUME IInv, NEW c \in Actors, CommitPromote(c)
    PROVE  IInv'
  <1> DEFINE call == calls[c]
  <1> DEFINE u == call.on
  <1>1. /\ Commits(c, {"role"}) /\ Writes(u, Found(u, Admin), NoRows)
        /\ u \in People /\ call.op = "role"
        /\ ~postgres => Accepts(call)
    BY Committing DEF CommitPromote
  <1>2. Found(u, Admin) \in RowType /\ NoRows \in Rows
    BY SomePeople, SomeRows DEF Found
  <1>3. ~postgres => Found(u, Admin) = Admin
    BY <1>1 DEF Accepts, Found, Exists
  <1> QED BY <1>1, <1>2, <1>3, SomePeople, EmptyFits, WriteKeeps

LEMMA CommitDemoteKeeps ==
    ASSUME IInv, NEW c \in Actors, CommitDemote(c)
    PROVE  IInv'
  <1> DEFINE call == calls[c]
  <1> DEFINE u == call.on
  <1>1. /\ Commits(c, {"role"}) /\ u \in People /\ call.op = "role" /\ call.was = "admin"
        /\ call.role \in {"editor", "viewer"} /\ call.rows \in Rows
        /\ ~postgres => /\ person[u].role = "admin"
                        /\ \E v \in Admins : v # u
    <2>1. /\ CallOK(call) /\ call \in CallType /\ call.op = "role"
          /\ call.role # "admin" /\ call.was = "admin"
      BY Committing DEF CommitDemote
    <2>2. call.role # "none" /\ ChecksLastAdmin(call)
      BY <2>1 DEF CallOK, ChecksLastAdmin
    <2> QED BY <2>1, <2>2, Committing DEF CommitDemote, CallType, Roles
  <1>2. CASE call.chosen
    <2>1. Writes(u, Found(u, Manual(HighestRole(call.rows))), Kept(u, call.rows))
      BY <1>2 DEF CommitDemote
    <2>2. HighestRole(call.rows) \in Roles
      BY <1>1, SomeRows DEF Roles
    <2>3. /\ Found(u, Manual(HighestRole(call.rows))) \in RowType
          /\ Kept(u, call.rows) \in Rows
      BY <1>1, <2>2, SomePeople, SomeRows DEF Found, Kept
    <2>4. ~postgres => Fits(Found(u, Manual(HighestRole(call.rows))), Kept(u, call.rows))
      BY <1>1, ManualFits DEF Found, Kept, Exists
    <2> QED BY <1>1, <2>1, <2>3, <2>4, WriteKeeps
  <1>3. CASE ~call.chosen
    <2>1. Writes(u, Found(u, Manual(call.role)), Kept(u, OnEverything(call.role)))
      BY <1>3 DEF CommitDemote
    <2>2. /\ Found(u, Manual(call.role)) \in RowType
          /\ Kept(u, OnEverything(call.role)) \in Rows
      BY <1>1, SomePeople, SomeRows DEF Found, Kept, Roles
    <2>3. ~postgres => Fits(Found(u, Manual(call.role)), Kept(u, OnEverything(call.role)))
      BY <1>1, EverythingFits DEF Found, Kept, Exists
    <2> QED BY <1>1, <2>1, <2>2, <2>3, WriteKeeps
  <1> QED BY <1>2, <1>3

\* Between Viewer and Editor every row a person holds changes with them.
LEMMA CommitRoleKeeps ==
    ASSUME IInv, NEW c \in Actors, CommitRole(c)
    PROVE  IInv'
  <1> DEFINE call == calls[c]
  <1> DEFINE u == call.on
  <1> DEFINE row == [person[u] EXCEPT !.role = call.role]
  <1> DEFINE rows == [s \in Scopes |-> IF held[u][s] = "none" THEN "none" ELSE call.role]
  <1>1. /\ Commits(c, {"role"}) /\ u \in People /\ call.op = "role"
        /\ call.role # "admin" /\ call.was # "admin"
        /\ CallOK(call) /\ call \in CallType
        /\ person[u] \in RowType /\ held[u] \in Rows
        /\ ~postgres => /\ call.was = person[u].role /\ Accepts(call)
                        /\ Fits(person[u], held[u])
    BY Committing DEF CommitRole
  <1>2. call.role \in {"editor", "viewer"}
    BY <1>1 DEF CallOK, CallType, Roles
  <1>3. Writes(u, Found(u, row), rows)
    BY DEF CommitRole
  <1>4. /\ row \in RowType /\ row.role = call.role /\ row.source = person[u].source
        /\ row.linked = person[u].linked /\ row.status = person[u].status
    BY <1>1, <1>2 DEF RowType, Roles
  <1>5. Found(u, row) \in RowType /\ rows \in Rows
    BY <1>2, <1>4, SomePeople DEF Found, Rows
  <1>6. ~postgres => Fits(row, rows) /\ Exists(u) /\ person[u].role # "admin"
    <2> SUFFICES ASSUME ~postgres
                 PROVE  Fits(row, rows) /\ Exists(u) /\ person[u].role # "admin"
      OBVIOUS
    <2>1. Exists(u) /\ person[u].role # "admin" /\ Fits(person[u], held[u])
      BY <1>1 DEF Accepts, Exists
    <2>2. row.role \notin {"none", "admin"}
      BY <1>2, <1>4
    <2>3. ASSUME row.source = "mirrored"
          PROVE  /\ row.linked # None /\ row.status # "none"
                 /\ \E S \in SUBSET AzureScopes : rows = MirroredRows(row.role, S)
      <3>1. PICK S \in SUBSET AzureScopes : held[u] = MirroredRows(person[u].role, S)
        BY <1>4, <2>1, <2>3 DEF Fits
      <3>2. person[u].role # "none"
        BY <2>1 DEF Exists
      <3>3. rows = MirroredRows(call.role, S)
        BY <3>1, <3>2 DEF MirroredRows
      <3> QED BY <1>4, <2>1, <2>3, <3>3 DEF Fits
    <2>4. row.source = "manual" => row.linked = None /\ row.status = "none"
      BY <1>4, <2>1 DEF Fits
    <2>5. (\E s \in Scopes : rows[s] = "editor") => row.role = "editor"
      BY <1>4
    <2> HIDE DEF row, rows
    <2> QED BY <2>1, <2>2, <2>3, <2>4, <2>5 DEF Fits
  <1> HIDE DEF row, rows
  <1>7. ~postgres => Found(u, row) = row
    BY <1>6 DEF Found
  <1> QED BY <1>1, <1>3, <1>5, <1>6, <1>7, WriteKeeps

LEMMA CommitManualKeeps ==
    ASSUME IInv, NEW c \in Actors, CommitManual(c)
    PROVE  IInv'
  <1> DEFINE call == calls[c]
  <1> DEFINE u == call.on
  <1> DEFINE row == Manual(HighestRole(call.rows))
  <1>1. /\ Commits(c, {"manual"}) /\ u \in People /\ call.op = "manual" /\ call.rows \in Rows
        /\ ~postgres => Accepts(call)
        /\ Writes(u, Found(u, row), Kept(u, call.rows))
    BY Committing DEF CommitManual, CallType
  <1>2. row \in RowType /\ Fits(row, call.rows)
    BY <1>1, SomeRows, SomePeople, ManualFits DEF Roles
  <1> HIDE DEF row
  <1>3. Found(u, row) \in RowType /\ Kept(u, call.rows) \in Rows
    BY <1>1, <1>2, SomePeople, SomeRows DEF Found, Kept
  <1>4. ~postgres => /\ Found(u, row) = row /\ Kept(u, call.rows) = call.rows
                     /\ person[u].role # "admin"
    BY <1>1 DEF Accepts, Found, Kept, Exists
  <1> QED BY <1>1, <1>2, <1>3, <1>4, WriteKeeps

LEMMA CommitMirrorKeeps ==
    ASSUME IInv, NEW c \in Actors, CommitMirror(c)
    PROVE  IInv'
  <1> DEFINE call == calls[c]
  <1> DEFINE u == call.on
  <1> DEFINE row == Mirrored(call.role, call.account)
  <1> DEFINE rows == MirroredRows(call.role, call.found)
  <1>1. /\ Commits(c, {"mirror"}) /\ u \in People /\ call.op = "mirror"
        /\ CallOK(call) /\ call \in CallType
        /\ ~postgres => Accepts(call)
        /\ Writes(u, Found(u, row), Kept(u, rows))
    BY Committing DEF CommitMirror
  <1>2. /\ call.role \in {"editor", "viewer"} /\ call.account \in Accounts
        /\ call.found \in SUBSET AzureScopes
    BY <1>1 DEF CallOK, CallType
  <1>3. row \in RowType /\ rows \in Rows /\ Fits(row, rows)
    BY <1>2, SomeRows, SomePeople, MirroredFits DEF Roles
  <1> HIDE DEF row, rows
  <1>4. Found(u, row) \in RowType /\ Kept(u, rows) \in Rows
    BY <1>3, SomePeople, SomeRows DEF Found, Kept
  <1>5. ~postgres => Found(u, row) = row /\ Kept(u, rows) = rows /\ person[u].role # "admin"
    BY <1>1 DEF Accepts, Found, Kept, Exists
  <1> QED BY <1>1, <1>3, <1>4, <1>5, WriteKeeps

\* The person a refresh writes to is on SQLite still mirrored to the account it read.
LEMMA StillTheirs ==
    ASSUME IInv, NEW c \in Actors, NEW ops, Commits(c, ops), ~postgres,
           calls[c].op \in {"refresh", "failure"}
    PROVE  /\ Refreshable(calls[c].on) /\ Exists(calls[c].on)
           /\ person[calls[c].on].linked = calls[c].account
           /\ person[calls[c].on].role \notin {"none", "admin"}
  <1>1. CallOK(calls[c]) /\ Accepts(calls[c])
    BY Committing
  <1>2. calls[c].account # None
    BY <1>1, AccessAssumption DEF CallOK
  <1>3. StillMirroredTo(person[calls[c].on], calls[c].account)
    BY <1>1 DEF Accepts
  <1> QED BY <1>2, <1>3 DEF StillMirroredTo, Refreshable, Exists

LEMMA CommitRefreshKeeps ==
    ASSUME IInv, NEW c \in Actors, CommitRefresh(c)
    PROVE  IInv'
  <1> DEFINE call == calls[c]
  <1> DEFINE u == call.on
  <1> DEFINE row == [person[u] EXCEPT !.status = "ok"]
  <1> DEFINE rows == MirroredRows(call.was, call.found)
  <1>1. /\ Commits(c, {"refresh"}) /\ u \in People /\ call.op = "refresh"
        /\ call \in CallType /\ person[u] \in RowType
        /\ call.was \in {"editor", "viewer"}
        /\ ~postgres => call.was = person[u].role /\ Fits(person[u], held[u])
        /\ Writes(u, Found(u, row), Kept(u, rows))
    BY Committing DEF CommitRefresh
  <1>2. call.found \in SUBSET AzureScopes
    BY <1>1 DEF CallType
  <1>3. /\ row \in RowType /\ row.role = person[u].role /\ row.source = person[u].source
        /\ row.linked = person[u].linked /\ row.status = "ok"
    BY <1>1 DEF RowType
  <1>4. rows \in Rows
    BY <1>1, <1>2, SomeRows
  <1>5. \A s \in Scopes : rows[s] \in {"none", call.was}
    BY DEF MirroredRows
  <1>6. ~postgres => Fits(row, rows) /\ Exists(u) /\ person[u].role # "admin"
    <2> SUFFICES ASSUME ~postgres
                 PROVE  Fits(row, rows) /\ Exists(u) /\ person[u].role # "admin"
      OBVIOUS
    <2>1. /\ Refreshable(u) /\ Exists(u) /\ person[u].role \notin {"none", "admin"}
      BY <1>1, StillTheirs
    <2>2. row.source = "mirrored" /\ row.linked # None /\ row.status # "none"
      BY <1>3, <2>1 DEF Refreshable
    <2>3. \E S \in SUBSET AzureScopes : rows = MirroredRows(row.role, S)
      BY <1>1, <1>2, <1>3
    <2>4. (\E s \in Scopes : rows[s] = "editor") => row.role = "editor"
      BY <1>1, <1>3, <1>5
    <2> HIDE DEF row, rows
    <2> QED BY <1>3, <2>1, <2>2, <2>3, <2>4 DEF Fits
  <1> HIDE DEF row, rows
  <1>7. Found(u, row) \in RowType /\ Kept(u, rows) \in Rows
    BY <1>3, <1>4, SomePeople, SomeRows DEF Found, Kept
  <1>8. ~postgres => Found(u, row) = row /\ Kept(u, rows) = rows
    BY <1>6 DEF Found, Kept
  <1> QED BY <1>1, <1>6, <1>7, <1>8, WriteKeeps

LEMMA CommitFailureKeeps ==
    ASSUME IInv, NEW c \in Actors, CommitFailure(c)
    PROVE  IInv'
  <1> DEFINE call == calls[c]
  <1> DEFINE u == call.on
  <1> DEFINE row == [person[u] EXCEPT !.status = "failed"]
  <1>1. /\ Commits(c, {"failure"}) /\ u \in People /\ call.op = "failure"
        /\ person[u] \in RowType /\ held[u] \in Rows
        /\ ~postgres => Fits(person[u], held[u])
    BY Committing DEF CommitFailure
  <1>2. Writes(u, Found(u, row), held[u])
    BY <1>1 DEF CommitFailure, Writes, IInv, TypeOK
  <1>3. /\ row \in RowType /\ row.role = person[u].role /\ row.source = person[u].source
        /\ row.linked = person[u].linked /\ row.status = "failed"
    BY <1>1 DEF RowType
  <1>4. ~postgres => Fits(row, held[u]) /\ Exists(u) /\ person[u].role # "admin"
    <2> SUFFICES ASSUME ~postgres
                 PROVE  Fits(row, held[u]) /\ Exists(u) /\ person[u].role # "admin"
      OBVIOUS
    <2>1. /\ Refreshable(u) /\ Exists(u) /\ person[u].role \notin {"none", "admin"}
      BY <1>1, StillTheirs
    <2> HIDE DEF row
    <2> QED BY <1>1, <1>3, <2>1 DEF Fits, Refreshable
  <1> HIDE DEF row
  <1>5. Found(u, row) \in RowType
    BY <1>3, SomePeople DEF Found
  <1>6. ~postgres => Found(u, row) = row
    BY <1>4 DEF Found
  <1> QED BY <1>1, <1>2, <1>4, <1>5, <1>6, WriteKeeps

LEMMA CommitDeleteKeeps ==
    ASSUME IInv, NEW c \in Actors, CommitDelete(c)
    PROVE  IInv'
  <1> DEFINE u == calls[c].on
  <1>1. /\ Commits(c, {"delete"}) /\ Writes(u, Gone, NoRows) /\ u \in People
        /\ calls[c].op = "delete"
        /\ ~postgres => /\ calls[c].was = person[u].role
                        /\ ChecksLastAdmin(calls[c]) => \E v \in Admins : v # u
    BY Committing DEF CommitDelete
  <1>2. ~postgres => person[u].role # "admin" \/ \E v \in Admins : v # u
    BY <1>1 DEF ChecksLastAdmin
  <1> QED BY <1>1, <1>2, SomePeople, SomeRows, EmptyFits, WriteKeeps

-----------------------------------------------------------------------------
LEMMA NextKeeps == IInv /\ [Next]_vars => IInv'
  <1> SUFFICES ASSUME IInv, [Next]_vars PROVE IInv'
    OBVIOUS
  <1>1. ASSUME NEW c \in Callers,
               \/ ReceiveCreate(c) \/ ReceiveRole(c) \/ ReceiveManual(c)
               \/ ReceiveMirror(c) \/ ReceiveDelete(c) \/ SignIn(c)
        PROVE  IInv'
    BY <1>1, ArriveKeeps
  <1>2. CASE StartPass \/ NextPerson
    BY <1>2, PassKeeps
  <1>3. CASE Assign
    BY <1>3, AssignKeeps
  <1>4. ASSUME NEW c \in Actors, FailToRead(c) PROVE IInv'
    BY <1>4, FailKeeps
  <1>5. ASSUME NEW c \in Actors, ReadAzure(c) \/ Begin(c) \/ LockAdmins(c) PROVE IInv'
    BY <1>5, ReadKeeps, BeginKeeps, LockKeeps
  <1>6. ASSUME NEW c \in Actors, Commit(c) PROVE IInv'
    BY <1>6, CommitCreateKeeps, CommitPromoteKeeps, CommitDemoteKeeps, CommitRoleKeeps,
       CommitManualKeeps, CommitMirrorKeeps, CommitRefreshKeeps, CommitFailureKeeps,
       CommitDeleteKeeps DEF Commit
  <1>7. CASE UNCHANGED vars
    BY <1>7 DEF vars, IInv, TypeOK, CallsOK, OneTransaction, Current, InTransaction, Accepts,
                StillMirroredTo, Admins, AllFit, AdminRemains
  <1> QED BY <1>1, <1>2, <1>3, <1>4, <1>5, <1>6, <1>7 DEF Next, Advance

LEMMA Invariant == Spec => []IInv
  <1> QED BY InitIInv, NextKeeps, PTL DEF Spec

\* People, what they hold, requests and refreshes stay well-formed, on either
\* database and with stale reads.
THEOREM TypeCorrect == Spec => []TypeOK
  <1>1. IInv => TypeOK
    BY DEF IInv
  <1> QED BY <1>1, Invariant, PTL

\* On SQLite a deployment never loses its last Admin, however many Admins
\* demote and remove each other at once (updateUserRole, deleteUser).
THEOREM AnAdminRemains == Spec => []AdminRemains
  <1>1. IInv => AdminRemains
    BY DEF IInv
  <1> QED BY <1>1, Invariant, PTL

\* On SQLite what a person holds fits where it came from, whatever requests and
\* refreshes interleave (setManualAccess, setMirroredAccess, updateUserRole).
THEOREM RowsFit == Spec => []RowsFitSource
  <1>1. IInv => RowsFitSource
    BY DEF IInv, AllFit, Fits, RowsFitSource
  <1> QED BY <1>1, Invariant, PTL

\* On SQLite a refresh that read Azure before a hand-made change does not undo
\* it (recordMirrorRefresh).
THEOREM HandMadeChangesStand == Spec => HandMadeStands
  <1> DEFINE Stands ==
        ~postgres => \A c \in Actors, u \in People :
            CommitRefresh(c) /\ calls[c].on = u
            /\ ~(Refreshable(u) /\ person[u].linked = calls[c].account) =>
                held'[u] = held[u] /\ person'[u] = person[u]
  <1>1. IInv /\ [Next]_vars => [Stands]_vars
    <2> SUFFICES ASSUME IInv, ~postgres, NEW c \in Actors, CommitRefresh(c)
                 PROVE  Refreshable(calls[c].on) /\ person[calls[c].on].linked = calls[c].account
      OBVIOUS
    <2>1. Commits(c, {"refresh"}) /\ calls[c].op = "refresh"
      BY DEF CommitRefresh, Commits
    <2> QED BY <2>1, StillTheirs
  <1> QED BY <1>1, Invariant, PTL DEF Spec, HandMadeStands
=============================================================================
