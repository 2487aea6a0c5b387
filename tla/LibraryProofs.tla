----------------------------- MODULE LibraryProofs -----------------------------
(* Library for any people, rules, requests and calls, on both databases: what *)
(* the advisory locks keep true between a transaction's reads and its writes. *)
EXTENDS Library, TLAPS

CallType ==
    [op : Operations \cup {"none", "personalCopy"}, at : {"route", "tx"},
     by : Users \cup {None}, on : Users \cup PersonalIds \cup RuleIds \cup RequestIds \cup {None},
     name : Names \cup {None}, target : RuleIds \cup {None}, earlier : RequestIds \cup {None}]

PersonalRow == [stage : Stage, owner : Users \cup {None}, name : Names \cup {None},
                source : RuleIds \cup {None}, rule : RuleIds \cup {None}]

Status == {"unused", "open", "approved", "rejected", "withdrawn"}

RequestRow == [status : Status, personal : PersonalIds \cup {None}, author : Users \cup {None},
               name : Names \cup {None}, target : RuleIds \cup {None}, rule : RuleIds \cup {None}]

LibraryRow == [stage : Stage, name : Names \cup {None}]

\* What a call carries, by what it asks for.
CallOK(call) ==
    /\ call \in CallType
    /\ call.op \in {"none", "personalCopy"} => call.at = "route"
    /\ call.op \in {"send", "copy", "run", "deletePersonal"} => call.on \in PersonalIds /\ call.by \in Users
    /\ call.op \in {"approve", "reject", "withdraw"} => call.on \in RequestIds
    /\ call.op \in {"update", "delete", "personalCopy"} => call.on \in RuleIds
    /\ call.op = "personalCopy" => call.by \in Users

InTx(c) == calls[c].at = "tx"

\* No two transactions hold the same lock.
Apart ==
    \A c, d \in Callers :
        c # d /\ InTx(c) /\ InTx(d) => Locks(calls[c].op) \cap Locks(calls[d].op) = {}

Typed ==
    /\ TypeOK
    /\ calls \in [Callers -> CallType] /\ \A c \in Callers : CallOK(calls[c])
    /\ Apart

\* What a transaction has read of the requests.  Only the removal of a person,
\* which takes no lock of theirs on Postgres, can close one under it.
RequestTx(call) ==
    /\ call.op = "send" => ~HasOpen(call.on)
    /\ call.op \in {"approve", "reject", "withdraw"} =>
          requests[call.on].status \in IF postgres THEN {"open", "withdrawn"} ELSE {"open"}

Requested == OneOpenPerRule /\ \A c \in Callers : InTx(c) => RequestTx(calls[c])

\* What it has read of the names.  The rule to be named may be deleted meanwhile.
MayBeNamed(l, n) == library[l].stage # "unused" /\ (Live(l) => UpdateNameOk(l, n))

NameTx(call) ==
    /\ call.op \in {"create", "copy"} => ~NameTaken(call.name, None)
    /\ call.op = "update" => MayBeNamed(call.on, call.name)
    /\ call.op = "approve" /\ requests[call.on].target = None => ~NameTaken(call.name, None)
    /\ call.op = "approve" /\ requests[call.on].target # None =>
          MayBeNamed(requests[call.on].target, call.name)

Named == \A c \in Callers : InTx(c) => NameTx(calls[c])

\* What it has read of the Personal rule to copy, whose owner does not change.
SomeApproved == \E r \in RequestIds : requests[r].status = "approved"

CopyTx(call) ==
    call.op = "copy" =>
        personal[call.on].stage # "live" \/ personal[call.on].rule = None \/ SomeApproved

CopyCall(call) ==
    call.op = "copy" => /\ personal[call.on].stage # "unused"
                        /\ personal[call.on].stage = "live" => personal[call.on].owner = call.by

\* A Personal rule points at its last copy, until a request of it is approved.
CopiedPoints ==
    \A p \in PersonalIds, l \in RuleIds :
        personal[p].stage = "live" /\ Live(l) /\ copied[l] = p => personal[p].rule = l \/ SomeApproved

NothingAhead ==
    \A l \in RuleIds : /\ library[l].stage = "unused" => copied[l] = None
                       /\ copied[l] # None => personal[copied[l]].stage # "unused"

Pointing ==
    /\ PointsToARule /\ CopiedPoints /\ NothingAhead
    /\ \A c \in Callers : CopyCall(calls[c]) /\ (InTx(c) => CopyTx(calls[c]))

\* What a run has read of its Personal rule.
RunTx(call) == call.op = "run" /\ ~postgres => Owns(call.by, call.on)

Resulting == ResultsHaveRule /\ \A c \in Callers : InTx(c) => RunTx(calls[c])

IInv == Typed /\ Requested /\ Named /\ Pointing /\ Resulting

-----------------------------------------------------------------------------
(* Calls. *)

LEMMA IdleOK == CallOK(Idle) /\ Idle.at = "route" /\ Idle.op = "none" /\ Idle \in CallType
  BY DEF CallOK, Idle, CallType

\* Two transactions at once: on Postgres, and never with the same lock.
LEMMA AtOnce ==
    ASSUME Typed, NEW c \in Callers, NEW d \in Callers, c # d, InTx(c), InTx(d)
    PROVE  /\ postgres
           /\ ~(calls[c].op \in NameLocked /\ calls[d].op \in NameLocked)
           /\ ~(calls[c].op \in RequestLocked /\ calls[d].op \in RequestLocked)
  BY DEF Typed, Apart, Locks

LEMMA Arriving ==
    ASSUME Typed, NEW c \in Callers, Arrive(c)
    PROVE  \E call : /\ CallOK(call) /\ call.at = "route" /\ Receive(c, call)
                     /\ call.op = "copy" => Owns(call.by, call.on)
  <1> USE DEF Call, Idle, CallType, CallOK, Operations, NameLocked, RequestLocked, Unlocked
  <1>1. /\ users \subseteq Users
        /\ \A p \in PersonalIds : personal[p].name \in Names \cup {None}
        /\ \A l \in RuleIds : library[l].name \in Names \cup {None}
    BY DEF Typed, TypeOK
  <1>2. CASE ReceiveSend(c)
    <2>1. PICK p \in PersonalIds, u \in users, earlier \in RequestIds \cup {None}, target \in RuleIds \cup {None} :
             Receive(c, [Call("send", u, p, personal[p].name) EXCEPT !.earlier = earlier, !.target = target])
      BY <1>2 DEF ReceiveSend
    <2>2. CallOK([Call("send", u, p, personal[p].name) EXCEPT !.earlier = earlier, !.target = target])
      BY <1>1
    <2> QED BY <2>1, <2>2
  <1>3. CASE ReceiveApprove(c)
    <2>1. PICK r \in RequestIds, n \in Names : Receive(c, Call("approve", None, r, n))
      BY <1>3 DEF ReceiveApprove
    <2>2. CallOK(Call("approve", None, r, n))
      OBVIOUS
    <2> QED BY <2>1, <2>2
  <1>4. CASE ReceiveReject(c)
    <2>1. PICK r \in RequestIds : Receive(c, Call("reject", None, r, None))
      BY <1>4 DEF ReceiveReject
    <2>2. CallOK(Call("reject", None, r, None))
      OBVIOUS
    <2> QED BY <2>1, <2>2
  <1>5. CASE ReceiveWithdraw(c)
    <2>1. PICK r \in RequestIds, u \in users : Receive(c, Call("withdraw", u, r, None))
      BY <1>5 DEF ReceiveWithdraw
    <2>2. CallOK(Call("withdraw", u, r, None))
      BY <1>1
    <2> QED BY <2>1, <2>2
  <1>6. CASE ReceiveLibraryCopy(c)
    <2>1. PICK p \in PersonalIds, u \in users :
             Owns(u, p) /\ Receive(c, Call("copy", u, p, personal[p].name))
      BY <1>6 DEF ReceiveLibraryCopy
    <2>2. CallOK(Call("copy", u, p, personal[p].name))
      BY <1>1
    <2> QED BY <2>1, <2>2
  <1>7. CASE ReceiveRun(c)
    <2>1. PICK p \in PersonalIds, u \in users : Receive(c, Call("run", u, p, None))
      BY <1>7 DEF ReceiveRun
    <2>2. CallOK(Call("run", u, p, None))
      BY <1>1
    <2> QED BY <2>1, <2>2
  <1>8. CASE ReceivePersonalCopy(c)
    <2>1. PICK l \in RuleIds, u \in users : Receive(c, Call("personalCopy", u, l, library[l].name))
      BY <1>8 DEF ReceivePersonalCopy
    <2>2. CallOK(Call("personalCopy", u, l, library[l].name))
      BY <1>1
    <2> QED BY <2>1, <2>2
  <1>9. CASE ReceiveDeletePersonal(c)
    <2>1. PICK p \in PersonalIds, u \in users : Receive(c, Call("deletePersonal", u, p, None))
      BY <1>9 DEF ReceiveDeletePersonal
    <2>2. CallOK(Call("deletePersonal", u, p, None))
      BY <1>1
    <2> QED BY <2>1, <2>2
  <1>10. CASE ReceiveDeleteUser(c)
    <2>1. PICK u \in users : Receive(c, Call("deleteUser", None, u, None))
      BY <1>10 DEF ReceiveDeleteUser
    <2>2. CallOK(Call("deleteUser", None, u, None))
      BY <1>1
    <2> QED BY <2>1, <2>2
  <1>11. CASE ReceiveRuleWrite(c)
    <2>1. ASSUME NEW n \in Names, Receive(c, Call("create", None, None, n))
          PROVE  \E call : /\ CallOK(call) /\ call.at = "route" /\ Receive(c, call)
                           /\ call.op = "copy" => Owns(call.by, call.on)
      <3>1. CallOK(Call("create", None, None, n))
        OBVIOUS
      <3> QED BY <2>1, <3>1
    <2>2. ASSUME NEW l \in RuleIds, NEW n \in Names, Receive(c, Call("update", None, l, n))
          PROVE  \E call : /\ CallOK(call) /\ call.at = "route" /\ Receive(c, call)
                           /\ call.op = "copy" => Owns(call.by, call.on)
      <3>1. CallOK(Call("update", None, l, n))
        OBVIOUS
      <3> QED BY <2>2, <3>1
    <2>3. ASSUME NEW l \in RuleIds, Receive(c, Call("delete", None, l, None))
          PROVE  \E call : /\ CallOK(call) /\ call.at = "route" /\ Receive(c, call)
                           /\ call.op = "copy" => Owns(call.by, call.on)
      <3>1. CallOK(Call("delete", None, l, None))
        OBVIOUS
      <3> QED BY <2>3, <3>1
    <2> QED BY <1>11, <2>1, <2>2, <2>3 DEF ReceiveRuleWrite
  <1> QED BY <1>2, <1>3, <1>4, <1>5, <1>6, <1>7, <1>8, <1>9, <1>10, <1>11 DEF Arrive

\* The call a transaction begins with: what it was received with, and its target.
LEMMA Beginning ==
    ASSUME Typed, NEW c \in Callers, Begin(c)
    PROVE  /\ CallOK(calls[c]) /\ CallOK(calls'[c]) /\ calls'[c].at = "tx" /\ ~InTx(c)
           /\ calls' \in [Callers -> CallType]
           /\ \A d \in Callers : d # c => calls'[d] = calls[d]
           /\ calls'[c].op = calls[c].op /\ calls'[c].by = calls[c].by
           /\ calls'[c].on = calls[c].on /\ calls'[c].name = calls[c].name
           /\ CanBegin(calls[c].op) /\ Accepts(calls[c]) /\ calls[c].op \in Operations
           /\ UNCHANGED <<postgres, users, personal, results, library, requests, received, copied>>
  <1> DEFINE t == IF calls[c].op = "send" THEN TargetOf(calls[c]) ELSE calls[c].target
  <1> DEFINE call == [calls[c] EXCEPT !.at = "tx", !.target = t]
  <1>1. CallOK(calls[c]) /\ calls[c] \in CallType /\ calls[c].at = "route" /\ calls[c].op \in Operations
    BY DEF Typed, Begin, CallOK
  <1>2. t \in RuleIds \cup {None}
    BY <1>1 DEF Typed, TypeOK, TargetOf, CallType
  <1>3. calls' = [calls EXCEPT ![c] = call]
    BY DEF Begin, Typed
  <1> HIDE DEF t
  <1>4. /\ call \in CallType /\ call.at = "tx" /\ call.op = calls[c].op /\ call.by = calls[c].by
        /\ call.on = calls[c].on /\ call.name = calls[c].name
    BY <1>1, <1>2 DEF CallType
  <1> HIDE DEF call
  <1>5. CallOK(call)
    BY <1>1, <1>4 DEF CallOK, Operations, NameLocked, RequestLocked, Unlocked
  <1>6. /\ calls' \in [Callers -> CallType] /\ calls'[c] = call
        /\ \A d \in Callers : d # c => calls'[d] = calls[d]
    BY <1>3, <1>4 DEF Typed
  <1> QED BY <1>1, <1>4, <1>5, <1>6 DEF Begin, InTx

\* Every step leaves all calls as they are but one, which arrives or ends, or
\* begins its transaction in a step that changes nothing else.
LEMMA CallSteps ==
    ASSUME Typed, Next
    PROVE  /\ UNCHANGED postgres
           /\ calls' \in [Callers -> CallType] /\ \A c \in Callers : CallOK(calls'[c])
           /\ \A d \in Callers : InTx(d)' => (InTx(d) /\ calls'[d] = calls[d]) \/ Begin(d)
           /\ \A d \in Callers : calls'[d].op = "copy" =>
                 \/ calls[d].op = "copy" /\ calls'[d].by = calls[d].by /\ calls'[d].on = calls[d].on
                 \/ Owns(calls'[d].by, calls'[d].on) /\ UNCHANGED personal
  <1>1. calls \in [Callers -> CallType] /\ \A c \in Callers : CallOK(calls[c])
    BY DEF Typed
  <1>2. CASE CreatePersonal \/ EditPersonal
    BY <1>1, <1>2 DEF CreatePersonal, EditPersonal, InTx
  <1>3. ASSUME NEW c \in Callers, NEW call, CallOK(call), call.at = "route",
               call.op = "copy" => Owns(call.by, call.on) /\ UNCHANGED personal,
               calls' = [calls EXCEPT ![c] = call], UNCHANGED postgres
        PROVE  /\ UNCHANGED postgres
               /\ calls' \in [Callers -> CallType] /\ \A d \in Callers : CallOK(calls'[d])
               /\ \A d \in Callers : InTx(d)' => (InTx(d) /\ calls'[d] = calls[d]) \/ Begin(d)
               /\ \A d \in Callers : calls'[d].op = "copy" =>
                     \/ calls[d].op = "copy" /\ calls'[d].by = calls[d].by /\ calls'[d].on = calls[d].on
                     \/ Owns(calls'[d].by, calls'[d].on) /\ UNCHANGED personal
    <2>1. \A d \in Callers : calls'[d] = IF d = c THEN call ELSE calls[d]
      BY <1>1, <1>3
    <2>2. calls' \in [Callers -> CallType]
      BY <1>1, <1>3 DEF CallOK
    <2> QED BY <1>1, <1>3, <2>1, <2>2 DEF InTx
  <1>4. ASSUME NEW c \in Callers, Arrive(c)
        PROVE  \E call : /\ CallOK(call) /\ call.at = "route"
                         /\ call.op = "copy" => Owns(call.by, call.on) /\ UNCHANGED personal
                         /\ calls' = [calls EXCEPT ![c] = call] /\ UNCHANGED postgres
    BY <1>4, Arriving DEF Receive
  <1>5. ASSUME NEW c \in Callers, SavePersonalCopy(c) \/ Refuse(c) \/ Commit(c)
        PROVE  calls' = [calls EXCEPT ![c] = Idle] /\ UNCHANGED postgres
    BY <1>5 DEF SavePersonalCopy, Refuse, Commit, Commits, CommitSend, CommitApprove, CommitReject,
       CommitWithdraw, CommitCopy, CommitRun, CommitDeletePersonal, CommitDeleteUser, CommitCreate,
       CommitUpdate, CommitDelete
  <1>6. ASSUME NEW c \in Callers, Begin(c)
        PROVE  /\ UNCHANGED postgres
               /\ calls' \in [Callers -> CallType] /\ \A d \in Callers : CallOK(calls'[d])
               /\ \A d \in Callers : InTx(d)' => (InTx(d) /\ calls'[d] = calls[d]) \/ Begin(d)
               /\ \A d \in Callers : calls'[d].op = "copy" =>
                     calls[d].op = "copy" /\ calls'[d].by = calls[d].by /\ calls'[d].on = calls[d].on
    BY <1>1, <1>6, Beginning DEF InTx
  <1>7. \A c \in Callers : Arrive(c) \/ SavePersonalCopy(c) \/ Refuse(c) \/ Commit(c) =>
           \E call : /\ CallOK(call) /\ call.at = "route"
                     /\ call.op = "copy" => Owns(call.by, call.on) /\ UNCHANGED personal
                     /\ calls' = [calls EXCEPT ![c] = call] /\ UNCHANGED postgres
    BY <1>4, <1>5, IdleOK
  <1> QED BY <1>2, <1>3, <1>6, <1>7 DEF Next

LEMMA ApartKept ==
    ASSUME Typed, Next
    PROVE  Apart'
  <1> SUFFICES ASSUME NEW c \in Callers, NEW d \in Callers, c # d, InTx(c)', InTx(d)'
               PROVE  Locks(calls'[c].op) \cap Locks(calls'[d].op) = {}
    BY CallSteps DEF Apart, Locks
  <1>1. CASE InTx(c) /\ calls'[c] = calls[c] /\ InTx(d) /\ calls'[d] = calls[d]
    BY <1>1 DEF Typed, Apart
  <1>2. CASE Begin(c)
    BY <1>2, Beginning DEF CanBegin, InTx
  <1>3. CASE Begin(d)
    BY <1>3, Beginning DEF CanBegin, InTx
  <1> QED BY <1>1, <1>2, <1>3, CallSteps

\* The data a step leaves well-formed, when its calls are.
LEMMA TypeFromData ==
    ASSUME Typed, Next, users' \subseteq Users, results' \subseteq PersonalIds,
           personal' \in [PersonalIds -> PersonalRow],
           library' \in [RuleIds -> LibraryRow],
           requests' \in [RequestIds -> RequestRow],
           received' \in 0..MaxCalls, copied' \in [RuleIds -> PersonalIds \cup {None}]
    PROVE  Typed'
  <1>1. /\ UNCHANGED postgres /\ calls' \in [Callers -> CallType]
        /\ \A c \in Callers : CallOK(calls'[c])
    BY CallSteps
  <1>2. TypeOK'
    BY <1>1 DEF Typed, TypeOK, CallType, PersonalRow, RequestRow, LibraryRow, Status
  <1> QED BY <1>1, <1>2, ApartKept DEF Typed, CallOK

\* What the call that commits carries.
LEMMA Committing ==
    ASSUME Typed, NEW c \in Callers, NEW op, Commits(c, op)
    PROVE  /\ InTx(c) /\ calls[c].op = op /\ CallOK(calls[c]) /\ calls[c] \in CallType
           /\ ~InTx(c)' /\ UNCHANGED <<postgres, received>>
  BY IdleOK DEF Commits, Typed, InTx, CallOK

LEMMA Rows ==
    ASSUME Typed
    PROVE  /\ personal \in [PersonalIds -> PersonalRow] /\ requests \in [RequestIds -> RequestRow]
           /\ library \in [RuleIds -> LibraryRow]
           /\ users \subseteq Users /\ results \subseteq PersonalIds
           /\ received \in 0..MaxCalls /\ copied \in [RuleIds -> PersonalIds \cup {None}]
  BY DEF Typed, TypeOK, PersonalRow, RequestRow, LibraryRow, Status

LEMMA DetachedType ==
    ASSUME Typed, NEW R
    PROVE  Detached(R) \in [RequestIds -> RequestRow]
  <1>1. ASSUME NEW r \in RequestIds
        PROVE  [requests[r] EXCEPT !.personal = None,
                                   !.status = IF @ = "open" THEN "withdrawn" ELSE @] \in RequestRow
    <2> DEFINE s == IF requests[r].status = "open" THEN "withdrawn" ELSE requests[r].status
    <2>1. requests[r] \in RequestRow
      BY Rows
    <2>2. s \in Status
      BY <2>1 DEF RequestRow, Status
    <2> HIDE DEF s
    <2>3. [requests[r] EXCEPT !.personal = None, !.status = s] \in RequestRow
      BY <2>1, <2>2 DEF RequestRow
    <2> QED BY <2>3 DEF s
  <1> QED BY <1>1, Rows DEF Detached

LEMMA PersonalTypes ==
    ASSUME Typed
    PROVE  /\ \A p, u, l : l \in RuleIds => Pointed(p, u, l) \in [PersonalIds -> PersonalRow]
           /\ \A P : Removed(P) \in [PersonalIds -> PersonalRow]
           /\ \A l : Unlinked(l) \in [PersonalIds -> PersonalRow]
  <1>1. personal \in [PersonalIds -> PersonalRow]
    BY Rows
  <1>2. [NoPersonal EXCEPT !.stage = "gone"] \in PersonalRow
    BY DEF NoPersonal, Stage, PersonalRow
  <1>3. ASSUME NEW p, NEW u, NEW l \in RuleIds
        PROVE  Pointed(p, u, l) \in [PersonalIds -> PersonalRow]
    BY <1>1 DEF Pointed, PersonalRow
  <1>4. \A P : Removed(P) \in [PersonalIds -> PersonalRow]
    BY <1>1, <1>2 DEF Removed
  <1>5. ASSUME NEW l, NEW p \in PersonalIds
        PROVE  [personal[p] EXCEPT !.source = IF @ = l THEN None ELSE @,
                                   !.rule = IF @ = l THEN None ELSE @] \in PersonalRow
    BY <1>1 DEF PersonalRow
  <1>6. \A l : Unlinked(l) \in [PersonalIds -> PersonalRow]
    BY <1>5 DEF Unlinked
  <1> QED BY <1>3, <1>4, <1>6

LEMMA TypedKept ==
    ASSUME Typed, Next
    PROVE  Typed'
  <1>1. /\ personal \in [PersonalIds -> PersonalRow] /\ requests \in [RequestIds -> RequestRow]
        /\ library \in [RuleIds -> LibraryRow]
        /\ users \subseteq Users /\ results \subseteq PersonalIds
        /\ received \in 0..MaxCalls /\ copied \in [RuleIds -> PersonalIds \cup {None}]
    BY Rows
  <1>2. CASE CreatePersonal
    <2>1. PICK p \in UnusedPersonal, u \in users, n \in Names :
             personal' = [personal EXCEPT ![p] = [NoPersonal EXCEPT !.stage = "live", !.owner = u, !.name = n]]
      BY <1>2 DEF CreatePersonal
    <2>2. [NoPersonal EXCEPT !.stage = "live", !.owner = u, !.name = n] \in PersonalRow
      BY <1>1 DEF PersonalRow, NoPersonal, Stage
    <2>3. personal' \in [PersonalIds -> PersonalRow]
      BY <1>1, <2>1, <2>2
    <2> QED BY <1>1, <1>2, <2>3, TypeFromData DEF CreatePersonal
  <1>14. CASE EditPersonal
    <2>1. PICK p \in PersonalIds, n \in Names : personal' = [personal EXCEPT ![p].name = n]
      BY <1>14 DEF EditPersonal
    <2>2. personal' \in [PersonalIds -> PersonalRow]
      BY <1>1, <2>1 DEF PersonalRow
    <2> QED BY <1>1, <1>14, <2>2, TypeFromData DEF EditPersonal
  <1>3. ASSUME NEW c \in Callers, Arrive(c) PROVE Typed'
    <2>1. received < MaxCalls /\ received' = received + 1
          /\ UNCHANGED <<postgres, users, personal, results, library, requests, copied>>
      BY <1>3, Arriving DEF Receive
    <2>2. received' \in 0..MaxCalls
      BY <1>1, <2>1, LibraryAssumption, SMT
    <2> QED BY <1>1, <2>1, <2>2, TypeFromData
  <1>4. ASSUME NEW c \in Callers, SavePersonalCopy(c) PROVE Typed'
    <2>1. CallOK(calls[c]) /\ calls[c].op = "personalCopy"
      BY <1>4 DEF Typed, SavePersonalCopy
    <2>2. calls[c].by \in Users /\ calls[c].on \in RuleIds /\ calls[c].name \in Names \cup {None}
      BY <2>1 DEF CallOK, CallType
    <2>3. [NoPersonal EXCEPT !.stage = "live", !.owner = calls[c].by, !.name = calls[c].name,
                             !.source = calls[c].on] \in PersonalRow
      BY <2>2 DEF PersonalRow, NoPersonal, Stage
    <2>4. personal' \in [PersonalIds -> PersonalRow]
      BY <1>1, <1>4, <2>3 DEF SavePersonalCopy
    <2> QED BY <1>1, <1>4, <2>4, TypeFromData DEF SavePersonalCopy
  <1>5. ASSUME NEW c \in Callers, Begin(c) \/ Refuse(c) PROVE Typed'
    BY <1>1, <1>5, TypeFromData DEF Begin, Refuse
  <1>6. ASSUME NEW c \in Callers, CommitSend(c) PROVE Typed'
    <2>1. /\ CallOK(calls[c]) /\ calls[c] \in CallType /\ calls[c].op = "send"
          /\ UNCHANGED <<postgres, received>>
      BY <1>6, Committing DEF CommitSend
    <2>2. requests' \in [RequestIds -> RequestRow]
      <3>1. PICK r \in UnusedRequests : requests' = [requests EXCEPT ![r] =
                [status |-> "open", personal |-> calls[c].on, author |-> calls[c].by,
                 name |-> calls[c].name, target |-> calls[c].target, rule |-> None]]
        BY <1>6 DEF CommitSend
      <3> QED BY <1>1, <2>1, <3>1 DEF RequestRow, Status, CallOK, CallType
    <2> QED BY <1>1, <1>6, <2>1, <2>2, TypeFromData DEF CommitSend
  <1>7. ASSUME NEW c \in Callers, CommitApprove(c) PROVE Typed'
    <2>1. /\ CallOK(calls[c]) /\ calls[c] \in CallType /\ calls[c].op = "approve"
          /\ UNCHANGED <<postgres, received>>
      BY <1>7, Committing DEF CommitApprove
    <2> DEFINE r == calls[c].on
    <2> DEFINE t == requests[r].target
    <2>2. r \in RequestIds /\ calls[c].name \in Names \cup {None} /\ t \in RuleIds \cup {None}
      BY <1>1, <2>1 DEF CallOK, CallType, RequestRow
    <2>3. \A l \in RuleIds : Approved(r, l) \in [RequestIds -> RequestRow]
      BY <1>1, <2>2 DEF RequestRow, Status, Approved
    <2>4. \/ UNCHANGED <<library, requests, personal>>
          \/ \E l \in RuleIds :
                /\ \/ library' = [library EXCEPT ![l] = [stage |-> "live", name |-> calls[c].name]]
                   \/ library' = [library EXCEPT ![l].name = calls[c].name]
                /\ requests' = Approved(r, l)
                /\ personal' = Pointed(requests[r].personal, requests[r].author, l)
      BY <1>7, <2>2 DEF CommitApprove, UnusedRules
    <2>5. UNCHANGED <<users, results, copied>>
      BY <1>7 DEF CommitApprove
    <2>6. CASE UNCHANGED <<library, requests, personal>>
      BY <1>1, <2>1, <2>5, <2>6, TypeFromData
    <2>7. ASSUME NEW l \in RuleIds,
                 \/ library' = [library EXCEPT ![l] = [stage |-> "live", name |-> calls[c].name]]
                 \/ library' = [library EXCEPT ![l].name = calls[c].name],
                 requests' = Approved(r, l),
                 personal' = Pointed(requests[r].personal, requests[r].author, l)
          PROVE  Typed'
      <3>1. library' \in [RuleIds -> LibraryRow]
        BY <1>1, <2>2, <2>7 DEF LibraryRow, Stage
      <3> HIDE DEF r
      <3> QED BY <1>1, <2>1, <2>3, <2>5, <2>7, <3>1, PersonalTypes, TypeFromData
    <2> QED BY <2>4, <2>6, <2>7
  <1>8. ASSUME NEW c \in Callers, CommitReject(c) \/ CommitWithdraw(c) PROVE Typed'
    <2>1. UNCHANGED <<received, users, personal, results, library, copied>>
      BY <1>8, Committing DEF CommitReject, CommitWithdraw
    <2>2. PICK s \in {"rejected", "withdrawn"} : requests' = [requests EXCEPT ![calls[c].on].status = s]
      BY <1>8 DEF CommitReject, CommitWithdraw
    <2>3. \A r \in RequestIds : [requests[r] EXCEPT !.status = s] \in RequestRow
      BY <1>1 DEF RequestRow, Status
    <2>4. requests' \in [RequestIds -> RequestRow]
      BY <1>1, <2>2, <2>3
    <2> QED BY <1>1, <2>1, <2>4, TypeFromData
  <1>9. ASSUME NEW c \in Callers, CommitCopy(c) PROVE Typed'
    <2>1. /\ CallOK(calls[c]) /\ calls[c] \in CallType /\ calls[c].op = "copy"
          /\ UNCHANGED <<postgres, received>>
      BY <1>9, Committing DEF CommitCopy
    <2>2. calls[c].on \in PersonalIds /\ calls[c].name \in Names \cup {None}
      BY <2>1 DEF CallOK, CallType
    <2>3. PICK l \in RuleIds :
             /\ library' = [library EXCEPT ![l] = [stage |-> "live", name |-> calls[c].name]]
             /\ personal' = Pointed(calls[c].on, calls[c].by, l)
             /\ copied' = [copied EXCEPT ![l] = calls[c].on]
      BY <1>9 DEF CommitCopy, UnusedRules
    <2>4. /\ library' \in [RuleIds -> LibraryRow]
          /\ copied' \in [RuleIds -> PersonalIds \cup {None}]
      BY <1>1, <2>2, <2>3 DEF LibraryRow, Stage
    <2> QED BY <1>1, <1>9, <2>1, <2>3, <2>4, PersonalTypes, TypeFromData DEF CommitCopy
  <1>10. ASSUME NEW c \in Callers, CommitRun(c) PROVE Typed'
    <2>1. calls[c].on \in PersonalIds /\ UNCHANGED <<postgres, received>>
      BY <1>10, Committing DEF CommitRun, CallOK
    <2> QED BY <1>1, <1>10, <2>1, TypeFromData DEF CommitRun
  <1>11. ASSUME NEW c \in Callers, CommitDeletePersonal(c) \/ CommitDeleteUser(c) PROVE Typed'
    <2>1. UNCHANGED <<postgres, received>>
      BY <1>11, Committing DEF CommitDeletePersonal, CommitDeleteUser
    <2>2. (\E R : requests' = Detached(R)) /\ (\E P : personal' = Removed(P))
          /\ users' \subseteq users /\ results' \subseteq results /\ UNCHANGED <<library, copied>>
      BY <1>11 DEF CommitDeletePersonal, CommitDeleteUser
    <2> QED BY <1>1, <2>1, <2>2, DetachedType, PersonalTypes, TypeFromData
  <1>12. ASSUME NEW c \in Callers, CommitCreate(c) \/ CommitUpdate(c) PROVE Typed'
    <2>1. /\ CallOK(calls[c]) /\ calls[c] \in CallType /\ UNCHANGED <<postgres, received>>
      BY <1>12, Committing DEF CommitCreate, CommitUpdate
    <2>2. library' \in [RuleIds -> LibraryRow]
      BY <1>1, <1>12, <2>1 DEF CommitCreate, CommitUpdate, UnusedRules, LibraryRow, CallType, Stage
    <2> QED BY <1>1, <1>12, <2>1, <2>2, TypeFromData DEF CommitCreate, CommitUpdate
  <1>13. ASSUME NEW c \in Callers, CommitDelete(c) PROVE Typed'
    <2>1. UNCHANGED <<postgres, received>>
      BY <1>13, Committing DEF CommitDelete
    <2>2. library' \in [RuleIds -> LibraryRow]
      BY <1>1, <1>13 DEF CommitDelete, LibraryRow, Stage
    <2> QED BY <1>1, <1>13, <2>1, <2>2, PersonalTypes, TypeFromData DEF CommitDelete
  <1> QED BY <1>2, <1>3, <1>4, <1>5, <1>6, <1>7, <1>8, <1>9, <1>10, <1>11, <1>12, <1>13, <1>14 DEF Next, Commit

-----------------------------------------------------------------------------
(* Requests. *)

\* The three ways in which requests change, each by the transaction of a call.
Sends(c, r) ==
    /\ calls[c].op = "send" /\ requests[r].status = "unused"
    /\ requests'[r].status = "open" /\ requests'[r].personal = calls[c].on
    /\ \A q \in RequestIds \ {r} : requests'[q] = requests[q]

Closes(c) ==
    /\ calls[c].op \in {"approve", "reject", "withdraw"}
    /\ requests'[calls[c].on].status \in {"approved", "rejected", "withdrawn"}
    /\ requests'[calls[c].on].target = requests[calls[c].on].target
    /\ \A q \in RequestIds \ {calls[c].on} : requests'[q] = requests[q]

Detaches(c) ==
    /\ calls[c].op \in {"deletePersonal", "deleteUser"}
    /\ \A r \in RequestIds :
          /\ requests'[r].status \in {requests[r].status}
                \cup (IF requests[r].status = "open" THEN {"withdrawn"} ELSE {})
          /\ requests'[r].target = requests[r].target
          /\ requests'[r].personal \in {None, requests[r].personal}

LEMMA RequestSteps ==
    ASSUME Typed, Next
    PROVE  \/ UNCHANGED requests
           \/ \E c \in Callers : /\ InTx(c) /\ ~InTx(c)'
                                /\ \/ \E r \in RequestIds : Sends(c, r)
                                   \/ Closes(c)
                                   \/ Detaches(c)
  <1>1. requests \in [RequestIds -> RequestRow]
    BY Rows
  <1>2. ASSUME NEW c \in Callers, CommitSend(c)
        PROVE  InTx(c) /\ ~InTx(c)' /\ \E r \in RequestIds : Sends(c, r)
    <2>1. PICK r \in UnusedRequests : requests' = [requests EXCEPT ![r] =
              [status |-> "open", personal |-> calls[c].on, author |-> calls[c].by,
               name |-> calls[c].name, target |-> calls[c].target, rule |-> None]]
      BY <1>2 DEF CommitSend
    <2>2. r \in RequestIds /\ requests[r].status = "unused"
      BY DEF UnusedRequests
    <2>3. InTx(c) /\ ~InTx(c)' /\ calls[c].op = "send"
      BY <1>2, Committing DEF CommitSend
    <2>4. Sends(c, r)
      BY <1>1, <2>1, <2>2, <2>3 DEF Sends
    <2> QED BY <2>2, <2>3, <2>4
  <1>3. ASSUME NEW c \in Callers, CommitApprove(c)
        PROVE  UNCHANGED requests \/ (InTx(c) /\ ~InTx(c)' /\ Closes(c))
    <2>1. InTx(c) /\ ~InTx(c)' /\ calls[c].op = "approve" /\ calls[c].on \in RequestIds
      BY <1>3, Committing DEF CommitApprove, CallOK
    <2> DEFINE q == calls[c].on
    <2>2. UNCHANGED requests \/ \E l \in RuleIds : requests' = Approved(q, l)
      <3>1. requests[q].target \in RuleIds \cup {None}
        BY <1>1, <2>1 DEF RequestRow
      <3> QED BY <1>3, <3>1 DEF CommitApprove, UnusedRules
    <2>3. ASSUME NEW l \in RuleIds, requests' = Approved(q, l) PROVE Closes(c)
      <3>1. /\ requests'[q] = [requests[q] EXCEPT !.status = "approved", !.rule = l]
            /\ \A r \in RequestIds \ {q} : requests'[r] = requests[r]
        BY <1>1, <2>1, <2>3 DEF Approved
      <3>2. requests'[q].status = "approved" /\ requests'[q].target = requests[q].target
        BY <1>1, <2>1, <3>1 DEF RequestRow
      <3> QED BY <2>1, <3>1, <3>2 DEF Closes
    <2> QED BY <2>1, <2>2, <2>3
  <1>4. ASSUME NEW c \in Callers, CommitReject(c) \/ CommitWithdraw(c)
        PROVE  InTx(c) /\ ~InTx(c)' /\ Closes(c)
    <2>1. InTx(c) /\ ~InTx(c)' /\ calls[c].op \in {"reject", "withdraw"} /\ calls[c].on \in RequestIds
      BY <1>4, Committing DEF CommitReject, CommitWithdraw, CallOK
    <2> DEFINE q == calls[c].on
    <2>2. PICK s \in {"rejected", "withdrawn"} : requests' = [requests EXCEPT ![q].status = s]
      BY <1>4 DEF CommitReject, CommitWithdraw
    <2>3. /\ requests'[q] = [requests[q] EXCEPT !.status = s]
          /\ \A r \in RequestIds \ {q} : requests'[r] = requests[r]
      BY <1>1, <2>1, <2>2
    <2>4. requests'[q].status = s /\ requests'[q].target = requests[q].target
      BY <1>1, <2>1, <2>3 DEF RequestRow
    <2> QED BY <2>1, <2>3, <2>4 DEF Closes
  <1>5. ASSUME NEW c \in Callers, CommitDeletePersonal(c) \/ CommitDeleteUser(c)
        PROVE  InTx(c) /\ ~InTx(c)' /\ Detaches(c)
    <2>1. InTx(c) /\ ~InTx(c)' /\ calls[c].op \in {"deletePersonal", "deleteUser"}
      BY <1>5, Committing DEF CommitDeletePersonal, CommitDeleteUser
    <2>2. PICK R : requests' = Detached(R)
      BY <1>5 DEF CommitDeletePersonal, CommitDeleteUser
    <2>3. ASSUME NEW r \in RequestIds
          PROVE  /\ requests'[r].status \in {requests[r].status}
                       \cup (IF requests[r].status = "open" THEN {"withdrawn"} ELSE {})
                 /\ requests'[r].target = requests[r].target
                 /\ requests'[r].personal \in {None, requests[r].personal}
      <3>1. requests'[r] = IF r \in R
                           THEN [requests[r] EXCEPT !.personal = None,
                                    !.status = IF @ = "open" THEN "withdrawn" ELSE @]
                           ELSE requests[r]
        BY <2>2 DEF Detached
      <3>2. requests[r] \in RequestRow
        BY <1>1
      <3> QED BY <3>1, <3>2 DEF RequestRow
    <2> QED BY <2>1, <2>3 DEF Detaches
  <1>6. ASSUME NEW c \in Callers, Arrive(c) PROVE UNCHANGED requests
    BY <1>6, Arriving DEF Receive
  <1> QED BY <1>2, <1>3, <1>4, <1>5, <1>6 DEF Next, Commit, CreatePersonal, EditPersonal, SavePersonalCopy,
         Begin, Refuse, CommitCopy, CommitRun, CommitCreate, CommitUpdate, CommitDelete

\* A decision stands: an approval on either database, any closing on SQLite;
\* and a request keeps its target.
LEMMA DecisionsStand ==
    ASSUME Typed, Requested, Next, NEW r \in RequestIds
    PROVE  /\ requests[r].status = "approved" => requests'[r].status = "approved"
           /\ ~postgres /\ requests[r].status \in {"approved", "rejected", "withdrawn"} =>
                 requests'[r].status = requests[r].status
           /\ requests[r].status # "unused" => /\ requests'[r].status # "unused"
                                               /\ requests'[r].target = requests[r].target
  <1>1. CASE UNCHANGED requests
    BY <1>1
  <1>2. ASSUME NEW c \in Callers, InTx(c), NEW q \in RequestIds, Sends(c, q)
        PROVE  requests[r].status # "unused" => requests'[r] = requests[r]
    BY <1>2 DEF Sends
  <1>3. ASSUME NEW c \in Callers, InTx(c), Closes(c)
        PROVE  /\ r = calls[c].on => /\ requests[r].status \in IF postgres THEN {"open", "withdrawn"} ELSE {"open"}
                                     /\ requests'[r].status # "unused"
                                     /\ requests'[r].target = requests[r].target
               /\ r # calls[c].on => requests'[r] = requests[r]
    BY <1>3 DEF Closes, Requested, RequestTx
  <1>4. ASSUME NEW c \in Callers, Detaches(c)
        PROVE  /\ requests[r].status # "open" => requests'[r].status = requests[r].status
               /\ requests[r].status = "open" => requests'[r].status \in {"open", "withdrawn"}
               /\ requests'[r].target = requests[r].target
    BY <1>4 DEF Detaches
  <1> QED BY <1>1, <1>2, <1>3, <1>4, RequestSteps

LEMMA RequestedKept ==
    ASSUME Typed, Requested, Next
    PROVE  Requested'
  <1>1. UNCHANGED postgres
    BY CallSteps
  <1>2. \A d \in Callers : CallOK(calls[d]) /\ (InTx(d) => RequestTx(calls[d]))
    BY DEF Typed, Requested
  <1>3. None \notin PersonalIds
    BY LibraryAssumption
  <1>4. CASE UNCHANGED requests
    <2>1. ASSUME NEW d \in Callers, InTx(d)' PROVE RequestTx(calls[d])' 
      <3>1. CASE InTx(d) /\ calls'[d] = calls[d]
        BY <1>1, <1>2, <1>4, <3>1 DEF RequestTx, HasOpen
      <3>2. CASE Begin(d)
        <4>1. /\ Accepts(calls[d]) /\ calls'[d].op = calls[d].op /\ calls'[d].on = calls[d].on
          BY <3>2, Beginning
        <4>2. RequestTx(calls[d])
          BY <4>1 DEF Accepts, AcceptsSend, AcceptsApprove, AcceptsClose, RequestTx
        <4> QED BY <1>1, <1>4, <4>1, <4>2 DEF RequestTx, HasOpen
      <3> QED BY <2>1, <3>1, <3>2, CallSteps
    <2>2. OneOpenPerRule'
      BY <1>4 DEF Requested, OneOpenPerRule
    <2> QED BY <2>1, <2>2 DEF Requested
  <1>5. ASSUME NEW c \in Callers, InTx(c), ~InTx(c)',
               calls[c].op \in RequestLocked \cup {"deleteUser"}, ~UNCHANGED requests
        PROVE  \A d \in Callers : InTx(d)' =>
                  /\ InTx(d) /\ d # c /\ calls'[d] = calls[d] /\ postgres
                  /\ calls[c].op \in RequestLocked => calls[d].op \notin RequestLocked
    <2>1. ASSUME NEW d \in Callers, Begin(d) PROVE FALSE
      BY <1>5, <2>1, Beginning
    <2> QED BY <1>5, <2>1, CallSteps, AtOnce
  <1>6. ASSUME NEW c \in Callers, InTx(c), ~InTx(c)', NEW r \in RequestIds, Sends(c, r), ~UNCHANGED requests
        PROVE  Requested'
    <2>1. \A d \in Callers : InTx(d)' => calls'[d] = calls[d] /\ calls[d].op \notin RequestLocked
      BY <1>5, <1>6 DEF Sends, RequestLocked
    <2>2. \A d \in Callers : InTx(d)' => RequestTx(calls[d])'
      BY <2>1 DEF RequestTx, RequestLocked
    <2>3. ~HasOpen(calls[c].on)
      BY <1>2, <1>6 DEF RequestTx, Sends
    <2>4. OneOpenPerRule'
      BY <1>6, <2>3 DEF Requested, OneOpenPerRule, HasOpen, Sends
    <2> QED BY <2>2, <2>4 DEF Requested
  <1>7. ASSUME NEW c \in Callers, InTx(c), ~InTx(c)', Closes(c), ~UNCHANGED requests
        PROVE  Requested'
    <2>1. \A d \in Callers : InTx(d)' => calls'[d] = calls[d] /\ calls[d].op \notin RequestLocked
      BY <1>5, <1>7 DEF Closes, RequestLocked
    <2>2. \A d \in Callers : InTx(d)' => RequestTx(calls[d])'
      BY <2>1 DEF RequestTx, RequestLocked
    <2>3. OneOpenPerRule'
      BY <1>7 DEF Requested, OneOpenPerRule, Closes
    <2> QED BY <2>2, <2>3 DEF Requested
  <1>8. ASSUME NEW c \in Callers, InTx(c), ~InTx(c)', Detaches(c), ~UNCHANGED requests
        PROVE  Requested'
    <2>1. \A d \in Callers : InTx(d)' => InTx(d) /\ calls'[d] = calls[d] /\ postgres
      BY <1>5, <1>8 DEF Detaches, RequestLocked
    <2>2. ASSUME NEW d \in Callers, InTx(d)' PROVE RequestTx(calls[d])'
      <3>1. InTx(d) /\ calls'[d] = calls[d] /\ postgres /\ RequestTx(calls[d]) /\ CallOK(calls[d])
        BY <1>2, <2>1, <2>2
      <3>2. CASE calls[d].op = "send"
        <4>1. ~HasOpen(calls[d].on) /\ calls[d].on \in PersonalIds
          BY <3>1, <3>2 DEF RequestTx, CallOK
        <4>2. ~HasOpen(calls[d].on)'
          BY <1>3, <1>8, <3>1, <4>1 DEF HasOpen, Detaches
        <4> QED BY <3>1, <3>2, <4>2 DEF RequestTx
      <3>3. CASE calls[d].op \in {"approve", "reject", "withdraw"}
        BY <1>1, <1>8, <3>1, <3>3 DEF RequestTx, CallOK, Detaches
      <3>4. CASE calls[d].op \notin {"send", "approve", "reject", "withdraw"}
        BY <3>1, <3>4 DEF RequestTx
      <3> QED BY <3>2, <3>3, <3>4
    <2>3. OneOpenPerRule'
      BY <1>8 DEF Requested, OneOpenPerRule, Detaches
    <2> QED BY <2>2, <2>3 DEF Requested
  <1> QED BY <1>4, <1>6, <1>7, <1>8, RequestSteps

-----------------------------------------------------------------------------
(* Names. *)

\* The three ways in which the library changes.
Adds(c, l) ==
    /\ calls[c].op \in {"approve", "copy", "create"}
    /\ calls[c].op = "approve" => requests[calls[c].on].target = None
    /\ library[l].stage = "unused" /\ library'[l].stage = "live" /\ library'[l].name = calls[c].name
    /\ \A k \in RuleIds \ {l} : library'[k] = library[k]

Renames(c, l) ==
    /\ \/ calls[c].op = "update" /\ l = calls[c].on
       \/ calls[c].op = "approve" /\ l = requests[calls[c].on].target /\ l # None
    /\ Live(l) /\ library'[l].stage = "live" /\ library'[l].name = calls[c].name
    /\ \A k \in RuleIds \ {l} : library'[k] = library[k]

Deletes(c, l) ==
    /\ calls[c].op = "delete" /\ library'[l].stage = "gone"
    /\ \A k \in RuleIds \ {l} : library'[k] = library[k]

LEMMA LibrarySteps ==
    ASSUME Typed, Next
    PROVE  \/ UNCHANGED library
           \/ \E c \in Callers, l \in RuleIds :
                 InTx(c) /\ ~InTx(c)' /\ (Adds(c, l) \/ Renames(c, l) \/ Deletes(c, l))
  <1>1. library \in [RuleIds -> LibraryRow] /\ requests \in [RequestIds -> RequestRow]
    BY Rows
  <1>2. ASSUME NEW c \in Callers, NEW l \in RuleIds, library[l].stage = "unused",
               library' = [library EXCEPT ![l] = [stage |-> "live", name |-> calls[c].name]],
               calls[c].op \in {"approve", "copy", "create"},
               calls[c].op = "approve" => requests[calls[c].on].target = None
        PROVE  Adds(c, l)
    BY <1>1, <1>2 DEF Adds
  <1>3. ASSUME NEW c \in Callers, NEW l \in RuleIds, Live(l),
               library' = [library EXCEPT ![l].name = calls[c].name],
               \/ calls[c].op = "update" /\ l = calls[c].on
               \/ calls[c].op = "approve" /\ l = requests[calls[c].on].target
        PROVE  Renames(c, l)
    <2>1. library[l] \in LibraryRow /\ library'[l] = [library[l] EXCEPT !.name = calls[c].name]
      BY <1>1, <1>3
    <2>2. library'[l].stage = "live" /\ library'[l].name = calls[c].name
      BY <1>3, <2>1 DEF LibraryRow, Live
    <2> QED BY <1>1, <1>3, <2>2, LibraryAssumption DEF Renames
  <1>4. ASSUME NEW c \in Callers, CommitApprove(c)
        PROVE  UNCHANGED library \/ \E l \in RuleIds : InTx(c) /\ ~InTx(c)' /\ (Adds(c, l) \/ Renames(c, l))
    <2>1. InTx(c) /\ ~InTx(c)' /\ calls[c].op = "approve" /\ calls[c].on \in RequestIds
      BY <1>4, Committing DEF CommitApprove, CallOK
    <2>2. requests[calls[c].on].target \in RuleIds \cup {None}
      BY <1>1, <2>1 DEF RequestRow
    <2>3. CASE requests[calls[c].on].target = None
      BY <1>2, <1>4, <2>1, <2>3 DEF CommitApprove, UnusedRules
    <2>4. CASE requests[calls[c].on].target # None
      BY <1>3, <1>4, <2>1, <2>2, <2>4 DEF CommitApprove
    <2> QED BY <2>3, <2>4
  <1>5. ASSUME NEW c \in Callers, CommitCopy(c) \/ CommitCreate(c)
        PROVE  \E l \in RuleIds : InTx(c) /\ ~InTx(c)' /\ Adds(c, l)
    <2>1. InTx(c) /\ ~InTx(c)' /\ calls[c].op \in {"copy", "create"}
      BY <1>5, Committing DEF CommitCopy, CommitCreate
    <2> QED BY <1>2, <1>5, <2>1 DEF CommitCopy, CommitCreate, UnusedRules
  <1>6. ASSUME NEW c \in Callers, CommitUpdate(c)
        PROVE  UNCHANGED library \/ \E l \in RuleIds : InTx(c) /\ ~InTx(c)' /\ Renames(c, l)
    <2>1. InTx(c) /\ ~InTx(c)' /\ calls[c].op = "update" /\ calls[c].on \in RuleIds
      BY <1>6, Committing DEF CommitUpdate, CallOK
    <2> QED BY <1>3, <1>6, <2>1 DEF CommitUpdate
  <1>7. ASSUME NEW c \in Callers, CommitDelete(c)
        PROVE  \E l \in RuleIds : InTx(c) /\ ~InTx(c)' /\ Deletes(c, l)
    <2>1. InTx(c) /\ ~InTx(c)' /\ calls[c].op = "delete" /\ calls[c].on \in RuleIds
      BY <1>7, Committing DEF CommitDelete, CallOK
    <2>2. Deletes(c, calls[c].on)
      BY <1>1, <1>7, <2>1 DEF CommitDelete, Deletes
    <2> QED BY <2>1, <2>2
  <1>8. ASSUME NEW c \in Callers, Arrive(c) PROVE UNCHANGED library
    BY <1>8, Arriving DEF Receive
  <1> QED BY <1>4, <1>5, <1>6, <1>7, <1>8 DEF Next, Commit, CreatePersonal, EditPersonal, SavePersonalCopy,
         Begin, Refuse, CommitSend, CommitReject, CommitWithdraw, CommitRun, CommitDeletePersonal,
         CommitDeleteUser

\* A rule once used stays so, and only an unused one comes to life.
LEMMA RuleStages ==
    ASSUME Typed, Next, NEW l \in RuleIds
    PROVE  /\ library[l].stage # "unused" => library'[l].stage # "unused"
           /\ library'[l].stage = "live" => library[l].stage \in {"live", "unused"}
  BY LibrarySteps DEF Adds, Renames, Deletes, Live

LEMMA NamedKept ==
    ASSUME Typed, Requested, Named, Next
    PROVE  Named'
  <1> SUFFICES ASSUME NEW d \in Callers, InTx(d)' PROVE NameTx(calls[d])'
    BY DEF Named
  <1>1. None \notin RuleIds
    BY LibraryAssumption
  <1>2. CASE Begin(d)
    <2>1. /\ Accepts(calls[d]) /\ CallOK(calls[d]) /\ UNCHANGED <<library, requests>>
          /\ calls'[d].op = calls[d].op /\ calls'[d].on = calls[d].on /\ calls'[d].name = calls[d].name
      BY <1>2, Beginning
    <2>2. NameTx(calls[d])
      BY <2>1 DEF Accepts, AcceptsApprove, AcceptsCopy, Editable, Live, NameTx, MayBeNamed
    <2> QED BY <2>1, <2>2 DEF NameTx, NameTaken, MayBeNamed, UpdateNameOk, Live
  <1>3. CASE InTx(d) /\ calls'[d] = calls[d]
    <2>1. NameTx(calls[d]) /\ CallOK(calls[d])
      BY <1>3 DEF Named, Typed
    <2>2. calls[d].op = "approve" =>
             calls[d].on \in RequestIds /\ requests'[calls[d].on].target = requests[calls[d].on].target
      BY <1>3, <2>1, DecisionsStand DEF Requested, RequestTx, CallOK
    <2>3. CASE UNCHANGED library
      BY <1>3, <2>1, <2>2, <2>3 DEF NameTx, NameTaken, MayBeNamed, UpdateNameOk, Live
    <2>4. ASSUME NEW c \in Callers, NEW l \in RuleIds, InTx(c), ~InTx(c)', Adds(c, l) \/ Renames(c, l)
          PROVE  NameTx(calls[d])'
      <3>1. c # d /\ calls[c].op \in NameLocked
        BY <2>4 DEF Adds, Renames, NameLocked
      <3>2. calls[d].op \notin NameLocked
        BY <1>3, <2>4, <3>1, AtOnce
      <3> QED BY <1>3, <3>2 DEF NameTx, NameLocked
    <2>5. ASSUME NEW c \in Callers, NEW l \in RuleIds, Deletes(c, l)
          PROVE  NameTx(calls[d])'
      <3>1. \A n, e : ~NameTaken(n, e) => ~NameTaken(n, e)'
        BY <2>5 DEF Deletes, NameTaken, Live
      <3>2. \A k \in RuleIds : \A n : MayBeNamed(k, n) => MayBeNamed(k, n)'
        BY <2>5, <3>1 DEF Deletes, MayBeNamed, UpdateNameOk, Live
      <3>3. /\ calls[d].op = "update" => calls[d].on \in RuleIds
            /\ calls[d].op = "approve" => requests[calls[d].on].target \in RuleIds \cup {None}
        BY <2>1, <2>2, Rows DEF CallOK, RequestRow
      <3> QED BY <1>3, <2>1, <2>2, <3>1, <3>2, <3>3 DEF NameTx
    <2> QED BY <2>3, <2>4, <2>5, LibrarySteps
  <1> QED BY <1>2, <1>3, CallSteps

\* What a step does to names, from what its transaction had read of them.
LEMMA NamesApart ==
    ASSUME Typed, Named, Next, NEW l1 \in RuleIds, NEW l2 \in RuleIds, l1 # l2,
           library'[l1].stage = "live", library'[l2].stage = "live",
           library'[l1].name = library'[l2].name
    PROVE  Live(l1) /\ Live(l2) /\ library[l1].name = library[l2].name
  <1>1. None \notin RuleIds
    BY LibraryAssumption
  <1>2. CASE UNCHANGED library
    BY <1>2 DEF Live
  <1>3. ASSUME NEW c \in Callers, NEW l \in RuleIds, InTx(c), Adds(c, l)
        PROVE  Live(l1) /\ Live(l2) /\ library[l1].name = library[l2].name
    <2>1. ~NameTaken(calls[c].name, None)
      BY <1>3 DEF Named, NameTx, Adds
    <2> QED BY <1>1, <1>3, <2>1 DEF NameTaken, Adds, Live
  <1>4. ASSUME NEW c \in Callers, NEW l \in RuleIds, InTx(c), Renames(c, l)
        PROVE  Live(l1) /\ Live(l2) /\ library[l1].name = library[l2].name
    <2>1. UpdateNameOk(l, calls[c].name)
      BY <1>4 DEF Named, NameTx, Renames, MayBeNamed
    <2> QED BY <1>4, <2>1 DEF UpdateNameOk, NameTaken, Renames, Live
  <1>5. ASSUME NEW c \in Callers, NEW l \in RuleIds, Deletes(c, l)
        PROVE  Live(l1) /\ Live(l2) /\ library[l1].name = library[l2].name
    BY <1>5 DEF Deletes, Live
  <1> QED BY <1>2, <1>3, <1>4, <1>5, LibrarySteps

-----------------------------------------------------------------------------
(* Personal rules and the library rules they point at. *)

\* What any step leaves of a Personal rule that was there before it.
Follows(p) ==
    personal[p].stage # "unused" =>
        /\ personal'[p].stage # "unused"
        /\ personal'[p].stage = "live" =>
              personal[p].stage = "live" /\ personal'[p].owner = personal[p].owner

\* A Personal rule loses its pointer only when it goes, or with the rule.
KeepsPointer(p) ==
    personal'[p].stage = "live" /\ personal[p].stage # "unused" =>
        \/ personal'[p].rule = personal[p].rule
        \/ personal[p].rule # None /\ library'[personal[p].rule].stage # "live"
        \/ SomeApproved'
        \/ \E c \in Callers : CommitCopy(c)

\* Only the removal of a rule, or of its author, ends it.
EndsByRemoval(p) ==
    personal[p].stage = "live" /\ personal'[p].stage # "live" =>
        \E c \in Callers : CommitDeletePersonal(c) \/ CommitDeleteUser(c)

LEMMA ApprovalsStand ==
    ASSUME Typed, Requested, Next, SomeApproved
    PROVE  SomeApproved'
  BY DecisionsStand DEF SomeApproved

\* What pointing at a rule does to the rows.
LEMMA Pointings ==
    ASSUME Typed, NEW p, NEW u, NEW l
    PROVE  \A q \in PersonalIds :
              LET row == Pointed(p, u, l)[q] IN
              /\ row.stage = personal[q].stage /\ row.owner = personal[q].owner
              /\ q = p /\ Owns(u, p) => row.rule = l
              /\ ~(q = p /\ Owns(u, p)) => row.rule = personal[q].rule
  <1> SUFFICES ASSUME NEW q \in PersonalIds
               PROVE  LET row == Pointed(p, u, l)[q] IN
                      /\ row.stage = personal[q].stage /\ row.owner = personal[q].owner
                      /\ q = p /\ Owns(u, p) => row.rule = l
                      /\ ~(q = p /\ Owns(u, p)) => row.rule = personal[q].rule
    OBVIOUS
  <1>1. personal \in [PersonalIds -> PersonalRow] /\ None \notin PersonalIds
    BY Rows, LibraryAssumption
  <1>2. personal[q] \in PersonalRow
    BY <1>1
  <1>3. CASE q = p /\ Owns(u, p)
    <2>1. Pointed(p, u, l)[q] = [personal[q] EXCEPT !.rule = l]
      BY <1>1, <1>3 DEF Pointed
    <2> QED BY <1>2, <1>3, <2>1 DEF PersonalRow
  <1>4. CASE ~(q = p /\ Owns(u, p))
    <2>1. Pointed(p, u, l)[q] = personal[q]
      BY <1>1, <1>4 DEF Pointed
    <2> QED BY <1>4, <2>1
  <1> QED BY <1>3, <1>4

LEMMA PersonalSteps ==
    ASSUME Typed, PointsToARule, Next, NEW p \in PersonalIds
    PROVE  /\ Follows(p) /\ KeepsPointer(p) /\ EndsByRemoval(p)
           /\ personal'[p].rule # None => library'[personal'[p].rule].stage = "live"
  <1> DEFINE Goal == /\ Follows(p) /\ KeepsPointer(p) /\ EndsByRemoval(p)
                     /\ personal'[p].rule # None => library'[personal'[p].rule].stage = "live"
  <1>1. /\ personal \in [PersonalIds -> PersonalRow] /\ library \in [RuleIds -> LibraryRow]
        /\ requests \in [RequestIds -> RequestRow]
        /\ personal[p] \in PersonalRow /\ None \notin RuleIds
        /\ personal[p].rule # None => Live(personal[p].rule) /\ personal[p].rule \in RuleIds
    BY Rows, LibraryAssumption DEF PointsToARule, PersonalRow
  \* A row keeps its pointer in a step that removes no rule.
  <1>2. ASSUME \A l \in RuleIds : Live(l) => library'[l].stage = "live",
               personal'[p].stage = personal[p].stage, personal'[p].owner = personal[p].owner,
               personal'[p].rule = personal[p].rule
        PROVE  Goal
    BY <1>1, <1>2 DEF Follows, KeepsPointer, EndsByRemoval
  \* A new row, or the end of one.
  <1>3. ASSUME personal'[p].rule = None,
               \/ personal[p].stage = "unused"
               \/ personal'[p].stage = "gone" /\ \E c \in Callers : CommitDeletePersonal(c) \/ CommitDeleteUser(c)
        PROVE  Goal
    BY <1>3 DEF Follows, KeepsPointer, EndsByRemoval
  <1>4. ASSUME CreatePersonal \/ (\E c \in Callers : SavePersonalCopy(c)) PROVE Goal
    <2>1. PICK q, row :
             /\ q \in UnusedPersonal
             /\ row.rule = None /\ personal' = [personal EXCEPT ![q] = row] /\ UNCHANGED library
      BY <1>4 DEF CreatePersonal, SavePersonalCopy, NoPersonal
    <2>2. CASE p = q
      BY <1>1, <1>3, <2>1, <2>2 DEF UnusedPersonal
    <2>3. CASE p # q
      BY <1>1, <1>2, <2>1, <2>3 DEF Live
    <2> QED BY <2>2, <2>3
  <1>5. CASE EditPersonal
    <2>1. PICK q \in PersonalIds, n \in Names :
             personal' = [personal EXCEPT ![q].name = n] /\ UNCHANGED library
      BY <1>5 DEF EditPersonal
    <2>2. /\ personal'[p].stage = personal[p].stage /\ personal'[p].owner = personal[p].owner
          /\ personal'[p].rule = personal[p].rule
      BY <1>1, <2>1 DEF PersonalRow
    <2> QED BY <1>2, <2>1, <2>2 DEF Live
  \* A pointer set in the step that brings the rule to life, or finds it so.
  <1>6. ASSUME NEW c \in Callers, SomeApproved' \/ CommitCopy(c),
               NEW q, NEW u, NEW l \in RuleIds, personal' = Pointed(q, u, l),
               library'[l].stage = "live", \A k \in RuleIds : Live(k) => library'[k].stage = "live"
        PROVE  Goal
    <2>1. /\ personal'[p].stage = personal[p].stage /\ personal'[p].owner = personal[p].owner
          /\ personal'[p].rule \in {l, personal[p].rule}
      BY <1>6, Pointings
    <2> QED BY <1>1, <1>6, <2>1 DEF Follows, KeepsPointer, EndsByRemoval
  <1>7. ASSUME NEW c \in Callers, CommitApprove(c) PROVE Goal
    <2>1. calls[c].op = "approve" /\ calls[c].on \in RequestIds
      BY <1>7, Committing DEF CommitApprove, CallOK
    <2> DEFINE r == calls[c].on
    <2>2. CASE UNCHANGED <<library, personal>>
      BY <1>2, <2>2 DEF Live
    <2>3. ASSUME NEW l \in RuleIds, requests' = Approved(r, l),
                 personal' = Pointed(requests[r].personal, requests[r].author, l),
                 library'[l].stage = "live", \A k \in RuleIds : Live(k) => library'[k].stage = "live"
          PROVE  Goal
      <3>1. requests[r] \in RequestRow /\ requests'[r] = [requests[r] EXCEPT !.status = "approved", !.rule = l]
        BY <1>1, <2>1, <2>3 DEF Approved
      <3>2. requests'[r].status = "approved"
        BY <3>1 DEF RequestRow
      <3>3. SomeApproved'
        BY <2>1, <3>2 DEF SomeApproved
      <3> QED BY <1>6, <2>1, <2>3, <3>3
    <2>4. CASE requests[r].target = None
      <3>1. PICK l \in UnusedRules :
               /\ library' = [library EXCEPT ![l] = [stage |-> "live", name |-> calls[c].name]]
               /\ requests' = Approved(r, l)
               /\ personal' = Pointed(requests[r].personal, requests[r].author, l)
        BY <1>7, <2>4 DEF CommitApprove
      <3>2. l \in RuleIds /\ library'[l].stage = "live" /\ \A k \in RuleIds : Live(k) => library'[k].stage = "live"
        BY <1>1, <3>1 DEF UnusedRules, Live
      <3> QED BY <2>3, <3>1, <3>2
    <2>5. CASE requests[r].target # None /\ Live(requests[r].target)
      <3>1. requests[r].target \in RuleIds
        BY <1>1, <2>1, <2>5 DEF RequestRow
      <3> DEFINE l == requests[r].target
      <3>2. library' = [library EXCEPT ![l].name = calls[c].name] /\ requests' = Approved(r, l)
            /\ personal' = Pointed(requests[r].personal, requests[r].author, l)
        BY <1>7, <2>5 DEF CommitApprove
      <3>3. library'[l] = [library[l] EXCEPT !.name = calls[c].name] /\ library[l] \in LibraryRow
            /\ \A k \in RuleIds \ {l} : library'[k] = library[k]
        BY <1>1, <3>1, <3>2
      <3>4. library'[l].stage = "live"
        BY <2>5, <3>3 DEF LibraryRow, Live
      <3>5. \A k \in RuleIds : Live(k) => library'[k].stage = "live"
        BY <3>3, <3>4 DEF Live
      <3> HIDE DEF l
      <3>6. l \in RuleIds
        BY <3>1 DEF l
      <3> QED BY <2>3, <3>2, <3>4, <3>5, <3>6
    <2> QED BY <1>7, <2>2, <2>4, <2>5 DEF CommitApprove
  <1>8. ASSUME NEW c \in Callers, CommitCopy(c) PROVE Goal
    <2>2. PICK l \in UnusedRules :
             /\ library' = [library EXCEPT ![l] = [stage |-> "live", name |-> calls[c].name]]
             /\ personal' = Pointed(calls[c].on, calls[c].by, l)
      BY <1>8 DEF CommitCopy
    <2>3. l \in RuleIds /\ library'[l].stage = "live" /\ \A k \in RuleIds : Live(k) => library'[k].stage = "live"
      BY <1>1, <2>2 DEF UnusedRules, Live
    <2> QED BY <1>6, <1>8, <2>2, <2>3
  <1>9. ASSUME NEW c \in Callers, CommitDeletePersonal(c) \/ CommitDeleteUser(c) PROVE Goal
    <2>1. PICK P : personal' = Removed(P) /\ UNCHANGED library
      BY <1>9 DEF CommitDeletePersonal, CommitDeleteUser
    <2>2. personal'[p] = IF p \in P THEN [NoPersonal EXCEPT !.stage = "gone"] ELSE personal[p]
      BY <2>1 DEF Removed
    <2>3. CASE p \in P
      BY <1>3, <1>9, <2>2, <2>3 DEF NoPersonal
    <2>4. CASE p \notin P
      BY <1>2, <2>1, <2>2, <2>4 DEF Live
    <2> QED BY <2>3, <2>4
  <1>10. ASSUME NEW c \in Callers, CommitDelete(c) PROVE Goal
    <2>1. calls[c].on \in RuleIds
      BY <1>10, Committing DEF CommitDelete, CallOK
    <2> DEFINE l == calls[c].on
    <2>2. library'[l].stage = "gone" /\ \A k \in RuleIds \ {l} : library'[k] = library[k]
      BY <1>1, <1>10, <2>1 DEF CommitDelete
    <2>3. personal'[p] = [personal[p] EXCEPT !.source = IF @ = l THEN None ELSE @,
                                             !.rule = IF @ = l THEN None ELSE @]
      BY <1>10 DEF CommitDelete, Unlinked
    <2>4. /\ personal'[p].stage = personal[p].stage /\ personal'[p].owner = personal[p].owner
          /\ personal'[p].rule = IF personal[p].rule = l THEN None ELSE personal[p].rule
      BY <1>1, <2>3 DEF PersonalRow
    <2> QED BY <1>1, <2>1, <2>2, <2>4 DEF Follows, KeepsPointer, EndsByRemoval, Live
  <1>11. ASSUME NEW c \in Callers, CommitCreate(c) \/ CommitUpdate(c) PROVE Goal
    <2>1. UNCHANGED personal
      BY <1>11 DEF CommitCreate, CommitUpdate
    <2>2. \A l \in RuleIds : Live(l) => library'[l].stage = "live"
      BY <1>1, <1>11 DEF CommitCreate, CommitUpdate, UnusedRules, Live, LibraryRow
    <2> QED BY <1>2, <2>1, <2>2
  <1>12. ASSUME NEW c \in Callers, Arrive(c) PROVE Goal
    BY <1>2, <1>12, Arriving DEF Receive, Live
  <1>13. ASSUME NEW c \in Callers,
                Begin(c) \/ Refuse(c) \/ CommitSend(c) \/ CommitReject(c) \/ CommitWithdraw(c) \/ CommitRun(c)
         PROVE  Goal
    BY <1>2, <1>13 DEF Begin, Refuse, CommitSend, CommitReject, CommitWithdraw, CommitRun, Live
  <1> QED BY <1>4, <1>5, <1>7, <1>8, <1>9, <1>10, <1>11, <1>12, <1>13 DEF Next, Commit

\* Only a copy records where a library rule came from.
LEMMA CopyOrNot ==
    ASSUME Typed, Next
    PROVE  \/ UNCHANGED copied
           \/ \E c \in Callers, l \in RuleIds :
                 /\ CommitCopy(c) /\ InTx(c) /\ ~InTx(c)' /\ calls[c].op = "copy" /\ calls[c].on \in PersonalIds
                 /\ library[l].stage = "unused" /\ library'[l].stage = "live"
                 /\ \A k \in RuleIds \ {l} : library'[k] = library[k] /\ copied'[k] = copied[k]
                 /\ copied'[l] = calls[c].on /\ personal' = Pointed(calls[c].on, calls[c].by, l)
  <1>1. ASSUME NEW c \in Callers, CommitCopy(c)
        PROVE  \E l \in RuleIds :
                 /\ CommitCopy(c) /\ InTx(c) /\ ~InTx(c)' /\ calls[c].op = "copy" /\ calls[c].on \in PersonalIds
                 /\ library[l].stage = "unused" /\ library'[l].stage = "live"
                 /\ \A k \in RuleIds \ {l} : library'[k] = library[k] /\ copied'[k] = copied[k]
                 /\ copied'[l] = calls[c].on /\ personal' = Pointed(calls[c].on, calls[c].by, l)
    <2>1. InTx(c) /\ ~InTx(c)' /\ calls[c].op = "copy" /\ calls[c].on \in PersonalIds
      BY <1>1, Committing DEF CommitCopy, CallOK
    <2>2. PICK l \in UnusedRules :
             /\ library' = [library EXCEPT ![l] = [stage |-> "live", name |-> calls[c].name]]
             /\ personal' = Pointed(calls[c].on, calls[c].by, l)
             /\ copied' = [copied EXCEPT ![l] = calls[c].on]
      BY <1>1 DEF CommitCopy
    <2> QED BY <1>1, <2>1, <2>2, Rows DEF UnusedRules
  <1>2. ASSUME NEW c \in Callers, Arrive(c) PROVE UNCHANGED copied
    BY <1>2, Arriving DEF Receive
  <1> QED BY <1>1, <1>2 DEF Next, Commit, CreatePersonal, EditPersonal, SavePersonalCopy, Begin, Refuse,
         CommitSend, CommitApprove, CommitReject, CommitWithdraw, CommitRun, CommitDeletePersonal,
         CommitDeleteUser, CommitCreate, CommitUpdate, CommitDelete

LEMMA CopyCallKept ==
    ASSUME Typed, Pointing, Next, NEW d \in Callers
    PROVE  CopyCall(calls[d])'
  <1> SUFFICES ASSUME calls'[d].op = "copy"
               PROVE  /\ personal'[calls'[d].on].stage # "unused"
                      /\ personal'[calls'[d].on].stage = "live" => personal'[calls'[d].on].owner = calls'[d].by
    BY DEF CopyCall
  <1>1. calls'[d].on \in PersonalIds
    BY CallSteps DEF CallOK
  <1>2. CASE Owns(calls'[d].by, calls'[d].on) /\ UNCHANGED personal
    BY <1>1, <1>2 DEF Owns
  <1>3. CASE calls[d].op = "copy" /\ calls'[d].by = calls[d].by /\ calls'[d].on = calls[d].on
    BY <1>1, <1>3, PersonalSteps DEF Pointing, CopyCall, Follows
  <1> QED BY <1>2, <1>3, CallSteps

\* While nothing is approved, a transaction that copies still finds what it read.
LEMMA CopyTxKept ==
    ASSUME Typed, Requested, Pointing, Next, NEW d \in Callers, InTx(d)'
    PROVE  CopyTx(calls[d])'
  <1> SUFFICES ASSUME calls'[d].op = "copy", ~SomeApproved'
               PROVE  personal'[calls'[d].on].stage # "live" \/ personal'[calls'[d].on].rule = None
    BY DEF CopyTx
  <1>1. calls'[d].on \in PersonalIds /\ ~SomeApproved
    BY CallSteps, ApprovalsStand DEF CallOK
  <1>2. CASE Begin(d)
    <2>1. /\ Accepts(calls[d]) /\ calls[d].op = "copy" /\ calls[d].on = calls'[d].on
          /\ UNCHANGED <<personal, library>>
      BY <1>2, Beginning
    <2>2. AcceptsCopy(calls[d]) /\ CopyCall(calls[d]) /\ PointsToARule
      BY <2>1 DEF Accepts, Pointing
    <2> QED BY <1>1, <2>1, <2>2 DEF AcceptsCopy, CopyCall, Owns, PointsToARule
  <1>3. CASE InTx(d) /\ calls'[d] = calls[d]
    <2> DEFINE p == calls[d].on
    <2>1. /\ personal[p].stage # "unused" /\ (personal[p].stage # "live" \/ personal[p].rule = None)
          /\ p \in PersonalIds /\ PointsToARule
      BY <1>1, <1>3 DEF Pointing, CopyTx, CopyCall
    <2>3. ASSUME NEW c \in Callers, CommitCopy(c) PROVE FALSE
      <3>1. InTx(c) /\ ~InTx(c)' /\ calls[c].op = "copy"
        BY <2>3, Committing DEF CommitCopy
      <3> QED BY <1>3, <3>1, AtOnce DEF NameLocked
    <2>4. Follows(p) /\ KeepsPointer(p)
      BY <2>1, PersonalSteps
    <2>5. personal'[p].stage = "live" => personal'[p].rule = None
      <3>1. SUFFICES ASSUME personal'[p].stage = "live" PROVE personal'[p].rule = None
        OBVIOUS
      <3>2. personal[p].stage = "live" /\ personal[p].rule = None
        BY <2>1, <2>4, <3>1 DEF Follows
      <3> QED BY <2>3, <2>4, <3>1, <3>2 DEF KeepsPointer
    <2> QED BY <1>1, <1>3, <2>5
  <1> QED BY <1>2, <1>3, CallSteps

LEMMA CopiedPointsKept ==
    ASSUME Typed, Requested, Pointing, Next
    PROVE  CopiedPoints'
  <1> SUFFICES ASSUME NEW p \in PersonalIds, NEW l \in RuleIds, ~SomeApproved',
                      personal'[p].stage = "live", library'[l].stage = "live", copied'[l] = p
               PROVE  personal'[p].rule = l
    BY DEF CopiedPoints, Live
  <1>1. ~SomeApproved /\ None \notin PersonalIds /\ None \notin RuleIds
    BY ApprovalsStand, LibraryAssumption
  <1>2. ASSUME copied[l] = p
        PROVE  Live(l) /\ personal[p].stage = "live" /\ personal[p].rule = l
    <2>1. library[l].stage # "unused" /\ personal[p].stage # "unused"
      BY <1>1, <1>2 DEF Pointing, NothingAhead
    <2>2. Live(l) /\ personal[p].stage = "live"
      BY <2>1, RuleStages, PersonalSteps DEF Pointing, Follows, Live
    <2> QED BY <1>1, <1>2, <2>2 DEF Pointing, CopiedPoints
  <1>3. ASSUME copied[l] = p, \A c \in Callers : ~CommitCopy(c)
        PROVE  personal'[p].rule = l
    BY <1>2, <1>3, PersonalSteps DEF Pointing, KeepsPointer
  <1>4. CASE UNCHANGED copied
    <2>1. ASSUME NEW c \in Callers, CommitCopy(c) PROVE personal'[p].rule = l
      <3>1. InTx(c) /\ CallOK(calls[c]) /\ calls[c].op = "copy"
        BY <2>1, Committing DEF CommitCopy
      <3>2. calls[c].on \in PersonalIds
        BY <3>1 DEF CallOK
      <3>3. PICK k \in UnusedRules : copied' = [copied EXCEPT ![k] = calls[c].on]
        BY <2>1 DEF CommitCopy
      <3>4. copied'[k] = calls[c].on /\ copied[k] = None
        BY <3>3, Rows DEF Pointing, NothingAhead, UnusedRules
      <3> QED BY <1>1, <1>4, <3>2, <3>4
    <2> QED BY <1>3, <1>4, <2>1
  <1>5. ASSUME NEW c \in Callers, NEW k \in RuleIds, InTx(c), calls[c].op = "copy", calls[c].on \in PersonalIds,
               library[k].stage = "unused",
               \A j \in RuleIds \ {k} : library'[j] = library[j] /\ copied'[j] = copied[j],
               copied'[k] = calls[c].on, personal' = Pointed(calls[c].on, calls[c].by, k)
        PROVE  personal'[p].rule = l
    <2>1. CopyCall(calls[c]) /\ CopyTx(calls[c])
      BY <1>5 DEF Pointing
    <2>2. personal'[p].stage = personal[p].stage
      BY <1>5, Pointings
    <2>3. CASE l = k
      <3>1. p = calls[c].on /\ Owns(calls[c].by, p)
        BY <1>5, <2>1, <2>2, <2>3 DEF CopyCall, Owns
      <3> QED BY <1>5, <2>3, <3>1, Pointings
    <2>4. CASE l # k
      <3>1. personal[p].stage = "live" /\ personal[p].rule = l
        BY <1>2, <1>5, <2>4
      <3>2. p # calls[c].on
        BY <1>1, <1>5, <2>1, <3>1 DEF CopyTx
      <3> QED BY <1>5, <3>1, <3>2, Pointings
    <2> QED BY <2>3, <2>4
  <1> QED BY <1>4, <1>5, CopyOrNot

LEMMA PointingKept ==
    ASSUME Typed, Requested, Pointing, Next
    PROVE  Pointing'
  <1>1. PointsToARule'
    BY PersonalSteps DEF Pointing, PointsToARule, Live
  <1>2. NothingAhead'
    <2> SUFFICES ASSUME NEW l \in RuleIds
                 PROVE  /\ library'[l].stage = "unused" => copied'[l] = None
                        /\ copied'[l] # None => personal'[copied'[l]].stage # "unused"
      BY DEF NothingAhead
    <2>1. copied[l] \in PersonalIds \cup {None}
      BY Rows
    <2>2. ASSUME copied'[l] = copied[l]
          PROVE  /\ library'[l].stage = "unused" => copied'[l] = None
                 /\ copied'[l] # None => personal'[copied'[l]].stage # "unused"
      BY <2>1, <2>2, RuleStages, PersonalSteps DEF Pointing, NothingAhead, Follows
    <2>3. ASSUME NEW c \in Callers, calls[c].op = "copy", calls[c].on \in PersonalIds,
                 library'[l].stage = "live", copied'[l] = calls[c].on
          PROVE  /\ library'[l].stage = "unused" => copied'[l] = None
                 /\ copied'[l] # None => personal'[copied'[l]].stage # "unused"
      <3>1. personal[calls[c].on].stage # "unused"
        BY <2>3 DEF Pointing, CopyCall
      <3> QED BY <2>3, <3>1, PersonalSteps DEF Pointing, Follows
    <2> QED BY <2>2, <2>3, CopyOrNot
  <1> QED BY <1>1, <1>2, CopyCallKept, CopyTxKept, CopiedPointsKept DEF Pointing

-----------------------------------------------------------------------------
(* Results of Personal rules, on SQLite. *)

\* While a transaction is open on SQLite nobody else writes.
LEMMA NothingElseWrites ==
    ASSUME Typed, ~postgres, Next, NEW d \in Callers, InTx(d), InTx(d)'
    PROVE  UNCHANGED personal
  <1>1. ~Settled
    BY DEF Settled, InTx
  <1>2. ASSUME NEW c \in Callers, NEW op, Commits(c, op) PROVE FALSE
    BY <1>2, Committing, AtOnce
  <1>3. ASSUME NEW c \in Callers, Arrive(c) PROVE UNCHANGED personal
    BY <1>3, Arriving DEF Receive
  <1> QED BY <1>1, <1>2, <1>3 DEF Next, Commit, CreatePersonal, EditPersonal, SavePersonalCopy, Begin, Refuse,
         CommitSend, CommitApprove, CommitReject, CommitWithdraw, CommitCopy, CommitRun,
         CommitDeletePersonal, CommitDeleteUser, CommitCreate, CommitUpdate, CommitDelete

LEMMA ResultingKept ==
    ASSUME Typed, PointsToARule, Resulting, Next
    PROVE  Resulting'
  <1>1. UNCHANGED postgres
    BY CallSteps
  <1>2. CASE postgres
    BY <1>1, <1>2 DEF Resulting, ResultsHaveRule, RunTx
  <1>3. CASE ~postgres
    <2>1. ASSUME NEW d \in Callers, InTx(d)' PROVE RunTx(calls[d])'
      <3>1. CASE InTx(d) /\ calls'[d] = calls[d]
        BY <1>1, <1>3, <2>1, <3>1, NothingElseWrites DEF Resulting, RunTx, Owns
      <3>2. CASE Begin(d)
        BY <3>2, Beginning DEF Accepts, RunTx, Owns
      <3> QED BY <2>1, <3>1, <3>2, CallSteps
    <2>2. ASSUME NEW p \in PersonalIds, p \in results' PROVE personal'[p].stage = "live"
      <3>1. \A q \in results : personal[q].stage = "live"
        BY <1>3 DEF Resulting, ResultsHaveRule
      <3>2. ASSUME NEW c \in Callers, CommitRun(c) PROVE personal'[p].stage = "live"
        <4>1. InTx(c) /\ calls[c].op = "run"
          BY <3>2, Committing DEF CommitRun
        <4>2. Owns(calls[c].by, calls[c].on)
          BY <1>3, <4>1 DEF Resulting, RunTx
        <4> QED BY <2>2, <3>1, <3>2, <4>2 DEF CommitRun, Owns
      <3>3. ASSUME NEW c \in Callers, CommitDeletePersonal(c) PROVE personal'[p].stage = "live"
        BY <2>2, <3>1, <3>3 DEF CommitDeletePersonal, Removed
      <3>4. ASSUME NEW c \in Callers, CommitDeleteUser(c) PROVE personal'[p].stage = "live"
        BY <2>2, <3>1, <3>4 DEF CommitDeleteUser, Removed
      <3>5. ASSUME \A c \in Callers : ~CommitRun(c) /\ ~CommitDeletePersonal(c) /\ ~CommitDeleteUser(c)
            PROVE  personal'[p].stage = "live"
        <4>1. UNCHANGED results
          BY <3>5, Arriving DEF Next, Commit, CreatePersonal, EditPersonal, SavePersonalCopy, Begin, Refuse,
             CommitSend, CommitApprove, CommitReject, CommitWithdraw, CommitCopy, CommitCreate,
             CommitUpdate, CommitDelete, Receive
        <4> QED BY <2>2, <3>1, <3>5, <4>1, PersonalSteps DEF EndsByRemoval
      <3> QED BY <3>2, <3>3, <3>4, <3>5
    <2> QED BY <2>1, <2>2, TypedKept, Rows DEF Resulting, ResultsHaveRule, Typed, TypeOK
  <1> QED BY <1>2, <1>3

-----------------------------------------------------------------------------
(* The invariant, and what follows from it. *)

LEMMA InitIInv == Init => IInv
  <1> SUFFICES ASSUME Init PROVE IInv
    OBVIOUS
  <1>1. /\ \A c \in Callers : calls[c] = Idle
        /\ \A p \in PersonalIds : personal[p] = NoPersonal
        /\ \A r \in RequestIds : requests[r] = UnsentRequest
        /\ \A l \in RuleIds : copied[l] = None /\ library[l].stage \in {"live", "unused"}
    BY DEF Init
  <1>2. \A c \in Callers : ~InTx(c) /\ CallOK(calls[c])
    BY <1>1, IdleOK DEF InTx
  <1>3. TypeOK
    <2>1. library \in [RuleIds -> [stage : Stage, name : Names \cup {None}]]
      <3>1. PICK named \in [Existing -> Names] :
               library = [l \in RuleIds |-> IF l \in Existing THEN [stage |-> "live", name |-> named[l]]
                                            ELSE [stage |-> "unused", name |-> None]]
        BY DEF Init
      <3> QED BY <3>1 DEF Stage
    <2>2. 0 \in 0..MaxCalls
      BY LibraryAssumption
    <2>3. /\ personal \in [PersonalIds -> PersonalRow] /\ requests \in [RequestIds -> RequestRow]
          /\ copied \in [RuleIds -> PersonalIds \cup {None}]
      BY DEF Init, NoPersonal, UnsentRequest, PersonalRow, RequestRow, Stage, Status
    <2>4. \A c \in Callers : /\ calls[c].op \in Operations \cup {"none", "personalCopy"}
                             /\ calls[c].at \in {"route", "tx"}
      BY <1>1, IdleOK
    <2> QED BY <2>1, <2>2, <2>3, <2>4 DEF TypeOK, Init, PersonalRow, RequestRow, Status
  <1>4. calls \in [Callers -> CallType]
    BY IdleOK DEF Init
  <1>5. Typed
    BY <1>2, <1>3, <1>4 DEF Typed, Apart
  <1>6. Requested
    BY <1>1, <1>2 DEF Requested, OneOpenPerRule, UnsentRequest
  <1>7. Named
    BY <1>2 DEF Named
  <1>8. Pointing
    BY <1>1, <1>2, IdleOK DEF Pointing, PointsToARule, CopiedPoints, NothingAhead, CopyCall, NoPersonal
  <1>9. Resulting
    BY <1>2 DEF Resulting, ResultsHaveRule, Init
  <1> QED BY <1>5, <1>6, <1>7, <1>8, <1>9 DEF IInv

LEMMA NextKeeps == IInv /\ [Next]_vars => IInv'
  <1>1. ASSUME IInv, Next PROVE IInv'
    BY <1>1, TypedKept, RequestedKept, NamedKept, PointingKept, ResultingKept DEF IInv, Pointing
  <1>2. ASSUME IInv, UNCHANGED vars PROVE IInv'
    <2> USE <1>2 DEF vars
    <2>1. Typed'
      BY DEF IInv, Typed, TypeOK, Apart, InTx, Locks
    <2>2. Requested'
      BY DEF IInv, Requested, OneOpenPerRule, InTx, RequestTx, HasOpen
    <2>3. Named'
      BY DEF IInv, Named, InTx, NameTx, NameTaken, MayBeNamed, UpdateNameOk, Live
    <2>4. Pointing'
      BY DEF IInv, Pointing, PointsToARule, CopiedPoints, NothingAhead, CopyCall, CopyTx, SomeApproved, InTx, Live
    <2>5. Resulting'
      BY DEF IInv, Resulting, ResultsHaveRule, InTx, RunTx, Owns
    <2> QED BY <2>1, <2>2, <2>3, <2>4, <2>5 DEF IInv
  <1> QED BY <1>1, <1>2

LEMMA Invariant == Spec => []IInv
  BY InitIInv, NextKeeps, PTL DEF Spec

\* Every variable keeps its type, the ids of rules and requests that the rows
\* and the calls carry included.
THEOREM TypeCorrect == Spec => []TypeOK
  <1>1. IInv => TypeOK
    BY DEF IInv, Typed
  <1> QED BY <1>1, Invariant, PTL

\* A Personal rule never has two open requests, however its author's sends
\* overlap on either database (createLibraryRequest).
THEOREM OneRequestAtATime == Spec => []OneOpenPerRule
  <1>1. IInv => OneOpenPerRule
    BY DEF IInv, Requested
  <1> QED BY <1>1, Invariant, PTL

\* A Personal rule's libraryRuleId names a rule that exists, although the
\* removal of a library rule takes no lock (deleteRule, setPersonalRuleLibraryRule).
THEOREM PointersHold == Spec => []PointsToARule
  <1>1. IInv => PointsToARule
    BY DEF IInv, Pointing
  <1> QED BY <1>1, Invariant, PTL

\* On SQLite stored results belong to a Personal rule that exists: a run that
\* outlives its rule stores nothing (replacePersonalRuleResults).
THEOREM ResultsBelong == Spec => []ResultsHaveRule
  <1>1. IInv => ResultsHaveRule
    BY DEF IInv, Resulting
  <1> QED BY <1>1, Invariant, PTL

\* Removals leave no pointer and no results behind (Library's NothingDangles).
THEOREM NothingIsLeft == Spec => []NothingDangles
  <1>1. PointsToARule /\ ResultsHaveRule => NothingDangles
    BY DEF NothingDangles
  <1> QED BY <1>1, PointersHold, ResultsBelong, PTL

\* Copies to the Library alone, renames between them included, never add one
\* Personal rule twice (copyPersonalRuleToLibrary).
THEOREM CopiesAddOne == Spec => []CopiedOnce
  <1>1. ASSUME IInv PROVE CopiedOnce
    <2>1. CopiedPoints
      BY <1>1 DEF IInv, Pointing
    <2> QED BY <2>1 DEF CopiedOnce, CopiedPoints, SomeApproved
  <1> QED BY <1>1, Invariant, PTL

\* No step gives two library rules one name, whichever of an approval, a copy,
\* a creation and an edit overlap (ensureNameFree, updateRuleOn).
THEOREM NamesStayApart == Spec => NoNewDuplicate
  <1> DEFINE Step == \A l1, l2 \in RuleIds :
        l1 # l2 /\ library'[l1].stage = "live" /\ library'[l2].stage = "live"
        /\ library'[l1].name = library'[l2].name =>
            Live(l1) /\ Live(l2) /\ library[l1].name = library[l2].name
  <1>1. IInv /\ [Next]_vars => [Step]_vars
    BY NamesApart DEF IInv
  <1> QED BY <1>1, Invariant, PTL DEF Spec, NoNewDuplicate

\* On SQLite a closed request keeps the decision that closed it, whichever of
\* an approval, a rejection, a withdrawal and a removal overlap.
THEOREM DecisionsHold == Spec => DecidedOnce
  <1> DEFINE Step == ~postgres => \A r \in RequestIds :
        requests[r].status \in {"approved", "rejected", "withdrawn"} =>
            requests'[r].status = requests[r].status
  <1>1. IInv /\ [Next]_vars => [Step]_vars
    BY DecisionsStand DEF IInv
  <1> QED BY <1>1, Invariant, PTL DEF Spec, DecidedOnce
=============================================================================
