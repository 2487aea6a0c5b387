------------------------------ MODULE SqliteGate ------------------------------
(***************************************************************************)
(* The gate in front of the one SQLite connection of a process             *)
(* (lib/db/exec.ts).  Statements outside a transaction wait in settle()    *)
(* until no transaction is open; transactions and the Demo's Reset         *)
(* (lib/demo/live-reset.ts) take the lock.                                 *)
(*                                                                         *)
(* Everything happens in microtasks, one after the other, so the model     *)
(* keeps the queue of microtasks: an `await` of a settled promise appends  *)
(* the rest of the function to it, an `await` of the lock's promise        *)
(* appends it to the promise's reactions, which release() moves to the     *)
(* queue in the order they came.  A lock that is tested in one microtask   *)
(* and relied on in a later one is only as good as what can run in         *)
(* between.                                                                *)
(*                                                                         *)
(* A transaction awaits nothing but statements, as all those of            *)
(* src/packages/web/lib do.  A macrotask (a request, a timer) starts when  *)
(* the queue is empty and may start several calls; the caller of a call    *)
(* that has ended may go on to another one in the same drain of the queue. *)
(***************************************************************************)
EXTENDS Integers, Sequences

CONSTANTS
    Statement,   \* calls of many(), one() and run() outside a transaction
    Transaction, \* calls of inTransaction() and inReadTransaction()
    Exclusive,   \* calls of withExclusiveSqlite()
    Nobody,      \* null
    MaxInner,    \* bound: statements of a transaction
    MaxFollow    \* bound: calls that follow another one in a drain

Call == Statement \cup Transaction \cup Exclusive

ASSUME KindAssumption ==
    /\ Statement \cap Transaction = {}
    /\ Statement \cap Exclusive = {}
    /\ Transaction \cap Exclusive = {}
    /\ Nobody \notin Call
ASSUME BoundAssumption == MaxInner \in Nat \ {0} /\ MaxFollow \in Nat

VARIABLES
    pc,       \* per call: the await it stands at
    queue,    \* the microtasks to run, each the continuation of a call
    held,     \* txLock.held: who made the promise, or null
    waiting,  \* the reactions of that promise
    tx,       \* the transaction open on the connection
    turn,     \* whether a macrotask may still start calls
    followed  \* calls that followed another one in this drain

vars == <<pc, queue, held, waiting, tx, turn, followed>>

NoTx == [by |-> Nobody, mine |-> 0, guests |-> {}]
Inside == {"inner", "innerSettled", "innerDone", "commit", "rollback"}

---------------------------------------------------------------------------
(* Microtasks *)

Runs(c, at) == queue # <<>> /\ Head(queue) = c /\ pc[c] = at

\* Before the lock: after dbReady, or woken by who held it.
AtLock(c) == Runs(c, "ready") \/ Runs(c, "woken")

\* The rest of the function is one more microtask.
Yields(c, to) ==
    /\ pc' = [pc EXCEPT ![c] = to]
    /\ queue' = Append(Tail(queue), c)

\* Variants: who was woken does not look again; statements do not look.
BlockedOnce(c) == held # Nobody /\ pc[c] = "ready"
BlockedUnlessStatement(c) == held # Nobody /\ c \notin Statement

\* The condition of `while (txLock.held) await txLock.held`.
Blocked(c) == held # Nobody

\* `await txLock.held`
Waits(c) ==
    /\ pc' = [pc EXCEPT ![c] = "held"]
    /\ queue' = Tail(queue)
    /\ waiting' = Append(waiting, c)

Woken(c) == [d \in Call |-> IF d = c THEN "resumed"
                            ELSE IF pc[d] = "held" THEN "woken" ELSE pc[d]]

\* `finally`: the lock is let go and everyone who waits for it is woken.
Releases(c) ==
    /\ held' = Nobody
    /\ pc' = Woken(c)
    /\ queue' = Tail(queue) \o waiting \o <<c>>
    /\ waiting' = <<>>

\* Variant: the lock is not let go.
KeepsLock(c) == Yields(c, "resumed") /\ UNCHANGED <<held, waiting>>

Turn == turn' = (IF queue' = <<>> THEN "macro" ELSE "micro")
Follow == followed' = (IF queue' = <<>> THEN 0 ELSE followed)

---------------------------------------------------------------------------
(* Calls *)

\* A macrotask calls; the call's first await is of dbReady.
Start(c) ==
    /\ turn = "macro"
    /\ pc[c] = "idle"
    /\ pc' = [pc EXCEPT ![c] = "ready"]
    /\ queue' = Append(queue, c)
    /\ UNCHANGED <<held, waiting, tx, turn, followed>>

\* The caller of a call that has ended does nothing more, or calls again.
Resume(c) ==
    /\ Runs(c, "resumed")
    /\ \/ /\ pc' = [pc EXCEPT ![c] = "idle"]
          /\ queue' = Tail(queue)
          /\ Follow
       \/ \E d \in Call :
             /\ followed < MaxFollow
             /\ d = c \/ pc[d] = "idle"
             /\ pc' = [pc EXCEPT ![c] = "idle", ![d] = "ready"]
             /\ queue' = Append(Tail(queue), d)
             /\ followed' = followed + 1
    /\ Turn
    /\ UNCHANGED <<held, waiting, tx>>

---------------------------------------------------------------------------
(* A statement outside a transaction *)

\* settle(), after dbReady and after each wait.
Settle(c) ==
    /\ AtLock(c)
    /\ IF Blocked(c) THEN Waits(c)
       ELSE Yields(c, "settled") /\ UNCHANGED waiting

\* many(), one(), run(): settle() has returned, the statement runs.
Execute(c) ==
    /\ Runs(c, "settled")
    /\ tx' = IF tx.by = Nobody THEN tx ELSE [tx EXCEPT !.guests = @ \cup {c}]
    /\ Yields(c, "resumed")
    /\ UNCHANGED waiting

RunStatement(c) ==
    /\ \/ Settle(c) /\ UNCHANGED tx
       \/ Execute(c)
    /\ Turn
    /\ UNCHANGED <<held, followed>>

---------------------------------------------------------------------------
(* A transaction *)

\* runInTransaction(): wait for the lock, take it, BEGIN, and call fn, which
\* runs up to its first statement.  A BEGIN that throws lets the lock go at once.
Acquire(c) ==
    /\ AtLock(c)
    /\ IF Blocked(c) THEN Waits(c) /\ UNCHANGED <<held, tx>>
       ELSE \/ /\ held' = c
               /\ tx' = [NoTx EXCEPT !.by = c]
               /\ Yields(c, "inner")
               /\ UNCHANGED waiting
            \/ /\ Yields(c, "resumed")
               /\ UNCHANGED <<held, tx, waiting>>

\* settle() inside a transaction returns at once.
InnerSettle(c) ==
    /\ Runs(c, "inner")
    /\ Yields(c, "innerSettled")
    /\ UNCHANGED <<held, waiting, tx>>

InnerExecute(c) ==
    /\ Runs(c, "innerSettled")
    /\ tx' = [tx EXCEPT !.mine = @ + 1]
    /\ Yields(c, "innerDone")
    /\ UNCHANGED <<held, waiting>>

\* fn goes on: to another statement, to its end, or to a throw.
Continue(c) ==
    /\ Runs(c, "innerDone")
    /\ \/ tx.mine < MaxInner /\ Yields(c, "inner")
       \/ Yields(c, "commit")
       \/ Yields(c, "rollback")
    /\ UNCHANGED <<held, waiting, tx>>

\* Variant: the lock is let go on the way of success only.
EndReleasing(c) ==
    /\ Runs(c, "commit") \/ Runs(c, "rollback")
    /\ tx' = NoTx
    /\ IF pc[c] = "commit" THEN Releases(c) ELSE KeepsLock(c)

\* COMMIT, or, after a throw of fn or of COMMIT itself, ROLLBACK.
End(c) ==
    /\ Runs(c, "commit") \/ Runs(c, "rollback")
    /\ tx' = NoTx
    /\ Releases(c)

RunTransaction(c) ==
    /\ Acquire(c) \/ InnerSettle(c) \/ InnerExecute(c) \/ Continue(c) \/ End(c)
    /\ Turn
    /\ UNCHANGED followed

---------------------------------------------------------------------------
(* The Demo's Reset *)

\* withExclusiveSqlite(): fn is synchronous, so the lock is taken and let go in
\* one microtask; it throws when a database carries no Demo stamp.
RunExclusive(c) ==
    /\ AtLock(c)
    /\ IF Blocked(c) THEN Waits(c)
       ELSE Yields(c, "resumed") /\ UNCHANGED waiting
    /\ Turn
    /\ UNCHANGED <<held, tx, followed>>

---------------------------------------------------------------------------
Init ==
    /\ pc = [c \in Call |-> "idle"]
    /\ queue = <<>>
    /\ held = Nobody
    /\ waiting = <<>>
    /\ tx = NoTx
    /\ turn = "macro"
    /\ followed = 0

Microtask ==
    \/ \E c \in Call : Resume(c)
    \/ \E c \in Statement : RunStatement(c)
    \/ \E c \in Transaction : RunTransaction(c)
    \/ \E c \in Exclusive : RunExclusive(c)

Next == Microtask \/ \E c \in Call : Start(c)

Spec == Init /\ [][Next]_vars

\* The event loop runs what is queued.
FairSpec == Spec /\ WF_vars(Microtask)

---------------------------------------------------------------------------
(* Properties *)

Pc == {"idle", "ready", "held", "woken", "settled", "resumed"} \cup Inside

TypeOK ==
    /\ pc \in [Call -> Pc]
    /\ queue \in Seq(Call)
    /\ waiting \in Seq(Call)
    /\ held \in Call \cup {Nobody}
    /\ tx \in [by : Call \cup {Nobody}, mine : 0..MaxInner, guests : SUBSET Call]
    /\ turn \in {"macro", "micro"}
    /\ followed \in 0..MaxFollow

\* A transaction that has begun holds the lock and is the one open on the
\* connection, at each of its awaits: no second BEGIN, no COMMIT of another's
\* work.  (runInTransaction's lock, tested in one microtask and held over many.)
OneInside == \A c \in Call : pc[c] \in Inside => held = c /\ tx.by = c

\* What a call does to the connection from outside a transaction.
ActsOutside(c) ==
    \/ c \in Statement /\ Execute(c)
    \/ c \in Exclusive /\ RunExclusive(c) /\ ~Blocked(c)

\* From its first statement to its end, a transaction has the connection to
\* itself: its reads agree with each other, nobody reads what it has not
\* committed.  The gate tests the lock one microtask before the statement runs,
\* so this rests on a transaction's first statement being two after its BEGIN.
Isolated == [][\A c \in Call : ActsOutside(c) => tx.by = Nobody \/ tx.mine = 0]_vars

\* Every call gets its turn and ends, whoever throws: no wait is forgotten by a
\* release, none is left behind by a transaction that fails.
EveryCallEnds == \A c \in Call : pc[c] = "ready" ~> pc[c] = "resumed"

\* exec.ts:19: without the lock "an interleaved caller's statement" would "join
\* ... the open transaction"; with it, no statement from outside ever does.
\* The code breaks it: one that passed settle() runs after the BEGIN.
NeverJoins == tx.guests = {}
=============================================================================
