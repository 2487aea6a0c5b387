------------------------- MODULE NotificationOutbox -------------------------
(***************************************************************************)
(* What the outbox promises of each run, whoever keeps it: batches gather  *)
(* on an open run; when the run closes, what it gathered is owed, unless   *)
(* nobody asked to be told of it; an owed entry may be told more than      *)
(* once, and is settled only after all of it was told; a closed entry      *)
(* stays closed.  Only a failed database call lets a run drop what it had  *)
(* gathered.  (docs/public/notifications.md, "Test sends, retries and      *)
(* history"; lib/notifications/dispatch.ts, dispatchAndMarkSent)           *)
(***************************************************************************)
CONSTANTS Run, Category,
          Problems   \* the batches every channel must be told of

VARIABLES asked,     \* the runs a schedule started
          entry,     \* "open", "owed" or "closed", per run
          gathered,  \* the batches on the run
          told,      \* <<run, batch>> handed to the channels
          failed     \* a database call has failed

vars == <<asked, entry, gathered, told, failed>>

Init ==
    /\ asked = {}
    /\ entry = [r \in Run |-> "open"]
    /\ gathered = [r \in Run |-> {}]
    /\ told = {}
    /\ failed = FALSE

\* A run starts, and Run History forgets the runs it no longer keeps; the
\* start may itself fail half-way.
Begin(r, old) ==
    /\ entry[r] = "open" /\ gathered[r] = {}
    /\ r \notin old
    /\ asked' \in {asked \ old, (asked \ old) \cup {r}}
    /\ entry' = [x \in Run |-> IF x \in old THEN "closed" ELSE entry[x]]
    /\ gathered' = [x \in Run |-> IF x \in old THEN {} ELSE gathered[x]]
    /\ told' = told \ (old \X Category)
    /\ failed' \in {failed, TRUE}

Gather(r, c) ==
    /\ entry[r] = "open"
    /\ gathered' = [gathered EXCEPT ![r] = @ \cup {c}]
    /\ UNCHANGED <<asked, entry, told, failed>>

\* The run closes, with all it had gathered and perhaps more.
Close(r, with) ==
    /\ entry[r] = "open"
    /\ gathered[r] \subseteq with
    /\ gathered' = [gathered EXCEPT ![r] = with]
    /\ \/ entry' = [entry EXCEPT ![r] = "owed"]
       \/ /\ r \notin asked \/ with \cap Problems = {}
          /\ entry' = [entry EXCEPT ![r] = "closed"]
    /\ UNCHANGED <<asked, told, failed>>

Tell(r) ==
    /\ entry[r] = "owed"
    /\ told' = told \cup ({r} \X gathered[r])
    /\ UNCHANGED <<asked, entry, gathered, failed>>

Settle(r) ==
    /\ entry[r] = "owed"
    /\ {r} \X gathered[r] \subseteq told
    /\ entry' = [entry EXCEPT ![r] = "closed"]
    /\ UNCHANGED <<asked, gathered, told, failed>>

Fail == failed' = TRUE /\ UNCHANGED <<asked, entry, gathered, told>>

Abandon(r) ==
    /\ failed
    /\ entry[r] # "closed"
    /\ entry' = [entry EXCEPT ![r] = "closed"]
    /\ gathered' = [gathered EXCEPT ![r] = {}]
    /\ UNCHANGED <<asked, told, failed>>

Next ==
    \/ Fail
    \/ \E r \in Run : \/ \E old \in SUBSET Run : Begin(r, old)
                      \/ \E c \in Category : Gather(r, c)
                      \/ \E with \in SUBSET Category : Close(r, with)
                      \/ Tell(r) \/ Settle(r) \/ Abandon(r)

Spec == Init /\ [][Next]_vars
=============================================================================
