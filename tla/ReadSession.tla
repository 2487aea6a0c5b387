------------------------------ MODULE ReadSession ------------------------------
(***************************************************************************)
(* What a screen of findings holds in place of every finding, and how it   *)
(* reads it: ViewFeed and LazyReads of lib/explorer-session.ts, and their  *)
(* two siblings SnapshotFeed (lib/snapshot-session.ts) and CompareFeed     *)
(* (lib/compare-session.ts).                                               *)
(*                                                                         *)
(* A feed reads one answer for the request on screen, again on every       *)
(* change.  Typing waits for a pause; a newer request aborts the read in   *)
(* flight, whose answer may have arrived all the same.  The explorer also  *)
(* reads lazily, once per address, what a viewer opens, and reads all of   *)
(* it again when what is stored changed.  The person, the timer, the       *)
(* server and the network take their steps in any order.                   *)
(*                                                                         *)
(* A request is a text to search for and the rest of the view.  An answer  *)
(* is the request it answers and how often the stored findings had changed *)
(* when the server read them.                                              *)
(***************************************************************************)
EXTENDS Naturals

CONSTANTS Feeds,         \* which screens to look at
          Filters,       \* what else a view is made of
          Texts,         \* search texts
          MaxEvents,     \* a bound: changes of the view and of what is stored, failures, times left
          None

Queries == [filter : Filters, text : Texts]
Answers == [query : Queries, version : Nat]

ASSUME ReadSessionAssumption ==
    /\ Feeds \subseteq {"explorer", "snapshot", "compare"}
    /\ None \notin Queries \cup Answers
    /\ MaxEvents \in Nat

VARIABLES
    feed,       \* which screen this is
    stored,     \* how often what is stored has changed
    since,      \* history: the last change the screen was refreshed for
    wanted,     \* the view the controls show
    told,       \* the view the last effect passed to request()
    mounted,
    latest, requested, current, pending,   \* the feed's fields; pending is a timer's request
    reads,      \* the feed's reads on their way
    shown,      \* the feed's state; data is the answer or, when not ready, the stale one
    epoch, entries,   \* the lazy reads' snapshot, of one address per view
    lazy,       \* lazy reads on their way
    events      \* how many of those there were

feedVars == <<latest, requested, current, pending, reads, shown>>

lazyVars == <<epoch, entries, lazy>>

worldVars == <<stored, since, events>>

screenVars == <<feed, wanted, told, mounted, feedVars, lazyVars, worldVars>>

Happens == events < MaxEvents /\ events' = events + 1

NoEntry == [status |-> "none", version |-> 0]

ScreenInit ==
    /\ feed \in Feeds
    /\ stored = 0 /\ since = 0
    /\ wanted \in Queries /\ told = None /\ mounted = TRUE
    /\ latest = 0 /\ requested = None /\ current = None /\ pending = None
    /\ reads = {}
    /\ shown = [status |-> "loading", query |-> None, data |-> None]
    /\ epoch = 0 /\ entries = [q \in Queries |-> NoEntry] /\ lazy = {}
    /\ events = 0

-----------------------------------------------------------------------------
(* One read.  readJson() always ends: with the answer, or with a failure    *)
(* when the network, the server, the clock or an abort made it fail.        *)

(* Every abort comes with a new latest, so the failure it makes of a read   *)
(* is dropped at once; a read whose answer has arrived goes on.             *)
Aborted(R) == {r \in R : r.at # "asked"}

(* Mutant: every feed as the explorer's. *)
StaleUnlessFailed(state) == IF state.status \in {"refused", "failed"} THEN None ELSE state.data

(* What stays on screen while the next read is on its way: the explorer,    *)
(* unlike its siblings, forgets it once a read has failed.                  *)
StaleOf(state) ==
    IF state.status = "refused" \/ (state.status = "failed" /\ feed = "explorer") THEN None
    ELSE state.data

Start(q) ==
    /\ latest' = latest + 1
    /\ requested' = q /\ current' = q
    /\ shown' = [status |-> "loading", query |-> q, data |-> StaleOf(shown)]
    /\ reads' = Aborted(reads) \cup
          {[id |-> latest + 1, query |-> q, at |-> "asked", version |-> 0, stale |-> StaleOf(shown)]}

(* Mutant: a request already read leaves a waiting one alone. *)
AskedAlreadyWaiting(q) == q = requested /\ UNCHANGED feedVars

AskedAlready(q) ==
    /\ q = requested
    /\ pending' = None
    /\ UNCHANGED <<latest, requested, current, reads, shown>>

OnlyTyped(q) == current # None /\ q.text # current.text /\ q.filter = current.filter

Waits(q) ==
    /\ q # requested
    /\ feed # "compare" /\ OnlyTyped(q)
    /\ pending' = q
    /\ UNCHANGED <<latest, requested, current, reads, shown>>

AskedNow(q) ==
    /\ q # requested
    /\ feed = "compare" \/ ~OnlyTyped(q)
    /\ pending' = None
    /\ Start(q)

Request(q) == AskedAlready(q) \/ Waits(q) \/ AskedNow(q)

RefreshFeed ==
    /\ pending' = None
    /\ Start(IF pending # None THEN pending ELSE current)

TypingPauses ==
    /\ pending # None
    /\ pending' = None
    /\ Start(pending)
    /\ UNCHANGED <<feed, wanted, told, mounted, lazyVars, worldVars>>

(* Mutant: an answer is taken for the request on screen by its query. *)
IsLatestQuery(r) == r.query = requested

IsLatest(r) == r.id = latest

(* An answer is published when no newer read was started. *)
Publish(r) ==
    CASE r.at = "answered" -> [status |-> "ready", query |-> r.query,
                               data |-> [query |-> r.query, version |-> r.version]]
      [] r.at = "failed"   -> [status |-> "failed", query |-> r.query, data |-> r.stale]
      [] r.at = "refused"  -> [status |-> "refused", query |-> r.query, data |-> None]

Deliver ==
    /\ \E r \in reads :
         /\ r.at # "asked"
         /\ reads' = reads \ {r}
         /\ shown' = IF IsLatest(r) THEN Publish(r) ELSE shown
    /\ UNCHANGED <<feed, wanted, told, mounted, latest, requested, current, pending, lazyVars, worldVars>>

-----------------------------------------------------------------------------
(* The lazy reads: once per address, and again when a failed one is retried. *)

Load(q) ==
    /\ entries' = [entries EXCEPT ![q] = [status |-> "loading", version |-> 0]]
    /\ lazy' = lazy \cup {[query |-> q, epoch |-> epoch, at |-> "asked", version |-> 0]}
    /\ UNCHANGED epoch

(* A panel of the view on screen is open, which takes an answer to draw.    *)
PanelOpen == feed = "explorer" /\ mounted /\ told = wanted /\ shown.data # None

LoadEffect ==
    /\ PanelOpen /\ entries[wanted].status = "none"
    /\ Load(wanted)
    /\ UNCHANGED <<feed, wanted, told, mounted, feedVars, worldVars>>

RetryLoad ==
    /\ PanelOpen /\ entries[wanted].status = "failed"
    /\ Load(wanted)
    /\ UNCHANGED <<feed, wanted, told, mounted, feedVars, worldVars>>

DeliverLazy ==
    /\ \E r \in lazy :
         /\ r.at # "asked"
         /\ lazy' = lazy \ {r}
         /\ entries' = IF r.epoch # epoch THEN entries
                       ELSE [entries EXCEPT ![r.query] =
                               [status |-> IF r.at = "answered" THEN "ready" ELSE "failed",
                                version |-> r.version]]
    /\ UNCHANGED <<feed, wanted, told, mounted, feedVars, epoch, worldVars>>

Reset ==
    /\ epoch' = epoch + 1
    /\ entries' = [q \in Queries |-> NoEntry]
    /\ UNCHANGED lazy

-----------------------------------------------------------------------------
(* The server and the network. *)

Answered(r) == [r EXCEPT !.at = "answered", !.version = stored]

ServerAnswers ==
    /\ \/ /\ \E r \in reads : r.at = "asked" /\ reads' = (reads \ {r}) \cup {Answered(r)}
          /\ UNCHANGED lazy
       \/ /\ \E r \in lazy : r.at = "asked" /\ lazy' = (lazy \ {r}) \cup {Answered(r)}
          /\ UNCHANGED reads
    /\ UNCHANGED <<feed, wanted, told, mounted, latest, requested, current, pending, shown,
                   epoch, entries, worldVars>>

Outcomes == IF feed = "explorer" THEN {"failed"} ELSE {"failed", "refused"}

Fail ==
    /\ Happens
    /\ \/ /\ \E r \in reads, outcome \in Outcomes :
               r.at = "asked" /\ reads' = (reads \ {r}) \cup {[r EXCEPT !.at = outcome]}
          /\ UNCHANGED lazy
       \/ /\ \E r \in lazy : r.at = "asked" /\ lazy' = (lazy \ {r}) \cup {[r EXCEPT !.at = "failed"]}
          /\ UNCHANGED reads
    /\ UNCHANGED <<feed, wanted, told, mounted, latest, requested, current, pending, shown,
                   epoch, entries, stored, since>>

(* A scan, or a change to what is suppressed, is stored. *)
Store ==
    /\ feed = "explorer" /\ Happens
    /\ stored' = stored + 1
    /\ UNCHANGED <<feed, wanted, told, mounted, feedVars, lazyVars, since>>

-----------------------------------------------------------------------------
(* The screen. *)

Change ==
    /\ mounted /\ Happens
    /\ wanted' \in Queries \ {wanted}
    /\ UNCHANGED <<feed, told, mounted, feedVars, lazyVars, stored, since>>

RequestEffect ==
    /\ mounted /\ told # wanted
    /\ told' = wanted
    /\ Request(wanted)
    /\ UNCHANGED <<feed, wanted, mounted, lazyVars, worldVars>>

(* ExplorerSession.refresh(): a scan finished or a suppression was stored;  *)
(* the answer to the latter may come after the screen was left.             *)
Refresh ==
    /\ since < stored
    /\ since' = stored
    /\ IF current # None THEN RefreshFeed ELSE UNCHANGED feedVars
    /\ Reset
    /\ UNCHANGED <<feed, wanted, told, mounted, stored, events>>

Retry ==
    /\ mounted /\ shown.status = "failed"
    /\ RefreshFeed
    /\ UNCHANGED <<feed, wanted, told, mounted, lazyVars, worldVars>>

Dispose ==
    /\ mounted /\ Happens
    /\ mounted' = FALSE
    /\ pending' = None
    /\ latest' = latest + 1 /\ requested' = None
    /\ reads' = Aborted(reads)
    /\ UNCHANGED <<feed, wanted, told, current, shown, lazyVars, stored, since>>

(* The screen is shown again with the same session: its effects run anew.   *)
Remount ==
    /\ ~mounted
    /\ mounted' = TRUE /\ told' = None
    /\ UNCHANGED <<feed, wanted, feedVars, lazyVars, worldVars>>

ScreenNext ==
    \/ Change \/ RequestEffect \/ Refresh \/ Retry \/ Dispose \/ Remount
    \/ TypingPauses \/ ServerAnswers \/ Fail \/ Deliver \/ Store
    \/ LoadEffect \/ RetryLoad \/ DeliverLazy

ScreenSpec == ScreenInit /\ [][ScreenNext]_screenVars

(* Effects run, timers fire, a read ends within READ_TIMEOUT_MS, and the    *)
(* screen hears of what was stored.  Nobody has to retry.                   *)
Fairness ==
    /\ WF_screenVars(RequestEffect) /\ WF_screenVars(LoadEffect) /\ WF_screenVars(Refresh) /\ WF_screenVars(TypingPauses)
    /\ WF_screenVars(ServerAnswers) /\ WF_screenVars(Deliver) /\ WF_screenVars(DeliverLazy)

ScreenFairSpec == ScreenSpec /\ Fairness

-----------------------------------------------------------------------------
(* An answer shown as ready answers the newest request that was started     *)
(* and was read after the last refresh, whatever order answers, aborts,     *)
(* resets and refreshes come in; so was every lazy answer.                  *)
ShowsTheNewest ==
    /\ shown.status = "ready" =>
          /\ shown.data.query = shown.query /\ shown.query = current
          /\ shown.data.version >= since
    /\ \A q \in Queries : entries[q].status = "ready" => entries[q].version >= since

(* When the person, the scans and the failures stop, what is shown is the   *)
(* outcome of a read of the view on screen, and of what is stored.          *)
SettlesOnWanted ==
    <>[](mounted =>
            /\ shown.query = wanted /\ shown.status # "loading"
            /\ shown.status = "ready" => shown.data.version = stored
            /\ PanelOpen => entries[wanted].status \in {"ready", "failed"})

(* "A failed read keeps the last answer" (snapshot-session.ts:23,           *)
(* compare-session.ts:23), through any number of retries that fail: only a  *)
(* refusal takes an answer off the screen.  explorer-session.ts:195 says    *)
(* the same, but there the retry of a failed read drops it.                 *)
KeepsAnswer ==
    [][feed # "explorer" /\ shown.data # None /\ shown'.data = None => shown'.status = "refused"]_screenVars
=============================================================================
