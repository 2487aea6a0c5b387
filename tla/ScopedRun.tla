------------------------------- MODULE ScopedRun -------------------------------
(***************************************************************************)
(* A scan started by someone whose access is less than Everything:         *)
(* lib/run-scope.ts, lib/access-model.ts and the scoped half of            *)
(* lib/scan-runner.ts, over the copy of Azure's management group tree that *)
(* lib/management-group-hierarchy.ts keeps.                                *)
(*                                                                         *)
(* The rule is sent to the overlap of its own scope and the runner's       *)
(* access.  What comes back is kept where their access reaches, and an     *)
(* open finding there that did not come back is marked fixed.  Azure reads *)
(* a management group by its tree; RuleBeat by its copy, an hour old or    *)
(* more, read once when the request comes in and again when the scan       *)
(* begins.                                                                 *)
(*                                                                         *)
(* One rule, one person and one place a finding of the rule can sit at are *)
(* chosen at the start: rules and findings do not affect each other here.  *)
(***************************************************************************)
EXTENDS Naturals, FiniteSets

CONSTANTS Groups,      \* management groups,
          Root,        \* the tenant root group among them
          Subs,        \* subscriptions,
          Names,       \* and names of resource groups
          FirstTrees,  \* the trees a behaviour starts with
          Rules,       \* [backend, subs, groups]: a rule's query backend and own scope
          Places,      \* [kind, node, rg]: where a finding sits
          Holdings,    \* what the person who runs may hold: sets of [scope, role]
          Readers,     \* the scheduler's refresh of the copy, and an Admin's
          Tick,        \* the scheduler's
          AnswersAbove, \* whether Azure, asked about subscriptions, also answers for the groups above
          MaxChanges,  \* bound: changes made in Azure
          MaxReads,    \* bound: refreshes an Admin asks for
          MaxFailures, \* bound: refreshes that fail
          MaxRuns,     \* bound: runs
          None

\* A node's parent; a node Azure does not have yet has none.
Trees == UNION {[nodes -> Groups] : nodes \in SUBSET ((Groups \ {Root}) \cup Subs)}

\* What a person can hold a Role at.
Scopes ==
    [kind : {"everything", "directory"}, id : {None}, rg : {None}]
    \cup [kind : {"group"}, id : Groups, rg : {None}]
    \cup [kind : {"sub"}, id : Subs, rg : {None}]
    \cup [kind : {"rg"}, id : Subs, rg : Names]

\* A request to Azure: by name, or for every subscription the credential lists.
Requests == [subs : SUBSET Subs, groups : SUBSET Groups]

ASSUME ScopedRunAssumption ==
    /\ Root \in Groups /\ Tick \in Readers /\ FirstTrees \subseteq Trees
    /\ None \notin Groups \cup Subs \cup Names /\ None \notin Requests /\ Groups \cap Subs = {}
    /\ Rules \subseteq [backend : {"arg", "graph", "logs"}, subs : SUBSET Subs, groups : SUBSET Groups]
    /\ Places \subseteq [kind : {"resource", "workspace"}, node : Subs, rg : Names]
                       \cup [kind : {"subscription"}, node : Subs, rg : {None}]
                       \cup [kind : {"group"}, node : Groups, rg : {None}]
                       \cup [kind : {"directory"}, node : {None}, rg : {None}]
    /\ \A t \in FirstTrees, p \in Places : p.node \in Subs => p.node \in DOMAIN t
    /\ AnswersAbove \in BOOLEAN
    /\ Holdings \subseteq SUBSET [scope : Scopes, role : {"viewer", "editor", "admin"}]
    /\ {MaxChanges, MaxReads, MaxFailures, MaxRuns} \subseteq Nat

VARIABLES tree,     \* Azure's tree
          copy,     \* management_group_hierarchy: the tree as last read, None before the first
          reading,  \* the tree each refresh under way has read, or None
          open,     \* whether the finding is open
          rule, place, holding,
          run,      \* the run under way
          changes, reads, failures, runs

given == <<rule, place, holding>>
vars == <<tree, copy, reading, open, given, run, changes, reads, failures, runs>>

---------------------------------------------------------------------------
(* The tree *)

Nodes(t) == DOMAIN t \cup {Root}
Closed(t, nodes) == \A n \in DOMAIN t : t[n] \in nodes => n \in nodes

\* A group and all beneath it: the walk adds children until there are none to add.
\* A group the tree lacks holds nothing.
Beneath(t, group) ==
    IF t = None THEN {}
    ELSE IF group \notin Nodes(t) THEN {}
    ELSE LET walked == {nodes \in SUBSET Nodes(t) : group \in nodes /\ Closed(t, nodes)}
         IN  {n \in Nodes(t) : \A nodes \in walked : n \in nodes}

BeneathAny(t, groups) == UNION {Beneath(t, g) : g \in groups}

---------------------------------------------------------------------------
(* Access *)

RunsScans(role) == role \in {"editor", "admin"}

Grants(access, kind) == {g \in access.grants : g.scope.kind = kind}
Ids(grants) == {g.scope.id : g \in grants}

\* What each management group grant holds, by the copy as it was then.
Expansion(grant, t) ==
    [grant |-> grant, groups |-> Beneath(t, grant.scope.id) \cap Groups,
                      subs |-> Beneath(t, grant.scope.id) \cap Subs]

ResolveAccess(grants) ==
    [grants |-> grants,
     expansions |-> {Expansion(g, copy) : g \in {g \in grants : g.scope.kind = "group"}}]

CoveredAccess(access) ==
    [grants |-> {g \in access.grants : RunsScans(g.role)},
     expansions |-> {e \in access.expansions : RunsScans(e.grant.role)}]

Whole(access) == Grants(access, "everything") # {}

ScopeCovers(scope, at) ==
    \/ scope.kind = "everything"
    \/ scope = at
    \/ scope.kind = "sub" /\ at.kind = "rg" /\ scope.id = at.id

GrantCovers(access, grant, at) ==
    IF grant.scope.kind # "group" THEN ScopeCovers(grant.scope, at)
    ELSE \E e \in access.expansions :
            /\ e.grant = grant
            /\ \/ at.kind \in {"sub", "rg"} /\ at.id \in e.subs
               \/ at.kind = "group" /\ at.id \in e.groups

MayScanAt(access, at) == \E g \in access.grants : RunsScans(g.role) /\ GrantCovers(access, g, at)

\* The Scope a finding sits in.
ScopeOf(p) ==
    CASE p.kind = "directory"    -> [kind |-> "directory", id |-> None, rg |-> None]
      [] p.kind = "subscription" -> [kind |-> "sub", id |-> p.node, rg |-> None]
      [] p.kind = "group"        -> [kind |-> "group", id |-> p.node, rg |-> None]
      [] OTHER                   -> [kind |-> "rg", id |-> p.node, rg |-> p.rg]

\* accessReach: what both tests of a finding start from.
Reach(access) ==
    [everything |-> Whole(access),
     directory |-> Grants(access, "directory") # {},
     subs |-> Ids(Grants(access, "sub")) \cup UNION {e.subs : e \in access.expansions},
     rgs |-> {<<g.scope.id, g.scope.rg>> : g \in Grants(access, "rg")},
     groups |-> UNION {e.groups : e \in access.expansions}]

\* Variant: a resource group is taken for its whole subscription.
WidelyInside(reach, p) ==
    \/ reach.everything
    \/ p.node \in reach.subs \cup {pair[1] : pair \in reach.rgs} \cup reach.groups
    \/ p.kind = "directory" /\ reach.directory

\* The test of a finding a scan has just read.
PlacedInside(reach, p) ==
    \/ reach.everything
    \/ p.kind \in {"resource", "workspace"} /\ (p.node \in reach.subs \/ <<p.node, p.rg>> \in reach.rgs)
    \/ p.kind = "subscription" /\ p.node \in reach.subs
    \/ p.kind = "group" /\ p.node \in reach.groups
    \/ p.kind = "directory" /\ reach.directory

\* The condition the resolve step puts on the findings table.
AccessFilter(access, p) ==
    LET reach == Reach(access)
    IN  \/ Whole(access)
        \/ p.kind \in {"resource", "workspace", "subscription"} /\ p.node \in reach.subs
        \/ \E pair \in reach.rgs :
              /\ pair[1] \notin reach.subs
              /\ p.kind \in {"resource", "workspace"} /\ <<p.node, p.rg>> = pair
        \/ p.kind = "group" /\ p.node \in reach.groups
        \/ p.kind = "directory" /\ reach.directory

---------------------------------------------------------------------------
(* The request a rule is sent with *)

TenantWide == [subs |-> {}, groups |-> {}]

\* Held management groups the copy knew.
HeldGroups(covered) == {e.grant.scope.id : e \in {e \in covered.expansions : e.groups # {}}}

\* Subscriptions held by themselves, and those of a held resource group.
HeldSubs(covered) == Ids(Grants(covered, "sub") \cup Grants(covered, "rg"))

\* Variant: only subscriptions are looked for inside a rule's own group.
SubsPart(group, covered, hierarchy) ==
    IF group \in Reach(covered).groups THEN [subs |-> {}, groups |-> {group}]
    ELSE [subs |-> HeldSubs(covered) \cap Beneath(hierarchy, group), groups |-> {}]

\* A rule's own group is asked whole when it is held, or one above it is;
\* otherwise whatever is held inside it.
GroupPart(group, covered, hierarchy) ==
    IF group \in Reach(covered).groups THEN [subs |-> {}, groups |-> {group}]
    ELSE LET inside == Beneath(hierarchy, group)
         IN  [subs |-> HeldSubs(covered) \cap inside, groups |-> HeldGroups(covered) \cap inside]

\* None: they share nothing.  An empty request would be read as every subscription.
ScopeForRule(requested, covered, hierarchy) ==
    LET parts == {GroupPart(g, covered, hierarchy) : g \in requested.groups}
        overlap ==
            IF requested.subs = {} /\ requested.groups = {}
            THEN [subs |-> HeldSubs(covered), groups |-> HeldGroups(covered)]
            ELSE [subs |-> (requested.subs \cap (Reach(covered).subs \cup HeldSubs(covered)))
                               \cup UNION {part.subs : part \in parts},
                  groups |-> UNION {part.groups : part \in parts}]
    IN  IF Whole(covered) THEN [subs |-> requested.subs, groups |-> requested.groups]
        ELSE IF overlap = TenantWide THEN None ELSE overlap

\* What Azure reads for a request: the subscriptions it names, or for an empty one
\* all the credential lists, and all beneath the groups it names.
Named(request, t) ==
    (IF request = TenantWide THEN Subs \cap DOMAIN t ELSE request.subs)
        \cup BeneathAny(t, request.groups)

\* The subscriptions and management groups whose rows can be in the answer.
Asked(request, t) ==
    IF request = None THEN {}
    ELSE LET named == Named(request, t)
         IN  named \cup {g \in Groups : AnswersAbove /\ Beneath(t, g) \cap named \cap Subs # {}}

---------------------------------------------------------------------------
(* Azure, and the copy of its tree *)

Idle == [stage |-> "idle", access |-> None, hierarchy |-> None, request |-> None,
         seen |-> FALSE, steady |-> FALSE, looked |-> FALSE, inRule |-> FALSE, asked |-> {}]

Init ==
    /\ tree \in FirstTrees /\ copy \in {None, tree}
    /\ reading = [r \in Readers |-> None]
    /\ open \in BOOLEAN
    /\ rule \in Rules /\ place \in Places /\ holding \in Holdings
    /\ rule.backend = CASE place.kind = "directory" -> "graph"
                        [] place.kind = "workspace" -> "logs"
                        [] OTHER -> "arg"
    /\ run = Idle
    /\ changes = 0 /\ reads = 0 /\ failures = 0 /\ runs = 0

\* Whether the copy has said what Azure says, from the request to Azure's answer.
Steady(t, c) == run.steady /\ (run.stage \in {"waiting", "placing", "asking"} => c = t)

\* A node is moved, or made, under a group that is not beneath it.
Move(node, group) ==
    /\ changes < MaxChanges
    /\ group \in DOMAIN tree \cup {Root}
    /\ node \in DOMAIN tree => tree[node] # group
    /\ node \in Groups => group \notin Beneath(tree, node)
    /\ tree' = [n \in DOMAIN tree \cup {node} |-> IF n = node THEN group ELSE tree[n]]
    /\ run' = [run EXCEPT !.steady = Steady(tree', copy)]
    /\ changes' = changes + 1
    /\ UNCHANGED <<copy, reading, open, given, reads, failures, runs>>

\* Variant: once a tree has loaded, the scheduler leaves it.
ReadOnce(r) ==
    /\ reading[r] = None
    /\ IF r = Tick THEN copy = None ELSE reads < MaxReads
    /\ reads' = IF r = Tick THEN reads ELSE reads + 1
    /\ reading' = [reading EXCEPT ![r] = tree]
    /\ UNCHANGED <<tree, copy, open, given, run, changes, failures, runs>>

\* The scheduler's refresh is due every hour; an Admin may ask for one at any time.
Read(r) ==
    /\ reading[r] = None
    /\ r # Tick => reads < MaxReads
    /\ reads' = IF r = Tick THEN reads ELSE reads + 1
    /\ reading' = [reading EXCEPT ![r] = tree]
    /\ UNCHANGED <<tree, copy, open, given, run, changes, failures, runs>>

\* replaceHierarchy: the whole copy at once, whatever was read since.
Replace(r) ==
    /\ reading[r] # None
    /\ copy' = reading[r]
    /\ reading' = [reading EXCEPT ![r] = None]
    /\ run' = [run EXCEPT !.steady = Steady(tree, copy')]
    /\ UNCHANGED <<tree, open, given, changes, reads, failures, runs>>

\* recordFailedAttempt: the copy stays.
FailRead(r) ==
    /\ reading[r] # None /\ failures < MaxFailures
    /\ reading' = [reading EXCEPT ![r] = None]
    /\ failures' = failures + 1
    /\ UNCHANGED <<tree, copy, open, given, run, changes, reads, runs>>

---------------------------------------------------------------------------
(* The run *)

\* POST /api/scans/run: requireRole resolves the access; the run waits for scanLock.
Request ==
    /\ run.stage = "idle" /\ runs < MaxRuns
    /\ \E g \in holding : RunsScans(g.role)
    /\ run' = [Idle EXCEPT !.stage = "waiting", !.access = ResolveAccess(holding),
                           !.steady = (copy = tree)]
    /\ runs' = runs + 1
    /\ UNCHANGED <<tree, copy, reading, open, given, changes, reads, failures>>

\* Whether the rule, sent with its own scope, looks at the place.
InRule(t) ==
    rule.backend = "arg" => place.node \in Asked([subs |-> rule.subs, groups |-> rule.groups], t)

\* runCategoryScan up to its first request.  A rule that overlaps nothing is left out.
Begin ==
    /\ run.stage = "waiting"
    /\ LET covered == CoveredAccess(run.access)
           hierarchy == IF ~Whole(covered) /\ (covered.expansions # {} \/ rule.groups # {})
                        THEN copy ELSE None
           request == ScopeForRule(rule, covered, hierarchy)
           stage == CASE rule.backend = "graph" ->
                             IF Whole(covered) \/ Reach(covered).directory THEN "asking" ELSE "left out"
                      [] rule.backend = "logs" -> IF Whole(covered) THEN "asking" ELSE "placing"
                      [] OTHER -> IF request = None THEN "left out" ELSE "asking"
       IN  run' = [run EXCEPT !.stage = stage, !.hierarchy = hierarchy, !.inRule = InRule(tree),
                              !.request = IF rule.backend = "arg" THEN request ELSE None]
    /\ UNCHANGED <<tree, copy, reading, open, given, changes, reads, failures, runs>>

\* resolveWorkspacePlacement asks through the same narrowed context.
WorkspaceRequest ==
    LET covered == CoveredAccess(run.access) IN ScopeForRule(TenantWide, covered, run.hierarchy)

\* A Logs rule is run if its workspace is found, and covered.
PlaceWorkspace ==
    /\ run.stage = "placing"
    /\ LET found == place.node \in Asked(WorkspaceRequest, tree)
           covers == found /\ PlacedInside(Reach(CoveredAccess(run.access)), place)
       IN  run' = [run EXCEPT !.stage = IF covers THEN "asking" ELSE "left out",
                              !.asked = Asked(WorkspaceRequest, tree)]
    /\ UNCHANGED <<tree, copy, reading, open, given, changes, reads, failures, runs>>

\* Azure answers; the problem is there or not.  A Logs row is placed by another look-up of the workspace.
Answer ==
    /\ run.stage = "asking"
    /\ \E there \in BOOLEAN :
       LET asked == IF rule.backend = "arg" THEN Asked(run.request, tree)
                    ELSE IF rule.backend = "logs" THEN Asked(WorkspaceRequest, tree) ELSE {}
           looked == rule.backend = "graph" \/ place.node \in asked
       IN  run' = [run EXCEPT !.stage = "answered", !.asked = asked, !.looked = looked,
                              !.inRule = InRule(tree), !.seen = looked /\ there]
    /\ UNCHANGED <<tree, copy, reading, open, given, changes, reads, failures, runs>>

\* The query failed, or there was nothing to run: no finding is touched.
GiveUp ==
    /\ run.stage \in {"asking", "left out"}
    /\ run' = Idle
    /\ UNCHANGED <<tree, copy, reading, open, given, changes, reads, failures, runs>>

\* Variant: what did not come back is fixed, as after a run of Everything.
ResolvesAll(covered) == place.kind # "workspace"

\* An activity finding is never marked fixed.
Resolves(covered) ==
    /\ place.kind # "workspace"
    /\ Whole(covered) \/ AccessFilter(covered, place)

\* The scan keeps what is inside, and syncScanFindingsDetailed opens and resolves.
Sync ==
    /\ run.stage = "answered"
    /\ LET covered == CoveredAccess(run.access)
           kept == run.seen /\ (Whole(covered) \/ PlacedInside(Reach(covered), place))
       IN  open' = (kept \/ (open /\ ~Resolves(covered)))
    /\ run' = Idle
    /\ UNCHANGED <<tree, copy, reading, given, changes, reads, failures, runs>>

---------------------------------------------------------------------------
Next ==
    \/ \E node \in (Groups \ {Root}) \cup Subs, group \in Groups : Move(node, group)
    \/ \E r \in Readers : Read(r) \/ Replace(r) \/ FailRead(r)
    \/ Request \/ Begin \/ PlaceWorkspace \/ Answer \/ GiveUp \/ Sync

Spec == Init /\ [][Next]_vars

\* The scheduler's next hour comes, and a refresh under way ends.
FairSpec ==
    /\ Spec
    /\ WF_vars(Read(Tick))
    /\ \A r \in Readers : WF_vars(Replace(r))

---------------------------------------------------------------------------
(* Properties *)

TypeOK ==
    /\ tree \in Trees /\ copy \in Trees \cup {None}
    /\ reading \in [Readers -> Trees \cup {None}]
    /\ open \in BOOLEAN
    /\ run.stage \in {"idle", "waiting", "placing", "asking", "left out", "answered"}
    /\ run.steady \in BOOLEAN /\ run.asked \subseteq Subs \cup Groups

\* While the copy agreed with Azure, the run asked about every place that the
\* rule looks at and the runner may scan: scopeForRule loses nothing of the
\* overlap, and leaves no rule out that has one.
OverlapIsScanned ==
    (/\ run.stage \in {"answered", "left out"} /\ run.steady
     /\ run.inRule /\ MayScanAt(run.access, ScopeOf(place)))
        => run.stage = "answered" /\ run.looked

\* docs/public/scans-and-schedules.md:163: the query is sent to the overlap "and
\* nowhere else".  While the copy agreed with Azure, every subscription asked
\* about is one the runner may scan, or holds a resource group of.
AsksNowhereElse ==
    run.steady =>
        \A s \in run.asked \cap Subs : \E g \in run.access.grants :
            /\ RunsScans(g.role)
            /\ \/ GrantCovers(run.access, g, [kind |-> "sub", id |-> s, rg |-> None])
               \/ g.scope.kind = "rg" /\ g.scope.id = s

\* "Sent to the overlap and nowhere else": both of the above.
ScansTheOverlap == OverlapIsScanned /\ AsksNowhereElse

\* A run opens and fixes a finding only where the runner's access, as resolved
\* when they asked, lets them scan, whatever Azure and the copy did meanwhile.
ChangesOnlyTheirs == [][open' # open => MayScanAt(run.access, ScopeOf(place))]_vars

\* A run never marks fixed what came back to it: the test of a finding just read
\* and the condition on the table draw one line (run-scope.ts:135).  And while the
\* copy agreed with Azure it had asked about the place of what it marks fixed,
\* unless the rule no longer looks there.
FixedWhereLooked ==
    [][open /\ ~open' => ~run.seen /\ (run.steady => run.looked \/ ~run.inRule)]_vars

\* docs/public/rbac.md:32: "the run marks findings fixed only inside what it
\* covered, so it never resolves another team's findings".  Broken while the copy
\* is behind: a subscription moved out of the runner's management group is not
\* asked about, but by the copy it is still theirs.
NeverUnasked == [][open /\ ~open' => run.looked \/ ~run.inRule]_vars

\* Once the tree stays as it is, the copy comes to agree with it, although the
\* older of two refreshes may be the one to end last.
CopyCatchesUp == <>[](copy = tree)
=============================================================================
