---------------------------- MODULE ScopedRunProofs ----------------------------
(***************************************************************************)
(* A scoped run, for every tree, every copy of it, every rule and every    *)
(* set of grants.                                                          *)
(*                                                                         *)
(* What it changes lies inside the runner's access, whatever the copy      *)
(* says: the test of a finding just read, the condition of the resolve     *)
(* step and grantCovers, by which the rest of the program decides what     *)
(* someone may do at a place, read the same expansions.                    *)
(*                                                                         *)
(* What it asks is the overlap of the rule and the access, no less and no  *)
(* more, while the copy agrees with Azure.  This rests on the tree being   *)
(* one: of two groups a node is beneath, one is beneath the other.         *)
(***************************************************************************)
EXTENDS ScopedRun, TLAPS

Grant == [scope : Scopes, role : {"viewer", "editor", "admin"}]

\* An expansion belongs to a management group grant of the same access.
Sound(access) ==
    /\ access.grants \subseteq Grant
    /\ \A e \in access.expansions : e.grant \in access.grants /\ e.grant.scope.kind = "group"

\* A run under way has an access, whatever stage it is in.
IInv ==
    /\ holding \in Holdings /\ place \in Places /\ open \in BOOLEAN
    /\ run.stage # "idle" => Sound(run.access)

---------------------------------------------------------------------------
(* The three derivations *)

\* The covered access loses no grant that runs scans and gains none.
LEMMA CoveredSound ==
    ASSUME NEW access, Sound(access)
    PROVE  /\ Sound(CoveredAccess(access))
           /\ \A g \in CoveredAccess(access).grants : g \in access.grants /\ RunsScans(g.role)
           /\ \A e \in CoveredAccess(access).expansions : e \in access.expansions
BY DEF Sound, CoveredAccess

\* Everything covers every place.
LEMMA WholeCovers ==
    ASSUME NEW access, Sound(access), Whole(CoveredAccess(access)), NEW at
    PROVE  MayScanAt(access, at)
<1>1. PICK g \in Grants(CoveredAccess(access), "everything") : TRUE
  BY DEF Whole
<1>2. g \in access.grants /\ RunsScans(g.role) /\ g.scope.kind = "everything"
  BY <1>1, CoveredSound DEF Grants
<1>3. GrantCovers(access, g, at)
  BY <1>2 DEF GrantCovers, ScopeCovers
<1> QED
  BY <1>2, <1>3 DEF MayScanAt

\* A subscription that is reached covers what sits in it.
LEMMA SubCovers ==
    ASSUME NEW access, Sound(access), NEW at \in Scopes, at.kind \in {"sub", "rg"},
           at.id \in Reach(CoveredAccess(access)).subs
    PROVE  MayScanAt(access, at)
<1> DEFINE covered == CoveredAccess(access)
<1>1. \/ \E g \in covered.grants : g.scope.kind = "sub" /\ g.scope.id = at.id
      \/ \E e \in covered.expansions : at.id \in e.subs
  BY DEF Reach, Ids, Grants
<1>2. CASE \E g \in covered.grants : g.scope.kind = "sub" /\ g.scope.id = at.id
  <2>1. PICK g \in covered.grants : g.scope.kind = "sub" /\ g.scope.id = at.id
    BY <1>2
  <2>2. g \in access.grants /\ RunsScans(g.role) /\ g \in Grant
    BY <2>1, CoveredSound DEF Sound
  <2>3. at.kind = "sub" => g.scope = at
    BY <2>1, <2>2 DEF Grant, Scopes
  <2>4. ScopeCovers(g.scope, at)
    BY <2>1, <2>3 DEF ScopeCovers
  <2> QED
    BY <2>1, <2>2, <2>4 DEF MayScanAt, GrantCovers
<1>3. CASE \E e \in covered.expansions : at.id \in e.subs
  <2>1. PICK e \in covered.expansions : at.id \in e.subs
    BY <1>3
  <2>2. /\ e \in access.expansions
        /\ e.grant \in access.grants /\ e.grant.scope.kind = "group"
        /\ RunsScans(e.grant.role)
    BY <2>1, CoveredSound DEF Sound, CoveredAccess
  <2>3. GrantCovers(access, e.grant, at)
    BY <2>1, <2>2 DEF GrantCovers
  <2> QED
    BY <2>2, <2>3 DEF MayScanAt
<1> QED
  BY <1>1, <1>2, <1>3

\* So does a resource group, and the directory.
LEMMA GrantItselfCovers ==
    ASSUME NEW access, Sound(access), NEW at \in Scopes, at.kind # "group",
           NEW g \in CoveredAccess(access).grants, g.scope = at
    PROVE  MayScanAt(access, at)
<1>1. g \in access.grants /\ RunsScans(g.role)
  BY CoveredSound
<1>2. GrantCovers(access, g, at)
  BY DEF GrantCovers, ScopeCovers
<1> QED
  BY <1>1, <1>2 DEF MayScanAt

\* Where a finding sits is a Scope.
LEMMA PlaceIsScope ==
    ASSUME NEW p \in Places
    PROVE  /\ ScopeOf(p) \in Scopes
           /\ p.kind \in {"resource", "workspace"} =>
                ScopeOf(p) = [kind |-> "rg", id |-> p.node, rg |-> p.rg]
           /\ p.kind = "subscription" => ScopeOf(p) = [kind |-> "sub", id |-> p.node, rg |-> None]
           /\ p.kind = "group" => ScopeOf(p) = [kind |-> "group", id |-> p.node, rg |-> None]
           /\ p.kind = "directory" => ScopeOf(p) = [kind |-> "directory", id |-> None, rg |-> None]
BY ScopedRunAssumption DEF ScopeOf, Scopes

\* A held resource group covers what sits in it, and a held Directory the directory.
LEMMA NarrowCovers ==
    ASSUME NEW access, Sound(access), NEW p \in Places,
           \/ /\ p.kind \in {"resource", "workspace"}
              /\ <<p.node, p.rg>> \in Reach(CoveredAccess(access)).rgs
           \/ p.kind = "directory" /\ Reach(CoveredAccess(access)).directory
    PROVE  MayScanAt(access, ScopeOf(p))
<1> DEFINE covered == CoveredAccess(access)
<1>1. CASE p.kind \in {"resource", "workspace"} /\ <<p.node, p.rg>> \in Reach(covered).rgs
  <2>1. PICK g \in Grants(covered, "rg") : <<p.node, p.rg>> = <<g.scope.id, g.scope.rg>>
    BY <1>1 DEF Reach
  <2>2. g \in covered.grants /\ g.scope.kind = "rg" /\ g \in Grant
    BY <2>1, CoveredSound DEF Grants, Sound
  <2>3. g.scope = [kind |-> "rg", id |-> p.node, rg |-> p.rg]
    BY <2>1, <2>2 DEF Grant, Scopes
  <2> QED
    BY <1>1, <2>2, <2>3, PlaceIsScope, GrantItselfCovers
<1>2. CASE p.kind = "directory" /\ Reach(covered).directory
  <2>1. PICK g \in Grants(covered, "directory") : TRUE
    BY <1>2 DEF Reach
  <2>2. g \in covered.grants /\ g.scope.kind = "directory" /\ g \in Grant
    BY <2>1, CoveredSound DEF Grants, Sound
  <2>3. g.scope = [kind |-> "directory", id |-> None, rg |-> None]
    BY <2>2 DEF Grant, Scopes
  <2> QED
    BY <1>2, <2>2, <2>3, PlaceIsScope, GrantItselfCovers
<1> QED
  BY <1>1, <1>2

\* A management group that is reached covers what sits at it.
LEMMA GroupCovers ==
    ASSUME NEW access, Sound(access), NEW p \in Places, p.kind = "group",
           p.node \in Reach(CoveredAccess(access)).groups
    PROVE  MayScanAt(access, ScopeOf(p))
<1>1. PICK e \in CoveredAccess(access).expansions : p.node \in e.groups
  BY DEF Reach
<1>2. /\ e \in access.expansions
      /\ e.grant \in access.grants /\ e.grant.scope.kind = "group"
      /\ RunsScans(e.grant.role)
  BY <1>1, CoveredSound DEF Sound, CoveredAccess
<1>3. GrantCovers(access, e.grant, ScopeOf(p))
  BY <1>1, <1>2, PlaceIsScope DEF GrantCovers
<1> QED
  BY <1>2, <1>3 DEF MayScanAt

\* The test of a finding just read agrees with grantCovers.
LEMMA InsideIsTheirs ==
    ASSUME NEW access, Sound(access), NEW p \in Places,
           PlacedInside(Reach(CoveredAccess(access)), p)
    PROVE  MayScanAt(access, ScopeOf(p))
<1> DEFINE reach == Reach(CoveredAccess(access))
<1>1. CASE reach.everything
  BY <1>1, WholeCovers DEF Reach
<1>2. CASE p.kind \in {"resource", "workspace", "subscription"} /\ p.node \in reach.subs
  BY <1>2, PlaceIsScope, SubCovers
<1>3. CASE p.kind = "group" /\ p.node \in reach.groups
  BY <1>3, GroupCovers
<1> QED
  BY <1>1, <1>2, <1>3, NarrowCovers DEF PlacedInside

\* So does the condition of the resolve step.
LEMMA FilterIsTheirs ==
    ASSUME NEW access, Sound(access), NEW p \in Places,
           AccessFilter(CoveredAccess(access), p)
    PROVE  MayScanAt(access, ScopeOf(p))
<1> DEFINE reach == Reach(CoveredAccess(access))
<1>1. CASE Whole(CoveredAccess(access))
  BY <1>1, WholeCovers
<1>2. CASE p.kind \in {"resource", "workspace", "subscription"} /\ p.node \in reach.subs
  BY <1>2, PlaceIsScope, SubCovers
<1>3. CASE \E pair \in reach.rgs : p.kind \in {"resource", "workspace"} /\ <<p.node, p.rg>> = pair
  BY <1>3, NarrowCovers
<1>4. CASE p.kind = "directory" /\ reach.directory
  BY <1>4, NarrowCovers
<1>5. CASE p.kind = "group" /\ p.node \in reach.groups
  BY <1>5, GroupCovers
<1> QED
  BY <1>1, <1>2, <1>3, <1>4, <1>5 DEF AccessFilter

\* What the resolve step reaches passes the test of a finding just read.
LEMMA FilterIsInside ==
    ASSUME NEW access, NEW p, AccessFilter(access, p)
    PROVE  PlacedInside(Reach(access), p)
<1>1. Whole(access) => Reach(access).everything
  BY DEF Reach
<1> QED
  BY <1>1 DEF AccessFilter, PlacedInside

---------------------------------------------------------------------------
(* The invariant *)

LEMMA InitIInv == Init => IInv
BY DEF Init, IInv, Idle

\* The access a request resolves is sound, whatever the copy says.
LEMMA ResolvedSound ==
    ASSUME NEW grants \in Holdings
    PROVE  Sound(ResolveAccess(grants))
BY ScopedRunAssumption DEF Sound, ResolveAccess, Expansion, Grant

LEMMA StepIInv == IInv /\ [Next]_vars => IInv'
<1> SUFFICES ASSUME IInv, [Next]_vars PROVE IInv'
  OBVIOUS
<1> USE DEF IInv
<1>1. ASSUME NEW node \in (Groups \ {Root}) \cup Subs, NEW group \in Groups, Move(node, group)
      PROVE  IInv'
  <2>1. run'.stage = run.stage /\ run'.access = run.access
    BY <1>1 DEF Move
  <2> QED
    BY <1>1, <2>1 DEF Move, given
<1>2. ASSUME NEW r \in Readers, Read(r) PROVE IInv'
  BY <1>2 DEF Read, given
<1>3. ASSUME NEW r \in Readers, Replace(r) PROVE IInv'
  <2>1. run'.stage = run.stage /\ run'.access = run.access
    BY <1>3 DEF Replace
  <2> QED
    BY <1>3, <2>1 DEF Replace, given
<1>4. ASSUME NEW r \in Readers, FailRead(r) PROVE IInv'
  BY <1>4 DEF FailRead, given
<1>5. CASE Request
  <2>1. run'.access = ResolveAccess(holding)
    BY <1>5 DEF Request, Idle
  <2> QED
    BY <1>5, <2>1, ResolvedSound DEF Request, given
<1>6. CASE Begin
  <2>1. run'.access = run.access /\ run.stage = "waiting"
    BY <1>6 DEF Begin
  <2> QED
    BY <1>6, <2>1 DEF Begin, given
<1>7. CASE PlaceWorkspace
  <2>1. run'.access = run.access /\ run.stage = "placing"
    BY <1>7 DEF PlaceWorkspace
  <2> QED
    BY <1>7, <2>1 DEF PlaceWorkspace, given
<1>8. CASE Answer
  <2>1. run'.access = run.access /\ run.stage = "asking"
    BY <1>8 DEF Answer
  <2> QED
    BY <1>8, <2>1 DEF Answer, given
<1>9. CASE GiveUp
  BY <1>9 DEF GiveUp, Idle, given
<1>10. CASE Sync
  <2>1. open' \in BOOLEAN
    BY <1>10 DEF Sync, Resolves
  <2> QED
    BY <1>10, <2>1 DEF Sync, Idle, given
<1>11. CASE UNCHANGED vars
  BY <1>11 DEF vars, given
<1> QED
  BY <1>1, <1>2, <1>3, <1>4, <1>5, <1>6, <1>7, <1>8, <1>9, <1>10, <1>11 DEF Next

---------------------------------------------------------------------------
(* The tree, of any shape *)

LEMMA BeneathClosed ==
    ASSUME NEW t, NEW g
    PROVE  /\ Beneath(t, g) \subseteq Nodes(t)
           /\ Closed(t, Beneath(t, g))
           /\ Beneath(t, g) # {} => t # None /\ g \in Nodes(t) /\ g \in Beneath(t, g)
BY DEF Beneath, Closed, Nodes

LEMMA BeneathLeast ==
    ASSUME NEW t, NEW g, NEW nodes, nodes \subseteq Nodes(t), g \in nodes, Closed(t, nodes)
    PROVE  Beneath(t, g) \subseteq nodes
BY DEF Beneath

\* What is beneath a group beneath another is beneath that one.
LEMMA BeneathTransitive ==
    ASSUME NEW t, NEW h, NEW g \in Beneath(t, h)
    PROVE  Beneath(t, g) \subseteq Beneath(t, h)
BY BeneathClosed, BeneathLeast

\* A node beneath a group and not the group itself has its parent beneath it.
LEMMA ParentBeneath ==
    ASSUME NEW t, NEW h, NEW n \in Beneath(t, h), n # h
    PROVE  n \in DOMAIN t /\ t[n] \in Beneath(t, h)
<1> DEFINE S == {h} \cup {m \in Beneath(t, h) : m \in DOMAIN t /\ t[m] \in Beneath(t, h)}
<1>1. h \in Beneath(t, h) /\ Closed(t, Beneath(t, h)) /\ Beneath(t, h) \subseteq Nodes(t)
  BY BeneathClosed
<1>2. S \subseteq Beneath(t, h)
  BY <1>1
<1>3. Closed(t, S)
  BY <1>1, <1>2 DEF Closed
<1>4. S \subseteq Nodes(t)
  BY <1>1, <1>2
<1>5. Beneath(t, h) \subseteq S
  BY <1>3, <1>4, BeneathLeast
<1> QED
  BY <1>5

\* Of two groups a node is beneath, one is beneath the other: a node has one parent.
LEMMA Nested ==
    ASSUME NEW t, NEW g, NEW h, NEW n, n \in Beneath(t, g), n \in Beneath(t, h)
    PROVE  g \in Beneath(t, h) \/ h \in Beneath(t, g)
<1> SUFFICES ASSUME g \notin Beneath(t, h), h \notin Beneath(t, g) PROVE FALSE
  OBVIOUS
<1> DEFINE S == Beneath(t, g) \ Beneath(t, h)
<1>1. g \in S /\ S \subseteq Nodes(t)
  BY BeneathClosed
<1>2. Closed(t, S)
  <2> SUFFICES ASSUME NEW m \in DOMAIN t, t[m] \in S PROVE m \in S
    BY DEF Closed
  <2>1. m \in Beneath(t, g)
    BY BeneathClosed DEF Closed
  <2>2. m \in Beneath(t, h) => m = h \/ t[m] \in Beneath(t, h)
    BY ParentBeneath
  <2> QED
    BY <2>1, <2>2
<1>3. Beneath(t, g) \subseteq S
  BY <1>1, <1>2, BeneathLeast
<1> QED
  BY <1>3

---------------------------------------------------------------------------
(* The overlap of a rule and an access, while the copy is Azure's tree *)

\* The access was resolved by this tree.
ResolvedBy(access, t) ==
    access.expansions = {Expansion(g, t) : g \in {g \in access.grants : g.scope.kind = "group"}}

\* One of a run's grants lets them scan in a subscription, or in a part of it.
Theirs(access, s) ==
    \E g \in access.grants :
        /\ RunsScans(g.role)
        /\ \/ GrantCovers(access, g, [kind |-> "sub", id |-> s, rg |-> None])
           \/ g.scope.kind = "rg" /\ g.scope.id = s

LEMMA HeldIsTheirs ==
    ASSUME NEW access, Sound(access),
           NEW s \in Reach(CoveredAccess(access)).subs \cup HeldSubs(CoveredAccess(access))
    PROVE  Theirs(access, s)
<1> DEFINE covered == CoveredAccess(access)
           at == [kind |-> "sub", id |-> s, rg |-> None]
<1>1. CASE \E e \in covered.expansions : s \in e.subs
  <2>1. PICK e \in covered.expansions : s \in e.subs
    BY <1>1
  <2>2. /\ e \in access.expansions
        /\ e.grant \in access.grants /\ e.grant.scope.kind = "group"
        /\ RunsScans(e.grant.role)
    BY <2>1 DEF Sound, CoveredAccess
  <2>3. GrantCovers(access, e.grant, at)
    BY <2>1, <2>2 DEF GrantCovers
  <2> QED
    BY <2>2, <2>3 DEF Theirs
<1>2. CASE \E g \in covered.grants : g.scope.kind \in {"sub", "rg"} /\ g.scope.id = s
  <2>1. PICK g \in covered.grants : g.scope.kind \in {"sub", "rg"} /\ g.scope.id = s
    BY <1>2
  <2>2. g \in access.grants /\ RunsScans(g.role) /\ g \in Grant
    BY <2>1, CoveredSound DEF Sound
  <2>3. CASE g.scope.kind = "sub"
    <3>1. g.scope = at
      BY <2>1, <2>2, <2>3 DEF Grant, Scopes
    <3>2. GrantCovers(access, g, at)
      BY <2>3, <3>1 DEF GrantCovers, ScopeCovers
    <3> QED
      BY <2>2, <3>2 DEF Theirs
  <2>4. CASE g.scope.kind = "rg"
    BY <2>1, <2>2, <2>4 DEF Theirs
  <2> QED
    BY <2>1, <2>3, <2>4
<1>3. \/ \E e \in covered.expansions : s \in e.subs
      \/ \E g \in covered.grants : g.scope.kind \in {"sub", "rg"} /\ g.scope.id = s
  BY DEF Reach, HeldSubs, Ids, Grants
<1> QED
  BY <1>1, <1>2, <1>3

\* A group that is held, or beneath one, holds no subscription that is not theirs.
LEMMA HeldGroupIsTheirs ==
    ASSUME NEW access, Sound(access), NEW t, ResolvedBy(access, t),
           NEW g \in Reach(CoveredAccess(access)).groups \cup HeldGroups(CoveredAccess(access)),
           NEW s \in Beneath(t, g) \cap Subs
    PROVE  Theirs(access, s)
<1> DEFINE covered == CoveredAccess(access)
<1>1. PICK e \in covered.expansions : g \in e.groups \/ (g = e.grant.scope.id /\ e.groups # {})
  BY DEF Reach, HeldGroups
<1>2. e \in access.expansions
  BY <1>1 DEF CoveredAccess
<1>3. e.groups = Beneath(t, e.grant.scope.id) \cap Groups /\ e.subs = Beneath(t, e.grant.scope.id) \cap Subs
  BY <1>2 DEF ResolvedBy, Expansion
<1>4. Beneath(t, g) \subseteq Beneath(t, e.grant.scope.id)
  BY <1>1, <1>3, BeneathTransitive
<1>5. s \in Reach(covered).subs
  BY <1>1, <1>3, <1>4 DEF Reach
<1> QED
  BY <1>5, HeldIsTheirs

\* The request a rule with a scope of its own is sent with.
Narrowed(requested, covered, hierarchy) ==
    [subs |-> (requested.subs \cap (Reach(covered).subs \cup HeldSubs(covered)))
                  \cup UNION {GroupPart(g, covered, hierarchy).subs : g \in requested.groups},
     groups |-> UNION {GroupPart(g, covered, hierarchy).groups : g \in requested.groups}]

LEMMA RequestIs ==
    ASSUME NEW requested, NEW covered, NEW hierarchy, ~Whole(covered)
    PROVE  LET request == ScopeForRule(requested, covered, hierarchy)
               sent == IF requested.subs = {} /\ requested.groups = {}
                       THEN [subs |-> HeldSubs(covered), groups |-> HeldGroups(covered)]
                       ELSE Narrowed(requested, covered, hierarchy)
           IN  request = IF sent = TenantWide THEN None ELSE sent
<1> DEFINE parts == {GroupPart(g, covered, hierarchy) : g \in requested.groups}
<1>1. /\ UNION {part.subs : part \in parts}
           = UNION {GroupPart(g, covered, hierarchy).subs : g \in requested.groups}
      /\ UNION {part.groups : part \in parts}
           = UNION {GroupPart(g, covered, hierarchy).groups : g \in requested.groups}
  OBVIOUS
<1> QED
  BY <1>1 DEF ScopeForRule, Narrowed

\* A part of a rule's own group is held.
LEMMA PartIsHeld ==
    ASSUME NEW g, NEW covered, NEW hierarchy
    PROVE  /\ GroupPart(g, covered, hierarchy).subs \subseteq HeldSubs(covered)
           /\ GroupPart(g, covered, hierarchy).groups
                \subseteq Reach(covered).groups \cup HeldGroups(covered)
<1>1. CASE g \in Reach(covered).groups
  BY <1>1 DEF GroupPart
<1>2. CASE g \notin Reach(covered).groups
  <2>1. GroupPart(g, covered, hierarchy) = [subs |-> HeldSubs(covered) \cap Beneath(hierarchy, g),
                                           groups |-> HeldGroups(covered) \cap Beneath(hierarchy, g)]
    BY <1>2 DEF GroupPart
  <2> QED
    BY <2>1
<1> QED
  BY <1>1, <1>2

\* What a request reads beyond what is the runner's: nothing.
LEMMA AskedIsTheirs ==
    ASSUME NEW access, Sound(access), NEW t, ResolvedBy(access, t), NEW hierarchy, NEW requested,
           NEW s \in Asked(ScopeForRule(requested, CoveredAccess(access), hierarchy), t) \cap Subs
    PROVE  Theirs(access, s)
<1> DEFINE covered == CoveredAccess(access)
           request == ScopeForRule(requested, covered, hierarchy)
<1>1. CASE Whole(covered)
  BY <1>1, WholeCovers DEF MayScanAt, Theirs
<1>2. CASE ~Whole(covered)
  <2>1. request # None /\ request # TenantWide
    BY <1>2 DEF ScopeForRule, Asked
  <2>2. s \in request.subs \/ \E g \in request.groups : s \in Beneath(t, g) \cap Subs
    BY <2>1, ScopedRunAssumption DEF Asked, Named, BeneathAny
  <2>3. /\ request.subs \subseteq Reach(covered).subs \cup HeldSubs(covered)
        /\ request.groups \subseteq Reach(covered).groups \cup HeldGroups(covered)
    <3>1. CASE requested.subs = {} /\ requested.groups = {}
      <4>1. request = [subs |-> HeldSubs(covered), groups |-> HeldGroups(covered)]
        BY <1>2, <2>1, <3>1, RequestIs
      <4> QED
        BY <4>1
    <3>2. CASE ~(requested.subs = {} /\ requested.groups = {})
      <4>1. request = Narrowed(requested, covered, hierarchy)
        BY <1>2, <2>1, <3>2, RequestIs
      <4> QED
        BY <4>1, PartIsHeld DEF Narrowed
    <3> QED
      BY <3>1, <3>2
  <2> QED
    BY <2>2, <2>3, HeldIsTheirs, HeldGroupIsTheirs
<1> QED
  BY <1>1, <1>2

\* Someone who may scan at a subscription or a resource group holds Everything, the
\* subscription or a part of it, or a group it is beneath.
LEMMA HowTheirs ==
    ASSUME NEW access, Sound(access), NEW t, ResolvedBy(access, t), NEW at \in Scopes,
           at.kind \in {"sub", "rg"}, MayScanAt(access, at)
    PROVE  \/ Whole(CoveredAccess(access))
           \/ at.id \in HeldSubs(CoveredAccess(access))
           \/ \E e \in CoveredAccess(access).expansions :
                 /\ e = Expansion(e.grant, t) /\ e.grant.scope.id \in HeldGroups(CoveredAccess(access))
                 /\ at.id \in Beneath(t, e.grant.scope.id) \cap Subs
<1> DEFINE covered == CoveredAccess(access)
<1>1. PICK g \in access.grants : RunsScans(g.role) /\ GrantCovers(access, g, at)
  BY DEF MayScanAt
<1>2. g \in covered.grants /\ g \in Grant
  BY <1>1 DEF CoveredAccess, Sound
<1>3. CASE g.scope.kind # "group"
  <2>1. ScopeCovers(g.scope, at)
    BY <1>1, <1>3 DEF GrantCovers
  <2>2. CASE g.scope.kind = "everything"
    BY <1>2, <2>2 DEF Whole, Grants
  <2>3. CASE g.scope.kind # "everything"
    <3>1. g.scope.kind \in {"sub", "rg"} /\ g.scope.id = at.id
      BY <2>1, <2>3 DEF ScopeCovers
    <3> QED
      BY <1>2, <3>1 DEF HeldSubs, Ids, Grants
  <2> QED
    BY <2>2, <2>3
<1>4. CASE g.scope.kind = "group"
  <2>1. PICK e \in access.expansions : e.grant = g /\ at.id \in e.subs
    BY <1>1, <1>4 DEF GrantCovers
  <2>2. e \in covered.expansions
    BY <1>1, <2>1 DEF CoveredAccess
  <2>3. e = Expansion(e.grant, t) /\ e.groups = Beneath(t, g.scope.id) \cap Groups
        /\ e.subs = Beneath(t, g.scope.id) \cap Subs
    BY <2>1 DEF ResolvedBy, Expansion
  <2>4. g.scope.id \in Groups
    BY <1>2, <1>4, ScopedRunAssumption DEF Grant, Scopes
  <2>5. g.scope.id \in e.groups
    BY <2>1, <2>3, <2>4, BeneathClosed
  <2>6. g.scope.id \in HeldGroups(covered)
    BY <2>1, <2>2, <2>5 DEF HeldGroups
  <2> QED
    BY <2>1, <2>2, <2>3, <2>6
<1> QED
  BY <1>3, <1>4

\* What is held by name is a subscription or a group.
LEMMA HeldTyped ==
    ASSUME NEW access, Sound(access), NEW t, ResolvedBy(access, t)
    PROVE  /\ HeldSubs(CoveredAccess(access)) \subseteq Subs
           /\ HeldGroups(CoveredAccess(access)) \subseteq Groups
           /\ Reach(CoveredAccess(access)).groups \subseteq Groups
<1> DEFINE covered == CoveredAccess(access)
<1>1. ASSUME NEW g \in covered.grants
      PROVE  /\ g.scope.kind \in {"sub", "rg"} => g.scope.id \in Subs
             /\ g.scope.kind = "group" => g.scope.id \in Groups
  BY <1>1, CoveredSound DEF Sound, Grant, Scopes
<1>2. ASSUME NEW e \in covered.expansions
      PROVE  e.grant.scope.id \in Groups /\ e.groups \subseteq Groups
  <2>1. e.grant \in covered.grants /\ e.grant.scope.kind = "group"
    BY <1>2, CoveredSound DEF Sound
  <2>2. e \in access.expansions
    BY <1>2 DEF CoveredAccess
  <2> QED
    BY <1>1, <2>1, <2>2 DEF ResolvedBy, Expansion
<1>3. HeldSubs(covered) \subseteq Subs
  BY <1>1 DEF HeldSubs, Ids, Grants
<1>4. HeldGroups(covered) \subseteq Groups
  BY <1>2 DEF HeldGroups
<1>5. Reach(covered).groups \subseteq Groups
  BY <1>2 DEF Reach
<1> QED
  BY <1>3, <1>4, <1>5

\* A request names the place, or a group it is beneath.
LEMMA NamedIsAsked ==
    ASSUME NEW request \in Requests, NEW t, NEW s,
           \/ s \in request.subs
           \/ \E g \in request.groups : s \in Beneath(t, g)
    PROVE  s \in Named(request, t) /\ s \in Asked(request, t)
<1>1. request # TenantWide /\ request # None
  BY ScopedRunAssumption DEF TenantWide
<1> QED
  BY <1>1 DEF Asked, Named, BeneathAny

\* The part of a rule's own group that is sent reaches what is theirs in it.
LEMMA PartReaches ==
    ASSUME NEW access, Sound(access), NEW t, ResolvedBy(access, t), NEW s, NEW r \in Groups,
           s \in Beneath(t, r),
           \/ s \in HeldSubs(CoveredAccess(access))
           \/ \E e \in CoveredAccess(access).expansions :
                 /\ e = Expansion(e.grant, t) /\ e.grant.scope.id \in HeldGroups(CoveredAccess(access))
                 /\ s \in Beneath(t, e.grant.scope.id)
    PROVE  LET part == GroupPart(r, CoveredAccess(access), t)
           IN  s \in part.subs \/ \E g \in part.groups : s \in Beneath(t, g)
<1> DEFINE covered == CoveredAccess(access)
           part == GroupPart(r, covered, t)
<1>1. CASE r \in Reach(covered).groups
  BY <1>1 DEF GroupPart
<1>2. CASE r \notin Reach(covered).groups
  <2>1. part = [subs |-> HeldSubs(covered) \cap Beneath(t, r),
                groups |-> HeldGroups(covered) \cap Beneath(t, r)]
    BY <1>2 DEF GroupPart
  <2>2. CASE s \in HeldSubs(covered)
    BY <2>1, <2>2
  <2>3. ASSUME NEW e \in covered.expansions, e = Expansion(e.grant, t),
               e.grant.scope.id \in HeldGroups(covered),
               s \in Beneath(t, e.grant.scope.id)
        PROVE  \E g \in part.groups : s \in Beneath(t, g)
    <3> DEFINE h == e.grant.scope.id
    <3>1. r \in Beneath(t, h) \/ h \in Beneath(t, r)
      BY <2>3, Nested
    <3>2. r \notin Beneath(t, h)
      <4>1. e.groups = Beneath(t, h) \cap Groups
        BY <2>3 DEF Expansion
      <4> QED
        BY <1>2, <4>1 DEF Reach
    <3> QED
      BY <2>1, <2>3, <3>1, <3>2
  <2> QED
    BY <2>2, <2>3
<1> QED
  BY <1>1, <1>2

\* A place a rule looks at and the runner may scan is asked about.
LEMMA OverlapIsAsked ==
    ASSUME NEW access, Sound(access), NEW t, ResolvedBy(access, t), NEW hierarchy,
           NEW requested, requested.subs \subseteq Subs, requested.groups \subseteq Groups,
           NEW at \in Scopes, at.kind \in {"sub", "rg"}, at.id \in Subs \cap DOMAIN t,
           MayScanAt(access, at),
           \/ requested.subs = {} /\ requested.groups = {}
           \/ at.id \in requested.subs \cup BeneathAny(t, requested.groups),
           ~Whole(CoveredAccess(access)) /\ requested.groups # {} => hierarchy = t
    PROVE  at.id \in Asked(ScopeForRule(requested, CoveredAccess(access), hierarchy), t)
<1> DEFINE covered == CoveredAccess(access)
           request == ScopeForRule(requested, covered, hierarchy)
           s == at.id
           ByGroup == \E e \in covered.expansions :
                         /\ e = Expansion(e.grant, t) /\ e.grant.scope.id \in HeldGroups(covered)
                         /\ s \in Beneath(t, e.grant.scope.id) \cap Subs
<1>1. Whole(covered) \/ s \in HeldSubs(covered) \/ ByGroup
  BY HowTheirs
<1>2. CASE Whole(covered)
  <2>1. request = [subs |-> requested.subs, groups |-> requested.groups]
    BY <1>2 DEF ScopeForRule
  <2>2. request \in Requests
    BY <2>1 DEF Requests
  <2>3. CASE requested.subs = {} /\ requested.groups = {}
    BY <2>1, <2>2, <2>3, ScopedRunAssumption DEF Asked, Named, TenantWide
  <2>4. CASE s \in requested.subs \cup BeneathAny(t, requested.groups)
    BY <2>1, <2>2, <2>4, NamedIsAsked DEF BeneathAny
  <2> QED
    BY <2>3, <2>4
<1>3. CASE ~Whole(covered)
  <2>1. CASE requested.subs = {} /\ requested.groups = {}
    <3> DEFINE sent == [subs |-> HeldSubs(covered), groups |-> HeldGroups(covered)]
    <3>1. s \in sent.subs \/ \E g \in sent.groups : s \in Beneath(t, g)
      BY <1>1, <1>3
    <3>2. sent # TenantWide
      BY <3>1 DEF TenantWide
    <3>3. request = sent
      BY <1>3, <2>1, <3>2, RequestIs
    <3>4. sent \in Requests
      BY HeldTyped DEF Requests
    <3> QED
      BY <3>1, <3>3, <3>4, NamedIsAsked
  <2>2. CASE ~(requested.subs = {} /\ requested.groups = {})
    <3> DEFINE sent == Narrowed(requested, covered, hierarchy)
    <3>1. s \in sent.subs \/ \E g \in sent.groups : s \in Beneath(t, g)
      <4>1. CASE s \in requested.subs
        <5>1. ByGroup => s \in Reach(covered).subs
          BY DEF Reach, Expansion
        <5> QED
          BY <1>1, <1>3, <4>1, <5>1 DEF Narrowed
      <4>2. CASE \E r \in requested.groups : s \in Beneath(t, r)
        <5>1. PICK r \in requested.groups : s \in Beneath(t, r)
          BY <4>2
        <5>2. hierarchy = t
          BY <1>3, <5>1
        <5>3. \/ s \in GroupPart(r, covered, t).subs
              \/ \E g \in GroupPart(r, covered, t).groups : s \in Beneath(t, g)
          BY <1>1, <1>3, <5>1, PartReaches
        <5> QED
          BY <5>1, <5>2, <5>3 DEF Narrowed
      <4> QED
        BY <2>2, <4>1, <4>2 DEF BeneathAny
    <3>2. sent # TenantWide
      BY <3>1 DEF TenantWide
    <3>3. request = sent
      BY <1>3, <2>2, <3>2, RequestIs
    <3>4. sent \in Requests
      BY HeldTyped, PartIsHeld DEF Narrowed, Requests
    <3> QED
      BY <3>1, <3>3, <3>4, NamedIsAsked
  <2> QED
    BY <2>1, <2>2
<1> QED
  BY <1>2, <1>3

\* So is a management group, whether Azure answers for the groups above what it
\* reads or not: what is beneath a group that is theirs is theirs.
LEMMA GroupOverlapIsAsked ==
    ASSUME NEW access, Sound(access), NEW t, ResolvedBy(access, t), NEW hierarchy,
           NEW requested, requested.subs \subseteq Subs, requested.groups \subseteq Groups,
           NEW m \in Groups, MayScanAt(access, [kind |-> "group", id |-> m, rg |-> None]),
           m \in Asked([subs |-> requested.subs, groups |-> requested.groups], t),
           ~Whole(CoveredAccess(access)) /\ requested.groups # {} => hierarchy = t
    PROVE  m \in Asked(ScopeForRule(requested, CoveredAccess(access), hierarchy), t)
<1> DEFINE covered == CoveredAccess(access)
           own == [subs |-> requested.subs, groups |-> requested.groups]
           request == ScopeForRule(requested, covered, hierarchy)
           at == [kind |-> "group", id |-> m, rg |-> None]
<1>1. CASE Whole(covered)
  BY <1>1 DEF ScopeForRule
<1>2. CASE ~Whole(covered)
  <2>1. PICK g \in access.grants : RunsScans(g.role) /\ GrantCovers(access, g, at)
    BY DEF MayScanAt
  <2>2. g \in covered.grants
    BY <2>1 DEF CoveredAccess
  <2>3. g.scope.kind = "group"
    <3>1. g.scope.kind # "group" => ScopeCovers(g.scope, at)
      BY <2>1 DEF GrantCovers
    <3>2. g.scope.kind # "everything"
      BY <1>2, <2>2 DEF Whole, Grants
    <3> QED
      BY <3>1, <3>2 DEF ScopeCovers
  <2>4. PICK e \in access.expansions : e.grant = g /\ m \in e.groups
    BY <2>1, <2>3 DEF GrantCovers
  <2> DEFINE h == e.grant.scope.id
  <2>5. e \in covered.expansions
    BY <2>1, <2>4 DEF CoveredAccess
  <2>6. /\ e = Expansion(e.grant, t)
        /\ e.groups = Beneath(t, h) \cap Groups /\ e.subs = Beneath(t, h) \cap Subs
    BY <2>4 DEF ResolvedBy, Expansion
  <2>7. h \in HeldGroups(covered) /\ m \in Beneath(t, h)
    BY <2>4, <2>5, <2>6 DEF HeldGroups
  <2>8. own \in Requests
    BY DEF Requests
  <2>9. \/ \E r \in requested.groups : m \in Beneath(t, r)
        \/ AnswersAbove /\ Beneath(t, m) \cap Named(own, t) \cap Subs # {}
    BY ScopedRunAssumption DEF Asked, Named, BeneathAny
  <2>10. ASSUME NEW r \in requested.groups, m \in Beneath(t, r)
         PROVE  m \in Asked(request, t)
    <3> DEFINE sent == Narrowed(requested, covered, hierarchy)
    <3>1. hierarchy = t
      BY <1>2, <2>10
    <3>2. \/ m \in GroupPart(r, covered, t).subs
          \/ \E q \in GroupPart(r, covered, t).groups : m \in Beneath(t, q)
      BY <2>5, <2>6, <2>7, <2>10, PartReaches
    <3>3. m \in sent.subs \/ \E q \in sent.groups : m \in Beneath(t, q)
      BY <3>1, <3>2 DEF Narrowed
    <3>4. sent # TenantWide
      BY <3>3 DEF TenantWide
    <3>5. request = sent
      BY <1>2, <3>4, RequestIs
    <3>6. sent \in Requests
      BY HeldTyped, PartIsHeld DEF Narrowed, Requests
    <3> QED
      BY <3>3, <3>5, <3>6, NamedIsAsked
  <2>11. ASSUME AnswersAbove, NEW s \in Beneath(t, m) \cap Named(own, t) \cap Subs
         PROVE  m \in Asked(request, t)
    <3> DEFINE below == [kind |-> "sub", id |-> s, rg |-> None]
    <3>1. s \in Beneath(t, h) /\ s \in DOMAIN t
      BY <2>7, <2>11, BeneathTransitive, BeneathClosed, ScopedRunAssumption DEF Nodes
    <3>2. MayScanAt(access, below)
      <4>1. GrantCovers(access, g, below)
        BY <2>3, <2>4, <2>6, <2>11, <3>1 DEF GrantCovers
      <4> QED
        BY <2>1, <4>1 DEF MayScanAt
    <3>3. below \in Scopes
      BY DEF Scopes
    <3>4. \/ requested.subs = {} /\ requested.groups = {}
          \/ s \in requested.subs \cup BeneathAny(t, requested.groups)
      <4>1. own = TenantWide <=> requested.subs = {} /\ requested.groups = {}
        BY DEF TenantWide
      <4>2. s \in own.subs \/ own = TenantWide \/ s \in BeneathAny(t, own.groups)
        BY <2>11 DEF Named
      <4> QED
        BY <4>1, <4>2
    <3>5. s \in Asked(request, t)
      BY <2>11, <3>1, <3>2, <3>3, <3>4, OverlapIsAsked
    <3>6. request # None /\ s \in Named(request, t)
      BY <2>11, <3>5, ScopedRunAssumption DEF Asked
    <3> QED
      BY <2>11, <3>6 DEF Asked
  <2> QED
    BY <2>9, <2>10, <2>11
<1> QED
  BY <1>1, <1>2

---------------------------------------------------------------------------
(* The invariant of a run during which the copy is Azure's tree *)

ARun ==
    run = [stage |-> run.stage, access |-> run.access, hierarchy |-> run.hierarchy,
           request |-> run.request, seen |-> run.seen, steady |-> run.steady,
           looked |-> run.looked, inRule |-> run.inRule, asked |-> run.asked]

\* The rule and the place belong together, and Azure has the place's subscription.
Chosen ==
    /\ rule \in Rules /\ place \in Places
    /\ place.kind = "directory" <=> rule.backend = "graph"
    /\ place.kind = "workspace" <=> rule.backend = "logs"
    /\ place.node \in Subs => place.node \in DOMAIN tree

\* Until Azure answers, a steady run's access and request are those of the tree as it is.
UpToDate ==
    /\ run.steady /\ run.stage \in {"waiting", "placing", "asking"} =>
           copy = tree /\ ResolvedBy(run.access, tree)
    /\ run.steady /\ run.stage \in {"placing", "asking"} =>
           /\ ~Whole(CoveredAccess(run.access)) /\ rule.groups # {} => run.hierarchy = tree
           /\ rule.backend = "arg" =>
                  run.request = ScopeForRule(rule, CoveredAccess(run.access), run.hierarchy)
    /\ run.stage = "placing" => rule.backend = "logs"

SteadyInv == ARun /\ run.steady \in BOOLEAN /\ Chosen /\ UpToDate
             /\ AsksNowhereElse /\ OverlapIsScanned

\* What AsksNowhereElse says of the subscriptions asked about.
LEMMA NowhereElse == AsksNowhereElse <=> (run.steady => \A s \in run.asked \cap Subs : Theirs(run.access, s))
BY DEF AsksNowhereElse, Theirs

\* Where the finding sits, when it is in a subscription.
LEMMA PlaceAt ==
    ASSUME Chosen, place.kind \notin {"directory", "group"}
    PROVE  /\ ScopeOf(place) \in Scopes /\ ScopeOf(place).kind \in {"sub", "rg"}
           /\ ScopeOf(place).id = place.node /\ place.node \in Subs \cap DOMAIN tree
BY PlaceIsScope, ScopedRunAssumption DEF Chosen

LEMMA RuleTyped ==
    ASSUME Chosen
    PROVE  rule.subs \subseteq Subs /\ rule.groups \subseteq Groups
           /\ rule.backend \in {"arg", "graph", "logs"}
BY ScopedRunAssumption DEF Chosen

LEMMA InitSteady == Init => SteadyInv
<1> SUFFICES ASSUME Init PROVE SteadyInv
  OBVIOUS
<1>1. run.steady = FALSE /\ run.stage = "idle" /\ ARun
  BY DEF Init, Idle, ARun
<1>2. Chosen
  BY ScopedRunAssumption DEF Init, Chosen
<1> QED
  BY <1>1, <1>2 DEF SteadyInv, UpToDate, AsksNowhereElse, OverlapIsScanned

\* The rule is sent to what it and the access share: when the run is left out, nothing.
LEMMA RuleReachesPlace ==
    ASSUME IInv, SteadyInv, run.stage \in {"waiting", "placing", "asking"}, run.steady,
           place.kind # "directory", MayScanAt(run.access, ScopeOf(place)), NEW hierarchy
    PROVE  /\ rule.backend = "arg" /\ InRule(tree)
                /\ (~Whole(CoveredAccess(run.access)) /\ rule.groups # {} => hierarchy = tree)
                => place.node \in Asked(ScopeForRule(rule, CoveredAccess(run.access), hierarchy), tree)
           /\ place.kind = "workspace" =>
                place.node \in Asked(ScopeForRule(TenantWide, CoveredAccess(run.access), hierarchy), tree)
<1>1. Sound(run.access) /\ ResolvedBy(run.access, tree) /\ Chosen
  BY DEF IInv, SteadyInv, UpToDate
<1>2. ASSUME rule.backend = "arg", InRule(tree),
             ~Whole(CoveredAccess(run.access)) /\ rule.groups # {} => hierarchy = tree
      PROVE  place.node \in Asked(ScopeForRule(rule, CoveredAccess(run.access), hierarchy), tree)
  <2>1. place.node \in Asked([subs |-> rule.subs, groups |-> rule.groups], tree)
    BY <1>2 DEF InRule
  <2>2. CASE place.kind = "group"
    <3>1. place.node \in Groups /\ ScopeOf(place) = [kind |-> "group", id |-> place.node, rg |-> None]
      BY <1>1, <2>2, PlaceIsScope, ScopedRunAssumption DEF Chosen
    <3> QED
      BY <1>1, <1>2, <2>1, <3>1, RuleTyped, GroupOverlapIsAsked
  <2>3. CASE place.kind # "group"
    <3>1. place.node \in Subs
      BY <1>1, <2>3, PlaceAt
    <3>2. \/ rule.subs = {} /\ rule.groups = {}
          \/ place.node \in rule.subs \cup BeneathAny(tree, rule.groups)
      BY <2>1, <3>1, ScopedRunAssumption DEF Asked, Named, TenantWide
    <3> QED
      BY <1>1, <1>2, <2>3, <3>2, RuleTyped, PlaceAt, OverlapIsAsked
  <2> QED
    BY <2>2, <2>3
<1>3. TenantWide.subs = {} /\ TenantWide.groups = {}
  BY DEF TenantWide
<1>4. ASSUME place.kind = "workspace"
      PROVE  place.node \in Asked(ScopeForRule(TenantWide, CoveredAccess(run.access), hierarchy), tree)
  BY <1>1, <1>3, <1>4, PlaceAt, OverlapIsAsked
<1> QED
  BY <1>2, <1>4

\* A place that is theirs passes the test of a finding just read.
LEMMA TheirsIsInside ==
    ASSUME NEW access, Sound(access), NEW t, ResolvedBy(access, t), NEW p \in Places,
           p.kind \in {"resource", "workspace", "directory"}, MayScanAt(access, ScopeOf(p))
    PROVE  PlacedInside(Reach(CoveredAccess(access)), p)
<1> DEFINE covered == CoveredAccess(access)
           at == ScopeOf(p)
<1>1. PICK g \in access.grants : RunsScans(g.role) /\ GrantCovers(access, g, at)
  BY DEF MayScanAt
<1>2. g \in covered.grants /\ g \in Grant
  BY <1>1 DEF CoveredAccess, Sound
<1>3. CASE g.scope.kind = "everything"
  BY <1>2, <1>3 DEF PlacedInside, Reach, Whole, Grants
<1>4. CASE g.scope.kind = "group"
  <2>1. PICK e \in access.expansions : e.grant = g /\ at.kind \in {"sub", "rg"} /\ at.id \in e.subs
    BY <1>1, <1>4, PlaceIsScope, ScopedRunAssumption DEF GrantCovers, ScopeOf
  <2>2. e \in covered.expansions
    BY <1>1, <2>1 DEF CoveredAccess
  <2>3. at.id \in Reach(covered).subs
    BY <2>1, <2>2 DEF Reach
  <2>4. p.kind \in {"resource", "workspace"} /\ at.id = p.node
    BY <2>1, PlaceIsScope, ScopedRunAssumption
  <2> QED
    BY <2>3, <2>4 DEF PlacedInside
<1>5. CASE g.scope.kind \notin {"everything", "group"}
  <2>1. g.scope = at \/ (g.scope.kind = "sub" /\ at.kind = "rg" /\ g.scope.id = at.id)
    BY <1>1, <1>5 DEF GrantCovers, ScopeCovers
  <2>2. CASE p.kind = "directory"
    <3>1. g.scope.kind = "directory"
      BY <2>1, <2>2, PlaceIsScope
    <3> QED
      BY <1>2, <2>2, <3>1 DEF PlacedInside, Reach, Grants
  <2>3. CASE p.kind \in {"resource", "workspace"}
    <3>1. at.kind = "rg" /\ at.id = p.node /\ at.rg = p.rg
      BY <2>3, PlaceIsScope
    <3>2. CASE g.scope = at
      <4>1. g \in Grants(covered, "rg")
        BY <1>2, <3>1, <3>2 DEF Grants
      <4>2. <<p.node, p.rg>> \in Reach(covered).rgs
        BY <3>1, <3>2, <4>1 DEF Reach
      <4> QED
        BY <2>3, <4>2 DEF PlacedInside
    <3>3. CASE g.scope.kind = "sub" /\ g.scope.id = at.id
      <4>1. g.scope.id \in Ids(Grants(covered, "sub"))
        BY <1>2, <3>3 DEF Ids, Grants
      <4>2. p.node \in Reach(covered).subs
        BY <3>1, <3>3, <4>1 DEF Reach
      <4> QED
        BY <2>3, <4>2 DEF PlacedInside
    <3> QED
      BY <2>1, <3>2, <3>3
  <2> QED
    BY <2>2, <2>3, ScopedRunAssumption
<1> QED
  BY <1>3, <1>4, <1>5

\* While the copy stays Azure's tree, a change of either ends the run's being steady.
LEMMA SteadyStep ==
    ASSUME SteadyInv, NEW t, NEW c, t = tree \/ c = copy, given' = given, tree' = t, copy' = c,
           t # tree \/ c # copy => run' = [run EXCEPT !.steady = Steady(t, c)],
           t = tree /\ c = copy => run' \in {run, [run EXCEPT !.steady = Steady(t, c)]},
           place.node \in Subs => place.node \in DOMAIN t
    PROVE  SteadyInv'
<1>1. /\ run'.stage = run.stage /\ run'.access = run.access /\ run'.asked = run.asked
      /\ run'.hierarchy = run.hierarchy /\ run'.request = run.request
      /\ run'.looked = run.looked /\ run'.inRule = run.inRule
      /\ run'.steady \in BOOLEAN /\ ARun'
  BY DEF SteadyInv, ARun, Steady
<1>2. run'.steady => run.steady
  BY DEF SteadyInv, ARun, Steady
<1>3. run'.steady /\ run.stage \in {"waiting", "placing", "asking"} => t = tree /\ c = copy /\ c = t
  BY <1>2 DEF SteadyInv, ARun, Steady, UpToDate
<1>4. Chosen'
  BY DEF SteadyInv, Chosen, given
<1>5. UpToDate'
  BY <1>1, <1>2, <1>3 DEF SteadyInv, UpToDate, given
<1>6. AsksNowhereElse'
  BY <1>1, <1>2 DEF SteadyInv, AsksNowhereElse
<1>7. OverlapIsScanned'
  <2>1. place' = place
    BY DEF given
  <2> QED
    BY <1>1, <1>2, <2>1 DEF SteadyInv, OverlapIsScanned
<1> QED
  BY <1>1, <1>4, <1>5, <1>6, <1>7 DEF SteadyInv

LEMMA StepSteady == IInv /\ SteadyInv /\ [Next]_vars => SteadyInv'
<1> SUFFICES ASSUME IInv, SteadyInv, [Next]_vars PROVE SteadyInv'
  OBVIOUS
<1> DEFINE covered == CoveredAccess(run.access)
<1>1. ASSUME NEW node \in (Groups \ {Root}) \cup Subs, NEW group \in Groups, Move(node, group)
      PROVE  SteadyInv'
  <2>1. DOMAIN tree \subseteq DOMAIN tree'
    BY <1>1 DEF Move
  <2> QED
    BY <1>1, <2>1, SteadyStep DEF Move, SteadyInv, Chosen
<1>2. ASSUME NEW r \in Readers, Read(r) \/ FailRead(r) PROVE SteadyInv'
  BY <1>2, SteadyStep DEF Read, FailRead, SteadyInv, Chosen
<1>3. ASSUME NEW r \in Readers, Replace(r) PROVE SteadyInv'
  BY <1>3, SteadyStep DEF Replace, SteadyInv, Chosen
<1>4. CASE Request
  <2>1. /\ run' = [Idle EXCEPT !.stage = "waiting", !.access = ResolveAccess(holding),
                               !.steady = (copy = tree)]
        /\ UNCHANGED <<tree, copy, given>>
    BY <1>4 DEF Request
  <2>2. /\ run'.stage = "waiting" /\ run'.access = ResolveAccess(holding) /\ run'.asked = {}
        /\ run'.steady = (copy = tree) /\ ARun'
    BY <2>1 DEF Idle, ARun
  <2>3. copy = tree => ResolvedBy(ResolveAccess(holding), tree)
    BY DEF ResolvedBy, ResolveAccess
  <2>4. Chosen'
    BY <2>1 DEF SteadyInv, Chosen, given
  <2> QED
    BY <2>1, <2>2, <2>3, <2>4 DEF SteadyInv, UpToDate, AsksNowhereElse, OverlapIsScanned
<1>5. CASE Begin
  <2> DEFINE hierarchy == IF ~Whole(covered) /\ (covered.expansions # {} \/ rule.groups # {})
                          THEN copy ELSE None
             request == ScopeForRule(rule, covered, hierarchy)
             stage == CASE rule.backend = "graph" ->
                             IF Whole(covered) \/ Reach(covered).directory THEN "asking" ELSE "left out"
                        [] rule.backend = "logs" -> IF Whole(covered) THEN "asking" ELSE "placing"
                        [] OTHER -> IF request = None THEN "left out" ELSE "asking"
  <2>1. /\ run.stage = "waiting" /\ UNCHANGED <<tree, copy, given>>
        /\ run' = [run EXCEPT !.stage = stage, !.hierarchy = hierarchy, !.inRule = InRule(tree),
                              !.request = IF rule.backend = "arg" THEN request ELSE None]
    BY <1>5 DEF Begin
  <2> HIDE DEF hierarchy, request, stage
  <2>2. /\ run'.stage = stage /\ run'.access = run.access /\ run'.asked = run.asked
        /\ run'.hierarchy = hierarchy /\ run'.inRule = InRule(tree)
        /\ rule.backend = "arg" => run'.request = request
        /\ run'.steady = run.steady /\ ARun'
    BY <2>1 DEF SteadyInv, ARun
  <2>3. stage # "waiting" /\ (stage = "placing" => rule.backend = "logs") /\ stage # "answered"
    BY DEF stage
  <2>4. Chosen' /\ place' = place /\ rule' = rule
    BY <2>1 DEF SteadyInv, Chosen, given
  <2>5. run.steady /\ ~Whole(covered) /\ rule.groups # {} => hierarchy = tree
    BY <2>1 DEF hierarchy, SteadyInv, UpToDate
  <2>6. UpToDate'
    BY <2>1, <2>2, <2>3, <2>4, <2>5 DEF SteadyInv, UpToDate, request
  <2>7. AsksNowhereElse'
    BY <2>2 DEF SteadyInv, AsksNowhereElse
  <2>8. ASSUME stage = "left out", run.steady, InRule(tree), MayScanAt(run.access, ScopeOf(place))
        PROVE  FALSE
    <3>1. CASE rule.backend = "graph"
      <4>1. place.kind = "directory" /\ Sound(run.access) /\ place \in Places
        BY <2>1, <3>1 DEF SteadyInv, Chosen, IInv
      <4>2. PlacedInside(Reach(covered), place)
        BY <2>1, <2>8, <4>1, TheirsIsInside DEF SteadyInv, UpToDate
      <4>3. Whole(covered) \/ Reach(covered).directory
        BY <4>1, <4>2 DEF PlacedInside, Reach
      <4> QED
        BY <2>8, <3>1, <4>3 DEF stage
    <3>2. CASE rule.backend = "arg"
      <4>1. place.kind # "directory"
        BY <3>2 DEF SteadyInv, Chosen
      <4>2. place.node \in Asked(request, tree)
        BY <2>1, <2>5, <2>8, <3>2, <4>1, RuleReachesPlace DEF request
      <4>3. request # None
        BY <4>2 DEF Asked
      <4> QED
        BY <2>8, <3>2, <4>3 DEF stage
    <3>3. CASE rule.backend = "logs"
      BY <2>8, <3>3 DEF stage
    <3> QED
      BY <3>1, <3>2, <3>3, RuleTyped DEF SteadyInv
  <2>9. OverlapIsScanned'
    BY <2>2, <2>3, <2>4, <2>8 DEF OverlapIsScanned
  <2> QED
    BY <2>2, <2>4, <2>6, <2>7, <2>9 DEF SteadyInv
<1>6. CASE PlaceWorkspace
  <2> DEFINE request == ScopeForRule(TenantWide, covered, run.hierarchy)
             found == place.node \in Asked(request, tree)
             covers == found /\ PlacedInside(Reach(covered), place)
  <2>1. /\ run.stage = "placing" /\ UNCHANGED <<tree, copy, given>>
        /\ run' = [run EXCEPT !.stage = IF covers THEN "asking" ELSE "left out",
                              !.asked = Asked(request, tree)]
    BY <1>6 DEF PlaceWorkspace, WorkspaceRequest
  <2> HIDE DEF covers
  <2>2. /\ run'.stage = IF covers THEN "asking" ELSE "left out"
        /\ run'.access = run.access /\ run'.asked = Asked(request, tree)
        /\ run'.hierarchy = run.hierarchy /\ run'.request = run.request
        /\ run'.inRule = run.inRule /\ run'.steady = run.steady /\ ARun'
    BY <2>1 DEF SteadyInv, ARun
  <2>3. Chosen' /\ place' = place /\ rule' = rule
    BY <2>1 DEF SteadyInv, Chosen, given
  <2>4. UpToDate'
    BY <2>1, <2>2, <2>3 DEF SteadyInv, UpToDate
  <2>5. run.steady => \A s \in Asked(request, tree) \cap Subs : Theirs(run.access, s)
    BY <2>1, AskedIsTheirs DEF SteadyInv, UpToDate, IInv
  <2>6. AsksNowhereElse'
    BY <2>2, <2>5 DEF AsksNowhereElse, Theirs
  <2>7. ASSUME run.steady, MayScanAt(run.access, ScopeOf(place)) PROVE covers
    <3>1. rule.backend = "logs" /\ place.kind = "workspace" /\ place \in Places /\ Sound(run.access)
      BY <2>1 DEF SteadyInv, UpToDate, Chosen, IInv
    <3>2. found
      BY <2>1, <2>7, <3>1, RuleReachesPlace
    <3>3. PlacedInside(Reach(covered), place)
      BY <2>1, <2>7, <3>1, TheirsIsInside DEF SteadyInv, UpToDate
    <3> QED
      BY <3>2, <3>3 DEF covers
  <2>8. OverlapIsScanned'
    BY <2>2, <2>3, <2>7 DEF OverlapIsScanned
  <2> QED
    BY <2>2, <2>3, <2>4, <2>6, <2>8 DEF SteadyInv
<1>7. CASE Answer
  <2> DEFINE asked == IF rule.backend = "arg" THEN Asked(run.request, tree)
                      ELSE IF rule.backend = "logs" THEN Asked(WorkspaceRequest, tree) ELSE {}
             looked == rule.backend = "graph" \/ place.node \in asked
  <2>1. PICK there \in BOOLEAN :
           run' = [run EXCEPT !.stage = "answered", !.asked = asked, !.looked = looked,
                              !.inRule = InRule(tree), !.seen = looked /\ there]
    BY <1>7 DEF Answer
  <2>2. run.stage = "asking" /\ UNCHANGED <<tree, copy, given>>
    BY <1>7 DEF Answer
  <2> HIDE DEF asked, looked
  <2>3. /\ run'.stage = "answered" /\ run'.access = run.access /\ run'.asked = asked
        /\ run'.looked = looked /\ run'.inRule = InRule(tree) /\ run'.steady = run.steady /\ ARun'
    BY <2>1 DEF SteadyInv, ARun
  <2>4. Chosen' /\ place' = place /\ rule' = rule
    BY <2>2 DEF SteadyInv, Chosen, given
  <2>5. UpToDate'
    BY <2>3 DEF UpToDate
  <2>6. run.steady => \A s \in asked \cap Subs : Theirs(run.access, s)
    BY <2>2, AskedIsTheirs DEF SteadyInv, UpToDate, IInv, asked, WorkspaceRequest
  <2>7. AsksNowhereElse'
    BY <2>3, <2>6 DEF AsksNowhereElse, Theirs
  <2>8. ASSUME run.steady, InRule(tree), MayScanAt(run.access, ScopeOf(place)) PROVE looked
    <3>1. CASE rule.backend = "graph"
      BY <3>1 DEF looked
    <3>2. CASE rule.backend = "arg"
      <4>1. place.kind # "directory"
        BY <3>2 DEF SteadyInv, Chosen
      <4>2. /\ run.request = ScopeForRule(rule, covered, run.hierarchy)
            /\ ~Whole(covered) /\ rule.groups # {} => run.hierarchy = tree
        BY <2>2, <2>8, <3>2 DEF SteadyInv, UpToDate
      <4> QED
        BY <2>2, <2>8, <3>2, <4>1, <4>2, RuleReachesPlace DEF looked, asked
    <3>3. CASE rule.backend = "logs"
      <4>1. place.kind = "workspace"
        BY <3>3 DEF SteadyInv, Chosen
      <4> QED
        BY <2>2, <2>8, <3>3, <4>1, RuleReachesPlace DEF looked, asked, WorkspaceRequest
    <3> QED
      BY <3>1, <3>2, <3>3, RuleTyped DEF SteadyInv
  <2>9. OverlapIsScanned'
    BY <2>3, <2>4, <2>8 DEF OverlapIsScanned
  <2> QED
    BY <2>3, <2>4, <2>5, <2>7, <2>9 DEF SteadyInv
<1>8. CASE GiveUp \/ Sync
  <2>1. run' = Idle /\ UNCHANGED <<tree, copy, given>>
    BY <1>8 DEF GiveUp, Sync
  <2>2. run'.stage = "idle" /\ run'.steady = FALSE /\ ARun'
    BY <2>1 DEF Idle, ARun
  <2>3. Chosen'
    BY <2>1 DEF SteadyInv, Chosen, given
  <2> QED
    BY <2>2, <2>3 DEF SteadyInv, UpToDate, AsksNowhereElse, OverlapIsScanned
<1>9. CASE UNCHANGED vars
  BY <1>9, SteadyStep DEF vars, SteadyInv, Chosen
<1> QED
  BY <1>1, <1>2, <1>3, <1>4, <1>5, <1>6, <1>7, <1>8, <1>9 DEF Next

---------------------------------------------------------------------------
\* A run opens and fixes a finding only where its runner's access lets them scan,
\* whatever Azure's tree and the copy of it did meanwhile.
THEOREM ChangesAreTheirs == Spec => ChangesOnlyTheirs
<1>1. ASSUME IInv, [Next]_vars, open' # open
      PROVE  MayScanAt(run.access, ScopeOf(place))
  <2> DEFINE covered == CoveredAccess(run.access)
  <2>1. Sync
    BY <1>1 DEF Next, vars, Move, Read, Replace, FailRead, Request, Begin, PlaceWorkspace,
                Answer, GiveUp
  <2>2. Sound(run.access) /\ place \in Places
    BY <1>1, <2>1 DEF IInv, Sync
  <2> DEFINE kept == run.seen /\ (Whole(covered) \/ PlacedInside(Reach(covered), place))
  <2>3. open' = (kept \/ (open /\ ~Resolves(covered)))
    BY <2>1 DEF Sync
  <2>4. kept \/ Resolves(covered)
    BY <1>1, <2>3 DEF IInv
  <2>5. \/ Whole(covered)
        \/ PlacedInside(Reach(covered), place)
        \/ AccessFilter(covered, place)
    BY <2>4 DEF Resolves
  <2> QED
    BY <2>2, <2>5, WholeCovers, InsideIsTheirs, FilterIsTheirs
<1> QED
  BY <1>1, InitIInv, StepIInv, PTL DEF Spec, ChangesOnlyTheirs

\* While the copy agreed with Azure, a run asks Azure about every place that its rule
\* looks at and its runner may scan.
THEOREM TheOverlapIsScanned == Spec => []OverlapIsScanned
<1>1. IInv /\ SteadyInv => OverlapIsScanned
  BY DEF SteadyInv
<1> QED
  BY <1>1, InitIInv, StepIInv, InitSteady, StepSteady, PTL DEF Spec

\* And about no subscription that is not theirs, in whole or in part.
THEOREM NowhereElseIsAsked == Spec => []AsksNowhereElse
<1>1. IInv /\ SteadyInv => AsksNowhereElse
  BY DEF SteadyInv
<1> QED
  BY <1>1, InitIInv, StepIInv, InitSteady, StepSteady, PTL DEF Spec

\* Both together: the query goes to the overlap and nowhere else (scopeForRule).
THEOREM TheOverlapAndNowhereElse == Spec => []ScansTheOverlap
<1>1. OverlapIsScanned /\ AsksNowhereElse => ScansTheOverlap
  BY DEF ScansTheOverlap
<1> QED
  BY <1>1, TheOverlapIsScanned, NowhereElseIsAsked, PTL

\* And marks a finding fixed only if it did not come back, for what the resolve step
\* reaches would have been kept; and only where it had asked, if the rule still looks
\* there: what the resolve step reaches is theirs, so the overlap held it.
THEOREM FixesWhereItLooked == Spec => FixedWhereLooked
<1>1. ASSUME IInv, SteadyInv, [Next]_vars, open, ~open'
      PROVE  ~run.seen /\ (run.steady => run.looked \/ ~run.inRule)
  <2> DEFINE covered == CoveredAccess(run.access)
  <2>1. Sync
    BY <1>1 DEF Next, vars, Move, Read, Replace, FailRead, Request, Begin, PlaceWorkspace,
                Answer, GiveUp
  <2> DEFINE kept == run.seen /\ (Whole(covered) \/ PlacedInside(Reach(covered), place))
  <2>2. /\ Sound(run.access) /\ place \in Places /\ run.stage = "answered"
        /\ ~kept /\ Resolves(covered)
    BY <1>1, <2>1 DEF IInv, Sync
  <2>3. ~run.seen
    BY <2>2, FilterIsInside DEF Resolves
  <2>4. MayScanAt(run.access, ScopeOf(place))
    BY <2>2, WholeCovers, FilterIsTheirs DEF Resolves
  <2> QED
    BY <1>1, <2>2, <2>3, <2>4 DEF SteadyInv, OverlapIsScanned
<1> QED
  BY <1>1, InitIInv, StepIInv, InitSteady, StepSteady, PTL DEF Spec, FixedWhereLooked
=============================================================================
