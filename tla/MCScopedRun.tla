------------------------------ MODULE MCScopedRun ------------------------------
(* A root group with two more, and two subscriptions.                       *)
EXTENDS ScopedRun, TLC

CONSTANTS g, h, s, t, a, b

Scope(kind, id, rg) == [kind |-> kind, id |-> id, rg |-> rg]
As(role, scope) == [scope |-> scope, role |-> role]

All == Scope("everything", None, None)
Directory == Scope("directory", None, None)
Group(x) == Scope("group", x, None)
Sub(x) == Scope("sub", x, None)
Rg(x, y) == Scope("rg", x, y)

\* The other subscription is made, or not, by the one change in Azure.
Chain == (h :> g) @@ (g :> Root) @@ (s :> h)
SomeTrees == {Chain}

SomePlaces ==
    {[kind |-> "resource", node |-> s, rg |-> a], [kind |-> "subscription", node |-> s, rg |-> None],
     [kind |-> "directory", node |-> None, rg |-> None], [kind |-> "workspace", node |-> s, rg |-> a],
     [kind |-> "group", node |-> h, rg |-> None]}

Arg(subs, groups) == [backend |-> "arg", subs |-> subs, groups |-> groups]
SomeRules ==
    {Arg({}, {}), Arg({}, {g}), Arg({s}, {h}),
     [backend |-> "graph", subs |-> {}, groups |-> {}],
     [backend |-> "logs", subs |-> {}, groups |-> {}]}

SomeHoldings ==
    {{As("admin", All)}}
    \cup {{As("editor", x)} : x \in {Group(g), Sub(s)}}
    \cup {{As("editor", Directory), As("editor", Rg(s, b))},
          {As("viewer", All), As("viewer", Group(g)), As("editor", Group(h))},
          {As("editor", Group(h)), As("editor", Rg(s, a))}}
=============================================================================
