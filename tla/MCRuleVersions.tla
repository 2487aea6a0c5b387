---------------------------- MODULE MCRuleVersions ----------------------------
(* Queries that change, change back, and are dropped and shipped again.     *)
EXTENDS RuleVersions

CONSTANTS x, y

History(p, q, r) == <<p, q, r>>
Histories == {History(x, y, x), History(x, None, x), History(x, x, y), History(x, None, y)}

SomeSources ==
    {[pack |-> "aprl-v2", graph |-> FALSE, enabled |-> h[2] # y, history |-> h] : h \in Histories}
    \cup {[pack |-> "rulebeat-core", graph |-> g, enabled |-> ~g, history |-> h] :
            g \in BOOLEAN, h \in {History(x, y, x), History(x, None, y)}}
=============================================================================
