------------------------------ MODULE MCPolicies ------------------------------
EXTENDS Policies, TLC

\* Two rules in either order, so that two upserts of one version can wait for
\* each other, a rule twice, and a payload of one rule.
MCRuleLists == {<<"cooldown", "tier">>, <<"tier", "cooldown">>, <<"tier", "tier">>, <<"tier">>}

Symmetry == Permutations(Upserts)

=============================================================================
