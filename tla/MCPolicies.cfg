CONSTANTS
    Upserts = {u1, u2, u3}
    Versions = {1, 2, 3}
    RuleLists <- MCRuleLists
    None = None
SYMMETRY Symmetry
SPECIFICATION Spec
INVARIANTS WholePayloads LatestInForce TogetherOnlyIfConcurrent
CHECK_DEADLOCK FALSE
