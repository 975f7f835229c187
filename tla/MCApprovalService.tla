-------------------------- MODULE MCApprovalService --------------------------
EXTENDS ApprovalService, TLC

\* Calls are interchangeable, and so are requests.
CallSymmetry == Permutations(Deciders) \union Permutations(Listers) \union Permutations(Requests)

=============================================================================
