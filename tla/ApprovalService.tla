--------------------------- MODULE ApprovalService ---------------------------
(****************************************************************************)
(* The approvals table on its own: any dispatch may ask at any time, with   *)
(* any of the lifetimes the dispatch handler uses.                          *)
(****************************************************************************)
EXTENDS Approvals

CONSTANT TTLs    \* lifetimes a dispatch may give its approval

ASSUME TTLsAssumption == TTLs \subseteq Nat

\* create_and_deliver, step by step.
CreateAndDeliver(r) ==
    \/ \E ttl \in TTLs : CreateApproval(r, ttl)
    \/ TryChannel(r)
    \/ CommitDeliveryLog(r)

ServiceNext ==
    \/ \E r \in Requests : CreateAndDeliver(r)
    \/ Operators

ServiceSpec == ApprovalsInit /\ [][ServiceNext]_approvalVars

=============================================================================
