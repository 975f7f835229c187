------------------------------ MODULE MCDispatch ------------------------------
(****************************************************************************)
(* Requests that between them take every branch of the handler.             *)
(****************************************************************************)
EXTENDS Dispatch, TLC

NoCmd == [operators |-> {}, stages |-> <<>>]
NoPath == [absolute |-> FALSE, segments |-> <<>>]
Cat == [operators |-> {}, stages |-> <<[env |-> <<>>, first |-> "cat", binary |-> "cat",
                                          rest |-> <<"f">>]>>]

\* surge_invoke: a capability of the broker, gated by its risk.
Invoke == [tool |-> "surge_invoke", risk |-> "mutate", cmd |-> NoCmd, path |-> NoPath,
           target |-> "t", timeoutOk |-> TRUE, ascii |-> TRUE]
Read == [Invoke EXCEPT !.risk = "read"]

Shape(args, header, block) ==
    [caller |-> "service", tenantAllowed |-> TRUE, header |-> header,
     capability |-> "broker_dispatch", args |-> args, block |-> block]

Polling == Shape(Invoke, "enforce", 2)
Unpolled == Shape(Invoke, "none", 0)
Long == Shape(Invoke, "none", 3)
ByPolicy == Shape(Read, "none", 2)
Shadowed == Shape(Invoke, "shadow", 2)
NoTarget == Shape([Read EXCEPT !.target = "none"], "none", 2)
BadTimeout == Shape([Read EXCEPT !.timeoutOk = FALSE], "none", 2)
BadHeader == Shape([Read EXCEPT !.ascii = FALSE], "none", 2)
Foreign == [Polling EXCEPT !.tenantAllowed = FALSE]
ReadonlyBash == [Shape([Invoke EXCEPT !.tool = "run_bash", !.cmd = Cat], "none", 2)
                   EXCEPT !.caller = "mtls", !.capability = "host_run_bash"]
AllShapes == {Polling, Unpolled, Long, ByPolicy, Shadowed, NoTarget, BadTimeout, BadHeader,
              Foreign, ReadonlyBash}
Brief == Shape(Invoke, "none", 1)
BriefOnly == {Brief}
BriefOrPolicy == {Brief, ByPolicy}

Enforcing == [shadow_enabled |-> FALSE, enforce |-> TRUE, auto_readonly |-> TRUE,
              auto_sandbox_write |-> FALSE, auto_remediation |-> FALSE]
ShadowOnly == [Enforcing EXCEPT !.shadow_enabled = TRUE, !.enforce = FALSE]
BothSettings == {Enforcing, ShadowOnly}
EnforcingOnly == {Enforcing}

Caps == {"broker_dispatch", "host_run_bash"}
BrokerOnly == {"broker_dispatch"}
BrokerCaps == {"broker_dispatch"}

CallSymmetry == Permutations(Deciders)

\* The registry is read by a handler that has not inserted its row, and by nobody else.
Unread(c) == \A r \in Requests : pc[r] \in {"admit", "insert"} => job[r].req.capability # c
UnreadView == <<approvalVars, pc, job, audit, ran, settings,
              [c \in Capabilities |-> IF Unread(c) /\ \A r \in Requests : pc[r] # "new"
                                      THEN "unread" ELSE registry[c]]>>

=============================================================================
