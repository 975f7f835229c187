----------------------------- MODULE TokenLedger -----------------------------
(****************************************************************************)
(* The ledger of tokens, sol.issued_tokens and sol.revoked_tokens: the      *)
(* endpoints that issue and revoke (api/tokens.py), each with an audit row  *)
(* in the same commit, and the CLI (scripts/issue_tokens.py), which hands   *)
(* out the token first and has no audit row.  An audit row references the   *)
(* capability it is filed under (alembic 0002), so both endpoints depend on *)
(* what is in the registry.  What a worker accepts is module Revocation.    *)
(****************************************************************************)
EXTENDS Registry

CONSTANTS
    Calls,       \* calls of the endpoints and runs of the CLI
    MaxTokens    \* bound on the tokens ever signed

ASSUME TokenLedgerAssumption == MaxTokens \in Nat

VARIABLES
    signed,     \* tokens signed so far; a token's jti is its number
    issued,     \* sol.issued_tokens
    revoked,    \* sol.revoked_tokens
    audit,      \* audit[op][t]: audit rows of operation op on token t
    held,       \* tokens that somebody has been given, by the API or by the CLI
    call        \* call[c]: the operation, its next step or its outcome, its token

ledgerVars == <<signed, issued, revoked, audit, held, call>>

Tokens == 1..MaxTokens
AuditedOps == {"sol_issue_token", "sol_revoke_token"}
Running == {"sign", "commit", "answer", "write", "persist", "find", "look"}

Idle == [op |-> "none", at |-> "idle", token |-> 0]

Init ==
    /\ RegistryInit
    /\ signed = 0
    /\ issued = {}
    /\ revoked = {}
    /\ audit = [op \in AuditedOps |-> [t \in Tokens |-> 0]]
    /\ held = [by \in {"api", "cli"} |-> {}]
    /\ call = [c \in Calls |-> Idle]

At(c, op, at) == call[c].op = op /\ call[c].at = at
To(c, at) == call' = [call EXCEPT ![c].at = at]
HandOut(c, by) == held' = [held EXCEPT ![by] = @ \union {call[c].token}]

\* An INSERT of an audit row under the capability op is accepted.
Auditable(op) == op \in Capabilities /\ Exists(op)
AddAudit(op, t) == audit' = [audit EXCEPT ![op][t] = @ + 1]

----------------------------------------------------------------------------
(* Issue: the endpoint and the CLI *)

Sign(c, op, next) ==
    /\ call[c].at \notin Running
    /\ signed < MaxTokens
    /\ signed' = signed + 1
    /\ call' = [call EXCEPT ![c] = [op |-> op, at |-> next, token |-> signed + 1]]
    /\ UNCHANGED <<registryVars, issued, revoked, audit, held>>

IssueToken(c) == Sign(c, "issue", "commit")

\* Slip: the answer is sent first.
AnswerThenCommit(c) ==
    /\ At(c, "issue", "commit")
    /\ HandOut(c, "api")
    /\ To(c, "answer")
    /\ UNCHANGED <<registryVars, signed, issued, revoked, audit>>

\* Both rows or, with a 500, neither: then nobody ever sees the token.
CommitIssue(c) ==
    /\ At(c, "issue", "commit")
    /\ IF Auditable("sol_issue_token")
       THEN /\ issued' = issued \union {call[c].token}
            /\ AddAudit("sol_issue_token", call[c].token)
            /\ To(c, "answer")
       ELSE To(c, "failed") /\ UNCHANGED <<issued, audit>>
    /\ UNCHANGED <<registryVars, signed, revoked, held>>

AnswerIssue(c) ==
    /\ At(c, "issue", "answer")
    /\ HandOut(c, "api")
    /\ To(c, "answered")
    /\ UNCHANGED <<registryVars, signed, issued, revoked, audit>>

RunCli(c) == Sign(c, "cli", "write")

WriteFile(c) ==
    /\ At(c, "cli", "write")
    /\ HandOut(c, "cli")
    /\ To(c, "persist")
    /\ UNCHANGED <<registryVars, signed, issued, revoked, audit>>

\* The row, without an audit row; or only a warning; or --skip-db.
Persist(c) ==
    /\ At(c, "cli", "persist")
    /\ issued' \in {issued, issued \union {call[c].token}}
    /\ To(c, "answered")
    /\ UNCHANGED <<registryVars, signed, revoked, audit, held>>

----------------------------------------------------------------------------
(* Revoke *)

Revoke(c) ==
    /\ call[c].at \notin Running
    /\ \E t \in Tokens :
         call' = [call EXCEPT ![c] = [op |-> "revoke", at |-> "find", token |-> t]]
    /\ UNCHANGED <<registryVars, signed, issued, revoked, audit, held>>

\* A token that is not on the ledger is a 404; a row of the ledger is there for good.
FindIssued(c) ==
    /\ At(c, "revoke", "find")
    /\ To(c, IF call[c].token \in issued THEN "look" ELSE "not found")
    /\ UNCHANGED <<registryVars, signed, issued, revoked, audit, held>>

LookRevoked(c) ==
    /\ At(c, "revoke", "look")
    /\ To(c, IF call[c].token \in revoked THEN "answered" ELSE "commit")
    /\ UNCHANGED <<registryVars, signed, issued, revoked, audit, held>>

\* Slip: the row is added with ON CONFLICT DO NOTHING.
CommitIgnoringConflict(c) ==
    /\ At(c, "revoke", "commit")
    /\ IF Auditable("sol_revoke_token")
       THEN /\ revoked' = revoked \union {call[c].token}
            /\ AddAudit("sol_revoke_token", call[c].token)
            /\ To(c, "answered")
       ELSE To(c, "failed") /\ UNCHANGED <<revoked, audit>>
    /\ UNCHANGED <<registryVars, signed, issued, held>>

\* One commit of the revocation and its audit row; a row that another call has
\* added since, or a missing capability, refuses both: a 500.
CommitRevoke(c) ==
    /\ At(c, "revoke", "commit")
    /\ IF call[c].token \notin revoked /\ Auditable("sol_revoke_token")
       THEN /\ revoked' = revoked \union {call[c].token}
            /\ AddAudit("sol_revoke_token", call[c].token)
            /\ To(c, "answered")
       ELSE To(c, "failed") /\ UNCHANGED <<revoked, audit>>
    /\ UNCHANGED <<registryVars, signed, issued, held>>

----------------------------------------------------------------------------

\* A worker, or the CLI, dies.
Crash(c) ==
    /\ call[c].at \in Running
    /\ To(c, "crashed")
    /\ UNCHANGED <<registryVars, signed, issued, revoked, audit, held>>

Step(c) ==
    \/ IssueToken(c) \/ CommitIssue(c) \/ AnswerIssue(c)
    \/ RunCli(c) \/ WriteFile(c) \/ Persist(c)
    \/ Revoke(c) \/ FindIssued(c) \/ LookRevoked(c) \/ CommitRevoke(c)
    \/ Crash(c)

Next ==
    \/ RegistryNext /\ UNCHANGED ledgerVars
    \/ \E c \in Calls : Step(c)

Spec == Init /\ [][Next]_<<registryVars, ledgerVars>>

----------------------------------------------------------------------------
(* Properties *)

\* Whatever a client was told survives a crash: a token that it was given is on
\* the ledger, so that it can be revoked, and one that it was told is revoked is.
AnswersAreDurable ==
    /\ held["api"] \subseteq issued
    /\ \A c \in Calls : At(c, "revoke", "answered") => call[c].token \in revoked

\* Revocation "write[s] a dispatch audit row" (api/tokens.py:10) exactly when it
\* happens, and once, however many calls revoke the token at the same time and
\* whichever of them fail.
RevocationsAreAudited ==
    \A t \in Tokens : audit["sol_revoke_token"][t] = IF t \in revoked THEN 1 ELSE 0

=============================================================================
