---------------------------- MODULE KeyCompromise ----------------------------
(****************************************************************************)
(* The operator's answer to a leaked signing key (docs/                     *)
(* RUNBOOK_token_rotation.md, section 3): rotate, restart, and revoke in    *)
(* the database what sol.issued_tokens says the previous key has signed.    *)
(****************************************************************************)
EXTENDS KeyRotation

VARIABLES
    revoked,      \* tokens whose jti is in sol.revoked_tokens
    compromised   \* history: keys that were answered for in this way

compromiseVars == <<vars, revoked, compromised>>

\* sol.issued_tokens.kid is the kid the token was issued under.
IssuedUnder(kid) == {token \in tokens : token.kid = kid}

\* Steps 1 and 2: the rotation is over, the service is down for its restart.
RevokePrevious ==
    /\ At("idle")
    /\ \A p \in Processes : ~loaded[p].done /\ loading[p] = NotLoading
    /\ files[1].pub # 0
    /\ revoked' = revoked \union IssuedUnder(1)
    /\ compromised' = compromised \union {files[1].pub}
    /\ UNCHANGED vars

CompromiseInit == Init /\ revoked = {} /\ compromised = {}

CompromiseNext == (Next /\ UNCHANGED <<revoked, compromised>>) \/ RevokePrevious

CompromiseSpec == CompromiseInit /\ [][CompromiseNext]_compromiseVars

\* "Revoke EVERY in-flight token from the previous key",
\* docs/RUNBOOK_token_rotation.md:238.
PreviousKeyRevoked ==
    \A token \in tokens : token.key \in compromised => token \in revoked

=============================================================================
