--------------------------- MODULE TokenLedgerProofs ---------------------------
(****************************************************************************)
(* The ledger, for any number of calls, tokens and registrable              *)
(* capabilities, whatever the registry holds when a call commits.           *)
(*                                                                          *)
(* The argument.  Rows of the ledger are never deleted, so what a call has  *)
(* committed or read still holds when it answers, other calls and crashes   *)
(* in between or not (CallInv); and a revocation and its audit row are one  *)
(* commit that a second one of the same token cannot repeat.                *)
(****************************************************************************)
EXTENDS TokenLedger, TLAPS

Places == Running \union {"idle", "answered", "failed", "not found", "crashed"}
Ops == {"none", "issue", "cli", "revoke"}

LedgerTyped ==
    /\ signed \in 0..MaxTokens
    /\ issued \subseteq Tokens
    /\ revoked \subseteq issued
    /\ audit \in [AuditedOps -> [Tokens -> Nat]]
    /\ held \in [{"api", "cli"} -> SUBSET Tokens]
    /\ call \in [Calls -> [op : Ops, at : Places, token : 0..MaxTokens]]

\* What a call in progress knows of the ledger.
CallInv(c) ==
    /\ call[c].at \in Running => call[c].token \in Tokens
    /\ At(c, "issue", "answer") => call[c].token \in issued
    /\ At(c, "revoke", "look") \/ At(c, "revoke", "commit") => call[c].token \in issued
    /\ At(c, "revoke", "answered") => call[c].token \in revoked

LedgerInv ==
    /\ LedgerTyped
    /\ \A c \in Calls : CallInv(c)
    /\ AnswersAreDurable
    /\ RevocationsAreAudited

LEMMA LedgerInitially == Init => LedgerInv
<1> SUFFICES ASSUME Init PROVE LedgerInv
  OBVIOUS
<1>1. LedgerTyped
  BY TokenLedgerAssumption DEF Init, LedgerTyped, Idle, Ops, Places, AuditedOps
<1>2. \A c \in Calls : CallInv(c)
  BY DEF Init, CallInv, At, Idle, Running
<1>3. AnswersAreDurable /\ RevocationsAreAudited
  BY DEF Init, AnswersAreDurable, RevocationsAreAudited, At, Idle, AuditedOps
<1>4. QED
  BY <1>1, <1>2, <1>3 DEF LedgerInv

\* Where a call is moved on and the ledger may grow.
LEMMA CallsKept ==
  ASSUME LedgerInv, NEW c \in Calls,
         NEW next \in [op : Ops, at : Places, token : 0..MaxTokens],
         call' = [call EXCEPT ![c] = next],
         issued \subseteq issued', revoked \subseteq revoked',
         next.at \in Running => next.token \in Tokens,
         next.op = "issue" /\ next.at = "answer" => next.token \in issued',
         next.op = "revoke" /\ next.at \in {"look", "commit"} => next.token \in issued',
         next.op = "revoke" /\ next.at = "answered" => next.token \in revoked'
  PROVE  \A d \in Calls : CallInv(d)'
<1> SUFFICES ASSUME NEW d \in Calls PROVE CallInv(d)'
  OBVIOUS
<1>1. CASE d = c
  BY <1>1 DEF LedgerInv, LedgerTyped, CallInv, At
<1>2. CASE d # c
  BY <1>2 DEF LedgerInv, LedgerTyped, CallInv, At
<1>3. QED
  BY <1>1, <1>2

LEMMA SignKeepsInv ==
  ASSUME LedgerInv, NEW c \in Calls, IssueToken(c) \/ RunCli(c)
  PROVE  LedgerInv'
<1>1. PICK op \in {"issue", "cli"}, next \in {"commit", "write"} : Sign(c, op, next)
  BY DEF IssueToken, RunCli
<1>2. /\ signed < MaxTokens /\ signed' = signed + 1
      /\ call' = [call EXCEPT ![c] = [op |-> op, at |-> next, token |-> signed + 1]]
      /\ UNCHANGED <<issued, revoked, audit, held>>
  BY <1>1 DEF Sign
<1>3. signed' \in 1..MaxTokens
  BY <1>2, TokenLedgerAssumption DEF LedgerInv, LedgerTyped
<1> DEFINE new == [op |-> op, at |-> next, token |-> signed + 1]
<1>4. /\ new \in [op : Ops, at : Places, token : 0..MaxTokens] /\ new.token \in Tokens
      /\ new.at \notin {"answer", "answered", "look"}
      /\ new.op # "revoke"
  <2>1. signed + 1 \in 1..MaxTokens /\ signed + 1 \in 0..MaxTokens
    BY <1>2, <1>3, TokenLedgerAssumption
  <2>2. op \in Ops /\ next \in Places /\ op # "revoke" /\ next \notin {"answer", "answered", "look"}
    BY DEF Ops, Places, Running
  <2>3. QED
    BY <2>1, <2>2 DEF Tokens
<1>5. call' = [call EXCEPT ![c] = new]
  BY <1>2
<1> HIDE DEF new
<1>6. LedgerTyped'
  BY <1>2, <1>3, <1>4, <1>5 DEF LedgerInv, LedgerTyped
<1>7. \A d \in Calls : CallInv(d)'
  BY <1>2, <1>4, <1>5, CallsKept
<1>8. AnswersAreDurable' /\ RevocationsAreAudited'
  BY <1>2, <1>4, <1>5 DEF LedgerInv, LedgerTyped, AnswersAreDurable, RevocationsAreAudited, At
<1>9. QED
  BY <1>6, <1>7, <1>8 DEF LedgerInv

\* Where a call is moved on to another place of its operation.
LEMMA MovedOn ==
  ASSUME LedgerInv, NEW c \in Calls, NEW at \in Places, To(c, at)
  PROVE  /\ [call[c] EXCEPT !.at = at] \in [op : Ops, at : Places, token : 0..MaxTokens]
         /\ call' = [call EXCEPT ![c] = [call[c] EXCEPT !.at = at]]
         /\ call'[c].op = call[c].op /\ call'[c].at = at /\ call'[c].token = call[c].token
         /\ \A d \in Calls \ {c} : call'[d] = call[d]
         /\ call' \in [Calls -> [op : Ops, at : Places, token : 0..MaxTokens]]
BY DEF LedgerInv, LedgerTyped, To

LEMMA IssueKeepsInv ==
  ASSUME LedgerInv, NEW c \in Calls,
         CommitIssue(c) \/ AnswerIssue(c) \/ WriteFile(c) \/ Persist(c)
  PROVE  LedgerInv'
<1>1. call[c].at \in Running /\ call[c].token \in Tokens /\ call[c].op # "revoke"
  BY DEF CommitIssue, AnswerIssue, WriteFile, Persist, At, Running, LedgerInv, CallInv
<1>2. PICK at \in {"answer", "failed", "answered", "persist"} : To(c, at)
  BY DEF CommitIssue, AnswerIssue, WriteFile, Persist
<1>3. at \in Places
  BY <1>2 DEF Places, Running
<1>m. /\ call'[c].op = call[c].op /\ call'[c].at = at /\ call'[c].token = call[c].token
      /\ \A d \in Calls \ {c} : call'[d] = call[d]
      /\ call' \in [Calls -> [op : Ops, at : Places, token : 0..MaxTokens]]
  BY <1>2, <1>3, MovedOn
<1>n. \A place \in Places : To(c, place) => place = at
  BY <1>m, MovedOn
<1>4. /\ issued' \in {issued, issued \union {call[c].token}} /\ revoked' = revoked
      /\ signed' = signed
  BY DEF CommitIssue, AnswerIssue, WriteFile, Persist
<1>5. call[c].op = "issue" /\ at = "answer" => call[c].token \in issued'
  BY <1>n DEF CommitIssue, AnswerIssue, WriteFile, Persist, At, Places, Running
<1>6. /\ audit' \in [AuditedOps -> [Tokens -> Nat]]
      /\ audit'["sol_revoke_token"] = audit["sol_revoke_token"]
  BY <1>1 DEF CommitIssue, AnswerIssue, WriteFile, Persist, AddAudit, AuditedOps,
              LedgerInv, LedgerTyped
<1>7. held' \in [{"api", "cli"} -> SUBSET Tokens] /\ held'["api"] \subseteq issued'
  BY <1>1 DEF CommitIssue, AnswerIssue, WriteFile, Persist, HandOut, At,
              LedgerInv, LedgerTyped, CallInv, AnswersAreDurable
<1>8. LedgerTyped'
  BY <1>1, <1>2, <1>3, <1>4, <1>6, <1>7, <1>m DEF LedgerInv, LedgerTyped
<1>9. \A d \in Calls : CallInv(d)'
  BY <1>1, <1>2, <1>3, <1>4, <1>5, <1>m DEF LedgerInv, CallInv, At
<1>10. AnswersAreDurable' /\ RevocationsAreAudited'
  BY <1>1, <1>2, <1>3, <1>4, <1>6, <1>7, <1>m
     DEF LedgerInv, AnswersAreDurable, RevocationsAreAudited, At
<1>11. QED
  BY <1>8, <1>9, <1>10 DEF LedgerInv

LEMMA LookingKeepsInv ==
  ASSUME LedgerInv, NEW c \in Calls, FindIssued(c) \/ LookRevoked(c) \/ Crash(c)
  PROVE  LedgerInv'
<1>1. /\ call[c].at \in Running /\ call[c].token \in Tokens
      /\ UNCHANGED <<signed, issued, revoked, audit, held>>
  BY DEF FindIssued, LookRevoked, Crash, At, Running, LedgerInv, CallInv
<1>2. PICK at \in {"look", "not found", "answered", "commit", "crashed"} : To(c, at)
  BY DEF FindIssued, LookRevoked, Crash
<1>3. at \in Places
  BY <1>2 DEF Places, Running
<1>m. /\ call'[c].op = call[c].op /\ call'[c].at = at /\ call'[c].token = call[c].token
      /\ \A d \in Calls \ {c} : call'[d] = call[d]
      /\ call' \in [Calls -> [op : Ops, at : Places, token : 0..MaxTokens]]
  BY <1>2, <1>3, MovedOn
<1>n. \A place \in Places : To(c, place) => place = at
  BY <1>m, MovedOn
<1>4. /\ at \in {"look", "commit"} => call[c].token \in issued
      /\ at = "answered" => call[c].token \in revoked
  BY <1>n DEF FindIssued, LookRevoked, Crash, At, LedgerInv, CallInv, Places, Running
<1>5. LedgerTyped'
  BY <1>1, <1>2, <1>3, <1>m DEF LedgerInv, LedgerTyped
<1>6. \A d \in Calls : CallInv(d)'
  BY <1>1, <1>2, <1>3, <1>4, <1>m DEF LedgerInv, CallInv, At
<1>7. AnswersAreDurable' /\ RevocationsAreAudited'
  BY <1>1, <1>2, <1>3, <1>4, <1>m
     DEF LedgerInv, AnswersAreDurable, RevocationsAreAudited, At
<1>8. QED
  BY <1>5, <1>6, <1>7 DEF LedgerInv

LEMMA RevokeKeepsInv ==
  ASSUME LedgerInv, NEW c \in Calls, Revoke(c)
  PROVE  LedgerInv'
<1>1. PICK t \in Tokens :
        call' = [call EXCEPT ![c] = [op |-> "revoke", at |-> "find", token |-> t]]
  BY DEF Revoke
<1>2. UNCHANGED <<signed, issued, revoked, audit, held>>
  BY DEF Revoke
<1> DEFINE new == [op |-> "revoke", at |-> "find", token |-> t]
<1>3. new \in [op : Ops, at : Places, token : 0..MaxTokens] /\ new.token \in Tokens
      /\ new.at = "find" /\ call' = [call EXCEPT ![c] = new]
  BY <1>1, TokenLedgerAssumption DEF Ops, Places, Running, Tokens
<1> HIDE DEF new
<1>4. LedgerTyped'
  BY <1>2, <1>3 DEF LedgerInv, LedgerTyped
<1>5. \A d \in Calls : CallInv(d)'
  BY <1>2, <1>3, CallsKept
<1>6. AnswersAreDurable' /\ RevocationsAreAudited'
  BY <1>2, <1>3 DEF LedgerInv, LedgerTyped, AnswersAreDurable, RevocationsAreAudited, At
<1>7. QED
  BY <1>4, <1>5, <1>6 DEF LedgerInv

\* Of two revocations of one token, the second commits nothing.
LEMMA CommitRevokeKeepsInv ==
  ASSUME LedgerInv, NEW c \in Calls, CommitRevoke(c)
  PROVE  LedgerInv'
<1> DEFINE t == call[c].token
<1>1. /\ t \in Tokens /\ t \in issued /\ call[c].op = "revoke" /\ call[c].at = "commit"
      /\ UNCHANGED <<signed, issued, held>>
  BY DEF CommitRevoke, At, Running, LedgerInv, CallInv
<1>2. CASE t \notin revoked /\ Auditable("sol_revoke_token")
  <2>1. /\ To(c, "answered") /\ "answered" \in Places
        /\ revoked' = revoked \union {t}
        /\ audit' = [audit EXCEPT !["sol_revoke_token"][t] = @ + 1]
    BY <1>2 DEF CommitRevoke, AddAudit, Places
  <2>m. /\ call'[c].op = call[c].op /\ call'[c].at = "answered" /\ call'[c].token = call[c].token
        /\ \A d \in Calls \ {c} : call'[d] = call[d]
        /\ call' \in [Calls -> [op : Ops, at : Places, token : 0..MaxTokens]]
    BY <2>1, MovedOn
  <2>2. /\ audit' \in [AuditedOps -> [Tokens -> Nat]]
        /\ \A s \in Tokens : audit'["sol_revoke_token"][s]
                              = audit["sol_revoke_token"][s] + (IF s = t THEN 1 ELSE 0)
    BY <1>1, <2>1 DEF LedgerInv, LedgerTyped, AuditedOps
  <2>3. LedgerTyped'
    BY <1>1, <2>1, <2>2, <2>m DEF LedgerInv, LedgerTyped
  <2>4. \A d \in Calls : CallInv(d)'
    BY <1>1, <2>1, <2>m DEF LedgerInv, CallInv, At, Running
  <2>5. AnswersAreDurable'
    BY <1>1, <2>1, <2>m DEF LedgerInv, AnswersAreDurable, At
  <2>6. RevocationsAreAudited'
    BY <1>2, <2>1, <2>2 DEF LedgerInv, RevocationsAreAudited
  <2>7. QED
    BY <2>3, <2>4, <2>5, <2>6 DEF LedgerInv
<1>3. CASE ~(t \notin revoked /\ Auditable("sol_revoke_token"))
  <2>1. To(c, "failed") /\ "failed" \in Places /\ UNCHANGED <<revoked, audit>>
    BY <1>3 DEF CommitRevoke, Places
  <2>m. /\ call'[c].op = call[c].op /\ call'[c].at = "failed" /\ call'[c].token = call[c].token
        /\ \A d \in Calls \ {c} : call'[d] = call[d]
        /\ call' \in [Calls -> [op : Ops, at : Places, token : 0..MaxTokens]]
    BY <2>1, MovedOn
  <2>2. LedgerTyped'
    BY <1>1, <2>1, <2>m DEF LedgerInv, LedgerTyped
  <2>3. \A d \in Calls : CallInv(d)'
    BY <1>1, <2>1, <2>m DEF LedgerInv, CallInv, At, Running
  <2>4. AnswersAreDurable' /\ RevocationsAreAudited'
    BY <1>1, <2>1, <2>m DEF LedgerInv, AnswersAreDurable, RevocationsAreAudited, At
  <2>5. QED
    BY <2>2, <2>3, <2>4 DEF LedgerInv
<1>4. QED
  BY <1>2, <1>3

\* No step of a call, no crash and nothing done to the registry leaves the invariant.
THEOREM LedgerInvariance == Spec => []LedgerInv
<1>1. LedgerInv /\ [Next]_<<registryVars, ledgerVars>> => LedgerInv'
  <2> SUFFICES ASSUME LedgerInv, [Next]_<<registryVars, ledgerVars>> PROVE LedgerInv'
    OBVIOUS
  <2>1. CASE UNCHANGED ledgerVars
    BY <2>1 DEF ledgerVars, LedgerInv, LedgerTyped, CallInv, AnswersAreDurable,
                RevocationsAreAudited, At
  <2>2. ASSUME NEW c \in Calls, Step(c) PROVE LedgerInv'
    BY <2>2, SignKeepsInv, IssueKeepsInv, LookingKeepsInv, RevokeKeepsInv,
       CommitRevokeKeepsInv DEF Step
  <2>3. QED
    BY <2>1, <2>2 DEF Next
<1>2. QED
  BY <1>1, LedgerInitially, PTL DEF Spec

\* A token that the API (POST /tokens/issue) has answered with is on the ledger, and
\* one that it said is revoked (POST /tokens/{jti}/revoke) is revoked there.
THEOREM AnswersStayTrue == Spec => []AnswersAreDurable
<1>1. LedgerInv => AnswersAreDurable
  BY DEF LedgerInv
<1>2. QED
  BY <1>1, LedgerInvariance, PTL

\* A revocation has one audit row, and what was not revoked has none.
THEOREM RevocationsHaveOneAuditRow == Spec => []RevocationsAreAudited
<1>1. LedgerInv => RevocationsAreAudited
  BY DEF LedgerInv
<1>2. QED
  BY <1>1, LedgerInvariance, PTL

=============================================================================
