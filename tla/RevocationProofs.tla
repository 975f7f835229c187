--------------------------- MODULE RevocationProofs ---------------------------
(****************************************************************************)
(* Revocation, for every number of workers, tokens and calls, every TTL and *)
(* every clock.                                                             *)
(*                                                                          *)
(* The argument.  Who queries holds the worker's lock until the answer is   *)
(* installed, so nothing is added to the copy meanwhile, and what is        *)
(* installed contains what was there (CallInv).  What a copy lacks was      *)
(* revoked since the query behind it ran, unless that query failed, however *)
(* much later it was stamped (CopyInv); and a call that has taken a copy    *)
(* for fresh may go by that for as long as it likes, because the copy only  *)
(* grows under it (Relies).                                                 *)
(****************************************************************************)
EXTENDS Revocation, TLAPS

\* What a copy of worker w lacks was revoked since the query r, if that succeeded.
LacksOnlyNew(w, r) ==
    r.ok => \A t \in revoked \ copy[w] : revokedAt[t] >= r.asked

\* Why a call that goes on with an age it found good may do so.
Relies(c) ==
    /\ call[c].refresh.asked <= call[c].checked /\ call[c].checked <= clock
    /\ call[c].checked - call[c].refresh.asked < TTL + call[c].took
    /\ LacksOnlyNew(call[c].worker, call[c].refresh)

\* An accepted token was revoked too late for the call, or a refresh had failed.
Bounded(c) ==
    call[c].token \in revoked =>
      \/ call[c].checked - revokedAt[call[c].token] < TTL + call[c].took
      \/ /\ ~call[c].refresh.ok
         /\ call[c].checked - call[c].refresh.asked < TTL + call[c].took

\* What a call knows, by where it is.
CallInv(c) ==
    /\ At(c, "query") \/ At(c, "install") => lock[call[c].worker] = c
    /\ At(c, "install") =>
         /\ call[c].refresh.asked <= clock
         /\ call[c].refresh.ok =>
              /\ copy[call[c].worker] \subseteq call[c].rows
              /\ call[c].rows \subseteq revoked
              /\ \A t \in revoked \ call[c].rows : revokedAt[t] >= call[c].refresh.asked
    /\ At(c, "member") => Relies(c)
    /\ At(c, "accepted") => call[c].checked <= clock /\ Bounded(c)
    /\ At(c, "add") => call[c].token \in revoked
    /\ At(c, "revoked") => call[c].token \in copy[call[c].worker]

\* Why a copy may lack what is revoked.
CopyInv(w) ==
    /\ fetchedAt[w] <= clock /\ refresh[w].asked <= fetchedAt[w]
    /\ LacksOnlyNew(w, refresh[w])

RevocationInv ==
    /\ TypeOK
    /\ \A c \in Calls : CallInv(c)
    /\ \A w \in Workers : CopyInv(w)

Labels == InCall \union Answers

\* A call that has begun has a worker, a token and what its query found.
LEMMA CallType ==
  ASSUME TypeOK, NEW c \in Calls, call[c].pc \in Labels
  PROVE  call[c] \in Call
BY DEF TypeOK, Idle, Labels, InCall, Answers

LEMMA RevocationInitially == Init => RevocationInv
<1> SUFFICES ASSUME Init PROVE RevocationInv
  OBVIOUS
<1>1. TypeOK
  BY DEF Init, TypeOK, Idle, NoRefresh, Refresh
<1>2. \A c \in Calls : call[c].pc = "idle"
  BY DEF Init, Idle
<1>3. QED
  BY <1>1, <1>2 DEF Init, RevocationInv, CallInv, CopyInv, LacksOnlyNew, NoRefresh, At

----------------------------------------------------------------------------
(* What the steps of others leave of a call and of a copy *)

\* The clock only moves on, and what is revoked stays so and is dated by the clock.
Onward ==
    /\ clock' \in Nat /\ clock <= clock'
    /\ revoked \subseteq revoked'
    /\ \A t \in revoked : revokedAt'[t] = revokedAt[t]
    /\ \A t \in revoked' \ revoked : revokedAt'[t] = clock

\* A call takes no step, its copy grows at most, and not while it holds the lock.
Undisturbed(c) ==
    /\ call'[c] = call[c]
    /\ call[c].pc \in Labels =>
         /\ copy[call[c].worker] \subseteq copy'[call[c].worker]
         /\ At(c, "query") \/ At(c, "install") =>
              /\ lock'[call[c].worker] = lock[call[c].worker]
              /\ copy'[call[c].worker] = copy[call[c].worker]

LEMMA UndisturbedKeepsInv ==
  ASSUME TypeOK, Onward, NEW c \in Calls, CallInv(c), Undisturbed(c)
  PROVE  CallInv(c)'
<1>1. CASE call[c].pc \notin Labels
  BY <1>1 DEF CallInv, Undisturbed, At, Labels, InCall, Answers
<1>2. CASE call[c].pc \in Labels
  <2>1. /\ call[c] \in Call /\ call[c].worker \in Workers /\ call[c].token \in Tokens
        /\ call[c].checked \in Nat /\ call[c].took \in Nat /\ call[c].refresh.asked \in Nat
    BY <1>2, CallType DEF Call, Refresh
  <2>2. call'[c] = call[c] /\ copy[call[c].worker] \subseteq copy'[call[c].worker]
    BY <1>2 DEF Undisturbed
  <2>3. clock \in Nat /\ TTL \in Nat \ {0}
    BY RevocationAssumption DEF TypeOK
  <2>4. At(c, "query") \/ At(c, "install") => lock'[call[c].worker] = c
    BY <1>2 DEF CallInv, Undisturbed
  <2>5. CASE At(c, "install")
    <3>1. copy'[call[c].worker] = copy[call[c].worker]
      BY <1>2, <2>5 DEF Undisturbed
    <3>2. \A t \in revoked' \ revoked : revokedAt'[t] >= call[c].refresh.asked
      BY <2>1, <2>3, <2>5 DEF CallInv, Onward
    <3>3. call[c].refresh.asked <= clock'
      BY <2>1, <2>3, <2>5 DEF CallInv, Onward
    <3>4. QED
      BY <2>2, <2>4, <2>5, <3>1, <3>2, <3>3 DEF CallInv, At, Onward
  <2>6. CASE At(c, "member")
    <3>1. /\ call[c].checked <= clock /\ LacksOnlyNew(call[c].worker, call[c].refresh)
          /\ call[c].checked - call[c].refresh.asked < TTL + call[c].took
      BY <2>6 DEF CallInv, Relies
    <3>2. \A t \in revoked' \ copy'[call[c].worker] :
            t \in revoked \ copy[call[c].worker] \/ revokedAt'[t] = clock
      BY <2>2 DEF Onward
    <3>3. call[c].refresh.asked <= call[c].checked /\ call[c].refresh.asked <= clock
      BY <2>1, <2>3, <2>6 DEF CallInv, Relies
    <3>4. call[c].checked <= clock'
      BY <2>1, <2>3, <3>1 DEF Onward
    <3>5. LacksOnlyNew(call[c].worker, call[c].refresh)'
      BY <2>1, <2>2, <2>3, <3>1, <3>2, <3>3 DEF LacksOnlyNew, Onward
    <3>6. QED
      BY <2>2, <2>6, <3>1, <3>3, <3>4, <3>5 DEF CallInv, Relies, At
  <2>7. CASE At(c, "accepted")
    <3>1. call[c].checked <= clock'
      BY <2>1, <2>3, <2>7 DEF CallInv, Onward
    <3>2. CASE call[c].token \in revoked
      BY <2>2, <2>7, <3>1, <3>2 DEF CallInv, Bounded, At, Onward
    <3>3. CASE call[c].token \in revoked' \ revoked
      <4>1. call[c].checked - revokedAt'[call[c].token] < TTL + call[c].took
        BY <2>1, <2>3, <2>7, <3>3 DEF CallInv, Onward
      <4>2. QED
        BY <2>2, <2>7, <3>1, <4>1 DEF CallInv, Bounded, At
    <3>4. CASE call[c].token \notin revoked'
      BY <2>2, <2>7, <3>1, <3>4 DEF CallInv, Bounded, At
    <3>5. QED
      BY <3>2, <3>3, <3>4
  <2>8. CASE ~At(c, "install") /\ ~At(c, "member") /\ ~At(c, "accepted")
    BY <2>2, <2>4, <2>8 DEF CallInv, At, Onward
  <2>9. QED
    BY <2>5, <2>6, <2>7, <2>8
<1>3. QED
  BY <1>1, <1>2

\* A copy that is not replaced lacks no more than before.
LEMMA UntouchedCopyKeepsInv ==
  ASSUME TypeOK, Onward, NEW w \in Workers, CopyInv(w),
         fetchedAt'[w] = fetchedAt[w], refresh'[w] = refresh[w], copy[w] \subseteq copy'[w]
  PROVE  CopyInv(w)'
<1>1. /\ clock \in Nat /\ fetchedAt[w] \in Nat /\ refresh[w].asked \in Nat
  BY DEF TypeOK, Refresh
<1>2. fetchedAt'[w] <= clock' /\ refresh'[w].asked <= fetchedAt'[w] /\ refresh[w].asked <= clock
  BY <1>1 DEF CopyInv, Onward
<1>3. \A t \in revoked' \ copy'[w] : t \in revoked \ copy[w] \/ revokedAt'[t] = clock
  BY DEF Onward
<1>4. QED
  BY <1>1, <1>2, <1>3 DEF CopyInv, LacksOnlyNew, Onward

\* Most steps leave the table and the copies alone.
LEMMA QuietSteps ==
  ASSUME RevocationInv, UNCHANGED <<clock, dbVars, copy, fetchedAt, refresh>>
  PROVE  Onward /\ \A w \in Workers : CopyInv(w)'
<1>1. Onward
  BY DEF RevocationInv, TypeOK, Onward, dbVars
<1>2. QED
  BY <1>1 DEF RevocationInv, CopyInv, LacksOnlyNew, dbVars

\* The others stay as they were while one call takes a step without the lock.
LEMMA OthersAreUndisturbed ==
  ASSUME RevocationInv, UNCHANGED <<clock, dbVars, workerVars>>, NEW c \in Calls,
         \A d \in Calls \ {c} : call'[d] = call[d]
  PROVE  \A d \in Calls \ {c} : CallInv(d)'
<1>1. Onward
  BY QuietSteps DEF workerVars
<1>2. ASSUME NEW d \in Calls \ {c} PROVE Undisturbed(d)
  BY <1>2 DEF Undisturbed, workerVars
<1>3. QED
  BY <1>1, <1>2, UndisturbedKeepsInv DEF RevocationInv

----------------------------------------------------------------------------
(* One lemma per step *)

LEMMA BeginKeepsInv ==
  ASSUME RevocationInv, NEW c \in Calls, NEW w \in Workers, NEW t \in Tokens,
         Verify(c, w, t) \/ Revoke(c, w, t)
  PROVE  RevocationInv'
<1>1. PICK l \in {"age", "read"} : Begin(c, w, t, l)
  BY DEF Verify, Revoke
<1>2. UNCHANGED <<clock, dbVars, workerVars>>
  BY <1>1 DEF Begin
<1>3. [pc |-> l, worker |-> w, token |-> t, rows |-> {}, refresh |-> NoRefresh,
       checked |-> 0, took |-> 0] \in Call
  BY DEF Call, InCall, NoRefresh, Refresh
<1>4. /\ call' \in [Calls -> {Idle} \union Call]
      /\ call'[c].pc = l /\ \A d \in Calls \ {c} : call'[d] = call[d]
  BY <1>1, <1>3 DEF Begin, RevocationInv, TypeOK
<1>5. TypeOK'
  BY <1>2, <1>4 DEF RevocationInv, TypeOK, dbVars, workerVars
<1>6. CallInv(c)'
  BY <1>4 DEF CallInv, At
<1>7. QED
  BY <1>2, <1>4, <1>5, <1>6, OthersAreUndisturbed, QuietSteps DEF RevocationInv, workerVars

\* A fresh copy may be relied on.
LEMMA FreshIsRelied ==
  ASSUME RevocationInv, NEW c \in Calls, call[c] \in Call, Fresh(call[c].worker),
         UNCHANGED <<clock, dbVars, copy>>, call'[c] = Relying(c, call[c].worker)
  PROVE  /\ call'[c] \in Call /\ CallInv(c)'
         /\ call'[c].pc = "member" /\ call'[c].worker = call[c].worker
<1> DEFINE w == call[c].worker
<1>1. /\ w \in Workers /\ clock \in Nat /\ fetchedAt[w] \in Nat /\ TTL \in Nat
      /\ refresh[w] \in Refresh /\ refresh[w].asked \in Nat
      /\ refresh[w].asked <= fetchedAt[w] /\ fetchedAt[w] <= clock
      /\ LacksOnlyNew(w, refresh[w])
  BY RevocationAssumption DEF RevocationInv, TypeOK, CopyInv, Call, Refresh
<1>2. /\ call'[c].pc = "member" /\ call'[c].worker = w /\ call'[c].refresh = refresh[w]
      /\ call'[c].checked = clock /\ call'[c].took = fetchedAt[w] - refresh[w].asked
      /\ call'[c] \in Call
  <2>1. PICK took \in Nat : took = fetchedAt[w] - refresh[w].asked
    BY <1>1
  <2>2. call'[c] = [call[c] EXCEPT !.pc = "member", !.refresh = refresh[w],
                                   !.checked = clock, !.took = took]
    BY <2>1 DEF Relying
  <2>3. "member" \in InCall
    BY DEF InCall
  <2>4. /\ call'[c].pc = "member" /\ call'[c].worker = w /\ call'[c].refresh = refresh[w]
        /\ call'[c].checked = clock /\ call'[c].took = took
    BY <2>2 DEF Call
  <2>5. call'[c] \in Call
    BY <1>1, <2>2, <2>3 DEF Call
  <2>6. QED
    BY <2>1, <2>4, <2>5
<1>3. clock - fetchedAt[w] < TTL
  BY DEF Fresh
<1>4. Relies(c)'
  BY <1>1, <1>2, <1>3 DEF Relies, LacksOnlyNew, dbVars
<1>5. QED
  BY <1>2, <1>4 DEF CallInv, At

LEMMA CheckAgeKeepsInv ==
  ASSUME RevocationInv, NEW c \in Calls, CheckAge(c)
  PROVE  RevocationInv'
<1> DEFINE w == call[c].worker
<1>1. call[c] \in Call /\ At(c, "age") /\ UNCHANGED <<clock, dbVars, workerVars>>
  BY CallType DEF CheckAge, At, RevocationInv, Labels, InCall
<1>2. /\ call'[c] \in Call /\ CallInv(c)'
      /\ call' \in [Calls -> {Idle} \union Call]
      /\ \A d \in Calls \ {c} : call'[d] = call[d]
  <2>1. CASE Fresh(w)
    <3>1. /\ call' = [call EXCEPT ![c] = Relying(c, w)] /\ call'[c] = Relying(c, w)
      BY <2>1 DEF CheckAge, RevocationInv, TypeOK
    <3>2. call'[c] \in Call /\ CallInv(c)'
      BY <1>1, <2>1, <3>1, FreshIsRelied DEF workerVars
    <3>3. QED
      BY <3>1, <3>2 DEF RevocationInv, TypeOK
  <2>2. CASE ~Fresh(w)
    <3>1. call' = [call EXCEPT ![c] = [@ EXCEPT !.pc = "lock"]]
      BY <2>2 DEF CheckAge
    <3>2. call'[c] \in Call /\ call'[c].pc = "lock"
      BY <1>1, <3>1 DEF RevocationInv, TypeOK, Call, InCall
    <3>3. QED
      BY <3>1, <3>2 DEF RevocationInv, TypeOK, CallInv, At
  <2>3. QED
    BY <2>1, <2>2
<1>3. TypeOK'
  BY <1>1, <1>2 DEF RevocationInv, TypeOK, dbVars, workerVars
<1>4. QED
  BY <1>1, <1>2, <1>3, OthersAreUndisturbed, QuietSteps DEF RevocationInv, workerVars

\* Who takes the lock to query finds it free, so no refresh of the worker is under way.
LEMMA TakeLockKeepsInv ==
  ASSUME RevocationInv, NEW c \in Calls, TakeLock(c)
  PROVE  RevocationInv'
<1> DEFINE w == call[c].worker
<1>1. /\ call[c] \in Call /\ w \in Workers /\ At(c, "lock") /\ lock[w] = Free
      /\ UNCHANGED <<clock, dbVars, copy, fetchedAt, refresh>>
  BY CallType DEF TakeLock, At, RevocationInv, Labels, InCall, Call
<1>2. /\ call'[c] \in Call /\ CallInv(c)'
      /\ call' \in [Calls -> {Idle} \union Call] /\ lock' \in [Workers -> Calls \union {Free}]
      /\ \A d \in Calls \ {c} : call'[d] = call[d]
      /\ \A v \in Workers \ {w} : lock'[v] = lock[v]
  <2>1. CASE Fresh(w)
    <3>1. /\ call' = [call EXCEPT ![c] = Relying(c, w)] /\ call'[c] = Relying(c, w)
          /\ lock' = [lock EXCEPT ![w] = Free]
      BY <2>1 DEF TakeLock, RevocationInv, TypeOK
    <3>2. call'[c] \in Call /\ CallInv(c)'
      BY <1>1, <2>1, <3>1, FreshIsRelied
    <3>3. QED
      BY <3>1, <3>2 DEF RevocationInv, TypeOK
  <2>2. CASE ~Fresh(w)
    <3>1. /\ call' = [call EXCEPT ![c] = [@ EXCEPT !.pc = "query"]]
          /\ lock' = [lock EXCEPT ![w] = c]
      BY <2>2 DEF TakeLock
    <3>2. call'[c] \in Call /\ call'[c].pc = "query" /\ call'[c].worker = w
      BY <1>1, <3>1 DEF RevocationInv, TypeOK, Call, InCall
    <3>3. lock'[w] = c
      BY <1>1, <3>1 DEF RevocationInv, TypeOK
    <3>4. QED
      BY <3>1, <3>2, <3>3 DEF RevocationInv, TypeOK, CallInv, At
  <2>3. QED
    BY <2>1, <2>2
<1>3. TypeOK'
  BY <1>1, <1>2 DEF RevocationInv, TypeOK, dbVars
<1>4. ASSUME NEW d \in Calls \ {c} PROVE CallInv(d)'
  <2>1. call'[d] = call[d] /\ copy' = copy
    BY <1>1, <1>2
  <2>2. At(d, "query") \/ At(d, "install") => lock'[call[d].worker] = lock[call[d].worker]
    <3> SUFFICES ASSUME At(d, "query") \/ At(d, "install")
                 PROVE  lock'[call[d].worker] = lock[call[d].worker]
      OBVIOUS
    <3>1. call[d] \in Call /\ lock[call[d].worker] = d
      BY CallType DEF At, RevocationInv, CallInv, Labels, InCall
    <3>2. call[d].worker # w /\ call[d].worker \in Workers
      BY <1>1, <3>1, FreeAssumption DEF Call
    <3>3. QED
      BY <1>2, <3>2
  <2>3. Undisturbed(d)
    BY <2>1, <2>2 DEF Undisturbed
  <2>4. QED
    BY <1>1, <2>3, QuietSteps, UndisturbedKeepsInv DEF RevocationInv
<1>5. QED
  BY <1>1, <1>2, <1>3, <1>4, QuietSteps DEF RevocationInv

\* The answer is what the table holds, and that contains the copy.
LEMMA QueryKeepsInv ==
  ASSUME RevocationInv, NEW c \in Calls, Query(c)
  PROVE  RevocationInv'
<1> DEFINE w == call[c].worker
<1>1. /\ call[c] \in Call /\ w \in Workers /\ At(c, "query")
      /\ UNCHANGED <<clock, dbVars, workerVars>>
  BY CallType DEF Query, At, RevocationInv, Labels, InCall, Call
<1>2. PICK ok \in BOOLEAN :
        call' = [call EXCEPT ![c].pc = "install", ![c].rows = IF ok THEN revoked ELSE {},
                             ![c].refresh = [asked |-> clock, ok |-> ok]]
  BY DEF Query
<1>3. [asked |-> clock, ok |-> ok] \in Refresh /\ (IF ok THEN revoked ELSE {}) \in SUBSET Tokens
  BY DEF RevocationInv, TypeOK, Refresh
<1>4. /\ call'[c] \in Call /\ call'[c].pc = "install" /\ call'[c].worker = w
      /\ call'[c].refresh = [asked |-> clock, ok |-> ok]
      /\ call'[c].rows = IF ok THEN revoked ELSE {}
      /\ call' \in [Calls -> {Idle} \union Call]
      /\ \A d \in Calls \ {c} : call'[d] = call[d]
  BY <1>1, <1>2, <1>3 DEF RevocationInv, TypeOK, Call, InCall
<1>5. TypeOK'
  BY <1>1, <1>4 DEF RevocationInv, TypeOK, dbVars, workerVars
<1>6. CallInv(c)'
  <2>1. lock'[w] = c
    BY <1>1 DEF RevocationInv, CallInv, workerVars
  <2>2. call'[c].refresh.asked <= clock' /\ (call'[c].refresh.ok <=> ok)
    BY <1>1, <1>4 DEF RevocationInv, TypeOK
  <2>3. ok => /\ copy'[w] \subseteq call'[c].rows /\ call'[c].rows = revoked'
    BY <1>1, <1>4 DEF RevocationInv, TypeOK, dbVars, workerVars
  <2>4. QED
    BY <1>4, <2>1, <2>2, <2>3 DEF CallInv, At
<1>7. QED
  BY <1>1, <1>4, <1>5, <1>6, OthersAreUndisturbed, QuietSteps DEF RevocationInv, workerVars

\* What is installed contains the copy, for nobody could add to that meanwhile; it stands
\* for the time of the query, whenever it is stamped.
LEMMA InstallKeepsInv ==
  ASSUME RevocationInv, NEW c \in Calls, Install(c)
  PROVE  RevocationInv'
<1> DEFINE w == call[c].worker
           own == call[c].refresh
<1>1. /\ call[c] \in Call /\ w \in Workers /\ At(c, "install") /\ lock[w] = c
      /\ own \in Refresh /\ own.asked \in Nat /\ clock \in Nat /\ own.asked <= clock
      /\ TTL \in Nat \ {0} /\ UNCHANGED <<clock, dbVars>>
  BY CallType, RevocationAssumption
     DEF Install, At, RevocationInv, TypeOK, CallInv, Labels, InCall, Call, Refresh
<1>2. /\ copy' = [copy EXCEPT ![w] = IF own.ok THEN call[c].rows ELSE @]
      /\ fetchedAt' = [fetchedAt EXCEPT ![w] = clock]
      /\ refresh' = [refresh EXCEPT ![w] = own]
      /\ lock' = [lock EXCEPT ![w] = Free]
  BY DEF Install, Released
<1>3. /\ call'[c].pc = "member" /\ call'[c].worker = w /\ call'[c].refresh = own
      /\ call'[c].checked = clock /\ call'[c].took = clock - own.asked
      /\ call'[c] \in Call /\ call' \in [Calls -> {Idle} \union Call]
      /\ \A d \in Calls \ {c} : call'[d] = call[d]
  <2>1. PICK took \in Nat : took = clock - own.asked
    BY <1>1
  <2>2. call' = [call EXCEPT ![c].pc = "member", ![c].rows = {},
                             ![c].checked = clock, ![c].took = took]
    BY <2>1 DEF Install
  <2>3. /\ call'[c].pc = "member" /\ call'[c].worker = w /\ call'[c].refresh = own
        /\ call'[c].checked = clock /\ call'[c].took = took
    BY <1>1, <2>2 DEF RevocationInv, TypeOK, Call
  <2>4. call'[c] \in Call
    BY <1>1, <2>2 DEF RevocationInv, TypeOK, Call, InCall
  <2>5. call' \in [Calls -> {Idle} \union Call] /\ \A d \in Calls \ {c} : call'[d] = call[d]
    BY <2>2, <2>4 DEF RevocationInv, TypeOK
  <2>6. QED
    BY <2>1, <2>3, <2>4, <2>5
<1>4. own.ok => /\ copy[w] \subseteq call[c].rows /\ call[c].rows \subseteq revoked
                /\ \A t \in revoked \ call[c].rows : revokedAt[t] >= own.asked
  BY <1>1 DEF RevocationInv, CallInv
<1>5. \A v \in Workers : copy[v] \subseteq copy'[v] /\ (v # w => copy'[v] = copy[v])
  BY <1>1, <1>2, <1>4 DEF RevocationInv, TypeOK
<1>6. TypeOK'
  <2>1. copy' \in [Workers -> SUBSET revoked']
    BY <1>1, <1>2, <1>4 DEF RevocationInv, TypeOK, dbVars
  <2>2. QED
    BY <1>1, <1>2, <1>3, <2>1 DEF RevocationInv, TypeOK, dbVars
<1>7. own.ok => \A t \in revoked' \ copy'[w] : revokedAt'[t] >= own.asked
  <2>1. own.ok => copy'[w] = call[c].rows
    BY <1>1, <1>2 DEF RevocationInv, TypeOK
  <2>2. QED
    BY <1>1, <1>4, <2>1 DEF dbVars
<1>8. Onward
  BY <1>1 DEF Onward, dbVars
<1>9. CallInv(c)'
  <2>1. call'[c].checked - own.asked < TTL + call'[c].took
    BY <1>1, <1>3
  <2>2. Relies(c)'
    BY <1>1, <1>3, <1>7, <2>1 DEF Relies, LacksOnlyNew
  <2>3. QED
    BY <1>3, <2>2 DEF CallInv, At
<1>10. ASSUME NEW d \in Calls \ {c} PROVE CallInv(d)'
  <2>1. ASSUME call[d].pc \in Labels
        PROVE  /\ copy[call[d].worker] \subseteq copy'[call[d].worker]
               /\ At(d, "query") \/ At(d, "install") =>
                    /\ lock'[call[d].worker] = lock[call[d].worker]
                    /\ copy'[call[d].worker] = copy[call[d].worker]
    <3>1. call[d] \in Call /\ call[d].worker \in Workers
      BY <2>1, CallType DEF RevocationInv, Call
    <3>2. At(d, "query") \/ At(d, "install") => call[d].worker # w
      BY <1>1 DEF RevocationInv, CallInv
    <3>3. QED
      BY <1>1, <1>2, <1>5, <3>1, <3>2 DEF RevocationInv, TypeOK
  <2>2. Undisturbed(d)
    BY <1>3, <2>1 DEF Undisturbed
  <2>3. QED
    BY <1>8, <2>2, UndisturbedKeepsInv DEF RevocationInv
<1>11. ASSUME NEW v \in Workers PROVE CopyInv(v)'
  <2>1. CASE v = w
    <3>1. fetchedAt'[w] = clock /\ refresh'[w] = own
      BY <1>1, <1>2 DEF RevocationInv, TypeOK
    <3>2. QED
      BY <1>1, <1>7, <2>1, <3>1 DEF CopyInv, LacksOnlyNew
  <2>2. CASE v # w
    <3>1. fetchedAt'[v] = fetchedAt[v] /\ refresh'[v] = refresh[v] /\ copy[v] \subseteq copy'[v]
      BY <1>2, <1>5, <2>2 DEF RevocationInv, TypeOK
    <3>2. QED
      BY <1>8, <3>1, UntouchedCopyKeepsInv DEF RevocationInv
  <2>3. QED
    BY <2>1, <2>2
<1>12. QED
  BY <1>6, <1>9, <1>10, <1>11 DEF RevocationInv

\* A token that is not in the copy was revoked too late for the call to know.
LEMMA LookUpKeepsInv ==
  ASSUME RevocationInv, NEW c \in Calls, LookUp(c)
  PROVE  RevocationInv'
<1> DEFINE w == call[c].worker
<1>1. /\ call[c] \in Call /\ At(c, "member") /\ Relies(c)
      /\ UNCHANGED <<clock, dbVars, workerVars>>
  BY CallType DEF LookUp, At, RevocationInv, CallInv, Labels, InCall
<1>2. CASE call[c].token \in copy[w]
  <2>1. call' = [call EXCEPT ![c] = Idle]
    BY <1>2 DEF LookUp
  <2>2. /\ call'[c] = Idle /\ call' \in [Calls -> {Idle} \union Call]
        /\ \A d \in Calls \ {c} : call'[d] = call[d]
    BY <2>1 DEF RevocationInv, TypeOK
  <2>3. TypeOK' /\ CallInv(c)'
    BY <1>1, <2>2 DEF RevocationInv, TypeOK, CallInv, At, Idle, dbVars, workerVars
  <2>4. QED
    BY <1>1, <2>2, <2>3, OthersAreUndisturbed, QuietSteps DEF RevocationInv, workerVars
<1>3. CASE call[c].token \notin copy[w]
  <2>1. call' = [call EXCEPT ![c].pc = "accepted"]
    BY <1>3 DEF LookUp, Goto
  <2>2. /\ call'[c] = [call[c] EXCEPT !.pc = "accepted"]
        /\ call'[c] \in Call /\ call' \in [Calls -> {Idle} \union Call]
        /\ \A d \in Calls \ {c} : call'[d] = call[d]
    BY <1>1, <2>1 DEF RevocationInv, TypeOK, Call, Answers
  <2>3. Bounded(c)
    <3>1. /\ call[c].checked \in Nat /\ call[c].took \in Nat /\ call[c].refresh.asked \in Nat
          /\ call[c].token \in Tokens /\ TTL \in Nat
      BY <1>1, RevocationAssumption DEF Call, Refresh
    <3>2. CASE call[c].token \in revoked /\ call[c].refresh.ok
      <4>1. revokedAt[call[c].token] >= call[c].refresh.asked
        BY <1>1, <1>3, <3>2 DEF Relies, LacksOnlyNew
      <4>2. revokedAt[call[c].token] \in Nat
        BY <3>1 DEF RevocationInv, TypeOK
      <4>3. QED
        BY <1>1, <3>1, <4>1, <4>2 DEF Relies, Bounded
    <3>3. CASE ~(call[c].token \in revoked /\ call[c].refresh.ok)
      BY <1>1, <3>3 DEF Relies, Bounded
    <3>4. QED
      BY <3>2, <3>3
  <2>4. /\ call'[c].pc = "accepted" /\ call'[c].token = call[c].token
        /\ call'[c].refresh = call[c].refresh /\ call'[c].checked = call[c].checked
        /\ call'[c].took = call[c].took
    BY <1>1, <2>2 DEF Call
  <2>5. Bounded(c)' /\ call'[c].checked <= clock'
    BY <1>1, <2>3, <2>4 DEF Bounded, Relies, dbVars
  <2>6. TypeOK' /\ CallInv(c)'
    BY <1>1, <2>2, <2>4, <2>5 DEF RevocationInv, TypeOK, CallInv, At, dbVars, workerVars
  <2>7. QED
    BY <1>1, <2>2, <2>6, OthersAreUndisturbed, QuietSteps DEF RevocationInv, workerVars
<1>4. QED
  BY <1>2, <1>3

LEMMA ReadRevokedKeepsInv ==
  ASSUME RevocationInv, NEW c \in Calls, ReadRevoked(c)
  PROVE  RevocationInv'
<1>1. /\ call[c] \in Call /\ UNCHANGED <<clock, dbVars, workerVars>>
  BY CallType DEF ReadRevoked, At, RevocationInv, Labels, InCall
<1>2. PICK next \in {Idle, [call[c] EXCEPT !.pc = "insert"]} : call' = [call EXCEPT ![c] = next]
  BY <1>1 DEF ReadRevoked, Goto, RevocationInv, TypeOK
<1>3. next \in {Idle} \union Call /\ next.pc \in {"idle", "insert"}
  BY <1>1, <1>2 DEF Call, InCall, Idle
<1>4. /\ call'[c] = next /\ call' \in [Calls -> {Idle} \union Call]
      /\ \A d \in Calls \ {c} : call'[d] = call[d]
  BY <1>2, <1>3 DEF RevocationInv, TypeOK
<1>5. TypeOK' /\ CallInv(c)'
  BY <1>1, <1>3, <1>4 DEF RevocationInv, TypeOK, CallInv, At, dbVars, workerVars
<1>6. QED
  BY <1>1, <1>4, <1>5, OthersAreUndisturbed, QuietSteps DEF RevocationInv, workerVars

\* What is revoked now is dated now, so nobody relied on its absence too long.
LEMMA InsertRevokedKeepsInv ==
  ASSUME RevocationInv, NEW c \in Calls, InsertRevoked(c)
  PROVE  RevocationInv'
<1> DEFINE t == call[c].token
<1>1. /\ call[c] \in Call /\ t \in Tokens /\ UNCHANGED <<clock, workerVars>>
      /\ clock \in Nat
  BY CallType DEF InsertRevoked, At, RevocationInv, TypeOK, Labels, InCall, Call
<1>2. PICK next \in {Idle, [call[c] EXCEPT !.pc = "add"]} :
        /\ call' = [call EXCEPT ![c] = next]
        /\ next # Idle => t \in revoked'
        /\ \/ /\ t \notin revoked /\ revoked' = revoked \union {t}
              /\ revokedAt' = [revokedAt EXCEPT ![t] = clock]
           \/ UNCHANGED dbVars
  BY <1>1 DEF InsertRevoked, Goto, RevocationInv, TypeOK
<1>3. next \in {Idle} \union Call /\ (next = Idle \/ (next.pc = "add" /\ next.token = t))
  BY <1>1, <1>2 DEF Call, InCall
<1>4. /\ call'[c] = next /\ call' \in [Calls -> {Idle} \union Call]
      /\ \A d \in Calls \ {c} : call'[d] = call[d]
  BY <1>2, <1>3 DEF RevocationInv, TypeOK
<1>5. Onward
  <2>1. CASE UNCHANGED dbVars
    BY <1>1, <2>1 DEF Onward, dbVars
  <2>2. CASE /\ t \notin revoked /\ revoked' = revoked \union {t}
             /\ revokedAt' = [revokedAt EXCEPT ![t] = clock]
    BY <1>1, <2>2 DEF Onward, RevocationInv, TypeOK
  <2>3. QED
    BY <1>2, <2>1, <2>2
<1>6. TypeOK'
  <2>1. revoked' \subseteq Tokens /\ revokedAt' \in [Tokens -> Nat]
    BY <1>1, <1>2 DEF RevocationInv, TypeOK, dbVars
  <2>2. copy' \in [Workers -> SUBSET revoked']
    BY <1>1, <1>5 DEF RevocationInv, TypeOK, Onward, workerVars
  <2>3. QED
    BY <1>1, <1>4, <2>1, <2>2 DEF RevocationInv, TypeOK, workerVars
<1>7. CallInv(c)'
  BY <1>2, <1>3, <1>4 DEF CallInv, At, Idle
<1>8. ASSUME NEW d \in Calls \ {c} PROVE CallInv(d)'
  <2>1. Undisturbed(d)
    BY <1>1, <1>4 DEF Undisturbed, workerVars
  <2>2. QED
    BY <1>5, <2>1, UndisturbedKeepsInv DEF RevocationInv
<1>9. ASSUME NEW v \in Workers PROVE CopyInv(v)'
  <2>1. fetchedAt'[v] = fetchedAt[v] /\ refresh'[v] = refresh[v] /\ copy[v] \subseteq copy'[v]
    BY <1>1 DEF workerVars
  <2>2. QED
    BY <1>5, <2>1, UntouchedCopyKeepsInv DEF RevocationInv
<1>10. QED
  BY <1>6, <1>7, <1>8, <1>9 DEF RevocationInv

\* With the lock free, nobody is between his query and his assignment.
LEMMA AddRevokedKeepsInv ==
  ASSUME RevocationInv, NEW c \in Calls, AddRevoked(c)
  PROVE  RevocationInv'
<1> DEFINE w == call[c].worker
<1>1. /\ call[c] \in Call /\ w \in Workers /\ call[c].token \in revoked /\ lock[w] = Free
      /\ UNCHANGED <<clock, dbVars, fetchedAt, lock, refresh>>
  BY CallType DEF AddRevoked, At, RevocationInv, CallInv, Labels, InCall, Call
<1>2. /\ copy' = [copy EXCEPT ![w] = @ \union {call[c].token}]
      /\ call' = [call EXCEPT ![c].pc = "revoked"]
  BY DEF AddRevoked, Goto
<1>3. /\ call'[c] \in Call /\ call'[c].pc = "revoked" /\ call'[c].worker = w
      /\ call'[c].token = call[c].token
      /\ call' \in [Calls -> {Idle} \union Call]
      /\ \A d \in Calls \ {c} : call'[d] = call[d]
  BY <1>1, <1>2 DEF RevocationInv, TypeOK, Call, Answers
<1>4. /\ \A v \in Workers : copy[v] \subseteq copy'[v] /\ (v # w => copy'[v] = copy[v])
      /\ call[c].token \in copy'[w] /\ copy' \in [Workers -> SUBSET revoked']
  BY <1>1, <1>2 DEF RevocationInv, TypeOK, dbVars
<1>5. TypeOK'
  BY <1>1, <1>3, <1>4 DEF RevocationInv, TypeOK, dbVars
<1>6. CallInv(c)'
  BY <1>3, <1>4 DEF CallInv, At
<1>7. Onward
  BY <1>1 DEF Onward, RevocationInv, TypeOK, dbVars
<1>8. ASSUME NEW d \in Calls \ {c} PROVE CallInv(d)'
  <2>1. ASSUME call[d].pc \in Labels
        PROVE  /\ copy[call[d].worker] \subseteq copy'[call[d].worker]
               /\ At(d, "query") \/ At(d, "install") =>
                    copy'[call[d].worker] = copy[call[d].worker]
    <3>1. call[d] \in Call /\ call[d].worker \in Workers
      BY <2>1, CallType DEF RevocationInv, Call
    <3>2. At(d, "query") \/ At(d, "install") => call[d].worker # w
      BY <1>1, FreeAssumption DEF RevocationInv, CallInv
    <3>3. QED
      BY <1>4, <3>1, <3>2
  <2>2. Undisturbed(d)
    BY <1>1, <1>3, <2>1 DEF Undisturbed
  <2>3. QED
    BY <1>7, <2>2, UndisturbedKeepsInv DEF RevocationInv
<1>9. ASSUME NEW v \in Workers PROVE CopyInv(v)'
  BY <1>1, <1>4, <1>7, UntouchedCopyKeepsInv DEF RevocationInv
<1>10. QED
  BY <1>5, <1>6, <1>8, <1>9 DEF RevocationInv

\* A worker that starts has an empty copy that no call takes for a fresh one.
LEMMA RestartKeepsInv ==
  ASSUME RevocationInv, NEW w \in Workers, Restart(w)
  PROVE  RevocationInv'
<1>1. /\ copy' = [copy EXCEPT ![w] = {}] /\ fetchedAt' = [fetchedAt EXCEPT ![w] = 0]
      /\ refresh' = [refresh EXCEPT ![w] = NoRefresh] /\ lock' = [lock EXCEPT ![w] = Free]
      /\ UNCHANGED <<clock, dbVars>>
  BY DEF Restart
<1>2. NoRefresh \in Refresh /\ NoRefresh.asked = 0 /\ ~NoRefresh.ok
  BY DEF NoRefresh, Refresh
<1>3. TypeOK'
  <2>1. call' \in [Calls -> {Idle} \union Call]
    BY DEF Restart, RevocationInv, TypeOK
  <2>2. QED
    BY <1>1, <1>2, <2>1 DEF RevocationInv, TypeOK, dbVars
<1>4. Onward
  BY <1>1 DEF Onward, RevocationInv, TypeOK, dbVars
<1>5. ASSUME NEW d \in Calls PROVE CallInv(d)'
  <2>1. CASE call'[d] = Idle
    BY <2>1 DEF CallInv, At, Idle
  <2>2. CASE call'[d] # Idle
    <3>1. call'[d] = call[d] /\ call[d].worker # w
      BY <2>2 DEF Restart
    <3>2. call[d].pc \in Labels => call[d].worker \in Workers
      BY CallType DEF RevocationInv, Call
    <3>3. Undisturbed(d)
      BY <1>1, <3>1, <3>2 DEF Undisturbed, RevocationInv, TypeOK
    <3>4. QED
      BY <1>4, <3>3, UndisturbedKeepsInv DEF RevocationInv
  <2>3. QED
    BY <2>1, <2>2
<1>6. ASSUME NEW v \in Workers PROVE CopyInv(v)'
  <2>1. CASE v = w
    <3>1. fetchedAt'[v] = 0 /\ refresh'[v] = NoRefresh
      BY <1>1, <2>1 DEF RevocationInv, TypeOK
    <3>2. QED
      BY <1>2, <1>3, <3>1 DEF CopyInv, LacksOnlyNew, TypeOK
  <2>2. CASE v # w
    <3>1. fetchedAt'[v] = fetchedAt[v] /\ refresh'[v] = refresh[v] /\ copy[v] \subseteq copy'[v]
      BY <1>1, <2>2 DEF RevocationInv, TypeOK
    <3>2. QED
      BY <1>4, <3>1, UntouchedCopyKeepsInv DEF RevocationInv
  <2>3. QED
    BY <2>1, <2>2
<1>7. QED
  BY <1>3, <1>5, <1>6 DEF RevocationInv

\* Time may pass at any moment of any call.
LEMMA TickKeepsInv ==
  ASSUME RevocationInv, Tick
  PROVE  RevocationInv'
<1>1. clock' = clock + 1 /\ UNCHANGED <<dbVars, workerVars, call>> /\ clock \in Nat \ {0}
  BY DEF Tick, RevocationInv, TypeOK
<1>2. Onward
  BY <1>1 DEF Onward, dbVars
<1>3. TypeOK'
  BY <1>1 DEF RevocationInv, TypeOK, dbVars, workerVars
<1>4. \A d \in Calls : Undisturbed(d)
  BY <1>1 DEF Undisturbed, workerVars
<1>5. \A d \in Calls : CallInv(d)'
  BY <1>2, <1>4, UndisturbedKeepsInv DEF RevocationInv
<1>6. ASSUME NEW v \in Workers PROVE CopyInv(v)'
  <2>1. fetchedAt'[v] = fetchedAt[v] /\ refresh'[v] = refresh[v] /\ copy[v] \subseteq copy'[v]
    BY <1>1 DEF workerVars
  <2>2. QED
    BY <1>2, <2>1, UntouchedCopyKeepsInv DEF RevocationInv
<1>7. QED
  BY <1>3, <1>5, <1>6 DEF RevocationInv

\* No step of a call, of a worker or of the clock leaves the invariant.
THEOREM RevocationInvariance == Spec => []RevocationInv
<1>1. RevocationInv /\ [Next]_vars => RevocationInv'
  <2> SUFFICES ASSUME RevocationInv, [Next]_vars PROVE RevocationInv'
    OBVIOUS
  <2>1. ASSUME NEW c \in Calls, NEW w \in Workers, NEW t \in Tokens,
               Verify(c, w, t) \/ Revoke(c, w, t)
        PROVE  RevocationInv'
    BY <2>1, BeginKeepsInv
  <2>2. ASSUME NEW c \in Calls, Step(c) PROVE RevocationInv'
    BY <2>2, CheckAgeKeepsInv, TakeLockKeepsInv, QueryKeepsInv, InstallKeepsInv,
       LookUpKeepsInv, ReadRevokedKeepsInv, InsertRevokedKeepsInv, AddRevokedKeepsInv DEF Step
  <2>3. ASSUME NEW w \in Workers, Restart(w) PROVE RevocationInv'
    BY <2>3, RestartKeepsInv
  <2>4. CASE Tick
    BY <2>4, TickKeepsInv
  <2>5. CASE UNCHANGED vars
    BY <2>5 DEF vars, dbVars, workerVars, RevocationInv, TypeOK, CallInv, CopyInv, At,
                LacksOnlyNew, Relies, Bounded
  <2>6. QED
    BY <2>1, <2>2, <2>3, <2>4, <2>5 DEF Next
<1>2. QED
  BY <1>1, RevocationInitially, PTL DEF Spec

\* A worker's copy holds nothing but revoked tokens, and every variable has its type.
THEOREM RevocationTyped == Spec => []TypeOK
<1>1. RevocationInv => TypeOK
  BY DEF RevocationInv
<1>2. QED
  BY <1>1, RevocationInvariance, PTL

\* A revoked token passes is_revoked only where the copy's age was looked at within a TTL
\* and the time its refresh took after the commit, or where that refresh had failed;
\* time may pass at every step of every call.
THEOREM StalenessIsBounded == Spec => []BoundedStaleness
<1>1. RevocationInv => BoundedStaleness
  BY DEF RevocationInv, CallInv, Bounded, BoundedStaleness
<1>2. QED
  BY <1>1, RevocationInvariance, PTL

\* After revoke_token answered, add_revoked has left its worker rejecting the token.
THEOREM OwnWorkerRejects == Spec => []RevokedHereRejectsHere
<1>1. RevocationInv => RevokedHereRejectsHere
  BY DEF RevocationInv, CallInv, RevokedHereRejectsHere
<1>2. QED
  BY <1>1, RevocationInvariance, PTL

\* A refresh never takes a token out of the copy of a worker that lives on.
THEOREM CopiesOnlyGrow == Spec => CopyNeverForgets
<1>1. RevocationInv /\ [Next]_vars
        => [\A w \in Workers : copy[w] \subseteq copy'[w] \/ Restart(w)]_vars
  <2> SUFFICES ASSUME RevocationInv, Next, NEW w \in Workers
               PROVE  copy[w] \subseteq copy'[w] \/ Restart(w)
    OBVIOUS
  <2>1. ASSUME NEW c \in Calls, Install(c) PROVE copy[w] \subseteq copy'[w]
    BY <2>1 DEF Install, At, RevocationInv, CallInv, TypeOK
  <2>2. ASSUME NEW c \in Calls, AddRevoked(c) PROVE copy[w] \subseteq copy'[w]
    BY <2>2 DEF AddRevoked, RevocationInv, TypeOK
  <2>3. ASSUME NEW c \in Calls, Step(c), ~Install(c), ~AddRevoked(c) PROVE copy' = copy
    BY <2>3 DEF Step, CheckAge, TakeLock, Query, LookUp, ReadRevoked, InsertRevoked, workerVars
  <2>4. ASSUME NEW v \in Workers, Restart(v) PROVE copy[w] \subseteq copy'[w] \/ Restart(w)
    BY <2>4 DEF Restart, RevocationInv, TypeOK
  <2>5. ASSUME NEW c \in Calls, NEW v \in Workers, NEW t \in Tokens,
               Verify(c, v, t) \/ Revoke(c, v, t)
        PROVE  copy' = copy
    BY <2>5 DEF Verify, Revoke, Begin, workerVars
  <2>6. Tick => copy' = copy
    BY DEF Tick, workerVars
  <2>7. QED
    BY <2>1, <2>2, <2>3, <2>4, <2>5, <2>6 DEF Next
<1>2. QED
  BY <1>1, RevocationInvariance, PTL DEF Spec, CopyNeverForgets

----------------------------------------------------------------------------
(* The lock of a copy *)

\* A lock is held by a refresh of that worker alone, between its query and its
\* assignment: no other call, none that has ended and none of a dead worker has it.
\* With CallInv, two refreshes of one worker never overlap.
LocksInUse ==
    /\ \A w \in Workers : lock[w] # Free =>
         /\ At(lock[w], "query") \/ At(lock[w], "install")
         /\ call[lock[w]].worker = w
    /\ \A c, d \in Calls :
         (At(c, "query") \/ At(c, "install")) /\ (At(d, "query") \/ At(d, "install"))
           /\ call[c].worker = call[d].worker => c = d

Held(w) ==
    lock[w] # Free => /\ lock[w] \in Calls
                      /\ At(lock[w], "query") \/ At(lock[w], "install")
                      /\ call[lock[w]].worker = w

\* Whoever holds no lock may go wherever he likes; the holder goes on to install.
LEMMA StepKeepsHeld ==
  ASSUME RevocationInv, NEW w \in Workers, Held(w), NEW c \in Calls, Step(c)
  PROVE  Held(w)'
<1>1. CASE TakeLock(c)
  <2>1. call[c] \in Call
    BY <1>1, CallType DEF TakeLock, At, Labels, InCall, RevocationInv
  <2>2. CASE Fresh(call[c].worker)
    <3>1. lock[w]' = lock[w]
      BY <1>1, <2>1, <2>2 DEF TakeLock, RevocationInv, TypeOK, Call
    <3>2. lock[w] # Free => lock[w] # c
      BY <1>1, FreeAssumption DEF TakeLock, Held, At
    <3>3. QED
      BY <1>1, <3>1, <3>2 DEF TakeLock, Goto, Held, At, RevocationInv, TypeOK
  <2>3. CASE ~Fresh(call[c].worker)
    <3>1. /\ lock' = [lock EXCEPT ![call[c].worker] = c]
          /\ call' = [call EXCEPT ![c].pc = "query"]
      BY <1>1, <2>3 DEF TakeLock, Goto
    <3>2. call'[c].pc = "query" /\ call'[c].worker = call[c].worker
      BY <2>1, <3>1 DEF RevocationInv, TypeOK, Call
    <3>3. CASE w = call[c].worker
      BY <3>1, <3>2, <3>3 DEF Held, At, RevocationInv, TypeOK
    <3>4. CASE w # call[c].worker
      <4>1. lock'[w] = lock[w] /\ (lock[w] # Free => lock[w] # c)
        BY <1>1, <3>1, <3>4 DEF Held, At, TakeLock, RevocationInv, TypeOK
      <4>2. QED
        BY <3>1, <4>1 DEF Held, At, RevocationInv, TypeOK
    <3>5. QED
      BY <3>3, <3>4
  <2>4. QED
    BY <2>2, <2>3
<1>2. CASE Query(c)
  <2>1. call[c] \in Call /\ lock' = lock
    BY <1>2, CallType DEF Query, At, Labels, InCall, RevocationInv, workerVars
  <2>2. call'[c].pc = "install" /\ call'[c].worker = call[c].worker
    BY <1>2, <2>1 DEF Query, RevocationInv, TypeOK, Call
  <2>3. \A d \in Calls : d # c => call'[d] = call[d]
    BY <1>2 DEF Query, RevocationInv, TypeOK
  <2>4. QED
    BY <2>1, <2>2, <2>3 DEF Held, At
<1>3. CASE Install(c)
  <2>1. call[c] \in Call /\ lock[call[c].worker] = c
    BY <1>3, CallType DEF Install, At, Labels, InCall, RevocationInv, CallInv
  <2>2. lock' = [lock EXCEPT ![call[c].worker] = Free]
    BY <1>3 DEF Install, Released
  <2>3. \A d \in Calls : d # c => call'[d] = call[d]
    BY <1>3 DEF Install, RevocationInv, TypeOK
  <2>4. CASE w = call[c].worker
    BY <2>1, <2>2, <2>4 DEF Held, RevocationInv, TypeOK
  <2>5. CASE w # call[c].worker
    <3>1. lock'[w] = lock[w] /\ lock[w] # c
      BY <2>1, <2>2, <2>5, FreeAssumption DEF Held, RevocationInv, TypeOK
    <3>2. QED
      BY <2>3, <3>1 DEF Held, At
  <2>6. QED
    BY <2>4, <2>5
<1>4. CASE \/ CheckAge(c) \/ LookUp(c) \/ ReadRevoked(c) \/ InsertRevoked(c) \/ AddRevoked(c)
  <2>1. lock' = lock /\ ~At(c, "query") /\ ~At(c, "install")
    BY <1>4 DEF CheckAge, LookUp, ReadRevoked, InsertRevoked, AddRevoked, At, workerVars
  <2>2. \A d \in Calls : d # c => call'[d] = call[d]
    BY <1>4 DEF CheckAge, LookUp, ReadRevoked, InsertRevoked, AddRevoked, Goto,
                RevocationInv, TypeOK
  <2>3. QED
    BY <2>1, <2>2 DEF Held, At
<1>5. QED
  BY <1>1, <1>2, <1>3, <1>4 DEF Step

\* A call's lock goes with it, whatever it ends by: answered, with its query failed or
\* with its worker dead, it leaves no lock behind that later calls would wait for.
THEOREM LocksAreNeverLeft == Spec => []LocksInUse
<1> DEFINE AllHeld == \A w \in Workers : Held(w)
<1>1. Init => AllHeld
  BY DEF Init, Held
<1>2. RevocationInv /\ AllHeld /\ [Next]_vars => AllHeld'
  <2> SUFFICES ASSUME RevocationInv, AllHeld, [Next]_vars, NEW w \in Workers
               PROVE  Held(w)'
    OBVIOUS
  <2>1. ASSUME NEW c \in Calls, Step(c) PROVE Held(w)'
    BY <2>1, StepKeepsHeld
  <2>2. ASSUME NEW c \in Calls, NEW v \in Workers, NEW t \in Tokens,
               Verify(c, v, t) \/ Revoke(c, v, t)
        PROVE  Held(w)'
    <3>1. lock' = lock /\ ~At(c, "query") /\ ~At(c, "install")
      BY <2>2 DEF Verify, Revoke, Begin, AtRest, At, Answers, workerVars
    <3>2. \A d \in Calls : d # c => call'[d] = call[d]
      BY <2>2 DEF Verify, Revoke, Begin, RevocationInv, TypeOK
    <3>3. QED
      BY <3>1, <3>2 DEF Held, At
  <2>3. ASSUME NEW v \in Workers, Restart(v) PROVE Held(w)'
    <3>1. CASE w = v
      BY <2>3, <3>1 DEF Restart, Held, RevocationInv, TypeOK
    <3>2. CASE w # v
      <4>1. lock'[w] = lock[w]
        BY <2>3, <3>2 DEF Restart, RevocationInv, TypeOK
      <4>2. lock[w] # Free => call'[lock[w]] = call[lock[w]]
        BY <2>3, <3>2 DEF Restart, Held
      <4>3. QED
        BY <4>1, <4>2 DEF Held, At
    <3>3. QED
      BY <3>1, <3>2
  <2>4. CASE Tick \/ UNCHANGED vars
    BY <2>4 DEF Tick, vars, workerVars, Held, At
  <2>5. QED
    BY <2>1, <2>2, <2>3, <2>4 DEF Next
<1>3. RevocationInv /\ AllHeld => LocksInUse
  BY DEF RevocationInv, CallInv, LocksInUse, Held
<1>4. QED
  BY <1>1, <1>2, <1>3, RevocationInvariance, PTL DEF Spec

=============================================================================
