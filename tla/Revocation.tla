------------------------------ MODULE Revocation ------------------------------
(****************************************************************************)
(* Token revocation: the table sol.revoked_tokens, the copy of it that each *)
(* worker process keeps (auth/revocation.py), the verification of a token   *)
(* that consults the copy, and POST /tokens/{jti}/revoke (api/tokens.py).   *)
(*                                                                          *)
(* A call runs in a thread of one worker.  The refresh of the copy queries  *)
(* and assigns under the worker's lock, and the revoke call takes the lock  *)
(* to add its token; looking at the copy's age and at its members takes no  *)
(* lock.  Any query may fail, the database being away or the worker's pool  *)
(* empty, and any step may take its time, for no timeout is set (db.py).  A *)
(* worker may die.                                                          *)
(****************************************************************************)
EXTENDS Integers

CONSTANTS
    Workers,    \* worker processes
    Tokens,     \* ids (jti) of issued tokens
    Calls,      \* concurrent calls
    TTL,        \* revoked_token_cache_ttl_seconds, in ticks
    MaxTime     \* bound on the clock, for model checking

ASSUME RevocationAssumption == TTL \in Nat \ {0} /\ MaxTime \in Nat

VARIABLES
    clock,      \* time; it starts after 0, the copy's "never fetched"
    revoked,    \* sol.revoked_tokens
    revokedAt,  \* history: when t was committed there
    copy,       \* copy[w]: _C.jtis of worker w
    fetchedAt,  \* fetchedAt[w]: _C.fetched_at
    lock,       \* lock[w]: the call that holds _C.lock, or Free
    refresh,    \* refresh[w], history: when the query ran that fetchedAt stands for,
                \* and whether it succeeded
    call        \* call[c]: a request in progress

dbVars == <<revoked, revokedAt>>
workerVars == <<copy, fetchedAt, lock, refresh>>
vars == <<clock, dbVars, workerVars, call>>

CONSTANT Free
ASSUME FreeAssumption == Free \notin Calls

\* A rejected token and a failed or repeated revocation leave nothing behind.
Idle == [pc |-> "idle"]
Answers == {"accepted", "revoked"}
AtRest(c) == call[c].pc \in {"idle"} \union Answers

At(c, label) == call[c].pc = label
Goto(c, label) == call' = [call EXCEPT ![c].pc = label]

\* Slip: off by one.
FreshAtTTL(w) == fetchedAt[w] > 0 /\ clock - fetchedAt[w] <= TTL

Fresh(w) == fetchedAt[w] > 0 /\ clock - fetchedAt[w] < TTL

NoRefresh == [asked |-> 0, ok |-> FALSE]

\* rows, refresh: what its own query found, and when.  checked, took: when it took the
\* copy for fresh, and how long the refresh behind the copy had taken by its stamp.
Begin(c, w, t, label) ==
    /\ AtRest(c)
    /\ call' = [call EXCEPT ![c] = [pc |-> label, worker |-> w, token |-> t, rows |-> {},
                                    refresh |-> NoRefresh, checked |-> 0, took |-> 0]]
    /\ UNCHANGED <<clock, dbVars, workerVars>>

----------------------------------------------------------------------------
(* Verification: is_revoked *)

Verify(c, w, t) == Begin(c, w, t, "age")

\* The call relies on what is in the copy, however late it comes to look.
Relying(c, w) ==
    [call[c] EXCEPT !.pc = "member", !.refresh = refresh[w], !.checked = clock,
                    !.took = fetchedAt[w] - refresh[w].asked]

CheckAge(c) ==
    LET w == call[c].worker
    IN  /\ At(c, "age")
        /\ call' = [call EXCEPT ![c] = IF Fresh(w) THEN Relying(c, w)
                                       ELSE [@ EXCEPT !.pc = "lock"]]
        /\ UNCHANGED <<clock, dbVars, workerVars>>

\* The age is looked at again under the lock.
TakeLock(c) ==
    LET w == call[c].worker
    IN  /\ At(c, "lock")
        /\ lock[w] = Free
        /\ lock' = [lock EXCEPT ![w] = IF Fresh(w) THEN Free ELSE c]
        /\ call' = [call EXCEPT ![c] = IF Fresh(w) THEN Relying(c, w)
                                       ELSE [@ EXCEPT !.pc = "query"]]
        /\ UNCHANGED <<clock, dbVars, copy, fetchedAt, refresh>>

Query(c) ==
    /\ At(c, "query")
    /\ \E ok \in BOOLEAN :
         call' = [call EXCEPT ![c].pc = "install",
                              ![c].rows = IF ok THEN revoked ELSE {},
                              ![c].refresh = [asked |-> clock, ok |-> ok]]
    /\ UNCHANGED <<clock, dbVars, workerVars>>

\* Slip: the lock is kept when the query failed.
HeldAfter(c) == IF call[c].refresh.ok THEN Free ELSE c

Released(c) == Free

\* A failed query keeps the copy and still stamps it, when it has failed.
Install(c) ==
    LET w == call[c].worker
        own == call[c].refresh
    IN  /\ At(c, "install")
        /\ copy' = [copy EXCEPT ![w] = IF own.ok THEN call[c].rows ELSE @]
        /\ fetchedAt' = [fetchedAt EXCEPT ![w] = clock]
        /\ refresh' = [refresh EXCEPT ![w] = own]
        /\ lock' = [lock EXCEPT ![w] = Released(c)]
        /\ call' = [call EXCEPT ![c].pc = "member", ![c].rows = {},
                                ![c].checked = clock, ![c].took = clock - own.asked]
        /\ UNCHANGED <<clock, dbVars>>

LookUp(c) ==
    /\ At(c, "member")
    /\ IF call[c].token \in copy[call[c].worker]
       THEN call' = [call EXCEPT ![c] = Idle]
       ELSE Goto(c, "accepted")
    /\ UNCHANGED <<clock, dbVars, workerVars>>

----------------------------------------------------------------------------
(* Revocation: revoke_token, add_revoked *)

Revoke(c, w, t) == Begin(c, w, t, "read")

\* Who finds the row is answered "already_revoked"; an error of the database is a 500.
ReadRevoked(c) ==
    /\ At(c, "read")
    /\ \/ call[c].token \notin revoked /\ Goto(c, "insert")
       \/ call' = [call EXCEPT ![c] = Idle]
    /\ UNCHANGED <<clock, dbVars, workerVars>>

\* Slip: a failed commit is not noticed.
InsertUnchecked(c) ==
    /\ At(c, "insert")
    /\ Goto(c, "add")
    /\ UNCHANGED <<clock, dbVars, workerVars>>

\* The jti is the primary key: of two calls that found no row, one fails.  A commit
\* fails, or is done and reported, or is done and its report lost.
InsertRevoked(c) ==
    LET t == call[c].token
    IN  /\ At(c, "insert")
        /\ \/ /\ t \notin revoked
              /\ revoked' = revoked \union {t}
              /\ revokedAt' = [revokedAt EXCEPT ![t] = clock]
              /\ Goto(c, "add") \/ call' = [call EXCEPT ![c] = Idle]
           \/ /\ call' = [call EXCEPT ![c] = Idle]
              /\ UNCHANGED dbVars
        /\ UNCHANGED <<clock, workerVars>>

\* Slips: the copy is left to the next refresh; the lock is not taken.
AddNothing(c) ==
    /\ At(c, "add")
    /\ Goto(c, "revoked")
    /\ UNCHANGED <<clock, dbVars, workerVars>>
AddUnlocked(c) ==
    /\ At(c, "add")
    /\ copy' = [copy EXCEPT ![call[c].worker] = @ \union {call[c].token}]
    /\ Goto(c, "revoked")
    /\ UNCHANGED <<clock, dbVars, fetchedAt, lock, refresh>>

AddRevoked(c) ==
    LET w == call[c].worker
    IN  /\ At(c, "add")
        /\ lock[w] = Free
        /\ copy' = [copy EXCEPT ![w] = @ \union {call[c].token}]
        /\ Goto(c, "revoked")
        /\ UNCHANGED <<clock, dbVars, fetchedAt, lock, refresh>>

----------------------------------------------------------------------------
(* The environment *)

\* A worker dies and is started again, its calls with it.
Restart(w) ==
    /\ copy' = [copy EXCEPT ![w] = {}]
    /\ fetchedAt' = [fetchedAt EXCEPT ![w] = 0]
    /\ refresh' = [refresh EXCEPT ![w] = NoRefresh]
    /\ lock' = [lock EXCEPT ![w] = Free]
    /\ call' = [c \in Calls |-> IF call[c] # Idle /\ call[c].worker = w THEN Idle ELSE call[c]]
    /\ UNCHANGED <<clock, dbVars>>

\* Time passes whatever is under way.
Tick ==
    /\ clock < MaxTime
    /\ clock' = clock + 1
    /\ UNCHANGED <<dbVars, workerVars, call>>

Init ==
    /\ clock = 1
    /\ revoked = {}
    /\ revokedAt = [t \in Tokens |-> 0]
    /\ copy = [w \in Workers |-> {}]
    /\ fetchedAt = [w \in Workers |-> 0]
    /\ refresh = [w \in Workers |-> NoRefresh]
    /\ lock = [w \in Workers |-> Free]
    /\ call = [c \in Calls |-> Idle]

Step(c) ==
    \/ CheckAge(c) \/ TakeLock(c) \/ Query(c) \/ Install(c) \/ LookUp(c)
    \/ ReadRevoked(c) \/ InsertRevoked(c) \/ AddRevoked(c)

Next ==
    \/ \E c \in Calls, w \in Workers, t \in Tokens : Verify(c, w, t) \/ Revoke(c, w, t)
    \/ \E c \in Calls : Step(c)
    \/ \E w \in Workers : Restart(w)
    \/ Tick

Spec == Init /\ [][Next]_vars

\* A thread that can run is run; nothing is assumed of who gets a lock next.
FairSpec == Spec /\ \A c \in Calls : WF_vars(Step(c))

----------------------------------------------------------------------------
(* Properties *)

InCall == {"age", "lock", "query", "install", "member", "read", "insert", "add"}
Refresh == [asked : Nat, ok : BOOLEAN]
Call == [pc : InCall \union Answers, worker : Workers, token : Tokens,
         rows : SUBSET Tokens, refresh : Refresh, checked : Nat, took : Nat]

\* Every variable holds a value of its type; a worker only rejects what is revoked in
\* the database, whatever became of the INSERT of the call that revoked it.
TypeOK ==
    /\ clock \in Nat \ {0}
    /\ revoked \subseteq Tokens
    /\ revokedAt \in [Tokens -> Nat]
    /\ copy \in [Workers -> SUBSET revoked]
    /\ fetchedAt \in [Workers -> Nat]
    /\ refresh \in [Workers -> Refresh]
    /\ lock \in [Workers -> Calls \union {Free}]
    /\ call \in [Calls -> {Idle} \union Call]

\* A worker never forgets a revocation while it lives: a refresh whose query ran
\* before a revoke committed cannot take back what the revoke call added.
CopyNeverForgets ==
    [][\A w \in Workers : copy[w] \subseteq copy'[w] \/ Restart(w)]_vars

\* Staleness is bounded: who looked at the copy's age (and so arrived) a TTL and the time
\* its refresh took after the revocation of his token was committed is rejected, however
\* long query, lock and look-up took, unless that refresh failed; and one that failed is
\* relied on no longer than one that succeeded.
BoundedStaleness ==
    \A c \in Calls :
      At(c, "accepted") /\ call[c].token \in revoked =>
        \/ call[c].checked - revokedAt[call[c].token] < TTL + call[c].took
        \/ /\ ~call[c].refresh.ok
           /\ call[c].checked - call[c].refresh.asked < TTL + call[c].took

\* The call that revoked a token leaves its own worker rejecting it at once.
RevokedHereRejectsHere ==
    \A c \in Calls : At(c, "revoked") => call[c].token \in copy[call[c].worker]

\* Every call is answered, the lock of a worker is never held for ever.
CallsEnd == \A c \in Calls : ~AtRest(c) ~> AtRest(c)

=============================================================================
