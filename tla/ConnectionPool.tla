---------------------------- MODULE ConnectionPool ----------------------------
(****************************************************************************)
(* The connection pool of one worker process (db.py) and the calls that     *)
(* share it.  A session takes a connection at its first statement, gives it *)
(* back at its commit, and takes one again at the next statement; get_db    *)
(* closes the session, and whatever it holds, when the request ends.  With  *)
(* all connections out a statement waits pool_timeout seconds and then      *)
(* fails, which is a 500.                                                   *)
(*                                                                          *)
(* What a handler does is here a list of operations, in the order of its    *)
(* code:                                                                    *)
(*   "age" "lock" "connect" "install"                                       *)
(*                           a revocation check, auth/revocation.py         *)
(*   "query"                 statements of the request's session            *)
(*   "commit"                its commit                                     *)
(*   "mail" "broker"         delivery of an approval, the broker's call     *)
(*   "poll"                  poll_for_decision, services/approvals.py       *)
(*   "add"                   add_revoked                                    *)
(* A tick of the copy's age and the verdict of a human come at any moment.  *)
(****************************************************************************)
EXTENDS Integers, Sequences, FiniteSets

CONSTANTS
    Calls,      \* requests in progress, each in a thread of its own
    Kinds,      \* the kinds of request that arrive
    PoolSize,   \* db_pool_size + db_max_overflow
    Free        \* the lock is nobody's

ASSUME ConnectionPoolAssumption ==
    /\ Kinds \subseteq {"auto", "human", "admin", "tap", "revoke"}
    /\ PoolSize \in Nat \ {0}
    /\ Free \notin Calls

VARIABLES
    call,   \* call[c]: the request's kind, its place, whether it has a connection
    lock,   \* the call that holds _C.lock of the revocation copy, or Free
    fresh   \* the copy is younger than its TTL

poolVars == <<call, lock, fresh>>

Verify == <<"age", "lock", "connect", "install">>

\* Slips: the verdict's session is shared with the check; the connection is
\* given back before the broker is called; add_revoked before the commit.
AutoCommitted == Verify \o <<"query", "commit", "query", "commit", "broker", "query", "commit">>
RevokeAddFirst == Verify \o <<"query", "add", "commit">>

\* A dispatch approved by policy: entry and audit row; db.refresh(row) after
\* the commit takes a connection, and the broker is called with it in hand.
AutoProgram == Verify \o <<"query", "commit", "query", "broker", "commit">>

\* A dispatch that asks: after the audit row the approval, its refresh, the
\* delivery with that connection, the delivery log, the link from the audit
\* row; the poll; the verdict, the broker without a connection, the result.
HumanProgram ==
    Verify \o <<"query", "commit", "query", "commit", "query", "mail", "commit",
                "query", "commit", "poll", "commit", "broker", "query", "commit">>

\* A decide call, and the pending list with rows to sweep: the refresh, or the
\* second query, follows the commit.
AdminProgram == Verify \o <<"query", "commit", "query">>

\* A tap: its token is no JWT and is not looked up.
TapProgram == <<"query", "commit", "query">>

RevokeProgram == Verify \o <<"query", "commit", "add">>

Program(kind) ==
    CASE kind = "auto"   -> AutoProgram
      [] kind = "human"  -> HumanProgram
      [] kind = "admin"  -> AdminProgram
      [] kind = "tap"    -> TapProgram
      [] kind = "revoke" -> RevokeProgram

Idle == [at |-> "idle", kind |-> "none", pc |-> 1, conn |-> FALSE, ran |-> FALSE]

Init ==
    /\ call = [c \in Calls |-> Idle]
    /\ lock = Free
    /\ fresh = FALSE

----------------------------------------------------------------------------

Running(c) == call[c].at = "running"
Op(c) == Program(call[c].kind)[call[c].pc]
Doing(c, op) == Running(c) /\ call[c].pc <= Len(Program(call[c].kind)) /\ Op(c) = op

Held == {c \in Calls : call[c].conn}

\* A connection is in hand or in the pool.
CanConnect(c) == call[c].conn \/ Cardinality(Held) < PoolSize

Continue(c, steps) == call' = [call EXCEPT ![c].pc = @ + steps]
\* The end of a request, answered or not: get_db closes the session.
Answer(c) == call' = [call EXCEPT ![c] = Idle]
Fail(c) == call' = [call EXCEPT ![c].at = "refused", ![c].pc = 1, ![c].conn = FALSE]

Start(c) ==
    /\ ~Running(c)
    /\ \E kind \in Kinds :
         call' = [call EXCEPT ![c] = [Idle EXCEPT !.at = "running", !.kind = kind]]
    /\ UNCHANGED <<lock, fresh>>

----------------------------------------------------------------------------
(* The revocation check: _maybe_refresh *)

CheckAge(c) ==
    /\ Doing(c, "age")
    /\ Continue(c, IF fresh THEN 4 ELSE 1)
    /\ UNCHANGED <<lock, fresh>>

\* The age is looked at again under the lock.
TakeLock(c) ==
    /\ Doing(c, "lock")
    /\ lock = Free
    /\ lock' = IF fresh THEN Free ELSE c
    /\ Continue(c, IF fresh THEN 3 ELSE 1)
    /\ UNCHANGED fresh

\* The refresh opens a connection of its own, with the lock in hand.
Connect(c) ==
    /\ Doing(c, "connect")
    /\ CanConnect(c)
    /\ call' = [call EXCEPT ![c].pc = @ + 1, ![c].conn = TRUE]
    /\ UNCHANGED <<lock, fresh>>

Install(c) ==
    /\ Doing(c, "install")
    /\ call' = [call EXCEPT ![c].pc = @ + 1, ![c].conn = FALSE]
    /\ lock' = Free
    /\ fresh' = TRUE

\* Slip: the exception leaves the check with the lock held.
RefreshRaises(c) ==
    /\ Doing(c, "connect")
    /\ ~CanConnect(c)
    /\ Fail(c)
    /\ UNCHANGED <<lock, fresh>>

\* pool_timeout has passed: a failed refresh is swallowed, stamped like any
\* other, and gives back the lock.
RefreshFails(c) ==
    /\ Doing(c, "connect")
    /\ ~CanConnect(c)
    /\ Continue(c, 2)
    /\ lock' = Free
    /\ fresh' = TRUE

\* The TTL (300 s) is long beside pool_timeout (30 s): it does not run out twice
\* while one call is inside the check or waits for the lock.
Expire ==
    /\ fresh
    /\ \A c \in Calls, op \in {"lock", "connect", "install", "add"} : ~Doing(c, op)
    /\ fresh' = FALSE
    /\ UNCHANGED <<call, lock>>

----------------------------------------------------------------------------
(* The request's session *)

Query(c) ==
    /\ Doing(c, "query")
    /\ CanConnect(c)
    /\ call' = [call EXCEPT ![c].pc = @ + 1, ![c].conn = TRUE]
    /\ UNCHANGED <<lock, fresh>>

Commit(c) ==
    /\ Doing(c, "commit")
    /\ call' = [call EXCEPT ![c].pc = @ + 1, ![c].conn = FALSE]
    /\ UNCHANGED <<lock, fresh>>

\* Mail and the broker answer, fail, or run into their timeouts.
Deliver(c) ==
    /\ Doing(c, "mail")
    /\ Continue(c, 1)
    /\ UNCHANGED <<lock, fresh>>

CallBroker(c) ==
    /\ Doing(c, "broker")
    /\ call' = [call EXCEPT ![c].pc = @ + 1, ![c].ran = TRUE]
    /\ UNCHANGED <<lock, fresh>>

\* A read of the approval after a sleep (the read before it is served from the session,
\* without a connection): the connection stays with the session through the sleeps, and
\* an approval goes on to the verdict's commit.
PollRead(c) ==
    /\ Doing(c, "poll")
    /\ CanConnect(c)
    /\ \E approved \in BOOLEAN :
         call' = [call EXCEPT ![c].conn = TRUE, ![c].pc = IF approved THEN @ + 1 ELSE @]
    /\ UNCHANGED <<lock, fresh>>

\* A denial or the deadline, which with a block_until_seconds of zero is there before
\* any read: nothing is executed.
PollEnds(c) ==
    /\ Doing(c, "poll")
    /\ Answer(c)
    /\ UNCHANGED <<lock, fresh>>

AddRevoked(c) ==
    /\ Doing(c, "add")
    /\ lock = Free
    /\ Continue(c, 1)
    /\ UNCHANGED <<lock, fresh>>

\* pool_timeout has passed: QueuePool raises, the caller gets a 500.
Refuse(c) ==
    /\ Doing(c, "query") \/ Doing(c, "poll")
    /\ ~CanConnect(c)
    /\ Fail(c)
    /\ UNCHANGED <<lock, fresh>>

End(c) ==
    /\ Running(c)
    /\ call[c].pc > Len(Program(call[c].kind))
    /\ Answer(c)
    /\ UNCHANGED <<lock, fresh>>

Step(c) ==
    \/ CheckAge(c) \/ TakeLock(c) \/ Connect(c) \/ Install(c) \/ RefreshFails(c)
    \/ Query(c) \/ Commit(c) \/ Deliver(c) \/ CallBroker(c)
    \/ PollRead(c) \/ PollEnds(c) \/ AddRevoked(c) \/ Refuse(c) \/ End(c)

Next == Expire \/ \E c \in Calls : Start(c) \/ Step(c)

Spec == Init /\ [][Next]_poolVars

\* Threads run, and mail, broker, poll and pool all have timeouts.  Nothing is
\* assumed of which waiter gets a connection or the lock.
FairSpec == Spec /\ \A c \in Calls : WF_poolVars(Step(c))

----------------------------------------------------------------------------
(* Properties *)

\* Nobody waits with a connection in hand, be it for a second connection or for
\* the lock of the revocation copy: the lock's holder waits for a connection,
\* so whoever waited for the lock with one would close a circle.
NoHoldAndWait ==
    \A c \in Held : \A op \in {"lock", "connect", "add"} : ~Doing(c, op)

\* An execution whose dispatch was approved by policy is never left without its
\* result for want of a connection: the one taken by db.refresh(row) is still
\* held when the broker answers.  After a human's approval it is not: the
\* verdict's commit gave it back.
ResultLostOnlyAfterVerdict ==
    \A c \in Calls : call[c].at = "refused" /\ call[c].ran => call[c].kind = "human"

\* Whatever polls, mails and broker calls hold, and whoever waits for the lock
\* behind a refresh that waits for a connection, every request is answered: polls
\* may take the whole pool, and the decide calls they wait for are then refused.
CallsEnd == \A c \in Calls : Running(c) ~> ~Running(c)

=============================================================================
