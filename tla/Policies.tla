------------------------------- MODULE Policies -------------------------------
(****************************************************************************)
(* POST /policies/upsert (api/policies.py) on the table sol.policies, as    *)
(* Postgres runs it at READ COMMITTED.  One transaction: an UPDATE that     *)
(* deactivates every active row, then one INSERT per rule of the payload,   *)
(* then the commit.                                                         *)
(*                                                                          *)
(* The UPDATE finds its rows in a snapshot taken when it begins, locks them *)
(* one by one until the transaction ends, and looks again at a row that it  *)
(* had to wait for.  An INSERT of a (version, rule_id) that is there fails  *)
(* (uq_policies_version_rule); one that an open transaction has inserted,   *)
(* or whose row an open transaction has updated, waits for that transaction.*)
(* A failed statement, a broken deadlock and a dead worker all end in a     *)
(* rollback: get_db closes the session.  Rows are never deleted.            *)
(****************************************************************************)
EXTENDS Integers, Sequences, FiniteSets

CONSTANTS
    Upserts,    \* calls of the endpoint
    Versions,   \* version numbers a payload may carry
    RuleLists,  \* the sequences of rule ids a payload may carry
    None        \* no upsert

ASSUME PoliciesAssumption ==
    /\ None \notin Upserts
    /\ \A list \in RuleLists : list \in Seq(STRING)

VARIABLES
    rows,       \* committed rows, each a <<version, rule_id>>
    active,     \* the committed rows whose column active is true
    payload,    \* payload[u]: what u was called with
    tx,         \* tx[u]: u's transaction
    saw,        \* history: saw[u], the upserts committed when u's UPDATE began
    last        \* history: the upsert that committed last

policyVars == <<rows, active, payload, tx, saw, last>>

InitTx == [at |-> "idle", scan |-> {}, held |-> {}, added |-> {}, todo |-> <<>>]

Init ==
    /\ rows = {}
    /\ active = {}
    /\ payload = [u \in Upserts |-> [version |-> 0, rules |-> <<>>]]
    /\ tx = [u \in Upserts |-> InitTx]
    /\ saw = [u \in Upserts |-> {}]
    /\ last = None

Key(u, rule) == <<payload[u].version, rule>>
Keys(u) == {Key(u, payload[u].rules[i]) : i \in DOMAIN payload[u].rules}
Open(u) == tx[u].at \in {"update", "insert"}
Committed == {u \in Upserts : tx[u].at = "committed"}

Ended(at) == [InitTx EXCEPT !.at = at]

----------------------------------------------------------------------------
(* Who waits for whom: an UPDATE for a row, an INSERT for a row or a key *)

\* Row k is taken: somebody else has it updated and not committed.
LockedBy(k, u) == {w \in Upserts \ {u} : k \in tx[w].held}
\* Somebody else has inserted k and not committed.
InsertedBy(k, u) == {w \in Upserts \ {u} : k \in tx[w].added}

NextKey(u) == Key(u, Head(tx[u].todo))

----------------------------------------------------------------------------
(* The handler *)

\* Slip: only the rows of the payload's own version are deactivated.
SnapshotOfVersion(version) == {k \in active : k[1] = version}

\* The rows the UPDATE will visit: WHERE active, whatever their version.
Snapshot(version) == active

\* The session's first statement: the UPDATE takes its snapshot.
BeginUpdate(u) ==
    /\ tx[u].at = "idle"
    /\ \E version \in Versions, rules \in RuleLists :
         /\ payload' = [payload EXCEPT ![u] = [version |-> version, rules |-> rules]]
         /\ tx' = [tx EXCEPT ![u] = [InitTx EXCEPT !.at = "update",
                                                   !.scan = Snapshot(version),
                                                   !.todo = rules]]
    /\ saw' = [saw EXCEPT ![u] = Committed]
    /\ UNCHANGED <<rows, active, last>>

\* Slip: SKIP LOCKED.
SkipLocked(u) ==
    /\ tx[u].at = "update"
    /\ \E k \in tx[u].scan :
         tx' = [tx EXCEPT ![u].scan = @ \ {k},
                          ![u].held = IF k \in active /\ LockedBy(k, u) = {}
                                      THEN @ \union {k} ELSE @]
    /\ UNCHANGED <<rows, active, payload, saw, last>>

\* The scan comes to a row nobody holds.  It was active in the snapshot; it is
\* updated if it still is.
UpdateRow(u) ==
    /\ tx[u].at = "update"
    /\ \E k \in tx[u].scan :
         /\ LockedBy(k, u) = {}
         /\ tx' = [tx EXCEPT ![u].scan = @ \ {k},
                             ![u].held = IF k \in active THEN @ \union {k} ELSE @]
    /\ UNCHANGED <<rows, active, payload, saw, last>>

\* Slip: a commit between the two statements.
CommitUpdate(u) ==
    /\ tx[u].at = "update"
    /\ tx[u].scan = {}
    /\ active' = active \ tx[u].held
    /\ tx' = [tx EXCEPT ![u].at = "insert", ![u].held = {}]
    /\ UNCHANGED <<rows, payload, saw, last>>

EndUpdate(u) ==
    /\ tx[u].at = "update"
    /\ tx[u].scan = {}
    /\ tx' = [tx EXCEPT ![u].at = "insert"]
    /\ UNCHANGED <<rows, active, payload, saw, last>>

\* One row of the flush; a duplicate is an IntegrityError, a 500 and a rollback.
InsertRow(u) ==
    /\ tx[u].at = "insert"
    /\ tx[u].todo # <<>>
    /\ LockedBy(NextKey(u), u) \union InsertedBy(NextKey(u), u) = {}
    /\ tx' = [tx EXCEPT ![u] =
                IF NextKey(u) \in rows \union tx[u].added
                THEN Ended("failed")
                ELSE [tx[u] EXCEPT !.added = @ \union {NextKey(u)}, !.todo = Tail(@)]]
    /\ UNCHANGED <<rows, active, payload, saw, last>>

Commit(u) ==
    /\ tx[u].at = "insert"
    /\ tx[u].todo = <<>>
    /\ rows' = rows \union tx[u].added
    /\ active' = (active \ tx[u].held) \union tx[u].added
    /\ tx' = [tx EXCEPT ![u] = Ended("committed")]
    /\ last' = u
    /\ UNCHANGED <<payload, saw>>

\* The worker dies, or its connection does, or Postgres ends the transaction to
\* break a deadlock: nothing of it stays.
Rollback(u) ==
    /\ Open(u)
    /\ tx' = [tx EXCEPT ![u] = Ended("failed")]
    /\ UNCHANGED <<rows, active, payload, saw, last>>

----------------------------------------------------------------------------

Step(u) ==
    \/ BeginUpdate(u) \/ UpdateRow(u) \/ EndUpdate(u) \/ InsertRow(u) \/ Commit(u)
    \/ Rollback(u)

Next == \E u \in Upserts : Step(u)

Spec == Init /\ [][Next]_policyVars

----------------------------------------------------------------------------
(* Properties *)

InForce == {u \in Committed : Keys(u) \intersect active # {}}

\* A list call (api/policies.py:51) never shows a part of an upsert: the rules
\* of a payload come into force together and leave it together, whatever other
\* upserts have locked, waited for or rolled back in between; and none of them is
\* also another upsert's, sent again or at the same time.
WholePayloads ==
    \A u \in InForce :
      /\ Keys(u) \subseteq active
      /\ \A w \in Committed \ {u} : Keys(w) \intersect Keys(u) = {}

\* The upsert that committed last is in force, whole: nobody deactivates rows
\* that came after his snapshot, and no moment is left without the rules.
LatestInForce == last # None => Keys(last) \subseteq active

\* Two upserts are in force together only if neither had committed when the
\* other's UPDATE began: upserts one after the other always replace.
TogetherOnlyIfConcurrent ==
    \A u, w \in InForce : u # w => u \notin saw[w] /\ w \notin saw[u]

=============================================================================
