------------------------------ MODULE Approvals ------------------------------
(****************************************************************************)
(* The table sol.approvals and everything that writes it:                   *)
(*   - create_and_deliver (services/approvals.py), run by a dispatch;       *)
(*   - the two decide endpoints and the pending list (api/approvals.py),    *)
(*     each request one database session of its own;                        *)
(*   - the one-tap links that carry a callback token (delivery/email.py,    *)
(*     auth/callback_tokens.py).                                            *)
(*                                                                          *)
(* A session reads a row, looks at the clock, and commits an UPDATE by      *)
(* primary key: the three are separate actions, because Postgres runs at    *)
(* READ COMMITTED and the row is neither locked nor versioned.  A dispatch  *)
(* asks for at most one approval, so an approval is named by its request.   *)
(****************************************************************************)
EXTENDS Integers, Sequences

CONSTANTS
    Requests,          \* dispatch requests, each with at most one approval
    Deciders,          \* concurrent calls of the decide endpoints
    Listers,           \* concurrent calls of GET /approvals/pending
    EmailConfigured,   \* SOL_APPROVER_EMAIL_* names an address
    LinkTTL,           \* jwt_callback_ttl_minutes, in ticks
    MaxTime            \* bound on the clock, for model checking

ASSUME ApprovalsAssumption ==
    /\ EmailConfigured \in BOOLEAN
    /\ LinkTTL \in Nat
    /\ MaxTime \in Nat

VARIABLES
    clock,      \* wall-clock time
    approval,   \* approval[r]: the row of sol.approvals created for r
    fanout,     \* fanout[r]: progress of create_and_deliver for r
    link,       \* link[r]: when the e-mailed pair of links expires; 0: never sent
    session,    \* session[p]: a decide call
    listing,    \* listing[s]: a pending-list call
    committed   \* history: statuses other than "pending" ever committed on r's row

approvalVars == <<clock, approval, fanout, link, session, listing, committed>>

Verdicts == {"approved", "denied"}
FinalStatuses == Verdicts \union {"expired"}
TapReason == [v \in Verdicts |-> IF v = "approved" THEN "tap:approve" ELSE "tap:deny"]

NoRow == [status |-> "none", expires |-> 0, by |-> "none", reason |-> "none", log |-> <<>>]
NewRow(expires) ==
    [status |-> "pending", expires |-> expires, by |-> "none", reason |-> "none", log |-> <<>>]
Exists(r) == approval[r].status # "none"

NoSession == [pc |-> "idle"]
NoListing == [pc |-> "idle"]

----------------------------------------------------------------------------
(* Creation and delivery *)

\* log_only comes last, whatever is configured.
ResolveTargets == IF EmailConfigured THEN <<"email", "log_only">> ELSE <<"log_only">>

\* What deliver() may do: mail may be refused before the links are made, fail
\* after (a timeout too: the mail may have left), or be sent; log_only succeeds.
DeliveryOutcomes(channel) ==
    IF channel = "log_only"
    THEN {[links |-> FALSE, succeeded |-> TRUE]}
    ELSE {[links |-> FALSE, succeeded |-> FALSE],
          [links |-> TRUE,  succeeded |-> FALSE],
          [links |-> TRUE,  succeeded |-> TRUE]}

CreateApproval(r, ttl) ==
    /\ ~Exists(r)
    /\ approval' = [approval EXCEPT ![r] = NewRow(clock + ttl)]
    /\ fanout' = [fanout EXCEPT ![r] = [stage |-> "sending", attempts |-> <<>>]]
    /\ UNCHANGED <<clock, link, session, listing, committed>>

\* Slip: the loop goes on after mail was sent.
LastOfAll(tried, channel, succeeded) == tried = Len(ResolveTargets)

\* The loop ends at the last target, or at a success of another than log_only.
LastTry(tried, channel, succeeded) ==
    tried = Len(ResolveTargets) \/ (succeeded /\ channel # "log_only")

\* One turn of the delivery loop.
TryChannel(r) ==
    LET tried   == Len(fanout[r].attempts) + 1
        channel == ResolveTargets[tried]
    IN  /\ fanout[r].stage = "sending"
        /\ \E outcome \in DeliveryOutcomes(channel) :
             /\ fanout' = [fanout EXCEPT ![r] =
                  [stage    |-> IF LastTry(tried, channel, outcome.succeeded)
                                THEN "sent" ELSE "sending",
                   attempts |-> Append(@.attempts,
                                  [channel |-> channel, succeeded |-> outcome.succeeded])]]
             /\ link' = [link EXCEPT ![r] = IF outcome.links THEN clock + LinkTTL ELSE @]
        /\ UNCHANGED <<clock, approval, session, listing, committed>>

\* Slip: the UPDATE writes every column of the row as it was when created.
CommitWholeRow(r) ==
    /\ fanout[r].stage = "sent"
    /\ approval' = [approval EXCEPT ![r] =
                      [NewRow(approval[r].expires) EXCEPT !.log = fanout[r].attempts]]
    /\ fanout' = [fanout EXCEPT ![r].stage = "done"]
    /\ UNCHANGED <<clock, link, session, listing, committed>>

CommitDeliveryLog(r) ==
    /\ fanout[r].stage = "sent"
    /\ approval' = [approval EXCEPT ![r].log = fanout[r].attempts]
    /\ fanout' = [fanout EXCEPT ![r].stage = "done"]
    /\ UNCHANGED <<clock, link, session, listing, committed>>

----------------------------------------------------------------------------
(* The decide endpoints: open, read, check the clock, commit *)

Opened(p, r, verdict, by, reason) ==
    session' = [session EXCEPT ![p] = [pc |-> "read", req |-> r, verdict |-> verdict,
                                       by |-> by, reason |-> reason]]

\* An id of no row gets a 404 and changes nothing; ids are random, so nobody
\* names a row before it exists.
AdminDecide(p, r) ==
    /\ session[p].pc = "idle"
    /\ Exists(r)
    /\ \E verdict \in Verdicts, reason \in {"none", "given"} :
         Opened(p, r, verdict, "admin", reason)
    /\ UNCHANGED <<clock, approval, fanout, link, listing, committed>>

\* The token verifies until its expiry second has passed.
TapLink(p, r) ==
    /\ session[p].pc = "idle"
    /\ link[r] # 0
    /\ link[r] >= clock
    /\ \E verdict \in Verdicts : Opened(p, r, verdict, "callback-token", TapReason[verdict])
    /\ UNCHANGED <<clock, approval, fanout, link, listing, committed>>

\* Slip: the status is not looked at.
ReadAnyStatus(p) ==
    /\ session[p].pc = "read"
    /\ session' = [session EXCEPT ![p].pc = "check"]
    /\ UNCHANGED <<clock, approval, fanout, link, listing, committed>>

\* A row already settled is a 409, or "already_decided" for a tap.
ReadApproval(p) ==
    /\ session[p].pc = "read"
    /\ session' = [session EXCEPT ![p] =
                     IF approval[session[p].req].status = "pending"
                     THEN [@ EXCEPT !.pc = "check"] ELSE NoSession]
    /\ UNCHANGED <<clock, approval, fanout, link, listing, committed>>

\* The expiry never changes, so the column read is the column stored.
CheckExpiry(p) ==
    /\ session[p].pc = "check"
    /\ session' = [session EXCEPT ![p].pc =
                     IF approval[session[p].req].expires < clock THEN "expire" ELSE "write"]
    /\ UNCHANGED <<clock, approval, fanout, link, listing, committed>>

\* One commit: an UPDATE by primary key of each of the rows.
Settle(rows, status, by, reason) ==
    /\ approval' = [r \in Requests |->
                      IF r \in rows
                      THEN [approval[r] EXCEPT !.status = status, !.by = by,
                                               !.reason = reason[r]]
                      ELSE approval[r]]
    /\ committed' = [r \in Requests |->
                       IF r \in rows THEN committed[r] \union {status} ELSE committed[r]]

\* Slips: the reason written into the status; the writer left out.
ExpireSwapped(rows) == Settle(rows, "ttl_expired", "ttl-sweep", [r \in Requests |-> "ttl_expired"])
ExpireUnsigned(rows) == Settle(rows, "expired", "none", [r \in Requests |-> "ttl_expired"])

Expire(rows) == Settle(rows, "expired", "ttl-sweep", [r \in Requests |-> "ttl_expired"])

WriteExpired(p) ==
    /\ session[p].pc = "expire"
    /\ Expire({session[p].req})
    /\ session' = [session EXCEPT ![p] = NoSession]
    /\ UNCHANGED <<clock, fanout, link, listing>>

\* The UPDATE names only the columns whose value changed since the read: an
\* absent reason leaves the reason that the row has by now.
WriteDecision(p) ==
    /\ session[p].pc = "write"
    /\ Settle({session[p].req}, session[p].verdict, session[p].by,
              [r \in Requests |-> IF session[p].reason = "none"
                                  THEN approval[r].reason ELSE session[p].reason])
    /\ session' = [session EXCEPT ![p] = NoSession]
    /\ UNCHANGED <<clock, fanout, link, listing>>

----------------------------------------------------------------------------
(* The pending list, which first expires what is overdue *)

\* Slip: off by one.
OverdueAtExpiry ==
    {r \in Requests : approval[r].status = "pending" /\ approval[r].expires <= clock}

Overdue == {r \in Requests : approval[r].status = "pending" /\ approval[r].expires < clock}
Pending == {r \in Requests : approval[r].status = "pending"}

SweepRead(s) ==
    /\ listing[s].pc = "idle"
    /\ listing' = [listing EXCEPT ![s] = [pc   |-> IF Overdue = {} THEN "query" ELSE "sweep",
                                          now  |-> clock, rows |-> Overdue]]
    /\ UNCHANGED <<clock, approval, fanout, link, session, committed>>

\* Slip: the rows are not committed.
SweepWithoutCommit(s) ==
    /\ listing[s].pc = "sweep"
    /\ listing' = [listing EXCEPT ![s].pc = "query"]
    /\ UNCHANGED <<clock, approval, fanout, link, session, committed>>

SweepCommit(s) ==
    /\ listing[s].pc = "sweep"
    /\ Expire(listing[s].rows)
    /\ listing' = [listing EXCEPT ![s].pc = "query"]
    /\ UNCHANGED <<clock, fanout, link, session>>

QueryPending(s) ==
    /\ listing[s].pc = "query"
    /\ listing' = [listing EXCEPT ![s].pc = "shown", ![s].rows = Pending]
    /\ UNCHANGED <<clock, approval, fanout, link, session, committed>>

\* The answer is sent, or the worker dies with the request.
EndListing(s) ==
    /\ listing[s].pc # "idle"
    /\ listing' = [listing EXCEPT ![s] = NoListing]
    /\ UNCHANGED <<clock, approval, fanout, link, session, committed>>

\* A worker dies with a decide call in it: nothing of it is committed.
DropSession(p) ==
    /\ session[p].pc # "idle"
    /\ session' = [session EXCEPT ![p] = NoSession]
    /\ UNCHANGED <<clock, approval, fanout, link, listing, committed>>

Tick ==
    /\ clock < MaxTime
    /\ clock' = clock + 1
    /\ UNCHANGED <<approval, fanout, link, session, listing, committed>>

----------------------------------------------------------------------------
ApprovalsInit ==
    /\ clock = 0
    /\ approval = [r \in Requests |-> NoRow]
    /\ fanout = [r \in Requests |-> [stage |-> "idle", attempts |-> <<>>]]
    /\ link = [r \in Requests |-> 0]
    /\ session = [p \in Deciders |-> NoSession]
    /\ listing = [s \in Listers |-> NoListing]
    /\ committed = [r \in Requests |-> {}]

\* Everything that happens to approvals without the dispatch that asked.
Operators ==
    \/ \E p \in Deciders, r \in Requests : AdminDecide(p, r) \/ TapLink(p, r)
    \/ \E p \in Deciders : \/ ReadApproval(p) \/ CheckExpiry(p)
                           \/ WriteExpired(p) \/ WriteDecision(p) \/ DropSession(p)
    \/ \E s \in Listers : SweepRead(s) \/ SweepCommit(s) \/ QueryPending(s) \/ EndListing(s)
    \/ Tick

----------------------------------------------------------------------------
(* Properties *)

Reasons == {"none", "given", "ttl_expired"} \union {TapReason[v] : v \in Verdicts}
Attempt == [channel : {"email", "log_only"}, succeeded : BOOLEAN]

Row == [status : {"none", "pending"} \union FinalStatuses, expires : Nat,
        by : {"none", "admin", "callback-token", "ttl-sweep"}, reason : Reasons,
        log : Seq(Attempt)]
Session == [pc : {"read", "check", "expire", "write"}, req : Requests, verdict : Verdicts,
            by : {"admin", "callback-token"}, reason : Reasons]
Listing == [pc : {"sweep", "query", "shown"}, now : Nat, rows : SUBSET Requests]

\* Every variable holds a value of its type.
ApprovalsTypeOK ==
    /\ clock \in Nat
    /\ approval \in [Requests -> Row]
    /\ fanout \in [Requests -> [stage : {"idle", "sending", "sent", "done"},
                               attempts : Seq(Attempt)]]
    /\ link \in [Requests -> Nat]
    /\ session \in [Deciders -> {NoSession} \union Session]
    /\ listing \in [Listers -> {NoListing} \union Listing]
    /\ committed \in [Requests -> SUBSET FinalStatuses]

\* Whoever writes last, and whatever was written before, the columns of a row
\* agree: a settled row names who settled it, only the TTL expires a row, and a
\* tapped row carries the reason of the link that was tapped.  (An admin's row
\* may carry another writer's reason: his UPDATE skips the column.)
ColumnsAgree ==
    \A r \in Requests :
      LET row == approval[r]
      IN  /\ row.by = "none" <=> row.status \in {"none", "pending"}
          /\ row.by = "ttl-sweep" <=> row.status = "expired"
          /\ row.by = "ttl-sweep" => row.reason = "ttl_expired"
          /\ row.by = "callback-token" => row.reason = TapReason[row.status]

\* Expiry is by age only: no call ever expires a row before its expires_at, not
\* even from a decision taken at an earlier clock reading (_expire_stale's promise).
OnlyOverdueExpires ==
    \A r \in Requests : "expired" \in committed[r] => approval[r].expires < clock

\* Nobody still holds a read of r that may be written.
Quiet(r) ==
    /\ approval[r].status \in FinalStatuses
    /\ \A p \in Deciders :
         session[p].pc \in {"check", "expire", "write"} => session[p].req # r
    /\ \A s \in Listers : listing[s].pc = "sweep" => r \notin listing[s].rows

\* Once a row is settled and the calls that had read it as pending have ended,
\* its outcome is final: no later call, tap or sweep changes who decided what.
SettledIsFinal ==
    [][\A r \in Requests :
         Quiet(r) => /\ Quiet(r)'
                     /\ approval'[r] = [approval[r] EXCEPT !.log = approval'[r].log]]_approvalVars

\* The pending list never shows a row that was overdue when the call came in,
\* although the sweep and the query are two transactions.
ListedRowsWereFresh ==
    \A s \in Listers :
      listing[s].pc = "shown" => \A r \in listing[s].rows : approval[r].expires >= listing[s].now

\* Nothing sweeps by itself, but the sweep is "safe to call on every pending-list
\* request" (api/approvals.py:35) and sufficient: as long as some caller gets the
\* list again and again, no approval stays pending past its TTL, whatever calls
\* die between the sweep's read, its commit and the query.
OverdueIsSwept ==
    (\E s \in Listers : []<><<QueryPending(s)>>_approvalVars) =>
      \A r \in Requests : r \in Overdue ~> approval[r].status \in FinalStatuses

\* A finished fan-out leaves exactly one successful delivery on the row, its
\* last: log_only stands in for mail that failed, and never doubles mail that left.
DeliveredOnce ==
    \A r \in Requests :
      fanout[r].stage = "done" =>
        /\ approval[r].log # <<>>
        /\ \A i \in 1..Len(approval[r].log) :
             approval[r].log[i].succeeded <=> i = Len(approval[r].log)

\* A tapped link settles the row for good, no second tap turns the outcome: the
\* single use that auth/callback_tokens.py:19-21 says the API layer enforces.
SingleUse ==
    [][\A r \in Requests :
         approval[r].by = "callback-token" /\ approval'[r].by = "callback-token"
           => approval'[r].status = approval[r].status]_approvalVars

=============================================================================
