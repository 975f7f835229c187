---------------------------- MODULE ApprovalsProofs ----------------------------
(****************************************************************************)
(* The approvals service, for every number of requests, decide calls and    *)
(* list calls, every lifetime of an approval and of a link: what its runs   *)
(* check on small instances is proved of its specification.                 *)
(*                                                                          *)
(* First the inductive invariant of the table.  What the properties of a    *)
(* row need is what the calls in progress remember of it: a session keeps   *)
(* across its steps what it read, and a commit writes that, whatever the    *)
(* row says by then.  It is stated and proved action by action, to be used  *)
(* by each specification that is built from module Approvals, and then of   *)
(* the service on its own.                                                  *)
(****************************************************************************)
EXTENDS ApprovalService, TLAPS

\* The delivery loop stops before it runs out of targets.
FanoutInTargets ==
    \A r \in Requests :
      fanout[r].stage = "sending" => Len(fanout[r].attempts) < Len(ResolveTargets)

ApprovalsTyped == ApprovalsTypeOK /\ FanoutInTargets

Fanout == [stage : {"idle", "sending", "sent", "done"}, attempts : Seq(Attempt)]

\* There are one or two targets, e-mail and the log.
LEMMA TargetsType == /\ Len(ResolveTargets) \in {1, 2}
                     /\ \A i \in 1..Len(ResolveTargets) : ResolveTargets[i] \in {"email", "log_only"}
  BY ApprovalsAssumption DEF ResolveTargets, ApprovalsAssumption

\* There is a target.
LEMMA TargetsCount == Len(ResolveTargets) \in Nat /\ Len(ResolveTargets) > 0
  BY ApprovalsAssumption DEF ResolveTargets, ApprovalsAssumption

\* A delivery either fails or succeeds.
LEMMA OutcomeType ==
  ASSUME NEW c, NEW o \in DeliveryOutcomes(c)
  PROVE  o \in [links : BOOLEAN, succeeded : BOOLEAN]
<1>1. \/ o = [links |-> FALSE, succeeded |-> TRUE]
      \/ o = [links |-> FALSE, succeeded |-> FALSE]
      \/ o = [links |-> TRUE, succeeded |-> FALSE]
      \/ o = [links |-> TRUE, succeeded |-> TRUE]
  <2>1. CASE c = "log_only"
    BY <2>1, Zenon DEF DeliveryOutcomes
  <2>2. CASE c # "log_only"
    BY <2>2, Zenon DEF DeliveryOutcomes
  <2>3. QED
    BY <2>1, <2>2
<1>2. [links |-> FALSE, succeeded |-> TRUE] \in [links : BOOLEAN, succeeded : BOOLEAN]
  OBVIOUS
<1>3. [links |-> FALSE, succeeded |-> FALSE] \in [links : BOOLEAN, succeeded : BOOLEAN]
  OBVIOUS
<1>4. [links |-> TRUE, succeeded |-> FALSE] \in [links : BOOLEAN, succeeded : BOOLEAN]
  OBVIOUS
<1>5. [links |-> TRUE, succeeded |-> TRUE] \in [links : BOOLEAN, succeeded : BOOLEAN]
  OBVIOUS
<1>6. QED
  BY <1>1, <1>2, <1>3, <1>4, <1>5, Zenon

\* The empty log is a log.
LEMMA EmptyLog == <<>> \in Seq(Attempt) /\ Len(<<>>) = 0
  OBVIOUS

\* A fresh row is a row.
LEMMA NewRowType ==
  ASSUME NEW e \in Nat
  PROVE  NewRow(e) \in Row
  BY EmptyLog DEF NewRow, Row, Reasons

\* The initial table is in its type.
LEMMA InitType == ApprovalsInit => ApprovalsTyped
<1> SUFFICES ASSUME ApprovalsInit PROVE ApprovalsTyped
  OBVIOUS
<1>1. NoRow \in Row
  BY EmptyLog DEF NoRow, Row, Reasons
<1>2. fanout \in [Requests -> Fanout]
  BY EmptyLog DEF ApprovalsInit, Fanout
<1>3. QED
  BY <1>1, <1>2 DEF ApprovalsInit, ApprovalsTyped, ApprovalsTypeOK, FanoutInTargets, Fanout

\* Creating the row of an approval keeps every variable in its type.
LEMMA CreateApprovalType ==
  ASSUME ApprovalsTyped, NEW r \in Requests, NEW ttl \in Nat, CreateApproval(r, ttl)
  PROVE  ApprovalsTyped'
<1>1. clock + ttl \in Nat
  BY DEF ApprovalsTyped, ApprovalsTypeOK
<1>2. NewRow(clock + ttl) \in Row
  BY <1>1, NewRowType
<1>3. approval' \in [Requests -> Row]
  BY <1>2 DEF ApprovalsTyped, ApprovalsTypeOK, CreateApproval
<1>4. [stage |-> "sending", attempts |-> <<>>] \in Fanout
  BY EmptyLog DEF Fanout
<1>5. fanout \in [Requests -> Fanout]
  BY DEF ApprovalsTyped, ApprovalsTypeOK, Fanout
<1>6. fanout' \in [Requests -> Fanout]
  BY <1>4, <1>5 DEF CreateApproval
<1>7. FanoutInTargets'
  <2> SUFFICES ASSUME NEW q \in Requests, fanout'[q].stage = "sending"
               PROVE  Len(fanout'[q].attempts) < Len(ResolveTargets)
    BY DEF FanoutInTargets, ResolveTargets
  <2>1. CASE q = r
    <3>1. fanout'[q] = [stage |-> "sending", attempts |-> <<>>]
      BY <2>1, <1>5 DEF CreateApproval
    <3>2. fanout'[q].attempts = <<>>
      BY <3>1
    <3>3. Len(fanout'[q].attempts) = 0
      BY <3>2
    <3>4. QED
      BY <3>3, TargetsCount
  <2>2. CASE q # r
    BY <2>2, <1>5 DEF CreateApproval, ApprovalsTyped, FanoutInTargets
  <2>3. QED
    BY <2>1, <2>2
<1>8. QED
  BY <1>3, <1>6, <1>7 DEF ApprovalsTyped, ApprovalsTypeOK, CreateApproval, Fanout

\* One turn of the delivery loop keeps every variable in its type.
LEMMA TryChannelType ==
  ASSUME ApprovalsTyped, NEW r \in Requests, TryChannel(r)
  PROVE  ApprovalsTyped'
<1> DEFINE tried   == Len(fanout[r].attempts) + 1
           channel == ResolveTargets[tried]
<1>1. PICK outcome \in DeliveryOutcomes(channel) :
        /\ fanout' = [fanout EXCEPT ![r] =
             [stage    |-> IF LastTry(tried, channel, outcome.succeeded)
                           THEN "sent" ELSE "sending",
              attempts |-> Append(fanout[r].attempts,
                             [channel |-> channel, succeeded |-> outcome.succeeded])]]
        /\ link' = [link EXCEPT ![r] = IF outcome.links THEN clock + LinkTTL ELSE @]
  BY DEF TryChannel
<1>2. fanout \in [Requests -> Fanout] /\ fanout[r].attempts \in Seq(Attempt)
  BY DEF ApprovalsTyped, ApprovalsTypeOK, Fanout
<1>3. tried \in 1..Len(ResolveTargets)
  BY <1>2, TargetsType DEF ApprovalsTyped, FanoutInTargets, TryChannel
<1>4. outcome.succeeded \in BOOLEAN
  BY OutcomeType
<1> DEFINE attempt == [channel |-> channel, succeeded |-> outcome.succeeded]
           attempts == Append(fanout[r].attempts, attempt)
<1>5. attempt \in Attempt
  BY <1>3, <1>4, TargetsType DEF Attempt
<1>6. attempts \in Seq(Attempt) /\ Len(attempts) = tried
  BY <1>2, <1>5
<1> DEFINE next == [stage |-> IF LastTry(tried, channel, outcome.succeeded)
                              THEN "sent" ELSE "sending", attempts |-> attempts]
<1>7. next \in Fanout
  <2> HIDE DEF attempts
  <2> QED BY <1>6 DEF Fanout
<1>8. fanout' = [fanout EXCEPT ![r] = next]
  BY <1>1
<1>9. fanout' \in [Requests -> Fanout]
  <2> HIDE DEF next
  <2> QED BY <1>2, <1>7, <1>8
<1>10. FanoutInTargets'
  <2> SUFFICES ASSUME NEW q \in Requests, fanout'[q].stage = "sending"
               PROVE  Len(fanout'[q].attempts) < Len(ResolveTargets)
    BY DEF FanoutInTargets, ResolveTargets
  <2>1. CASE q = r
    <3>1. fanout'[q] = next
      <4> HIDE DEF next
      <4> QED BY <2>1, <1>2, <1>8
    <3>2. tried # Len(ResolveTargets)
      <4> HIDE DEF attempts
      <4> QED BY <3>1 DEF LastTry
    <3>3. Len(fanout'[q].attempts) = tried
      <4> HIDE DEF attempts, tried
      <4> QED BY <3>1, <1>6
    <3>4. QED
      <4> HIDE DEF tried
      <4> QED BY <3>2, <3>3, <1>3, TargetsType
  <2>2. CASE q # r
    <3>1. fanout'[q] = fanout[q]
      <4> HIDE DEF next
      <4> QED BY <2>2, <1>2, <1>8
    <3> QED BY <3>1 DEF ApprovalsTyped, FanoutInTargets
  <2>3. QED
    BY <2>1, <2>2
<1>11. link' \in [Requests -> Nat]
  BY <1>1, ApprovalsAssumption DEF ApprovalsTyped, ApprovalsTypeOK, ApprovalsAssumption
<1>12. QED
  BY <1>9, <1>10, <1>11 DEF ApprovalsTyped, ApprovalsTypeOK, TryChannel, Fanout

\* Writing the delivery log keeps every variable in its type.
LEMMA CommitDeliveryLogType ==
  ASSUME ApprovalsTyped, NEW r \in Requests, CommitDeliveryLog(r)
  PROVE  ApprovalsTyped'
<1>1. approval' \in [Requests -> Row]
  BY DEF ApprovalsTyped, ApprovalsTypeOK, CommitDeliveryLog, Row
<1>2. fanout \in [Requests -> Fanout]
  BY DEF ApprovalsTyped, ApprovalsTypeOK, Fanout
<1>3. fanout' \in [Requests -> Fanout]
  BY <1>2 DEF CommitDeliveryLog, Fanout
<1>4. FanoutInTargets'
  <2> SUFFICES ASSUME NEW q \in Requests, fanout'[q].stage = "sending"
               PROVE  Len(fanout'[q].attempts) < Len(ResolveTargets)
    BY DEF FanoutInTargets, ResolveTargets
  <2>1. fanout'[q] = fanout[q]
    BY <1>2 DEF CommitDeliveryLog, Fanout
  <2> QED BY <2>1 DEF ApprovalsTyped, FanoutInTargets
<1>5. QED
  BY <1>1, <1>3, <1>4 DEF ApprovalsTyped, ApprovalsTypeOK, CommitDeliveryLog, Fanout

\* A commit that settles rows keeps the two variables it writes in their types.
LEMMA SettleType ==
  ASSUME ApprovalsTypeOK, NEW rows \in SUBSET Requests, NEW status \in FinalStatuses,
         NEW by \in {"admin", "callback-token", "ttl-sweep"},
         NEW reason \in [Requests -> Reasons], Settle(rows, status, by, reason)
  PROVE  /\ approval' \in [Requests -> Row]
         /\ committed' \in [Requests -> SUBSET FinalStatuses]
<1>1. \A r \in Requests :
        [approval[r] EXCEPT !.status = status, !.by = by, !.reason = reason[r]] \in Row
  BY DEF ApprovalsTypeOK, Row
<1>2. approval' \in [Requests -> Row]
  BY <1>1 DEF ApprovalsTypeOK, Settle
<1>3. QED
  BY <1>2 DEF ApprovalsTypeOK, Settle

\* The only writer of an expiry keeps the two variables it writes in their types.
LEMMA ExpireType ==
  ASSUME ApprovalsTypeOK, NEW rows \in SUBSET Requests, Expire(rows)
  PROVE  /\ approval' \in [Requests -> Row]
         /\ committed' \in [Requests -> SUBSET FinalStatuses]
<1>1. [r \in Requests |-> "ttl_expired"] \in [Requests -> Reasons]
  BY DEF Reasons
<1>2. QED
  BY <1>1, SettleType DEF Expire, FinalStatuses

\* What a decide call does to its session keeps the session a session.
LEMMA SessionType ==
  ASSUME ApprovalsTypeOK, NEW p \in Deciders, session[p].pc # "idle"
  PROVE  session[p] \in Session
  BY DEF ApprovalsTypeOK, NoSession

LEMMA OpenedType ==
  ASSUME ApprovalsTypeOK, NEW p \in Deciders, NEW r \in Requests, NEW verdict \in Verdicts,
         NEW by \in {"admin", "callback-token"}, NEW reason \in Reasons,
         Opened(p, r, verdict, by, reason)
  PROVE  session' \in [Deciders -> {NoSession} \union Session]
<1> DEFINE opened == [pc |-> "read", req |-> r, verdict |-> verdict, by |-> by,
                      reason |-> reason]
<1>1. opened \in Session
  BY DEF Session
<1>2. session' = [session EXCEPT ![p] = opened]
  BY DEF Opened
<1>3. session \in [Deciders -> {NoSession} \union Session]
  BY DEF ApprovalsTypeOK
<1>4. QED
  <2> HIDE DEF opened
  <2> QED BY <1>1, <1>2, <1>3

\* The fan-out is untouched by the operators' calls.
LEMMA FanoutUnchanged ==
  ASSUME ApprovalsTyped, UNCHANGED fanout PROVE FanoutInTargets'
  BY DEF ApprovalsTyped, FanoutInTargets, ResolveTargets

\* The reasons a link carries are reasons.
LEMMA TapReasonType == \A v \in Verdicts : TapReason[v] \in Reasons
  BY DEF Reasons

\* A decide call, up to its commit, keeps every variable in its type.
LEMMA DecideCallType ==
  ASSUME ApprovalsTyped, NEW p \in Deciders,
         \/ \E r \in Requests : AdminDecide(p, r) \/ TapLink(p, r)
         \/ ReadApproval(p) \/ CheckExpiry(p) \/ DropSession(p)
  PROVE  ApprovalsTyped'
<1>1. /\ session' \in [Deciders -> {NoSession} \union Session]
      /\ UNCHANGED <<clock, approval, fanout, link, listing, committed>>
  <2>1. ASSUME NEW r \in Requests, AdminDecide(p, r) PROVE <1>1!1 /\ <1>1!2
    <3>1. PICK verdict \in Verdicts, reason \in {"none", "given"} :
            Opened(p, r, verdict, "admin", reason)
      BY <2>1 DEF AdminDecide
    <3>2. reason \in Reasons
      BY DEF Reasons
    <3>3. QED
      BY <2>1, <3>1, <3>2, OpenedType DEF AdminDecide, ApprovalsTyped
  <2>2. ASSUME NEW r \in Requests, TapLink(p, r) PROVE <1>1!1 /\ <1>1!2
    BY <2>2, OpenedType, TapReasonType DEF TapLink, ApprovalsTyped
  <2>3. CASE ReadApproval(p)
    BY <2>3, SessionType DEF ReadApproval, ApprovalsTyped, ApprovalsTypeOK, Session
  <2>4. CASE CheckExpiry(p)
    BY <2>4, SessionType DEF CheckExpiry, ApprovalsTyped, ApprovalsTypeOK, Session
  <2>5. CASE DropSession(p)
    BY <2>5 DEF DropSession, ApprovalsTyped, ApprovalsTypeOK
  <2>6. QED
    BY <2>1, <2>2, <2>3, <2>4, <2>5
<1>2. QED
  BY <1>1, FanoutUnchanged DEF ApprovalsTyped, ApprovalsTypeOK

\* The commit of a decide call keeps every variable in its type.
LEMMA DecideCommitType ==
  ASSUME ApprovalsTyped, NEW p \in Deciders, WriteExpired(p) \/ WriteDecision(p)
  PROVE  ApprovalsTyped'
<1>1. session[p] \in Session
  BY SessionType DEF WriteExpired, WriteDecision, ApprovalsTyped
<1>2. /\ approval' \in [Requests -> Row]
      /\ committed' \in [Requests -> SUBSET FinalStatuses]
  <2>1. {session[p].req} \in SUBSET Requests
    BY <1>1 DEF Session
  <2>2. CASE WriteExpired(p)
    BY <2>1, <2>2, ExpireType DEF WriteExpired, ApprovalsTyped
  <2>3. CASE WriteDecision(p)
    <3> DEFINE reason == [r \in Requests |-> IF session[p].reason = "none"
                                             THEN approval[r].reason ELSE session[p].reason]
    <3>1. reason \in [Requests -> Reasons]
      BY <1>1 DEF ApprovalsTyped, ApprovalsTypeOK, Row, Session
    <3>2. /\ session[p].verdict \in FinalStatuses
          /\ session[p].by \in {"admin", "callback-token", "ttl-sweep"}
      BY <1>1 DEF Session, FinalStatuses
    <3>3. Settle({session[p].req}, session[p].verdict, session[p].by, reason)
      BY <2>3 DEF WriteDecision
    <3>4. QED
      <4> HIDE DEF reason
      <4> QED BY <2>1, <3>1, <3>2, <3>3, SettleType DEF ApprovalsTyped
  <2>4. QED
    BY <2>2, <2>3
<1>3. /\ session' \in [Deciders -> {NoSession} \union Session]
      /\ UNCHANGED <<clock, fanout, link, listing>>
  BY DEF WriteExpired, WriteDecision, ApprovalsTyped, ApprovalsTypeOK
<1>4. QED
  BY <1>2, <1>3, FanoutUnchanged DEF ApprovalsTyped, ApprovalsTypeOK

\* A sweep holds rows of the table.
LEMMA SweepRows ==
  ASSUME ApprovalsTypeOK, NEW s \in Listers, listing[s].pc = "sweep"
  PROVE  listing[s] \in Listing /\ listing[s].rows \in SUBSET Requests
<1>1. listing[s] \in Listing
  BY DEF NoListing, ApprovalsTypeOK
<1>2. QED
  BY <1>1 DEF Listing

\* A pending-list call keeps every variable in its type.
LEMMA ListingType ==
  ASSUME ApprovalsTyped, NEW s \in Listers,
         SweepRead(s) \/ SweepCommit(s) \/ QueryPending(s) \/ EndListing(s)
  PROVE  ApprovalsTyped'
<1>1. CASE SweepRead(s)
  <2>1. [pc |-> IF Overdue = {} THEN "query" ELSE "sweep", now |-> clock, rows |-> Overdue]
          \in Listing
    BY DEF Listing, Overdue, ApprovalsTyped, ApprovalsTypeOK
  <2>2. listing' \in [Listers -> {NoListing} \union Listing]
    BY <1>1, <2>1 DEF SweepRead, ApprovalsTyped, ApprovalsTypeOK
  <2>3. QED
    BY <1>1, <2>2, FanoutUnchanged DEF SweepRead, ApprovalsTyped, ApprovalsTypeOK
<1>2. CASE SweepCommit(s)
  <2>1. listing[s] \in Listing /\ listing[s].rows \in SUBSET Requests
    BY <1>2, SweepRows DEF SweepCommit, ApprovalsTyped
  <2>2. listing' \in [Listers -> {NoListing} \union Listing]
    BY <1>2, <2>1 DEF SweepCommit, Listing, ApprovalsTyped, ApprovalsTypeOK
  <2>3. /\ approval' \in [Requests -> Row]
        /\ committed' \in [Requests -> SUBSET FinalStatuses]
    BY <1>2, <2>1, ExpireType DEF SweepCommit, ApprovalsTyped
  <2>4. QED
    BY <1>2, <2>2, <2>3, FanoutUnchanged DEF SweepCommit, ApprovalsTyped, ApprovalsTypeOK
<1>3. CASE QueryPending(s)
  <2>1. listing[s] \in Listing
    BY <1>3 DEF QueryPending, NoListing, ApprovalsTyped, ApprovalsTypeOK
  <2>2. listing' \in [Listers -> {NoListing} \union Listing]
    BY <1>3, <2>1 DEF QueryPending, Pending, Listing, ApprovalsTyped, ApprovalsTypeOK
  <2>3. QED
    BY <1>3, <2>2, FanoutUnchanged DEF QueryPending, ApprovalsTyped, ApprovalsTypeOK
<1>4. CASE EndListing(s)
  BY <1>4, FanoutUnchanged DEF EndListing, ApprovalsTyped, ApprovalsTypeOK
<1>5. QED
  BY <1>1, <1>2, <1>3, <1>4

\* Whatever the operators and the clock do keeps every variable in its type.
LEMMA OperatorsType ==
  ASSUME ApprovalsTyped, Operators PROVE ApprovalsTyped'
<1>1. CASE Tick
  BY <1>1, FanoutUnchanged DEF Tick, ApprovalsTyped, ApprovalsTypeOK
<1>2. QED
  BY <1>1, DecideCallType, DecideCommitType, ListingType DEF Operators

----------------------------------------------------------------------------
(* Rows, and what calls remember of them *)

\* Only rows that are there are read, sent for, tapped and settled; what was
\* found overdue still is, for time only goes on and expires_at is not rewritten.
HeldReads ==
    /\ \A p \in Deciders :
         session[p].pc # "idle" =>
           /\ Exists(session[p].req)
           /\ session[p].by = "callback-token" =>
                session[p].reason = TapReason[session[p].verdict]
           /\ session[p].pc = "expire" => approval[session[p].req].expires < clock
    /\ \A s \in Listers :
         listing[s].pc = "sweep" =>
           \A r \in listing[s].rows : Exists(r) /\ approval[r].expires < clock
    /\ \A r \in Requests :
         link[r] # 0 \/ committed[r] # {} \/ fanout[r].stage # "idle" => Exists(r)

ApprovalsInv ==
    /\ ApprovalsTyped
    /\ HeldReads
    /\ ColumnsAgree
    /\ OnlyOverdueExpires

\* A table without rows satisfies it.
LEMMA InitInv == ApprovalsInit => ApprovalsInv
<1> SUFFICES ASSUME ApprovalsInit PROVE ApprovalsInv
  OBVIOUS
<1>1. ApprovalsTyped
  BY InitType
<1>2. HeldReads
  BY DEF ApprovalsInit, HeldReads, NoSession, NoListing
<1>3. ColumnsAgree
  BY DEF ApprovalsInit, ColumnsAgree, NoRow
<1>4. OnlyOverdueExpires
  BY DEF ApprovalsInit, OnlyOverdueExpires
<1>5. QED
  BY <1>1, <1>2, <1>3, <1>4 DEF ApprovalsInv

\* A commit that settles rows that are there, as overdue only when they are,
\* leaves the columns in agreement and every row and its expiry in place.
LEMMA SettleInv ==
  ASSUME ApprovalsInv, NEW rows \in SUBSET Requests, NEW status \in FinalStatuses,
         NEW by \in {"admin", "callback-token", "ttl-sweep"},
         NEW reason \in [Requests -> Reasons], Settle(rows, status, by, reason),
         UNCHANGED clock,
         \A r \in rows : Exists(r),
         status = "expired" <=> by = "ttl-sweep",
         status = "expired" =>
           \A r \in rows : reason[r] = "ttl_expired" /\ approval[r].expires < clock,
         by = "callback-token" => \A r \in rows : reason[r] = TapReason[status]
  PROVE  /\ ColumnsAgree'
         /\ OnlyOverdueExpires'
         /\ \A r \in Requests : committed'[r] # {} => Exists(r)'
         /\ \A r \in Requests : /\ Exists(r)' <=> Exists(r)
                                /\ approval'[r].expires = approval[r].expires
<1>1. approval \in [Requests -> Row]
  BY DEF ApprovalsInv, ApprovalsTyped, ApprovalsTypeOK
<1>2. ASSUME NEW r \in rows
      PROVE  /\ approval'[r].status = status
             /\ approval'[r].by = by
             /\ approval'[r].reason = reason[r]
             /\ approval'[r].expires = approval[r].expires
             /\ committed'[r] = committed[r] \union {status}
  BY <1>1 DEF Settle, Row
<1>3. ASSUME NEW r \in Requests, r \notin rows
      PROVE  approval'[r] = approval[r] /\ committed'[r] = committed[r]
  BY <1>3 DEF Settle
<1>4. status \notin {"none", "pending"}
  BY DEF FinalStatuses, Verdicts
<1>5. ColumnsAgree'
  <2> SUFFICES ASSUME NEW r \in Requests
               PROVE  /\ approval'[r].by = "none" <=> approval'[r].status \in {"none", "pending"}
                      /\ approval'[r].by = "ttl-sweep" <=> approval'[r].status = "expired"
                      /\ approval'[r].by = "ttl-sweep" => approval'[r].reason = "ttl_expired"
                      /\ approval'[r].by = "callback-token"
                           => approval'[r].reason = TapReason[approval'[r].status]
    BY DEF ColumnsAgree, TapReason
  <2>1. CASE r \in rows
    BY <1>2, <1>4, <2>1
  <2>2. CASE r \notin rows
    BY <1>3, <2>2 DEF ApprovalsInv, ColumnsAgree
  <2>3. QED
    BY <2>1, <2>2
<1>6. OnlyOverdueExpires'
  <2> SUFFICES ASSUME NEW r \in Requests, "expired" \in committed'[r]
               PROVE  approval'[r].expires < clock'
    BY DEF OnlyOverdueExpires
  <2>1. CASE r \in rows
    BY <1>2, <2>1 DEF ApprovalsInv, OnlyOverdueExpires
  <2>2. CASE r \notin rows
    BY <1>3, <2>2 DEF ApprovalsInv, OnlyOverdueExpires
  <2>3. QED
    BY <2>1, <2>2
<1>7. \A r \in Requests : /\ Exists(r)' <=> Exists(r)
                          /\ approval'[r].expires = approval[r].expires
  BY <1>2, <1>3, <1>4 DEF Exists
<1>8. \A r \in Requests : committed'[r] # {} => Exists(r)'
  BY <1>2, <1>3, <1>7 DEF ApprovalsInv, HeldReads
<1>9. QED
  BY <1>5, <1>6, <1>7, <1>8

\* Steps that write no row and no status keep what is said of rows.
LEMMA RowsUnchanged ==
  ASSUME ApprovalsInv, UNCHANGED <<clock, approval, committed>>
  PROVE  ColumnsAgree' /\ OnlyOverdueExpires'
  BY DEF ApprovalsInv, ColumnsAgree, OnlyOverdueExpires, TapReason

\* Creating an approval keeps the invariant: no earlier call knows the row.
LEMMA CreateApprovalInv ==
  ASSUME ApprovalsInv, NEW r \in Requests, NEW ttl \in Nat, CreateApproval(r, ttl)
  PROVE  ApprovalsInv'
<1>1. ApprovalsTyped'
  BY CreateApprovalType DEF ApprovalsInv
<1>2. /\ approval \in [Requests -> Row]
      /\ fanout \in [Requests -> Fanout]
  BY DEF ApprovalsInv, ApprovalsTyped, ApprovalsTypeOK, Fanout
<1>3. approval'[r] = NewRow(clock + ttl) /\ Exists(r)' /\ ~Exists(r)
  BY <1>2 DEF CreateApproval, Exists, NewRow
<1>4. ASSUME NEW q \in Requests, q # r
      PROVE  approval'[q] = approval[q] /\ fanout'[q] = fanout[q] /\ (Exists(q)' <=> Exists(q))
  BY <1>2, <1>4 DEF CreateApproval, Exists
<1>5. UNCHANGED <<clock, link, session, listing, committed>>
  BY DEF CreateApproval
<1>6. HeldReads'
  <2>1. ASSUME NEW p \in Deciders, session'[p].pc # "idle"
        PROVE  /\ Exists(session[p].req)'
               /\ session'[p].by = "callback-token"
                    => session'[p].reason = TapReason[session'[p].verdict]
               /\ session'[p].pc = "expire" => approval'[session'[p].req].expires < clock'
    <3>1. session[p] \in Session /\ Exists(session[p].req)
      BY <1>5, <2>1, SessionType DEF ApprovalsInv, ApprovalsTyped, HeldReads
    <3>2. session[p].req \in Requests /\ session[p].req # r
      BY <1>3, <3>1 DEF Session
    <3>3. QED
      BY <1>4, <1>5, <2>1, <3>1, <3>2 DEF ApprovalsInv, HeldReads
  <2>2. ASSUME NEW s \in Listers, listing'[s].pc = "sweep", NEW q \in listing'[s].rows
        PROVE  Exists(q)' /\ approval'[q].expires < clock'
    <3>1. q \in Requests /\ Exists(q)
      BY <1>5, <2>2 DEF ApprovalsInv, ApprovalsTyped, ApprovalsTypeOK, HeldReads, Listing, NoListing
    <3>2. QED
      BY <1>3, <1>4, <1>5, <2>2, <3>1 DEF ApprovalsInv, HeldReads
  <2>3. ASSUME NEW q \in Requests, link'[q] # 0 \/ committed'[q] # {} \/ fanout'[q].stage # "idle"
        PROVE  Exists(q)'
    BY <1>3, <1>4, <1>5, <2>3 DEF ApprovalsInv, HeldReads
  <2>4. QED
    BY <1>5, <2>1, <2>2, <2>3 DEF HeldReads, TapReason
<1>7. ColumnsAgree'
  <2> SUFFICES ASSUME NEW q \in Requests
               PROVE  /\ approval'[q].by = "none" <=> approval'[q].status \in {"none", "pending"}
                      /\ approval'[q].by = "ttl-sweep" <=> approval'[q].status = "expired"
                      /\ approval'[q].by = "ttl-sweep" => approval'[q].reason = "ttl_expired"
                      /\ approval'[q].by = "callback-token"
                           => approval'[q].reason = TapReason[approval'[q].status]
    BY DEF ColumnsAgree, TapReason
  <2>1. CASE q = r
    BY <1>3, <2>1 DEF NewRow
  <2>2. CASE q # r
    BY <1>4, <2>2 DEF ApprovalsInv, ColumnsAgree
  <2>3. QED
    BY <2>1, <2>2
<1>8. OnlyOverdueExpires'
  <2> SUFFICES ASSUME NEW q \in Requests, "expired" \in committed'[q]
               PROVE  approval'[q].expires < clock'
    BY DEF OnlyOverdueExpires
  <2>1. q # r
    BY <1>3, <1>5 DEF ApprovalsInv, HeldReads
  <2>2. QED
    BY <1>4, <1>5, <2>1 DEF ApprovalsInv, OnlyOverdueExpires
<1>9. QED
  BY <1>1, <1>6, <1>7, <1>8 DEF ApprovalsInv

\* Delivery touches no row before it writes the log, and then only the log.
LEMMA DeliveryInv ==
  ASSUME ApprovalsInv, NEW r \in Requests, TryChannel(r) \/ CommitDeliveryLog(r)
  PROVE  ApprovalsInv'
<1>1. ApprovalsTyped'
  BY TryChannelType, CommitDeliveryLogType DEF ApprovalsInv
<1>2. /\ approval \in [Requests -> Row]
      /\ fanout \in [Requests -> Fanout]
      /\ link \in [Requests -> Nat]
  BY DEF ApprovalsInv, ApprovalsTyped, ApprovalsTypeOK, Fanout
<1>3. Exists(r)
  BY DEF ApprovalsInv, HeldReads, TryChannel, CommitDeliveryLog
<1>4. UNCHANGED <<clock, session, listing, committed>>
  BY DEF TryChannel, CommitDeliveryLog
<1>5. ASSUME NEW q \in Requests
      PROVE  /\ approval'[q].status = approval[q].status
             /\ approval'[q].by = approval[q].by
             /\ approval'[q].reason = approval[q].reason
             /\ approval'[q].expires = approval[q].expires
             /\ Exists(q)' <=> Exists(q)
  <2>1. CASE TryChannel(r)
    BY <2>1 DEF TryChannel, Exists
  <2>2. CASE CommitDeliveryLog(r)
    BY <1>2, <2>2 DEF CommitDeliveryLog, Exists, Row
  <2>3. QED
    BY <2>1, <2>2
<1>6. ASSUME NEW q \in Requests, q # r
      PROVE  link'[q] = link[q] /\ fanout'[q] = fanout[q]
  BY <1>2, <1>6 DEF TryChannel, CommitDeliveryLog
<1>7. HeldReads'
  <2>1. ASSUME NEW p \in Deciders, session'[p].pc # "idle"
        PROVE  /\ Exists(session[p].req)'
               /\ session'[p].by = "callback-token"
                    => session'[p].reason = TapReason[session'[p].verdict]
               /\ session'[p].pc = "expire" => approval'[session'[p].req].expires < clock'
    <3>1. session[p] \in Session
      BY <1>4, <2>1, SessionType DEF ApprovalsInv, ApprovalsTyped
    <3>2. session[p].req \in Requests
      BY <3>1 DEF Session
    <3>3. QED
      BY <1>4, <1>5, <2>1, <3>2 DEF ApprovalsInv, HeldReads
  <2>2. ASSUME NEW s \in Listers, listing'[s].pc = "sweep", NEW q \in listing'[s].rows
        PROVE  Exists(q)' /\ approval'[q].expires < clock'
    <3>1. listing[s].pc = "sweep" /\ q \in listing[s].rows
      BY <1>4, <2>2
    <3>2. q \in Requests
      BY <3>1, SweepRows DEF ApprovalsInv, ApprovalsTyped
    <3>3. QED
      BY <1>4, <1>5, <3>1, <3>2 DEF ApprovalsInv, HeldReads
  <2>3. ASSUME NEW q \in Requests, link'[q] # 0 \/ committed'[q] # {} \/ fanout'[q].stage # "idle"
        PROVE  Exists(q)'
    BY <1>3, <1>4, <1>5, <1>6, <2>3 DEF ApprovalsInv, HeldReads
  <2>4. QED
    BY <1>4, <2>1, <2>2, <2>3 DEF HeldReads, TapReason
<1>8. ColumnsAgree'
  BY <1>5 DEF ApprovalsInv, ColumnsAgree, TapReason
<1>9. OnlyOverdueExpires'
  BY <1>4, <1>5 DEF ApprovalsInv, OnlyOverdueExpires
<1>10. QED
  BY <1>1, <1>7, <1>8, <1>9 DEF ApprovalsInv

\* A decide call keeps the invariant until its commit: what it found overdue
\* was overdue when it looked.
LEMMA DecideCallInv ==
  ASSUME ApprovalsInv, NEW p \in Deciders,
         \/ \E r \in Requests : AdminDecide(p, r) \/ TapLink(p, r)
         \/ ReadApproval(p) \/ CheckExpiry(p) \/ DropSession(p)
  PROVE  ApprovalsInv'
<1>1. ApprovalsTyped'
  BY DecideCallType DEF ApprovalsInv
<1>2. UNCHANGED <<clock, approval, fanout, link, listing, committed>>
  BY DEF AdminDecide, TapLink, ReadApproval, CheckExpiry, DropSession
<1>3. session \in [Deciders -> {NoSession} \union Session]
  BY DEF ApprovalsInv, ApprovalsTyped, ApprovalsTypeOK
<1>4. ASSUME NEW q \in Deciders, q # p PROVE session'[q] = session[q]
  BY <1>3, <1>4 DEF AdminDecide, TapLink, Opened, ReadApproval, CheckExpiry, DropSession
<1>5. ASSUME session'[p].pc # "idle"
      PROVE  /\ Exists(session'[p].req)
             /\ session'[p].by = "callback-token" =>
                  session'[p].reason = TapReason[session'[p].verdict]
             /\ session'[p].pc = "expire" => approval[session'[p].req].expires < clock
  <2>1. ASSUME NEW r \in Requests, AdminDecide(p, r) PROVE <1>5!2
    BY <2>1, <1>3 DEF AdminDecide, Opened
  <2>2. ASSUME NEW r \in Requests, TapLink(p, r) PROVE <1>5!2
    BY <2>2, <1>3 DEF TapLink, Opened, ApprovalsInv, HeldReads
  <2>3. CASE ReadApproval(p) \/ CheckExpiry(p)
    <3>1. session[p] \in Session /\ session[p].pc # "idle"
      BY <2>3, SessionType DEF ReadApproval, CheckExpiry, ApprovalsInv, ApprovalsTyped
    <3>2. /\ session'[p].req = session[p].req
          /\ session'[p].by = session[p].by
          /\ session'[p].reason = session[p].reason
          /\ session'[p].verdict = session[p].verdict
          /\ session'[p].pc = "expire" => approval[session[p].req].expires < clock
      BY <1>3, <1>5, <2>3, <3>1 DEF ReadApproval, CheckExpiry, Session, NoSession
    <3>3. QED
      BY <3>1, <3>2 DEF ApprovalsInv, HeldReads
  <2>4. CASE DropSession(p)
    BY <1>3, <1>5, <2>4 DEF DropSession, NoSession
  <2>5. QED
    BY <2>1, <2>2, <2>3, <2>4
<1>6. HeldReads'
  BY <1>2, <1>4, <1>5 DEF ApprovalsInv, HeldReads, Exists, TapReason
<1>7. QED
  BY <1>1, <1>2, <1>6, RowsUnchanged DEF ApprovalsInv

\* Rows and expiries that stay in place keep what the calls remember of them.
LEMMA HeldReadsKept ==
  ASSUME ApprovalsInv, clock' \in Nat, clock <= clock',
         UNCHANGED <<fanout, link>>,
         \A p \in Deciders : session'[p] = session[p] \/ session'[p] = NoSession,
         \A s \in Listers : listing'[s] = listing[s] \/ listing'[s].pc # "sweep",
         \A r \in Requests : committed'[r] # {} => Exists(r)',
         \A r \in Requests : /\ Exists(r)' <=> Exists(r)
                             /\ approval'[r].expires = approval[r].expires
  PROVE  HeldReads'
<1>1. approval \in [Requests -> Row] /\ clock \in Nat
  BY DEF ApprovalsInv, ApprovalsTyped, ApprovalsTypeOK
<1>2. \A r \in Requests : approval[r].expires \in Nat
  BY <1>1 DEF Row
<1>3. ASSUME NEW p \in Deciders, session'[p].pc # "idle"
      PROVE  /\ Exists(session[p].req)'
             /\ session'[p].by = "callback-token"
                  => session'[p].reason = TapReason[session'[p].verdict]
             /\ session'[p].pc = "expire" => approval'[session'[p].req].expires < clock'
  <2>1. session'[p] = session[p]
    BY <1>3 DEF NoSession
  <2>2. session[p].req \in Requests
    BY <1>3, <2>1, SessionType DEF ApprovalsInv, ApprovalsTyped, Session
  <2>3. QED
    BY <1>1, <1>2, <1>3, <2>1, <2>2 DEF ApprovalsInv, HeldReads
<1>4. ASSUME NEW s \in Listers, listing'[s].pc = "sweep", NEW r \in listing'[s].rows
      PROVE  Exists(r)' /\ approval'[r].expires < clock'
  <2>1. listing[s].pc = "sweep" /\ r \in listing[s].rows
    BY <1>4
  <2>2. r \in Requests
    BY <2>1, SweepRows DEF ApprovalsInv, ApprovalsTyped
  <2>3. QED
    BY <1>1, <1>2, <2>1, <2>2 DEF ApprovalsInv, HeldReads
<1>5. ASSUME NEW r \in Requests, link'[r] # 0 \/ committed'[r] # {} \/ fanout'[r].stage # "idle"
      PROVE  Exists(r)'
  BY <1>5 DEF ApprovalsInv, HeldReads
<1>6. QED
  BY <1>3, <1>4, <1>5 DEF HeldReads, TapReason, Exists

\* The commit of a decide call keeps the invariant, whoever wrote in between.
LEMMA DecideCommitInv ==
  ASSUME ApprovalsInv, NEW p \in Deciders, WriteExpired(p) \/ WriteDecision(p)
  PROVE  ApprovalsInv'
<1>1. ApprovalsTyped'
  BY DecideCommitType DEF ApprovalsInv
<1>2. session[p] \in Session /\ session[p].pc # "idle"
  BY SessionType DEF WriteExpired, WriteDecision, ApprovalsInv, ApprovalsTyped
<1> DEFINE rows == {session[p].req}
<1>3. rows \in SUBSET Requests /\ \A r \in rows : Exists(r)
  BY <1>2 DEF Session, ApprovalsInv, HeldReads
<1>4. UNCHANGED <<clock, fanout, link, listing>>
  BY DEF WriteExpired, WriteDecision
<1>5. /\ ColumnsAgree'
      /\ OnlyOverdueExpires'
      /\ \A q \in Requests : committed'[q] # {} => Exists(q)'
      /\ \A q \in Requests : /\ Exists(q)' <=> Exists(q)
                             /\ approval'[q].expires = approval[q].expires
  <2>1. CASE WriteExpired(p)
    <3> DEFINE why == [q \in Requests |-> "ttl_expired"]
    <3>1. why \in [Requests -> Reasons] /\ \A r \in rows : why[r] = "ttl_expired"
      BY <1>3 DEF Reasons
    <3>2. \A r \in rows : approval[r].expires < clock
      BY <1>3, <2>1 DEF WriteExpired, ApprovalsInv, HeldReads
    <3>3. Settle(rows, "expired", "ttl-sweep", why)
      BY <2>1 DEF WriteExpired, Expire
    <3>4. "expired" \in FinalStatuses
      BY DEF FinalStatuses
    <3>5. QED
      <4> HIDE DEF why, rows
      <4> QED BY <1>3, <1>4, <3>1, <3>2, <3>3, <3>4, SettleInv
  <2>2. CASE WriteDecision(p)
    <3> DEFINE why == [q \in Requests |-> IF session[p].reason = "none"
                                          THEN approval[q].reason ELSE session[p].reason]
    <3>1. why \in [Requests -> Reasons]
      BY <1>2 DEF ApprovalsInv, ApprovalsTyped, ApprovalsTypeOK, Row, Session
    <3>2. /\ session[p].verdict \in Verdicts
          /\ session[p].verdict \in FinalStatuses
          /\ session[p].verdict # "expired"
          /\ session[p].by \in {"admin", "callback-token"}
      BY <1>2 DEF Session, FinalStatuses, Verdicts
    <3>3. session[p].by = "callback-token" 
            => \A r \in rows : why[r] = TapReason[session[p].verdict]
      BY <1>2, <1>3, <3>2 DEF ApprovalsInv, HeldReads, TapReason, Verdicts
    <3>4. Settle(rows, session[p].verdict, session[p].by, why)
      BY <2>2 DEF WriteDecision
    <3>5. QED
      <4> HIDE DEF why, rows
      <4> QED BY <1>3, <1>4, <3>1, <3>2, <3>3, <3>4, SettleInv
  <2>3. QED
    BY <2>1, <2>2
<1>6. /\ clock' \in Nat
      /\ clock <= clock'
      /\ \A q \in Deciders : session'[q] = session[q] \/ session'[q] = NoSession
  BY <1>4 DEF WriteExpired, WriteDecision, ApprovalsInv, ApprovalsTyped, ApprovalsTypeOK
<1>7. HeldReads'
  BY <1>4, <1>5, <1>6, HeldReadsKept DEF NoListing
<1>8. QED
  BY <1>1, <1>5, <1>7 DEF ApprovalsInv

\* A pending-list call keeps the invariant: what it swept was overdue.
LEMMA ListingInv ==
  ASSUME ApprovalsInv, NEW s \in Listers,
         SweepRead(s) \/ SweepCommit(s) \/ QueryPending(s) \/ EndListing(s)
  PROVE  ApprovalsInv'
<1>1. ApprovalsTyped'
  BY ListingType DEF ApprovalsInv
<1>2. listing \in [Listers -> {NoListing} \union Listing] /\ clock \in Nat
  BY DEF ApprovalsInv, ApprovalsTyped, ApprovalsTypeOK
<1>3. UNCHANGED <<clock, fanout, link, session>>
  BY DEF SweepRead, SweepCommit, QueryPending, EndListing
<1>4. CASE SweepCommit(s)
  <2> DEFINE rows == listing[s].rows
             why == [q \in Requests |-> "ttl_expired"]
  <2>1. rows \in SUBSET Requests /\ listing[s] \in Listing
    BY <1>4, SweepRows DEF SweepCommit, ApprovalsInv, ApprovalsTyped
  <2>2. \A r \in rows : Exists(r) /\ approval[r].expires < clock
    BY <1>4 DEF SweepCommit, ApprovalsInv, HeldReads
  <2>3. why \in [Requests -> Reasons] /\ \A r \in rows : why[r] = "ttl_expired"
    BY <2>1 DEF Reasons
  <2>4. Settle(rows, "expired", "ttl-sweep", why) /\ "expired" \in FinalStatuses
    BY <1>4 DEF SweepCommit, Expire, FinalStatuses
  <2>5. /\ ColumnsAgree'
        /\ OnlyOverdueExpires'
        /\ \A q \in Requests : committed'[q] # {} => Exists(q)'
        /\ \A q \in Requests : /\ Exists(q)' <=> Exists(q)
                               /\ approval'[q].expires = approval[q].expires
    <3> HIDE DEF rows, why
    <3> QED BY <1>3, <2>1, <2>2, <2>3, <2>4, SettleInv
  <2>6. \A t \in Listers : listing'[t] = listing[t] \/ listing'[t].pc # "sweep"
    BY <1>2, <1>4, <2>1 DEF SweepCommit, Listing
  <2>7. HeldReads'
    BY <1>2, <1>3, <2>5, <2>6, HeldReadsKept
  <2>8. QED
    BY <1>1, <2>5, <2>7 DEF ApprovalsInv
<1>5. CASE SweepRead(s) \/ QueryPending(s) \/ EndListing(s)
  <2>1. UNCHANGED <<clock, approval, committed>>
    BY <1>5 DEF SweepRead, QueryPending, EndListing
  <2>2. ASSUME NEW t \in Listers, listing'[t].pc = "sweep"
        PROVE  \A r \in listing'[t].rows : Exists(r) /\ approval[r].expires < clock
    <3>1. CASE listing'[t] = listing[t]
      BY <2>2, <3>1 DEF ApprovalsInv, HeldReads
    <3>2. CASE listing'[t] # listing[t]
      <4>1. listing'[t].rows = Overdue
        BY <1>2, <1>5, <2>2, <3>2, SweepRows
           DEF SweepRead, QueryPending, EndListing, NoListing, Listing
      <4>2. QED
        BY <4>1 DEF Overdue, Exists
    <3>3. QED
      BY <3>1, <3>2
  <2>3. HeldReads'
    BY <1>3, <2>1, <2>2 DEF ApprovalsInv, HeldReads, Exists, TapReason
  <2>4. QED
    BY <1>1, <2>1, <2>3, RowsUnchanged DEF ApprovalsInv
<1>6. QED
  BY <1>4, <1>5

\* Time keeps the invariant: what is overdue stays so.
LEMMA TickInv ==
  ASSUME ApprovalsInv, Tick PROVE ApprovalsInv'
<1>1. ApprovalsTyped'
  BY OperatorsType DEF ApprovalsInv, Operators
<1>2. /\ clock \in Nat /\ clock' = clock + 1
      /\ UNCHANGED <<approval, fanout, link, session, listing, committed>>
  BY DEF Tick, ApprovalsInv, ApprovalsTyped, ApprovalsTypeOK
<1>3. ColumnsAgree'
  BY <1>2 DEF ApprovalsInv, ColumnsAgree, TapReason
<1>4. \A r \in Requests : approval[r].expires \in Nat
  BY DEF ApprovalsInv, ApprovalsTyped, ApprovalsTypeOK, Row
<1>5. OnlyOverdueExpires'
  BY <1>2, <1>4 DEF ApprovalsInv, OnlyOverdueExpires
<1>6. \A r \in Requests : committed'[r] # {} => Exists(r)'
  BY <1>2 DEF ApprovalsInv, HeldReads, Exists
<1>7. HeldReads'
  BY <1>2, <1>6, HeldReadsKept DEF Exists
<1>8. QED
  BY <1>1, <1>3, <1>5, <1>7 DEF ApprovalsInv

\* A step that changes nothing keeps the invariant.
LEMMA StutterInv == ASSUME ApprovalsInv, UNCHANGED approvalVars PROVE ApprovalsInv'
<1>1. UNCHANGED <<clock, approval, fanout, link, session, listing, committed>>
  BY DEF approvalVars
<1>2. ApprovalsTyped'
  BY <1>1 DEF ApprovalsInv, ApprovalsTyped, ApprovalsTypeOK, FanoutInTargets, ResolveTargets
<1>3. HeldReads'
  BY <1>1 DEF ApprovalsInv, HeldReads, Exists, TapReason
<1>4. QED
  BY <1>1, <1>2, <1>3, RowsUnchanged DEF ApprovalsInv

\* Whatever the operators and the clock do keeps the invariant.
LEMMA OperatorsInv ==
  ASSUME ApprovalsInv, Operators PROVE ApprovalsInv'
  BY DecideCallInv, DecideCommitInv, ListingInv, TickInv DEF Operators

----------------------------------------------------------------------------
(* The service on its own *)

\* One step of create_and_deliver keeps the invariant.
LEMMA CreateAndDeliverInv ==
  ASSUME ApprovalsInv, NEW r \in Requests, CreateAndDeliver(r) PROVE ApprovalsInv'
<1>1. ASSUME NEW ttl \in TTLs, CreateApproval(r, ttl) PROVE ApprovalsInv'
  <2>1. ttl \in Nat
    BY TTLsAssumption DEF TTLsAssumption
  <2>2. QED
    BY <1>1, <2>1, CreateApprovalInv
<1>2. QED
  BY <1>1, DeliveryInv DEF CreateAndDeliver

\* The inductive invariant holds of every behaviour of the service.
THEOREM Invariance == ServiceSpec => []ApprovalsInv
<1>1. ApprovalsInit => ApprovalsInv
  BY InitInv
<1>2. ApprovalsInv /\ [ServiceNext]_approvalVars => ApprovalsInv'
  BY CreateAndDeliverInv, OperatorsInv, StutterInv DEF ServiceNext
<1>3. QED
  BY <1>1, <1>2, PTL DEF ServiceSpec

\* Every variable of the approvals table keeps its type.
THEOREM TypeCorrect == ServiceSpec => []ApprovalsTypeOK
<1>1. ApprovalsInv => ApprovalsTypeOK
  BY DEF ApprovalsInv, ApprovalsTyped
<1>2. QED
  BY <1>1, Invariance, PTL

\* However many deciders and sweeps race on a row, its columns agree on who
\* settled it and how.
THEOREM ColumnsAlwaysAgree == ServiceSpec => []ColumnsAgree
<1>1. ApprovalsInv => ColumnsAgree
  BY DEF ApprovalsInv
<1>2. QED
  BY <1>1, Invariance, PTL

\* No row is ever expired before its time, whatever a call still remembers.
THEOREM NeverExpiredEarly == ServiceSpec => []OnlyOverdueExpires
<1>1. ApprovalsInv => OnlyOverdueExpires
  BY DEF ApprovalsInv
<1>2. QED
  BY <1>1, Invariance, PTL

----------------------------------------------------------------------------
(* Finality.  The argument is about who may still write: a call writes only  *)
(* what it read as pending, and nobody reads a settled row as pending.       *)

\* A row with its log rewritten, or not, is the row but for its log.
LEMMA ButForTheLog ==
  ASSUME NEW row \in Row, NEW log PROVE
    /\ [row EXCEPT !.log = log] = [row EXCEPT !.log = [row EXCEPT !.log = log].log]
    /\ row = [row EXCEPT !.log = row.log]
  BY DEF Row

\* Creation and delivery leave a quiet row quiet, and write its log at most.
LEMMA DeliveryKeepsQuiet ==
  ASSUME ApprovalsInv, NEW q \in Requests, CreateAndDeliver(q), NEW r \in Requests, Quiet(r)
  PROVE  /\ Quiet(r)'
         /\ approval'[r] = [approval[r] EXCEPT !.log = approval'[r].log]
<1>1. approval \in [Requests -> Row] /\ approval[r] \in Row
  BY DEF ApprovalsInv, ApprovalsTyped, ApprovalsTypeOK
<1>2. \/ approval'[r] = approval[r]
      \/ approval'[r] = [approval[r] EXCEPT !.log = fanout[q].attempts]
  <2>1. ASSUME NEW ttl \in TTLs, CreateApproval(q, ttl) PROVE approval'[r] = approval[r]
    <3>1. q # r
      BY <2>1 DEF CreateApproval, Exists, Quiet, FinalStatuses, Verdicts
    <3>2. QED
      BY <1>1, <2>1, <3>1 DEF CreateApproval
  <2>2. CASE TryChannel(q)
    BY <2>2 DEF TryChannel
  <2>3. CASE CommitDeliveryLog(q)
    BY <1>1, <2>3 DEF CommitDeliveryLog
  <2>4. QED
    BY <2>1, <2>2, <2>3 DEF CreateAndDeliver
<1>3. approval'[r] = [approval[r] EXCEPT !.log = approval'[r].log]
  BY <1>1, <1>2, ButForTheLog
<1>4. approval'[r].status = approval[r].status
  BY <1>1, <1>2 DEF Row
<1>5. UNCHANGED <<session, listing>>
  BY DEF CreateAndDeliver, CreateApproval, TryChannel, CommitDeliveryLog
<1>6. Quiet(r)'
  BY <1>4, <1>5 DEF Quiet
<1>7. QED
  BY <1>3, <1>6

\* A decide call never comes to hold a quiet row, and so never writes one.
LEMMA DecideKeepsQuiet ==
  ASSUME ApprovalsInv, NEW p \in Deciders, NEW r \in Requests, Quiet(r),
         \/ \E q \in Requests : AdminDecide(p, q) \/ TapLink(p, q)
         \/ ReadApproval(p) \/ CheckExpiry(p) \/ WriteExpired(p) \/ WriteDecision(p)
         \/ DropSession(p)
  PROVE  Quiet(r)' /\ approval'[r] = approval[r]
<1>1. /\ session \in [Deciders -> {NoSession} \union Session]
      /\ approval \in [Requests -> Row]
  BY DEF ApprovalsInv, ApprovalsTyped, ApprovalsTypeOK
<1>2. approval'[r] = approval[r]
  <2>1. CASE WriteExpired(p)
    <3>1. session[p].req # r
      BY <2>1 DEF WriteExpired, Quiet
    <3>2. QED
      BY <2>1, <3>1 DEF WriteExpired, Expire, Settle
  <2>2. CASE WriteDecision(p)
    <3>1. session[p].req # r
      BY <2>2 DEF WriteDecision, Quiet
    <3>2. QED
      BY <2>2, <3>1 DEF WriteDecision, Settle
  <2>3. QED
    BY <2>1, <2>2 DEF AdminDecide, TapLink, ReadApproval, CheckExpiry, DropSession
<1>3. ASSUME session'[p].pc \in {"check", "expire", "write"}
      PROVE  session'[p].req # r
  <2>1. ASSUME NEW q \in Requests, AdminDecide(p, q) \/ TapLink(p, q) PROVE FALSE
    BY <1>1, <1>3, <2>1 DEF AdminDecide, TapLink, Opened
  <2>2. CASE ReadApproval(p)
    <3>1. session[p] \in Session
      BY <2>2, SessionType DEF ReadApproval, ApprovalsInv, ApprovalsTyped
    <3>2. approval[session[p].req].status = "pending" /\ session'[p].req = session[p].req
      BY <1>1, <1>3, <2>2, <3>1 DEF ReadApproval, NoSession, Session
    <3>3. QED
      BY <3>2 DEF Quiet, FinalStatuses, Verdicts
  <2>3. CASE CheckExpiry(p)
    <3>1. session[p] \in Session
      BY <2>3, SessionType DEF CheckExpiry, ApprovalsInv, ApprovalsTyped
    <3>2. QED
      BY <1>1, <2>3, <3>1 DEF CheckExpiry, Quiet, Session
  <2>4. CASE WriteExpired(p) \/ WriteDecision(p) \/ DropSession(p)
    BY <1>1, <1>3, <2>4 DEF WriteExpired, WriteDecision, DropSession, NoSession
  <2>5. QED
    BY <2>1, <2>2, <2>3, <2>4
<1>4. ASSUME NEW o \in Deciders, o # p PROVE session'[o] = session[o]
  BY <1>1, <1>4 DEF AdminDecide, TapLink, Opened, ReadApproval, CheckExpiry, WriteExpired,
                    WriteDecision, DropSession
<1>5. UNCHANGED listing
  BY DEF AdminDecide, TapLink, ReadApproval, CheckExpiry, WriteExpired, WriteDecision,
         DropSession
<1>6. QED
  BY <1>2, <1>3, <1>4, <1>5 DEF Quiet

\* A sweep never comes to hold a quiet row, and so never expires one.
LEMMA ListingKeepsQuiet ==
  ASSUME ApprovalsInv, NEW s \in Listers, NEW r \in Requests, Quiet(r),
         SweepRead(s) \/ SweepCommit(s) \/ QueryPending(s) \/ EndListing(s)
  PROVE  Quiet(r)' /\ approval'[r] = approval[r]
<1>1. /\ listing \in [Listers -> {NoListing} \union Listing]
      /\ approval \in [Requests -> Row]
  BY DEF ApprovalsInv, ApprovalsTyped, ApprovalsTypeOK
<1>2. approval'[r] = approval[r]
  <2>1. CASE SweepCommit(s)
    <3>1. r \notin listing[s].rows
      BY <2>1 DEF SweepCommit, Quiet
    <3>2. QED
      BY <2>1, <3>1 DEF SweepCommit, Expire, Settle
  <2>2. QED
    BY <2>1 DEF SweepRead, QueryPending, EndListing
<1>3. ASSUME listing'[s].pc = "sweep"
      PROVE  r \notin listing'[s].rows
  <2>1. CASE SweepRead(s)
    <3>1. listing'[s].rows = Overdue
      BY <1>1, <2>1 DEF SweepRead
    <3>2. QED
      BY <3>1 DEF Overdue, Quiet, FinalStatuses, Verdicts
  <2>2. CASE SweepCommit(s)
    <3>1. listing[s] \in Listing
      BY <2>2, SweepRows DEF SweepCommit, ApprovalsInv, ApprovalsTyped
    <3>2. QED
      BY <1>1, <1>3, <2>2, <3>1 DEF SweepCommit, Listing
  <2>3. CASE QueryPending(s)
    <3>1. listing[s] \in Listing
      BY <1>1, <2>3 DEF QueryPending, NoListing
    <3>2. QED
      BY <1>1, <1>3, <2>3, <3>1 DEF QueryPending, Listing
  <2>4. CASE EndListing(s)
    BY <1>1, <1>3, <2>4 DEF EndListing, NoListing
  <2>5. QED
    BY <2>1, <2>2, <2>3, <2>4
<1>4. ASSUME NEW t \in Listers, t # s PROVE listing'[t] = listing[t]
  BY <1>1, <1>4 DEF SweepRead, SweepCommit, QueryPending, EndListing
<1>5. UNCHANGED session
  BY DEF SweepRead, SweepCommit, QueryPending, EndListing
<1>6. QED
  BY <1>2, <1>3, <1>4, <1>5 DEF Quiet

\* Once the calls that saw a row pending have ended, a settled row is settled for
\* good: later calls, taps and sweeps, however many, change nothing but its log.
THEOREM Finality == ServiceSpec => SettledIsFinal
<1>1. ASSUME ApprovalsInv, ServiceNext, NEW r \in Requests, Quiet(r)
      PROVE  /\ Quiet(r)'
             /\ approval'[r] = [approval[r] EXCEPT !.log = approval'[r].log]
  <2>1. approval[r] \in Row
    BY <1>1 DEF ApprovalsInv, ApprovalsTyped, ApprovalsTypeOK
  <2>2. ASSUME NEW q \in Requests, CreateAndDeliver(q)
        PROVE  /\ Quiet(r)'
               /\ approval'[r] = [approval[r] EXCEPT !.log = approval'[r].log]
    BY <1>1, <2>2, DeliveryKeepsQuiet
  <2>3. ASSUME Operators
        PROVE  /\ Quiet(r)'
               /\ approval'[r] = [approval[r] EXCEPT !.log = approval'[r].log]
    <3>1. Quiet(r)' /\ approval'[r] = approval[r]
      <4>1. CASE Tick
        BY <1>1, <4>1 DEF Tick, Quiet
      <4>2. QED
        BY <1>1, <2>3, <4>1, DecideKeepsQuiet, ListingKeepsQuiet DEF Operators
    <3>2. QED
      BY <2>1, <3>1, ButForTheLog
  <2>4. QED
    BY <1>1, <2>2, <2>3 DEF ServiceNext
<1>2. ApprovalsInv /\ [ServiceNext]_approvalVars =>
        [\A r \in Requests :
           Quiet(r) => /\ Quiet(r)'
                       /\ approval'[r] = [approval[r] EXCEPT !.log = approval'[r].log]]_approvalVars
  BY <1>1
<1>3. QED
  BY <1>2, Invariance, PTL DEF ServiceSpec, SettledIsFinal

----------------------------------------------------------------------------
(* Delivery and the pending list.  What each needs of the operators is that  *)
(* they neither touch a log or an expiry nor make a row pending.             *)

\* What operators leave of a row.
RowKept(r) ==
    /\ approval'[r].log = approval[r].log
    /\ approval'[r].expires = approval[r].expires
    /\ Exists(r)' <=> Exists(r)
    /\ approval'[r].status = "pending" => approval[r].status = "pending"

LEMMA SettledRowsKept ==
  ASSUME ApprovalsInv, NEW rows \in SUBSET Requests, NEW status \in FinalStatuses,
         NEW by, NEW reason, Settle(rows, status, by, reason), \A r \in rows : Exists(r)
  PROVE  \A r \in Requests : RowKept(r)
<1>1. approval \in [Requests -> Row]
  BY DEF ApprovalsInv, ApprovalsTyped, ApprovalsTypeOK
<1>2. ASSUME NEW r \in Requests PROVE RowKept(r)
  <2>1. CASE r \in rows
    BY <1>1, <2>1 DEF Settle, Row, RowKept, Exists, FinalStatuses, Verdicts
  <2>2. CASE r \notin rows
    BY <2>2 DEF Settle, RowKept, Exists
  <2>3. QED
    BY <2>1, <2>2
<1>3. QED
  BY <1>2

LEMMA OperatorsKeepRows ==
  ASSUME ApprovalsInv, Operators
  PROVE  fanout' = fanout /\ \A r \in Requests : RowKept(r)
<1> "expired" \in FinalStatuses
  BY DEF FinalStatuses
<1>1. ASSUME NEW p \in Deciders, WriteExpired(p) \/ WriteDecision(p)
      PROVE  \A r \in Requests : RowKept(r)
  <2> DEFINE rows == {session[p].req}
  <2>1. /\ session[p] \in Session /\ rows \in SUBSET Requests /\ \A r \in rows : Exists(r)
        /\ session[p].verdict \in FinalStatuses
    BY <1>1, SessionType DEF WriteExpired, WriteDecision, ApprovalsInv, ApprovalsTyped,
                             HeldReads, Session, FinalStatuses
  <2>2. PICK status \in FinalStatuses, by \in {session[p].by, "ttl-sweep"},
             reason \in {[r \in Requests |-> "ttl_expired"],
                         [r \in Requests |-> IF session[p].reason = "none"
                                             THEN approval[r].reason ELSE session[p].reason]} :
          Settle(rows, status, by, reason)
    <3>1. CASE WriteExpired(p)
      BY <3>1 DEF WriteExpired, Expire
    <3>2. CASE WriteDecision(p)
      BY <2>1, <3>2 DEF WriteDecision
    <3>3. QED
      BY <1>1, <3>1, <3>2
  <2> HIDE DEF rows
  <2>3. QED
    BY <2>1, <2>2, SettledRowsKept
<1>2. ASSUME NEW s \in Listers, SweepCommit(s) PROVE \A r \in Requests : RowKept(r)
  <2>1. listing[s].rows \in SUBSET Requests /\ \A r \in listing[s].rows : Exists(r)
    BY <1>2, SweepRows DEF SweepCommit, ApprovalsInv, ApprovalsTyped, HeldReads
  <2>2. QED
    BY <1>2, <2>1, SettledRowsKept DEF SweepCommit, Expire
<1>3. approval' = approval => \A r \in Requests : RowKept(r)
  BY DEF RowKept, Exists
<1>4. \A r \in Requests : RowKept(r)
  BY <1>1, <1>2, <1>3 DEF Operators, AdminDecide, TapLink, ReadApproval, CheckExpiry,
                          DropSession, SweepRead, QueryPending, EndListing, Tick
<1>5. fanout' = fanout
  BY DEF Operators, AdminDecide, TapLink, ReadApproval, CheckExpiry, WriteExpired,
         WriteDecision, DropSession, SweepRead, SweepCommit, QueryPending, EndListing, Tick
<1>6. QED
  BY <1>4, <1>5

\* One delivery succeeded, the last.
OneSuccess(log) == log # <<>> /\ \A i \in 1..Len(log) : log[i].succeeded <=> i = Len(log)

\* How far create_and_deliver has come, and what it has tried.
FanoutInv ==
    \A r \in Requests :
      /\ fanout[r].stage = "sending" =>
           \A i \in 1..Len(fanout[r].attempts) : ~fanout[r].attempts[i].succeeded
      /\ fanout[r].stage = "sent" => OneSuccess(fanout[r].attempts)
      /\ fanout[r].stage = "done" => OneSuccess(approval[r].log)

\* log_only, the last target, always succeeds; mail is followed by it when it failed.
LEMMA TryChannelFanout ==
  ASSUME ApprovalsInv, FanoutInv, NEW q \in Requests, TryChannel(q)
  PROVE  FanoutInv'
<1> DEFINE attempts == fanout[q].attempts
           tried    == Len(attempts) + 1
           channel  == ResolveTargets[tried]
<1>1. /\ fanout \in [Requests -> Fanout] /\ attempts \in Seq(Attempt) /\ Len(attempts) \in Nat
      /\ tried <= Len(ResolveTargets) /\ approval' = approval /\ fanout[q].stage = "sending"
  BY DEF TryChannel, ApprovalsInv, ApprovalsTyped, ApprovalsTypeOK, FanoutInTargets, Fanout
<1>2. PICK outcome \in DeliveryOutcomes(channel) :
        fanout' = [fanout EXCEPT ![q] =
          [stage    |-> IF LastTry(tried, channel, outcome.succeeded) THEN "sent" ELSE "sending",
           attempts |-> Append(attempts, [channel |-> channel, succeeded |-> outcome.succeeded])]]
  BY DEF TryChannel
<1>3. outcome.succeeded \in BOOLEAN
  BY OutcomeType
<1>4. LastTry(tried, channel, outcome.succeeded) <=> outcome.succeeded
  <2>1. CASE EmailConfigured
    BY <1>1, <1>3, <2>1 DEF LastTry, ResolveTargets, DeliveryOutcomes
  <2>2. CASE ~EmailConfigured
    BY <1>1, <1>3, <2>2 DEF LastTry, ResolveTargets, DeliveryOutcomes
  <2>3. QED
    BY <2>1, <2>2
<1> DEFINE last == [channel |-> channel, succeeded |-> outcome.succeeded]
<1>5. /\ fanout'[q].stage = IF outcome.succeeded THEN "sent" ELSE "sending"
      /\ fanout'[q].attempts = Append(attempts, last)
  BY <1>1, <1>2, <1>4
<1>6. \A i \in 1..Len(attempts) : ~attempts[i].succeeded
  BY <1>1 DEF FanoutInv
<1>7. /\ Len(Append(attempts, last)) = Len(attempts) + 1
      /\ \A i \in 1..Len(attempts) : Append(attempts, last)[i] = attempts[i]
      /\ Append(attempts, last)[Len(attempts) + 1] = last
      /\ Append(attempts, last) # <<>>
  BY <1>1
<1>8. last.succeeded = outcome.succeeded
  OBVIOUS
<1> HIDE DEF last, attempts, channel
<1>9. ASSUME NEW r \in Requests, r = q
      PROVE  /\ fanout'[r].stage = "sending" =>
                  \A i \in 1..Len(fanout'[r].attempts) : ~fanout'[r].attempts[i].succeeded
             /\ fanout'[r].stage = "sent" => OneSuccess(fanout'[r].attempts)
             /\ fanout'[r].stage # "done"
  <2>1. CASE outcome.succeeded
    <3>1. fanout'[q].stage = "sent" /\ fanout'[q].attempts # <<>>
      BY <1>5, <1>7, <2>1
    <3>2. ASSUME NEW i \in 1..Len(fanout'[q].attempts)
          PROVE  fanout'[q].attempts[i].succeeded <=> i = Len(fanout'[q].attempts)
      <4>1. CASE i = Len(attempts) + 1
        BY <1>5, <1>7, <1>8, <2>1, <4>1
      <4>2. CASE i \in 1..Len(attempts)
        BY <1>1, <1>5, <1>6, <1>7, <4>2
      <4>3. QED
        BY <1>1, <1>5, <1>7, <4>1, <4>2
    <3>3. QED
      BY <1>9, <3>1, <3>2 DEF OneSuccess
  <2>2. CASE ~outcome.succeeded
    <3>1. fanout'[q].stage = "sending"
      BY <1>5, <2>2
    <3>2. ASSUME NEW i \in 1..Len(fanout'[q].attempts)
          PROVE  ~fanout'[q].attempts[i].succeeded
      BY <1>1, <1>5, <1>6, <1>7, <1>8, <2>2
    <3>3. QED
      BY <1>9, <3>1, <3>2
  <2>3. QED
    BY <1>3, <2>1, <2>2
<1>10. \A r \in Requests : r # q => fanout'[r] = fanout[r]
  BY <1>1, <1>2
<1>11. QED
  BY <1>1, <1>9, <1>10 DEF FanoutInv

LEMMA FanoutKept ==
  ASSUME ApprovalsInv, FanoutInv, [ServiceNext]_approvalVars
  PROVE  FanoutInv'
<1>1. fanout \in [Requests -> Fanout] /\ approval \in [Requests -> Row]
  BY DEF ApprovalsInv, ApprovalsTyped, ApprovalsTypeOK, Fanout
<1>2. ASSUME NEW r \in Requests, NEW ttl \in TTLs, CreateApproval(r, ttl) PROVE FanoutInv'
  <2>1. \A q \in Requests : q # r => fanout'[q] = fanout[q] /\ approval'[q] = approval[q]
    BY <1>1, <1>2 DEF CreateApproval
  <2>2. fanout'[r].stage = "sending" /\ Len(fanout'[r].attempts) = 0
    BY <1>1, <1>2 DEF CreateApproval
  <2>3. QED
    BY <2>1, <2>2 DEF FanoutInv
<1>3. ASSUME NEW r \in Requests, CommitDeliveryLog(r) PROVE FanoutInv'
  <2>1. \A q \in Requests : q # r => fanout'[q] = fanout[q] /\ approval'[q] = approval[q]
    BY <1>1, <1>3 DEF CommitDeliveryLog
  <2>2. fanout'[r].stage = "done" /\ approval'[r].log = fanout[r].attempts
    BY <1>1, <1>3 DEF CommitDeliveryLog, Fanout, Row
  <2>3. OneSuccess(fanout[r].attempts)
    BY <1>3 DEF CommitDeliveryLog, FanoutInv
  <2>4. QED
    BY <2>1, <2>2, <2>3 DEF FanoutInv
<1>4. CASE Operators
  BY <1>4, OperatorsKeepRows DEF FanoutInv, RowKept
<1>5. CASE UNCHANGED approvalVars
  BY <1>5 DEF approvalVars, FanoutInv
<1>6. QED
  BY <1>2, <1>3, <1>4, <1>5, TryChannelFanout DEF ServiceNext, CreateAndDeliver

\* Whatever becomes of the mail, create_and_deliver leaves on the row one delivery
\* that succeeded, and it is the last.
THEOREM DeliversOnce == ServiceSpec => []DeliveredOnce
<1>1. ApprovalsInit => FanoutInv
  <2>1. ASSUME ApprovalsInit, NEW r \in Requests PROVE fanout[r].stage = "idle"
    <3>1. fanout[r] = [stage |-> "idle", attempts |-> <<>>]
      BY <2>1 DEF ApprovalsInit
    <3>2. QED
      BY <3>1
  <2>2. QED
    BY <2>1 DEF FanoutInv
<1>2. ApprovalsInv /\ FanoutInv /\ [ServiceNext]_approvalVars => FanoutInv'
  BY FanoutKept
<1>3. FanoutInv => DeliveredOnce
  BY DEF FanoutInv, OneSuccess, DeliveredOnce
<1>4. QED
  BY <1>1, <1>2, <1>3, Invariance, PTL DEF ServiceSpec

\* What a pending-list call has made sure of by where it is.
SweepInv ==
    \A s \in Listers :
      /\ listing[s].pc # "idle" => listing[s].now <= clock
      /\ listing[s].pc = "sweep" =>
           \A r \in Requests :
             approval[r].status = "pending" /\ approval[r].expires < listing[s].now
               => r \in listing[s].rows
      /\ listing[s].pc = "query" =>
           \A r \in Requests : approval[r].status = "pending" => approval[r].expires >= listing[s].now
      /\ listing[s].pc = "shown" =>
           \A r \in listing[s].rows : Exists(r) /\ approval[r].expires >= listing[s].now

\* The steps of a list call itself.
LEMMA ListingSweeps ==
  ASSUME ApprovalsInv, SweepInv, NEW s \in Listers,
         SweepRead(s) \/ SweepCommit(s) \/ QueryPending(s) \/ EndListing(s)
  PROVE  SweepInv'
<1>1. /\ listing \in [Listers -> {NoListing} \union Listing] /\ clock \in Nat
      /\ approval \in [Requests -> Row] /\ clock' = clock
  BY DEF ApprovalsInv, ApprovalsTyped, ApprovalsTypeOK, SweepRead, SweepCommit, QueryPending,
         EndListing
<1>2. \A r \in Requests : approval[r].expires \in Nat
  BY <1>1 DEF Row
<1>3. Operators
  BY DEF Operators
<1>4. ASSUME NEW t \in Listers, t # s
      PROVE  /\ listing'[t] = listing[t]
             /\ listing[t].pc = "shown" => listing[t].rows \subseteq Requests
  BY <1>1, <1>4 DEF SweepRead, SweepCommit, QueryPending, EndListing, NoListing, Listing
<1> DEFINE Holds(t) ==
      /\ listing'[t].pc # "idle" => listing'[t].now <= clock
      /\ listing'[t].pc = "sweep" =>
           \A r \in Requests :
             approval'[r].status = "pending" /\ approval'[r].expires < listing'[t].now
               => r \in listing'[t].rows
      /\ listing'[t].pc = "query" =>
           \A r \in Requests :
             approval'[r].status = "pending" => approval'[r].expires >= listing'[t].now
      /\ listing'[t].pc = "shown" =>
           \A r \in listing'[t].rows : Exists(r)' /\ approval'[r].expires >= listing'[t].now
<1>5. ASSUME NEW t \in Listers, t # s PROVE Holds(t)
  BY <1>3, <1>4, <1>5, OperatorsKeepRows DEF SweepInv, RowKept
<1>6. Holds(s)
  <2>1. CASE SweepRead(s)
    <3>1. /\ listing'[s].pc = IF Overdue = {} THEN "query" ELSE "sweep"
          /\ listing'[s].now = clock /\ listing'[s].rows = Overdue /\ approval' = approval
      BY <1>1, <2>1 DEF SweepRead
    <3>2. QED
      BY <1>1, <1>2, <3>1 DEF Overdue
  <2>2. CASE SweepCommit(s)
    <3>1. listing[s] \in Listing
      BY <2>2, SweepRows DEF SweepCommit, ApprovalsInv, ApprovalsTyped
    <3>2. /\ listing'[s].pc = "query" /\ listing'[s].now = listing[s].now
          /\ listing[s].now \in Nat /\ listing[s].now <= clock
      BY <1>1, <2>2, <3>1 DEF SweepCommit, Listing, SweepInv
    <3>3. ASSUME NEW r \in Requests, approval'[r].status = "pending"
          PROVE  r \notin listing[s].rows
      BY <1>1, <2>2, <3>3 DEF SweepCommit, Expire, Settle, Row
    <3>4. ASSUME NEW r \in Requests, approval'[r].status = "pending"
          PROVE  approval'[r].expires >= listing[s].now
      BY <1>2, <1>3, <2>2, <3>2, <3>3, <3>4, OperatorsKeepRows DEF SweepCommit, SweepInv, RowKept
    <3>5. QED
      BY <3>2, <3>4
  <2>3. CASE QueryPending(s)
    <3>1. listing[s] \in Listing
      BY <1>1, <2>3 DEF QueryPending, NoListing
    <3>2. /\ listing'[s].pc = "shown" /\ listing'[s].now = listing[s].now
          /\ listing'[s].rows = Pending /\ approval' = approval
          /\ listing[s].now <= clock
      BY <1>1, <2>3, <3>1 DEF QueryPending, Listing, SweepInv
    <3>3. QED
      BY <2>3, <3>2 DEF QueryPending, SweepInv, Pending, Exists
  <2>4. CASE EndListing(s)
    BY <1>1, <2>4 DEF EndListing, NoListing
  <2>5. QED
    BY <2>1, <2>2, <2>3, <2>4
<1>7. QED
  BY <1>1, <1>5, <1>6 DEF SweepInv

LEMMA SweepKept ==
  ASSUME ApprovalsInv, SweepInv, [ServiceNext]_approvalVars
  PROVE  SweepInv'
<1>1. /\ listing \in [Listers -> {NoListing} \union Listing] /\ clock \in Nat
      /\ approval \in [Requests -> Row]
      /\ \A s \in Listers : listing[s].pc # "idle" => listing[s].now \in Nat
      /\ \A s \in Listers : listing[s].pc = "shown" => listing[s].rows \subseteq Requests
  BY DEF ApprovalsInv, ApprovalsTyped, ApprovalsTypeOK, NoListing, Listing
<1>2. ASSUME listing' = listing, clock' \in Nat, clock <= clock',
             \A r \in Requests :
               \/ /\ approval'[r].expires = approval[r].expires
                  /\ Exists(r)' <=> Exists(r)
                  /\ approval'[r].status = "pending" => approval[r].status = "pending"
               \/ ~Exists(r) /\ Exists(r)' /\ approval'[r].expires >= clock
                                           /\ approval'[r].expires \in Nat
      PROVE  SweepInv'
  <2> SUFFICES ASSUME NEW s \in Listers
               PROVE  /\ listing[s].pc # "idle" => listing[s].now <= clock'
                      /\ listing[s].pc = "sweep" =>
                           \A r \in Requests :
                             approval'[r].status = "pending" /\ approval'[r].expires < listing[s].now
                               => r \in listing[s].rows
                      /\ listing[s].pc = "query" =>
                           \A r \in Requests :
                             approval'[r].status = "pending"
                               => approval'[r].expires >= listing[s].now
                      /\ listing[s].pc = "shown" =>
                           \A r \in listing[s].rows :
                             Exists(r)' /\ approval'[r].expires >= listing[s].now
    BY <1>2 DEF SweepInv
  <2>1. listing[s].pc # "idle" => listing[s].now \in Nat /\ listing[s].now <= clock
    BY <1>1 DEF SweepInv
  <2>2. \A r \in Requests : ~Exists(r) /\ Exists(r)' /\ listing[s].pc # "idle"
          => approval'[r].expires >= listing[s].now \/ approval'[r].expires = approval[r].expires
    BY <1>1, <1>2, <2>1
  <2>3. QED
    BY <1>1, <1>2, <2>1, <2>2 DEF SweepInv
<1>3. ASSUME NEW r \in Requests, CreateAndDeliver(r) PROVE SweepInv'
  <2>1. listing' = listing /\ clock' = clock
    BY <1>3 DEF CreateAndDeliver, CreateApproval, TryChannel, CommitDeliveryLog
  <2>2. ASSUME NEW ttl \in TTLs, CreateApproval(r, ttl), NEW q \in Requests
        PROVE  \/ approval'[q] = approval[q]
               \/ ~Exists(q) /\ Exists(q)' /\ approval'[q].expires = clock + ttl
    BY <1>1, <2>2 DEF CreateApproval, Exists, NewRow
  <2>3. ASSUME TryChannel(r) \/ CommitDeliveryLog(r), NEW q \in Requests
        PROVE  approval'[q].expires = approval[q].expires /\ approval'[q].status = approval[q].status
    <3>1. CASE TryChannel(r)
      BY <3>1 DEF TryChannel
    <3>2. CASE CommitDeliveryLog(r)
      BY <1>1, <3>2 DEF CommitDeliveryLog, Row
    <3>3. QED
      BY <2>3, <3>1, <3>2
  <2>4. QED
    BY <1>1, <1>2, <1>3, <2>1, <2>2, <2>3, TTLsAssumption DEF CreateAndDeliver, Exists
<1>4. ASSUME Operators, UNCHANGED listing PROVE SweepInv'
  <2>1. clock' \in {clock, clock + 1}
    BY <1>4 DEF Operators, AdminDecide, TapLink, ReadApproval, CheckExpiry, WriteExpired,
         WriteDecision, DropSession, SweepRead, SweepCommit, QueryPending, EndListing, Tick
  <2>2. QED
    BY <1>1, <1>2, <1>4, <2>1, OperatorsKeepRows DEF RowKept
<1>5. ASSUME Operators, listing' # listing
      PROVE  \E s \in Listers : SweepRead(s) \/ SweepCommit(s) \/ QueryPending(s) \/ EndListing(s)
  BY <1>5 DEF Operators, AdminDecide, TapLink, ReadApproval, CheckExpiry, WriteExpired,
              WriteDecision, DropSession, Tick
<1>6. CASE UNCHANGED approvalVars
  BY <1>6 DEF approvalVars, SweepInv, Exists
<1>7. QED
  BY <1>3, <1>4, <1>5, <1>6, ListingSweeps DEF ServiceNext

\* The pending list (GET /approvals/pending) shows no row that was overdue when the
\* call came in, whatever is created, settled and swept between its two transactions.
THEOREM ListIsFresh == ServiceSpec => []ListedRowsWereFresh
<1>1. ApprovalsInit => SweepInv
  BY DEF ApprovalsInit, SweepInv, NoListing
<1>2. ApprovalsInv /\ SweepInv /\ [ServiceNext]_approvalVars => SweepInv'
  BY SweepKept
<1>3. SweepInv => ListedRowsWereFresh
  BY DEF SweepInv, ListedRowsWereFresh
<1>4. QED
  BY <1>1, <1>2, <1>3, Invariance, PTL DEF ServiceSpec

=============================================================================
