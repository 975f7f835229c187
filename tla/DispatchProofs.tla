---------------------------- MODULE DispatchProofs ----------------------------
(****************************************************************************)
(* The dispatch handler, for every number of requests, decide calls and     *)
(* list calls, every shape of request, every setting and every clock.       *)
(*                                                                          *)
(* The argument.  A handler's place says what it has put on the audit row   *)
(* and what it still remembers (HandlerInv); the row alone says what may    *)
(* have been executed and asked, wherever the handler is or died (RowInv);  *)
(* and the deciders, the sweeps and the clock, whatever they write, neither *)
(* make an approval nor take back a verdict that was committed.             *)
(****************************************************************************)
EXTENDS Dispatch, ApprovalsProofs

Places == {"new", "admit", "insert", "ask", "refresh", "deliver", "link", "check", "poll",
           "record", "forward", "call", "result"} \union Ended
Decided == {"none", "shadow", "queued"} \union Verdicts
Paths == {"none", "shadow-bypass"} \union AutoPaths \union HumanPaths
Outcomes == {"error", "refused", "success"}
Statuses == {"none", "pending"} \union FinalStatuses

Job == [decision : Decided, path : Paths, req : RequestShapes, seen : Statuses,
        deadline : Nat, outcome : {"none"} \union Outcomes]
Audit == [decision : Decided, path : Paths, approval : BOOLEAN, executed : BOOLEAN,
          result : {"none"} \union Outcomes]

\* A handler that has been let in has its locals; no other has.
HandlersTyped ==
    /\ pc \in [Requests -> Places]
    /\ job \in [Requests -> {NoJob} \union Job]
    /\ \A r \in Requests : pc[r] \notin {"new", "refused"} => job[r] \in Job
    /\ audit \in [Requests -> Audit]
    /\ registry \in [Capabilities -> {"absent", "auto", "human"}]
    /\ ran \in [Requests -> {0, 1}]
    /\ settings \in SettingsSet

\* What the row and the locals say.
Says(record, decision, path) == record.decision = decision /\ record.path = path

\* A first verdict, as the modes, the gate and the lanes give it.
FirstVerdict(record) ==
    \/ Says(record, "shadow", "shadow-bypass")
    \/ Says(record, "queued", "human-approval")
    \/ record.decision = "approved" /\ record.path \in AutoPaths

HandlerInv(r) ==
    /\ pc[r] \in {"new", "refused", "admit", "insert"} => audit[r] = NoAudit
    /\ pc[r] \in {"new", "refused", "admit", "insert", "ask"} => ~Exists(r)
    /\ pc[r] = "admit" => job[r].decision = "none"
    /\ pc[r] = "insert" => FirstVerdict(job[r])
    /\ pc[r] \in {"ask", "refresh", "deliver", "link", "check", "poll"} =>
         Says(job[r], "queued", "human-approval")
    /\ pc[r] \in {"ask", "refresh", "deliver", "link", "check", "poll", "record"} =>
         Says(audit[r], "queued", "human-approval")
    /\ pc[r] \in {"refresh", "deliver", "link"} => Exists(r)
    /\ pc[r] \in {"deliver", "link"} /\ job[r].seen \in Verdicts =>
         job[r].seen \in committed[r]
    /\ pc[r] = "link" => fanout[r].stage = "done"
    /\ pc[r] = "record" => /\ job[r].decision \in committed[r] \intersect Verdicts
                           /\ job[r].path = CallbackPath(job[r].decision)
    /\ pc[r] \in {"forward", "call", "result", "done"} =>
         Says(audit[r], job[r].decision, job[r].path)
    /\ pc[r] \in {"call", "result"} => Forwarded(r)
    /\ pc[r] \notin {"result", "done", "crashed"} => ran[r] = 0
    /\ pc[r] = "result" => /\ job[r].outcome \in Outcomes
                           /\ job[r].outcome = "success" => ran[r] = 1
    /\ pc[r] = "done" /\ Forwarded(r) => audit[r].result # "none"

RowInv(r) ==
    /\ ran[r] > 0 => audit[r].decision = "approved"
    /\ audit[r].result # "none" => pc[r] = "done"
    /\ audit[r].result = "success" => ran[r] = 1
    /\ audit[r].path = "human-approval" => audit[r].decision = "queued"
    /\ \A v \in Verdicts :
         audit[r].path = CallbackPath(v) => audit[r].decision = v /\ v \in committed[r]
    /\ Exists(r) => audit[r].path \in HumanPaths
    /\ ~Exists(r) => approval[r] = NoRow
    /\ approval[r].status \in Verdicts => approval[r].status \in committed[r]
    /\ audit[r].approval => Exists(r) /\ fanout[r].stage = "done"

\* In shadow mode no verdict but "shadow" is ever formed.
ShadowInv(r) ==
    pc[r] \notin {"new", "refused"} /\ ShadowMode(job[r].req.header, settings) =>
      job[r].decision \in {"none", "shadow"} /\ audit[r].decision \in {"none", "shadow"}

RequestInv(r) == HandlerInv(r) /\ RowInv(r) /\ ShadowInv(r)

DispatchInv ==
    /\ ApprovalsInv
    /\ HandlersTyped
    /\ \A r \in Requests : RequestInv(r)

----------------------------------------------------------------------------
(* What each step does to a request that is not its own *)

\* The deciders, the sweeps and the clock make no approval and take back no verdict
\* that was committed; what they commit, they commit on approvals that were made.
LEMMA OperatorsFrame ==
  ASSUME ApprovalsInv, Operators, NEW r \in Requests
  PROVE  /\ Exists(r)' <=> Exists(r)
         /\ ~Exists(r) => approval'[r] = approval[r] /\ committed'[r] = committed[r]
         /\ committed[r] \subseteq committed'[r]
         /\ approval'[r].status = approval[r].status \/ approval'[r].status \in committed'[r]
         /\ UNCHANGED fanout
<1>1. /\ approval \in [Requests -> Row]
      /\ committed \in [Requests -> SUBSET FinalStatuses]
  BY DEF ApprovalsInv, ApprovalsTyped, ApprovalsTypeOK
<1>2. UNCHANGED fanout
  BY DEF Operators, AdminDecide, TapLink, ReadApproval, CheckExpiry, WriteExpired,
         WriteDecision, DropSession, SweepRead, SweepCommit, QueryPending, EndListing, Tick
<1>3. ASSUME NEW rows, NEW status \in FinalStatuses, NEW by, NEW reason,
             Settle(rows, status, by, reason), \A q \in rows : Exists(q)
      PROVE  /\ Exists(r)' <=> Exists(r)
             /\ ~Exists(r) => approval'[r] = approval[r] /\ committed'[r] = committed[r]
             /\ committed[r] \subseteq committed'[r]
             /\ \/ approval'[r].status = approval[r].status
                \/ approval'[r].status \in committed'[r]
  <2>1. CASE r \in rows
    <3>1. approval'[r].status = status /\ committed'[r] = committed[r] \union {status}
      BY <1>1, <1>3, <2>1 DEF Settle, Row
    <3>2. QED
      BY <1>3, <2>1, <3>1 DEF Exists, FinalStatuses, Verdicts
  <2>2. CASE r \notin rows
    BY <1>3, <2>2 DEF Settle, Exists
  <2>3. QED
    BY <2>1, <2>2
<1>4. ASSUME NEW p \in Deciders, WriteExpired(p) \/ WriteDecision(p)
      PROVE  /\ Exists(r)' <=> Exists(r)
             /\ ~Exists(r) => approval'[r] = approval[r] /\ committed'[r] = committed[r]
             /\ committed[r] \subseteq committed'[r]
             /\ \/ approval'[r].status = approval[r].status
                \/ approval'[r].status \in committed'[r]
  <2>1. session[p] \in Session /\ Exists(session[p].req)
    BY <1>4, SessionType DEF WriteExpired, WriteDecision, ApprovalsInv, ApprovalsTyped, HeldReads
  <2>2. session[p].verdict \in FinalStatuses /\ "expired" \in FinalStatuses
    BY <2>1 DEF Session, FinalStatuses
  <2>3. QED
    BY <1>3, <1>4, <2>1, <2>2 DEF WriteExpired, WriteDecision, Expire
<1>5. ASSUME NEW s \in Listers, SweepCommit(s)
      PROVE  /\ Exists(r)' <=> Exists(r)
             /\ ~Exists(r) => approval'[r] = approval[r] /\ committed'[r] = committed[r]
             /\ committed[r] \subseteq committed'[r]
             /\ \/ approval'[r].status = approval[r].status
                \/ approval'[r].status \in committed'[r]
  <2>1. \A q \in listing[s].rows : Exists(q)
    BY <1>5 DEF SweepCommit, ApprovalsInv, HeldReads
  <2>2. "expired" \in FinalStatuses
    BY DEF FinalStatuses
  <2>3. QED
    BY <1>3, <1>5, <2>1, <2>2 DEF SweepCommit, Expire
<1>6. CASE UNCHANGED <<approval, committed>>
  BY <1>2, <1>6 DEF Exists
<1>7. QED
  BY <1>2, <1>4, <1>5, <1>6
     DEF Operators, AdminDecide, TapLink, ReadApproval, CheckExpiry, DropSession,
         SweepRead, QueryPending, EndListing, Tick

\* What is said of a request stays true in a step that leaves its handler, its row
\* and its fan-out alone, and its approval where it is.
LEMMA RequestFrame ==
  ASSUME NEW r \in Requests, RequestInv(r), UNCHANGED settings,
         pc'[r] = pc[r], job'[r] = job[r], audit'[r] = audit[r], ran'[r] = ran[r],
         fanout'[r] = fanout[r], Exists(r)' <=> Exists(r),
         ~Exists(r) => approval'[r] = approval[r], committed[r] \subseteq committed'[r],
         approval'[r].status = approval[r].status \/ approval'[r].status \in committed'[r]
  PROVE  RequestInv(r)'
<1>1. HandlerInv(r)'
  BY DEF RequestInv, HandlerInv, FirstVerdict, Says, Forwarded
<1>2. RowInv(r)'
  BY DEF RequestInv, RowInv
<1>3. ShadowInv(r)'
  BY DEF RequestInv, ShadowInv
<1>4. QED
  BY <1>1, <1>2, <1>3 DEF RequestInv

\* A handler's step keeps the invariant if it keeps the types, what is said of the
\* table, and what is said of its own request, and touches no other request.
LEMMA HandlerStep ==
  ASSUME DispatchInv, NEW q \in Requests,
         ApprovalsInv', HandlersTyped', RequestInv(q)', UNCHANGED settings,
         \A r \in Requests \ {q} :
           /\ pc'[r] = pc[r] /\ job'[r] = job[r] /\ audit'[r] = audit[r] /\ ran'[r] = ran[r]
           /\ fanout'[r] = fanout[r] /\ approval'[r] = approval[r] /\ committed'[r] = committed[r]
  PROVE  DispatchInv'
<1>1. ASSUME NEW r \in Requests, r # q PROVE RequestInv(r)'
  BY <1>1, RequestFrame DEF DispatchInv, Exists
<1>2. QED
  BY <1>1 DEF DispatchInv

----------------------------------------------------------------------------
(* The handler's own steps *)

\* The three verdicts a request may start with, in every mode and lane.
LEMMA InitialVerdictFacts ==
  ASSUME NEW cap, NEW req, NEW s
  PROVE  /\ FirstVerdict(InitialVerdict(cap, req, s))
         /\ ShadowMode(req.header, s) => InitialVerdict(cap, req, s).decision = "shadow"
<1>1. CASE ShadowMode(req.header, s)
  BY <1>1 DEF InitialVerdict, FirstVerdict, Says
<1>2. CASE ~ShadowMode(req.header, s) /\ Gated(cap, req.args, s)
  BY <1>2 DEF InitialVerdict, FirstVerdict, Says
<1>3. CASE ~ShadowMode(req.header, s) /\ ~Gated(cap, req.args, s)
  <2>1. AutoPath(cap, req.args, s) \in AutoPaths
    BY DEF AutoPath, AutoPaths, LanePaths
  <2>2. InitialVerdict(cap, req, s) =
          [decision |-> "approved", path |-> AutoPath(cap, req.args, s)]
    BY <1>3 DEF InitialVerdict
  <2>3. QED
    BY <1>3, <2>1, <2>2 DEF FirstVerdict
<1>4. QED
  BY <1>1, <1>2, <1>3

\* A first verdict is of the types of the row, and asks humans exactly if it is "queued".
LEMMA FirstVerdictType ==
  ASSUME NEW record, FirstVerdict(record)
  PROVE  /\ record.decision \in {"shadow", "queued", "approved"}
         /\ record.decision \in Decided /\ record.path \in Paths
         /\ record.path \in HumanPaths <=> record.decision = "queued"
         /\ record.decision = "queued" <=> record.path = "human-approval"
         /\ \A v \in Verdicts : record.path # CallbackPath(v)
  BY DEF FirstVerdict, Says, Decided, Paths, AutoPaths, LanePaths, HumanPaths, Verdicts,
         CallbackPath

\* The paths of the two verdicts of a human.
LEMMA CallbackPathFacts ==
  \A v \in Verdicts : /\ CallbackPath(v) \in HumanPaths
                      /\ CallbackPath(v) # "human-approval"
                      /\ \A w \in Verdicts : CallbackPath(v) = CallbackPath(w) => v = w
  BY DEF Verdicts, CallbackPath, HumanPaths

\* Arrival: the locals are made, nothing is written.
LEMMA ArriveInv ==
  ASSUME DispatchInv, NEW q \in Requests, Arrive(q) PROVE DispatchInv'
<1>1. ApprovalsInv'
  BY StutterInv DEF DispatchInv, Arrive
<1>2. HandlersTyped /\ RequestInv(q) /\ pc[q] = "new"
  BY DEF DispatchInv, Arrive
<1>3. PICK req \in RequestShapes :
        IF TenantPermitted(req)
        THEN /\ pc' = [pc EXCEPT ![q] = "admit"]
             /\ job' = [job EXCEPT ![q] = [decision |-> "none", path |-> "none", req |-> req,
                                           seen |-> "none", deadline |-> 0,
                                           outcome |-> "none"]]
        ELSE /\ pc' = [pc EXCEPT ![q] = "refused"]
             /\ UNCHANGED job
  BY DEF Arrive
<1>4. UNCHANGED <<clock, approval, fanout, link, session, listing, committed>>
      /\ UNCHANGED <<audit, registry, ran, settings>>
  BY DEF Arrive, approvalVars
<1>5. [decision |-> "none", path |-> "none", req |-> req, seen |-> "none",
       deadline |-> 0, outcome |-> "none"] \in Job
  BY DEF Job, Decided, Paths, Statuses
<1>6. HandlersTyped'
  BY <1>2, <1>3, <1>4, <1>5 DEF HandlersTyped, Places, Ended
<1>7. RequestInv(q)'
  BY <1>2, <1>3, <1>4 DEF HandlersTyped, RequestInv, HandlerInv, RowInv, ShadowInv, Exists,
                          NoAudit, Forwarded
<1>8. QED
  BY <1>1, <1>3, <1>4, <1>6, <1>7, HandlerStep DEF HandlersTyped

\* Admission: the locals hold a first verdict, the row is still to be written.
LEMMA AdmitInv ==
  ASSUME DispatchInv, NEW q \in Requests, Admit(q) PROVE DispatchInv'
<1>1. ApprovalsInv'
  BY StutterInv DEF DispatchInv, Admit
<1>2. HandlersTyped /\ RequestInv(q) /\ pc[q] = "admit" /\ job[q] \in Job
  BY DEF DispatchInv, Admit, HandlersTyped
<1> DEFINE verdict == InitialVerdict(registry[job[q].req.capability], job[q].req, settings)
<1>3. /\ pc' = [pc EXCEPT ![q] = "insert"]
      /\ job' = [job EXCEPT ![q].decision = verdict.decision, ![q].path = verdict.path]
      /\ UNCHANGED <<clock, approval, fanout, link, session, listing, committed>>
      /\ UNCHANGED <<audit, registry, ran, settings>>
  BY DEF Admit, approvalVars
<1>4. /\ FirstVerdict(verdict)
      /\ ShadowMode(job[q].req.header, settings) => verdict.decision = "shadow"
      /\ verdict.decision \in Decided /\ verdict.path \in Paths
  BY InitialVerdictFacts, FirstVerdictType
<1> HIDE DEF verdict
<1>5. /\ job'[q] \in Job /\ job'[q].req = job[q].req
      /\ job'[q].decision = verdict.decision /\ job'[q].path = verdict.path
  BY <1>2, <1>3, <1>4 DEF HandlersTyped, Job
<1>6. HandlersTyped'
  BY <1>2, <1>3, <1>5 DEF HandlersTyped, Places
<1>7. FirstVerdict(job'[q])
  BY <1>4, <1>5 DEF FirstVerdict, Says
<1>8. RequestInv(q)'
  BY <1>2, <1>3, <1>4, <1>5, <1>7
     DEF HandlersTyped, RequestInv, HandlerInv, RowInv, ShadowInv, Exists, NoAudit, Forwarded,
         ShadowMode
<1>9. QED
  BY <1>1, <1>3, <1>6, <1>8, HandlerStep DEF HandlersTyped

\* The write-ahead row: it says what the handler decided, or there is none.
LEMMA InsertAuditInv ==
  ASSUME DispatchInv, NEW q \in Requests, InsertAudit(q) PROVE DispatchInv'
<1>1. ApprovalsInv'
  BY StutterInv DEF DispatchInv, InsertAudit
<1>2. HandlersTyped /\ RequestInv(q) /\ pc[q] = "insert" /\ job[q] \in Job
  BY DEF DispatchInv, InsertAudit, HandlersTyped
<1>3. /\ FirstVerdict(job[q]) /\ audit[q] = NoAudit /\ ~Exists(q) /\ ran[q] = 0
      /\ approval[q] = NoRow
  BY <1>2 DEF RequestInv, HandlerInv, RowInv
<1>4. UNCHANGED <<clock, approval, fanout, link, session, listing, committed>>
      /\ UNCHANGED <<job, registry, ran, settings>>
  BY DEF InsertAudit, approvalVars
<1>5. CASE registry[job[q].req.capability] = "absent"
  <2>1. pc' = [pc EXCEPT ![q] = "failed"] /\ UNCHANGED audit
    BY <1>5 DEF InsertAudit
  <2>2. HandlersTyped'
    BY <1>2, <1>4, <2>1 DEF HandlersTyped, Places, Ended
  <2>3. RequestInv(q)'
    BY <1>2, <1>3, <1>4, <2>1
       DEF HandlersTyped, RequestInv, HandlerInv, RowInv, ShadowInv, Exists, Forwarded
  <2>4. QED
    BY <1>1, <1>4, <2>1, <2>2, <2>3, HandlerStep DEF HandlersTyped
<1>6. CASE registry[job[q].req.capability] # "absent"
  <2>1. /\ pc' = [pc EXCEPT ![q] = IF job[q].decision = "queued" THEN "ask" ELSE "forward"]
        /\ audit' = [audit EXCEPT ![q] = NewAudit(job[q].decision, job[q].path)]
    BY <1>6 DEF InsertAudit
  <2>2. /\ NewAudit(job[q].decision, job[q].path) \in Audit
        /\ Says(NewAudit(job[q].decision, job[q].path), job[q].decision, job[q].path)
        /\ NewAudit(job[q].decision, job[q].path).result = "none"
        /\ NewAudit(job[q].decision, job[q].path).approval = FALSE
    BY <1>2 DEF NewAudit, NoAudit, Audit, Job, Says
  <2>3. HandlersTyped'
    BY <1>2, <1>4, <2>1, <2>2 DEF HandlersTyped, Places
  <2>4. /\ audit'[q].result = "none" /\ ~audit'[q].approval
        /\ Says(audit'[q], job[q].decision, job[q].path)
    BY <1>2, <2>1, <2>2 DEF HandlersTyped
  <2>5. /\ job[q].decision \in {"shadow", "queued", "approved"}
        /\ job[q].path \in HumanPaths <=> job[q].decision = "queued"
        /\ job[q].decision = "queued" <=> job[q].path = "human-approval"
        /\ \A v \in Verdicts : job[q].path # CallbackPath(v)
    BY <1>3, FirstVerdictType
  <2>6. HandlerInv(q)'
    BY <1>2, <1>3, <1>4, <2>1, <2>4, <2>5 DEF HandlersTyped, HandlerInv, Exists, Says, Forwarded
  <2>7. RowInv(q)'
    BY <1>2, <1>3, <1>4, <2>1, <2>4, <2>5 DEF HandlersTyped, RowInv, Exists, Says, Verdicts
  <2>8. ShadowInv(q)'
    BY <1>2, <1>4, <2>1, <2>4, <2>5 DEF HandlersTyped, RequestInv, ShadowInv, Says
  <2>9. RequestInv(q)'
    BY <2>6, <2>7, <2>8 DEF RequestInv
  <2>10. QED
    BY <1>1, <1>4, <2>1, <2>3, <2>9, HandlerStep DEF HandlersTyped
<1>7. QED
  BY <1>5, <1>6

\* The lifetimes are those of module Approvals.
LEMMA ApprovalTTLType == ASSUME NEW block \in Int PROVE ApprovalTTL(block) \in Nat
  BY DispatchAssumption DEF DispatchAssumption, ApprovalTTL

LEMMA BlockSecondsType == ASSUME NEW block \in Int PROVE BlockSeconds(block) \in Nat
  BY DispatchAssumption DEF DispatchAssumption, BlockSeconds

\* Asking: the one approval of the request is made, under a row that says "queued".
LEMMA AskInv ==
  ASSUME DispatchInv, NEW q \in Requests, Ask(q) PROVE DispatchInv'
<1>1. HandlersTyped /\ RequestInv(q) /\ pc[q] = "ask" /\ job[q] \in Job
  BY DEF DispatchInv, Ask, HandlersTyped
<1>2. ApprovalTTL(job[q].req.block) \in Nat
  BY <1>1, DispatchAssumption, ApprovalTTLType DEF DispatchAssumption, Job
<1>3. ApprovalsInv'
  BY <1>2, CreateApprovalInv DEF DispatchInv, Ask
<1>4. /\ pc' = [pc EXCEPT ![q] = "refresh"]
      /\ approval' = [approval EXCEPT ![q] = NewRow(clock + ApprovalTTL(job[q].req.block))]
      /\ fanout' = [fanout EXCEPT ![q] = [stage |-> "sending", attempts |-> <<>>]]
      /\ UNCHANGED <<job, audit, registry, ran, settings, committed>>
  BY DEF Ask, CreateApproval
<1>5. /\ approval \in [Requests -> Row] /\ fanout \in [Requests -> Fanout]
  BY DEF DispatchInv, ApprovalsInv, ApprovalsTyped, ApprovalsTypeOK, Fanout
<1>6. HandlersTyped'
  BY <1>1, <1>4 DEF HandlersTyped, Places
<1>7. Exists(q)' /\ approval'[q].status \notin Verdicts
  BY <1>4, <1>5 DEF Exists, NewRow, Verdicts
<1>8. RequestInv(q)'
  BY <1>1, <1>4, <1>7
     DEF HandlersTyped, RequestInv, HandlerInv, RowInv, ShadowInv, Forwarded, Says, HumanPaths
<1>9. QED
  BY <1>3, <1>4, <1>5, <1>6, <1>8, HandlerStep DEF HandlersTyped, DispatchInv

\* The refresh: a verdict that is there already was committed.
LEMMA RefreshApprovalInv ==
  ASSUME DispatchInv, NEW q \in Requests, RefreshApproval(q) PROVE DispatchInv'
<1>1. HandlersTyped /\ RequestInv(q) /\ pc[q] = "refresh" /\ job[q] \in Job
  BY DEF DispatchInv, RefreshApproval, HandlersTyped
<1>2. ApprovalsInv'
  BY StutterInv DEF DispatchInv, RefreshApproval
<1>3. /\ UNCHANGED <<clock, approval, fanout, link, session, listing, committed>>
      /\ UNCHANGED <<audit, registry, ran, settings>>
      /\ job' = [job EXCEPT ![q].seen = approval[q].status]
      /\ pc' = [pc EXCEPT ![q] = "deliver"]
  BY DEF RefreshApproval, approvalVars
<1>4. /\ approval[q].status \in Statuses
      /\ approval[q].status \in Verdicts => approval[q].status \in committed[q]
  BY <1>1 DEF DispatchInv, ApprovalsInv, ApprovalsTyped, ApprovalsTypeOK, Row, Statuses,
              RequestInv, RowInv
<1>5. /\ job'[q] \in Job /\ job'[q].req = job[q].req /\ job'[q].seen = approval[q].status
      /\ Says(job'[q], job[q].decision, job[q].path)
  BY <1>1, <1>3, <1>4 DEF HandlersTyped, Job, Says
<1>6. HandlersTyped'
  BY <1>1, <1>3, <1>5 DEF HandlersTyped, Places
<1>7. HandlerInv(q)'
  BY <1>1, <1>3, <1>4, <1>5 DEF HandlersTyped, RequestInv, HandlerInv, Exists, Says, Forwarded
<1>8. RowInv(q)' /\ ShadowInv(q)'
  BY <1>1, <1>3, <1>5
     DEF HandlersTyped, RequestInv, RowInv, ShadowInv, Exists, Says
<1>9. QED
  BY <1>2, <1>3, <1>6, <1>7, <1>8, HandlerStep DEF HandlersTyped, RequestInv

\* Delivery: the handler writes the log of its approval, and nothing else of it.
LEMMA DeliverInv ==
  ASSUME DispatchInv, NEW q \in Requests, Deliver(q) \/ FinishDelivery(q) PROVE DispatchInv'
<1>1. HandlersTyped /\ RequestInv(q) /\ pc[q] = "deliver" /\ job[q] \in Job
  BY DEF DispatchInv, Deliver, FinishDelivery, HandlersTyped
<1>2. ApprovalsInv'
  BY DeliveryInv DEF DispatchInv, Deliver, FinishDelivery
<1>3. UNCHANGED <<job, audit, registry, ran, settings, committed>>
  BY DEF Deliver, FinishDelivery, TryChannel, CommitDeliveryLog, dispatchVars
<1>4. /\ approval \in [Requests -> Row] /\ fanout \in [Requests -> Fanout]
      /\ approval' \in [Requests -> Row]
  BY <1>2 DEF DispatchInv, ApprovalsInv, ApprovalsTyped, ApprovalsTypeOK, Fanout
<1>5. Exists(q)
  BY <1>1 DEF RequestInv, HandlerInv
<1>6. CASE Deliver(q)
  <2>1. /\ UNCHANGED <<pc, approval>>
        /\ fanout[q].stage = "sending"
        /\ \A r \in Requests \ {q} : fanout'[r] = fanout[r]
    BY <1>4, <1>6 DEF Deliver, TryChannel, dispatchVars
  <2>2. HandlersTyped'
    BY <1>1, <1>3, <2>1 DEF HandlersTyped
  <2>3. RequestInv(q)'
    BY <1>1, <1>3, <2>1 DEF RequestInv, HandlerInv, RowInv, ShadowInv, Forwarded, Exists, Says
  <2>4. QED
    BY <1>2, <1>3, <2>1, <2>2, <2>3, HandlerStep
<1>7. CASE FinishDelivery(q)
  <2>1. /\ pc' = [pc EXCEPT ![q] = "link"]
        /\ approval' = [approval EXCEPT ![q].log = fanout[q].attempts]
        /\ fanout' = [fanout EXCEPT ![q].stage = "done"]
    BY <1>7 DEF FinishDelivery, CommitDeliveryLog
  <2>2. Exists(q)' /\ fanout'[q].stage = "done"
    BY <1>4, <1>5, <2>1 DEF Exists, Row, Fanout
  <2>3. HandlersTyped'
    BY <1>1, <1>3, <2>1 DEF HandlersTyped, Places
  <2>4. RequestInv(q)'
    BY <1>1, <1>3, <2>1, <2>2
       DEF HandlersTyped, RequestInv, HandlerInv, RowInv, ShadowInv, Forwarded, Says
  <2>5. QED
    BY <1>2, <1>3, <1>4, <2>1, <2>3, <2>4, HandlerStep DEF HandlersTyped
<1>8. QED
  BY <1>6, <1>7

\* What a handler that has heard of a status does next, and what it then remembers: a
\* verdict only if it was committed.
LEMMA HeardFacts ==
  ASSUME NEW locals \in Job, NEW status,
         status \in Verdicts => status \in FinalStatuses
  PROVE  /\ Heard(locals, status) \in Job
         /\ Heard(locals, status).req = locals.req
         /\ Heard(locals, status).seen = locals.seen
         /\ AfterRead(status) = "record" =>
              status \in Verdicts /\ Says(Heard(locals, status), status, CallbackPath(status))
         /\ AfterRead(status) # "record" =>
              AfterRead(status) \in {"check", "forward"} /\ Heard(locals, status) = locals
<1>1. CASE Taken(status)
  <2>1. status \in Decided /\ CallbackPath(status) \in Paths /\ status \in Verdicts
    BY <1>1, CallbackPathFacts DEF Taken, Decided, Paths
  <2>2. Heard(locals, status) =
          [locals EXCEPT !.decision = status, !.path = CallbackPath(status)]
    BY <1>1 DEF Heard
  <2>3. AfterRead(status) = "record"
    BY <1>1 DEF AfterRead, Taken, Verdicts
  <2>4. QED
    BY <2>1, <2>2, <2>3 DEF Job, Says
<1>2. CASE ~Taken(status)
  <2>1. Heard(locals, status) = locals /\ AfterRead(status) \in {"check", "forward"}
    BY <1>2 DEF Heard, AfterRead
  <2>2. QED
    BY <2>1
<1>3. QED
  BY <1>1, <1>2

\* A handler that hears of a verdict which was committed keeps the invariant, be it told
\* by its session or by the table; if it hears of none it goes on with "queued".
LEMMA HearingKeepsInv ==
  ASSUME DispatchInv, NEW q \in Requests, NEW locals \in Job, NEW status, NEW row \in Audit,
         pc[q] \in {"link", "poll"}, status \in Verdicts => status \in committed[q],
         locals.req = job[q].req, Says(locals, job[q].decision, job[q].path),
         Says(row, audit[q].decision, audit[q].path), row.result = audit[q].result,
         row.approval => Exists(q) /\ fanout[q].stage = "done",
         audit' = [audit EXCEPT ![q] = row],
         UNCHANGED approvalVars, UNCHANGED <<registry, ran, settings>>,
         pc' = [pc EXCEPT ![q] = AfterRead(status)],
         job' = [job EXCEPT ![q] = Heard(locals, status)]
  PROVE  DispatchInv'
<1>1. HandlersTyped /\ RequestInv(q) /\ job[q] \in Job
  BY DEF DispatchInv, HandlersTyped
<1>2. ApprovalsInv'
  BY StutterInv DEF DispatchInv
<1>3. /\ UNCHANGED <<clock, approval, fanout, link, session, listing, committed>>
      /\ audit'[q] = row /\ \A r \in Requests \ {q} : audit'[r] = audit[r]
      /\ audit' \in [Requests -> Audit]
  BY <1>1 DEF approvalVars, HandlersTyped
<1>4. Says(locals, "queued", "human-approval") /\ Says(audit[q], "queued", "human-approval")
  BY <1>1 DEF RequestInv, HandlerInv, Says
<1>5. /\ Heard(locals, status) \in Job /\ Heard(locals, status).req = job[q].req
      /\ AfterRead(status) = "record" =>
           status \in Verdicts /\ Says(Heard(locals, status), status, CallbackPath(status))
      /\ AfterRead(status) # "record" =>
           AfterRead(status) \in {"check", "forward"} /\ Heard(locals, status) = locals
  BY HeardFacts DEF FinalStatuses
<1>6. PICK next \in Job, place \in {"record", "check", "forward"} :
        /\ next = Heard(locals, status) /\ place = AfterRead(status)
  BY <1>5
<1>7. /\ pc' = [pc EXCEPT ![q] = place] /\ job' = [job EXCEPT ![q] = next]
      /\ next.req = job[q].req
      /\ place = "record" => status \in Verdicts /\ Says(next, status, CallbackPath(status))
      /\ place # "record" => Says(next, "queued", "human-approval")
  BY <1>4, <1>5, <1>6
<1>8. pc'[q] = place /\ job'[q] = next
  BY <1>1, <1>7 DEF HandlersTyped
<1>9. HandlersTyped'
  BY <1>1, <1>7, <1>8 DEF HandlersTyped, Places
<1>10. HandlerInv(q)'
  BY <1>1, <1>3, <1>4, <1>7, <1>8 DEF RequestInv, HandlerInv, Says
<1>11. RowInv(q)'
  BY <1>1, <1>3, <1>8 DEF RequestInv, HandlerInv, RowInv, Exists, Says
<1>12. ShadowInv(q)'
  <2>1. ~ShadowMode(job[q].req.header, settings)
    BY <1>1, <1>4 DEF RequestInv, HandlerInv, ShadowInv, Says
  <2>2. QED
    BY <1>7, <1>8, <2>1 DEF ShadowInv, ShadowMode
<1>13. QED
  BY <1>1, <1>2, <1>3, <1>7, <1>9, <1>10, <1>11, <1>12, HandlerStep
     DEF HandlersTyped, RequestInv

\* The approval is named on the row; a verdict that the session holds was committed.
LEMMA LinkApprovalInv ==
  ASSUME DispatchInv, NEW q \in Requests, LinkApproval(q) PROVE DispatchInv'
<1>1. HandlersTyped /\ RequestInv(q) /\ pc[q] = "link" /\ job[q] \in Job /\ audit[q] \in Audit
  BY DEF DispatchInv, LinkApproval, HandlersTyped
<1> DEFINE block == BlockSeconds(job[q].req.block)
           timed == [job[q] EXCEPT !.deadline = clock + block, !.seen = "none"]
<1>2. /\ UNCHANGED <<clock, approval, fanout, link, session, listing, committed>>
      /\ UNCHANGED approvalVars /\ UNCHANGED <<registry, ran, settings>>
      /\ audit' = [audit EXCEPT ![q].approval = TRUE]
      /\ job' = [job EXCEPT ![q] = IF block > 0 THEN Heard(timed, job[q].seen) ELSE timed]
      /\ pc' = [pc EXCEPT ![q] = IF block > 0 THEN AfterRead(job[q].seen) ELSE "forward"]
  BY DEF LinkApproval, approvalVars
<1>3. clock + block \in Nat
  <2>1. clock \in Nat
    BY DEF DispatchInv, ApprovalsInv, ApprovalsTyped, ApprovalsTypeOK
  <2>2. block \in Nat
    BY <1>1, DispatchAssumption, BlockSecondsType DEF DispatchAssumption, Job
  <2>3. QED
    BY <2>1, <2>2
<1> HIDE DEF block
<1>4. /\ timed \in Job /\ timed.req = job[q].req
      /\ Says(timed, job[q].decision, job[q].path)
  BY <1>1, <1>3 DEF Job, Says, Statuses
<1>5. PICK row \in Audit :
        /\ Says(row, audit[q].decision, audit[q].path) /\ row.result = audit[q].result
        /\ audit' = [audit EXCEPT ![q] = row] /\ audit'[q] = row
        /\ audit' \in [Requests -> Audit]
  <2>1. /\ [audit[q] EXCEPT !.approval = TRUE] \in Audit
        /\ [audit[q] EXCEPT !.approval = TRUE].result = audit[q].result
        /\ Says([audit[q] EXCEPT !.approval = TRUE], audit[q].decision, audit[q].path)
    BY <1>1 DEF Audit, Says
  <2>2. audit' = [audit EXCEPT ![q] = [audit[q] EXCEPT !.approval = TRUE]]
    BY <1>2
  <2>3. QED
    BY <1>1, <2>1, <2>2 DEF HandlersTyped
<1>6. /\ Exists(q) /\ fanout[q].stage = "done"
      /\ job[q].seen \in Verdicts => job[q].seen \in committed[q]
  BY <1>1 DEF RequestInv, HandlerInv
<1> HIDE DEF timed
<1>7. CASE block > 0
  <2>1. PICK locals \in Job, seen \in Statuses : locals = timed /\ seen = job[q].seen
    BY <1>1, <1>4 DEF Job
  <2>2. /\ job' = [job EXCEPT ![q] = Heard(locals, seen)]
        /\ pc' = [pc EXCEPT ![q] = AfterRead(seen)]
        /\ locals.req = job[q].req /\ Says(locals, job[q].decision, job[q].path)
        /\ seen \in Verdicts => seen \in committed[q]
    BY <1>2, <1>4, <1>6, <1>7, <2>1
  <2>3. /\ pc[q] \in {"link", "poll"}
        /\ row.approval => Exists(q) /\ fanout[q].stage = "done"
        /\ UNCHANGED approvalVars /\ UNCHANGED <<registry, ran, settings>>
        /\ Says(row, audit[q].decision, audit[q].path) /\ row.result = audit[q].result
        /\ audit' = [audit EXCEPT ![q] = row]
    BY <1>1, <1>2, <1>5, <1>6
  <2>4. QED
    BY <2>2, <2>3, HearingKeepsInv
<1>8. CASE ~(block > 0)
  <2>1. ApprovalsInv'
    BY <1>2, StutterInv DEF DispatchInv
  <2>2. job' = [job EXCEPT ![q] = timed] /\ pc' = [pc EXCEPT ![q] = "forward"]
    BY <1>2, <1>8
  <2>3. HandlersTyped'
    BY <1>1, <1>2, <1>4, <1>5, <2>2 DEF HandlersTyped, Places
  <2>4. job'[q] = timed /\ pc'[q] = "forward"
    BY <1>1, <2>2 DEF HandlersTyped
  <2>5. HandlerInv(q)'
    BY <1>1, <1>2, <1>4, <1>5, <2>4 DEF RequestInv, HandlerInv, Says
  <2>6. RowInv(q)' /\ ShadowInv(q)'
    BY <1>1, <1>2, <1>4, <1>5, <1>6, <2>4
       DEF RequestInv, HandlerInv, RowInv, ShadowInv, Exists, Says
  <2>7. QED
    BY <1>1, <1>2, <1>5, <2>1, <2>2, <2>3, <2>5, <2>6, HandlerStep DEF HandlersTyped, RequestInv
<1>9. QED
  BY <1>7, <1>8

\* A verdict that the poll reads on its approval was committed there.
LEMMA PollReadInv ==
  ASSUME DispatchInv, NEW q \in Requests, PollRead(q) PROVE DispatchInv'
<1>1. HandlersTyped /\ RequestInv(q) /\ pc[q] = "poll" /\ job[q] \in Job /\ audit[q] \in Audit
  BY DEF DispatchInv, PollRead, HandlersTyped
<1>2. /\ UNCHANGED approvalVars /\ UNCHANGED <<audit, registry, ran, settings>>
      /\ pc' = [pc EXCEPT ![q] = AfterRead(approval[q].status)]
      /\ job' = [job EXCEPT ![q] = Heard(job[q], approval[q].status)]
  BY DEF PollRead
<1>3. approval[q].status \in Verdicts => approval[q].status \in committed[q]
  BY <1>1 DEF RequestInv, RowInv
<1>4. /\ Says(job[q], job[q].decision, job[q].path)
      /\ Says(audit[q], audit[q].decision, audit[q].path)
      /\ audit[q].approval => Exists(q) /\ fanout[q].stage = "done"
      /\ audit \in [Requests -> Audit]
      /\ audit' = [audit EXCEPT ![q] = audit[q]]
  BY <1>1, <1>2 DEF Says, RequestInv, RowInv, HandlersTyped
<1>5. QED
  BY <1>1, <1>2, <1>3, <1>4, HearingKeepsInv

\* The deadline is looked at: nothing but the place changes.
LEMMA PollCheckInv ==
  ASSUME DispatchInv, NEW q \in Requests, PollCheck(q) PROVE DispatchInv'
<1>1. HandlersTyped /\ RequestInv(q) /\ pc[q] = "check" /\ job[q] \in Job
  BY DEF DispatchInv, PollCheck, HandlersTyped
<1>2. ApprovalsInv'
  BY StutterInv DEF DispatchInv, PollCheck
<1>3. /\ UNCHANGED <<clock, approval, fanout, link, session, listing, committed>>
      /\ UNCHANGED <<job, audit, registry, ran, settings>>
  BY DEF PollCheck, approvalVars
<1>4. PICK place \in {"forward", "poll"} : pc' = [pc EXCEPT ![q] = place]
  BY DEF PollCheck
<1>5. HandlersTyped'
  BY <1>1, <1>3, <1>4 DEF HandlersTyped, Places
<1>6. RequestInv(q)'
  BY <1>1, <1>3, <1>4
     DEF HandlersTyped, RequestInv, HandlerInv, RowInv, ShadowInv, Exists, Says, Forwarded
<1>7. QED
  BY <1>2, <1>3, <1>4, <1>5, <1>6, HandlerStep DEF HandlersTyped

\* The verdict goes on record: it is one that was committed.
LEMMA RecordVerdictInv ==
  ASSUME DispatchInv, NEW q \in Requests, RecordVerdict(q) PROVE DispatchInv'
<1>1. /\ HandlersTyped /\ RequestInv(q)
      /\ pc[q] = "record" /\ job[q] \in Job /\ audit[q] \in Audit
  BY DEF DispatchInv, RecordVerdict, HandlersTyped
<1>2. ApprovalsInv'
  BY StutterInv DEF DispatchInv, RecordVerdict
<1>3. /\ UNCHANGED <<clock, approval, fanout, link, session, listing, committed>>
      /\ UNCHANGED <<job, registry, ran, settings>>
      /\ audit' = [audit EXCEPT ![q].decision = job[q].decision, ![q].path = job[q].path]
      /\ pc' = [pc EXCEPT ![q] = "forward"]
  BY DEF RecordVerdict, approvalVars
<1>4. /\ audit'[q] \in Audit /\ audit'[q].result = audit[q].result
      /\ audit'[q].approval = audit[q].approval
      /\ Says(audit'[q], job[q].decision, job[q].path)
  BY <1>1, <1>3 DEF HandlersTyped, Audit, Job, Says
<1>5. /\ job[q].decision \in committed[q] \intersect Verdicts
      /\ job[q].path = CallbackPath(job[q].decision)
      /\ Says(audit[q], "queued", "human-approval")
  BY <1>1 DEF RequestInv, HandlerInv
<1>6. HandlersTyped'
  BY <1>1, <1>3, <1>4 DEF HandlersTyped, Places
<1>7. HandlerInv(q)'
  BY <1>1, <1>3, <1>4 DEF HandlersTyped, RequestInv, HandlerInv, Says, Forwarded
<1>8. RowInv(q)'
  BY <1>1, <1>3, <1>4, <1>5, CallbackPathFacts
     DEF HandlersTyped, RequestInv, HandlerInv, RowInv, Exists, Says
<1>9. ShadowInv(q)'
  BY <1>1, <1>3, <1>4 DEF HandlersTyped, RequestInv, ShadowInv, Says
<1>10. QED
  BY <1>2, <1>3, <1>6, <1>7, <1>8, <1>9, HandlerStep DEF HandlersTyped, RequestInv

\* Only what is approved on record goes on to the broker.
LEMMA ForwardInv ==
  ASSUME DispatchInv, NEW q \in Requests, Forward(q) PROVE DispatchInv'
<1>1. /\ HandlersTyped /\ RequestInv(q)
      /\ pc[q] = "forward" /\ job[q] \in Job /\ audit[q] \in Audit
  BY DEF DispatchInv, Forward, HandlersTyped
<1>2. ApprovalsInv'
  BY StutterInv DEF DispatchInv, Forward
<1> DEFINE args == job[q].req.args
           result == IF Forwarded(q) /\ args.target = "none" THEN "error" ELSE audit[q].result
<1>3. /\ UNCHANGED <<clock, approval, fanout, link, session, listing, committed>>
      /\ UNCHANGED <<job, registry, ran, settings>>
      /\ audit' = [audit EXCEPT ![q].result = result]
  BY DEF Forward, approvalVars
<1>4. /\ audit'[q] \in Audit /\ audit'[q].result = result
      /\ audit'[q].approval = audit[q].approval
      /\ Says(audit'[q], audit[q].decision, audit[q].path)
  BY <1>1, <1>3 DEF HandlersTyped, Audit, Outcomes, Says
<1>5. PICK place \in {"done", "failed", "call"} :
        /\ pc' = [pc EXCEPT ![q] = place]
        /\ place = "call" => Forwarded(q)
        /\ place = "done" /\ Forwarded(q) => result = "error"
        /\ place # "done" => result = audit[q].result
  BY DEF Forward
<1>6. result \in {audit[q].result, "error"} /\ audit[q].result = "none" /\ ran[q] = 0
  BY <1>1 DEF RequestInv, HandlerInv, RowInv
<1> HIDE DEF result
<1>7. HandlersTyped'
  BY <1>1, <1>3, <1>4, <1>5 DEF HandlersTyped, Places, Ended
<1>8. HandlerInv(q)'
  BY <1>1, <1>3, <1>4, <1>5, <1>6
     DEF HandlersTyped, RequestInv, HandlerInv, Exists, Says, Forwarded
<1>9. RowInv(q)' /\ ShadowInv(q)'
  BY <1>1, <1>3, <1>4, <1>5, <1>6
     DEF HandlersTyped, RequestInv, HandlerInv, RowInv, ShadowInv, Exists, Says
<1>10. QED
  BY <1>2, <1>3, <1>5, <1>7, <1>8, <1>9, HandlerStep DEF HandlersTyped, RequestInv

\* What the broker may answer.
LEMMA BrokerAnswersType ==
  ASSUME NEW args, NEW answer \in BrokerAnswers(args)
  PROVE  /\ answer.runs \in {0, 1} /\ answer.status \in Outcomes
         /\ answer.status = "success" => answer.runs = 1
  BY DEF BrokerAnswers, BrokerOutcomes, Outcomes

\* The broker is called once, by a handler that has not called it.
LEMMA CallBrokerInv ==
  ASSUME DispatchInv, NEW q \in Requests, CallBroker(q) PROVE DispatchInv'
<1>1. HandlersTyped /\ RequestInv(q) /\ pc[q] = "call" /\ job[q] \in Job
  BY DEF DispatchInv, CallBroker, HandlersTyped
<1>2. ApprovalsInv'
  BY StutterInv DEF DispatchInv, CallBroker
<1>3. /\ UNCHANGED <<clock, approval, fanout, link, session, listing, committed>>
      /\ UNCHANGED <<audit, registry, settings>>
  BY DEF CallBroker, approvalVars
<1>4. ran[q] = 0 /\ audit[q].decision = "approved" /\ audit[q].result = "none"
  BY <1>1 DEF RequestInv, HandlerInv, RowInv, Says, Forwarded
<1>5. CASE pc' = [pc EXCEPT ![q] = "failed"] /\ UNCHANGED <<ran, job>>
  <2>1. HandlersTyped'
    BY <1>1, <1>3, <1>5 DEF HandlersTyped, Places, Ended
  <2>2. RequestInv(q)'
    BY <1>1, <1>3, <1>4, <1>5
       DEF HandlersTyped, RequestInv, HandlerInv, RowInv, ShadowInv, Exists, Forwarded
  <2>3. QED
    BY <1>2, <1>3, <1>5, <2>1, <2>2, HandlerStep DEF HandlersTyped
<1>6. ASSUME NEW answer \in BrokerAnswers(job[q].req.args),
             ran' = [ran EXCEPT ![q] = @ + answer.runs],
             job' = [job EXCEPT ![q].outcome = answer.status],
             pc' = [pc EXCEPT ![q] = "result"]
      PROVE  DispatchInv'
  <2>1. /\ answer.runs \in {0, 1} /\ answer.status \in Outcomes
        /\ answer.status = "success" => answer.runs = 1
    BY BrokerAnswersType
  <2>2. ran'[q] = answer.runs
    BY <1>1, <1>4, <1>6, <2>1 DEF HandlersTyped
  <2>3. /\ job'[q] \in Job /\ job'[q].req = job[q].req /\ job'[q].outcome = answer.status
        /\ Says(job'[q], job[q].decision, job[q].path)
    BY <1>1, <1>6, <2>1 DEF HandlersTyped, Job, Says
  <2>4. ran' \in [Requests -> {0, 1}]
    BY <1>1, <1>6, <2>1, <2>2 DEF HandlersTyped
  <2>5. HandlersTyped'
    BY <1>1, <1>3, <1>6, <2>3, <2>4 DEF HandlersTyped, Places
  <2>6. HandlerInv(q)'
    BY <1>1, <1>3, <1>6, <2>1, <2>2, <2>3
       DEF HandlersTyped, RequestInv, HandlerInv, Exists, Says, Forwarded
  <2>7. RowInv(q)' /\ ShadowInv(q)'
    BY <1>1, <1>3, <1>4, <1>6, <2>3
       DEF HandlersTyped, RequestInv, RowInv, ShadowInv, Exists, Says
  <2>8. QED
    BY <1>2, <1>3, <1>6, <2>5, <2>6, <2>7, HandlerStep DEF HandlersTyped, RequestInv
<1>7. QED
  BY <1>5, <1>6 DEF CallBroker

\* The outcome goes on the row.
LEMMA RecordResultInv ==
  ASSUME DispatchInv, NEW q \in Requests, RecordResult(q) PROVE DispatchInv'
<1>1. /\ HandlersTyped /\ RequestInv(q)
      /\ pc[q] = "result" /\ job[q] \in Job /\ audit[q] \in Audit
  BY DEF DispatchInv, RecordResult, HandlersTyped
<1>2. ApprovalsInv'
  BY StutterInv DEF DispatchInv, RecordResult
<1>3. /\ UNCHANGED <<clock, approval, fanout, link, session, listing, committed>>
      /\ UNCHANGED <<job, registry, ran, settings>>
      /\ audit' = [audit EXCEPT ![q].executed = TRUE, ![q].result = job[q].outcome]
      /\ pc' = [pc EXCEPT ![q] = "done"]
  BY DEF RecordResult, approvalVars
<1>4. /\ audit'[q] \in Audit /\ audit'[q].result = job[q].outcome
      /\ audit'[q].approval = audit[q].approval
      /\ Says(audit'[q], audit[q].decision, audit[q].path)
  BY <1>1, <1>3 DEF HandlersTyped, Audit, Job, Says
<1>5. HandlersTyped'
  BY <1>1, <1>3, <1>4 DEF HandlersTyped, Places, Ended
<1>6. HandlerInv(q)'
  BY <1>1, <1>3, <1>4
     DEF HandlersTyped, RequestInv, HandlerInv, Exists, Says, Forwarded, Outcomes
<1>7. RowInv(q)' /\ ShadowInv(q)'
  BY <1>1, <1>3, <1>4
     DEF HandlersTyped, RequestInv, HandlerInv, RowInv, ShadowInv, Exists, Says
<1>8. QED
  BY <1>2, <1>3, <1>5, <1>6, <1>7, HandlerStep DEF HandlersTyped, RequestInv

\* A death leaves the row as it is, wherever it strikes.
LEMMA CrashInv ==
  ASSUME DispatchInv, NEW q \in Requests, Crash(q) PROVE DispatchInv'
<1>1. HandlersTyped /\ RequestInv(q) /\ pc[q] \notin Ended \union {"new"} /\ job[q] \in Job
  BY DEF DispatchInv, Crash, HandlersTyped, Ended
<1>2. ApprovalsInv'
  BY StutterInv DEF DispatchInv, Crash
<1>3. /\ UNCHANGED <<clock, approval, fanout, link, session, listing, committed>>
      /\ UNCHANGED <<job, audit, registry, ran, settings>>
      /\ pc' = [pc EXCEPT ![q] = "crashed"]
  BY DEF Crash, approvalVars
<1>4. HandlersTyped'
  BY <1>1, <1>3 DEF HandlersTyped, Places, Ended
<1>5. RequestInv(q)'
  BY <1>1, <1>3
     DEF HandlersTyped, Ended, RequestInv, HandlerInv, RowInv, ShadowInv, Exists, Forwarded
<1>6. QED
  BY <1>2, <1>3, <1>4, <1>5, HandlerStep DEF HandlersTyped

----------------------------------------------------------------------------
(* The whole *)

\* No row, no handler: the invariant holds at the start.
LEMMA DispatchInit == Init => DispatchInv
<1> SUFFICES ASSUME Init PROVE DispatchInv
  OBVIOUS
<1>1. ApprovalsInv
  BY InitInv DEF Init
<1>2. NoAudit \in Audit
  BY DEF NoAudit, Audit, Decided, Paths
<1>3. HandlersTyped
  BY <1>2 DEF Init, HandlersTyped, Places
<1>4. ASSUME NEW r \in Requests PROVE RequestInv(r)
  <2>1. /\ pc[r] = "new" /\ audit[r] = NoAudit /\ ran[r] = 0 /\ approval[r] = NoRow
        /\ ~Exists(r) /\ NoRow.status = "none"
    BY DEF Init, ApprovalsInit, Exists, NoRow
  <2>2. /\ NoAudit.decision = "none" /\ NoAudit.path = "none" /\ NoAudit.approval = FALSE
        /\ NoAudit.result = "none"
    BY DEF NoAudit
  <2>3. \A v \in Verdicts : CallbackPath(v) # "none" /\ v # "none"
    BY DEF Verdicts, CallbackPath
  <2>4. QED
    BY <2>1, <2>2, <2>3 DEF RequestInv, HandlerInv, RowInv, ShadowInv
<1>5. QED
  BY <1>1, <1>3, <1>4 DEF DispatchInv

\* Every step of a handler keeps the invariant.
LEMMA HandleInv ==
  ASSUME DispatchInv, NEW q \in Requests, Arrive(q) \/ Handle(q) \/ Crash(q)
  PROVE  DispatchInv'
  BY ArriveInv, AdmitInv, InsertAuditInv, AskInv, RefreshApprovalInv, DeliverInv,
     LinkApprovalInv, PollReadInv, PollCheckInv, RecordVerdictInv, ForwardInv, CallBrokerInv, RecordResultInv, CrashInv
     DEF Handle

\* A registration keeps it, for every request has looked at the registry already or
\* is still to look.
LEMMA RegisterInv ==
  ASSUME DispatchInv, NEW c \in Capabilities, RegisterCapability(c) PROVE DispatchInv'
<1>1. /\ UNCHANGED <<clock, approval, fanout, link, session, listing, committed>>
      /\ UNCHANGED <<pc, job, audit, ran, settings>>
  BY DEF RegisterCapability, approvalVars
<1>2. ApprovalsInv'
  BY StutterInv DEF DispatchInv, RegisterCapability
<1>3. HandlersTyped'
  BY <1>1 DEF RegisterCapability, DispatchInv, HandlersTyped
<1>4. \A r \in Requests : RequestInv(r)'
  BY <1>1, RequestFrame DEF DispatchInv, Exists
<1>5. QED
  BY <1>2, <1>3, <1>4 DEF DispatchInv

\* The deciders, the sweeps and the clock keep it.
LEMMA OutsideInv ==
  ASSUME DispatchInv, Operators, UNCHANGED dispatchVars PROVE DispatchInv'
<1>1. UNCHANGED <<pc, job, audit, registry, ran, settings>>
  BY DEF dispatchVars
<1>2. ApprovalsInv'
  BY OperatorsInv DEF DispatchInv
<1>3. HandlersTyped'
  BY <1>1 DEF DispatchInv, HandlersTyped
<1>4. \A r \in Requests : RequestInv(r)'
  BY <1>1, OperatorsFrame, RequestFrame DEF DispatchInv
<1>5. QED
  BY <1>2, <1>3, <1>4 DEF DispatchInv

\* So does a step that changes nothing.
LEMMA IdleInv == ASSUME DispatchInv, UNCHANGED vars PROVE DispatchInv'
<1>1. /\ UNCHANGED <<clock, approval, fanout, link, session, listing, committed>>
      /\ UNCHANGED <<pc, job, audit, registry, ran, settings>>
      /\ UNCHANGED approvalVars
  BY DEF vars, approvalVars, dispatchVars
<1>2. ApprovalsInv'
  BY <1>1, StutterInv DEF DispatchInv
<1>3. HandlersTyped'
  BY <1>1 DEF DispatchInv, HandlersTyped
<1>4. \A r \in Requests : RequestInv(r)'
  BY <1>1, RequestFrame DEF DispatchInv, Exists
<1>5. QED
  BY <1>2, <1>3, <1>4 DEF DispatchInv

\* The inductive invariant holds of every behaviour of SOL's dispatch.
THEOREM DispatchInvariance == Spec => []DispatchInv
<1>1. DispatchInv /\ [Next]_vars => DispatchInv'
  BY HandleInv, RegisterInv, OutsideInv, IdleInv DEF Next
<1>2. QED
  BY <1>1, DispatchInit, PTL DEF Spec

----------------------------------------------------------------------------
(* What the runs check, for every instance *)

\* The broker runs nothing but under a row that says "approved", and says so for ever.
THEOREM NothingRunsUnapproved == Spec => []RanUnderApproval
<1>1. DispatchInv => RanUnderApproval
  BY DEF DispatchInv, RequestInv, RowInv, RanUnderApproval
<1>2. QED
  BY <1>1, DispatchInvariance, PTL

\* A verdict on record is one that a human committed on that very approval.
THEOREM VerdictsAreHuman == Spec => []HumanVerdictIsReal
<1>1. ASSUME DispatchInv, NEW r \in Requests, audit[r].path = "human-approval"
      PROVE  audit[r].decision = "queued" /\ ran[r] = 0
  BY <1>1 DEF DispatchInv, RequestInv, RowInv, HandlersTyped
<1>2. DispatchInv => HumanVerdictIsReal
  BY <1>1 DEF DispatchInv, RequestInv, RowInv, HumanVerdictIsReal
<1>3. QED
  BY <1>2, DispatchInvariance, PTL

\* A request in shadow mode leaves an audit row and nothing else.
THEOREM ShadowStaysInert == Spec => []ShadowIsInert
<1>1. ASSUME DispatchInv, NEW r \in Requests, pc[r] \notin {"new", "refused"},
             ShadowMode(job[r].req.header, settings)
      PROVE  /\ approval[r] = NoRow
             /\ link[r] = 0
             /\ ran[r] = 0
             /\ audit[r].decision \in {"none", "shadow"}
  <2>1. audit[r].decision \in {"none", "shadow"}
    BY <1>1 DEF DispatchInv, RequestInv, ShadowInv
  <2>2. audit[r].path \notin HumanPaths
    BY <1>1, <2>1 DEF DispatchInv, RequestInv, RowInv, HumanPaths, Verdicts
  <2>3. ~Exists(r) /\ approval[r] = NoRow
    BY <2>2, <1>1 DEF DispatchInv, RequestInv, RowInv
  <2>4. link[r] = 0
    BY <1>1, <2>3 DEF DispatchInv, ApprovalsInv, HeldReads
  <2>5. ran[r] = 0
    BY <1>1, <2>1 DEF DispatchInv, RequestInv, RowInv, HandlersTyped
  <2>6. QED
    BY <2>1, <2>3, <2>4, <2>5
<1>2. DispatchInv => ShadowIsInert
  BY <1>1 DEF ShadowIsInert
<1>3. QED
  BY <1>2, DispatchInvariance, PTL

\* Answer, audit row and approval tell one story.
THEOREM RecordsAlwaysAgree == Spec => []RecordsAgree
<1>1. DispatchInv => AnswerMatchesAudit
  BY DEF DispatchInv, RequestInv, HandlerInv, Says, AnswerMatchesAudit
<1>2. DispatchInv => ApprovalHasAudit
  BY DEF DispatchInv, RequestInv, RowInv, ApprovalHasAudit
<1>3. DispatchInv => RecordsAgree
  BY <1>1, <1>2 DEF RecordsAgree
<1>4. QED
  BY <1>3, DispatchInvariance, PTL

\* An approved request that was answered has its result on record, and no success is
\* made up.
THEOREM ApprovedAreCarriedOut == Spec => []ApprovedIsCarriedOut
<1>1. DispatchInv => ApprovedIsCarriedOut
  BY DEF DispatchInv, RequestInv, HandlerInv, RowInv, Says, Forwarded, ApprovedIsCarriedOut
<1>2. QED
  BY <1>1, DispatchInvariance, PTL

\* Whoever is told "queued", or is refused or failed, can turn elsewhere.
THEOREM FallbackIsAlwaysSafe == Spec => []FallbackIsSafe
<1>1. ASSUME DispatchInv, NEW r \in Requests,
             pc[r] \in {"refused", "failed"} \/ (pc[r] = "done" /\ job[r].decision = "queued")
      PROVE  ran[r] = 0
  <2>1. CASE pc[r] \in {"refused", "failed"}
    BY <1>1, <2>1 DEF DispatchInv, RequestInv, HandlerInv
  <2>2. CASE pc[r] = "done" /\ job[r].decision = "queued"
    <3>1. audit[r].decision # "approved"
      BY <1>1, <2>2 DEF DispatchInv, RequestInv, HandlerInv, Says
    <3>2. QED
      BY <1>1, <3>1 DEF DispatchInv, RequestInv, RowInv, HandlersTyped
  <2>3. QED
    BY <1>1, <2>1, <2>2
<1>2. DispatchInv => FallbackIsSafe
  BY <1>1 DEF FallbackIsSafe
<1>3. QED
  BY <1>2, DispatchInvariance, PTL

----------------------------------------------------------------------------
(* Records only move on *)

\* The approval of a request that somebody settled stays settled in any step: who
\* writes it writes a final status, and delivery writes the log alone.
LEMMA FinalStaysFinal ==
  ASSUME DispatchInv, Next, NEW r \in Requests, approval[r].status \in FinalStatuses
  PROVE  approval'[r].status \in FinalStatuses
<1>1. approval \in [Requests -> Row] /\ committed' \in [Requests -> SUBSET FinalStatuses]
  <2>1. ApprovalsInv'
    BY HandleInv, RegisterInv, OutsideInv DEF Next, DispatchInv
  <2>2. QED
    BY <2>1 DEF DispatchInv, ApprovalsInv, ApprovalsTyped, ApprovalsTypeOK
<1>2. ASSUME NEW q \in Requests, Arrive(q) \/ Handle(q) \/ Crash(q)
      PROVE  approval'[r].status = approval[r].status
  <2>1. CASE Ask(q)
    <3>1. q # r
      BY <2>1 DEF Ask, CreateApproval, Exists, FinalStatuses, Verdicts
    <3>2. QED
      BY <1>1, <2>1, <3>1 DEF Ask, CreateApproval
  <2>2. CASE FinishDelivery(q)
    BY <1>1, <2>2 DEF FinishDelivery, CommitDeliveryLog, Row
  <2>3. CASE UNCHANGED approval
    BY <2>3
  <2>4. QED
    BY <1>2, <2>1, <2>2, <2>3
       DEF Handle, Arrive, Admit, InsertAudit, RefreshApproval, Deliver, TryChannel, LinkApproval, PollRead,
           PollCheck, RecordVerdict, Forward, CallBroker, RecordResult, Crash, approvalVars
<1>3. CASE Operators
  BY <1>1, <1>3, OperatorsFrame DEF DispatchInv
<1>4. ASSUME NEW c \in Capabilities, RegisterCapability(c)
      PROVE  approval'[r].status = approval[r].status
  BY <1>4 DEF RegisterCapability, approvalVars
<1>5. QED
  BY <1>2, <1>3, <1>4 DEF Next

\* The row of a request is written by its handler alone: first as it decided, then
\* with the verdict on a "queued" one, the approval's name, and at last the result.
LEMMA AuditSteps ==
  ASSUME DispatchInv, Next, NEW r \in Requests
  PROVE  \/ audit'[r] = audit[r]
         \/ /\ audit[r].result = "none"
            /\ \/ audit'[r].decision = audit[r].decision
               \/ audit[r].decision = "none"
               \/ audit[r].decision = "queued" /\ audit'[r].decision \in Verdicts
<1>1. audit \in [Requests -> Audit] /\ RequestInv(r)
  BY DEF DispatchInv, HandlersTyped
<1>2. ASSUME NEW q \in Requests, Handle(q), q # r
      PROVE  audit'[r] = audit[r]
  BY <1>1, <1>2
     DEF Handle, Admit, InsertAudit, Ask, RefreshApproval, Deliver, FinishDelivery, LinkApproval, PollRead,
         PollCheck, RecordVerdict, Forward, CallBroker, RecordResult, dispatchVars
<1>3. CASE InsertAudit(r)
  BY <1>1, <1>3 DEF InsertAudit, RequestInv, HandlerInv, NoAudit
<1>4. CASE LinkApproval(r)
  BY <1>1, <1>4 DEF LinkApproval, RequestInv, RowInv, Audit
<1>5. CASE RecordVerdict(r)
  <2>1. audit'[r].decision = job[r].decision
    BY <1>1, <1>5 DEF RecordVerdict, Audit
  <2>2. QED
    BY <1>5, <1>1, <2>1 DEF RecordVerdict, RequestInv, HandlerInv, RowInv, Says
<1>6. CASE Forward(r)
  BY <1>1, <1>6 DEF Forward, RequestInv, RowInv, Audit
<1>7. CASE RecordResult(r)
  BY <1>1, <1>7 DEF RecordResult, RequestInv, RowInv, Audit
<1>8. CASE UNCHANGED audit
  BY <1>8
<1>9. QED
  BY <1>2, <1>3, <1>4, <1>5, <1>6, <1>7, <1>8
     DEF Next, Handle, Arrive, Admit, Ask, RefreshApproval, Deliver, FinishDelivery, PollRead, PollCheck,
         CallBroker, Crash, RegisterCapability, dispatchVars

\* What is on record only moves on, whatever handlers, deciders and sweeps do.
THEOREM RecordsOnlyMoveForward == Spec => RecordsMoveForward
<1> DEFINE Forwards(r) ==
             /\ \/ audit'[r].decision = audit[r].decision
                \/ audit[r].decision = "none"
                \/ audit[r].decision = "queued" /\ audit'[r].decision \in Verdicts
             /\ audit[r].result # "none" => audit'[r] = audit[r]
             /\ approval[r].status \in FinalStatuses => approval'[r].status \in FinalStatuses
<1>1. ASSUME DispatchInv, Next, NEW r \in Requests PROVE Forwards(r)
  BY <1>1, AuditSteps, FinalStaysFinal
<1>2. DispatchInv /\ [Next]_vars => [\A r \in Requests : Forwards(r)]_vars
  BY <1>1
<1>3. QED
  BY <1>2, DispatchInvariance, PTL DEF Spec, RecordsMoveForward

----------------------------------------------------------------------------
(* The refinement: handlers, sessions, polls and deaths implement the gate *)

\* The promise sees four things of a request; a step that leaves them alone is none.
LEMMA Unseen ==
  ASSUME \A r \in Requests :
           /\ audit'[r].decision = audit[r].decision
           /\ audit'[r].path \in HumanPaths <=> audit[r].path \in HumanPaths
           /\ committed'[r] \intersect Verdicts = committed[r] \intersect Verdicts,
         UNCHANGED ran
  PROVE  UNCHANGED G!vars
<1>1. [r \in Requests |-> audit'[r].decision] = [r \in Requests |-> audit[r].decision]
  OBVIOUS
<1>2. [r \in Requests |-> audit'[r].path \in HumanPaths]
        = [r \in Requests |-> audit[r].path \in HumanPaths]
  <2>1. \A r \in Requests : (audit'[r].path \in HumanPaths) = (audit[r].path \in HumanPaths)
    OBVIOUS
  <2>2. QED
    BY <2>1, Zenon
<1>3. [r \in Requests |-> committed'[r] \intersect Verdicts]
        = [r \in Requests |-> committed[r] \intersect Verdicts]
  BY Zenon
<1>4. HumanPaths' = HumanPaths /\ Verdicts' = Verdicts
  BY DEF HumanPaths, Verdicts, CallbackPath
<1>5. QED
  BY <1>1, <1>2, <1>3, <1>4 DEF G!vars

\* The first commit of the row is the abstract recording of a verdict.
LEMMA InsertRecords ==
  ASSUME DispatchInv, NEW q \in Requests, InsertAudit(q), ~ UNCHANGED audit
  PROVE  G!Record(q)
<1>1. /\ audit \in [Requests -> Audit] /\ RequestInv(q) /\ pc[q] = "insert"
      /\ UNCHANGED <<ran, committed>>
      /\ audit' = [audit EXCEPT ![q] = NewAudit(job[q].decision, job[q].path)]
  BY DEF DispatchInv, HandlersTyped, InsertAudit, approvalVars
<1>2. /\ FirstVerdict(job[q]) /\ audit[q] = NoAudit
      /\ audit'[q].decision = job[q].decision /\ audit'[q].path = job[q].path
      /\ \A r \in Requests \ {q} : audit'[r] = audit[r]
  BY <1>1 DEF RequestInv, HandlerInv, NewAudit, NoAudit
<1>3. /\ job[q].decision \in {"shadow", "queued", "approved"}
      /\ job[q].path \in HumanPaths <=> job[q].decision = "queued"
  BY <1>2, FirstVerdictType
<1>4. audit[q].decision = "none"
  BY <1>2 DEF NoAudit
<1> DEFINE asked == [r \in Requests |-> audit[r].path \in HumanPaths]
           asks == [r \in Requests |-> audit'[r].path \in HumanPaths]
<1>5. [r \in Requests |-> audit'[r].decision]
        = [[r \in Requests |-> audit[r].decision] EXCEPT ![q] = job[q].decision]
  BY <1>2
<1>6. asks = [asked EXCEPT ![q] = job[q].decision = "queued"]
  <2>1. \A r \in Requests \ {q} : asks[r] = asked[r]
    BY <1>2
  <2>2. asks[q] = (job[q].decision = "queued")
    BY <1>2, <1>3
  <2>3. asks = [r \in Requests |-> asks[r]] /\ asked = [r \in Requests |-> asked[r]]
    OBVIOUS
  <2> HIDE DEF asks, asked
  <2>4. QED
    BY <2>1, <2>2, <2>3, Zenon
<1>7. HumanPaths' = HumanPaths /\ Verdicts' = Verdicts
  BY DEF HumanPaths, Verdicts, CallbackPath
<1>8. QED
  BY <1>1, <1>3, <1>4, <1>5, <1>6, <1>7 DEF G!Record

\* A verdict put on the row is the abstract settlement of what was queued.
LEMMA RecordSettles ==
  ASSUME DispatchInv, NEW q \in Requests, RecordVerdict(q) PROVE G!Settle(q)
<1>1. /\ audit \in [Requests -> Audit] /\ RequestInv(q) /\ pc[q] = "record"
      /\ UNCHANGED <<ran, committed>>
      /\ audit' = [audit EXCEPT ![q].decision = job[q].decision, ![q].path = job[q].path]
  BY DEF DispatchInv, HandlersTyped, RecordVerdict, approvalVars
<1>2. /\ job[q].decision \in committed[q] \intersect Verdicts
      /\ job[q].path = CallbackPath(job[q].decision)
      /\ audit[q].decision = "queued" /\ audit[q].path = "human-approval"
  BY <1>1 DEF RequestInv, HandlerInv, Says
<1>3. /\ audit'[q].decision = job[q].decision /\ audit'[q].path = job[q].path
      /\ \A r \in Requests \ {q} : audit'[r] = audit[r]
  BY <1>1 DEF Audit
<1>4. audit[q].path \in HumanPaths /\ audit'[q].path \in HumanPaths
  BY <1>2, <1>3, CallbackPathFacts DEF HumanPaths
<1>5. [r \in Requests |-> audit'[r].decision]
        = [[r \in Requests |-> audit[r].decision] EXCEPT ![q] = job[q].decision]
  BY <1>3
<1>6. [r \in Requests |-> audit'[r].path \in HumanPaths]
        = [r \in Requests |-> audit[r].path \in HumanPaths]
  <2>1. \A r \in Requests : (audit'[r].path \in HumanPaths) = (audit[r].path \in HumanPaths)
    BY <1>3, <1>4
  <2>2. QED
    BY <2>1, Zenon
<1>7. HumanPaths' = HumanPaths /\ Verdicts' = Verdicts
  BY DEF HumanPaths, Verdicts, CallbackPath
<1>8. QED
  BY <1>1, <1>2, <1>5, <1>6, <1>7 DEF G!Settle

\* A call of the broker is the abstract execution, or it ran nothing.
LEMMA CallPerforms ==
  ASSUME DispatchInv, NEW q \in Requests, CallBroker(q)
  PROVE  G!Perform(q) \/ UNCHANGED G!vars
<1>1. /\ ran \in [Requests -> {0, 1}] /\ RequestInv(q) /\ pc[q] = "call"
      /\ UNCHANGED <<audit, committed>>
  BY DEF DispatchInv, HandlersTyped, CallBroker, approvalVars
<1>2. ran[q] = 0 /\ audit[q].decision = "approved"
  BY <1>1 DEF RequestInv, HandlerInv, Says, Forwarded
<1>3. UNCHANGED ran \/ ran' = [ran EXCEPT ![q] = 1]
  <2>1. ASSUME NEW answer \in BrokerAnswers(job[q].req.args),
               ran' = [ran EXCEPT ![q] = @ + answer.runs]
        PROVE  UNCHANGED ran \/ ran' = [ran EXCEPT ![q] = 1]
    <3>1. answer.runs \in {0, 1}
      BY BrokerAnswersType
    <3>2. CASE answer.runs = 0
      BY <1>1, <1>2, <2>1, <3>2
    <3>3. CASE answer.runs = 1
      BY <1>1, <1>2, <2>1, <3>3
    <3>4. QED
      BY <3>1, <3>2, <3>3
  <2>2. QED
    BY <2>1 DEF CallBroker
<1>4. CASE UNCHANGED ran
  BY <1>1, <1>4, Unseen
<1>5. CASE ran' = [ran EXCEPT ![q] = 1]
  <2>1. HumanPaths' = HumanPaths /\ Verdicts' = Verdicts
    BY DEF HumanPaths, Verdicts, CallbackPath
  <2>2. QED
    BY <1>1, <1>2, <1>5, <2>1 DEF G!Perform
<1>6. QED
  BY <1>3, <1>4, <1>5

\* The commit of a decision is the abstract consent: it falls on a request that asked.
LEMMA DecisionConsents ==
  ASSUME DispatchInv, NEW p \in Deciders, WriteDecision(p), UNCHANGED <<audit, ran>>,
         NEW q \in Requests, q = session[p].req
  PROVE  G!Decide(q)
<1> DEFINE v == session[p].verdict
<1>1. session[p] \in Session /\ Exists(q)
  BY SessionType DEF WriteDecision, DispatchInv, ApprovalsInv, ApprovalsTyped, HeldReads
<1>2. v \in Verdicts
  BY <1>1 DEF Session
<1>3. audit[q].path \in HumanPaths
  BY <1>1, <1>2 DEF DispatchInv, RequestInv, RowInv
<1>4. committed' = [r \in Requests |->
                      IF r \in {q} THEN committed[r] \union {v} ELSE committed[r]]
  BY DEF WriteDecision, Settle
<1> HIDE DEF v
<1>5. [r \in Requests |-> committed'[r] \intersect Verdicts]
        = [[r \in Requests |-> committed[r] \intersect Verdicts] EXCEPT
             ![q] = (committed[q] \intersect Verdicts) \union {v}]
  <2>1. \A r \in Requests : committed'[r] \intersect Verdicts =
          IF r = q THEN (committed[q] \intersect Verdicts) \union {v}
          ELSE committed[r] \intersect Verdicts
    BY <1>2, <1>4
  <2>2. QED
    BY <1>2, <2>1
<1>6. HumanPaths' = HumanPaths /\ Verdicts' = Verdicts /\ Verdicts = G!Human
  BY DEF HumanPaths, Verdicts, CallbackPath, G!Human
<1>7. QED
  BY <1>2, <1>3, <1>5, <1>6 DEF G!Decide

\* Whatever else the deciders, the sweeps and the clock do is not seen.
LEMMA OperatorsUnseen ==
  ASSUME DispatchInv, Operators, UNCHANGED <<audit, ran>>,
         \A p \in Deciders : ~WriteDecision(p)
  PROVE  UNCHANGED G!vars
<1>1. "expired" \notin Verdicts
  BY DEF Verdicts
<1>2. ASSUME NEW rows, Expire(rows), NEW r \in Requests
      PROVE  committed'[r] \intersect Verdicts = committed[r] \intersect Verdicts
  BY <1>1, <1>2 DEF Expire, Settle
<1>3. ASSUME NEW r \in Requests
      PROVE  committed'[r] \intersect Verdicts = committed[r] \intersect Verdicts
  BY <1>2 DEF Operators, AdminDecide, TapLink, ReadApproval, CheckExpiry, WriteExpired,
              DropSession, SweepRead, SweepCommit, QueryPending, EndListing, Tick
<1>4. QED
  BY <1>3, Unseen

\* Every step of SOL's dispatch is a step of the gate, or none.
LEMMA StepRefines ==
  ASSUME DispatchInv, Next PROVE G!Next \/ UNCHANGED G!vars
<1>1. ASSUME NEW q \in Requests, InsertAudit(q) PROVE G!Next \/ UNCHANGED G!vars
  <2>1. CASE UNCHANGED audit
    BY <1>1, <2>1, Unseen DEF InsertAudit, approvalVars
  <2>2. CASE ~ UNCHANGED audit
    BY <1>1, <2>2, InsertRecords DEF G!Next
  <2>3. QED
    BY <2>1, <2>2
<1>2. ASSUME NEW q \in Requests, RecordVerdict(q) PROVE G!Next
  BY <1>2, RecordSettles DEF G!Next
<1>3. ASSUME NEW q \in Requests, CallBroker(q) PROVE G!Next \/ UNCHANGED G!vars
  BY <1>3, CallPerforms DEF G!Next
<1>4. ASSUME Operators, UNCHANGED dispatchVars PROVE G!Next \/ UNCHANGED G!vars
  <2>1. UNCHANGED <<audit, ran>>
    BY <1>4 DEF dispatchVars
  <2>2. ASSUME NEW p \in Deciders, WriteDecision(p) PROVE G!Next
    <3>1. session[p].req \in Requests
      BY <2>2, SessionType
         DEF WriteDecision, DispatchInv, ApprovalsInv, ApprovalsTyped, Session
    <3>2. PICK q \in Requests : q = session[p].req
      BY <3>1
    <3>3. QED
      BY <2>1, <2>2, <3>2, DecisionConsents DEF G!Next
  <2>3. QED
    BY <1>4, <2>1, <2>2, OperatorsUnseen
<1>5. ASSUME NEW q \in Requests,
             \/ Arrive(q) \/ Admit(q) \/ Ask(q) \/ RefreshApproval(q) \/ Deliver(q) \/ FinishDelivery(q)
             \/ LinkApproval(q) \/ PollRead(q) \/ PollCheck(q) \/ Forward(q)
             \/ RecordResult(q) \/ Crash(q)
      PROVE  UNCHANGED G!vars
  <2>1. UNCHANGED <<ran, committed>>
    BY <1>5 DEF Arrive, Admit, Ask, RefreshApproval, CreateApproval, Deliver, TryChannel, FinishDelivery,
                CommitDeliveryLog, LinkApproval, PollRead, PollCheck, Forward, RecordResult,
                Crash, approvalVars, dispatchVars
  <2>2. audit \in [Requests -> Audit]
    BY DEF DispatchInv, HandlersTyped
  <2>3. ASSUME NEW r \in Requests
        PROVE  audit'[r].decision = audit[r].decision /\ audit'[r].path = audit[r].path
    BY <1>5, <2>2 DEF Arrive, Admit, Ask, RefreshApproval, Deliver, FinishDelivery, LinkApproval, PollRead,
                      PollCheck, Forward, RecordResult, Crash, dispatchVars, Audit
  <2>4. QED
    BY <2>1, <2>3, Unseen
<1>6. ASSUME NEW c \in Capabilities, RegisterCapability(c) PROVE UNCHANGED G!vars
  BY <1>6, Unseen DEF RegisterCapability, approvalVars
<1>7. QED
  BY <1>1, <1>2, <1>3, <1>4, <1>5, <1>6 DEF Next, Handle

\* The dispatch implements the gate: a verdict before the action, a human's where one
\* was asked, one execution at most.
THEOREM DispatchImplementsGate == Spec => ImplementsGate
<1>1. Init => G!Init
  <2> SUFFICES ASSUME Init PROVE G!Init
    OBVIOUS
  <2>1. \A r \in Requests : (audit[r].path \in HumanPaths) = FALSE
    BY DEF Init, NoAudit, HumanPaths, Verdicts, CallbackPath
  <2>2. [r \in Requests |-> audit[r].path \in HumanPaths] = [r \in Requests |-> FALSE]
    BY <2>1, Zenon
  <2>3. [r \in Requests |-> audit[r].decision] = [r \in Requests |-> "none"]
    BY DEF Init, NoAudit
  <2>4. [r \in Requests |-> committed[r] \intersect Verdicts] = [r \in Requests |-> {}]
    BY DEF Init, ApprovalsInit
  <2>5. ran = [r \in Requests |-> 0]
    BY DEF Init
  <2>6. QED
    BY <2>2, <2>3, <2>4, <2>5 DEF G!Init
<1>2. DispatchInv /\ [Next]_vars => [G!Next]_(G!vars)
  <2>1. ASSUME UNCHANGED vars PROVE UNCHANGED G!vars
    BY <2>1, Unseen DEF vars, approvalVars, dispatchVars
  <2>2. QED
    BY <2>1, StepRefines
<1>3. QED
  BY <1>1, <1>2, DispatchInvariance, PTL DEF Spec, ImplementsGate, G!Spec

=============================================================================
