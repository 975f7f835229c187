------------------------------- MODULE Dispatch -------------------------------
(****************************************************************************)
(* POST /v1/sol/dispatch (api/dispatch.py): every request is one handler    *)
(* thread with one database session.  A step of a handler ends at a commit, *)
(* at a read of shared state or at the call of the broker, so that other    *)
(* handlers, deciders, sweeps and the clock act in between, and the worker  *)
(* may die there.  The approvals table and its callers are those of module  *)
(* Approvals, the decisions those of module Admission.                      *)
(****************************************************************************)
EXTENDS Admission, Approvals

CONSTANTS
    RequestShapes,       \* requests a client may send
    SettingsSet,         \* settings the process may have started with
    Capabilities,        \* capability names
    BrokerCapabilities,  \* _BROKER_CAPABILITIES
    BlockCap             \* the 600 seconds of the handler, in ticks

ASSUME DispatchAssumption ==
    /\ BrokerCapabilities \subseteq Capabilities
    /\ BlockCap \in Nat
    /\ \A req \in RequestShapes : req.capability \in Capabilities /\ req.block \in Int

VARIABLES
    pc,         \* pc[r]: where the handler of r is
    job,        \* job[r]: its local variables
    audit,      \* audit[r]: the row of sol.dispatches
    registry,   \* sol.capabilities: "absent", or whether it requires a human
    ran,        \* ran[r]: how often the broker has run the action of r
    settings    \* get_settings(), cached for the life of the process

dispatchVars == <<pc, job, audit, registry, ran, settings>>
vars == <<approvalVars, dispatchVars>>

NoJob == [decision |-> "none"]
NoAudit == [decision |-> "none", path |-> "none", approval |-> FALSE,
            executed |-> FALSE, result |-> "none"]

\* decision_path after the verdict of a human.
CallbackPath(status) == CASE status = "approved" -> "human-approved-callback"
                          [] status = "denied"   -> "human-denied-callback"
                          [] OTHER               -> "human-other-callback"
HumanPaths == {"human-approval"} \union {CallbackPath(v) : v \in Verdicts}

\* An approval outlives the poll of the request that asked for it, or ends with it.
ApprovalTTL(block) == IF block > BlockCap THEN block ELSE BlockCap
BlockSeconds(block) == IF block < 0 THEN 0 ELSE IF block > BlockCap THEN BlockCap ELSE block

\* What execute_broker may report, with whether the broker ran the action: no
\* token or an HTTP error: not run; a lost or garbled answer: run or not; an
\* answer of its own: what it says.
BrokerOutcomes ==
    {[runs |-> n, status |-> "error"] : n \in {0, 1}}
      \union {[runs |-> 0, status |-> "refused"], [runs |-> 1, status |-> "success"]}

Ended == {"refused", "failed", "done", "crashed"}

----------------------------------------------------------------------------
(* The handler, in the order of the code *)

\* The tenant guard answers 403 before anything is written.
Arrive(r) ==
    /\ pc[r] = "new"
    /\ \E req \in RequestShapes :
         IF TenantPermitted(req)
         THEN /\ pc' = [pc EXCEPT ![r] = "admit"]
              /\ job' = [job EXCEPT ![r] = [decision |-> "none", path |-> "none", req |-> req,
                                            seen |-> "none", deadline |-> 0,
                                            outcome |-> "none"]]
         ELSE /\ pc' = [pc EXCEPT ![r] = "refused"]
              /\ UNCHANGED job
    /\ UNCHANGED <<approvalVars, audit, registry, ran, settings>>

\* The mode and the lanes need no database; the human gate reads the registry.
Admit(r) ==
    /\ pc[r] = "admit"
    /\ LET verdict == InitialVerdict(registry[job[r].req.capability], job[r].req, settings)
       IN  job' = [job EXCEPT ![r].decision = verdict.decision, ![r].path = verdict.path]
    /\ pc' = [pc EXCEPT ![r] = "insert"]
    /\ UNCHANGED <<approvalVars, audit, registry, ran, settings>>

NewAudit(decision, path) == [NoAudit EXCEPT !.decision = decision, !.path = path]

\* The row references sol.capabilities: without the capability the INSERT fails,
\* the handler raises, and the client gets a 500.
InsertAudit(r) ==
    /\ pc[r] = "insert"
    /\ IF registry[job[r].req.capability] = "absent"
       THEN /\ pc' = [pc EXCEPT ![r] = "failed"]
            /\ UNCHANGED audit
       ELSE /\ pc' = [pc EXCEPT ![r] = IF job[r].decision = "queued" THEN "ask" ELSE "forward"]
            /\ audit' = [audit EXCEPT ![r] = NewAudit(job[r].decision, job[r].path)]
    /\ UNCHANGED <<approvalVars, job, registry, ran, settings>>

Ask(r) ==
    /\ pc[r] = "ask"
    /\ CreateApproval(r, ApprovalTTL(job[r].req.block))
    /\ pc' = [pc EXCEPT ![r] = "refresh"]
    /\ UNCHANGED <<job, audit, registry, ran, settings>>

\* The row is there for everyone before the handler's session has read it back.
RefreshApproval(r) ==
    /\ pc[r] = "refresh"
    /\ job' = [job EXCEPT ![r].seen = approval[r].status]
    /\ pc' = [pc EXCEPT ![r] = "deliver"]
    /\ UNCHANGED <<approvalVars, audit, registry, ran, settings>>

Deliver(r) ==
    /\ pc[r] = "deliver"
    /\ TryChannel(r)
    /\ UNCHANGED dispatchVars

FinishDelivery(r) ==
    /\ pc[r] = "deliver"
    /\ CommitDeliveryLog(r)
    /\ pc' = [pc EXCEPT ![r] = "link"]
    /\ UNCHANGED <<job, audit, registry, ran, settings>>

\* Slip: a denial is not looked for.
ApprovalTaken(status) == status = "approved"

Taken(status) == status \in Verdicts

\* What poll_for_decision does with the status it reads.
AfterRead(status) == CASE Taken(status)      -> "record"
                       [] status = "pending" -> "check"
                       [] OTHER              -> "forward"
Heard(locals, status) ==
    IF Taken(status) THEN [locals EXCEPT !.decision = status, !.path = CallbackPath(status)]
                     ELSE locals

\* The approval is named on the row only now; with no budget nobody polls.  The poll's
\* first read is served from the session, as the refresh left it; no later one is.
LinkApproval(r) ==
    LET block == BlockSeconds(job[r].req.block)
        timed == [job[r] EXCEPT !.deadline = clock + block, !.seen = "none"]
    IN  /\ pc[r] = "link"
        /\ audit' = [audit EXCEPT ![r].approval = TRUE]
        /\ job' = [job EXCEPT ![r] = IF block > 0 THEN Heard(timed, job[r].seen) ELSE timed]
        /\ pc' = [pc EXCEPT ![r] = IF block > 0 THEN AfterRead(job[r].seen) ELSE "forward"]
        /\ UNCHANGED <<approvalVars, registry, ran, settings>>

\* A read after a sleep; then the deadline is looked at.
PollRead(r) ==
    /\ pc[r] = "poll"
    /\ pc' = [pc EXCEPT ![r] = AfterRead(approval[r].status)]
    /\ job' = [job EXCEPT ![r] = Heard(@, approval[r].status)]
    /\ UNCHANGED <<approvalVars, audit, registry, ran, settings>>

\* Slips: no deadline; a deadline that counts as a denial.
PollForever(r) ==
    /\ pc[r] = "check"
    /\ pc' = [pc EXCEPT ![r] = "poll"]
    /\ UNCHANGED <<approvalVars, job, audit, registry, ran, settings>>
SilenceDenies(r) ==
    /\ pc[r] = "check"
    /\ pc' = [pc EXCEPT ![r] = IF clock >= job[r].deadline THEN "record" ELSE "poll"]
    /\ job' = IF clock >= job[r].deadline
              THEN [job EXCEPT ![r].decision = "denied", ![r].path = "human-denied-callback"]
              ELSE job
    /\ UNCHANGED <<approvalVars, audit, registry, ran, settings>>

\* On time, it sleeps and reads again; late, it goes on with "queued".
PollCheck(r) ==
    /\ pc[r] = "check"
    /\ pc' = [pc EXCEPT ![r] = IF clock >= job[r].deadline THEN "forward" ELSE "poll"]
    /\ UNCHANGED <<approvalVars, job, audit, registry, ran, settings>>

\* Slip: no commit after the verdict.
VerdictNotCommitted(r) ==
    /\ pc[r] = "record"
    /\ pc' = [pc EXCEPT ![r] = "forward"]
    /\ UNCHANGED <<approvalVars, job, audit, registry, ran, settings>>

RecordVerdict(r) ==
    /\ pc[r] = "record"
    /\ audit' = [audit EXCEPT ![r].decision = job[r].decision, ![r].path = job[r].path]
    /\ pc' = [pc EXCEPT ![r] = "forward"]
    /\ UNCHANGED <<approvalVars, job, registry, ran, settings>>

\* Slip: the decision is not looked at.
ForwardedUndecided(r) == job[r].req.capability \in BrokerCapabilities

\* Only an approved request for the broker goes on.
Forwarded(r) ==
    /\ job[r].req.capability \in BrokerCapabilities
    /\ job[r].decision = "approved"

\* A missing target is recorded as an error, a timeout_s that is no number raises.
Forward(r) ==
    LET args == job[r].req.args
    IN  /\ pc[r] = "forward"
        /\ pc' = [pc EXCEPT ![r] = IF ~Forwarded(r) \/ args.target = "none" THEN "done"
                                   ELSE IF ~args.timeoutOk THEN "failed" ELSE "call"]
        /\ audit' = [audit EXCEPT ![r].result = IF Forwarded(r) /\ args.target = "none"
                                                THEN "error" ELSE @]
        /\ UNCHANGED <<approvalVars, job, registry, ran, settings>>

\* Slip: an error is tried again.
CallBrokerRetrying(r) ==
    /\ pc[r] = "call"
    /\ \E answer \in BrokerOutcomes :
         /\ ran' = [ran EXCEPT ![r] = @ + answer.runs]
         /\ job' = [job EXCEPT ![r].outcome = answer.status]
         /\ pc' = [pc EXCEPT ![r] = IF answer.status = "error" THEN "call" ELSE "result"]
    /\ UNCHANGED <<approvalVars, audit, registry, settings>>

\* An actor or trace id that is not ASCII is no HTTP header: without a token that
\* is not found out, with one the executor raises and nothing is sent.
BrokerAnswers(args) ==
    IF args.ascii THEN BrokerOutcomes ELSE {[runs |-> 0, status |-> "error"]}

\* Slip: an answer that is no JSON raises.
CallBrokerParsing(r) ==
    /\ pc[r] = "call"
    /\ \E answer \in BrokerAnswers(job[r].req.args) :
         /\ ran' = [ran EXCEPT ![r] = @ + answer.runs]
         /\ job' = [job EXCEPT ![r].outcome = answer.status]
         /\ pc' = [pc EXCEPT ![r] = IF answer.status = "error" THEN "failed" ELSE "result"]
    /\ UNCHANGED <<approvalVars, audit, registry, settings>>

\* execute_broker never retries.
CallBroker(r) ==
    /\ pc[r] = "call"
    /\ \/ /\ \E answer \in BrokerAnswers(job[r].req.args) :
               /\ ran' = [ran EXCEPT ![r] = @ + answer.runs]
               /\ job' = [job EXCEPT ![r].outcome = answer.status]
          /\ pc' = [pc EXCEPT ![r] = "result"]
       \/ /\ ~job[r].req.args.ascii
          /\ pc' = [pc EXCEPT ![r] = "failed"]
          /\ UNCHANGED <<ran, job>>
    /\ UNCHANGED <<approvalVars, audit, registry, settings>>

\* Slip: the time is written and the outcome is not.
RecordTimeOnly(r) ==
    /\ pc[r] = "result"
    /\ audit' = [audit EXCEPT ![r].executed = TRUE]
    /\ pc' = [pc EXCEPT ![r] = "done"]
    /\ UNCHANGED <<approvalVars, job, registry, ran, settings>>

RecordResult(r) ==
    /\ pc[r] = "result"
    /\ audit' = [audit EXCEPT ![r].executed = TRUE, ![r].result = job[r].outcome]
    /\ pc' = [pc EXCEPT ![r] = "done"]
    /\ UNCHANGED <<approvalVars, job, registry, ran, settings>>

\* The worker dies, or the database refuses a statement and the handler raises.
Crash(r) ==
    /\ pc[r] \notin Ended \union {"new"}
    /\ pc' = [pc EXCEPT ![r] = "crashed"]
    /\ UNCHANGED <<approvalVars, job, audit, registry, ran, settings>>

----------------------------------------------------------------------------
\* POST /capabilities/register: one upsert, at any time.
RegisterCapability(c) ==
    /\ \E gate \in {"auto", "human"} : registry' = [registry EXCEPT ![c] = gate]
    /\ UNCHANGED <<approvalVars, pc, job, audit, ran, settings>>

Init ==
    /\ ApprovalsInit
    /\ pc = [r \in Requests |-> "new"]
    /\ job = [r \in Requests |-> NoJob]
    /\ audit = [r \in Requests |-> NoAudit]
    /\ registry = [c \in Capabilities |-> "absent"]
    /\ ran = [r \in Requests |-> 0]
    /\ settings \in SettingsSet

Handle(r) ==
    \/ Admit(r) \/ InsertAudit(r)
    \/ Ask(r) \/ RefreshApproval(r) \/ Deliver(r) \/ FinishDelivery(r) \/ LinkApproval(r)
    \/ PollRead(r) \/ PollCheck(r) \/ RecordVerdict(r)
    \/ Forward(r) \/ CallBroker(r) \/ RecordResult(r)

Next ==
    \/ \E r \in Requests : Arrive(r) \/ Handle(r) \/ Crash(r)
    \/ \E c \in Capabilities : RegisterCapability(c)
    \/ Operators /\ UNCHANGED dispatchVars

Spec == Init /\ [][Next]_vars

\* A handler that can take a step is a runnable thread, and time goes on; nobody
\* has to decide, register or list anything.
FairSpec ==
    /\ Spec
    /\ \A r \in Requests : WF_vars(Handle(r))
    /\ WF_vars(Tick /\ UNCHANGED dispatchVars)

----------------------------------------------------------------------------
(* Properties *)

\* Write-ahead audit: the broker has run an action only if the request's row was
\* committed before, with decision "approved", and it still says so, whatever
\* died, was decided late or was overwritten in between.
RanUnderApproval == \A r \in Requests : ran[r] > 0 => audit[r].decision = "approved"

\* A request put to humans runs only if someone's "approved" was committed on
\* the very approval it asked for; a verdict on its row is one that was.
HumanVerdictIsReal ==
    \A r \in Requests :
      /\ audit[r].path = "human-approval" => audit[r].decision = "queued" /\ ran[r] = 0
      /\ \A v \in Verdicts :
           audit[r].path = CallbackPath(v) => audit[r].decision = v /\ v \in committed[r]

\* A request in shadow mode, by its header or by the settings, leaves an audit
\* row and nothing else: nobody is asked, no mail is sent, the broker is not called.
ShadowIsInert ==
    \A r \in Requests :
      pc[r] \notin {"new", "refused"} /\ ShadowMode(job[r].req.header, settings) =>
        /\ approval[r] = NoRow
        /\ link[r] = 0
        /\ ran[r] = 0
        /\ audit[r].decision \in {"none", "shadow"}

\* The answer tells the client what the audit row tells an auditor.
AnswerMatchesAudit ==
    \A r \in Requests :
      pc[r] = "done" => /\ job[r].decision = audit[r].decision
                        /\ job[r].path = audit[r].path

\* An approved broker request that was answered has its result on record, and a
\* "success" on record was run, once.
ApprovedIsCarriedOut ==
    \A r \in Requests :
      /\ pc[r] = "done" /\ audit[r].decision = "approved"
           /\ job[r].req.capability \in BrokerCapabilities => audit[r].result # "none"
      /\ audit[r].result = "success" => ran[r] = 1

\* Whoever was answered "queued" may turn to its legacy gate or ask again
\* (services/approvals.py:16), and so may whoever got a 403 or a 500 that the handler
\* itself raised, for a missing capability or for args that cannot be sent: none of
\* them is carried out any more, approved as the row may be, not even by a verdict
\* committed while the answer was under way.
FallbackIsSafe ==
    \A r \in Requests :
      pc[r] \in {"refused", "failed"} \/ (pc[r] = "done" /\ job[r].decision = "queued")
        => ran[r] = 0

\* An approval belongs to a request that is on record as put to humans; the row
\* names it once its delivery is over.
ApprovalHasAudit ==
    \A r \in Requests :
      /\ Exists(r) => audit[r].path \in HumanPaths
      /\ audit[r].approval => Exists(r) /\ fanout[r].stage = "done"

\* Answer, audit row and approval tell one story.
RecordsAgree == AnswerMatchesAudit /\ ApprovalHasAudit

\* What is on record only moves on: a row's decision is written once, and then
\* only from "queued" to a verdict; a result is never rewritten; an approval is
\* never pending again.
RecordsMoveForward ==
    [][\A r \in Requests :
         /\ \/ audit'[r].decision = audit[r].decision
            \/ audit[r].decision = "none"
            \/ audit[r].decision = "queued" /\ audit'[r].decision \in Verdicts
         /\ audit[r].result # "none" => audit'[r] = audit[r]
         /\ approval[r].status \in FinalStatuses => approval'[r].status \in FinalStatuses]_vars

\* Past the modelled time the deadline of a poll is out of reach.
BeyondHorizon(r) == pc[r] \in {"poll", "check"} /\ job[r].deadline > MaxTime

\* A handler never hangs: admitted, it ends, whoever decides or does not.
HandlerEnds ==
    \A r \in Requests : pc[r] = "admit" ~> pc[r] \in Ended \/ BeyondHorizon(r)

\* A verdict that is there when the handler reads next is not lost: it is put on
\* the row, unless the worker dies or a sweep overwrites the approval.
VerdictIsTaken ==
    \A r \in Requests :
      pc[r] = "poll" /\ approval[r].status \in Verdicts
        ~> audit[r].decision \in Verdicts \/ pc[r] = "crashed" \/ "expired" \in committed[r]

(* What SOL promises of a request, with none of the machinery. *)

G == INSTANCE Gate WITH
       verdict <- [r \in Requests |-> audit[r].decision],
       asked   <- [r \in Requests |-> audit[r].path \in HumanPaths],
       consent <- [r \in Requests |-> committed[r] \intersect Verdicts],
       effects <- ran

\* The dispatch handler, the deciders and the crashes implement the gate.
ImplementsGate == G!Spec

=============================================================================
