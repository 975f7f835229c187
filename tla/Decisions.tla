------------------------------ MODULE Decisions ------------------------------
(****************************************************************************)
(* The decisions that need no state of their own, taken one at a time: who  *)
(* is calling (Callers), whether a request is admitted (Admission), where   *)
(* its approval is sent (DeliveryRouter), whether its repository has cooled *)
(* down (RepoCooldown) and what became of a task for the runner             *)
(* (SurgeRunner).                                                           *)
(****************************************************************************)
EXTENDS Admission, Callers, DeliveryRouter, RepoCooldown, SurgeRunner

CONSTANTS
    Admissions,   \* requests, with the settings and the registry entry they meet
    Arrivals,     \* headers, with what the operator has set up
    Routings,     \* approvals to route
    Cooldowns,    \* dispatches of a repository, with the history they meet
    RunnerCalls   \* tasks for the runner, with the reply they get

\* What a request is made of, as far as a decision takes it apart.
Stage == [env : UNION {[names -> {"allowed", "other"}] : names \in SUBSET EnvNames},
          first : STRING, binary : STRING, rest : Seq(STRING)]
Row == [capability : STRING, tenant : STRING, decision : STRING, age : Nat,
        args : [meta : STRING, repo : STRING]]
Reply == [kind : NoConnection \union {"not an HTTPError"}, taken : {FALSE}]
           \union [kind : NoAnswer, taken : BOOLEAN]
           \union [kind : {"http"}, code : 100..599, body : STRING, taken : BOOLEAN]

ASSUME DecisionsAssumption ==
    /\ \A q \in Admissions : /\ q.args.cmd.stages \in Seq(Stage)
                            /\ q.args.path.segments \in Seq(STRING)
    /\ \A q \in Cooldowns : q.rows \in Seq(Row)
    /\ \A q \in RunnerCalls : q.reply \in Reply

\* With no assignment in front, the first token is the program.
ASSUME FirstTokenAssumption ==
    \A q \in Admissions : \A i \in DOMAIN q.args.cmd.stages :
      LET stage == q.args.cmd.stages[i]
      IN  DOMAIN stage.env = {} => stage.first = stage.binary

VARIABLE asked   \* the question being decided

NoQuestion == [about |-> "nothing"]
About(subject) == asked.about = subject

Init == asked = NoQuestion

Ask(subject, questions) ==
    /\ About("nothing")
    /\ \E q \in questions : asked' = [about |-> subject, q |-> q]

Admitting == Ask("admission", Admissions)
Identifying == Ask("caller", Arrivals)
Routing == Ask("routing", Routings)
CoolingDown == Ask("cooldown", Cooldowns)

Executing == Ask("runner", RunnerCalls)

Answered == ~About("nothing") /\ asked' = NoQuestion

Next == Admitting \/ Identifying \/ Routing \/ CoolingDown \/ Executing \/ Answered

Spec == Init /\ [][Next]_asked

Verdict == InitialVerdict(asked.q.cap, asked.q, asked.q.settings)
Caller == get_caller(asked.q.headers, asked.q.ops)
Targets ==
    choose_targets(asked.q.identity, asked.q.actor, asked.q.requires_human,
                   asked.q.session_id, asked.q.operator_email)

----------------------------------------------------------------------------
(* Admission *)

\* What two lanes both let through is the vetted script, with settings its playbook
\* allows: the comment "a request matches at most one" (api/dispatch.py:237) is not kept
\* by the classifiers, for classify_readonly looks up the first token where
\* _parse_env_assignments looks past assignments, but no other request matches two.
OnlyTheScriptMatchesTwo ==
    About("admission") =>
      LET args == asked.q.args
      IN  /\ classify_sandbox_write(args) =>
               ~classify_readonly(args) /\ ~classify_remediation(args)
          /\ classify_readonly(args) /\ classify_remediation(args) =>
               /\ Len(args.cmd.stages) = 1
               /\ args.cmd.stages[1].binary = RetentionScript
               /\ DOMAIN args.cmd.stages[1].env # {}

\* A request that asks for a human goes without one exactly if a lane that is on matches,
\* and the row names the lane that was tried first of those that match, although the row
\* is written in another order than the lanes are tried in.
FirstLaneIsNamed ==
    About("admission") /\ Verdict.decision # "shadow" =>
      LET args == asked.q.args
          settings == asked.q.settings
          readonly == settings.auto_readonly /\ classify_readonly(args)
          sandbox == settings.auto_sandbox_write /\ classify_sandbox_write(args)
          remediation == settings.auto_remediation /\ classify_remediation(args)
      IN  IF ~needs_human(asked.q.cap, args) THEN Verdict.path = "auto-policy"
          ELSE /\ Verdict.decision = "queued" <=> ~readonly /\ ~sandbox /\ ~remediation
               /\ Verdict.path = "auto-readonly" <=> readonly
               /\ Verdict.path = "auto-sandbox-write" <=> sandbox /\ ~readonly
               /\ Verdict.path = "auto-remediation" <=> remediation /\ ~readonly /\ ~sandbox

\* A gate opens by a lane that matches and is on, and the row says which.
LanesAreSound == OnlyTheScriptMatchesTwo /\ FirstLaneIsNamed

\* Where a path leads: "." stays, ".." goes up (and stays at the root).
Visit(at, s) == CASE s = "."  -> at
                  [] s = ".." -> IF at = <<>> THEN at ELSE SubSeq(at, 1, Len(at) - 1)
                  [] OTHER    -> Append(at, s)

Walk(segments) ==
    LET at[i \in 0..Len(segments)] == IF i = 0 THEN <<>> ELSE Visit(at[i - 1], segments[i])
    IN  at[Len(segments)]

\* A write the sandbox lane lets through lands strictly inside /tmp/academy,
\* wherever the segments of its path walk to.
SandboxWritesStayInside ==
    About("admission") =>
      LET path == asked.q.args.path
          at == Walk(path.segments)
      IN  classify_sandbox_write(asked.q.args) =>
            path.absolute /\ Len(at) > 2 /\ at[1] = "tmp" /\ at[2] = "academy"

----------------------------------------------------------------------------
(* Callers *)

\* A caller is accepted on the first credential it shows or not at all: a bad
\* certificate or service token is never made good by a lower credential
\* (auth/mtls.py "fail closed"), and no token serves on the path of the other kind.
AcceptedOnFirstCredential ==
    About("caller") /\ Caller.answer = "ok" =>
      LET headers == asked.q.headers
          Sound(token, kinds) == token.good /\ ~token.revoked /\ token.kind \in kinds
      IN  \/ /\ headers.mtls.verified = "SUCCESS" /\ Caller.kind = "mtls"
             /\ asked.q.ops.secret => headers.mtls.nginx
          \/ /\ headers.mtls.verified = "none" /\ headers.mtls.cn = "none"
             /\ headers.service # NoToken => /\ Sound(headers.service, {"service"})
                                             /\ Caller.kind = "service"
             /\ headers.service = NoToken => /\ Sound(headers.bearer, {"none", "admin"})
                                             /\ Caller.kind = "admin"

\* Whatever else the request shows, an approval is decided by a person whose own
\* token says admin or approver: no service decides what it asked for.
OnlyPeopleApprove ==
    About("caller") /\ Caller.answer = "ok" /\ require_approver(Caller) =>
      /\ asked.q.headers.service = NoToken
      /\ asked.q.headers.bearer.kind # "service"
      /\ asked.q.headers.bearer.role \in {"admin", "approver"}

\* Whoever shows several credentials has no more by them than by the first.
CredentialsAreSound == AcceptedOnFirstCredential /\ OnlyPeopleApprove

----------------------------------------------------------------------------
(* Routing and cooldown *)

Asks(channel) == \E i \in DOMAIN Targets : Targets[i].channel = channel

\* "Customer in the seat: never prompt them" (delivery/router.py:141): only a known
\* operator who sits in the chat is asked there.
CustomersAreNotPrompted ==
    About("routing") /\ Asks("pulsepoint_chat") => is_operator(asked.q.identity.user)

\* Whatever is not configured, somebody is asked, except about the routine actions
\* of an agent outside the chat.
SomebodyIsAsked ==
    About("routing") /\ Asks("log_only") =>
      asked.q.actor = "agent" /\ ~asked.q.requires_human /\ ~InChat(asked.q.identity)

\* Those are asked who should be, and nobody else.
RightOnesAreAsked == CustomersAreNotPrompted /\ SomebodyIsAsked

\* A dispatch is denied exactly when one of the same repository ran within the
\* window, while no more than Limit dispatches of the tenant did; beyond that a
\* denial still has such a row behind it.
CooldownIsExact ==
    About("cooldown") =>
      LET q == asked.q
          repo == extract_repo(q.args)
          ran == {i \in DOMAIN q.rows : Counts(q.rows[i], q.tenant, q.cfg)}
          hot == /\ q.capability \in Capabilities(q.cfg) /\ repo # NoRepo
                 /\ \E i \in ran : extract_repo(q.rows[i].args) = repo
          ok == allowed(q.rows, q.capability, q.tenant, q.args, q.cfg)
      IN  IF q.cfg = NoConfig THEN ok
          ELSE (~ok => hot) /\ (Cardinality(ran) <= Limit /\ hot => ~ok)

----------------------------------------------------------------------------
(* The runner *)

ExitCode(q) == execute_runner(q.token, q.args, q.reply).exit_code

UntriedCodes == {ExitCode(q) : q \in {c \in RunnerCalls : ~Tried(c.token, c.args)}}

\* Who reads the exit code, all that is kept of a call, never takes a task the runner has
\* for one that was never tried, and takes it for accepted only on an answer below 400.
\* What 1, 124 and a status of 400 or more mean for the task the code does not tell.
TakenIsNotDenied ==
    About("runner") =>
      /\ Tried(asked.q.token, asked.q.args) /\ asked.q.reply.taken =>
           ExitCode(asked.q) \notin UntriedCodes
      /\ ExitCode(asked.q) = 0 =>
           /\ Tried(asked.q.token, asked.q.args)
           /\ asked.q.reply.kind = "http" /\ asked.q.reply.code < 400

\* Nothing that is not for the runner gets into a payload, whatever the args, and
\* what is sent says what is to be done and on whose behalf.
PayloadIsSound ==
    About("runner") =>
      LET payload == build_runner_payload(asked.q.args)
      IN  /\ \A k \in Lists \intersect DOMAIN payload : payload[k] = "list"
          /\ DOMAIN payload \subseteq Untyped \union Lists \union {"metadata", "source"}
          /\ Tried(asked.q.token, asked.q.args) =>
               payload["prompt"] # "blank" /\ payload["source"] # "blank"

\* A call of the runner says what it asks for, and its result denies no task it started.
RunnerCallsAreSound == TakenIsNotDenied /\ PayloadIsSound

=============================================================================
