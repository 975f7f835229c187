------------------------------ MODULE Admission ------------------------------
(****************************************************************************)
(* What POST /v1/sol/dispatch decides about a request before it touches     *)
(* the database: the mode, whether a human is needed, and the three lanes   *)
(* that let a request through without one (api/dispatch.py,                 *)
(* policy/remediation.py, settings.py, the X-SOL-Mode header of             *)
(* api/deps.py).                                                            *)
(*                                                                          *)
(* The arguments are abstracted to what the classifiers look at: a shell    *)
(* command is the operators it contains and its pipeline of stages, a path  *)
(* its segments.  Tokens are taken as unquoted: one classifier splits them  *)
(* as the shell does, the other at blanks.                                  *)
(****************************************************************************)
EXTENDS Selection

(* Shell commands *)

\* A few members of each list of the source.
ReadonlyBinaries == {"cat", "find", "sort", "grep"}
ForbiddenFlags == {"-exec", "-delete"}
WriteFlags(binary) == IF binary = "sort" THEN {"-o", "--output"} ELSE {}
RetentionScript == "surge-qdrant-snapshot-retention.sh"

\* "|" apart, which splits the stages.
ForbiddenOperators == {"redirect", "substitution", "background", "chain"}

\* A stage is its leading VAR=VALUE tokens (env), each with whether the playbook allows
\* the value (KEEP of two or more, the one FAMILY, a ROOT under the backup root; LOG may
\* be anything), the program the shell runs (binary) and the tokens after it (rest).
\* "first" is what follows the last slash of the stage's first token: the program's name,
\* or, with assignments in front, what the first of them ends in.
EnvNames == {"KEEP", "FAMILY", "ROOT", "LOG", "PATH"}

\* The first token is looked up, an assignment or not; the tokens after it are only
\* searched for flags.
ReadonlyStage(stage) ==
    LET flags == ForbiddenFlags \union WriteFlags(stage.first)
    IN  /\ stage.first \in ReadonlyBinaries
        /\ stage.binary \notin flags
        /\ \A i \in DOMAIN stage.rest : stage.rest[i] \notin flags

classify_readonly(args) ==
    /\ args.tool = "run_bash"
    /\ args.cmd.stages # <<>>
    /\ args.cmd.operators \intersect ForbiddenOperators = {}
    /\ \A i \in DOMAIN args.cmd.stages : ReadonlyStage(args.cmd.stages[i])

matches_qdrant_retention(args) ==
    /\ args.tool = "run_bash"
    /\ Len(args.cmd.stages) = 1
    /\ args.cmd.operators \intersect ForbiddenOperators = {}
    /\ LET stage == args.cmd.stages[1]
       IN  /\ \A k \in DOMAIN stage.env :
                /\ k \in {"KEEP", "FAMILY", "ROOT", "LOG"}
                /\ k = "LOG" \/ stage.env[k] = "allowed"
           /\ stage.binary = RetentionScript
           /\ stage.rest \in {<<>>, <<"--apply">>}

\* One playbook is registered; its capability field is not consulted.
classify_remediation(args) == matches_qdrant_retention(args)

(* Paths *)

\* os.path.normpath of an absolute path that has no "..".
Normalised(segments) == Kept(segments, {i \in DOMAIN segments : segments[i] # "."})

\* Slip: ".." is not refused.
sandbox_write_by_prefix(args) ==
    LET norm == Normalised(args.path.segments)
    IN  /\ args.tool = "write_file"
        /\ args.path.absolute
        /\ Len(norm) > 2
        /\ norm[1] = "tmp"
        /\ norm[2] = "academy"

classify_sandbox_write(args) ==
    LET norm == Normalised(args.path.segments)
    IN  /\ args.tool = "write_file"
        /\ args.path.absolute
        /\ \A i \in DOMAIN args.path.segments : args.path.segments[i] # ".."
        /\ Len(norm) > 2
        /\ norm[1] = "tmp"
        /\ norm[2] = "academy"

----------------------------------------------------------------------------
(* Mode, human gate, lane *)

is_shadow_only(settings) == settings.shadow_enabled /\ ~settings.enforce

\* The header is "shadow", "enforce" or absent; only "shadow" is looked at.
ShadowMode(header, settings) == header = "shadow" \/ is_shadow_only(settings)

HumanRiskBands == {"mutate", "remote", "destructive"}

\* cap is "absent" for an unregistered capability, else what it requires.
needs_human(cap, args) == cap = "human" \/ args.risk \in HumanRiskBands

LaneReadonly(human, args, settings) ==
    human /\ settings.auto_readonly /\ classify_readonly(args)
LaneSandboxWrite(human, args, settings) ==
    human /\ settings.auto_sandbox_write /\ classify_sandbox_write(args)
LaneRemediation(human, args, settings) ==
    human /\ settings.auto_remediation /\ classify_remediation(args)

\* Slip: the last lane is tried whether or not a human is still needed.
LanesUnchained(human, args, settings) ==
    LET readonly == LaneReadonly(human, args, settings)
    IN  [readonly |-> readonly,
         sandbox |-> LaneSandboxWrite(human /\ ~readonly, args, settings),
         remediation |-> LaneRemediation(human, args, settings)]

\* The lanes in the order they are tried, each only while a human is still needed.
Lanes(human, args, settings) ==
    LET readonly == LaneReadonly(human, args, settings)
        sandbox == LaneSandboxWrite(human /\ ~readonly, args, settings)
    IN  [readonly |-> readonly, sandbox |-> sandbox,
         remediation |-> LaneRemediation(human /\ ~readonly /\ ~sandbox, args, settings)]

Gated(cap, args, settings) ==
    LET lanes == Lanes(needs_human(cap, args), args, settings)
    IN  needs_human(cap, args) /\ ~lanes.readonly /\ ~lanes.sandbox /\ ~lanes.remediation

\* The row names them in another order.
AutoPath(cap, args, settings) ==
    LET lanes == Lanes(needs_human(cap, args), args, settings)
    IN  IF lanes.remediation THEN "auto-remediation"
        ELSE IF lanes.readonly THEN "auto-readonly"
        ELSE IF lanes.sandbox THEN "auto-sandbox-write"
        ELSE "auto-policy"

LanePaths == {"auto-readonly", "auto-sandbox-write", "auto-remediation"}
AutoPaths == LanePaths \union {"auto-policy"}

\* Slip: the human gate before the mode.
GateBeforeMode(cap, req, settings) ==
    IF Gated(cap, req.args, settings)
    THEN [decision |-> "queued", path |-> "human-approval"]
    ELSE IF ShadowMode(req.header, settings)
    THEN [decision |-> "shadow", path |-> "shadow-bypass"]
    ELSE [decision |-> "approved",
          path |-> AutoPath(cap, req.args, settings)]

\* decision and decision_path of the audit row, as first written.
InitialVerdict(cap, req, settings) ==
    IF ShadowMode(req.header, settings)
    THEN [decision |-> "shadow", path |-> "shadow-bypass"]
    ELSE IF Gated(cap, req.args, settings)
    THEN [decision |-> "queued", path |-> "human-approval"]
    ELSE [decision |-> "approved",
          path |-> AutoPath(cap, req.args, settings)]

\* Only a service token is held to the tenants it may act for.
TenantPermitted(req) == req.caller = "service" => req.tenantAllowed

=============================================================================
