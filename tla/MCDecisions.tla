----------------------------- MODULE MCDecisions -----------------------------
(****************************************************************************)
(* Bounded questions.  Commands have up to two stages, paths up to four     *)
(* segments, histories up to three rows (one more than are looked at).      *)
(****************************************************************************)
EXTENDS Decisions

NoCmd == [operators |-> {}, stages |-> <<>>]
NoPath == [absolute |-> FALSE, segments |-> <<>>]

Envs == {<<>>} \union [{"KEEP"} -> {"allowed", "other"}] \union [{"LOG"} -> {"other"}]
          \union [{"ROOT"} -> {"allowed"}] \union [{"PATH"} -> {"allowed"}]
Rests == {<<>>, <<"-o">>, <<"-exec">>, <<"--apply">>, <<"--apply", "-o">>}

\* The names of programs, and of what an assignment may end in.
Programs == {"cat", "sort", "rm", RetentionScript}
\* What KEEP is set to ends in no name.
Stages == {st \in [env : Envs, first : Programs, binary : Programs, rest : Rests] :
             IF st.env = <<>> THEN st.first = st.binary
             ELSE "KEEP" \in DOMAIN st.env => st.first = "rm"}

Commands ==
    {[operators |-> ops, stages |-> <<a>>] : ops \in SUBSET {"redirect", "chain"}, a \in Stages}
      \union {[operators |-> {}, stages |-> <<a, b>>] :
                a \in {st \in Stages : st.rest \in {<<>>, <<"-o">>}},
                b \in {st \in Stages : st.env = <<>>}}

Segments == {".", "..", "tmp", "academy", "f"}
Paths == [absolute : BOOLEAN, segments : UNION {[1..n -> Segments] : n \in 0..4}]

Args ==
    [tool : {"run_bash"}, risk : {"mutate"}, cmd : Commands, path : {NoPath}]
      \union [tool : {"write_file"}, risk : {"mutate"}, cmd : {NoCmd}, path : Paths]
      \union [tool : {"http_get"}, risk : {"read", "remote"}, cmd : {NoCmd}, path : {NoPath}]

AllSettings == [shadow_enabled : BOOLEAN, enforce : BOOLEAN, auto_readonly : BOOLEAN,
                auto_sandbox_write : BOOLEAN, auto_remediation : BOOLEAN]

MCAdmissions ==
    [args : Args, header : {"none", "shadow", "enforce"}, cap : {"absent", "auto", "human"},
     settings : AllSettings]

----------------------------------------------------------------------------
Certificates == [verified : {"none", "SUCCESS", "FAILED"}, cn : {"none", "malformed", "brain", "ghost"},
                 nginx : BOOLEAN, loopback : BOOLEAN]
Conditions == {<<TRUE, FALSE>>, <<FALSE, FALSE>>, <<TRUE, TRUE>>}
Token(kind, condition, role) ==
    [kind |-> kind, good |-> condition[1], revoked |-> condition[2], role |-> role,
     tenants |-> <<"acme">>, claims |-> {"register_capability"}]

\* A service token names no role, which reads as viewer.
Tokens == {Token(kind, c, role) : kind \in {"none", "admin"}, c \in Conditions,
                                  role \in {"viewer", "approver"}}
            \union {Token("service", c, "viewer") : c \in Conditions}

Headers == [mtls : Certificates, service : {NoToken} \union Tokens,
            bearer : {NoToken} \union Tokens, tenant : {"none", "acme", "globex"}]

Brain == [tenants |-> <<"acme">>, claims |-> {"register_capability"}]
Operations == [secret : BOOLEAN, loopback : BOOLEAN, callers : {[cn \in {"brain"} |-> Brain]}]

MCArrivals == [headers : Headers, ops : Operations]

----------------------------------------------------------------------------
Text(text) == [text : {text}, padded : BOOLEAN]

MCRoutings ==
    [identity : [surface : Text("pulsepoint-chat") \union Text("web") \union {Blank},
                 user : Text("todd") \union Text("customer") \union {Blank},
                 geopro_target : Text("") \union Text("partner")],
     actor : {"agent", "human"}, requires_human : BOOLEAN,
     session_id : {"", "session"}, operator_email : {"", "ops"}]

----------------------------------------------------------------------------
RepoArgs(meta, repo) == [meta |-> meta, repo |-> repo]
Ran == [capability |-> "surge_runner_dispatch", tenant |-> "acme", decision |-> "approved",
        args |-> RepoArgs("r1", "none")]
RowKinds == {Ran, [Ran EXCEPT !.decision = "shadow"], [Ran EXCEPT !.decision = "executed"],
             [Ran EXCEPT !.tenant = "globex"], [Ran EXCEPT !.capability = "host_run_bash"],
             [Ran EXCEPT !.args = RepoArgs("r2", "r1")], [Ran EXCEPT !.args = RepoArgs("none", "r1")]}
Aged(kind, age) == [capability |-> kind.capability, tenant |-> kind.tenant,
                    decision |-> kind.decision, args |-> kind.args, age |-> age]
Rows == {Aged(kind, age) : kind \in RowKinds, age \in {0, 2, 3}}
Histories == {rows \in UNION {[1..n -> Rows] : n \in 0..3} :
                \A i, j \in DOMAIN rows : i < j => rows[i].age <= rows[j].age}

MCCooldowns ==
    [rows : Histories, capability : {"surge_runner_dispatch"}, tenant : {"acme"},
     args : {RepoArgs("r1", "r2"), RepoArgs("none", "r2"), RepoArgs("blank", "r1")},
     cfg : {NoConfig} \union [configured : {TRUE}, wellFormed : BOOLEAN, window_seconds : {0, 2},
                              capabilities : {{}, {"surge_runner_dispatch", "host_run_bash"}}]]

----------------------------------------------------------------------------
Values == {"blank", "text", "list"}
Replies == [kind : NoConnection \union {"not an HTTPError"}, taken : {FALSE}]
             \union [kind : NoAnswer, taken : BOOLEAN]
             \union [kind : {"http"}, code : {200, 202, 307, 400, 422, 503},
                     body : {"task id", "no id", "not JSON"}, taken : BOOLEAN]

MCRunnerCalls ==
    [token : BOOLEAN, reply : Replies,
     args : UNION {[keys -> Values] :
                     keys \in SUBSET {"prompt", "source", "allowed_ssh_hosts", "junk"}}]

=============================================================================
