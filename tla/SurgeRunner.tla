----------------------------- MODULE SurgeRunner -----------------------------
(****************************************************************************)
(* execute_runner (executors/surge_runner.py): what is sent to the runner   *)
(* for the args of a dispatch, and what its reply, or the lack of one, is   *)
(* reported as.  No code calls it yet.  Args are a function from keys to    *)
(* the kind of value they have; "blank" is any value Python takes as false. *)
(*                                                                          *)
(* A reply is what the HTTP client makes of the call, with whether the      *)
(* runner took the task, which the code does not see: a call that found no  *)
(* connection, or raised before it was sent, was not taken; one that was    *)
(* not answered, or answered by a proxy, may have been.                     *)
(****************************************************************************)
LOCAL INSTANCE Integers

Untyped == {"prompt", "system_prompt", "external_id", "max_steps"}
Lists == {"allowed_ssh_hosts", "allowed_http_hosts", "allowed_write_prefixes"}

Known(args) ==
    {k \in DOMAIN args : \/ k \in Untyped
                         \/ k = "metadata" /\ args[k] = "dict"
                         \/ k \in Lists /\ args[k] = "list"}

source(args) ==
    IF "source" \in DOMAIN args /\ args["source"] # "blank" THEN args["source"]
                                                            ELSE "sol-dispatch"

build_runner_payload(args) ==
    [k \in Known(args) \union {"source"} |-> IF k = "source" THEN source(args) ELSE args[k]]

\* The call gets as far as the HTTP client.
Tried(token, args) == token /\ "prompt" \in DOMAIN args /\ args["prompt"] # "blank"

NoConnection == {"connect timeout", "connect error"}
NoAnswer == {"read timeout", "read error"}

Result(status, exit_code, task) == [status |-> status, exit_code |-> exit_code, task |-> task]

\* The exception leaves execute_runner, and no result is made.
Raised == Result("raised", -1, FALSE)

\* A connection that was not made is reported like an answer that did not come.  Any
\* answer below 400 is success, a redirect and a body that is no JSON too.
Report(reply) ==
    CASE reply.kind \in {"connect timeout", "read timeout"} -> Result("error", 124, FALSE)
      [] reply.kind \in {"connect error", "read error"} -> Result("error", 1, FALSE)
      [] reply.kind = "not an HTTPError" -> Raised
      [] reply.kind = "http" /\ reply.code >= 400 -> Result("error", reply.code, FALSE)
      [] reply.kind = "http" /\ reply.code < 400  -> Result("success", 0, reply.body = "task id")

\* Slip: one exit code for whatever went wrong on this side.
execute_runner_one_code(token, args, reply) ==
    IF Tried(token, args) THEN Report(reply) ELSE Result("error", 1, FALSE)

execute_runner(token, args, reply) ==
    IF ~token THEN Result("error", 2, FALSE)
    ELSE IF ~Tried(token, args) THEN Result("error", 22, FALSE)
    ELSE Report(reply)

=============================================================================
