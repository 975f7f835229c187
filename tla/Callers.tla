------------------------------- MODULE Callers -------------------------------
(****************************************************************************)
(* Who is calling: the three credentials a request may show, in the order   *)
(* api/deps.py looks at them, and the gates of the endpoints.               *)
(*                                                                          *)
(* headers.mtls holds what nginx is said to have set, headers.service and   *)
(* headers.bearer a token or NoToken, headers.tenant a tenant or "none".    *)
(* A token is "good" when a known key verifies it and it has not expired.   *)
(****************************************************************************)
EXTENDS Sequences
LOCAL INSTANCE Functions

NoToken == [kind |-> "no token"]
NoCertificate == [verified |-> "none", cn |-> "none", nginx |-> FALSE, loopback |-> TRUE]

Refused(code) == [answer |-> code]
NoPrincipal == [answer |-> "none"]
Principal(tenants, claims, role) ==
    [answer |-> "ok", tenants |-> tenants, claims |-> claims, role |-> role]

\* Slip: a certificate that nginx did not verify is taken for no certificate.
UnverifiedIsAbsent(mtls, ops) ==
    IF mtls.verified # "SUCCESS" \/ mtls.cn \notin DOMAIN ops.callers
    THEN NoPrincipal
    ELSE Principal(ops.callers[mtls.cn].tenants, ops.callers[mtls.cn].claims, "none")

\* ops is what the operator set up: whether the shared secret of nginx is readable,
\* mtls_require_loopback, and the registry of callers.
extract_mtls_principal(mtls, ops) ==
    IF mtls.verified = "none" /\ mtls.cn = "none" THEN NoPrincipal
    ELSE IF \/ ops.secret /\ ~mtls.nginx
            \/ ops.loopback /\ ~mtls.loopback
            \/ mtls.verified # "SUCCESS"
            \/ mtls.cn \in {"none", "malformed"}
    THEN Refused("401")
    ELSE IF mtls.cn \notin DOMAIN ops.callers THEN Refused("403")
    ELSE Principal(ops.callers[mtls.cn].tenants, ops.callers[mtls.cn].claims, "none")

ServiceVerify(token) ==
    IF token.good /\ token.kind = "service" /\ ~token.revoked
    THEN Principal(token.tenants, token.claims, "none")
    ELSE Refused("401")

\* Tokens from before kinds are admin tokens.
AdminVerify(token) ==
    IF token.good /\ token.kind \in {"none", "admin"} /\ ~token.revoked
    THEN Principal(token.tenants, {}, token.role)
    ELSE Refused("401")

Within(tenant, tenants) == {tenant, "*"} \intersect Range(tenants) # {}

Context(kind, tenant, p) ==
    [answer |-> "ok", kind |-> kind, tenant |-> tenant, tenants |-> p.tenants,
     claims |-> p.claims, role |-> p.role]

\* The header names the tenant, or the first of the credential's does.
ForTenant(kind, named, p) ==
    LET tenant == CASE named # "none"                      -> named
                    [] named = "none" /\ p.tenants = <<>>  -> "platform"
                    [] named = "none" /\ p.tenants # <<>>  -> Head(p.tenants)
    IN  IF tenant = "platform" \/ Within(tenant, p.tenants)
        THEN Context(kind, tenant, p)
        ELSE Refused("403")

ForAdmin(named, p) ==
    Context("admin", IF named = "none" THEN "platform" ELSE named,
            IF p.tenants = <<>> THEN [p EXCEPT !.tenants = <<"*">>] ELSE p)

get_caller(headers, ops) ==
    LET mtls == extract_mtls_principal(headers.mtls, ops)
        service == ServiceVerify(headers.service)
        admin == AdminVerify(headers.bearer)
    IN  IF mtls.answer = "ok" THEN ForTenant("mtls", headers.tenant, mtls)
        ELSE IF mtls # NoPrincipal THEN mtls
        ELSE IF headers.service # NoToken
        THEN IF service.answer = "ok" THEN ForTenant("service", headers.tenant, service)
                                      ELSE service
        ELSE IF headers.bearer # NoToken
        THEN IF admin.answer = "ok" THEN ForAdmin(headers.tenant, admin) ELSE admin
        ELSE Refused("401")

require_approver(caller) == caller.kind = "admin" /\ caller.role \in {"admin", "approver"}

=============================================================================
