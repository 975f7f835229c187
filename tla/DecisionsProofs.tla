---------------------------- MODULE DecisionsProofs ----------------------------
(****************************************************************************)
(* Theorems about the decisions, for requests, histories and replies of     *)
(* every size: every state the runs check asks one question, so each        *)
(* invariant is a fact about the questions (AskedInv), and those follow     *)
(* from what the selections of lists keep (KeptFacts).                      *)
(****************************************************************************)
EXTENDS Decisions, FiniteSetTheorems, FunctionTheorems, WellFoundedInduction, TLAPS

----------------------------------------------------------------------------
(* What Kept keeps: its j-th member is the one whose position has rank j *)

Rank(keep, i) == Cardinality({k \in keep : k <= i})
Place(keep, j) == CHOOSE i \in keep : Rank(keep, i) = j

\* The ranks of the members of a finite set of naturals count from 1 to their number.
LEMMA Ranks ==
  ASSUME NEW n \in Nat, NEW keep \in SUBSET (1..n)
  PROVE  /\ IsFiniteSet(keep) /\ Cardinality(keep) \in Nat /\ Cardinality(keep) <= n
         /\ \A i \in keep : Rank(keep, i) \in 1..Cardinality(keep)
         /\ \A i, k \in keep : i < k => Rank(keep, i) < Rank(keep, k)
         /\ \A j \in 1..Cardinality(keep) : \E i \in keep : Rank(keep, i) = j
<1> DEFINE UpTo(i) == {k \in keep : k <= i}
           C == Cardinality(keep)
<1>1. IsFiniteSet(1..n) /\ Cardinality(1..n) = n
  BY FS_Interval
<1>2. IsFiniteSet(keep) /\ C \in Nat /\ C <= n
  BY <1>1, FS_Subset, FS_CardinalityType
<1>3. \A i \in keep : IsFiniteSet(UpTo(i)) /\ Cardinality(UpTo(i)) \in 0..C
  <2> TAKE i \in keep
  <2>1. UpTo(i) \in SUBSET keep
    OBVIOUS
  <2>2. IsFiniteSet(UpTo(i)) /\ Cardinality(UpTo(i)) <= C
    BY <1>2, <2>1, FS_Subset
  <2>3. Cardinality(UpTo(i)) \in Nat
    BY <2>2, FS_CardinalityType
  <2>4. QED
    BY <1>2, <2>2, <2>3
<1>4. \A i \in keep : Cardinality(UpTo(i)) # 0
  <2> TAKE i \in keep
  <2>1. i \in UpTo(i)
    OBVIOUS
  <2>2. QED
    BY <1>3, <2>1, FS_EmptySet
<1>5. ASSUME NEW i \in keep, NEW k \in keep, i < k
      PROVE  Cardinality(UpTo(i)) < Cardinality(UpTo(k))
  <2>1. UpTo(i) \in SUBSET UpTo(k) /\ k \in UpTo(k) /\ k \notin UpTo(i)
    <3>1. \A m \in keep : m \in Int
      OBVIOUS
    <3>2. \A m \in keep : m <= i => m <= k
      BY <1>5, <3>1
    <3>3. k <= k /\ ~(k <= i)
      BY <1>5, <3>1
    <3>4. QED
      BY <3>2, <3>3
  <2>2. /\ Cardinality(UpTo(i)) <= Cardinality(UpTo(k))
        /\ Cardinality(UpTo(k)) = Cardinality(UpTo(i)) => UpTo(k) = UpTo(i)
    BY <1>3, <2>1, FS_Subset
  <2>3. UpTo(k) # UpTo(i)
    BY <2>1
  <2>4. Cardinality(UpTo(i)) \in Nat /\ Cardinality(UpTo(k)) \in Nat
    BY <1>2, <1>3
  <2>5. QED
    BY <2>2, <2>3, <2>4
<1>6. \A j \in 1..C : \E i \in keep : Cardinality(UpTo(i)) = j
  <2> DEFINE f == [i \in keep |-> Cardinality(UpTo(i))]
  <2>1. f \in [keep -> 1..C]
    BY <1>2, <1>3, <1>4
  <2>2. \A i, k \in keep : f[i] = f[k] => i = k
    <3>1. \A i, k \in keep : i < k => f[i] < f[k]
      BY <1>5
    <3>2. \A i \in keep : i \in Nat /\ f[i] \in Nat
      BY <2>1
    <3>3. QED
      BY <3>1, <3>2
  <2>3. f \in Injection(keep, 1..C)
    BY <2>1, <2>2, Fun_IsInj
  <2>4. IsFiniteSet(1..C) /\ Cardinality(1..C) = C
    BY <1>2, FS_Interval
  <2>5. f \in Surjection(keep, 1..C)
    BY <2>3, <2>4, FS_Injection
  <2>6. \A j \in 1..C : \E i \in keep : f[i] = j
    <3> HIDE DEF f, C
    <3>1. QED
      BY <2>5, Fun_SurjectionProperties
  <2>7. QED
    BY <2>6
<1>7. QED
  BY <1>2, <1>3, <1>4, <1>5, <1>6 DEF Rank

\* Kept lists the members at the positions of keep, each once, and no other.
LEMMA KeptFacts ==
  ASSUME NEW n \in Nat, NEW keep \in SUBSET (1..n), NEW s
  PROVE  /\ Cardinality(keep) \in Nat /\ Cardinality(keep) <= n
         /\ DOMAIN Kept(s, keep) = 1..Cardinality(keep)
         /\ \A j \in 1..Cardinality(keep) :
              /\ Place(keep, j) \in keep
              /\ Rank(keep, Place(keep, j)) = j
              /\ Kept(s, keep)[j] = s[Place(keep, j)]
         /\ \A i \in keep : /\ Rank(keep, i) \in 1..Cardinality(keep)
                            /\ Place(keep, Rank(keep, i)) = i
                            /\ Kept(s, keep)[Rank(keep, i)] = s[i]
<1>1. Kept(s, keep) = [j \in 1..Cardinality(keep) |-> s[Place(keep, j)]]
  BY DEF Kept, Place, Rank
<1>2. \A j \in 1..Cardinality(keep) : Place(keep, j) \in keep /\ Rank(keep, Place(keep, j)) = j
  BY Ranks DEF Place
<1>3. \A i \in keep : Rank(keep, i) \in 1..Cardinality(keep) /\ Place(keep, Rank(keep, i)) = i
  <2> TAKE i \in keep
  <2>1. Rank(keep, i) \in 1..Cardinality(keep)
    BY Ranks
  <2>2. PICK k \in keep : k = Place(keep, Rank(keep, i)) /\ Rank(keep, k) = Rank(keep, i)
    BY <1>2, <2>1
  <2>3. i \in Nat /\ k \in Nat
    OBVIOUS
  <2>4. ~(i < k) /\ ~(k < i)
    BY <2>1, <2>2, Ranks
  <2>5. QED
    BY <2>1, <2>2, <2>3, <2>4
<1>4. QED
  BY <1>1, <1>2, <1>3, Ranks

----------------------------------------------------------------------------
(* What is asked is one of the questions *)

AskedInv ==
    /\ About("admission") => asked.q \in Admissions
    /\ About("caller") => asked.q \in Arrivals
    /\ About("routing") => asked.q \in Routings
    /\ About("cooldown") => asked.q \in Cooldowns
    /\ About("runner") => asked.q \in RunnerCalls

LEMMA AskedInvariance == Spec => []AskedInv
<1>1. Init => AskedInv
  BY DEF Init, NoQuestion, AskedInv, About
<1>2. ASSUME AskedInv, [Next]_asked PROVE AskedInv'
  <2>1. CASE UNCHANGED asked
    BY <1>2, <2>1 DEF AskedInv, About
  <2>2. CASE Admitting
    BY <2>2 DEF Admitting, Ask, AskedInv, About
  <2>3. CASE Identifying
    BY <2>3 DEF Identifying, Ask, AskedInv, About
  <2>4. CASE Routing
    BY <2>4 DEF Routing, Ask, AskedInv, About
  <2>5. CASE CoolingDown
    BY <2>5 DEF CoolingDown, Ask, AskedInv, About
  <2>6. CASE Executing
    BY <2>6 DEF Executing, Ask, AskedInv, About
  <2>7. CASE Answered
    BY <2>7 DEF Answered, NoQuestion, AskedInv, About
  <2>8. QED
    BY <1>2, <2>1, <2>2, <2>3, <2>4, <2>5, <2>6, <2>7 DEF Next
<1>3. QED
  BY <1>1, <1>2, PTL DEF Spec

----------------------------------------------------------------------------
(* Lanes *)

\* Only the vetted script with an assignment in front is let through by two lanes, for
\* commands of any number of stages, and the row names the lane that was tried first.
THEOREM LanesAreTakenInOrder == Spec => []LanesAreSound
<1>1. ASSUME AskedInv PROVE OnlyTheScriptMatchesTwo
  <2> SUFFICES ASSUME About("admission"),
                      classify_readonly(asked.q.args), classify_remediation(asked.q.args)
               PROVE  /\ Len(asked.q.args.cmd.stages) = 1
                      /\ asked.q.args.cmd.stages[1].binary = RetentionScript
                      /\ DOMAIN asked.q.args.cmd.stages[1].env # {}
    BY DEF OnlyTheScriptMatchesTwo, classify_readonly, classify_sandbox_write,
           classify_remediation, matches_qdrant_retention
  <2> DEFINE stages == asked.q.args.cmd.stages
  <2>1. asked.q \in Admissions /\ stages \in Seq(Stage)
    BY <1>1, DecisionsAssumption DEF AskedInv
  <2>2. Len(stages) = 1 /\ stages[1].binary = RetentionScript
    BY DEF classify_remediation, matches_qdrant_retention
  <2>3. 1 \in DOMAIN stages
    BY <2>1, <2>2
  <2>4. stages[1].first \in ReadonlyBinaries
    BY <2>3 DEF classify_readonly, ReadonlyStage
  <2>5. stages[1].first # stages[1].binary
    BY <2>2, <2>4 DEF ReadonlyBinaries, RetentionScript
  <2>6. DOMAIN stages[1].env = {} => stages[1].first = stages[1].binary
    BY <2>1, <2>3, FirstTokenAssumption
  <2>7. QED
    BY <2>2, <2>5, <2>6
<1>2. FirstLaneIsNamed
  BY DEF FirstLaneIsNamed, Verdict, InitialVerdict, Gated, AutoPath, Lanes, LaneReadonly,
         LaneSandboxWrite, LaneRemediation
<1>3. AskedInv => LanesAreSound
  BY <1>1, <1>2 DEF LanesAreSound
<1>4. QED
  BY <1>3, AskedInvariance, PTL

----------------------------------------------------------------------------
(* Callers *)

\* A certificate that is shown is accepted, with nginx vouching for it, or refused.
LEMMA CertificateFacts ==
  ASSUME NEW mtls, NEW ops
  PROVE  LET p == extract_mtls_principal(mtls, ops)
         IN  /\ p.answer = "ok" => mtls.verified = "SUCCESS" /\ (ops.secret => mtls.nginx)
             /\ p = NoPrincipal => mtls.verified = "none" /\ mtls.cn = "none"
  BY DEF extract_mtls_principal, NoPrincipal, Refused, Principal

\* Who is accepted is told by the first credential shown, which holds.
LEMMA CallerFacts ==
  ASSUME NEW headers, NEW ops, get_caller(headers, ops).answer = "ok"
  PROVE  LET caller == get_caller(headers, ops)
             mtls == extract_mtls_principal(headers.mtls, ops)
         IN  \/ mtls.answer = "ok" /\ caller.kind = "mtls"
             \/ /\ mtls = NoPrincipal /\ headers.service # NoToken /\ caller.kind = "service"
                /\ headers.service.good /\ ~headers.service.revoked
                /\ headers.service.kind = "service"
             \/ /\ mtls = NoPrincipal /\ headers.service = NoToken /\ caller.kind = "admin"
                /\ headers.bearer.good /\ ~headers.bearer.revoked
                /\ headers.bearer.kind \in {"none", "admin"}
                /\ caller.role = headers.bearer.role
<1> DEFINE mtls == extract_mtls_principal(headers.mtls, ops)
           service == ServiceVerify(headers.service)
           admin == AdminVerify(headers.bearer)
           caller == get_caller(headers, ops)
<1>1. ASSUME NEW kind, NEW named, NEW p, ForTenant(kind, named, p).answer = "ok"
      PROVE  ForTenant(kind, named, p).kind = kind
  BY <1>1 DEF ForTenant, Context, Refused
<1>2. CASE mtls.answer = "ok"
  BY <1>1, <1>2 DEF get_caller
<1>3. CASE mtls.answer # "ok"
  <2>1. mtls = NoPrincipal
    BY <1>3 DEF get_caller
  <2>2. CASE headers.service # NoToken
    <3>1. service.answer = "ok" /\ caller = ForTenant("service", headers.tenant, service)
      BY <1>3, <2>1, <2>2 DEF get_caller
    <3>2. headers.service.good /\ headers.service.kind = "service" /\ ~headers.service.revoked
      BY <3>1 DEF ServiceVerify, Refused
    <3>3. QED
      BY <1>1, <2>1, <2>2, <3>1, <3>2
  <2>3. CASE headers.service = NoToken
    <3>1. admin.answer = "ok" /\ caller = ForAdmin(headers.tenant, admin)
      BY <1>3, <2>1, <2>3 DEF get_caller, Refused
    <3>2. /\ headers.bearer.good /\ headers.bearer.kind \in {"none", "admin"}
          /\ ~headers.bearer.revoked
          /\ admin = Principal(headers.bearer.tenants, {}, headers.bearer.role)
      BY <3>1 DEF AdminVerify, Refused
    <3>3. caller.kind = "admin" /\ caller.role = headers.bearer.role
      BY <3>1, <3>2 DEF ForAdmin, Context, Principal
    <3>4. QED
      BY <2>1, <2>3, <3>2, <3>3
  <2>4. QED
    BY <2>2, <2>3
<1>4. QED
  BY <1>2, <1>3

\* Whatever a request shows, it is accepted on its first credential or not at all, and
\* none but a person with a token of his own may approve.
THEOREM CredentialsStaySound == Spec => []CredentialsAreSound
<1>1. AcceptedOnFirstCredential
  BY CallerFacts, CertificateFacts DEF AcceptedOnFirstCredential, Caller
<1>2. OnlyPeopleApprove
  BY CallerFacts DEF OnlyPeopleApprove, Caller, require_approver
<1>3. CredentialsAreSound
  BY <1>1, <1>2 DEF CredentialsAreSound
<1>4. QED
  BY <1>3, PTL

----------------------------------------------------------------------------
(* Routing *)

Channels == {"pulsepoint_chat", "geopro", "email", "log_only"}

\* GEOpro or the log is always chosen, the chat for an operator only, and the log for
\* routine actions outside the chat only.
LEMMA ChannelFacts ==
  ASSUME NEW identity, NEW actor, NEW requires_human
  PROVE  \E channels \in Seq(Channels) :
           /\ channels = choose_channels(identity, actor, requires_human)
           /\ \E k \in 1..Len(channels) : channels[k] \in {"geopro", "log_only"}
           /\ \A k \in 1..Len(channels) :
                /\ channels[k] = "pulsepoint_chat" => is_operator(identity.user)
                /\ channels[k] = "log_only" =>
                     actor = "agent" /\ ~requires_human /\ ~InChat(identity)
<1> DEFINE chat == <<"pulsepoint_chat", "geopro", "email">>
           log == <<"log_only">>
           usual == <<"geopro", "email">>
<1>1. /\ chat \in Seq(Channels) /\ Len(chat) = 3 /\ chat[2] = "geopro"
      /\ \A k \in 1..3 : chat[k] # "log_only"
  BY DEF Channels
<1>2. log \in Seq(Channels) /\ Len(log) = 1 /\ log[1] = "log_only"
  BY DEF Channels
<1>3. /\ usual \in Seq(Channels) /\ Len(usual) = 2 /\ usual[1] = "geopro"
      /\ \A k \in 1..2 : usual[k] \notin {"log_only", "pulsepoint_chat"}
  BY DEF Channels
<1>4. \/ choose_channels(identity, actor, requires_human) = chat /\ is_operator(identity.user)
      \/ /\ choose_channels(identity, actor, requires_human) = log
         /\ ~InChat(identity) /\ actor = "agent" /\ ~requires_human
      \/ choose_channels(identity, actor, requires_human) = usual
  BY DEF choose_channels
<1> HIDE DEF chat, log, usual
<1>5. QED
  BY <1>1, <1>2, <1>3, <1>4

\* A target is a channel chosen, or there would be no target at all.
LEMMA ChoiceFacts ==
  ASSUME NEW identity, NEW actor, NEW requires_human, NEW session_id, NEW operator_email,
         NEW targets,
         choose_targets(identity, actor, requires_human, session_id, operator_email) = targets,
         NEW i \in DOMAIN targets
  PROVE  /\ targets[i].channel = "pulsepoint_chat" => is_operator(identity.user)
         /\ targets[i].channel = "log_only" =>
              actor = "agent" /\ ~requires_human /\ ~InChat(identity)
<1> DEFINE To(channel) == Target(channel, identity, session_id, operator_email)
<1>1. PICK channels \in Seq(Channels) :
           /\ channels = choose_channels(identity, actor, requires_human)
           /\ \E k \in 1..Len(channels) : channels[k] \in {"geopro", "log_only"}
           /\ \A k \in 1..Len(channels) :
                /\ channels[k] = "pulsepoint_chat" => is_operator(identity.user)
                /\ channels[k] = "log_only" =>
                     actor = "agent" /\ ~requires_human /\ ~InChat(identity)
  BY ChannelFacts
<1> DEFINE n == Len(channels)
           keep == {k \in 1..n : To(channels[k]) # ""}
           reached == Kept(channels, keep)
<1>2. PICK m \in 1..n : To(channels[m]) # ""
  <2>1. \A channel \in {"geopro", "log_only"} : To(channel) # ""
    BY DEF Target
  <2>2. QED
    BY <1>1, <2>1
<1> DOMAIN channels = 1..n /\ n \in Nat
  OBVIOUS
<1>3. targets = IF reached = <<>> THEN <<[channel |-> "log_only", target |-> "fallback"]>>
                ELSE [k \in DOMAIN reached |-> [channel |-> reached[k], target |-> To(reached[k])]]
  BY <1>1 DEF choose_targets
<1> HIDE DEF To, n
<1>4. /\ reached # <<>>
      /\ \A j \in DOMAIN reached : \E k \in 1..n : reached[j] = channels[k]
  <2>1. keep \in SUBSET (1..n) /\ m \in keep
    BY <1>2
  <2> HIDE DEF keep
  <2>2. DOMAIN reached = 1..Cardinality(keep) /\ Rank(keep, m) \in 1..Cardinality(keep)
    BY <2>1, KeptFacts
  <2>3. \A j \in 1..Cardinality(keep) :
          Place(keep, j) \in keep /\ reached[j] = channels[Place(keep, j)]
    BY <2>1, KeptFacts
  <2> HIDE DEF reached
  <2>4. DOMAIN reached # {}
    BY <2>2
  <2>5. reached # <<>>
    BY <2>4
  <2>6. \A j \in DOMAIN reached : \E k \in 1..n : reached[j] = channels[k]
    BY <2>1, <2>2, <2>3
  <2>7. QED
    BY <2>5, <2>6
<1>5. \A k \in DOMAIN targets : k \in DOMAIN reached /\ targets[k].channel = reached[k]
  <2> HIDE DEF reached
  <2>1. QED
    BY <1>3, <1>4
<1>6. QED
  <2> HIDE DEF reached
  <2>1. QED
    BY <1>1, <1>4, <1>5

\* Customers are never prompted, and somebody always is: e-mail and session may lack,
\* GEOpro has its default.
THEOREM RightOnesAlwaysAsked == Spec => []RightOnesAreAsked
<1>1. CustomersAreNotPrompted
  BY ChoiceFacts DEF CustomersAreNotPrompted, Asks, Targets
<1>2. SomebodyIsAsked
  BY ChoiceFacts DEF SomebodyIsAsked, Asks, Targets
<1>3. RightOnesAreAsked
  BY <1>1, <1>2 DEF RightOnesAreAsked
<1>4. QED
  BY <1>3, PTL

----------------------------------------------------------------------------
(* Cooldown *)

Ran(rows, tenant, cfg) == {i \in DOMAIN rows : Counts(rows[i], tenant, cfg)}

\* The rows looked at are rows that count, and all of them where they are few enough.
LEMMA SelectedFacts ==
  ASSUME NEW rows \in Seq(Row), NEW tenant, NEW cfg, NEW selected,
         selected = Selected(rows, tenant, cfg)
  PROVE  /\ \A i \in DOMAIN selected : \E k \in Ran(rows, tenant, cfg) : selected[i] = rows[k]
         /\ Cardinality(Ran(rows, tenant, cfg)) <= Limit =>
              \A k \in Ran(rows, tenant, cfg) : \E i \in DOMAIN selected : selected[i] = rows[k]
<1> DEFINE n == Len(rows)
           ran == Ran(rows, tenant, cfg)
           c == Cardinality(ran)
           counted == Kept(rows, ran)
           m == IF c < Limit THEN c ELSE Limit
<1>1. /\ n \in Nat /\ DOMAIN rows = 1..n /\ ran \in SUBSET (1..n)
      /\ \A k \in ran : rows[k] \in Row
  BY DEF Ran
<1>2. selected = FirstRows(counted)
  BY DEF Selected, Counted, Ran
<1> HIDE DEF n, ran
<1>3. c \in Nat /\ DOMAIN counted = 1..c
  BY <1>1, KeptFacts
<1>4. \A j \in 1..c : Place(ran, j) \in ran /\ counted[j] = rows[Place(ran, j)]
  BY <1>1, KeptFacts
<1>5. \A k \in ran : Rank(ran, k) \in 1..c /\ counted[Rank(ran, k)] = rows[k]
  <2>1. \A k \in ran : Rank(ran, k) \in 1..c
    BY <1>1, KeptFacts
  <2>2. \A k \in ran : Place(ran, Rank(ran, k)) = k
    BY <1>1, KeptFacts
  <2> HIDE DEF c, counted
  <2>3. QED
    BY <1>4, <2>1, <2>2
<1>6. counted \in Seq(Row) /\ Len(counted) = c
  <2>1. counted = [j \in 1..c |-> counted[j]]
    BY DEF Kept
  <2>2. \A j \in 1..c : counted[j] \in Row
    BY <1>1, <1>4
  <2> HIDE DEF c, counted
  <2>3. QED
    BY <1>3, <2>1, <2>2
<1> HIDE DEF c, counted
<1>7. /\ DOMAIN selected = 1..m /\ m <= c /\ m \in Nat
      /\ \A j \in 1..m : selected[j] = counted[j]
  BY <1>2, <1>3, <1>6, LimitAssumption DEF FirstRows
<1>8. \A i \in DOMAIN selected : \E k \in ran : selected[i] = rows[k]
  BY <1>3, <1>4, <1>7
<1>9. ASSUME c <= Limit
      PROVE  \A k \in ran : \E i \in DOMAIN selected : selected[i] = rows[k]
  <2>1. m = c
    BY <1>3, <1>9, LimitAssumption
  <2>2. QED
    BY <1>5, <1>7, <2>1
<1>10. QED
  BY <1>8, <1>9 DEF ran, c

\* A denial always has a row of the same repository behind it, and with few enough
\* rows such a row always has a denial: none is pushed out of what is looked at.
THEOREM CooldownStaysExact == Spec => []CooldownIsExact
<1>1. ASSUME NEW rows \in Seq(Row), NEW capability, NEW tenant, NEW args, NEW cfg
      PROVE  LET ran == Ran(rows, tenant, cfg)
                 repo == extract_repo(args)
                 hot == /\ capability \in Capabilities(cfg) /\ repo # NoRepo
                        /\ \E i \in ran : extract_repo(rows[i].args) = repo
                 ok == allowed(rows, capability, tenant, args, cfg)
             IN  IF cfg = NoConfig THEN ok
                 ELSE (~ok => hot) /\ (Cardinality(ran) <= Limit /\ hot => ~ok)
  <2> DEFINE ran == Ran(rows, tenant, cfg)
             repo == extract_repo(args)
  <2>1. PICK selected : selected = Selected(rows, tenant, cfg)
    OBVIOUS
  <2>2. \A i \in DOMAIN selected : \E k \in ran : selected[i] = rows[k]
    BY <2>1, SelectedFacts
  <2>3. Cardinality(ran) <= Limit =>
          \A k \in ran : \E i \in DOMAIN selected : selected[i] = rows[k]
    BY <2>1, SelectedFacts
  <2>4. allowed(rows, capability, tenant, args, cfg) <=>
          \/ cfg = NoConfig \/ capability \notin Capabilities(cfg) \/ repo = NoRepo
          \/ \A i \in DOMAIN selected : extract_repo(selected[i].args) # repo
    BY <2>1 DEF allowed
  <2> HIDE DEF ran, repo
  <2>5. QED
    BY <2>2, <2>3, <2>4 DEF ran, repo
<1>2. AskedInv => CooldownIsExact
  <2>1. \A q \in Cooldowns : q.rows \in Seq(Row)
    BY DecisionsAssumption
  <2>2. QED
    BY <1>1, <2>1 DEF AskedInv, CooldownIsExact, Ran
<1>3. QED
  BY <1>2, AskedInvariance, PTL

----------------------------------------------------------------------------
(* The runner *)

\* A call that was tried ends with 0, 1, 124, a status or an exception, one that was not
\* with 2 or 22.
LEMMA ExitCodes ==
  ASSUME NEW q \in RunnerCalls
  PROVE  /\ Tried(q.token, q.args) <=> ExitCode(q) \notin {2, 22}
         /\ ExitCode(q) = 0 =>
              Tried(q.token, q.args) /\ q.reply.kind = "http" /\ q.reply.code < 400
<1>1. q.reply \in Reply
  BY DecisionsAssumption
<1>2. CASE ~Tried(q.token, q.args)
  BY <1>2 DEF ExitCode, execute_runner, Result
<1>3. CASE Tried(q.token, q.args)
  <2>1. ExitCode(q) = Report(q.reply).exit_code
    BY <1>3 DEF ExitCode, execute_runner, Tried
  <2>2. CASE q.reply.kind \in NoConnection \union NoAnswer \union {"not an HTTPError"}
    <3>1. Report(q.reply).exit_code \in {124, 1, -1}
      BY <2>2 DEF Report, Raised, Result, NoConnection, NoAnswer
    <3>2. QED
      BY <1>3, <2>1, <3>1
  <2>3. CASE q.reply.kind = "http" /\ q.reply.code \in 100..599
    <3>1. Report(q.reply).exit_code = IF q.reply.code < 400 THEN 0 ELSE q.reply.code
      BY <2>3 DEF Report, Result
    <3>2. QED
      BY <1>3, <2>1, <2>3, <3>1
  <2>4. QED
    BY <1>1, <2>2, <2>3 DEF Reply
<1>4. QED
  BY <1>2, <1>3

\* Whatever becomes of a call, its exit code denies no task the runner took and accepts
\* none it refused, and what it is sent is for it and says what to do on whose behalf.
THEOREM RunnerCallsStaySound == Spec => []RunnerCallsAreSound
<1>1. AskedInv => TakenIsNotDenied
  <2>1. \A c \in UntriedCodes : c \in {2, 22}
    BY ExitCodes DEF UntriedCodes
  <2>2. QED
    BY <2>1, ExitCodes DEF AskedInv, TakenIsNotDenied
<1>2. ASSUME NEW args, NEW payload, payload = build_runner_payload(args)
      PROVE  /\ DOMAIN payload = Known(args) \union {"source"}
             /\ \A k \in Known(args) : payload[k] = args[k]
             /\ payload["source"] # "blank"
  <2>1. DOMAIN payload = Known(args) \union {"source"}
    BY <1>2 DEF build_runner_payload
  <2>2. "source" \notin Known(args)
    BY DEF Known, Untyped, Lists
  <2>3. \A k \in Known(args) : payload[k] = args[k]
    BY <1>2, <2>2 DEF build_runner_payload
  <2>4. payload["source"] = source(args) /\ source(args) # "blank"
    BY <1>2 DEF build_runner_payload, source
  <2>5. QED
    BY <2>1, <2>3, <2>4
<1>3. PayloadIsSound
  <2>1. ASSUME NEW token, NEW args, NEW payload, payload = build_runner_payload(args)
        PROVE  /\ \A k \in Lists \intersect DOMAIN payload : payload[k] = "list"
               /\ DOMAIN payload \subseteq Untyped \union Lists \union {"metadata", "source"}
               /\ Tried(token, args) => payload["prompt"] # "blank" /\ payload["source"] # "blank"
    <3>1. /\ DOMAIN payload = Known(args) \union {"source"}
          /\ \A k \in Known(args) : payload[k] = args[k]
          /\ payload["source"] # "blank"
      BY <1>2, <2>1
    <3>2. "source" \notin Lists /\ \A k \in Lists : k \notin Untyped /\ k # "metadata"
      BY DEF Lists, Untyped
    <3>3. \A k \in Lists \intersect DOMAIN payload : payload[k] = "list"
      BY <3>1, <3>2 DEF Known
    <3>4. DOMAIN payload \subseteq Untyped \union Lists \union {"metadata", "source"}
      BY <3>1 DEF Known
    <3>5. Tried(token, args) => "prompt" \in Known(args) /\ args["prompt"] # "blank"
      BY DEF Tried, Known, Untyped
    <3>6. QED
      BY <3>1, <3>3, <3>4, <3>5
  <2>2. QED
    BY <2>1 DEF PayloadIsSound
<1>4. QED
  BY <1>1, <1>3, AskedInvariance, PTL DEF RunnerCallsAreSound

----------------------------------------------------------------------------
(* Where a path without ".." leads *)

\* A set of naturals that is not empty has a smallest member.
LEMMA Smallest ==
  ASSUME NEW T \in SUBSET Nat, T # {}
  PROVE  \E m \in T : \A k \in T : m <= k
<1> DEFINE R == {p \in Nat \X Nat : p[1] < p[2]}
<1>1. IsWellFoundedOn(R, Nat)
  BY NatLessThanWellFounded DEF OpToRel
<1>2. \A k, m \in Nat : <<k, m>> \in R <=> k < m
  OBVIOUS
<1> HIDE DEF R
<1>3. PICK m \in T : \A k \in T : <<k, m>> \notin R
  BY <1>1, WFMin
<1>4. \A k \in T : ~(k < m)
  BY <1>2, <1>3
<1>5. QED
  BY <1>4

\* One position more, behind all the others, is one member more at the end.
LEMMA KeptOneMore ==
  ASSUME NEW s \in Seq(STRING), NEW i \in 1..Len(s), NEW keep \in SUBSET (1..(i - 1))
  PROVE  Kept(s, keep \union {i}) = Append(Kept(s, keep), s[i])
<1> DEFINE n == Len(s)
           more == keep \union {i}
           c == Cardinality(keep)
           a == Kept(s, keep)
           b == Kept(s, more)
<1>1. /\ n \in Nat /\ i \in 1..n /\ i \notin keep /\ \A k \in keep : k < i
      /\ keep \in SUBSET (1..n) /\ more \in SUBSET (1..n)
      /\ \A k \in 1..n : s[k] \in STRING
  OBVIOUS
<1> HIDE DEF n
<1>2. c \in Nat /\ IsFiniteSet(keep) /\ Cardinality(more) = c + 1
  <2>1. c \in Nat /\ IsFiniteSet(keep)
    BY <1>1, Ranks
  <2>2. QED
    BY <1>1, <2>1, FS_AddElement
<1>3. \A k \in keep : Rank(more, k) = Rank(keep, k)
  <2>1. ASSUME NEW k \in keep PROVE {m \in more : m <= k} = {m \in keep : m <= k}
    <3>1. ~(i <= k)
      BY <1>1
    <3>2. QED
      BY <3>1
  <2>2. QED
    BY <2>1 DEF Rank
<1>4. Rank(more, i) = c + 1
  <2>1. \A m \in more : m <= i
    BY <1>1
  <2>2. {m \in more : m <= i} = more
    BY <2>1
  <2>3. QED
    BY <1>2, <2>2 DEF Rank
<1> HIDE DEF more
<1>5. b = [j \in 1..(c + 1) |-> s[Place(more, j)]]
  BY <1>2 DEF Kept, Place, Rank
<1>6. \A j \in 1..c : /\ Place(keep, j) \in keep /\ Rank(keep, Place(keep, j)) = j
                     /\ a[j] = s[Place(keep, j)]
  BY <1>1, KeptFacts
<1>7. \A k \in more : Place(more, Rank(more, k)) = k
  BY <1>1, KeptFacts
<1>8. \A j \in 1..(c + 1) : b[j] = s[Place(more, j)]
  BY <1>5
<1>9. \A j \in 1..c : b[j] = a[j]
  <2> TAKE j \in 1..c
  <2>1. PICK k \in keep : k = Place(keep, j) /\ Rank(keep, k) = j /\ a[j] = s[k]
    BY <1>6
  <2>2. k \in more /\ Rank(more, k) = j
    BY <1>3, <2>1 DEF more
  <2>3. Place(more, j) = k
    BY <1>7, <2>2
  <2>4. QED
    BY <1>2, <1>8, <2>1, <2>3
<1>10. b[c + 1] = s[i]
  <2>1. i \in more
    BY DEF more
  <2>2. Place(more, c + 1) = i
    BY <1>4, <1>7, <2>1
  <2>3. QED
    BY <1>2, <1>8, <2>2
<1>11. a \in Seq(STRING) /\ Len(a) = c
  <2>1. a = [j \in 1..c |-> a[j]]
    BY DEF Kept
  <2>2. \A j \in 1..c : a[j] \in STRING
    BY <1>1, <1>6
  <2> HIDE DEF a, c
  <2>3. QED
    BY <1>2, <2>1, <2>2
<1>12. b = [j \in 1..(c + 1) |-> b[j]]
  BY <1>2 DEF Kept
<1>13. Append(a, s[i]) = [j \in 1..(c + 1) |-> IF j = c + 1 THEN s[i] ELSE a[j]]
  <2> HIDE DEF a, c
  <2>1. QED
    BY <1>2, <1>11
<1> HIDE DEF a, b, c
<1>14. Append(a, s[i]) = b
  <2>1. \A j \in 1..(c + 1) : b[j] = IF j = c + 1 THEN s[i] ELSE a[j]
    BY <1>2, <1>9, <1>10
  <2>2. QED
    BY <1>12, <1>13, <2>1
<1>15. QED
  BY <1>14 DEF a, b, more

\* Where no segment is "..", a path leads where its segments other than "." do, in order.
LEMMA WalkIsNormalised ==
  ASSUME NEW segments \in Seq(STRING), \A i \in DOMAIN segments : segments[i] # ".."
  PROVE  Walk(segments) = Normalised(segments)
<1> DEFINE n == Len(segments)
           NamedUpTo(i) == {k \in 1..n : segments[k] # "." /\ k <= i}
           W(i) == Kept(segments, NamedUpTo(i))
           Step(at) == [i \in 0..n |-> IF i = 0 THEN <<>> ELSE Visit(at[i - 1], segments[i])]
<1>1. /\ n \in Nat /\ DOMAIN segments = 1..n
      /\ \A i \in 1..n : segments[i] \in STRING /\ segments[i] # ".."
  OBVIOUS
<1>2. W(0) = <<>>
  <2>1. NamedUpTo(0) = {}
    BY <1>1
  <2>2. Cardinality(NamedUpTo(0)) = 0
    BY <2>1, FS_EmptySet
  <2> HIDE DEF NamedUpTo
  <2>3. QED
    BY <2>2 DEF Kept
<1>3. \A i \in 1..n : W(i) = Visit(W(i - 1), segments[i])
  <2> TAKE i \in 1..n
  <2>1. CASE segments[i] = "."
    <3>1. NamedUpTo(i) = NamedUpTo(i - 1)
      BY <1>1, <2>1
    <3> HIDE DEF NamedUpTo
    <3>2. QED
      BY <2>1, <3>1 DEF Visit
  <2>2. CASE segments[i] # "."
    <3>1. NamedUpTo(i) = NamedUpTo(i - 1) \union {i} /\ NamedUpTo(i - 1) \in SUBSET (1..(i - 1))
      BY <1>1, <2>2
    <3> HIDE DEF NamedUpTo
    <3>2. Kept(segments, NamedUpTo(i - 1) \union {i}) =
            Append(Kept(segments, NamedUpTo(i - 1)), segments[i])
      BY <3>1, KeptOneMore
    <3> HIDE DEF n
    <3>3. QED
      BY <1>1, <2>2, <3>1, <3>2 DEF Visit
  <2>3. QED
    BY <2>1, <2>2
<1> HIDE DEF W, n
<1>4. \E at : at = Step(at)
  <2> DEFINE at == [i \in 0..n |-> W(i)]
  <2>1. \A i \in 0..n : at[i] = IF i = 0 THEN <<>> ELSE Visit(at[i - 1], segments[i])
    <3>1. \A i \in 1..n : i - 1 \in 0..n
      BY <1>1
    <3>2. QED
      BY <1>1, <1>2, <1>3, <3>1
  <2>2. at = Step(at)
    BY <2>1
  <2>3. QED
    BY <2>2
<1>5. ASSUME NEW at, at = Step(at)
      PROVE  \A i \in 0..n : at[i] = W(i)
  <2> DEFINE T == {i \in 0..n : at[i] # W(i)}
  <2>1. SUFFICES ASSUME T # {} PROVE FALSE
    OBVIOUS
  <2>2. PICK m \in T : \A k \in T : m <= k
    <3>1. T \in SUBSET Nat
      BY <1>1
    <3> HIDE DEF T
    <3>2. QED
      BY <2>1, <3>1, Smallest
  <2>3. at[0] = <<>> /\ \A i \in 1..n : at[i] = Visit(at[i - 1], segments[i])
    BY <1>1, <1>5
  <2>4. m \in 1..n
    BY <1>1, <1>2, <2>2, <2>3
  <2>5. at[m - 1] = W(m - 1)
    BY <1>1, <2>2, <2>4
  <2>6. QED
    BY <1>3, <2>2, <2>3, <2>4, <2>5
<1>6. Walk(segments) = W(n)
  <2>1. Walk(segments) = (CHOOSE at : at = Step(at))[n]
    BY DEF Walk, n
  <2>2. PICK at : at = Step(at) /\ at = CHOOSE f : f = Step(f)
    BY <1>4
  <2>3. QED
    BY <1>1, <1>5, <2>1, <2>2
<1>7. NamedUpTo(n) = {i \in DOMAIN segments : segments[i] # "."}
  BY <1>1
<1>8. QED
  BY <1>6, <1>7 DEF W, Normalised

\* However long its path, a write the sandbox lane lets through lands strictly inside
\* /tmp/academy.
THEOREM SandboxWritesNeverLeave == Spec => []SandboxWritesStayInside
<1>1. ASSUME NEW args, args.path.segments \in Seq(STRING), classify_sandbox_write(args)
      PROVE  /\ args.path.absolute /\ Len(Walk(args.path.segments)) > 2
             /\ Walk(args.path.segments)[1] = "tmp" /\ Walk(args.path.segments)[2] = "academy"
  <2>1. Walk(args.path.segments) = Normalised(args.path.segments)
    BY <1>1, WalkIsNormalised DEF classify_sandbox_write
  <2>2. QED
    BY <1>1, <2>1 DEF classify_sandbox_write
<1>2. AskedInv => SandboxWritesStayInside
  BY <1>1, DecisionsAssumption DEF AskedInv, SandboxWritesStayInside
<1>3. QED
  BY <1>2, AskedInvariance, PTL

=============================================================================
