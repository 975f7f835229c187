---------------------------- MODULE RepoCooldown ----------------------------
(****************************************************************************)
(* The cross-rule repo_cooldown (policy/cross_rules.py): may this dispatch  *)
(* go ahead, given the recent rows of sol.dispatches?                       *)
(*                                                                          *)
(* Rows come newest first, with their age.  args.meta and args.repo are the *)
(* repository under metadata and beside it: "none", "blank" or a name (case *)
(* and padding are stripped from a name).                                   *)
(****************************************************************************)
EXTENDS Selection

CONSTANT Limit     \* rows that are looked at: 50 in the code
ASSUME LimitAssumption == Limit \in Nat \ {0}

NoRepo == "none"
Named(repo) == IF repo = "blank" THEN NoRepo ELSE repo

\* A blank name under metadata hides the one beside it.
extract_repo(args) == IF args.meta # NoRepo THEN Named(args.meta) ELSE Named(args.repo)

\* No rule in policy.yaml.
NoConfig == [configured |-> FALSE]

Capabilities(cfg) == IF cfg.capabilities = {} THEN {"surge_runner_dispatch"} ELSE cfg.capabilities

\* A window that is no number is the default one; none is shorter than a second.
Window(cfg) ==
    LET seconds == IF cfg.wellFormed THEN cfg.window_seconds ELSE 300
    IN  IF seconds < 1 THEN 1 ELSE seconds

Counts(row, tenant, cfg) ==
    /\ row.capability \in Capabilities(cfg)
    /\ row.tenant = tenant
    /\ row.decision \in {"approved", "executed"}
    /\ row.age <= Window(cfg)

Counted(rows, tenant, cfg) == Kept(rows, {i \in DOMAIN rows : Counts(rows[i], tenant, cfg)})

FirstRows(rows) == SubSeq(rows, 1, IF Len(rows) < Limit THEN Len(rows) ELSE Limit)

\* Slip: the LIMIT is applied before the WHERE.
LimitFirst(rows, tenant, cfg) == Counted(FirstRows(rows), tenant, cfg)

Selected(rows, tenant, cfg) == FirstRows(Counted(rows, tenant, cfg))

allowed(rows, capability, tenant, args, cfg) ==
    \/ cfg = NoConfig
    \/ capability \notin Capabilities(cfg)
    \/ extract_repo(args) = NoRepo
    \/ LET selected == Selected(rows, tenant, cfg)
       IN  \A i \in DOMAIN selected : extract_repo(selected[i].args) # extract_repo(args)

=============================================================================
