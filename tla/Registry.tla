------------------------------- MODULE Registry -------------------------------
(****************************************************************************)
(* The table sol.capabilities over the life of a deployment: the migration  *)
(* 0007 and its downgrade (alembic), scripts/seed_capabilities.py, and the  *)
(* register endpoint (api/capabilities.py).  Each is one transaction, rows  *)
(* are never deleted, and every audit row references a row of it.           *)
(****************************************************************************)
EXTENDS Naturals

CONSTANT Registrable    \* names that callers register

VARIABLES
    registry,    \* registry[c]: the row of c, its requires_human and who wrote it
    revision     \* of the schema

registryVars == <<registry, revision>>

Umbrella == {"broker_capability", "broker_dispatch"}

\* requires_human of the baseline set.
SEED == [c \in {"docker_exec", "ssh_exec", "mac", "printer", "broker_capability",
                "permission_gate_op", "surge_runner_task"} |-> c # "printer"]

Capabilities == DOMAIN SEED \union Umbrella \union Registrable

Absent == [human |-> FALSE, by |-> "nobody"]
Exists(c) == registry[c].by # "nobody"

RegistryInit ==
    /\ registry = [c \in Capabilities |-> Absent]
    /\ revision = 6

Write(names, human, by) ==
    registry' = [c \in Capabilities |->
                   IF c \in names THEN [human |-> human[c], by |-> by] ELSE registry[c]]

UpdateUmbrella(human) ==
    Write({c \in Umbrella : Exists(c)}, [c \in Umbrella |-> human], "0007")

Upgrade == revision = 6 /\ revision' = 7 /\ UpdateUmbrella(FALSE)
Downgrade == revision = 7 /\ revision' = 6 /\ UpdateUmbrella(TRUE)

\* Each row is inserted, or all its columns are overwritten; run after the
\* migrations, those of an earlier release or these.
Seed ==
    /\ Write(DOMAIN SEED, SEED, "seed")
    /\ UNCHANGED revision

Register(c) ==
    /\ \E human \in BOOLEAN : Write({c}, [x \in {c} |-> human], "caller")
    /\ UNCHANGED revision

RegistryNext == Upgrade \/ Downgrade \/ Seed \/ \E c \in Registrable : Register(c)

=============================================================================
