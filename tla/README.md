# SOL: models, checks and proofs

SOL (Surge Orchestration Layer) is a FastAPI service. Agents and services ask it
to perform actions (`POST /v1/sol/dispatch`); it writes an audit row, decides by
mode, lanes and a human gate, asks humans when it must, waits for their answer,
forwards approved actions to a broker, and answers. State lives in PostgreSQL
(`sol.dispatches`, `sol.approvals`, `sol.capabilities`, `sol.revoked_tokens`,
`sol.issued_tokens`, `sol.policies`), in a directory of signing keys, and in
small per-process caches. Handlers are synchronous functions run in a thread
pool of each worker process, one database session per request, at READ
COMMITTED, with no row locks and no version columns.

This directory holds TLA+ modules for the parts of SOL that have something to get
wrong, TLC configurations for them, and theorems that TLAPS proves. Paths below are
relative to the repository; `api/`, `services/` and so on are under `src/sol/`.

## 1. Inventory

| Component | State | Operations | What is hard | What makes it correct |
|---|---|---|---|---|
| Dispatch handler (`api/dispatch.py`) | its locals, the audit row | one POST: admit, insert, ask, poll, forward, record | crash at any step, verdict racing the deadline, broker having run before the commit | nothing runs except under a row that already says approved; answer, row and execution agree; a human verdict on the row is one a human committed; the handler ends |
| Admission (`api/dispatch.py`, `policy/remediation.py`, `settings.py`) | none | mode, human gate, three lanes | lanes in two orders, two classifiers that read one command differently, path segments, flags | a gate opens only by a lane that is on, the row names it, sandbox writes stay inside |
| Approvals (`services/approvals.py`, `api/approvals.py`) | `sol.approvals` | create, deliver, decide (admin), decide (tap), expire on read, sweep, list | read, check and commit are three steps; last writer wins | columns agree; only overdue rows expire; a settled row that nobody holds stays settled |
| One-tap links and mail (`auth/callback_tokens.py`, `delivery/email.py`) | the link in somebody's mailbox | send, tap | a link outlives its row's verdict; mail that failed may have left | exactly one successful delivery on record |
| Capability registry (`api/capabilities.py`) | `sol.capabilities` | upsert | changes between two requests; audit rows reference it | a dispatch is decided by the entry it read |
| Broker executor (`executors/broker.py`) | none in SOL | one HTTP call | may run and report an error | run at most once per request |
| Revocation (`auth/revocation.py`, `api/tokens.py`) | `sol.revoked_tokens`, a copy per worker with a lock and a time stamp | verify, refresh, revoke | copy read without the lock; refreshes that fail or take their time; failure stamped as refresh | bounded staleness; no refresh takes back a revocation; the lock is given back |
| Key rotation (`scripts/rotate_jwt_key.py`) | the key directory | some ten file operations | dies between any two and is run again | no name pairs two keys; a key within its grace is never lost |
| Key store and tokens (`auth/keystore.py`, `auth/jwt.py`, `auth/service_tokens.py`) | keys loaded once per process | load, issue, verify | stale copy; one kid names several keys over time | tokens of keys within grace verify |
| Callers (`api/deps.py`, `auth/mtls.py`) | cached secret and registry | three credentials in order | several credentials at once, one bad | accepted on the first credential shown or not at all |
| Delivery router (`delivery/router.py`) | none; not called yet | channels and targets | channels dropped for want of a target | customers are never prompted, somebody is asked |
| Cross-rules (`policy/cross_rules.py`) | reads `sol.dispatches`; not called yet | repo_cooldown | history cut at 50 rows | denied exactly when a run of the repository is in the window |
| Token ledger (`api/tokens.py`, `scripts/issue_tokens.py`) | `sol.issued_tokens`, `sol.revoked_tokens`, audit rows | issue by API, issue by CLI, revoke | two rows in one commit, one of them under a foreign key; the CLI hands out before it records | what was answered is on record; each revocation has one audit row |
| Registry over a deployment (migration 0007, `scripts/seed_capabilities.py`, `api/capabilities.py`) | `sol.capabilities` | upgrade, downgrade, seed, register | each overwrites what another wrote | what depends on a row holds whoever wrote it last |
| Policies (`api/policies.py`) | `sol.policies` | upsert, list | two statements per upsert, rows locked in two orders, snapshots | payloads are in force whole; the last one is |
| Connection pool (`db.py`) | 15 connections per worker | one per request, held through a poll; one more for a revocation check | polls starve decides; the lock's holder waits for a connection | nobody waits with a connection in hand; every request is answered |
| Surge-runner executor (`executors/surge_runner.py`) | none; not called yet | one HTTP call | a lost answer leaves open whether the task runs | a task the runner took is never reported as one that was never tried |
| Policy engine, loader and cache, stub executors, degraded-mode log, audit list, health, metrics, admin page, learned tiers, the other migrations | none, or read only | | | not modelled, see section 7 |

Interactions: a dispatch creates an approval and then reads it again and again
while decide calls, taps and list calls of other threads write it; a
capability's entry is written by one endpoint and read by another; each worker's
revocation copy and loaded keys are older than the table and the directory they came from.

## 2. Modules

`Admission` and `Approvals` are the two halves of a dispatch; `Dispatch` EXTENDS both.
`TokenLedger` EXTENDS `Registry`, whose rows its audit rows reference.

| Module | Models |
|---|---|
| `Approvals` | The table and everything that writes it. `approval[r]` is the row asked for by request r, `session[p]` a decide call between its read and its commit, `listing[s]` a list call between its transactions, `fanout[r]` the delivery loop, `link[r]` the mailed pair of links, `committed[r]` a history of verdicts. Actions: `CreateApproval`, `TryChannel`, `CommitDeliveryLog` (services/approvals.py), `AdminDecide`, `TapLink`, `ReadApproval`, `CheckExpiry`, `WriteExpired`, `WriteDecision`, `SweepRead`, `SweepCommit`, `QueryPending`, `EndListing` (api/approvals.py), `DropSession` (the session dies), `Tick` |
| `ApprovalService` | `Approvals` alone, with approvals that come from nowhere in particular |
| `Admission` | Mode, human gate and lanes, as operators. A command is its operators and stages, a path its segments |
| `Dispatch` | The handler: `Arrive`, `Admit`, `InsertAudit`, `Ask`, `RefreshApproval`, `Deliver`, `FinishDelivery`, `LinkApproval`, `PollRead`, `PollCheck`, `RecordVerdict`, `Forward`, `CallBroker`, `RecordResult`, and `Crash` at any of them; `RegisterCapability`. `audit[r]` is the row, `job[r]` the handler's locals, `ran[r]` counts executions by the broker |
| `Gate` | The abstract promise: verdict on record first, humans' verdicts only, executed at most once and only under "approved" |
| `Revocation` | Table, copy, age, lock, calls: `CheckAge`, `TakeLock`, `Query`, `Install`, `LookUp`, `ReadRevoked`, `InsertRevoked`, `AddRevoked`, and `Restart`, `Tick`. Every query may fail, and time passes between any two steps. `refresh[w]` is a history: when the query behind the copy's stamp ran, and whether it succeeded |
| `KeyRotation` | The script, one file operation per action, `Crash` between any two; the processes: `BeginLoad`, `ReadKey`, `ReadPub`, `Restart`, `Issue`; which loaded keys `Accepts` a token |
| `KeyCompromise` | `KeyRotation` with the revocation query of the runbook |
| `Policies` | Upserts as Postgres runs them: `BeginUpdate` takes the snapshot, `UpdateRow` locks one row, `EndUpdate`, `InsertRow`, `Commit`; `Rollback` is a death, or Postgres breaking a deadlock. `tx[u]` is the transaction: rows to visit, rows locked, rows added, rules left |
| `ConnectionPool` | Requests of five kinds as lists of the operations that matter to the pool, and one action per operation: the revocation check (`CheckAge`, `TakeLock`, `Connect`, `Install`, `RefreshFails`), the session (`Query`, `Commit`, `Refuse`, `End`), and what is done meanwhile (`Deliver`, `CallBroker`, `PollRead`, `PollEnds`, `AddRevoked`) |
| `Registry` | The rows of `sol.capabilities` under `Upgrade`, `Downgrade`, `Seed`, `Register` |
| `TokenLedger` | Issue (`IssueToken`, `CommitIssue`, `AnswerIssue`), the CLI (`RunCli`, `WriteFile`, `Persist`), revocation (`Revoke`, `FindIssued`, `LookRevoked`, `CommitRevoke`), `Crash`, all while the registry changes |
| `Callers`, `DeliveryRouter`, `RepoCooldown`, `SurgeRunner` | Operators: who is calling, where an approval goes, whether a repository has cooled down, what is sent to the runner and what its reply means |
| `Decisions` | One question after another to the five stateless parts; selections are by `Kept` and paths walk by a recursive function, so that all of it can be proved about |
| `MC*` | Bounded inputs and symmetry for TLC |
| `Selection` | `Kept`: what a loop, a comprehension or a WHERE leaves of a list, by the positions that stay |
| `ApprovalsProofs`, `DispatchProofs`, `RevocationProofs`, `KeyRotationProofs`, `PoliciesProofs`, `TokenLedgerProofs`, `ConnectionPoolProofs`, `DecisionsProofs` | Proofs. The first half of `ApprovalsProofs` holds what is true of the approvals table whoever uses it; its second half, about the service, and `DispatchProofs` both build on that. `DispatchProofs` takes the constant `TTLs` of the service along and no theorem of it mentions it |

An UPDATE in the code writes, by primary key, the columns that the session
changed, so a commit in the model overwrites those columns whatever the row says
by then. The poll's first read returns the session's own copy of the row
(identity map), as `RefreshApproval` left it after the commit that created it; later ones
return what is committed. HTTP, JSON, HMAC, PEM and SQL text
are abstracted to their meaning. Definitions marked "Slip" in the modules are
plausible mistakes kept beside the definition they would replace; nothing in a
specification refers to them.

## 3. Runs

| Run | Asks | Bounds, and why they are enough |
|---|---|---|
| `approvals` | Do columns agree, does nothing expire early, are listed rows fresh, is delivery recorded once, is a settled row final? | One approval, two deciders and a list call (their races are pairwise), mail configured, lifetime 1, links 2, clock to 3: rows are overdue while links live and the reverse. Every decider may tap or decide any number of times |
| `decisions` | Lanes, callers, channels, cooldown, the runner | Commands of two stages, assignments in front of the first, their first ending in a program's name or not; paths of four segments (a prefix of two and room to go down and up), all settings and header values; all mTLS headers with every condition of two tokens; all routings; histories of three rows with a limit of two (50 in the code); all replies of the runner on each side of 400 with and without a body, connections that were not made, answers that did not come and errors that are no HTTPError, with the task taken or not wherever it may be; args of up to three keys of every kind of value |
| `dispatch` | Do row, answer and execution agree in every branch, and is nothing carried out for whom was told otherwise? | Ten shapes of request that take every branch of the handler, one with an id that no header can carry, both settings, two capabilities, a decider, mail; polls of 0, 2 and beyond the cap |
| `race` | Is a recorded verdict a human's, do records only move on, does the handler implement `Gate`? | One polling request, two deciders, a sweep, lifetimes that end before, with and after the poll |
| `live` | Does a handler end, does a verdict that is there get taken, is what is overdue swept? | A polling request and one approved by policy, a decider and a sweep |
| `revocation` | Staleness, agreement with the table, no forgetting, every call answered | One worker, three calls (one refreshes, one waits or verifies, one revokes), one token, TTL 1, clock 1..3: a refresh may fail, or take a tick, so that its copy is relied on a TTL and more after its query. What another worker revokes reaches this one through the table only, and is the commit whose report is lost; the theorems have any number of workers |
| `keys` | Pairs, grace, verification | keep-prev 2, four keys (the oldest is dropped), two deaths of the script, one process: what it loaded long ago meets tokens issued from any later load, and a load overlaps any part of a rotation |
| `policies` | Are payloads in force whole, is the last one, are two only if they overlapped? | Three upserts (one deactivates, one overlaps, one comes after), three versions, two rules in both orders, a rule twice, one rule |
| `pool` | Does anybody hold and wait, who loses a result to a full pool, is everybody answered? | Three requests on a pool of two: full with one request left over. With one more request or connection no wait is of a new kind, for a request waits for one thing at a time. Three kinds; an admin's call takes the first steps of one approved by policy, a tap those after its check |
| `token_ledger` | Is what was answered on record, and audited once? | Two calls race for one of two tokens; both names are registered at any moment or never; every order of migration and seed |

`dispatch` and `race` tell states apart by `UnreadView`, which leaves out the registry's entry
of a capability that no request has still to read: no property looks at it.

Deadlock is not checked where a system may come to rest because a clock or a
counter of the model has reached its bound. `decisions` checks it.

Two runs check a statement of the repository that the code does not keep, where
it takes a run of several steps to see it:

| Run | Statement | What happens |
|---|---|---|
| `single_use` | callback_tokens.py:19-21, a link decides once | Two taps that both read "pending" both commit; the later overwrites the earlier |
| `key_compromise` | RUNBOOK_token_rotation.md:233, revoke every token of the previous key | The query asks for kid prev-1, and tokens are recorded under the name the key had when it signed |

Other disagreements met on the way, each of which a reading of the quoted lines
shows, so that no run is spent on it:

- api/tokens.py:6, "adds to revoked_tokens": the audit row of a revocation is filed
  under `sol_revoke_token` (api/tokens.py:194), a foreign key to the registry that no
  migration, seed or other code satisfies. Until an admin registers the name every
  revocation is a 500 and revokes nothing; issuing by the API fails alike.
- api/policies.py:23, "Deactivate prior versions": two overlapping upserts see nothing
  of each other, and both versions stay active until the next. `TogetherOnlyIfConcurrent`
  says that this is the only way.
- auth/keystore.py:59, the "matching" private key: the halves are read at two moments,
  and a load that overlaps a rotation may pair two keys for the life of the process,
  which then signs tokens it rejects. `TornPairsSignOlder` says what does hold.
- executors/broker.py:84, "Never raises": an actor or trace id that is not ASCII cannot be
  a header, and the encoding error is no HTTPError; a 500, and the row says approved
  without an outcome. `FallbackIsSafe` says that nothing was run.
- executors/surge_runner.py:6-8, "routes" runner capabilities: no handler calls it; such a
  dispatch is approved and answered, and nothing is executed.
- alembic 0006:30, "every issue() persists a row here": the CLI writes its file first
  (scripts/issue_tokens.py:62-96), and a failed insert is a warning. The token is good
  and cannot be revoked.
- alembic 0007:9, broker capabilities auto-approve: scripts/seed_capabilities.py, to be
  run after the migrations, sets `requires_human` back (91, 157).
- api/dispatch.py:244, a row for EVERY dispatch: the row references the registry; an
  unregistered capability is a 500 without a row.
- auth/revocation.py:48-50, a failed refresh is retried on the next call: it is stamped
  like a refresh, and retried after a TTL.
- api/deps.py:9, mTLS callers behave like services: registration refuses them
  (api/capabilities.py:48), and the tenant of a dispatch is compared for services only
  (api/dispatch.py:197).
- README.md:85, the policy file is hot-reloaded: it is read once, in `lifespan`.
- api/dispatch.py:10-14 puts the X-SOL-Mode header first; with shadow_enabled and
  not enforce, a header "enforce" is shadowed all the same (line 208).
- auth/revocation.py:14-16: a worker that answers already_revoked does not add the
  token to its copy (api/tokens.py:180-186).
- scripts/rotate_jwt_key.py:4-9: after a death and a second run, prev-1 may be
  missing or hold one half of a pair; `GraceNeverLost` and `PairsMatch` say what does hold.
- docs/RUNBOOK_token_rotation.md:138, other workers reject within the TTL: the copy is
  stamped after its query (auth/revocation.py:52), and neither connection nor statement
  has a timeout (db.py:25-31), so it is the TTL and as long as a refresh takes; and with
  refreshes failing it is as long as they fail. `BoundedStaleness` says what does hold.
- api/dispatch.py:237, "a request matches at most one" lane, and 112, "provably
  read-only": `classify_readonly` looks up the first token, an assignment or not (130),
  and what follows the assignments is searched for flags only. So an assignment that ends
  in a listed name is taken for that program, and the vetted script with such a setting
  matches two lanes. `LanesAreSound` says what does hold.
- api/approvals.py:36, "every pending approval": a sweep commits `expired` over a verdict
  that was committed after its SELECT, if the row was overdue. The audit row may then say
  approved and the approval expired. `SettledIsFinal` says that only a sweep that saw the
  row pending can do so.
- api/approvals.py:98: an admin's decision without a reason sends no reason column, and the
  row may keep the reason of a tap or sweep that was committed in between.
- executors/surge_runner.py:157-184: a connection that was not made and an answer that did
  not come have the same exit code, 124 or 1, and an error that is no HTTPError leaves the
  function, against "Returns a DispatchResult-shaped dict" (121).
- docs/RUNBOOK_token_rotation.md's rollback says tokens issued after the rotation
  become invalid; a bad.pub left in the directory is loaded like any other and verifies them.
- auth/keystore.py:12: the kid is the name of the file; a token keeps the kid "current"
  when its key is renamed, which is why verification falls back to every key.
- api/tokens.py:7 calls the listing paginated; it has a limit and no offset.
- executors/surge_runner.py:94-98: only known keys go to the runner, so that a malformed
  dispatch cannot upset its validator; four of them go with whatever value they have.
- executors/surge_runner.py:8-10 has tier, rate and cooldown evaluated before; nothing does.
- policy/cache.py:2 has the cache refreshed from the database; nothing reads policies there.
- policy/cross_rules.py:74: the denial is unconditional in the docstring; beyond 50
  rows of other repositories an earlier run is not seen.

## 4. Fairness

`Dispatch!FairSpec` gives weak fairness to the steps of a handler, which is a
runnable thread, and to the clock. Nobody has to decide, tap, list or register.
`BeyondHorizon` excuses a poll whose deadline lies past the modelled time.
`Revocation!FairSpec` gives weak fairness to the steps of a call in progress and
to nothing else: not to the success of a query, not to who gets the lock (a call
may die with its worker, or wait while the holder's steps are taken).

`ConnectionPool!FairSpec` has threads run, and mail, broker, poll and pool have their
timeouts; nothing is assumed of which waiter gets a connection or the lock, and polls
may take each connection that comes free. A refusal by the pool is an answer too, so
`CallsEnd` does not say that a decide call ever gets through: fifteen polls may keep it out. `Expire` does not happen while a call is
inside the revocation check, for the TTL is ten times the pool's timeout.

`OverdueIsSwept` needs nobody to be scheduled: its antecedent is that list calls keep
being answered, which is the promise of api/approvals.py:34 as a client sees it. All other runs use
specifications without fairness, for their properties are safety.

## 5. Proofs

Each theorem is about every value of the constants that the named assumption of its
module allows, and about nothing smaller: the bounds on clocks and counters are
constants too. The assumptions give the constants their types (`KeepPrev` and `TTL`
positive, `RequestShapes` made of known capabilities) and no more.

**Approvals** (`ApprovalsAssumption`, `TTLsAssumption`): any number of requests, deciders
and list calls, any lifetimes.

| Theorem | States |
|---|---|
| `TypeCorrect` | the type invariant |
| `ColumnsAlwaysAgree`, `NeverExpiredEarly` | `ColumnsAgree`, `OnlyOverdueExpires` |
| `Finality` | the action property `SettledIsFinal` |
| `DeliversOnce`, `ListIsFresh` | `DeliveredOnce`, `ListedRowsWereFresh` |

The row invariants are not inductive: a commit writes what its session remembers.
`ApprovalsInv` adds `HeldReads`: a session on its
way to "expire" read a row that is still overdue, because the clock only moves on
and expires_at is never rewritten; a tap carries the reason of its verdict; a
sweep's rows exist and are overdue. `SettleInv` is the one lemma on the commit
itself, used by every action that commits. `ApprovalsTyped` is the type invariant
together with the state of the fan-out that its steps rely on. `Finality` needs no
invariant beyond types: a row nobody holds cannot be settled, because every
commit has read "pending" first. `DeliversOnce` follows from `FanoutInv`: the log is
written by the fan-out alone (operators leave it, `OperatorsKeepRows`), and the fan-out
stops at its first success. `ListIsFresh` follows from `SweepInv`: rows are never pending
again and an expiry is never rewritten, so what the sweep found overdue it has settled
by the time the query runs, or somebody else has.

**Dispatch** (the assumptions of `Dispatch` and `Approvals`): any number of
requests of any shape, any settings, any registry.

| Theorem | States |
|---|---|
| `NothingRunsUnapproved`, `VerdictsAreHuman` | `RanUnderApproval`, `HumanVerdictIsReal` |
| `ShadowStaysInert`, `FallbackIsAlwaysSafe` | `ShadowIsInert`, `FallbackIsSafe` |
| `RecordsAlwaysAgree`, `ApprovedAreCarriedOut` | `RecordsAgree`, `ApprovedIsCarriedOut` |
| `RecordsOnlyMoveForward` | the action property `RecordsMoveForward` |
| `DispatchImplementsGate` | `ImplementsGate`: the refinement of `Gate` |

`DispatchInv` has, for each request, `HandlerInv` (what the handler's place says it has
written and still remembers), `RowInv` (what the audit row alone says of executions and
approvals, wherever the handler is or has died) and `ShadowInv`, over `ApprovalsInv`.
The other threads enter by one lemma, `OperatorsFrame`: deciders, sweeps and the clock make
no approval and take back no committed verdict. `CrashInv` is where `HandlerInv` and
`RowInv` must be apart: a dead handler's place says nothing any more. In the refinement
(`StepRefines`) each action is a step of `Gate` (`InsertRecords`, `RecordSettles`,
`CallPerforms`, `DecisionConsents`) or one that `Gate` does not see (`Unseen`).

**Revocation** (`RevocationAssumption`, `FreeAssumption`): any number of workers, tokens
and calls, any TTL.

`RevocationTyped`, `StalenessIsBounded`, `OwnWorkerRejects`, the action property
`CopiesOnlyGrow`, and `LocksAreNeverLeft`, which no run states: a worker's lock is held by
a refresh between its query and its assignment and by nothing else, and two refreshes of
one worker never overlap. It is the part of `CallsEnd` that is no matter of fairness.

`CallInv` says that whoever is between query and assignment holds the worker's lock, and that what he is about to install contains the copy, because whoever
adds to it needs the lock; `CopyInv` says why a copy may lack what is revoked: the refresh
behind its stamp failed, or its query ran before the revocation was committed. From it a
call that takes the copy for fresh, and may look into it as late as it likes, is accepted
only if it came less than a TTL after a stamp that is no further from the query than the
refresh took (`took`).

**Keys** (`KeyRotationAssumption`): any keep-prev, any processes, any deaths of the script.

- `PairsAlwaysMatch`: wherever the script dies, no name pairs two keys.
- `GraceIsNeverLost`: a key within its grace has its public half in the directory
  at every moment.
- `TornPairsAlwaysSignOlder`: a load that overlaps a rotation tears in one direction only.
- `GraceTokensAlwaysVerify`: tokens of keys within grace verify with every clean load.

None is inductive. `ScriptInv` says what a run has emptied by the time it gets
to an operation: the slot a cascade turns to holds nothing, because the oldest was
dropped or the slot above was just filled from it, so no rename overwrites a file
and the two renames of a move take the two halves of one key. It holds of a
directory any earlier death may have left, since it speaks only of the present run.
`GraceInv` bounds where a key is: no further from current than the rotations
completed since (`Age`), the deaths, and one more if the present run has moved it
already (`Shifted`). The bound grows by one exactly when the key moves, a death
turns "moved by this run" into "moved by a run that died", and a completed rotation
turns it into age; so the slot the script drops holds a key past its grace.
The readers see the script through `Ages` (`ScriptAges`): a step removes a half, moves
it one slot on into a slot without a public half, or installs the newest key. Therefore
a key that left a slot never comes back to it or to a younger one (`GoneForGood`), a
private half that was read stays no younger than what is read after it
(`StillHalfRead`), and a directory that looks at the end as the listing saw it has been
read as it is (`StillFollowed`, `LoadedStep`). The order in which names are read is not
used, only that one name is read after another.

**Policies** (`PoliciesAssumption`): any upserts, versions and rule lists.

`PayloadsStayWhole`, `LatestStaysInForce`, `LaterReplaces`. Postgres works row by row, the
properties speak of whole payloads. `Ownership` gives each row to the one committed
upsert that inserted it; `Exclusion` says that open transactions hold and insert disjoint
rows; `Scans` says that what an UPDATE has locked or has still to visit are, of the upserts
its snapshot saw, all rows still active, and of the others none. So a commit deactivates
whole payloads, and never the one that committed after its snapshot.

**Token ledger** (`TokenLedgerAssumption`): any calls, tokens and registry.

`AnswersStayTrue`, `RevocationsHaveOneAuditRow`. `CallInv` keeps, through crashes and other
calls, what a call has read or committed; a second revocation of a token that two calls
read as not revoked fails on the primary key, and its audit row with it.

**Pool** (`ConnectionPoolAssumption`): any number of requests, any pool size.

`NobodyHoldsAndWaits`, `ResultsAreKept`. Both are properties of the programs
(`ProgramsAreSound`): an operation after which a connection may be in hand is never
followed by one that waits, and the broker's call is followed by nothing but a commit
unless a human decided. `PoolInv` says that a call's state fits its place in its program.
`LockIsNeverLeft`, which no run states, is about the programs too (`ProgramsAreOrderly`): a
refresh is entered from the lock alone and left by its end or its failure, which give the
lock back. It and `NobodyHoldsAndWaits` are what `CallsEnd` has of safety.

**Decisions** (`DecisionsAssumption`, `FirstTokenAssumption`, `LimitAssumption`): any set of questions of each kind,
with lists of any length. `DecisionsAssumption` types what a proof takes apart: the stages of a
command, the segments of a path, the rows of a history, the replies of the runner and
which of them a task it took can have. `FirstTokenAssumption` says what a stage's first
token is when no assignment is in front.

| Theorem | States |
|---|---|
| `LanesAreTakenInOrder`, `SandboxWritesNeverLeave` | `LanesAreSound`, `SandboxWritesStayInside` |
| `CredentialsStaySound` | `CredentialsAreSound` |
| `RightOnesAlwaysAsked`, `CooldownStaysExact` | `RightOnesAreAsked`, `CooldownIsExact` |
| `RunnerCallsStaySound` | `RunnerCallsAreSound` |

`AskedInv` says that what is being decided is one of the questions, so each theorem is a
fact about one question. `KeptFacts` says what a selection holds: its j-th member is the
one whose position has rank j, and ranks count without a gap because the ranks of a finite
set inject into its numbers (`Ranks`). From it `SelectedFacts`, hence the cooldown: with at
most `Limit` rows that count, each of them is looked at. `SandboxWritesStayInside` compares
the classifier, which drops the "." of a path, with a walk that goes up at "..".
`WalkIsNormalised` proves them one where there is no "..": the selections of the path's
beginnings solve the equation of the walk (`KeptOneMore` adds one position), and any
solution agrees with them, for there is no smallest place where it would not (`Smallest`,
by the well-foundedness of the naturals, where an induction theorem cannot be used).

Only model-checked:

- `HandlerEnds`, `VerdictIsTaken`, `OverdueIsSwept` and both `CallsEnd`: liveness, and the
  provers reach neither fairness nor ENABLED.
- The two violations.

## 6. Plan

Mail and links per channel; the runner's result on the row when a handler calls it.

## 7. Not modelled, and why

The policy engine approves everything and is not called; the cache is loaded once and
read by nothing that is called; the vertical-agent, permission-gate, GEOpro,
PulsePoint and agent-monitor adapters raise or return "not implemented"; the
degraded-mode log has no caller and no state to recover. Audit list, health, metrics,
logging, token listings and the admin page read only. The learned-tiers table is
neither read nor written. Migrations other than 0007 create tables; the smoke scripts
are clients. SMTP, templates, claims of tokens, hashes and capping of output are data
no property tells apart. Two loads of the keys by two threads of one process are taken
as one. The new key is moved into place in one step, which `shutil.move` is within one file
system; from a temporary directory on another it is a copy and an unlink, and a death in
between leaves half a file. Tokens of a command are taken as unquoted, and paths without
empty segments (the classifier refuses a double slash in front and drops one elsewhere).
A template of a cooldown's reason that names an unknown field raises (policy/cross_rules.py:127).
Postgres is taken to break deadlocks and SQLAlchemy's pool to time out, as they do.
