# Kumomiru: formal verification

Kumomiru scans AWS accounts read-only, stores a graph snapshot per scan, and
keeps findings with a lifecycle. This directory holds TLA+ models of the code
under `packages/`, the TLC runs that check them, and TLAPS proofs.

## 1. Inventory

Two kinds of process share one SQLite file (WAL, `busy_timeout`, foreign keys
on): one API server and any number of workers. `better-sqlite3` is synchronous,
so JavaScript between two `await`s is atomic inside its process, but every
statement outside `db.transaction` commits on its own and another process may
run between any two of them. That is the grain of every model here.

| Component | State | Operations | Talks to | What is hard |
|---|---|---|---|---|
| Scan queue and scheduler (`worker/scheduler.ts`, `db/sqlite.ts`) | `accounts.status`, `scans`, `worker_leases` | tick: acquire the lease, enqueue due accounts, claim and run; start; stop | every other process through the tables | check-then-insert, claim races, lease expiry, crash or SIGTERM in a scan, delete under a running scan |
| Accounts API (`server/routes/accounts.ts`) | rows of `accounts` | register/update, delete (cascades), enqueue | queue | races with the worker's loop |
| Organizations sync (`worker/jobs/orgSync.ts`, `server/routes/onboarding.ts`) | `settings`, `accounts` columns | list members, upsert, queue verifies; ExternalId creation | queue, Organizations API | stale `before` row overwrites edits; two processes create the ExternalId |
| Scan run (`worker/jobs/scan.ts`, `adapters/aws-live/credentials.ts`) | master and borrowed credentials; `snapshots`, `rule_results`, `scan_diffs` | assume role, verify, passes, merge, evaluate, persist, finish | STS/AWS, findings, queue | region failures, failure between two writes, scrubbing on every path |
| Findings lifecycle (`db/sqlite-lifecycle.ts`, `server/routes/findings.ts`) | `findings`, `suppressions` | reconcile, applySuppressions, create, revoke | scan run, server | suppressions read before reconcile; expiry; partial scans |
| Users and authentication (`server/auth`, `db/sqlite-users.ts`) | `users`, signed cookies | login, role change, disable | identity provider | first admin, last admin, two admins at once, addresses that change hands |
| Rules and compliance (`rules/run.ts`, `rules/compliance.ts`) | none | evaluate, controlStatuses | scan run, API | superseding by Security Hub, not-assessed, roll-up over accounts |
| Rule checks and catalogues (`rules/checks`, `rules/frameworks`) | none | one predicate per rule | evaluate | data |
| Snapshot graph (`graph/*`, `adapters/common/merge.ts`, `analysis/stitch.ts`) | none | merge, stitch, integrity, diff, redact | scan run | first occurrence wins, id collisions |
| IAM policy analysis (`adapters/analysis`) | none | evaluate statements, assume-role, resource access, dataflow | discovery | deny precedence, unknown conditions, wildcards |
| Live discovery, feeds, AWS clients (`adapters/aws-live`, `adapters/feeds`, `aws`) | none between calls | collectors, feeds, SDK calls, bounded concurrency | AWS | denied or throttled calls, partial capabilities |
| Terraform adapter, graph schema, server shell | none | translation, validation, HTTP plumbing | — | data |
| Viewer (`viewer`) | React state, the Cytoscape instance, the panel that loads maps | fold, trace, choose a lens, search, load | API | state kept twice and tied by effects; answers that come late |

What makes each correct: the queue runs a scan at most once at a time per
account and never forgets one; the lifecycle's status, suppression and times
agree with each other and with what the last scan saw; a run ends in exactly
one outcome whatever fails, with its credentials scrubbed; the sync never
overwrites an operator's choice; an estate keeps an admin; roll-ups never call
a control passed that failed; merged graphs keep referential integrity; a
policy decision is never more permissive than the statements.

## 2. Plan

Each module is written to be proved about: constants with named assumptions,
one action per operation, invariants as conjunctions of named parts.

| # | Module | Composes | Abstract specification | State |
|---|---|---|---|---|
| 1 | `Scheduler` (+ `ScanLedger`, `MCScheduler`, `SchedulerProofs`) | workers × server × crashes | `ScanLedger` | done |
| 2 | `Lifecycle` (+ `MCLifecycle`, `LifecycleProofs`): findings × suppressions × reconcile and apply | workers × server × crashes | rows consistent with scans and suppressions | done |
| 3 | `ScanJob` (+ `ScanJobProofs`): the steps of `runScan`, the credential copies, the write sequence and its failures | queue, server and reconcile as one write each | outcomes are true | done |
| 4 | `Posture` over `Discovery` over `CloudReads`, and `RuleBook` (+ `MCPosture`, `PostureProofs`): a scan's passes call by call, the merge, the rules, the roll-up | discovery × feeds × analyses × rules | verdicts against the contents of the account | done |
| 5 | `AccessAnalysis` (+ `MCAccessAnalysis`, `AccessAnalysisProofs`): the policy evaluator and the two IAM passes | SDK client or Terraform × both passes | edges against the documents | done |
| 6 | `Viewer` over `MapCanvas` (+ `MCViewer`, `ViewerProofs`) | application × canvas × panel × server | `MapCanvas` | done |
| 7 | `Users` (+ `UsersProofs`): sign-in, roles, restarts | two admins × identity provider | an admin remains | done |
| 8 | `OrgSync`: settings, ExternalId, account columns, operator edits | server × worker | one ExternalId for the estate | not modelled |
| 9 | diff, redaction and containment of graphs; the translation of a Terraform state | — | — | not modelled |

Two small modules serve several of these: `Maps` joins maps, `Reach` computes
what is reached in a graph.

No module has a recursive operator: what recurses is a function over the natural
numbers. `GeneralLemmas` holds what the proofs share: induction over sets of
numbers (`NumbersByInduction`, from the library's `WFMin`), the least and the
greatest number of a set, `ReachedIsLeast` (a breadth-first search finds the
least set that has its start and is closed under the edges) and `JoinIs`.

## 3. The scan queue

### `Scheduler`

State: `accounts` (the `status` column, `"absent"` for no row), `scans` (the
table; ids are numbered in insertion order, which is `ORDER BY created_at`),
`lease` (the `worker_leases` row), `workers` (for each worker where it is in
`tick`/`runScan` and the locals it will still use: the `now` of its acquire,
the accounts left in its loop, the claimed scan, the status it saw), `api` (the
server between `enqueue`'s check and its insert), `clock`, and the history
variable `lost` (scans whose worker ended while it ran them).

| Action | Code |
|---|---|
| `PostAccount`, `DeleteAccount`, `PostScan`, `InsertScan` | `routes/accounts.ts` handlers; the enqueue split into its two statements |
| `TickWithLease`, `TickWithoutLease` | `leases.acquire` |
| `OrgList`, `SyncUpsert`, `SyncCheck`, `SyncInsert`, `SyncDone` | `runOrgSync`, statement by statement |
| `TickList`, `TickCheck`, `TickInsert`, `EnqueueDone` | the enqueue loop of `tick`; a foreign-key error ends the tick |
| `Claim`, `DrainDone`, `LoadAccount`, `AccountGone` | the claim loop of `tick` |
| `RunFail`, `VerifyActivate`, `VerifyFinish`, `Persist`, `RunFinish`, `RunActivate` | the writes of `runScan` and `verify` to these tables |
| `Crash`, `Stop` | the end of a process anywhere; SIGTERM where the worker awaits |

Abstractions: the triggers `schedule` and `manual` are one, as are the results
`ok` and `partial`; cron is a period; the other columns are left out. A
statement fails only on a constraint: a database that stays locked for five
seconds or a full disk is not modelled. Bounds: `ScanIds` (an enqueue needs an
unused id: `Room`, `Fresh`) and `MaxClock`.

### `ScanLedger`

What clients may rely on: a scan is submitted once, starts at most once, closes
only after it started, at most one per account in flight, and deleting an
account purges its scans. `Ledger` in `Scheduler` is the refinement mapping.

### Runs

| Run | Instance | Shows |
|---|---|---|
| `queue_safety` | 2 workers (symmetric, both mortal), 1 account, 2 scans, clock to 3, lease of 1 | `TypeOK`, `RunningRowIsHeld`, `NoSharedLiveScan`, `LeaseExclusive`, and `LedgerSpec` |
| `queue_liveness` | 1 immortal worker, 2 accounts of which one is a member, 2 scans | `EveryScanSettles`, `DueAccountIsScanned` |
| `crash_blocks_account` | 1 worker that may stop | violated: `ScansRunOnSchedule` |

The bounds are enough for the cases they are for: two workers and a server are
the actors of every race found; two scans of one account are needed for a
second claim, a double enqueue and a re-registered account; three instants let
a lease of one be held, expire and be taken while its old holder is still in
its loop. With one account the safety run meets deletes, restarts and claims
in every order; the second account of the liveness run is what the foreign-key
error and the shared queue need.

Fairness: `WF(WorkerStep(w))`, since `setInterval` keeps a live worker ticking
and each AWS call answers or throws, and `WF(InsertScan)`, since a handler that
started ends. No fairness on `Start` is claimed beyond a supervisor that
restarts a worker (it is a disjunct of `WorkerStep`), none on clocks, crashes
or clients. `DeletesEnd` is an assumption of the liveness properties, not of
the specification: an account deleted and registered again under every tick
would abort each tick before it drains the queue.

### What is proved

`SchedulerProofs` proves for every set of workers, accounts and scans and every
lease time, from `SchedulerAssumption` alone:

- `TypeCorrect`, `RunningRowsAreHeld`, `LiveScansAreSeparate`,
  `LeaseIsExclusive`: the four invariants of `queue_safety`;
- `ImplementsLedger`: `Spec => LedgerSpec`.

The argument is one inductive invariant `IInv`. `RunningRowIsHeld` is not
inductive: a finish changes the row the worker *remembers*, so `HeldRows` says
that row is its own running row or deleted; `ForeignKeys` keeps the remembered
accounts and the rows' accounts real; `OneRunning` is what the claim
transaction preserves and `NoSharedLiveScan` follows from it; `LeaseHeld` ties
every enqueueing worker to the lease row or to an expired one. Most steps are
`Quiet` for the rows (they claim and end nothing), which leaves `Claim`, the
finishes, `DeleteAccount` and the end of a process as the cases with content.
The refinement has one lemma per kind of ledger step.

Only model-checked: the two liveness properties.

### What the violated run shows

A worker that ends during a scan, by a crash or by SIGTERM, leaves a `running`
row that nothing ever ends; the account is not scanned again, against
`README.md:79`.

## 4. The findings lifecycle

### `Lifecycle`

State: `registered` (the accounts that have a row), `findings` (the table:
status, `suppression_id`, the three times), `suppressions` (the table; a rule, a
resource pattern and an account scope matter only by what they match, so a
suppression is the set of findings it covers), `runs` (each worker's `runScan`:
how far it is, the `observedAt` it took, the findings of its graph, the regions
whose pass failed, the list of suppressions it read, and `gone`, whether its
scan row was deleted), `server` (between a write to `suppressions` and its
application), `clock`. Two history variables name the exceptions the code makes:
`raced`, the findings last written with a list that had changed since it was
read or left behind by a server that stopped, and `orphaned`, the findings
written by a run whose scan was deleted.

| Action | Code |
|---|---|
| `Claim` | `claimNext`: an account with a running row, be it one of a dead worker, is not claimed |
| `Merge`, `Fail` | the passes and the merge of `runScan`; the findings a rule or a feed may yield are any of the account's, except those of a region that failed |
| `Persist`, `PersistFails` | `snapshots.insert` and `ruleResults.replaceForSnapshot`: their foreign keys need the scan's row, and the results' primary key that no rule has two for one resource |
| `ReadSuppressions`, `Reconcile`, `ReconcileFails` | `suppressions.activeFor`, then `findings.reconcile` as one transaction, which a foreign-key error rolls back |
| `CreateSuppression`, `RevokeSuppression`, `Apply` | the handlers of `routes/findings.ts`: the write, then `applySuppressions` |
| `ServerRestarts`, `Crash` | the end of the server between its two statements, of a worker anywhere |
| `DeleteAccount`, `RegisterAccount` | the routes of `accounts.ts` with their cascade |

`matchSuppression` is `Match`: the newest of the listed suppressions that covers
the finding and has not expired. Two created in the same millisecond have no
order in the code; here ids are the order. Left out: the columns that only
describe a finding, rules with no id, glob syntax. Bounds: `SupIds`, `MaxClock`.

### Runs

| Run | Instance | Shows |
|---|---|---|
| `lifecycle` | 2 workers, 1 account, 1 finding of a regional pass, 1 suppression with or without expiry, clock to 2 | `TypeOK`, `RowsAgree`, `HistoryInOrder`, `SuppressionsInForce`, `SeenGrows`, `LapsedReopens` |

Findings do not influence each other: a row is written from its own columns, the
run's set and the suppressions that cover it, so one finding meets every
interleaving that several would. Two workers are needed for a run that outlives
its deleted account beside a run of the new one. Two instants separate what was
observed from when it is written, and let a suppression expire between. Larger
instances (three instants; two suppressions) were explored with the same
result.

Fairness: `WF(Apply \/ ServerRestarts)`, a handler ends or its process does;
`WF(RunStep(w))`, as in `Scheduler`; and `SF(Claim)` per account, which is what
`EveryScanSettles` and `DueAccountIsScanned` of `Scheduler` promise while workers
live. Nothing makes a run get past its passes or its writes: it may fail every
time. `LapsedReopens` therefore has two premises. `WorkersStayUp`: a worker that
dies leaves its account blocked, which `crash_blocks_account` shows.
`ScansGetThrough`: not every scan of an account fails before its reconcile. The
code does not guarantee the second. AWS may refuse every scan, and two findings
of Security Hub about one control and resource, for as long as they last, make
every scan fail at `scan.ts:116`, after its snapshot was stored (section 10). In
either case a lapsed suppression is reopened by no scan of that account.

### What is proved

`LifecycleProofs` proves for every set of workers, accounts, findings and
suppressions, from `LifecycleAssumption`: `TypeCorrect`, `RowsStayConsistent`,
`HistoryStaysInOrder`, `SuppressionsStayInForce`, and the action property
`SeenNeverGoesBack`. Of the suppressions it assumes only that their ids are
finitely many numbers: a list of them then has a newest (`GreatestNumber`).

The argument: a reconcile writes what was decided earlier, when the run observed
the account and when it read the suppressions. `RunOK` therefore says of each run
what still holds of both: a list that is not `outdated` is still the list of what
was active at `observedAt`, and no row of its account was seen or resolved later
than `observedAt`, unless its scan was deleted. The latter is preserved because
`OneLiveRun` holds, one run per account whose scan still has its row; the former
because every write to `suppressions` marks the lists that were read.
`RowsNotAhead` gives it to a run that just observed. `MatchReturns` states what
`matchSuppression` returns; `ReconcileRows` what a reconcile does to one row.

Only model-checked: `LapsedReopens`.

## 5. A scan's run

### `ScanJob`

State: `account` (the status column), `scans` (status, trigger and
`regions_json`), `snapshots` (for each scan the row of its snapshot: the regions
covered, `prev_snapshot_id`, whether `rule_results` were written, and the
snapshot its `scan_diffs` row is against), `reconciled` (the scan the findings
were last reconciled with), `runs` (each worker's `runScan`: its next statement,
the account status it loaded, the passes left and failed, the `prevMeta` it
read), `secrets` (which of a worker's credential objects still hold secrets:
the master, the copy a pass borrowed).

| Action | Code |
|---|---|
| `Claim` | `claimNext` and the account row the run was given |
| `AssumeRole`, `AssumeRoleFails` | `sts.assumeRole` |
| `BeginVerify`, `VerifyActivate`, `VerifyFinish`, `VerifyFails` | `verify`, an error or the wrong account alike |
| `ListRegions`, `ListRegionsFails` | the account's regions or `listRegions`, then `setRegions` |
| `BeginPass`, `PassDone`, `RegionFails`, `GlobalFails` | `pass` through `CredentialBroker.use`; a regional error is recorded, a global one ends the run |
| `Merge`, `MergeFails` | merge, stitching, the integrity check, the rules, `latestForAccount` |
| `InsertSnapshot`, `WriteResults`, `Reconcile`, `SetDiff` and their `...Fails` | the four writes, each a transaction of its own |
| `FinishScan`, `Activate`, `Return` | `scans.finish`, `setStatus`, the `finally` |
| `Crash` | the end of the process: its memory goes, the scan's row stays `running` |

`Throw` is the `catch`: `finish` with `failed`, then the `finally`. An `UPDATE`
finds no row once the scan was deleted; an `INSERT` of a snapshot, a result or a
diff then fails on its foreign key, but the reconcile does not, for findings
refer to the account only. Simplified: `enqueue` is one step and scans are
numbered in the order they are queued, since its race is `Scheduler`'s subject;
the claim and the load of the account are one step for the same reason; the
order of the regional passes is free; `generated_at` orders snapshots as the
scans are numbered, which presumes clocks of the workers that agree to within a
scan. A write fails for the reasons the schema gives, and results also for two
that have the same rule and resource.

### Runs

| Run | Instance | Shows |
|---|---|---|
| `scan_job` | 2 workers, 1 region, 3 scans | `TypeOK`, `OutcomeTrue`, `DiffChain`, `SecretsBorrowed`, `FindingsFollow`, `SecretsScrubbed` |

Three scans are needed for a run whose scan was deleted beside two scans of the
account's next life, one of which has a predecessor. One region gives the four
cases that matter: none listed, covered, failed, and deleted under the run.

Fairness: `WF(RunStep(w))`: a run is a chain of awaited calls, each of which
answers or throws.

`FindingsFollow` has an exception that is the code's: a run whose scan was
deleted may reconcile after the account was registered again, and its findings
then stand until the new life's next scan.

### What is proved

`ScanJobProofs` proves for every set of workers, regions and scans, from
`ScanJobAssumption`: `TypeCorrect`, `OutcomesAreTrue`, `DiffsFollowTheChain`,
`SecretsAreBorrowed`, `FindingsFollowScans`, the five invariants of `scan_job`.

The inductive invariant `IInv` is proved part by part, each with the parts
before it. `RunRows` and `RunsApart` give every run a scan of its own that is
`running` until the run ends it or a cascade removes it. `RunsData` says what
the run may rely on at each statement, which makes `OutcomeTrue` inductive.
`InOrder`, that scans are queued one after the other is over, makes the run of
an existing scan the only one: from it follow `PrevRead`, that the latest
snapshot read before the insert is the one read inside it (hence `DiffChain`),
and `RunReconciled`, that nobody but a run whose scan was deleted reconciles
between a run's reconcile and its finish (hence `FindingsFollow`). `InOrder` is
where the simplified `enqueue` enters: with the double enqueue of section 3 two
scans may be queued, though still not run, at once. `LatestExists`, a part of
the invariant, says that stored snapshots have a latest one.

Only model-checked: `SecretsScrubbed`.

## 6. The posture of an account

Four modules, each extending the one before: what AWS may answer, how the map is
built, what the rules look at, and what the scan says in the end.

### `CloudReads`, `RuleBook`

Both are tables. `CloudReads` has, for each kind of resource and each fact a rule
judges, whether a call of its own reads it and what the collector does when that
call finds nothing, is denied or fails otherwise: leave the fact unset, put a
value in its place, or reject the pass. The differences are the code's: the
`optional` of `collectors.ts` tolerates what is missing, that of
`collectors-b.ts` also what is denied, and a `try` around a call tolerates
everything. The policy of a resource is read the same way, though no rule judges
it: without it the analysis of that resource has nothing to go by. `FailsWith`
says which facts fall together: those of one call (`OneCall`, the policy of a
bucket and the rule that reads it) and those of one `try` (`OneTry`, a function's
policy and its URLs, a secret's policy and its rotation). `RuleBook` has a row per rule: kind, fact, capability, control, and
the verdict when the fact is absent. A fact is `"good"` or `"bad"` in the sense
of its rule; the predicates that grade ports, dates and documents into one or
the other are not modelled.

### `Discovery`

State: `pass` (the pass under way: its next call and the graph so far), `graphs`
(of the passes that succeeded), `failed` (regions), `unread` (tolerated
failures), `left` (what may still go wrong), and the account itself: `bad` and
`feed`.

| Action | Code |
|---|---|
| `StartPass` | the loop of `runScan` over the regions; the global pass is the first |
| `CollectResources` | one list call of `discoverGraph` with its describes: nodes, facts, the policy of the resource, parents, edges to what the pass has so far |
| `CollectReport`, `CollectSettings` | the credential report; the account summary and the region's settings |
| `PassFails` | a call that nobody tolerates; a region is skipped, the global pass takes the scan with it |
| `FinishPass` | the IAM analyses, then the feeds, the dataflow edges and the secret scan |

`Merged` and `MergedNodes` are `mergeGraphs`: by id, the earliest graph wins.

### `Posture`

| Action | Code |
|---|---|
| `Merge` | `mergeGraphs`, `stitchKnownAccounts`, `checkReferentialIntegrity` |
| `Evaluate` | `evaluate`: Security Hub's rows and the rules', what one supersedes of the other, the findings |
| `Save` | `replaceForSnapshot` with its primary key |

`ControlStatus` is `controlStatuses`. `Mentions` is the search of
`stitch.ts:37` for a registered account id in the text of a finding, which holds
the ARN of the resource and the principal; of both, `TextOf` says which
registered ids their names contain.

### Runs

| Run | Instance | Shows |
|---|---|---|
| `posture` | `MCPosture`: two regions, 48 resources | `TypeOK`, `MapIntact`, `LinksDrawn`, `FactsReachRows`, `VerdictsTrue`, `FailHasFinding`, `ExposureKept`, `SeverityFollowsPrincipal` |
| `region_fallback` | the same | violated: `RegionVerdictKept` |

The instance has a resource of every kind in `r1`, linked to all that its kind
may be linked to; in `r2` are the cases `r1` does not have: a balancer without a
group or a listener, an Auto Scaling group with the name of another, an
unattached volume, a bucket named after a sibling account. The
scenarios are: each fact of each resource bad, one at a time; everything good or
everything bad, with one failed read anywhere (of a policy too) or one rejected
pass; everything bad with any two
resources missed by their listing; six reports of Security Hub and Access
Analyzer, among them an archived one, two verdicts on one resource, and an
aggregation region that reports another region's resources; and an active report
about a function any of whose reads may have failed. A fact
is read and judged by itself, so single bad facts meet every rule; two
resources are what an edge needs.

Assumed: the account does not change during a scan. A listing may miss a
resource, which is what a change between two calls looks like.

`Optimistic` names the five reads whose failure the code takes for a good answer;
they are the exception of `VerdictsTrue`, and each is a line of the source where
a missing or denied answer makes a rule pass (a snapshot of a database whose
attributes may not be read counts as private, for instance). The account's own
rule about trails has no fact of its own: `VerdictsTrue` judges it by the trails
that were listed. A finding about a principal whose resource is not on the map
keeps its severity, which `SeverityFollowsPrincipal` says.

Three more properties have exceptions, each a named operator that follows the
code, and each met by the instance:

- `LinksDrawn` asks for the edge between the two resources. `TakenByNamesakes`:
  edge ids are made of names, so two resources of a region merged earlier that
  have the names of these two keep the edge (`merge.ts:29`); `asg2` and `lt2`
  lose theirs.
- `ExposureKept` asks for a finding about every grant to the outside.
  `PolicyForfeited`: where the read of the policy failed in one of the ways the
  collectors tolerate (`Forfeiting` lists them), there is none, unless an active
  report of Access Analyzer stands in (`AnalyzerHas`).
- `SeverityFollowsPrincipal` asks that a stranger's finding is never stepped
  down. `NamedAfterSibling`: it is, where the id of a sibling that reaches the
  resource too is part of the resource's name or of the stranger's, as it is of
  `bkt2`'s.

### What is proved

`PostureProofs` proves all eight invariants of `posture` for every account: any
resources and links between them, any reads that fail and listings that miss,
any regions and any reports of the feeds. The theorems are `ScanTypes`,
`MapHoldsTogether`, `EveryLinkIsDrawn`, `FactsDecide`, `VerdictsAreTrue`,
`FailuresHaveFindings`, `ExposureIsKept` and `SeverityIsThePrincipals`.

They rest on `DiscoveryAssumption`: finitely many resources, names apart, links
between resources of the kinds the tables allow, policy grants only on resources
of a region whose kind has a policy that is read, no exemption from the facts
that judge trails, and no region twice. The accounts API does not enforce the
last one; an account with a region listed twice is outside the model. And on
`PostureAssumption`: a principal of a registered account has the account's id in
its name, and no account is called `external`.

The argument follows the data:

1. The tables are checked as tables. `ShapesAreGood`, `ShapesTie` and
   `LinksInOrder` say that a kind refers only to kinds that an earlier call of
   its pass lists, or that the later of the two ties the link; `ReadsAreGood` and
   `RulesRead` say what a failed read leaves and that each rule's capability
   comes with its fact; `ReadsFailTogether` that what fails with a read, by
   `OneCall` or `OneTry`, is tolerated with it. A table that swaps two calls
   fails here.
2. `PassInv` holds of the graph under way after every call. Its parts:
   `Settled` (whose resources the pass has), `Whole` (no edge, parent or finding
   without its nodes), `Tied` (every link among them drawn, and no other edge has
   an id of that sort), `Told` (each fact is the account's, or explained by a
   failed read).
3. `GraphInv` holds of a graph that is done, to which the analyses and the feeds
   have added: outsiders, and findings that expose every grant whose policy was
   read (`Exposed`).
4. `ScanInv` puts the graphs in order: the global one, then regions, none twice.
   From it follow the properties of the map, since the earliest graph that has a
   node is the only one that has its facts. Its part `Reported` remembers, of a
   graph that is done, that an active report of its region is in it.
5. `MapInv` ties the map to the graphs, and the rows to the map.

`PassInv` must say `Place[kind] < next`, which calls are over, or `Tied` is not
inductive: a resource listed later could be referred to by an earlier one that
draws the edge only among what it saw. TLC checked `ScanInv` and `MapInv` as
invariants of `posture` before they were proved.

Only model-checked: `RegionVerdictKept`, which is violated.

### What the violated run shows

As soon as Security Hub reports a control anywhere, only its rows decide that
control: it passes although a native rule fails it in a region where Security
Hub is off, against `docs/cspm-roadmap.md:55`.

## 7. IAM policy analysis

### `AccessAnalysis`

State: the documents (`trusts`, `identities`, `policies`), who projects them
(`source`: the SDK client, which keeps neither a statement's effect nor a bare
`"*"`, or the Terraform adapter, which keeps both; neither keeps a NotPrincipal
in a trust policy), `scope` (a region's pass
knows no principals), `todo` (the entries still to be looked at, each with its
place in the documents, `at`, which is the order they are taken in), and
the result: `nodes`, `edges`, `findings`.

A glob is the set of names it matches, a condition block the set of its keys; a
principal is a record of its text, its element, its form, the account written in
it and the principals it matches.

| Action | Code |
|---|---|
| `TrustOutsider`, `TrustInsider`, `SkipTrust` | the loop of `analyzeAssumeRole` (`analysis/iam.ts`) |
| `GrantPublic`, `GrantOutsider`, `GrantDelegated`, `GrantDirect`, `SkipGrant` | the loop of `analyzeResourceAccess` (`analysis/resourceAccess.ts`) |

`Evaluate` is `evaluate` of `analysis/policy.ts`; `LiveTrust`, `TerraformTrust` and
`ProjectPrincipals` are the projections.

### Runs

| Run | Instance | Shows |
|---|---|---|
| `policy` | 2 roles, 1 user, 1 bucket with an alias | `TypeOK`, `AssumeEdgesExact`, `OutsidersExposed`, `NoPhantomOutsider`, `AccessEdgesExact`, `CriticalIsUngated` |
| `denied_trust` | the same | violated: `DeniedTrustGrantsNothing` |

The instance reads every trust policy and every resource policy of up to two
statements over sixteen kinds of principal (own and other account by root, id,
ARN and session, one that matches a pattern, one deleted, SAML, OIDC, service,
canonical user, everyone), allowed and denied, gated and not, against six sets
of identity policies with `NotAction`, `NotResource`, explicit denials and
aliases. Two statements are what an order needs to matter. The properties read
the documents and not the entries made of them, so a fault of a projection
shows. Two of them have exceptions that are the code's:

- `AssumeEdgesExact` demands an edge where a trust policy allows a principal and
  denies it nowhere, and forbids one where it does not allow it. The exception:
  the SDK client drops the effect, so with it a principal that is only denied may
  have an edge; none is demanded. (Of outsiders the violated run shows it.) A
  denial beside an allowance is not held against it by the code; there the
  property leaves the edge open.
- `OutsidersExposed` is about everyone a document lets in, by name, by a bare
  `"*"` or by a NotPrincipal. The exception, `PrincipalDropped`: a trust statement
  whose principal element is no object is passed over, so who is let in by a
  NotPrincipal, or with the SDK client by a bare `"*"`, is on no map.

### What is proved

`AccessAnalysisProofs` proves all six invariants of `policy` for every account,
documents of any length and any principals and resources: `AnalysisTypes`,
`AssumeEdgesAreExact`, `OutsidersAreExposed`, `NoPhantoms`, `AccessEdgesAreExact`
and `CriticalMeansUngated`.

`AnalysisAssumption` is about texts: an effect is one of two, in every document;
the text of a
principal says its form and the account in it (`WellFormed`), so two entries with
the same text agree on both; and no such text is the id of a principal of the
account, since ids of outsiders have a prefix.

The invariant is `DrawnInv`: every edge and finding comes of an item of the
documents (`EdgesSound`, `FindingsSound`), and of every item that had its turn
the edges, nodes and findings are there (`NothingMissed`). It says nothing of the
order of the turns, because later items only add: an edge that is drawn stays as
it is, and a finding may be graded again but never goes. When `todo` is empty both halves meet, and the
theorems compare the items with the documents (`TrustItemFrom`, `TrustItemFor`,
`WorldItemFor`, `GrantItemFrom`, `GrantItemFor`).

### What the violated run shows

`parseTrustPolicy` drops a statement's effect: a trust policy that denies an
outsider draws the edge and the critical finding of one that allows it, against
`analysis/iam.ts:36` and `:82-83`.

## 8. The viewer

### `MapCanvas`

The canvas by itself: `graph` (the map it was built for), `tree` (parents, the
remembered parents of detached nodes, the folded, the hidden), `pending` and
`folding` (a "collapse all" or "expand all" under way). `Collapse`, `Expand`,
`Toggle` are those of `lib/collapse.ts`, on what Cytoscape answers about the
tree as it stands. It is the abstract specification that the application uses.

### `Viewer`

State: `app` (what `App.tsx` keeps), `seen` (the same as last rendered),
`drawn` (what the effects told the canvas), `lastTap`, `button`, `panel`,
`flight` (maps asked for and not answered), and two counters.

| Action | Code |
|---|---|
| `Render` | one render: `GraphView`'s effects whose dependencies changed, then `App`'s, which may set state again |
| `Tap`, `TapBackground`, `SelectListed`, `Escape` | selection; `Tap` with a second quick tap toggles |
| `Trace`, `ClearTrace`, `ChooseLens`, `Search` | what is traced, shown, searched |
| `ToggleAll`, `VisitNext` | the fold button of `MapControls` and its loop |
| `OpenPanel`, `TypeKeys`, `Request`, `Answer`, `Fail`, `ClosePanel` | `DataSourcePanel`, whose inputs stay enabled while a request is under way; an answer goes to the application whatever became of the panel |

### Runs

| Run | Instance | Shows |
|---|---|---|
| `viewer` | two maps, three requests, one opening of the panel | `TypeOK`, `ParentsRemembered`, `HiddenInsideCollapsed`, `CanvasAgrees`, `FocusOnMap` |
| `double_tap` | the same | violated: `DoubleTapExpands` |

One map has three levels of containers, which folding inside and around needs;
the other has no container and a chain of two IAM edges, which a trace needs,
and shares the node `role` with the first, which a stale focus needs. Three
requests let an answer overtake another and come after the panel closed. No
fairness is assumed and no liveness claimed: all is up to the user and the
server. The deadlock check is off because an application whose first map failed
has nothing left to do within the bounds.

### What is proved

`ViewerProofs` proves for every set of maps and every bound, from
`CanvasAssumption` and `ViewerAssumption`:

- `FoldingLosesNothing`, `HiddenIsInside`: the canvas keeps `ParentsRemembered`
  and `HiddenInsideCollapsed` by itself;
- `ViewerUsesCanvas`: `Spec => CanvasSpec`, every step of the application is one
  of the canvas or none;
- `ViewerLosesNothing`, `ViewerHidesInside`: both carry over;
- `FocusStaysOnMap`: `FocusOnMap`;
- `ViewerTypes`, `CanvasFollowsApp`: `TypeOK` and `CanvasAgrees`. `TypeOK` says
  that parents are nodes of the map or none and that the lens is one of the
  three; it does not say that the map has edges for that lens, for a trace
  chooses `iam` whatever map there is (`App.tsx:40`).

Assumed: a map has finitely many nodes, its edges and findings are about them,
and the empty search is a search.

`CanvasInv` adds to `ParentsRemembered` that the folded and the pending nodes
are the map's. `FoldInv` is what makes the hidden nodes exact between two
actions: everything hidden is inside a folded container at all times (`Sound`);
the converse (`Full`) fails while "expand all" is under way, but then all that is
folded is still to be visited. Both need that what is below a container is what
has it among its containers (`BelowIsInside`, `InsideIsBelow`), an induction over
the waves of the search. The refinement needs no invariant: each action says what it does
to the canvas, and a double tap is the canvas's own. `AppInv` relates `app`,
`seen` and `flight`: loads are numbered, so an answer that is still in flight is
not the map shown, and while `app` and `seen` agree on the load the canvas is
that map's and the focus is on it; between them a render is due, which clears
the focus. `PanelInv` is about the panel and its requests. `DrawnInv` says that
the last render put all of `seen` on the canvas, whichever effects ran;
`ReachableIsClosure` makes the trace that is drawn all that can be reached.

Only model-checked: `DoubleTapExpands`, which is violated.

### What the violated run shows

The handler of a double tap asks whether the node has children before it
toggles. Folding has detached them, so a folded container never unfolds by
double tap, against `lib/collapse.ts:57`.

## 9. Users

### `Users`

State: `users` (the rows), `session` (which row a person's cookie names),
`flight` (a `PATCH /users` between its guard and its handler: the guard runs
when the request arrives, the handler when its body was read, and other requests
are handled in between), `mail` (the address the identity provider has),
`adminEmails` (the list the server was started with).

| Action | Code |
|---|---|
| `Login` | `upsertOnLogin`: `Touch` a row found by subject or else by address, or `Insert`; a unique address fails the statement |
| `SignedOut` | logout, or the cookie's age |
| `Arrive`, `Handle` | the `onRequest` guard, and the route's checks and updates |
| `Rename` | the provider; external |
| `Restart` | the server, perhaps with another `KUMOMIRU_ADMIN_EMAILS` |

### Run

`users`: two people, three addresses, a server with and without a list of
admins. It shows `OneRowEach` and `AdminRemains`. Two people are needed to
demote each other; a third address is what lets two exchange theirs. No fairness
and no liveness.

`AdminRemains` names the one exception of the code, a request whose sender lost
the role between guard and handler: two admins who demote each other at once
leave none, although `auth/index.ts:11-12` says that changes take effect
immediately. Nobody can appoint one then, short of a restart with a list.

### What is proved

`UsersProofs` proves both for every set of people, addresses and lists, from
`UsersAssumption`. The invariant `UsersInv` adds types to `OneRowEach`: rows are
a sequence, and a request in flight is about a row. `AnAdminRemains` then splits
on the one action that can take a role away, `Handle`: its sender is an enabled
admin and is refused what would lock himself out, so he remains, or he was
overtaken.

## 10. Observed, not run

Disagreements and oddities met in the source while modelling, which no run here
is about:

- Queue: two processes can both pass `enqueue`'s check, so an account can get
  two active scans, run one after the other (`repository.ts:99`). An account
  deleted and registered again can be scanned by two workers at once
  (`scheduler.ts:24-25`); `NoSharedLiveScan` is what holds instead.
- Findings: a revocation between a worker's read of the list and its reconcile
  is undone for that account until its next scan (`server/README.md:36`);
  `LapsedReopens` and `SuppressionsInForce` state it with that exception. A
  region whose pass failed has all its open findings resolved
  (`docs/cspm-roadmap.md:25-26`). Finding ids are 32-bit hashes.
- Scan run: a snapshot is served before its scan completes
  (`server/README.md:27`). An operator's `inactive` during a scan is undone when
  it finishes (`scan.ts:156`). Throttling in the global pass fails the scan. Two
  findings of Security Hub about one control and resource give two rows of one
  primary key, which fails the insert (`run.ts:60`), at every scan while they last.
- Organizations sync: its upsert writes `regions_json` and the role name it read
  before the call (`orgSync.ts:18-53`), over what an operator set meanwhile.
- Discovery: the main route table makes subnets public that are associated with
  another (`routing.ts:68-75`); a region listed twice in an account
  (`routes/accounts.ts:22`) is scanned twice; routes repeated in two tables give edges of one
  id, which `/map/live` answers with 422 (`routing.ts:45-58`). Namesakes in two
  regions share the ids of their edges, and one pair is not tied (`merge.ts:29`).
  A policy whose read is denied, or of a function or a secret for any reason not
  answered, is silently taken for none (`client.ts:391-402`, `:420-428`;
  `collectors-b.ts:461`, `:479`). A resource
  named after a sibling account lowers the severity of every outsider's finding
  about it, once that sibling reaches it (`stitch.ts:37`).
- IAM: a bare `"*"` in a trust policy is not read by the SDK client
  (`client.ts:615`), so a role that the whole world may assume has no finding; its
  conditions are dropped by the Terraform adapter. Neither reads a NotPrincipal
  there (`terraform/iam.ts:179`), nor holds a denial against an allowance. The last
  entry about a principal grades the finding, so an open trust followed by a
  gated one is `high` (`iam.ts:247`). A federated provider of the account itself
  is inside for `iam.ts` and outside for `resourceAccess.ts`.
- Users: `upsertOnLogin` finds a row by address and never updates its subject
  (`repository.ts:275`).
- Viewer: the fold button keeps its state when a new map comes; "collapse all"
  after an inner container was folded folds its parent too; tracing chooses the
  IAM lens although the map may have no IAM edges; the keys of a failed live
  request stay in the form; the late answer of a closed panel replaces a newer
  map.

## 11. What rests on what

Proved for every value of the constants: every safety property of every passing
run (invariants and the action properties `SeenGrows` and `AdminRemains`), and
the refinements of `ScanLedger` by the queue and of `MapCanvas` by the viewer.
Each rests on the assumption its module names and on nothing else; TLC evaluates
the assumptions on the instances of the runs.

Only model-checked: `EveryScanSettles`, `DueAccountIsScanned`, `LapsedReopens`
and `SecretsScrubbed`, because they need fairness, and ENABLED with it, which are
out of the prover's reach; and the four violated properties, which are refuted.

Not covered by a proof: that the tables of `CloudReads`, `RuleBook` and
`Discovery` are those of the code. Proofs hold of them as they are written here.

### Not modelled

- Graph schema and server shell: declarations and plumbing, without behaviour of
  their own.
- Diff, redaction and containment of graphs: pure functions of one or two graphs
  on which no other step depends.
- The Terraform adapter beyond its projection of trust policies: one pass over a
  state file, without state.
- The field mapping, paging and polling of the AWS clients; the predicates that
  turn ports, dates and documents into a fact; the catalogues of controls.
- Account columns, settings and the ExternalId that the Organizations sync
  writes, and the read routes of the server.
- The viewer's layout, styles and camera; the OIDC exchange and the signatures of
  cookies.
