------------------------------ MODULE Scheduler ------------------------------
(***************************************************************************)
(* The scan queue of kumomiru: the accounts, scans and worker_leases       *)
(* tables of the shared SQLite file, the worker processes that tick over   *)
(* it and the API server that registers, deletes and enqueues.             *)
(*                                                                         *)
(* A step is one SQL statement or one transaction, with the process-local  *)
(* work up to the next one.  JavaScript between two awaits is atomic only  *)
(* inside its own process: any other process may run between two           *)
(* statements.  The scan itself (jobs/scan.ts) appears here by the writes  *)
(* it makes to these tables.                                               *)
(***************************************************************************)
EXTENDS Naturals, FiniteSets

CONSTANTS
  Workers,     \* worker ids, each also the identity a restart comes back with
  Mortal,      \* the workers that may crash or be stopped
  Accounts,    \* AWS account ids; `ORDER BY id` makes them ordered
  OrgMembers,  \* the ACTIVE accounts the Organizations API lists
  ScanIds,     \* bound: the scans that can ever be enqueued
  MaxClock,    \* bound: the last instant
  LeaseTtl,    \* leaseTtlMs
  CronPeriod,  \* the schedule of every account: due at each multiple of it
  NoWorker     \* no holder, no worker_id

NoAccount == 0
NoScan == 0
Never == 0     \* a NULL timestamp; the clock starts at 1

ASSUME SchedulerAssumption ==
  /\ Mortal \subseteq Workers
  /\ Accounts \subseteq Nat \ {NoAccount}
  /\ OrgMembers \subseteq Accounts
  /\ ScanIds \subseteq Nat \ {NoScan}
  /\ MaxClock \in Nat
  /\ LeaseTtl \in Nat \ {0}
  /\ CronPeriod \in Nat \ {0}
  /\ NoWorker \notin Workers

VARIABLES
  clock,     \* wall-clock time
  accounts,  \* accounts.status, "absent" for no row
  scans,     \* the scans table, by id in insertion order
  lease,     \* the worker_leases row named "scheduler"
  workers,   \* the stack of each worker process
  api,       \* the server's POST /accounts/:id/scans between check and insert
  lost       \* history: scans whose worker process ended while it ran them

vars == <<clock, accounts, scans, lease, workers, api, lost>>

-----------------------------------------------------------------------------
AccountStatus == {"pending", "active", "inactive"}
\* "scan" stands for the triggers schedule and manual, which differ in nothing
\* here, and "ok" for ok and partial, which the run tells apart.
Triggers == {"scan", "verify"}
Terminal == {"ok", "failed"}

NoRow(status) ==
  [account |-> NoAccount, status |-> status, trigger |-> "none",
   started |-> Never, worker |-> NoWorker]
QueuedRow(a, t) ==
  [account |-> a, status |-> "queued", trigger |-> t,
   started |-> Never, worker |-> NoWorker]

FreeLease == [holder |-> NoWorker, expires |-> Never]
NoRequest == [account |-> NoAccount, trigger |-> "none"]

\* A worker between ticks: no locals.
Idle ==
  [pc |-> "idle", now |-> Never, todo |-> {},
   scan |-> NoScan, account |-> NoAccount, trigger |-> "none", seen |-> "none"]

\* Where a worker runs under the lease, and where it runs a claimed scan that
\* it has not finished.
SchedulingPcs == {"listing", "sync", "syncCheck", "syncInsert",
                  "list", "enqueue", "insert"}
ScanningPcs == {"claimed", "running", "verified", "persisted"}
Pcs == {"down", "idle", "drain", "finished"} \cup SchedulingPcs \cup ScanningPcs

Scheduling(w) == workers[w].pc \in SchedulingPcs
Scanning(w) == workers[w].pc \in ScanningPcs

Active(a) == {s \in ScanIds : /\ scans[s].account = a
                              /\ scans[s].status \in {"queued", "running"}}
Running(a) == {s \in ScanIds : /\ scans[s].account = a
                               /\ scans[s].status = "running"}

\* The next cron occurrence strictly after t.
NextRun(t) == (t \div CronPeriod + 1) * CronPeriod

\* Never started, or the next occurrence after the last start has come.
Due(a, now) ==
  \A s \in ScanIds :
    (scans[s].account = a /\ scans[s].started # Never)
      => NextRun(scans[s].started) <= now

\* randomUUID, as the next unused id.
Fresh(s) ==
  /\ scans[s].status = "unused"
  /\ \A r \in ScanIds : scans[r].status = "unused" => s <= r

\* Bound: another row can still be inserted for every handler about to insert.
Room ==
  Cardinality({s \in ScanIds : scans[s].status = "unused"})
    > Cardinality({w \in Workers : workers[w].pc \in {"insert", "syncInsert"}})
        + (IF api = NoRequest THEN 0 ELSE 1)

\* The scans rows after account a's row is gone (ON DELETE CASCADE).
Cascade(a) ==
  [s \in ScanIds |-> IF scans[s].account = a THEN NoRow("deleted") ELSE scans[s]]

\* Mutant of Finish: the row is written back whole, deleted or not.
FinishUpserts(s, status) == scans' = [scans EXCEPT ![s].status = status]

\* scans.finish: an UPDATE by id, which touches nothing when the row is gone.
Finish(s, status) ==
  scans' = [scans EXCEPT ![s].status = IF @ = "deleted" THEN @ ELSE status]

\* accounts.setStatus(a, "active"): an UPDATE too.
Activate(a) ==
  accounts' = [accounts EXCEPT ![a] = IF @ = "absent" THEN @ ELSE "active"]

\* The account the worker's loop is at: accounts.list() is ordered by id.
Current(w, a) == a \in workers[w].todo /\ \A b \in workers[w].todo : a <= b
Goto(w, pc) == workers' = [workers EXCEPT ![w].pc = pc]
Advance(w, a, pc) ==
  workers' = [workers EXCEPT ![w].pc = pc, ![w].todo = @ \ {a}]

Init ==
  /\ clock = 1
  /\ accounts = [a \in Accounts |-> "absent"]
  /\ scans = [s \in ScanIds |-> NoRow("unused")]
  /\ lease = FreeLease
  /\ workers = [w \in Workers |-> [Idle EXCEPT !.pc = "down"]]
  /\ api = NoRequest
  /\ lost = {}

Tick ==
  /\ clock < MaxClock
  /\ clock' = clock + 1
  /\ UNCHANGED <<accounts, scans, lease, workers, api, lost>>

-----------------------------------------------------------------------------
(* The API server: one process, handlers without an await, so none of them *)
(* runs between the check and the insert of another.                       *)

\* POST /accounts: accounts.upsert with the given status or none.
PostAccount(a, given) ==
  /\ api = NoRequest
  /\ accounts' = [accounts EXCEPT ![a] =
                    CASE given # "omitted" -> given
                      [] given = "omitted" /\ @ = "absent" -> "pending"
                      [] OTHER -> @]
  /\ UNCHANGED <<clock, scans, lease, workers, api, lost>>

\* DELETE /accounts/:id.
DeleteAccount(a) ==
  /\ api = NoRequest
  /\ accounts[a] # "absent"
  /\ accounts' = [accounts EXCEPT ![a] = "absent"]
  /\ scans' = Cascade(a)
  /\ UNCHANGED <<clock, lease, workers, api, lost>>

\* POST /accounts/:id/scans up to enqueue's `active.get`: with an active scan
\* the handler answers with that one and writes nothing.
PostScan(a, t) ==
  /\ api = NoRequest
  /\ accounts[a] # "absent"
  /\ Active(a) = {}
  /\ Room
  /\ api' = [account |-> a, trigger |-> t]
  /\ UNCHANGED <<clock, accounts, scans, lease, workers, lost>>

\* ... and its INSERT.
InsertScan ==
  /\ api # NoRequest
  /\ \E s \in ScanIds :
       /\ Fresh(s)
       /\ scans' = [scans EXCEPT ![s] = QueuedRow(api.account, api.trigger)]
  /\ api' = NoRequest
  /\ UNCHANGED <<clock, accounts, lease, workers, lost>>

Server ==
  \/ InsertScan
  \/ \E a \in Accounts :
       \/ \E given \in AccountStatus \cup {"omitted"} : PostAccount(a, given)
       \/ DeleteAccount(a)
       \/ \E t \in Triggers : PostScan(a, t)

-----------------------------------------------------------------------------
(* Scheduler.tick, first half: enqueue under the lease.                    *)

Start(w) ==
  /\ workers[w].pc = "down"
  /\ Goto(w, "idle")
  /\ UNCHANGED <<clock, accounts, scans, lease, api, lost>>

\* Mutant of LeaseFreeFor: the lease is taken one instant too early.
LeaseFreeEarlyFor(w) == lease.holder \in {NoWorker, w} \/ lease.expires <= clock + 1

LeaseFreeFor(w) == lease.holder \in {NoWorker, w} \/ lease.expires <= clock

\* leases.acquire, then `now`; the Organizations sync runs first when it is due.
TickWithLease(w) ==
  /\ workers[w].pc = "idle"
  /\ LeaseFreeFor(w)
  /\ lease' = [holder |-> w, expires |-> clock + LeaseTtl]
  /\ \E pc \in {"listing", "list"} :
       workers' = [workers EXCEPT ![w].pc = pc, ![w].now = clock]
  /\ UNCHANGED <<clock, accounts, scans, api, lost>>

TickWithoutLease(w) ==
  /\ workers[w].pc = "idle"
  /\ ~LeaseFreeFor(w)
  /\ Goto(w, "drain")
  /\ UNCHANGED <<clock, accounts, scans, lease, api, lost>>

\* organizations.listAccounts answers with the members or throws.
OrgList(w) ==
  /\ workers[w].pc = "listing"
  /\ \/ workers' = [workers EXCEPT ![w].pc = "sync", ![w].todo = OrgMembers]
     \/ Goto(w, "list")
  /\ UNCHANGED <<clock, accounts, scans, lease, api, lost>>

\* accounts.upsert of the next member: a new one is pending, an old one keeps
\* its status.
SyncUpsert(w) ==
  /\ workers[w].pc = "sync"
  /\ \E a \in Accounts :
       /\ Current(w, a)
       /\ accounts' = [accounts EXCEPT ![a] = IF @ = "absent" THEN "pending" ELSE @]
  /\ Goto(w, "syncCheck")
  /\ UNCHANGED <<clock, scans, lease, api, lost>>

\* accounts.get again and scans.active; a row deleted meanwhile throws on the
\* null it left, which ends the sync and not the tick.
SyncCheck(w) ==
  /\ workers[w].pc = "syncCheck"
  /\ \E a \in Accounts :
       /\ Current(w, a)
       /\ CASE accounts[a] = "absent" ->
                 workers' = [workers EXCEPT ![w].pc = "list", ![w].todo = {}]
            [] accounts[a] = "pending" /\ Active(a) = {} /\ Room ->
                 Goto(w, "syncInsert")
            [] OTHER -> Advance(w, a, "sync")
  /\ UNCHANGED <<clock, accounts, scans, lease, api, lost>>

\* The INSERT of a verify scan, or its foreign-key error.
SyncInsert(w) ==
  /\ workers[w].pc = "syncInsert"
  /\ \E a \in Accounts :
       /\ Current(w, a)
       /\ IF accounts[a] = "absent"
            THEN /\ workers' = [workers EXCEPT ![w].pc = "list", ![w].todo = {}]
                 /\ UNCHANGED scans
            ELSE /\ Advance(w, a, "sync")
                 /\ \E s \in ScanIds :
                      /\ Fresh(s)
                      /\ scans' = [scans EXCEPT ![s] = QueuedRow(a, "verify")]
  /\ UNCHANGED <<clock, accounts, lease, api, lost>>

SyncDone(w) ==
  /\ workers[w].pc = "sync"
  /\ workers[w].todo = {}
  /\ Goto(w, "list")
  /\ UNCHANGED <<clock, accounts, scans, lease, api, lost>>

\* accounts.list(): the loop works on the statuses of this instant.
TickList(w) ==
  /\ workers[w].pc = "list"
  /\ workers' = [workers EXCEPT ![w].pc = "enqueue",
                                ![w].todo = {a \in Accounts : accounts[a] = "active"}]
  /\ UNCHANGED <<clock, accounts, scans, lease, api, lost>>

\* Mutant of TickCheck: any scan of the account stands in the way, ended or not.
TickCheckAnyScan(w) ==
  /\ workers[w].pc = "enqueue"
  /\ \E a \in Accounts :
       /\ Current(w, a)
       /\ IF (\A s \in ScanIds : scans[s].account # a) /\ Due(a, workers[w].now) /\ Room
            THEN Goto(w, "insert")
            ELSE Advance(w, a, "enqueue")
  /\ UNCHANGED <<clock, accounts, scans, lease, api, lost>>

\* scans.active, isDue and enqueue's own check.
TickCheck(w) ==
  /\ workers[w].pc = "enqueue"
  /\ \E a \in Accounts :
       /\ Current(w, a)
       /\ IF Active(a) = {} /\ Due(a, workers[w].now) /\ Room
            THEN Goto(w, "insert")
            ELSE Advance(w, a, "enqueue")
  /\ UNCHANGED <<clock, accounts, scans, lease, api, lost>>

\* The INSERT, or its foreign-key error, which ends the whole tick.
TickInsert(w) ==
  /\ workers[w].pc = "insert"
  /\ \E a \in Accounts :
       /\ Current(w, a)
       /\ IF accounts[a] = "absent"
            THEN /\ workers' = [workers EXCEPT ![w] = Idle]
                 /\ UNCHANGED scans
            ELSE /\ Advance(w, a, "enqueue")
                 /\ \E s \in ScanIds :
                      /\ Fresh(s)
                      /\ scans' = [scans EXCEPT ![s] = QueuedRow(a, "scan")]
  /\ UNCHANGED <<clock, accounts, lease, api, lost>>

EnqueueDone(w) ==
  /\ workers[w].pc = "enqueue"
  /\ workers[w].todo = {}
  /\ workers' = [workers EXCEPT ![w] = [Idle EXCEPT !.pc = "drain"]]
  /\ UNCHANGED <<clock, accounts, scans, lease, api, lost>>

-----------------------------------------------------------------------------
(* Scheduler.tick, second half: claim and run until nothing is claimable.  *)

\* Mutant of Claimable: without the NOT EXISTS of nextQueued.
AnyQueued == {s \in ScanIds : scans[s].status = "queued"}

Claimable == {s \in ScanIds : /\ scans[s].status = "queued"
                              /\ Running(scans[s].account) = {}}

\* scans.claimNext, one transaction.
Claim(w) ==
  /\ workers[w].pc = "drain"
  /\ \E s \in Claimable :
       /\ \A r \in Claimable : s <= r
       /\ scans' = [scans EXCEPT ![s].status = "running",
                                 ![s].started = clock, ![s].worker = w]
       /\ workers' = [workers EXCEPT ![w] =
                        [Idle EXCEPT !.pc = "claimed", !.scan = s,
                                     !.account = scans[s].account,
                                     !.trigger = scans[s].trigger]]
  /\ UNCHANGED <<clock, accounts, lease, api, lost>>

DrainDone(w) ==
  /\ workers[w].pc = "drain"
  /\ Claimable = {}
  /\ Goto(w, "idle")
  /\ UNCHANGED <<clock, accounts, scans, lease, api, lost>>

\* The worker is done with its scan and goes for the next.
Drain(w) == workers' = [workers EXCEPT ![w] = [Idle EXCEPT !.pc = "drain"]]

\* Mutant of LoadAccount: without the check that the account exists.
LoadAccountUnchecked(w) ==
  /\ workers[w].pc = "claimed"
  /\ workers' = [workers EXCEPT ![w].pc = "running",
                                ![w].seen = accounts[workers[w].account]]
  /\ UNCHANGED <<clock, accounts, scans, lease, api, lost>>

\* accounts.get: the record runScan keeps to its end.
LoadAccount(w) ==
  /\ workers[w].pc = "claimed"
  /\ accounts[workers[w].account] # "absent"
  /\ workers' = [workers EXCEPT ![w].pc = "running",
                                ![w].seen = accounts[workers[w].account]]
  /\ UNCHANGED <<clock, accounts, scans, lease, api, lost>>

AccountGone(w) ==
  /\ workers[w].pc = "claimed"
  /\ accounts[workers[w].account] = "absent"
  /\ Finish(workers[w].scan, "failed")
  /\ Drain(w)
  /\ UNCHANGED <<clock, accounts, lease, api, lost>>

\* Mutant of RunFail: the catch logs and does not finish the scan.
RunFailLogs(w) ==
  /\ workers[w].pc \in {"running", "persisted"}
  /\ Drain(w)
  /\ UNCHANGED <<clock, accounts, scans, lease, api, lost>>

\* Any failure before finish: the role, the regions, the global pass, a verify
\* that lands in another account, graph integrity, a write that throws.
RunFail(w) ==
  /\ workers[w].pc \in {"running", "persisted"}
  /\ Finish(workers[w].scan, "failed")
  /\ Drain(w)
  /\ UNCHANGED <<clock, accounts, lease, api, lost>>

\* A verify in the right account: setStatus, then finish.
VerifyActivate(w) ==
  /\ workers[w].pc = "running"
  /\ workers[w].trigger = "verify"
  /\ Activate(workers[w].account)
  /\ Goto(w, "verified")
  /\ UNCHANGED <<clock, scans, lease, api, lost>>

\* Mutant of VerifyFinish: the verify returns once the account is active.
VerifyReturns(w) ==
  /\ workers[w].pc = "verified"
  /\ Drain(w)
  /\ UNCHANGED <<clock, accounts, scans, lease, api, lost>>

VerifyFinish(w) ==
  /\ workers[w].pc = "verified"
  /\ Finish(workers[w].scan, "ok")
  /\ Drain(w)
  /\ UNCHANGED <<clock, accounts, lease, api, lost>>

\* snapshots.insert, whose foreign keys need the scan's row.
Persist(w) ==
  /\ workers[w].pc = "running"
  /\ workers[w].trigger # "verify"
  /\ scans[workers[w].scan].status # "deleted"
  /\ Goto(w, "persisted")
  /\ UNCHANGED <<clock, accounts, scans, lease, api, lost>>

RunFinish(w) ==
  /\ workers[w].pc = "persisted"
  /\ Finish(workers[w].scan, "ok")
  /\ Goto(w, "finished")
  /\ UNCHANGED <<clock, accounts, lease, api, lost>>

\* `if (account.status !== "active")`, on the record read before the run.
RunActivate(w) ==
  /\ workers[w].pc = "finished"
  /\ IF workers[w].seen # "active" THEN Activate(workers[w].account)
                                   ELSE UNCHANGED accounts
  /\ Drain(w)
  /\ UNCHANGED <<clock, scans, lease, api, lost>>

-----------------------------------------------------------------------------
(* The end of a worker process.  Nothing ever looks at a running scan again. *)

Vanish(w) ==
  /\ workers' = [workers EXCEPT ![w] = [Idle EXCEPT !.pc = "down"]]
  /\ lost' = IF Scanning(w) THEN lost \cup {workers[w].scan} ELSE lost

\* Between any two statements.
Crash(w) ==
  /\ w \in Mortal
  /\ workers[w].pc # "down"
  /\ Vanish(w)
  /\ UNCHANGED <<clock, accounts, scans, lease, api>>

\* SIGTERM, served where the worker awaits: release the lease, exit(0).
Stop(w) ==
  /\ w \in Mortal
  /\ workers[w].pc \in {"idle", "listing", "running"}
  /\ lease' = IF lease.holder = w THEN FreeLease ELSE lease
  /\ Vanish(w)
  /\ UNCHANGED <<clock, accounts, scans, api>>

WorkerStep(w) ==
  \/ Start(w)
  \/ TickWithLease(w) \/ TickWithoutLease(w)
  \/ OrgList(w) \/ SyncUpsert(w) \/ SyncCheck(w) \/ SyncInsert(w) \/ SyncDone(w)
  \/ TickList(w) \/ TickCheck(w) \/ TickInsert(w) \/ EnqueueDone(w)
  \/ Claim(w) \/ DrainDone(w) \/ LoadAccount(w) \/ AccountGone(w)
  \/ RunFail(w) \/ VerifyActivate(w) \/ VerifyFinish(w)
  \/ Persist(w) \/ RunFinish(w) \/ RunActivate(w)

Next ==
  \/ Tick
  \/ Server
  \/ \E w \in Workers : WorkerStep(w) \/ Crash(w) \/ Stop(w)

Spec == Init /\ [][Next]_vars

\* setInterval keeps every worker ticking, each AWS call answers or fails, and
\* a handler that started ends.
Fairness == /\ WF_vars(InsertScan)
            /\ \A w \in Workers : WF_vars(WorkerStep(w))

FairSpec == Spec /\ Fairness

-----------------------------------------------------------------------------
(* Properties.                                                             *)

Row == [account : Accounts \cup {NoAccount},
        status  : {"unused", "queued", "running", "deleted"} \cup Terminal,
        trigger : Triggers \cup {"none"},
        started : Nat,
        worker  : Workers \cup {NoWorker}]

Process == [pc      : Pcs,
            now     : Nat,
            todo    : SUBSET Accounts,
            scan    : ScanIds \cup {NoScan},
            account : Accounts \cup {NoAccount},
            trigger : Triggers \cup {"none"},
            seen    : AccountStatus \cup {"none"}]

TypeOK ==
  /\ clock \in Nat
  /\ accounts \in [Accounts -> AccountStatus \cup {"absent"}]
  /\ scans \in [ScanIds -> Row]
  /\ lease \in [holder : Workers \cup {NoWorker}, expires : Nat]
  /\ workers \in [Workers -> Process]
  /\ api \in [account : Accounts \cup {NoAccount}, trigger : Triggers \cup {"none"}]
  /\ lost \subseteq ScanIds

\* Every row of an account that is being scanned belongs to exactly one
\* process: the worker the row names, which runs that very scan, unless that
\* process ended.  Neither a second claim, nor a restart under the same id, nor
\* a delete and re-register of the account may leave a running row that no
\* process will ever finish.
RunningRowIsHeld ==
  \A s \in ScanIds :
    scans[s].status = "running" =>
      \/ s \in lost
      \/ /\ scans[s].worker \in Workers
         /\ Scanning(scans[s].worker)
         /\ workers[scans[s].worker].scan = s

\* Two workers may be busy with one account only when at least one of them
\* works for a scan that was deleted with its account: what the claim
\* transaction, the cascade and finish guarantee together.
NoSharedLiveScan ==
  \A v, w \in Workers :
    (v # w /\ Scanning(v) /\ Scanning(w) /\ workers[v].account = workers[w].account)
      => \/ scans[workers[v].scan].status = "deleted"
         \/ scans[workers[w].scan].status = "deleted"

\* Of two workers in the enqueueing half of their ticks, one has overrun its
\* lease: acquire never grants a lease that its holder can still rely on, a
\* crash and a restart included.
LeaseExclusive ==
  \A v, w \in Workers :
    (v # w /\ Scheduling(v) /\ Scheduling(w))
      => \/ workers[v].now + LeaseTtl <= clock
         \/ workers[w].now + LeaseTtl <= clock

\* The queue keeps the promises of ScanLedger: claimed once, finished once and
\* only by the run that claimed it, never two in flight for an account.
Phase(status) ==
  CASE status = "unused" -> "none"
    [] status = "deleted" -> "purged"
    [] status \in Terminal -> "closed"
    [] OTHER -> status
LedgerView ==
  [s \in ScanIds |-> [account |-> scans[s].account, phase |-> Phase(scans[s].status)]]
Ledger == INSTANCE ScanLedger WITH ledger <- LedgerView
LedgerSpec == Ledger!Spec

\* Operators delete finitely often.  Without it one account that is deleted
\* and registered again under every tick's loop starves all the others: the
\* foreign-key error of its insert ends the tick before the queue is drained.
DeletesEnd ==
  <>[][\A a \in Accounts : accounts[a] # "absent" => accounts'[a] # "absent"]_vars

\* While workers live and deletes end, every scan that was queued ends, or
\* goes with its account.
EveryScanSettles ==
  DeletesEnd =>
    \A s \in ScanIds :
      scans[s].status = "queued" ~> scans[s].status \in Terminal \cup {"deleted"}

\* While a worker lives and deletes end, an active account whose schedule is
\* due gets a scan, unless it stops being active (or ScanIds are used up).
DueAccountIsScanned ==
  DeletesEnd =>
    \A a \in Accounts :
      (accounts[a] = "active" /\ Due(a, clock) /\ Active(a) = {} /\ Room)
        ~> (Active(a) # {} \/ accounts[a] # "active" \/ ~Room)

-----------------------------------------------------------------------------
(* What the documentation says and the code does not do.                   *)

\* README.md:79: "Once verified the account is `active` and scans run on
\* schedule".  Even when no worker ends any more and nothing is deleted, an
\* active account that is due must be claimed again (or leave "active").
WorkersStayUp ==
  <>[][\A w \in Workers : workers[w].pc # "down" => workers'[w].pc # "down"]_vars

ScansRunOnSchedule ==
  (DeletesEnd /\ WorkersStayUp) =>
    \A a \in Accounts :
      (accounts[a] = "active" /\ Due(a, clock))
        ~> (~Due(a, clock) \/ accounts[a] # "active" \/ ~Room)
=============================================================================
