--------------------------- MODULE SchedulerProofs ---------------------------
(***************************************************************************)
(* Theorems of Scheduler for every set of workers, accounts and scans,     *)
(* every lease time and every schedule.                                    *)
(***************************************************************************)
EXTENDS Scheduler, TLAPS

-----------------------------------------------------------------------------
(* The inductive invariant.  RunningRowIsHeld alone is not inductive: a     *)
(* finish changes the row the worker remembers, so the invariant must also *)
(* say that this row is either the worker's own or deleted, and that the   *)
(* ids the processes remember are still those of rows that can exist.      *)

\* Rows and processes refer to accounts; a row that exists refers to an
\* account that exists.
ForeignKeys ==
  /\ \A s \in ScanIds :
       IF scans[s].status \in {"unused", "deleted"}
         THEN scans[s].account = NoAccount
         ELSE scans[s].account \in Accounts /\ accounts[scans[s].account] # "absent"
  /\ api # NoRequest => api.account \in Accounts /\ accounts[api.account] # "absent"
  /\ \A w \in Workers :
       workers[w].pc \in ScanningPcs \cup {"finished"} => workers[w].account \in Accounts

\* What a worker may rely on while it runs a scan.
HeldRows ==
  \A w \in Workers :
    Scanning(w) =>
      /\ workers[w].scan \in ScanIds
      /\ \/ scans[workers[w].scan].status = "deleted"
         \/ /\ scans[workers[w].scan].status = "running"
            /\ scans[workers[w].scan].account = workers[w].account
            /\ scans[workers[w].scan].worker = w

\* The table never shows two running scans of one account.
OneRunning ==
  \A s, t \in ScanIds :
    (/\ scans[s].status = "running" /\ scans[t].status = "running"
     /\ scans[s].account = scans[t].account) => s = t

\* A worker that enqueues still holds the lease, or has overrun it.
LeaseHeld ==
  \A w \in Workers :
    Scheduling(w) =>
      \/ workers[w].now + LeaseTtl <= clock
      \/ lease = [holder |-> w, expires |-> workers[w].now + LeaseTtl]

IInv == TypeOK /\ ForeignKeys /\ HeldRows /\ RunningRowIsHeld /\ OneRunning /\ LeaseHeld

-----------------------------------------------------------------------------
(* Types.                                                                  *)

\* A scans table stays one after an insert, a claim, a finish or a cascade.
LEMMA RowTypes ==
  ASSUME SchedulerAssumption
  PROVE  /\ NoRow("unused") \in Row
         /\ NoRow("deleted") \in Row
         /\ \A a \in Accounts, t \in Triggers : QueuedRow(a, t) \in Row
         /\ Idle \in Process
         /\ [Idle EXCEPT !.pc = "down"] \in Process
         /\ [Idle EXCEPT !.pc = "drain"] \in Process
  BY DEF NoRow, QueuedRow, Row, Idle, Process, Pcs, SchedulingPcs, ScanningPcs,
         Triggers, Terminal, AccountStatus, NoAccount, NoScan, Never

LEMMA InitTypeOK ==
  ASSUME SchedulerAssumption, Init
  PROVE  TypeOK
  BY RowTypes DEF Init, TypeOK, SchedulerAssumption, FreeLease, NoRequest, Never, NoAccount

LEMMA FinishTypeOK ==
  ASSUME TypeOK, NEW s \in ScanIds \cup {NoScan}, NEW status \in Terminal,
         Finish(s, status)
  PROVE  scans' \in [ScanIds -> Row]
  <1>1. \A r \in Row, st \in Terminal \cup {"deleted"} : [r EXCEPT !.status = st] \in Row
    BY DEF Row
  <1>2. CASE s \in ScanIds
    <2>1. scans[s] \in Row
      BY <1>2 DEF TypeOK
    <2>2. PICK st \in Terminal \cup {"deleted"} :
            scans' = [scans EXCEPT ![s] = [scans[s] EXCEPT !.status = st]]
      BY DEF Finish
    <2>3. QED
      BY <1>1, <1>2, <2>1, <2>2 DEF TypeOK
  <1>3. CASE s \notin ScanIds
    BY <1>3 DEF Finish, TypeOK
  <1>4. QED
    BY <1>2, <1>3

\* Whatever a step does to one worker, it leaves a table of processes.
LEMMA WorkerTypes ==
  ASSUME SchedulerAssumption, TypeOK, NEW w \in Workers
  PROVE  /\ \A pc \in Pcs : Goto(w, pc) => workers' \in [Workers -> Process]
         /\ \A pc \in Pcs, a \in Accounts :
              Advance(w, a, pc) => workers' \in [Workers -> Process]
         /\ \A pc \in Pcs, todo \in SUBSET Accounts :
              workers' = [workers EXCEPT ![w].pc = pc, ![w].todo = todo]
                => workers' \in [Workers -> Process]
         /\ \A p \in Process :
              workers' = [workers EXCEPT ![w] = p] => workers' \in [Workers -> Process]
  <1>1. workers[w] \in Process /\ workers \in [Workers -> Process]
    BY DEF TypeOK
  <1>2. \A p \in Process, pc \in Pcs, todo \in SUBSET Accounts :
          /\ [p EXCEPT !.pc = pc] \in Process
          /\ [p EXCEPT !.pc = pc, !.todo = todo] \in Process
          /\ p.todo \in SUBSET Accounts
    BY DEF Process
  <1>3. \A p \in Process :
          workers' = [workers EXCEPT ![w] = p] => workers' \in [Workers -> Process]
    BY <1>1
  <1>4. ASSUME NEW pc \in Pcs, Goto(w, pc)
        PROVE  workers' \in [Workers -> Process]
    BY <1>1, <1>2, <1>4 DEF Goto
  <1>5. ASSUME NEW pc \in Pcs, NEW todo \in SUBSET Accounts,
               workers' = [workers EXCEPT ![w].pc = pc, ![w].todo = todo]
        PROVE  workers' \in [Workers -> Process]
    BY <1>1, <1>2, <1>5
  <1>6. ASSUME NEW pc \in Pcs, NEW a \in Accounts, Advance(w, a, pc)
        PROVE  workers' \in [Workers -> Process]
    <2>1. workers[w].todo \ {a} \in SUBSET Accounts
      BY <1>1, <1>2
    <2>2. workers' = [workers EXCEPT ![w].pc = pc, ![w].todo = workers[w].todo \ {a}]
      BY <1>6 DEF Advance
    <2>3. QED
      BY <1>5, <2>1, <2>2
  <1>7. QED
    BY <1>3, <1>4, <1>5, <1>6

LEMMA ServerTypeOK ==
  ASSUME SchedulerAssumption, TypeOK, Server
  PROVE  TypeOK'
  <1>1. CASE InsertScan
    <2>1. PICK s \in ScanIds :
            scans' = [scans EXCEPT ![s] = QueuedRow(api.account, api.trigger)]
      BY <1>1 DEF InsertScan
    <2>2. QueuedRow(api.account, api.trigger) \in Row
      BY DEF TypeOK, QueuedRow, Row, Never
    <2>3. scans' \in [ScanIds -> Row]
      BY <2>1, <2>2 DEF TypeOK
    <2>4. QED
      BY <1>1, <2>3 DEF InsertScan, TypeOK, NoRequest
  <1>2. ASSUME NEW a \in Accounts, NEW given \in AccountStatus \cup {"omitted"},
               PostAccount(a, given)
        PROVE  TypeOK'
    <2>1. accounts' \in [Accounts -> AccountStatus \cup {"absent"}]
      BY <1>2 DEF PostAccount, TypeOK, AccountStatus
    <2>2. QED
      BY <1>2, <2>1 DEF PostAccount, TypeOK
  <1>3. ASSUME NEW a \in Accounts, DeleteAccount(a)
        PROVE  TypeOK'
    <2>1. scans' \in [ScanIds -> Row]
      BY <1>3, RowTypes DEF DeleteAccount, Cascade, TypeOK
    <2>2. QED
      BY <1>3, <2>1 DEF DeleteAccount, TypeOK
  <1>4. ASSUME NEW a \in Accounts, NEW t \in Triggers, PostScan(a, t)
        PROVE  TypeOK'
    BY <1>4 DEF PostScan, TypeOK
  <1>5. QED
    BY <1>1, <1>2, <1>3, <1>4 DEF Server

\* The enqueueing half of a tick.
LEMMA EnqueueTypeOK ==
  ASSUME SchedulerAssumption, TypeOK, NEW w \in Workers,
         \/ Start(w) \/ TickWithLease(w) \/ TickWithoutLease(w)
         \/ OrgList(w) \/ SyncUpsert(w) \/ SyncCheck(w) \/ SyncInsert(w) \/ SyncDone(w)
         \/ TickList(w) \/ TickCheck(w) \/ TickInsert(w) \/ EnqueueDone(w)
  PROVE  TypeOK'
  <1> USE DEF Pcs, SchedulingPcs
  <1>1. CASE Start(w)
    BY <1>1, WorkerTypes DEF Start, TypeOK
  <1>2. CASE TickWithLease(w)
    <2>1. PICK pc \in {"listing", "list"} :
            workers' = [workers EXCEPT ![w].pc = pc, ![w].now = clock]
      BY <1>2 DEF TickWithLease
    <2>2. \A p \in Process, n \in Nat : [p EXCEPT !.pc = pc, !.now = n] \in Process
      BY DEF Process
    <2>3. workers' \in [Workers -> Process]
      BY <2>1, <2>2 DEF TypeOK
    <2>4. clock + LeaseTtl \in Nat
      BY DEF TypeOK, SchedulerAssumption
    <2>5. QED
      BY <1>2, <2>3, <2>4 DEF TickWithLease, TypeOK
  <1>3. CASE TickWithoutLease(w)
    BY <1>3, WorkerTypes DEF TickWithoutLease, TypeOK
  <1>4. CASE OrgList(w)
    BY <1>4, WorkerTypes DEF OrgList, TypeOK, SchedulerAssumption
  <1>5. CASE SyncUpsert(w)
    <2>1. accounts' \in [Accounts -> AccountStatus \cup {"absent"}]
      BY <1>5 DEF SyncUpsert, TypeOK, AccountStatus
    <2>2. QED
      BY <1>5, <2>1, WorkerTypes DEF SyncUpsert, TypeOK
  <1>6. CASE SyncCheck(w)
    <2>1. PICK a \in Accounts :
            \/ workers' = [workers EXCEPT ![w].pc = "list", ![w].todo = {}]
            \/ Goto(w, "syncInsert")
            \/ Advance(w, a, "sync")
      BY <1>6 DEF SyncCheck
    <2>2. workers' \in [Workers -> Process]
      <3>1. {} \in SUBSET Accounts
        OBVIOUS
      <3>2. QED
        BY <2>1, <3>1, WorkerTypes
    <2>3. QED
      BY <1>6, <2>2 DEF SyncCheck, TypeOK
  <1>7. CASE SyncInsert(w)
    <2>1. PICK a \in Accounts :
            \/ /\ workers' = [workers EXCEPT ![w].pc = "list", ![w].todo = {}]
               /\ UNCHANGED scans
            \/ /\ Advance(w, a, "sync")
               /\ \E s \in ScanIds : scans' = [scans EXCEPT ![s] = QueuedRow(a, "verify")]
      BY <1>7 DEF SyncInsert
    <2>2. QueuedRow(a, "verify") \in Row
      BY RowTypes DEF Triggers
    <2>3. scans' \in [ScanIds -> Row]
      BY <2>1, <2>2 DEF TypeOK
    <2>4. workers' \in [Workers -> Process]
      <3>1. {} \in SUBSET Accounts
        OBVIOUS
      <3>2. QED
        BY <2>1, <3>1, WorkerTypes
    <2>5. QED
      BY <1>7, <2>3, <2>4 DEF SyncInsert, TypeOK
  <1>8. CASE SyncDone(w)
    BY <1>8, WorkerTypes DEF SyncDone, TypeOK
  <1>9. CASE TickList(w)
    <2>1. {a \in Accounts : accounts[a] = "active"} \in SUBSET Accounts
      OBVIOUS
    <2>2. workers' \in [Workers -> Process]
      BY <1>9, <2>1, WorkerTypes DEF TickList
    <2>3. QED
      BY <1>9, <2>2 DEF TickList, TypeOK
  <1>10. CASE TickCheck(w)
    BY <1>10, WorkerTypes DEF TickCheck, TypeOK
  <1>11. CASE TickInsert(w)
    <2>1. PICK a \in Accounts :
            \/ /\ workers' = [workers EXCEPT ![w] = Idle]
               /\ UNCHANGED scans
            \/ /\ Advance(w, a, "enqueue")
               /\ \E s \in ScanIds : scans' = [scans EXCEPT ![s] = QueuedRow(a, "scan")]
      BY <1>11 DEF TickInsert
    <2>2. QueuedRow(a, "scan") \in Row
      BY RowTypes DEF Triggers
    <2>3. scans' \in [ScanIds -> Row]
      BY <2>1, <2>2 DEF TypeOK
    <2>4. workers' \in [Workers -> Process]
      BY <2>1, WorkerTypes, RowTypes
    <2>5. QED
      BY <1>11, <2>3, <2>4 DEF TickInsert, TypeOK
  <1>12. CASE EnqueueDone(w)
    BY <1>12, WorkerTypes, RowTypes DEF EnqueueDone, TypeOK
  <1>13. QED
    BY <1>1, <1>2, <1>3, <1>4, <1>5, <1>6, <1>7, <1>8, <1>9, <1>10, <1>11, <1>12

\* The claiming half of a tick and the run of a scan.
LEMMA RunTypeOK ==
  ASSUME SchedulerAssumption, TypeOK, ForeignKeys, NEW w \in Workers,
         \/ Claim(w) \/ DrainDone(w) \/ LoadAccount(w) \/ AccountGone(w)
         \/ RunFail(w) \/ VerifyActivate(w) \/ VerifyFinish(w)
         \/ Persist(w) \/ RunFinish(w) \/ RunActivate(w)
  PROVE  TypeOK'
  <1> USE DEF Pcs, ScanningPcs
  <1> DEFINE ScansTyped == scans' \in [ScanIds -> Row]
             WorkersTyped == workers' \in [Workers -> Process]
             AccountsTyped == accounts' \in [Accounts -> AccountStatus \cup {"absent"}]
  <1>0. workers[w].scan \in ScanIds \cup {NoScan}
    BY DEF TypeOK, Process
  <1>1. CASE Claim(w)
    <2>1. PICK s \in Claimable :
            /\ scans' = [scans EXCEPT ![s].status = "running",
                                     ![s].started = clock, ![s].worker = w]
            /\ workers' = [workers EXCEPT ![w] =
                            [Idle EXCEPT !.pc = "claimed", !.scan = s,
                                         !.account = scans[s].account,
                                         !.trigger = scans[s].trigger]]
      BY <1>1 DEF Claim
    <2>2. s \in ScanIds /\ scans[s] \in Row
      BY DEF Claimable, TypeOK
    <2>3. ScansTyped
      <3>1. [scans[s] EXCEPT !.status = "running", !.started = clock, !.worker = w] \in Row
        BY <2>2 DEF Row, TypeOK
      <3>2. QED
        BY <2>1, <3>1 DEF TypeOK
    <2>4. WorkersTyped
      <3>1. [Idle EXCEPT !.pc = "claimed", !.scan = s, !.account = scans[s].account,
                         !.trigger = scans[s].trigger] \in Process
        BY <2>2, RowTypes, ZenonT(40) DEF Process, Row
      <3>2. QED
        BY <2>1, <3>1, WorkerTypes
    <2>5. QED
      BY <1>1, <2>3, <2>4 DEF Claim, TypeOK
  <1>2. CASE DrainDone(w)
    BY <1>2, WorkerTypes DEF DrainDone, TypeOK
  <1>3. CASE LoadAccount(w)
    <2>1. workers[w].account \in Accounts /\ workers[w] \in Process
      BY <1>3 DEF TypeOK, ForeignKeys, LoadAccount
    <2>2. accounts[workers[w].account] \in AccountStatus
      BY <1>3, <2>1 DEF LoadAccount, TypeOK
    <2>3. [workers[w] EXCEPT !.pc = "running",
                             !.seen = accounts[workers[w].account]] \in Process
      BY <2>1, <2>2 DEF Process
    <2>4. WorkersTyped
      BY <1>3, <2>3 DEF LoadAccount, TypeOK
    <2>5. QED
      BY <1>3, <2>4 DEF LoadAccount, TypeOK
  <1>4. CASE AccountGone(w)
    BY <1>0, <1>4, FinishTypeOK, WorkerTypes, RowTypes
       DEF AccountGone, Drain, Terminal, TypeOK
  <1>5. CASE RunFail(w)
    BY <1>0, <1>5, FinishTypeOK, WorkerTypes, RowTypes DEF RunFail, Drain, Terminal, TypeOK
  <1>6. CASE VerifyActivate(w)
    <2>1. AccountsTyped
      BY <1>6 DEF VerifyActivate, Activate, TypeOK, AccountStatus
    <2>2. QED
      BY <1>6, <2>1, WorkerTypes DEF VerifyActivate, TypeOK
  <1>7. CASE VerifyFinish(w)
    BY <1>0, <1>7, FinishTypeOK, WorkerTypes, RowTypes
       DEF VerifyFinish, Drain, Terminal, TypeOK
  <1>8. CASE Persist(w)
    BY <1>8, WorkerTypes DEF Persist, TypeOK
  <1>9. CASE RunFinish(w)
    BY <1>0, <1>9, FinishTypeOK, WorkerTypes DEF RunFinish, Terminal, TypeOK
  <1>10. CASE RunActivate(w)
    <2>1. AccountsTyped
      BY <1>10 DEF RunActivate, Activate, TypeOK, AccountStatus
    <2>2. QED
      BY <1>10, <2>1, WorkerTypes, RowTypes DEF RunActivate, Drain, TypeOK
  <1>11. QED
    BY <1>1, <1>2, <1>3, <1>4, <1>5, <1>6, <1>7, <1>8, <1>9, <1>10

\* The end of a worker process.
LEMMA EndTypeOK ==
  ASSUME SchedulerAssumption, TypeOK, HeldRows, NEW w \in Workers, Crash(w) \/ Stop(w)
  PROVE  TypeOK'
  <1>1. workers' \in [Workers -> Process]
    BY RowTypes, WorkerTypes DEF Crash, Stop, Vanish
  <1>2. lost' \subseteq ScanIds
    BY DEF Crash, Stop, Vanish, HeldRows, TypeOK
  <1>3. lease' \in [holder : Workers \cup {NoWorker}, expires : Nat]
    BY DEF Crash, Stop, FreeLease, TypeOK, Never
  <1>4. QED
    BY <1>1, <1>2, <1>3 DEF Crash, Stop, TypeOK

LEMMA NextTypeOK ==
  ASSUME SchedulerAssumption, TypeOK, ForeignKeys, HeldRows, [Next]_vars
  PROVE  TypeOK'
  <1>1. CASE Tick
    BY <1>1 DEF Tick, TypeOK
  <1>2. CASE Server
    BY <1>2, ServerTypeOK
  <1>3. ASSUME NEW w \in Workers, WorkerStep(w) \/ Crash(w) \/ Stop(w)
        PROVE  TypeOK'
    BY <1>3, EnqueueTypeOK, RunTypeOK, EndTypeOK DEF WorkerStep
  <1>4. CASE UNCHANGED vars
    BY <1>4 DEF vars, TypeOK
  <1>5. QED
    BY <1>1, <1>2, <1>3, <1>4 DEF Next

-----------------------------------------------------------------------------
(* Rows and the processes that run them.                                   *)

Busy(w) == workers[w].pc \in ScanningPcs \cup {"finished"}

RowInv == ForeignKeys /\ HeldRows /\ RunningRowIsHeld /\ OneRunning

\* Steps that claim nothing and end nothing: rows may be inserted, accounts
\* may appear, a busy worker may move on with its scan.
Quiet ==
  /\ \A s \in ScanIds :
       \/ scans'[s] = scans[s]
       \/ /\ scans[s].status = "unused"
          /\ scans'[s].status = "queued"
          /\ scans'[s].account \in Accounts
          /\ accounts'[scans'[s].account] # "absent"
  /\ \A a \in Accounts : accounts[a] # "absent" => accounts'[a] # "absent"
  /\ \A v \in Workers :
       /\ Scanning(v)' = Scanning(v)
       /\ Busy(v)' => /\ Busy(v)
                      /\ workers'[v].scan = workers[v].scan
                      /\ workers'[v].account = workers[v].account
  /\ api' # NoRequest => api'.account \in Accounts /\ accounts'[api'.account] # "absent"
  /\ lost' = lost

LEMMA QuietRowInv ==
  ASSUME SchedulerAssumption, TypeOK, RowInv, Quiet
  PROVE  RowInv'
  <1>1. \A s \in ScanIds :
          /\ scans'[s].status = "running" => scans'[s] = scans[s]
          /\ scans[s].status \in {"running", "deleted"} => scans'[s] = scans[s]
    BY DEF Quiet
  <1>2. ForeignKeys'
    BY ZenonT(40) DEF RowInv, ForeignKeys, Quiet, Busy
  <1>3. HeldRows'
    BY <1>1 DEF RowInv, HeldRows, Quiet, Busy, Scanning
  <1>4. RunningRowIsHeld'
    BY <1>1 DEF RowInv, RunningRowIsHeld, Quiet, Busy, Scanning
  <1>5. OneRunning'
    BY <1>1 DEF RowInv, OneRunning
  <1>6. QED
    BY <1>2, <1>3, <1>4, <1>5 DEF RowInv

\* A worker finishes the scan it runs, or finds its row gone.
LEMMA FinishRowInv ==
  ASSUME SchedulerAssumption, TypeOK, RowInv, NEW w \in Workers,
         NEW status \in Terminal, workers'[w].pc \in {"drain", "finished"},
         workers'[w].pc = "finished" => workers'[w].account = workers[w].account,
         \A v \in Workers : v # w => workers'[v] = workers[v],
         Scanning(w), Finish(workers[w].scan, status), UNCHANGED <<accounts, api, lost>>
  PROVE  RowInv'
  <1> DEFINE h == workers[w].scan
  <1>1. /\ h \in ScanIds
        /\ \A v \in Workers : v # w => workers'[v] = workers[v]
        /\ ~ Scanning(w)'
    BY DEF RowInv, HeldRows, TypeOK, Scanning, ScanningPcs
  <1>2. /\ \A s \in ScanIds : s # h => scans'[s] = scans[s]
        /\ scans'[h].account = scans[h].account
        /\ IF scans[h].status = "deleted" THEN scans'[h].status = "deleted"
                                          ELSE scans'[h].status \in Terminal
    <2>1. scans[h] \in Row
      BY <1>1 DEF TypeOK
    <2>2. QED
      BY <1>1, <2>1 DEF Finish, TypeOK, Row
  <1>3. scans'[h].status # "running"
    BY <1>2 DEF Terminal
  <1>4. \A v \in Workers : (v # w /\ Scanning(v) /\ workers[v].scan = h)
                             => scans[h].status = "deleted"
    BY <1>1 DEF RowInv, HeldRows
  <1>5. ForeignKeys'
    <2>1. /\ scans[h].status \notin {"unused", "queued"}
          /\ workers[w].account \in Accounts
      BY <1>1 DEF RowInv, HeldRows, ForeignKeys, Scanning
    <2>2. QED
      BY <1>1, <1>2, <2>1 DEF RowInv, ForeignKeys, Terminal, Scanning, ScanningPcs
  <1>6. HeldRows'
    <2> SUFFICES ASSUME NEW v \in Workers, Scanning(v)'
                 PROVE  /\ workers'[v].scan \in ScanIds
                        /\ \/ scans'[workers'[v].scan].status = "deleted"
                           \/ /\ scans'[workers'[v].scan].status = "running"
                              /\ scans'[workers'[v].scan].account = workers'[v].account
                              /\ scans'[workers'[v].scan].worker = v
      BY DEF HeldRows, Scanning
    <2>1. v # w /\ workers'[v] = workers[v] /\ Scanning(v)
      BY <1>1 DEF Scanning
    <2>2. workers[v].scan \in ScanIds
      BY <2>1 DEF RowInv, HeldRows
    <2>3. CASE workers[v].scan = h
      BY <1>1, <1>2, <1>4, <2>1, <2>3
    <2>4. CASE workers[v].scan # h
      <3>1. scans'[workers[v].scan] = scans[workers[v].scan]
        BY <1>2, <2>2, <2>4
      <3>2. QED
        BY <2>1, <2>2, <3>1 DEF RowInv, HeldRows
    <2>5. QED
      BY <2>3, <2>4
  <1>7. RunningRowIsHeld'
    BY <1>1, <1>2, <1>3 DEF RowInv, RunningRowIsHeld, Scanning
  <1>8. OneRunning'
    BY <1>2, <1>3 DEF RowInv, OneRunning
  <1>9. QED
    BY <1>5, <1>6, <1>7, <1>8 DEF RowInv

LEMMA ClaimRowInv ==
  ASSUME SchedulerAssumption, TypeOK, RowInv, NEW w \in Workers, Claim(w)
  PROVE  RowInv'
  <1>1. PICK s \in Claimable :
          /\ scans' = [scans EXCEPT ![s].status = "running",
                                   ![s].started = clock, ![s].worker = w]
          /\ workers' = [workers EXCEPT ![w] =
                          [Idle EXCEPT !.pc = "claimed", !.scan = s,
                                       !.account = scans[s].account,
                                       !.trigger = scans[s].trigger]]
    BY DEF Claim
  <1>2. /\ s \in ScanIds /\ scans[s].status = "queued"
        /\ \A t \in ScanIds : scans[t].account = scans[s].account
                                => scans[t].status # "running"
        /\ scans[s].account \in Accounts
        /\ accounts[scans[s].account] # "absent"
    BY DEF Claimable, Running, RowInv, ForeignKeys
  <1>3. /\ scans'[s].status = "running"
        /\ scans'[s].account = scans[s].account
        /\ scans'[s].worker = w
        /\ \A t \in ScanIds : t # s => scans'[t] = scans[t]
    BY <1>1, <1>2 DEF TypeOK, Row
  <1>4. /\ workers'[w].pc = "claimed" /\ workers'[w].scan = s
        /\ workers'[w].account = scans[s].account
        /\ \A v \in Workers : v # w => workers'[v] = workers[v]
    BY <1>1 DEF TypeOK, Idle
  <1>5. ~ Scanning(w) /\ UNCHANGED <<accounts, api, lost>>
    BY DEF Claim, Scanning, ScanningPcs
  <1>6. ForeignKeys'
    BY <1>2, <1>3, <1>4, <1>5 DEF RowInv, ForeignKeys, ScanningPcs
  <1>7. HeldRows'
    <2>1. \A v \in Workers : (v # w /\ Scanning(v)) => workers[v].scan # s
      BY <1>2 DEF RowInv, HeldRows
    <2>2. QED
      BY <1>2, <1>3, <1>4, <2>1 DEF RowInv, HeldRows, Scanning
  <1>8. RunningRowIsHeld'
    BY <1>2, <1>3, <1>4, <1>5 DEF RowInv, RunningRowIsHeld, Scanning, ScanningPcs
  <1>9. OneRunning'
    BY <1>2, <1>3 DEF RowInv, OneRunning
  <1>10. QED
    BY <1>6, <1>7, <1>8, <1>9 DEF RowInv

LEMMA DeleteRowInv ==
  ASSUME SchedulerAssumption, TypeOK, RowInv, NEW a \in Accounts, DeleteAccount(a)
  PROVE  RowInv'
  <1>1. /\ \A s \in ScanIds : scans'[s] = IF scans[s].account = a THEN NoRow("deleted")
                                                                ELSE scans[s]
        /\ \A b \in Accounts : b # a => accounts'[b] = accounts[b]
        /\ UNCHANGED <<workers, lost, api>>
        /\ api = NoRequest
    BY DEF DeleteAccount, Cascade, TypeOK
  <1>2. NoRow("deleted").account = NoAccount /\ NoRow("deleted").status = "deleted"
    BY DEF NoRow
  <1>3. ForeignKeys'
    BY <1>1, <1>2, ZenonT(40) DEF RowInv, ForeignKeys
  <1>4. HeldRows'
    BY <1>1, <1>2 DEF RowInv, HeldRows, Scanning
  <1>5. RunningRowIsHeld'
    BY <1>1, <1>2 DEF RowInv, RunningRowIsHeld, Scanning
  <1>6. OneRunning'
    BY <1>1, <1>2 DEF RowInv, OneRunning
  <1>7. QED
    BY <1>3, <1>4, <1>5, <1>6 DEF RowInv

LEMMA VanishRowInv ==
  ASSUME SchedulerAssumption, TypeOK, RowInv, NEW w \in Workers, Vanish(w),
         UNCHANGED <<accounts, scans, api>>
  PROVE  RowInv'
  <1>1. /\ workers'[w].pc = "down"
        /\ \A v \in Workers : v # w => workers'[v] = workers[v]
    BY DEF Vanish, TypeOK, Idle
  <1>2. ForeignKeys'
    BY <1>1 DEF RowInv, ForeignKeys, ScanningPcs
  <1>3. HeldRows'
    BY <1>1 DEF RowInv, HeldRows, Scanning, ScanningPcs
  <1>4. RunningRowIsHeld'
    BY <1>1 DEF RowInv, RunningRowIsHeld, Scanning, Vanish
  <1>5. OneRunning'
    BY DEF RowInv, OneRunning
  <1>6. QED
    BY <1>2, <1>3, <1>4, <1>5 DEF RowInv

\* Every worker action moves only its own process.
LEMMA OneWorkerMoves ==
  ASSUME TypeOK, NEW w \in Workers
  PROVE  /\ \A pc : Goto(w, pc) =>
                /\ workers'[w].pc = pc /\ workers'[w].scan = workers[w].scan
                /\ workers'[w].account = workers[w].account
                /\ workers'[w].now = workers[w].now
                /\ \A v \in Workers : v # w => workers'[v] = workers[v]
         /\ \A pc, a : Advance(w, a, pc) =>
                /\ workers'[w].pc = pc
                /\ workers'[w].now = workers[w].now
                /\ \A v \in Workers : v # w => workers'[v] = workers[v]
         /\ \A pc, todo : workers' = [workers EXCEPT ![w].pc = pc, ![w].todo = todo] =>
                /\ workers'[w].pc = pc
                /\ workers'[w].now = workers[w].now
                /\ \A v \in Workers : v # w => workers'[v] = workers[v]
         /\ \A p : workers' = [workers EXCEPT ![w] = p] =>
                /\ workers'[w] = p
                /\ \A v \in Workers : v # w => workers'[v] = workers[v]
  BY DEF TypeOK, Process, Goto, Advance

\* The steps of a tick outside a scan are quiet: this is the form they share.
LEMMA QuietTick ==
  ASSUME TypeOK, RowInv, NEW w \in Workers,
         ~ Busy(w), workers'[w].pc \notin ScanningPcs \cup {"finished"},
         \A v \in Workers : v # w => workers'[v] = workers[v],
         UNCHANGED <<api, lost>>,
         \A a \in Accounts : accounts[a] # "absent" => accounts'[a] # "absent",
         \/ UNCHANGED scans
         \/ \E s \in ScanIds, a \in Accounts, t \in Triggers :
              /\ scans[s].status = "unused"
              /\ accounts'[a] # "absent"
              /\ scans' = [scans EXCEPT ![s] = QueuedRow(a, t)]
  PROVE  Quiet
  <1>1. \A s \in ScanIds :
          \/ scans'[s] = scans[s]
          \/ /\ scans[s].status = "unused"
             /\ scans'[s].status = "queued"
             /\ scans'[s].account \in Accounts
             /\ accounts'[scans'[s].account] # "absent"
    BY DEF TypeOK, QueuedRow
  <1>2. \A v \in Workers :
          /\ Scanning(v)' = Scanning(v)
          /\ Busy(v)' => /\ Busy(v)
                         /\ workers'[v].scan = workers[v].scan
                         /\ workers'[v].account = workers[v].account
    BY DEF Busy, Scanning
  <1>3. api' # NoRequest => api'.account \in Accounts /\ accounts'[api'.account] # "absent"
    BY DEF RowInv, ForeignKeys
  <1>4. QED
    BY <1>1, <1>2, <1>3 DEF Quiet

\* The steps of a run that leave the scan in hand as it is.
LEMMA QuietRun ==
  ASSUME TypeOK, RowInv, NEW w \in Workers,
         Scanning(w)' = Scanning(w),
         Busy(w)' => /\ Busy(w)
                     /\ workers'[w].scan = workers[w].scan
                     /\ workers'[w].account = workers[w].account,
         \A v \in Workers : v # w => workers'[v] = workers[v],
         UNCHANGED <<scans, api, lost>>,
         \A a \in Accounts : accounts[a] # "absent" => accounts'[a] # "absent"
  PROVE  Quiet
  <1>1. \A v \in Workers :
          /\ Scanning(v)' = Scanning(v)
          /\ Busy(v)' => /\ Busy(v)
                         /\ workers'[v].scan = workers[v].scan
                         /\ workers'[v].account = workers[v].account
    BY DEF Busy, Scanning
  <1>2. api' # NoRequest => api'.account \in Accounts /\ accounts'[api'.account] # "absent"
    BY DEF RowInv, ForeignKeys
  <1>3. QED
    BY <1>1, <1>2 DEF Quiet

\* Where the worker goes after a run.
LEMMA DrainMoves ==
  ASSUME TypeOK, NEW w \in Workers,
         workers' = [workers EXCEPT ![w] = [Idle EXCEPT !.pc = "drain"]]
  PROVE  /\ workers'[w].pc = "drain"
         /\ \A v \in Workers : v # w => workers'[v] = workers[v]
         /\ [Idle EXCEPT !.pc = "drain"].pc = "drain"
  BY DEF TypeOK, Idle

LEMMA EnqueueRowInv ==
  ASSUME SchedulerAssumption, TypeOK, RowInv, NEW w \in Workers,
         \/ Start(w) \/ TickWithLease(w) \/ TickWithoutLease(w)
         \/ OrgList(w) \/ SyncUpsert(w) \/ SyncCheck(w) \/ SyncInsert(w) \/ SyncDone(w)
         \/ TickList(w) \/ TickCheck(w) \/ TickInsert(w) \/ EnqueueDone(w)
         \/ DrainDone(w)
  PROVE  RowInv'
  <1> USE DEF Busy, ScanningPcs
  <1>1. CASE Start(w)
    BY <1>1, OneWorkerMoves, QuietTick, QuietRowInv DEF Start
  <1>2. CASE TickWithLease(w)
    <2>1. workers'[w].pc \in {"listing", "list"}
          /\ \A v \in Workers : v # w => workers'[v] = workers[v]
      BY <1>2 DEF TickWithLease, TypeOK, Process
    <2>2. QED
      BY <1>2, <2>1, QuietTick, QuietRowInv DEF TickWithLease
  <1>3. CASE TickWithoutLease(w)
    BY <1>3, OneWorkerMoves, QuietTick, QuietRowInv DEF TickWithoutLease
  <1>4. CASE OrgList(w)
    BY <1>4, OneWorkerMoves, QuietTick, QuietRowInv DEF OrgList
  <1>5. CASE SyncUpsert(w)
    <2>1. \A a \in Accounts : accounts[a] # "absent" => accounts'[a] # "absent"
      BY <1>5 DEF SyncUpsert, TypeOK
    <2>2. QED
      BY <1>5, <2>1, OneWorkerMoves, QuietTick, QuietRowInv DEF SyncUpsert
  <1>6. CASE SyncCheck(w)
    <2>1. PICK a \in Accounts :
            \/ workers' = [workers EXCEPT ![w].pc = "list", ![w].todo = {}]
            \/ Goto(w, "syncInsert")
            \/ Advance(w, a, "sync")
      BY <1>6 DEF SyncCheck
    <2>2. workers'[w].pc \in {"list", "syncInsert", "sync"}
          /\ \A v \in Workers : v # w => workers'[v] = workers[v]
      BY <2>1, OneWorkerMoves
    <2>3. QED
      BY <1>6, <2>2, QuietTick, QuietRowInv DEF SyncCheck
  <1>7. CASE SyncInsert(w)
    <2>1. PICK a \in Accounts :
            \/ /\ workers' = [workers EXCEPT ![w].pc = "list", ![w].todo = {}]
               /\ UNCHANGED scans
            \/ /\ accounts[a] # "absent"
               /\ Advance(w, a, "sync")
               /\ \E s \in ScanIds : Fresh(s) /\ scans' = [scans EXCEPT ![s] = QueuedRow(a, "verify")]
      BY <1>7 DEF SyncInsert
    <2>2. workers'[w].pc \in {"list", "sync"}
          /\ \A v \in Workers : v # w => workers'[v] = workers[v]
      BY <2>1, OneWorkerMoves
    <2>3. QED
      BY <1>7, <2>1, <2>2, QuietTick, QuietRowInv DEF SyncInsert, Fresh, Triggers
  <1>8. CASE SyncDone(w)
    BY <1>8, OneWorkerMoves, QuietTick, QuietRowInv DEF SyncDone
  <1>9. CASE TickList(w)
    <2>1. workers'[w].pc = "enqueue"
          /\ \A v \in Workers : v # w => workers'[v] = workers[v]
      BY <1>9, OneWorkerMoves DEF TickList
    <2>2. QED
      BY <1>9, <2>1, QuietTick, QuietRowInv DEF TickList
  <1>10. CASE TickCheck(w)
    <2>1. workers'[w].pc \in {"insert", "enqueue"}
          /\ \A v \in Workers : v # w => workers'[v] = workers[v]
      BY <1>10, OneWorkerMoves DEF TickCheck
    <2>2. QED
      BY <1>10, <2>1, QuietTick, QuietRowInv DEF TickCheck
  <1>11. CASE TickInsert(w)
    <2>1. PICK a \in Accounts :
            \/ /\ workers' = [workers EXCEPT ![w] = Idle]
               /\ UNCHANGED scans
            \/ /\ accounts[a] # "absent"
               /\ Advance(w, a, "enqueue")
               /\ \E s \in ScanIds : Fresh(s) /\ scans' = [scans EXCEPT ![s] = QueuedRow(a, "scan")]
      BY <1>11 DEF TickInsert
    <2>2. workers'[w].pc \in {"idle", "enqueue"}
          /\ \A v \in Workers : v # w => workers'[v] = workers[v]
      BY <2>1, OneWorkerMoves DEF Idle
    <2>3. \/ UNCHANGED scans
          \/ \E s \in ScanIds, b \in Accounts, t \in Triggers :
               /\ scans[s].status = "unused"
               /\ accounts'[b] # "absent"
               /\ scans' = [scans EXCEPT ![s] = QueuedRow(b, t)]
      BY <1>11, <2>1 DEF TickInsert, Fresh, Triggers
    <2>4. UNCHANGED <<accounts, api, lost>> /\ workers[w].pc = "insert"
      BY <1>11 DEF TickInsert
    <2>5. QED
      BY <2>2, <2>3, <2>4, QuietTick, QuietRowInv
  <1>12. CASE EnqueueDone(w)
    <2>1. workers'[w].pc = "drain"
          /\ \A v \in Workers : v # w => workers'[v] = workers[v]
      BY <1>12, DrainMoves DEF EnqueueDone
    <2>2. QED
      BY <1>12, <2>1, QuietTick, QuietRowInv DEF EnqueueDone
  <1>13. CASE DrainDone(w)
    BY <1>13, OneWorkerMoves, QuietTick, QuietRowInv DEF DrainDone
  <1>14. QED
    BY <1>1, <1>2, <1>3, <1>4, <1>5, <1>6, <1>7, <1>8, <1>9, <1>10, <1>11, <1>12, <1>13

LEMMA FinishAndDrain ==
  ASSUME SchedulerAssumption, TypeOK, RowInv, NEW w \in Workers,
         \E status \in Terminal : Finish(workers[w].scan, status),
         Drain(w), Scanning(w), UNCHANGED <<accounts, api, lost>>
  PROVE  RowInv'
  <1>1. PICK status \in Terminal : Finish(workers[w].scan, status)
    OBVIOUS
  <1>2. workers'[w].pc = "drain" /\ \A v \in Workers : v # w => workers'[v] = workers[v]
    BY DrainMoves DEF Drain
  <1>3. QED
    BY <1>1, <1>2, FinishRowInv

LEMMA RunRowInv ==
  ASSUME SchedulerAssumption, TypeOK, RowInv, NEW w \in Workers,
         \/ Claim(w) \/ LoadAccount(w) \/ AccountGone(w)
         \/ RunFail(w) \/ VerifyActivate(w) \/ VerifyFinish(w)
         \/ Persist(w) \/ RunFinish(w) \/ RunActivate(w)
  PROVE  RowInv'
  <1> USE DEF ScanningPcs
  <1> DEFINE OthersStay == \A v \in Workers : v # w => workers'[v] = workers[v]
             SameScan == /\ workers'[w].scan = workers[w].scan
                         /\ workers'[w].account = workers[w].account
             AccountsStay == \A a \in Accounts :
                               accounts[a] # "absent" => accounts'[a] # "absent"
  <1>1. CASE Claim(w)
    BY <1>1, ClaimRowInv
  <1>2. CASE LoadAccount(w)
    <2>1. workers'[w].pc = "running" /\ workers[w].pc = "claimed" /\ SameScan /\ OthersStay
      BY <1>2 DEF LoadAccount, TypeOK, Process
    <2>2. UNCHANGED <<scans, accounts, api, lost>>
      BY <1>2 DEF LoadAccount
    <2>3. QED
      BY <2>1, <2>2, QuietRun, QuietRowInv DEF Scanning, Busy
  <1>3. CASE AccountGone(w)
    <2>1. /\ \E status \in Terminal : Finish(workers[w].scan, status)
          /\ Drain(w) /\ Scanning(w) /\ UNCHANGED <<accounts, api, lost>>
      BY <1>3 DEF AccountGone, Scanning, Terminal
    <2>2. QED
      BY <2>1, FinishAndDrain
  <1>4. CASE RunFail(w)
    <2>1. /\ \E status \in Terminal : Finish(workers[w].scan, status)
          /\ Drain(w) /\ Scanning(w) /\ UNCHANGED <<accounts, api, lost>>
      BY <1>4 DEF RunFail, Scanning, Terminal
    <2>2. QED
      BY <2>1, FinishAndDrain
  <1>5. CASE VerifyActivate(w)
    <2>1. workers'[w].pc = "verified" /\ workers[w].pc = "running" /\ SameScan /\ OthersStay
      BY <1>5, OneWorkerMoves DEF VerifyActivate
    <2>2. AccountsStay
      BY <1>5 DEF VerifyActivate, Activate, TypeOK
    <2>3. UNCHANGED <<scans, api, lost>>
      BY <1>5 DEF VerifyActivate
    <2>4. QED
      BY <2>1, <2>2, <2>3, QuietRun, QuietRowInv DEF Scanning, Busy
  <1>6. CASE VerifyFinish(w)
    <2>1. /\ \E status \in Terminal : Finish(workers[w].scan, status)
          /\ Drain(w) /\ Scanning(w) /\ UNCHANGED <<accounts, api, lost>>
      BY <1>6 DEF VerifyFinish, Scanning, Terminal
    <2>2. QED
      BY <2>1, FinishAndDrain
  <1>7. CASE Persist(w)
    <2>1. workers'[w].pc = "persisted" /\ workers[w].pc = "running" /\ SameScan /\ OthersStay
      BY <1>7, OneWorkerMoves DEF Persist
    <2>2. UNCHANGED <<scans, accounts, api, lost>>
      BY <1>7 DEF Persist
    <2>3. QED
      BY <2>1, <2>2, QuietRun, QuietRowInv DEF Scanning, Busy
  <1>8. CASE RunFinish(w)
    <2>1. workers'[w].pc = "finished" /\ SameScan /\ OthersStay
      BY <1>8, OneWorkerMoves DEF RunFinish
    <2>2. /\ Finish(workers[w].scan, "ok") /\ Scanning(w)
          /\ UNCHANGED <<accounts, api, lost>>
      BY <1>8 DEF RunFinish, Scanning
    <2>3. "ok" \in Terminal
      BY DEF Terminal
    <2>4. QED
      BY <2>1, <2>2, <2>3, FinishRowInv
  <1>9. CASE RunActivate(w)
    <2>1. workers'[w].pc = "drain" /\ workers[w].pc = "finished" /\ OthersStay
      BY <1>9, DrainMoves DEF RunActivate, Drain
    <2>2. AccountsStay
      BY <1>9 DEF RunActivate, Activate, TypeOK
    <2>3. UNCHANGED <<scans, api, lost>>
      BY <1>9 DEF RunActivate
    <2>4. QED
      BY <2>1, <2>2, <2>3, QuietRun, QuietRowInv DEF Scanning, Busy
  <1>10. QED
    BY <1>1, <1>2, <1>3, <1>4, <1>5, <1>6, <1>7, <1>8, <1>9

LEMMA ServerRowInv ==
  ASSUME SchedulerAssumption, TypeOK, RowInv, Server
  PROVE  RowInv'
  <1> USE DEF Scanning, Busy
  <1>1. CASE InsertScan
    <2>1. PICK s \in ScanIds :
            /\ scans[s].status = "unused"
            /\ scans' = [scans EXCEPT ![s] = QueuedRow(api.account, api.trigger)]
      BY <1>1 DEF InsertScan, Fresh
    <2>2. api.account \in Accounts /\ accounts[api.account] # "absent"
      BY <1>1 DEF InsertScan, RowInv, ForeignKeys
    <2>3. Quiet
      BY <1>1, <2>1, <2>2 DEF InsertScan, Quiet, QueuedRow, TypeOK
    <2>4. QED
      BY <2>3, QuietRowInv
  <1>2. ASSUME NEW a \in Accounts, NEW given \in AccountStatus \cup {"omitted"},
               PostAccount(a, given)
        PROVE  RowInv'
    <2>1. \A b \in Accounts : accounts[b] # "absent" => accounts'[b] # "absent"
      BY <1>2 DEF PostAccount, TypeOK, AccountStatus
    <2>2. Quiet
      BY <1>2, <2>1 DEF PostAccount, Quiet
    <2>3. QED
      BY <2>2, QuietRowInv
  <1>3. ASSUME NEW a \in Accounts, DeleteAccount(a)
        PROVE  RowInv'
    BY <1>3, DeleteRowInv
  <1>4. ASSUME NEW a \in Accounts, NEW t \in Triggers, PostScan(a, t)
        PROVE  RowInv'
    <2>1. Quiet
      BY <1>4 DEF PostScan, Quiet
    <2>2. QED
      BY <2>1, QuietRowInv
  <1>5. QED
    BY <1>1, <1>2, <1>3, <1>4 DEF Server

LEMMA NextRowInv ==
  ASSUME SchedulerAssumption, TypeOK, RowInv, [Next]_vars
  PROVE  RowInv'
  <1>1. CASE Tick \/ UNCHANGED vars
    <2>1. Quiet
      BY <1>1 DEF Tick, vars, Quiet, Scanning, Busy, RowInv, ForeignKeys
    <2>2. QED
      BY <2>1, QuietRowInv
  <1>2. CASE Server
    BY <1>2, ServerRowInv
  <1>3. ASSUME NEW w \in Workers, WorkerStep(w)
        PROVE  RowInv'
    BY <1>3, EnqueueRowInv, RunRowInv DEF WorkerStep
  <1>4. ASSUME NEW w \in Workers, Crash(w) \/ Stop(w)
        PROVE  RowInv'
    BY <1>4, VanishRowInv DEF Crash, Stop
  <1>5. QED
    BY <1>1, <1>2, <1>3, <1>4 DEF Next

-----------------------------------------------------------------------------
(* The lease.                                                              *)

\* A step that leaves the lease and the clock alone, and lets no worker begin
\* to enqueue.
LEMMA QuietLease ==
  ASSUME LeaseHeld, UNCHANGED <<clock, lease>>,
         \A v \in Workers : Scheduling(v)' =>
           Scheduling(v) /\ workers'[v].now = workers[v].now
  PROVE  LeaseHeld'
  BY DEF LeaseHeld, Scheduling

LEMMA AcquireLease ==
  ASSUME SchedulerAssumption, TypeOK, LeaseHeld, NEW w \in Workers, TickWithLease(w)
  PROVE  LeaseHeld'
  <1>1. workers'[w].now = clock /\ \A v \in Workers : v # w => workers'[v] = workers[v]
    BY DEF TickWithLease, TypeOK, Process
  <1>2. lease' = [holder |-> w, expires |-> clock + LeaseTtl] /\ clock' = clock
    BY DEF TickWithLease
  <1>3. ASSUME NEW v \in Workers, v # w, Scheduling(v)
        PROVE  workers[v].now + LeaseTtl <= clock
    BY <1>3 DEF LeaseHeld, TickWithLease, LeaseFreeFor, SchedulerAssumption
  <1>4. QED
    BY <1>1, <1>2, <1>3 DEF LeaseHeld, Scheduling

\* SIGTERM frees the lease only of the worker that ends.
LEMMA StopLease ==
  ASSUME SchedulerAssumption, TypeOK, LeaseHeld, NEW w \in Workers, Stop(w)
  PROVE  LeaseHeld'
  <1>1. /\ workers'[w].pc = "down" /\ clock' = clock
        /\ \A v \in Workers : v # w => workers'[v] = workers[v]
    BY DEF Stop, Vanish, TypeOK, Idle
  <1>2. ~ Scheduling(w)'
    BY <1>1 DEF Scheduling, SchedulingPcs
  <1>3. ASSUME NEW v \in Workers, v # w,
               lease = [holder |-> v, expires |-> workers[v].now + LeaseTtl]
        PROVE  lease' = lease
    BY <1>3 DEF Stop
  <1>4. QED
    BY <1>1, <1>2, <1>3 DEF LeaseHeld, Scheduling

LEMMA WorkerLease ==
  ASSUME SchedulerAssumption, TypeOK, LeaseHeld, NEW w \in Workers, WorkerStep(w)
  PROVE  LeaseHeld'
  <1> USE DEF Scheduling, SchedulingPcs
  <1>1. CASE TickWithLease(w)
    BY <1>1, AcquireLease
  <1>2. ASSUME ~ TickWithLease(w)
        PROVE  UNCHANGED <<clock, lease>>
    BY <1>2 DEF WorkerStep, Start, TickWithoutLease, OrgList, SyncUpsert, SyncCheck,
       SyncInsert, SyncDone, TickList, TickCheck, TickInsert, EnqueueDone, Claim,
       DrainDone, LoadAccount, AccountGone, RunFail, VerifyActivate, VerifyFinish,
       Persist, RunFinish, RunActivate
  <1> DEFINE Moves ==
        /\ \A v \in Workers : v # w => workers'[v] = workers[v]
        /\ Scheduling(w)' => Scheduling(w) /\ workers'[w].now = workers[w].now
  <1>3. CASE Start(w) \/ TickWithoutLease(w) \/ DrainDone(w)
    <2>1. Moves
      BY <1>3, OneWorkerMoves DEF Start, TickWithoutLease, DrainDone
    <2>2. ~ TickWithLease(w)
      BY <1>3 DEF Start, TickWithoutLease, DrainDone, TickWithLease
    <2>3. QED
      BY <1>2, <2>1, <2>2, QuietLease
  <1>4. CASE OrgList(w) \/ SyncUpsert(w) \/ SyncCheck(w) \/ SyncInsert(w) \/ SyncDone(w)
    <2>1. Moves
      <3>1. CASE OrgList(w) \/ SyncUpsert(w) \/ SyncDone(w)
        BY <3>1, OneWorkerMoves DEF OrgList, SyncUpsert, SyncDone
      <3>2. CASE SyncCheck(w) \/ SyncInsert(w)
        <4>1. PICK a \in Accounts :
                \/ workers' = [workers EXCEPT ![w].pc = "list", ![w].todo = {}]
                \/ Goto(w, "syncInsert")
                \/ Advance(w, a, "sync")
          BY <3>2 DEF SyncCheck, SyncInsert
        <4>2. Scheduling(w)
          BY <3>2 DEF SyncCheck, SyncInsert
        <4>3. QED
          BY <4>1, <4>2, OneWorkerMoves
      <3>3. QED
        BY <1>4, <3>1, <3>2
    <2>2. ~ TickWithLease(w)
      BY <1>4 DEF OrgList, SyncUpsert, SyncCheck, SyncInsert, SyncDone, TickWithLease
    <2>3. QED
      BY <1>2, <2>1, <2>2, QuietLease
  <1>5. CASE TickList(w) \/ TickCheck(w)
    <2>1. Moves
      BY <1>5, OneWorkerMoves DEF TickList, TickCheck
    <2>2. ~ TickWithLease(w)
      BY <1>5 DEF TickList, TickCheck, TickWithLease
    <2>3. QED
      BY <1>2, <2>1, <2>2, QuietLease
  <1>6. CASE TickInsert(w)
    <2>1. PICK a \in Accounts :
            workers' = [workers EXCEPT ![w] = Idle] \/ Advance(w, a, "enqueue")
      BY <1>6 DEF TickInsert
    <2>2. Moves
      BY <1>6, <2>1, OneWorkerMoves DEF TickInsert, Idle
    <2>3. ~ TickWithLease(w)
      BY <1>6 DEF TickInsert, TickWithLease
    <2>4. QED
      BY <1>2, <2>2, <2>3, QuietLease
  <1>7. CASE EnqueueDone(w) \/ AccountGone(w) \/ RunFail(w) \/ VerifyFinish(w) \/ RunActivate(w)
    <2>1. Moves
      BY <1>7, DrainMoves
         DEF EnqueueDone, AccountGone, RunFail, VerifyFinish, RunActivate, Drain
    <2>2. ~ TickWithLease(w)
      BY <1>7 DEF EnqueueDone, AccountGone, RunFail, VerifyFinish, RunActivate, TickWithLease
    <2>3. QED
      BY <1>2, <2>1, <2>2, QuietLease
  <1>8. CASE Claim(w)
    <2>1. Moves
      BY <1>8 DEF Claim, TypeOK, Idle
    <2>2. ~ TickWithLease(w)
      BY <1>8 DEF Claim, TickWithLease
    <2>3. QED
      BY <1>2, <2>1, <2>2, QuietLease
  <1>9. CASE LoadAccount(w)
    <2>1. Moves
      BY <1>9 DEF LoadAccount, TypeOK, Process
    <2>2. ~ TickWithLease(w)
      BY <1>9 DEF LoadAccount, TickWithLease
    <2>3. QED
      BY <1>2, <2>1, <2>2, QuietLease
  <1>10. CASE VerifyActivate(w) \/ Persist(w) \/ RunFinish(w)
    <2>1. Moves
      BY <1>10, OneWorkerMoves DEF VerifyActivate, Persist, RunFinish
    <2>2. ~ TickWithLease(w)
      BY <1>10 DEF VerifyActivate, Persist, RunFinish, TickWithLease
    <2>3. QED
      BY <1>2, <2>1, <2>2, QuietLease
  <1>11. QED
    BY <1>1, <1>3, <1>4, <1>5, <1>6, <1>7, <1>8, <1>9, <1>10 DEF WorkerStep

LEMMA NextLease ==
  ASSUME SchedulerAssumption, TypeOK, LeaseHeld, [Next]_vars
  PROVE  LeaseHeld'
  <1>1. CASE Tick
    <2>1. \A w \in Workers : workers[w].now \in Nat
      BY DEF TypeOK, Process
    <2>2. clock \in Nat /\ clock' = clock + 1 /\ UNCHANGED <<workers, lease>>
      BY <1>1 DEF Tick, TypeOK
    <2>3. QED
      BY <2>1, <2>2 DEF LeaseHeld, Scheduling, SchedulerAssumption
  <1>2. CASE Server
    <2>1. UNCHANGED <<clock, lease, workers>>
      BY <1>2 DEF Server, InsertScan, PostAccount, DeleteAccount, PostScan
    <2>2. QED
      BY <2>1, QuietLease DEF Scheduling
  <1>3. ASSUME NEW w \in Workers, WorkerStep(w)
        PROVE  LeaseHeld'
    BY <1>3, WorkerLease
  <1>4. ASSUME NEW w \in Workers, Crash(w)
        PROVE  LeaseHeld'
    <2>1. /\ workers'[w].pc = "down" /\ UNCHANGED <<clock, lease>>
          /\ \A v \in Workers : v # w => workers'[v] = workers[v]
      BY <1>4 DEF Crash, Vanish, TypeOK, Idle
    <2>2. QED
      BY <2>1, QuietLease DEF Scheduling, SchedulingPcs
  <1>5. ASSUME NEW w \in Workers, Stop(w)
        PROVE  LeaseHeld'
    BY <1>5, StopLease
  <1>6. CASE UNCHANGED vars
    BY <1>6, QuietLease DEF vars, Scheduling
  <1>7. QED
    BY <1>1, <1>2, <1>3, <1>4, <1>5, <1>6 DEF Next

-----------------------------------------------------------------------------
(* The invariant and what follows from it.                                 *)

LEMMA InitIInv ==
  ASSUME SchedulerAssumption, Init
  PROVE  IInv
  <1>1. TypeOK
    BY InitTypeOK
  <1>2. /\ \A s \in ScanIds : scans[s].status = "unused" /\ scans[s].account = NoAccount
        /\ \A w \in Workers : workers[w].pc = "down"
        /\ api = NoRequest
    BY DEF Init, NoRow, Idle
  <1>3. QED
    BY <1>1, <1>2 DEF IInv, ForeignKeys, HeldRows, RunningRowIsHeld, OneRunning, LeaseHeld,
       Scanning, Scheduling, ScanningPcs, SchedulingPcs

\* In every state the scan queue reaches, IInv holds.
THEOREM Invariance == Spec => []IInv
  <1>1. Init => IInv
    BY SchedulerAssumption, InitIInv
  <1>2. IInv /\ [Next]_vars => IInv'
    <2> SUFFICES ASSUME IInv, [Next]_vars PROVE IInv'
      OBVIOUS
    <2>1. TypeOK'
      BY SchedulerAssumption, NextTypeOK DEF IInv
    <2>2. RowInv'
      BY SchedulerAssumption, NextRowInv DEF IInv, RowInv
    <2>3. LeaseHeld'
      BY SchedulerAssumption, NextLease DEF IInv
    <2>4. QED
      BY <2>1, <2>2, <2>3 DEF IInv, RowInv
  <1>3. QED
    BY <1>1, <1>2, PTL DEF Spec

\* Every table and every process keeps its type: a status never leaves the
\* values the schema's CHECK constraints name, whatever runs in parallel.
THEOREM TypeCorrect == Spec => []TypeOK
  <1>1. IInv => TypeOK
    BY DEF IInv
  <1>2. QED
    BY <1>1, Invariance, PTL

\* A scan the table calls running is being run by the worker its row names,
\* unless that worker's process ended while it ran it.
THEOREM RunningRowsAreHeld == Spec => []RunningRowIsHeld
  <1>1. IInv => RunningRowIsHeld
    BY DEF IInv
  <1>2. QED
    BY <1>1, Invariance, PTL

\* Two workers are at work on one account only if the scan of one of them was
\* deleted with the account.
THEOREM LiveScansAreSeparate == Spec => []NoSharedLiveScan
  <1>1. IInv => NoSharedLiveScan
    <2> SUFFICES ASSUME IInv, NEW v \in Workers, NEW w \in Workers,
                        v # w, Scanning(v), Scanning(w),
                        workers[v].account = workers[w].account,
                        scans[workers[v].scan].status # "deleted",
                        scans[workers[w].scan].status # "deleted"
                 PROVE  FALSE
      BY DEF NoSharedLiveScan
    <2>1. /\ workers[v].scan \in ScanIds /\ workers[w].scan \in ScanIds
          /\ scans[workers[v].scan].status = "running"
          /\ scans[workers[w].scan].status = "running"
          /\ scans[workers[v].scan].account = scans[workers[w].scan].account
          /\ scans[workers[v].scan].worker = v
          /\ scans[workers[w].scan].worker = w
      BY DEF IInv, HeldRows
    <2>2. workers[v].scan = workers[w].scan
      BY <2>1 DEF IInv, OneRunning
    <2>3. QED
      BY <2>1, <2>2
  <1>2. QED
    BY <1>1, Invariance, PTL

\* Of two workers in the enqueueing half of a tick one has overrun its lease.
THEOREM LeaseIsExclusive == Spec => []LeaseExclusive
  <1>1. IInv => LeaseExclusive
    <2> SUFFICES ASSUME IInv, NEW v \in Workers, NEW w \in Workers,
                        v # w, Scheduling(v), Scheduling(w),
                        ~ (workers[v].now + LeaseTtl <= clock),
                        ~ (workers[w].now + LeaseTtl <= clock)
                 PROVE  FALSE
      BY DEF LeaseExclusive
    <2>1. lease.holder = v /\ lease.holder = w
      <3>1. /\ lease = [holder |-> v, expires |-> workers[v].now + LeaseTtl]
            /\ lease = [holder |-> w, expires |-> workers[w].now + LeaseTtl]
        BY DEF IInv, LeaseHeld
      <3>2. QED
        BY <3>1
    <2>2. QED
      BY <2>1
  <1>2. QED
    BY <1>1, Invariance, PTL

-----------------------------------------------------------------------------
(* The queue implements ScanLedger.                                        *)

\* The ledger entry of a row depends on its account and its status.
LEMMA EntryOfRow ==
  ASSUME NEW s \in ScanIds
  PROVE  /\ LedgerView[s] = Ledger!Entry(scans[s].account, Phase(scans[s].status))
         /\ LedgerView'[s] = Ledger!Entry(scans'[s].account, Phase(scans'[s].status))
         /\ LedgerView[s].account = scans[s].account
         /\ LedgerView[s].phase = Phase(scans[s].status)
  BY DEF LedgerView, Ledger!Entry, Phase

LEMMA PhaseOfStatus ==
  /\ Phase("unused") = "none" /\ Phase("queued") = "queued"
  /\ Phase("running") = "running" /\ Phase("deleted") = "purged"
  /\ \A st \in Terminal : Phase(st) = "closed"
  BY DEF Phase, Terminal

\* A step that leaves every row's account and status alone is a stutter.
LEMMA StutterMaps ==
  ASSUME UNCHANGED scans
  PROVE  UNCHANGED LedgerView
  BY DEF LedgerView

\* One row changes: its entry is all that moves.
LEMMA OneEntryMoves ==
  ASSUME NEW s \in ScanIds, NEW a, NEW st,
         scans'[s].account = a, scans'[s].status = st,
         \A t \in ScanIds : t # s => scans'[t] = scans[t]
  PROVE  LedgerView' = [LedgerView EXCEPT ![s] = Ledger!Entry(a, Phase(st))]
  BY DEF LedgerView, Ledger!Entry, Phase

LEMMA InsertMaps ==
  ASSUME TypeOK, ForeignKeys, NEW s \in ScanIds, NEW a \in Accounts, NEW t,
         scans[s].status = "unused", scans' = [scans EXCEPT ![s] = QueuedRow(a, t)]
  PROVE  Ledger!Next
  <1>1. /\ scans'[s].account = a /\ scans'[s].status = "queued"
        /\ \A r \in ScanIds : r # s => scans'[r] = scans[r]
    BY DEF TypeOK, QueuedRow
  <1>2. LedgerView' = [LedgerView EXCEPT ![s] = Ledger!Entry(a, "queued")]
    BY <1>1, OneEntryMoves, PhaseOfStatus
  <1>3. LedgerView[s] = Ledger!Entry(NoAccount, "none")
    BY EntryOfRow, PhaseOfStatus DEF ForeignKeys
  <1>4. Ledger!Submit(s, a)
    BY <1>2, <1>3 DEF Ledger!Submit
  <1>5. QED
    BY <1>4 DEF Ledger!Next

LEMMA ClaimMaps ==
  ASSUME TypeOK, RowInv, NEW w \in Workers, Claim(w)
  PROVE  Ledger!Next
  <1>1. PICK s \in Claimable :
          scans' = [scans EXCEPT ![s].status = "running",
                                 ![s].started = clock, ![s].worker = w]
    BY DEF Claim
  <1> DEFINE a == scans[s].account
  <1>2. /\ s \in ScanIds /\ scans[s].status = "queued" /\ a \in Accounts
        /\ \A t \in ScanIds : scans[t].account = a => scans[t].status # "running"
    BY DEF Claimable, Running, RowInv, ForeignKeys
  <1>3. /\ scans'[s].account = a /\ scans'[s].status = "running"
        /\ \A r \in ScanIds : r # s => scans'[r] = scans[r]
    BY <1>1, <1>2 DEF TypeOK, Row
  <1>4. LedgerView' = [LedgerView EXCEPT ![s] = Ledger!Entry(a, "running")]
    BY <1>2, <1>3, OneEntryMoves, PhaseOfStatus
  <1>5. LedgerView[s] = Ledger!Entry(a, "queued")
    BY <1>2, EntryOfRow, PhaseOfStatus
  <1>6. Ledger!InFlight(a) = {}
    <2> SUFFICES ASSUME NEW t \in ScanIds, LedgerView[t] = Ledger!Entry(a, "running")
                 PROVE  FALSE
      BY DEF Ledger!InFlight
    <2>1. scans[t].account = a /\ Phase(scans[t].status) = "running"
      <3>1. LedgerView[t].account = a /\ LedgerView[t].phase = "running"
        BY DEF Ledger!Entry
      <3>2. QED
        BY <3>1, EntryOfRow
    <2>2. scans[t].status = "running"
      BY <2>1 DEF Phase
    <2>3. QED
      BY <1>2, <2>1, <2>2
  <1>7. Ledger!Start(s, a)
    BY <1>4, <1>5, <1>6 DEF Ledger!Start
  <1>8. QED
    BY <1>2, <1>7 DEF Ledger!Next

LEMMA FinishMaps ==
  ASSUME TypeOK, RowInv, NEW w \in Workers, NEW status \in Terminal,
         Scanning(w), Finish(workers[w].scan, status)
  PROVE  Ledger!Next \/ UNCHANGED LedgerView
  <1> DEFINE h == workers[w].scan
             a == workers[w].account
  <1>1. h \in ScanIds /\ scans[h] \in Row /\ a \in Accounts
    BY DEF RowInv, HeldRows, TypeOK, ForeignKeys, Scanning
  <1>2. /\ \A s \in ScanIds : s # h => scans'[s] = scans[s]
        /\ scans'[h].account = scans[h].account
        /\ scans'[h].status = IF scans[h].status = "deleted" THEN "deleted" ELSE status
    BY <1>1 DEF Finish, TypeOK, Row
  <1>3. CASE scans[h].status = "deleted"
    <2>1. \A s \in ScanIds : scans'[s].account = scans[s].account
                              /\ scans'[s].status = scans[s].status
      BY <1>2, <1>3
    <2>2. QED
      BY <2>1 DEF LedgerView, Phase
  <1>4. CASE scans[h].status # "deleted"
    <2>1. scans[h].status = "running" /\ scans[h].account = a
      BY <1>4 DEF RowInv, HeldRows
    <2>2. LedgerView' = [LedgerView EXCEPT ![h] = Ledger!Entry(a, "closed")]
      BY <1>1, <1>2, <1>4, <2>1, OneEntryMoves, PhaseOfStatus
    <2>3. LedgerView[h] = Ledger!Entry(a, "running")
      BY <1>1, <2>1, EntryOfRow, PhaseOfStatus
    <2>4. Ledger!Close(h, a)
      BY <2>2, <2>3 DEF Ledger!Close
    <2>5. QED
      BY <1>1, <2>4 DEF Ledger!Next
  <1>5. QED
    BY <1>3, <1>4

LEMMA DeleteMaps ==
  ASSUME TypeOK, NEW a \in Accounts, DeleteAccount(a)
  PROVE  Ledger!Next
  <1>1. \A s \in ScanIds : scans'[s] = IF scans[s].account = a THEN NoRow("deleted")
                                                               ELSE scans[s]
    BY DEF DeleteAccount, Cascade
  <1>2. NoRow("deleted").account = NoAccount /\ NoRow("deleted").status = "deleted"
    BY DEF NoRow
  <1>3. \A s \in ScanIds : LedgerView'[s] = IF LedgerView[s].account = a
                                            THEN Ledger!Entry(NoAccount, "purged")
                                            ELSE LedgerView[s]
    BY <1>1, <1>2, EntryOfRow, PhaseOfStatus
  <1>4. LedgerView' = [s \in ScanIds |-> LedgerView'[s]]
    BY DEF LedgerView
  <1>5. Ledger!Purge(a)
    BY <1>3, <1>4 DEF Ledger!Purge
  <1>6. QED
    BY <1>5 DEF Ledger!Next

LEMMA StepMaps ==
  ASSUME SchedulerAssumption, IInv, [Next]_vars
  PROVE  Ledger!Next \/ UNCHANGED LedgerView
  <1> USE DEF IInv
  <1>1. CASE Tick \/ UNCHANGED vars
    BY <1>1, StutterMaps DEF Tick, vars
  <1>2. CASE InsertScan
    BY <1>2, InsertMaps DEF InsertScan, Fresh, ForeignKeys
  <1>3. ASSUME NEW a \in Accounts, DeleteAccount(a)
        PROVE  Ledger!Next
    BY <1>3, DeleteMaps
  <1>4. CASE Server
    <2>1. InsertScan \/ (\E a \in Accounts : DeleteAccount(a)) \/ UNCHANGED scans
      BY <1>4 DEF Server, PostAccount, PostScan
    <2>2. QED
      BY <1>2, <1>3, <2>1, StutterMaps
  <1>5. ASSUME NEW w \in Workers, SyncInsert(w) \/ TickInsert(w)
        PROVE  Ledger!Next \/ UNCHANGED LedgerView
    <2>1. \/ UNCHANGED scans
          \/ \E s \in ScanIds, a \in Accounts, t \in Triggers :
               scans[s].status = "unused" /\ scans' = [scans EXCEPT ![s] = QueuedRow(a, t)]
      BY <1>5 DEF SyncInsert, TickInsert, Fresh, Triggers
    <2>2. QED
      BY <2>1, InsertMaps, StutterMaps
  <1>6. ASSUME NEW w \in Workers, Claim(w)
        PROVE  Ledger!Next
    BY <1>6, ClaimMaps DEF RowInv
  <1>7. ASSUME NEW w \in Workers,
               AccountGone(w) \/ RunFail(w) \/ VerifyFinish(w) \/ RunFinish(w)
        PROVE  Ledger!Next \/ UNCHANGED LedgerView
    <2>1. PICK status \in Terminal : Finish(workers[w].scan, status)
      BY <1>7 DEF AccountGone, RunFail, VerifyFinish, RunFinish, Terminal
    <2>2. Scanning(w)
      BY <1>7 DEF AccountGone, RunFail, VerifyFinish, RunFinish, Scanning, ScanningPcs
    <2>3. QED
      BY <2>1, <2>2, FinishMaps DEF RowInv
  <1>8. ASSUME NEW w \in Workers, WorkerStep(w) \/ Crash(w) \/ Stop(w)
        PROVE  Ledger!Next \/ UNCHANGED LedgerView
    <2>1. \/ SyncInsert(w) \/ TickInsert(w) \/ Claim(w)
          \/ AccountGone(w) \/ RunFail(w) \/ VerifyFinish(w) \/ RunFinish(w)
          \/ UNCHANGED scans
      BY <1>8 DEF WorkerStep, Start, TickWithLease, TickWithoutLease, OrgList, SyncUpsert,
         SyncCheck, SyncDone, TickList, TickCheck, EnqueueDone, DrainDone, LoadAccount,
         VerifyActivate, Persist, RunActivate, Crash, Stop
    <2>2. QED
      BY <1>5, <1>6, <1>7, <2>1, StutterMaps
  <1>9. QED
    BY <1>1, <1>4, <1>8 DEF Next

\* Seen from outside, the scans table only ever submits, starts, closes and
\* purges: a scan starts once, closes once, and no two scans of an account are
\* in flight, whatever the workers, the server and the crashes interleave.
THEOREM ImplementsLedger == Spec => LedgerSpec
  <1>1. Init => Ledger!Init
    <2> SUFFICES ASSUME Init PROVE Ledger!Init
      OBVIOUS
    <2>1. \A s \in ScanIds : scans[s].account = NoAccount /\ scans[s].status = "unused"
      BY DEF Init, NoRow
    <2>2. \A s \in ScanIds : LedgerView[s] = Ledger!Entry(NoAccount, "none")
      BY <2>1, EntryOfRow, PhaseOfStatus
    <2>3. LedgerView = [s \in ScanIds |-> LedgerView[s]]
      BY DEF LedgerView
    <2>4. QED
      BY <2>2, <2>3 DEF Ledger!Init
  <1>2. IInv /\ [Next]_vars => [Ledger!Next]_LedgerView
    BY SchedulerAssumption, StepMaps
  <1>3. QED
    BY <1>1, <1>2, Invariance, PTL DEF Spec, LedgerSpec, Ledger!Spec

=============================================================================
