------------------------------- MODULE ScanJob -------------------------------
(***************************************************************************)
(* runScan (worker/jobs/scan.ts) from the claim of a scan to its outcome:  *)
(* the credentials it borrows, the passes that may fail, and the sequence  *)
(* of writes of which any may be the last.  One account, scanned again and *)
(* again, that may be deleted at any instant and registered again.         *)
(*                                                                         *)
(* Which worker runs a scan and when is Scheduler's subject, what a        *)
(* reconcile does to the rows of findings is Lifecycle's.                  *)
(***************************************************************************)
EXTENDS Integers

CONSTANTS
  Workers,    \* worker processes
  Regions,    \* the regions of the account
  Scans       \* bound: the scans that can be queued, in order

NoScan == 0

ASSUME ScanJobAssumption == Scans \subseteq Nat \ {NoScan}

VARIABLES
  account,     \* accounts.status, "absent" when there is no row
  scans,       \* the scans table
  snapshots,   \* the snapshots table with rule_results and scan_diffs, by scan
  reconciled,  \* the scan that findings were last reconciled with
  runs,        \* the locals of each worker's runScan
  secrets      \* each worker's credential objects that hold their secrets

vars == <<account, scans, snapshots, reconciled, runs, secrets>>

-----------------------------------------------------------------------------
NoDiff == -1

NoRow(status) == [status |-> status, trigger |-> "none", regions |-> {}]

NoSnapshot == [stored |-> FALSE, covered |-> {}, prev |-> NoScan,
               results |-> FALSE, diff |-> NoDiff]

NoRun == [pc |-> "idle", scan |-> NoScan, known |-> "absent", todo |-> {},
          failed |-> {}, pass |-> "none", prev |-> NoScan]

\* The scans whose snapshot is stored, and latestForAccount.
Stored == {s \in Scans : snapshots[s].stored}
Latest ==
  IF Stored = {} THEN NoScan
                 ELSE CHOOSE s \in Stored : \A t \in Stored : t <= s

Init ==
  /\ account = "pending"
  /\ scans = [s \in Scans |-> NoRow("unused")]
  /\ snapshots = [s \in Scans |-> NoSnapshot]
  /\ reconciled = NoScan
  /\ runs = [w \in Workers |-> NoRun]
  /\ secrets = [w \in Workers |-> {}]

-----------------------------------------------------------------------------
(* The API server.                                                         *)

\* POST /accounts (a verify) and the scheduler or POST .../scans (a scan).
Enqueue(s, trigger) ==
  /\ account # "absent"
  /\ scans[s].status = "unused"
  /\ \A r \in Scans : /\ r < s => scans[r].status # "unused"
                      /\ scans[r].status \notin {"queued", "running"}
  /\ scans' = [scans EXCEPT ![s] = [NoRow("queued") EXCEPT !.trigger = trigger]]
  /\ UNCHANGED <<account, snapshots, reconciled, runs, secrets>>

\* Mutant of DeleteAccount: without ON DELETE CASCADE on snapshots.
DeleteAccountKeepsSnapshots ==
  /\ account # "absent"
  /\ account' = "absent"
  /\ scans' = [s \in Scans |->
       IF scans[s].status = "unused" THEN scans[s] ELSE NoRow("deleted")]
  /\ reconciled' = NoScan
  /\ UNCHANGED <<snapshots, runs, secrets>>

\* DELETE /accounts/:id cascades to scans, snapshots, results, diffs, findings.
DeleteAccount ==
  /\ account # "absent"
  /\ account' = "absent"
  /\ scans' = [s \in Scans |->
       IF scans[s].status = "unused" THEN scans[s] ELSE NoRow("deleted")]
  /\ snapshots' = [s \in Scans |-> NoSnapshot]
  /\ reconciled' = NoScan
  /\ UNCHANGED <<runs, secrets>>

RegisterAccount ==
  /\ account = "absent"
  /\ account' = "pending"
  /\ UNCHANGED <<scans, snapshots, reconciled, runs, secrets>>

-----------------------------------------------------------------------------
(* runScan.                                                                *)

Goto(w, pc) == runs' = [runs EXCEPT ![w].pc = pc]
Gone(w) == scans[runs[w].scan].status = "deleted"

\* scans.finish: an UPDATE, which finds no row when the scan was deleted.
Finish(w, status) ==
  scans' = [scans EXCEPT ![runs[w].scan].status = IF Gone(w) THEN "deleted" ELSE status]

\* The catch: summarize and finish as failed.
Throw(w) == Goto(w, "return") /\ Finish(w, "failed")

\* claimNext, and the account as it was loaded.
Claim(w, s) ==
  /\ runs[w].pc = "idle"
  /\ scans[s].status = "queued"
  /\ scans' = [scans EXCEPT ![s].status = "running"]
  /\ runs' = [runs EXCEPT ![w] =
       [NoRun EXCEPT !.pc = "assume", !.scan = s, !.known = account]]
  /\ UNCHANGED <<account, snapshots, reconciled, secrets>>

\* sts.assumeRole
AssumeRole(w) ==
  /\ runs[w].pc = "assume"
  /\ Goto(w, IF scans[runs[w].scan].trigger = "verify" THEN "verify" ELSE "regions")
  /\ secrets' = [secrets EXCEPT ![w] = @ \cup {"master"}]
  /\ UNCHANGED <<account, scans, snapshots, reconciled>>

AssumeRoleFails(w) ==
  /\ runs[w].pc = "assume"
  /\ Throw(w)
  /\ UNCHANGED <<account, snapshots, reconciled, secrets>>

\* verify: one borrowed copy, one call.
BeginVerify(w) ==
  /\ runs[w].pc = "verify"
  /\ Goto(w, "verifying")
  /\ secrets' = [secrets EXCEPT ![w] = @ \cup {"copy"}]
  /\ UNCHANGED <<account, scans, snapshots, reconciled>>

VerifyActivate(w) ==
  /\ runs[w].pc = "verifying"
  /\ Goto(w, "verified")
  /\ secrets' = [secrets EXCEPT ![w] = @ \ {"copy"}]
  /\ account' = IF account = "absent" THEN account ELSE "active"
  /\ UNCHANGED <<scans, snapshots, reconciled>>

VerifyFinish(w) ==
  /\ runs[w].pc = "verified"
  /\ Goto(w, "return")
  /\ Finish(w, "ok")
  /\ UNCHANGED <<account, snapshots, reconciled, secrets>>

\* The call throws, or the role is that of another account.
VerifyFails(w) ==
  /\ runs[w].pc = "verifying"
  /\ Throw(w)
  /\ secrets' = [secrets EXCEPT ![w] = @ \ {"copy"}]
  /\ UNCHANGED <<account, snapshots, reconciled>>

\* account.regions or listRegions, then setRegions.
ListRegions(w) ==
  /\ runs[w].pc = "regions"
  /\ \E regions \in SUBSET Regions :
       /\ runs' = [runs EXCEPT ![w].pc = "passes", ![w].todo = regions \cup {"global"}]
       /\ scans' = [scans EXCEPT ![runs[w].scan].regions = IF Gone(w) THEN {} ELSE regions]
  /\ UNCHANGED <<account, snapshots, reconciled, secrets>>

ListRegionsFails(w) ==
  /\ runs[w].pc = "regions"
  /\ Throw(w)
  /\ UNCHANGED <<account, snapshots, reconciled, secrets>>

\* pass: the global one first, each with a copy of the master of its own.
BeginPass(w) ==
  /\ runs[w].pc = "passes"
  /\ \E p \in runs[w].todo :
       /\ "global" \in runs[w].todo => p = "global"
       /\ runs' = [runs EXCEPT ![w].pc = "passing", ![w].pass = p, ![w].todo = @ \ {p}]
  /\ secrets' = [secrets EXCEPT ![w] = @ \cup {"copy"}]
  /\ UNCHANGED <<account, scans, snapshots, reconciled>>

PassDone(w) ==
  /\ runs[w].pc = "passing"
  /\ runs' = [runs EXCEPT ![w].pc = "passes", ![w].pass = "none"]
  /\ secrets' = [secrets EXCEPT ![w] = @ \ {"copy"}]
  /\ UNCHANGED <<account, scans, snapshots, reconciled>>

\* Mutant of RegionFails: the copy is scrubbed after a pass that succeeds only.
RegionFailsUnscrubbed(w) ==
  /\ runs[w].pc = "passing"
  /\ runs[w].pass # "global"
  /\ runs' = [runs EXCEPT ![w].pc = "passes", ![w].pass = "none",
                        ![w].failed = @ \cup {runs[w].pass}]
  /\ UNCHANGED <<account, scans, snapshots, reconciled, secrets>>

\* A regional error is recorded and the scan goes on.
RegionFails(w) ==
  /\ runs[w].pc = "passing"
  /\ runs[w].pass # "global"
  /\ runs' = [runs EXCEPT ![w].pc = "passes", ![w].pass = "none",
                        ![w].failed = @ \cup {runs[w].pass}]
  /\ secrets' = [secrets EXCEPT ![w] = @ \ {"copy"}]
  /\ UNCHANGED <<account, scans, snapshots, reconciled>>

GlobalFails(w) ==
  /\ runs[w].pc = "passing"
  /\ runs[w].pass = "global"
  /\ Throw(w)
  /\ secrets' = [secrets EXCEPT ![w] = @ \ {"copy"}]
  /\ UNCHANGED <<account, snapshots, reconciled>>

\* mergeGraphs, the integrity check, the rules, and latestForAccount.
Merge(w) ==
  /\ runs[w].pc = "passes"
  /\ runs[w].todo = {}
  /\ runs' = [runs EXCEPT ![w].pc = "insert", ![w].prev = Latest]
  /\ UNCHANGED <<account, scans, snapshots, reconciled, secrets>>

MergeFails(w) ==
  /\ runs[w].pc = "passes"
  /\ runs[w].todo = {}
  /\ Throw(w)
  /\ UNCHANGED <<account, snapshots, reconciled, secrets>>

-----------------------------------------------------------------------------
(* The writes of runScan, each a transaction of its own.  Once the account  *)
(* is deleted the foreign keys of a snapshot, its results and its diff fail. *)

Covered(w) == scans[runs[w].scan].regions \ runs[w].failed

\* snapshots.insert, which reads the latest snapshot again.
InsertSnapshot(w) ==
  /\ runs[w].pc = "insert"
  /\ ~ Gone(w)
  /\ Goto(w, "results")
  /\ snapshots' = [snapshots EXCEPT ![runs[w].scan] =
       [NoSnapshot EXCEPT !.stored = TRUE, !.covered = Covered(w), !.prev = Latest]]
  /\ UNCHANGED <<account, scans, reconciled, secrets>>

InsertSnapshotFails(w) ==
  /\ runs[w].pc = "insert"
  /\ Gone(w)
  /\ Throw(w)
  /\ UNCHANGED <<account, snapshots, reconciled, secrets>>

\* ruleResults.replaceForSnapshot; without any result nothing is inserted.
WriteResults(w) ==
  /\ runs[w].pc = "results"
  /\ Goto(w, "reconcile")
  /\ snapshots' = [snapshots EXCEPT ![runs[w].scan].results = ~ Gone(w)]
  /\ UNCHANGED <<account, scans, reconciled, secrets>>

\* The snapshot is gone, or two results have the same rule and resource.
WriteResultsFails(w) ==
  /\ runs[w].pc = "results"
  /\ Throw(w)
  /\ UNCHANGED <<account, snapshots, reconciled, secrets>>

\* Mutant of Reconcile: a partial scan does not touch the findings.
ReconcileIfOk(w) ==
  /\ runs[w].pc = "reconcile"
  /\ Goto(w, "diff")
  /\ reconciled' = IF account = "absent" \/ runs[w].failed # {} THEN reconciled ELSE runs[w].scan
  /\ UNCHANGED <<account, scans, snapshots, secrets>>

\* findings.reconcile: an account that is absent has no findings to change.
Reconcile(w) ==
  /\ runs[w].pc = "reconcile"
  /\ Goto(w, "diff")
  /\ reconciled' = IF account = "absent" THEN reconciled ELSE runs[w].scan
  /\ UNCHANGED <<account, scans, snapshots, secrets>>

\* A new finding whose account is absent.
ReconcileFails(w) ==
  /\ runs[w].pc = "reconcile"
  /\ account = "absent"
  /\ Throw(w)
  /\ UNCHANGED <<account, snapshots, reconciled, secrets>>

\* Mutant of SetDiff: the previous snapshot is looked up once more.
SetDiffToLatest(w) ==
  /\ runs[w].pc = "diff"
  /\ ~ Gone(w)
  /\ Goto(w, "finish")
  /\ snapshots' = [snapshots EXCEPT ![runs[w].scan].diff = Latest]
  /\ UNCHANGED <<account, scans, reconciled, secrets>>

\* diffSnapshots and diffs.set
SetDiff(w) ==
  /\ runs[w].pc = "diff"
  /\ ~ Gone(w)
  /\ Goto(w, "finish")
  /\ snapshots' = [snapshots EXCEPT ![runs[w].scan].diff = runs[w].prev]
  /\ UNCHANGED <<account, scans, reconciled, secrets>>

SetDiffFails(w) ==
  /\ runs[w].pc = "diff"
  /\ Gone(w)
  /\ Throw(w)
  /\ UNCHANGED <<account, snapshots, reconciled, secrets>>

\* Mutant of FinishScan: failed regions are forgotten.
FinishScanOk(w) ==
  /\ runs[w].pc = "finish"
  /\ Goto(w, "activate")
  /\ Finish(w, "ok")
  /\ UNCHANGED <<account, snapshots, reconciled, secrets>>

FinishScan(w) ==
  /\ runs[w].pc = "finish"
  /\ Goto(w, "activate")
  /\ Finish(w, IF runs[w].failed = {} THEN "ok" ELSE "partial")
  /\ UNCHANGED <<account, snapshots, reconciled, secrets>>

\* setStatus, unless the account was active when it was loaded.
Activate(w) ==
  /\ runs[w].pc = "activate"
  /\ Goto(w, "return")
  /\ account' = IF account = "absent" \/ runs[w].known = "active" THEN account ELSE "active"
  /\ UNCHANGED <<scans, snapshots, reconciled, secrets>>

\* Mutant of Return: the master copy is not scrubbed.
ReturnUnscrubbed(w) ==
  /\ runs[w].pc = "return"
  /\ runs' = [runs EXCEPT ![w] = NoRun]
  /\ UNCHANGED <<account, scans, snapshots, reconciled, secrets>>

\* The finally of runScan.
Return(w) ==
  /\ runs[w].pc = "return"
  /\ runs' = [runs EXCEPT ![w] = NoRun]
  /\ secrets' = [secrets EXCEPT ![w] = @ \ {"master"}]
  /\ UNCHANGED <<account, scans, snapshots, reconciled>>

\* The process ends and its memory with it; the scan stays `running`.
Crash(w) ==
  /\ runs[w].pc # "idle"
  /\ runs' = [runs EXCEPT ![w] = NoRun]
  /\ secrets' = [secrets EXCEPT ![w] = {}]
  /\ UNCHANGED <<account, scans, snapshots, reconciled>>

Server ==
  \/ \E s \in Scans, trigger \in {"verify", "scan"} : Enqueue(s, trigger)
  \/ DeleteAccount \/ RegisterAccount

RunStep(w) ==
  \/ AssumeRole(w) \/ AssumeRoleFails(w)
  \/ BeginVerify(w) \/ VerifyActivate(w) \/ VerifyFinish(w) \/ VerifyFails(w)
  \/ ListRegions(w) \/ ListRegionsFails(w)
  \/ BeginPass(w) \/ PassDone(w) \/ RegionFails(w) \/ GlobalFails(w)
  \/ Merge(w) \/ MergeFails(w)
  \/ InsertSnapshot(w) \/ InsertSnapshotFails(w) \/ WriteResults(w) \/ WriteResultsFails(w)
  \/ Reconcile(w) \/ ReconcileFails(w) \/ SetDiff(w) \/ SetDiffFails(w)
  \/ FinishScan(w) \/ Activate(w) \/ Return(w)

Next ==
  \/ Server
  \/ \E w \in Workers : \/ \E s \in Scans : Claim(w, s)
                       \/ RunStep(w)
                       \/ Crash(w)

Spec == Init /\ [][Next]_vars

\* Every call to AWS answers or throws, so a run goes on unless its process ends.
FairSpec == Spec /\ \A w \in Workers : WF_vars(RunStep(w))

-----------------------------------------------------------------------------
(* Properties.                                                             *)

Terminal == {"ok", "partial", "failed"}
Pcs == {"idle", "assume", "verify", "verifying", "verified", "regions", "passes",
        "passing", "insert", "results", "reconcile", "diff", "finish", "activate", "return"}

ScanRow == [status : {"unused", "queued", "running", "deleted"} \cup Terminal,
            trigger : {"none", "verify", "scan"}, regions : SUBSET Regions]

SnapshotRow == [stored : BOOLEAN, covered : SUBSET Regions, prev : Scans \cup {NoScan},
                results : BOOLEAN, diff : Scans \cup {NoScan, NoDiff}]

Run == [pc : Pcs, scan : Scans \cup {NoScan}, known : {"absent", "pending", "active"},
        todo : SUBSET (Regions \cup {"global"}), failed : SUBSET Regions,
        pass : Regions \cup {"global", "none"}, prev : Scans \cup {NoScan}]

\* A snapshot has a scan, a scan has an account.
ForeignKeys ==
  \A s \in Scans :
    /\ snapshots[s].stored => scans[s].status \notin {"unused", "queued", "deleted"}
    /\ scans[s].status \notin {"unused", "deleted"} => account # "absent"

\* The types of the variables, and the foreign keys of the tables.
TypeOK ==
  /\ account \in {"absent", "pending", "active"}
  /\ scans \in [Scans -> ScanRow]
  /\ snapshots \in [Scans -> SnapshotRow]
  /\ reconciled \in Scans \cup {NoScan}
  /\ runs \in [Workers -> Run]
  /\ secrets \in [Workers -> SUBSET {"master", "copy"}]
  /\ ForeignKeys

\* A scan that ended well has a snapshot, its results and its diff, and `ok` means
\* that every region is covered, `partial` that some are not.
OutcomesBacked ==
  \A s \in Scans :
    (scans[s].trigger = "scan" /\ scans[s].status \in {"ok", "partial"}) =>
      /\ snapshots[s].stored /\ snapshots[s].results /\ snapshots[s].diff # NoDiff
      /\ snapshots[s].covered \subseteq scans[s].regions
      /\ scans[s].status = "ok" <=> snapshots[s].covered = scans[s].regions

\* A run that returns has left an outcome unless its scan was deleted, and the
\* outcome is true of what was stored.
OutcomeTrue ==
  /\ \A w \in Workers :
       runs[w].pc = "return" => scans[runs[w].scan].status \in Terminal \cup {"deleted"}
  /\ OutcomesBacked

\* The snapshots of an account form one chain, and the diff stored with a
\* snapshot is the one against its predecessor in that chain, although the
\* predecessor is read twice, before and inside the insert.
DiffChain ==
  \A s \in Stored :
    /\ snapshots[s].prev < s
    /\ \A t \in Stored : t < s => t <= snapshots[s].prev
    /\ snapshots[s].prev # NoScan => snapshots[s].prev \in Stored
    /\ snapshots[s].diff \in {NoDiff, snapshots[s].prev}

\* Secrets live only in a run, a borrowed copy only while its pass runs, whatever
\* pass or statement fails.
SecretsBorrowed ==
  \A w \in Workers :
    /\ secrets[w] # {} => runs[w].pc \notin {"idle", "assume"}
    /\ "copy" \in secrets[w] => runs[w].pc \in {"passing", "verifying"}

\* The findings never stay behind the last scan that completed, unless a scan
\* that was deleted with the account reconciled into its next life.
FindingsFollow ==
  \A s \in Scans :
    (scans[s].trigger = "scan" /\ scans[s].status \in {"ok", "partial"}) =>
      /\ reconciled # NoScan
      /\ s <= reconciled \/ scans[reconciled].status = "deleted"

\* Every secret is scrubbed in the end.
SecretsScrubbed == \A w \in Workers : secrets[w] # {} ~> secrets[w] = {}
=============================================================================
