---------------------------- MODULE ScanJobProofs ----------------------------
(***************************************************************************)
(* Theorems of ScanJob for every set of workers, regions and scans.        *)
(***************************************************************************)
EXTENDS ScanJob, TLAPS

-----------------------------------------------------------------------------
(* The inductive invariant, in the order in which its parts are proved.    *)

Busy(w) == runs[w].pc # "idle"
Working == Pcs \ {"idle", "activate", "return"}
AfterInsert == {"results", "reconcile", "diff", "finish"}

\* The row of a run is its own: `running` until the run finishes it.
RunRow(w) ==
  /\ runs[w].scan \in Scans
  /\ runs[w].pc \in Working => scans[runs[w].scan].status \in {"running", "deleted"}
  /\ runs[w].pc \in {"activate", "return"} =>
       scans[runs[w].scan].status \in Terminal \cup {"deleted"}
  /\ runs[w].pc = "passing" => runs[w].pass \in Regions \cup {"global"}
  /\ runs[w].pc \in {"verify", "verifying", "verified"} => scans[runs[w].scan].trigger # "scan"

RunRows == \A w \in Workers : Busy(w) => RunRow(w)

RunsApart ==
  \A v, w \in Workers : (Busy(v) /\ Busy(w) /\ runs[v].scan = runs[w].scan) => v = w

\* The stored snapshots have a last one, also when Scans is infinite.
LatestExists == Stored = {} \/ \E s \in Stored : \A t \in Stored : t <= s

\* The parts of TypeOK.
ScansTyped == scans \in [Scans -> ScanRow]
SnapshotsTyped == snapshots \in [Scans -> SnapshotRow]
RunsTyped == runs \in [Workers -> Run]
RestTyped == /\ account \in {"absent", "pending", "active"}
             /\ reconciled \in Scans \cup {NoScan}
             /\ secrets \in [Workers -> SUBSET {"master", "copy"}]

\* What a run relies on while its scan exists.
RunData(w) ==
  LET r == runs[w]  regions == scans[r.scan].regions  row == snapshots[r.scan] IN
  /\ r.pc \in {"assume", "regions"} => r.failed = {}
  /\ r.pc \in {"passes", "passing"} => r.todo \subseteq regions \cup {"global"}
  /\ r.pc = "passing" => r.pass \in regions \cup {"global"}
  /\ r.pc \in {"passes", "passing", "insert"} \cup AfterInsert => r.failed \subseteq regions
  /\ r.pc \in AfterInsert => row.stored /\ row.covered = Covered(w)
  /\ r.pc \in {"reconcile", "diff", "finish"} => row.results
  /\ r.pc = "finish" => row.diff # NoDiff

RunsData == \A w \in Workers : (Busy(w) /\ ~ Gone(w)) => RunData(w)

\* Scans are queued one after the other has ended.
InOrder ==
  \A r, s \in Scans :
    (r < s /\ scans[s].status # "unused") =>
      scans[r].status \notin {"unused", "queued", "running"}

\* The predecessor that a run read before its insert is the one it inserts.
PrevRead ==
  \A w \in Workers :
    (Busy(w) /\ ~ Gone(w)) =>
      /\ runs[w].pc = "insert" => runs[w].prev = Latest
      /\ runs[w].pc \in Working \ AfterInsert => ~ snapshots[runs[w].scan].stored
      /\ runs[w].pc \in AfterInsert => snapshots[runs[w].scan].prev = runs[w].prev

\* A run that reconciled is the last that did, but for one that was deleted.
RunReconciled ==
  \A w \in Workers :
    (runs[w].pc \in {"diff", "finish"} /\ ~ Gone(w)) =>
      /\ reconciled # NoScan
      /\ reconciled = runs[w].scan \/ scans[reconciled].status = "deleted"

IInv == /\ TypeOK /\ RunRows /\ RunsApart /\ LatestExists
        /\ SecretsBorrowed
        /\ RunsData /\ OutcomesBacked
        /\ InOrder /\ PrevRead /\ DiffChain
        /\ RunReconciled /\ FindingsFollow

-----------------------------------------------------------------------------
(* What the helpers of the model do.                                       *)

\* latestForAccount returns the last stored snapshot.
LEMMA LatestIsLast ==
  ASSUME LatestExists
  PROVE  /\ Latest \in Stored \cup {NoScan}
         /\ Stored # {} => Latest \in Stored
         /\ \A t \in Stored : t <= Latest
  BY DEF LatestExists, Latest

\* What Goto does to the locals of a run.
LEMMA GotoRuns ==
  ASSUME TypeOK, NEW w \in Workers, NEW pc \in Pcs, Goto(w, pc)
  PROVE  /\ runs' \in [Workers -> Run]
         /\ runs'[w].pc = pc
         /\ runs'[w].scan = runs[w].scan
         /\ runs'[w].failed = runs[w].failed
         /\ runs'[w].prev = runs[w].prev
         /\ \A v \in Workers \ {w} : runs'[v] = runs[v]
  <1>1. runs[w] \in Run
    BY DEF TypeOK
  <1>2. [runs[w] EXCEPT !.pc = pc] \in Run
    BY <1>1 DEF Run
  <1>3. runs' = [runs EXCEPT ![w] = [runs[w] EXCEPT !.pc = pc]]
    BY DEF Goto, TypeOK
  <1>4. QED
    BY <1>1, <1>2, <1>3 DEF TypeOK, Run

\* What Finish does to the rows of scans.
LEMMA FinishScans ==
  ASSUME TypeOK, NEW w \in Workers, runs[w].scan \in Scans,
         NEW status \in Terminal, Finish(w, status)
  PROVE  /\ scans' \in [Scans -> ScanRow]
         /\ scans'[runs[w].scan].status = IF Gone(w) THEN "deleted" ELSE status
         /\ scans'[runs[w].scan].trigger = scans[runs[w].scan].trigger
         /\ scans'[runs[w].scan].regions = scans[runs[w].scan].regions
         /\ \A s \in Scans \ {runs[w].scan} : scans'[s] = scans[s]
  <1> DEFINE s == runs[w].scan
             now == IF Gone(w) THEN "deleted" ELSE status
  <1>1. scans[s] \in ScanRow /\ now \in Terminal \cup {"deleted"}
    BY DEF TypeOK
  <1>2. scans' = [scans EXCEPT ![s].status = now]
    BY DEF Finish
  <1> HIDE DEF now
  <1>3. [scans[s] EXCEPT !.status = now] \in ScanRow
    BY <1>1 DEF ScanRow, Terminal
  <1>4. /\ scans' \in [Scans -> ScanRow]
        /\ scans'[s].status = now /\ scans'[s].trigger = scans[s].trigger
        /\ scans'[s].regions = scans[s].regions
        /\ \A t \in Scans \ {s} : scans'[t] = scans[t]
    BY <1>1, <1>2, <1>3 DEF TypeOK, ScanRow
  <1>5. QED
    BY <1>4 DEF now

\* The steps that end in the catch.
Fails(w) ==
  \/ AssumeRoleFails(w) \/ VerifyFails(w) \/ ListRegionsFails(w) \/ GlobalFails(w)
  \/ MergeFails(w) \/ InsertSnapshotFails(w) \/ WriteResultsFails(w)
  \/ ReconcileFails(w) \/ SetDiffFails(w)

\* What they do: the run returns and its row is `failed`.
LEMMA FailsRun ==
  ASSUME TypeOK, RunRows, NEW w \in Workers, Fails(w)
  PROVE  /\ Busy(w) /\ runs[w].scan \in Scans
         /\ scans[runs[w].scan].status \in {"running", "deleted"}
         /\ account' = account /\ snapshots' = snapshots /\ reconciled' = reconciled
         /\ secrets' \in {secrets, [secrets EXCEPT ![w] = @ \ {"copy"}]}
         /\ runs' \in [Workers -> Run]
         /\ runs'[w].pc = "return" /\ runs'[w].scan = runs[w].scan
         /\ \A v \in Workers \ {w} : runs'[v] = runs[v]
         /\ scans' \in [Scans -> ScanRow]
         /\ scans'[runs[w].scan].status = IF Gone(w) THEN "deleted" ELSE "failed"
         /\ scans'[runs[w].scan].trigger = scans[runs[w].scan].trigger
         /\ \A s \in Scans \ {runs[w].scan} : scans'[s] = scans[s]
  <1>1. /\ Throw(w) /\ Busy(w) /\ runs[w].pc \in Working
        /\ account' = account /\ snapshots' = snapshots /\ reconciled' = reconciled
        /\ secrets' \in {secrets, [secrets EXCEPT ![w] = @ \ {"copy"}]}
    BY DEF Fails, Busy, Working, Pcs, AssumeRoleFails, VerifyFails, ListRegionsFails,
       GlobalFails, MergeFails, InsertSnapshotFails, WriteResultsFails, ReconcileFails,
       SetDiffFails
  <1>2. /\ runs[w].scan \in Scans
        /\ scans[runs[w].scan].status \in {"running", "deleted"}
    BY <1>1 DEF RunRows, RunRow
  <1>3. Goto(w, "return") /\ Finish(w, "failed")
    BY <1>1 DEF Throw
  <1>4. "return" \in Pcs /\ "failed" \in Terminal
    BY DEF Pcs, Terminal
  <1>5. QED
    BY <1>1, <1>2, <1>3, <1>4, GotoRuns, FinishScans

\* The steps that change the locals of a run only.
Moves(w) ==
  \/ AssumeRole(w) \/ BeginVerify(w) \/ BeginPass(w) \/ PassDone(w) \/ RegionFails(w)
  \/ Merge(w) \/ Return(w) \/ Crash(w)

\* They leave the tables alone.
LEMMA MovesFrame ==
  ASSUME NEW w \in Workers, Moves(w)
  PROVE  UNCHANGED <<account, scans, snapshots, reconciled>>
  BY DEF Moves, AssumeRole, BeginVerify, BeginPass, PassDone, RegionFails, Merge, Return,
     Crash

\* It depends on the stored snapshots only.
LEMMA LatestSame ==
  ASSUME snapshots' = snapshots
  PROVE  Latest' = Latest /\ Stored' = Stored
  BY DEF Latest, Stored

\* It depends on which are stored, not on what they hold.
LEMMA StoredSame ==
  ASSUME \A s \in Scans : snapshots'[s].stored = snapshots[s].stored
  PROVE  Stored' = Stored /\ Latest' = Latest
  <1>1. Stored' = Stored
    BY DEF Stored
  <1>2. QED
    BY <1>1 DEF Latest

-----------------------------------------------------------------------------
(* Every step preserves every part of the invariant.                       *)

\* The rows of scans keep their type.
LEMMA ScansStayTyped ==
  ASSUME TypeOK, RunRows, RunsApart, LatestExists, Next
  PROVE  ScansTyped'
  <1>1. ASSUME NEW s \in Scans, NEW trigger \in {"verify", "scan"}, Enqueue(s, trigger)
        PROVE  ScansTyped'
    BY <1>1 DEF Enqueue, NoRow, TypeOK, ScansTyped, ScanRow
  <1>2. CASE DeleteAccount
    BY <1>2 DEF DeleteAccount, NoRow, NoSnapshot, NoScan, NoDiff, TypeOK, ScansTyped,
       ScanRow
  <1>3. CASE RegisterAccount
    BY <1>3 DEF RegisterAccount, TypeOK, ScansTyped
  <1>4. ASSUME NEW w \in Workers, NEW s \in Scans, Claim(w, s) PROVE ScansTyped'
    BY <1>4 DEF Claim, NoRun, NoScan, TypeOK, ScansTyped, ScanRow, Terminal
  <1>5. ASSUME NEW w \in Workers, VerifyActivate(w) PROVE ScansTyped'
    BY <1>5 DEF VerifyActivate, Goto, TypeOK, ScansTyped
  <1>6. ASSUME NEW w \in Workers, VerifyFinish(w) PROVE ScansTyped'
    BY <1>6, FinishScans DEF VerifyFinish, TypeOK, ScansTyped, RunRows, RunRow, Busy,
       Terminal
  <1>7. ASSUME NEW w \in Workers, ListRegions(w) PROVE ScansTyped'
    <2>1. PICK regions \in SUBSET Regions :
            scans' = [scans EXCEPT ![runs[w].scan].regions = IF Gone(w) THEN {} ELSE regions]
      BY <1>7 DEF ListRegions
    <2> DEFINE listed == IF Gone(w) THEN {} ELSE regions
    <2>2. runs[w].scan \in Scans /\ listed \in SUBSET Regions
      BY <1>7 DEF ListRegions, RunRows, Busy, RunRow
    <2> HIDE DEF listed
    <2>3. [scans[runs[w].scan] EXCEPT !.regions = listed] \in ScanRow
      BY <2>2 DEF TypeOK, ScanRow
    <2>4. QED
      BY <2>1, <2>2, <2>3 DEF TypeOK, ScansTyped, listed
  <1>8. ASSUME NEW w \in Workers, InsertSnapshot(w) PROVE ScansTyped'
    BY <1>8 DEF InsertSnapshot, Goto, NoSnapshot, NoScan, NoDiff, Covered, TypeOK,
       ScansTyped
  <1>9. ASSUME NEW w \in Workers, WriteResults(w) PROVE ScansTyped'
    BY <1>9 DEF WriteResults, Goto, TypeOK, ScansTyped
  <1>10. ASSUME NEW w \in Workers, Reconcile(w) PROVE ScansTyped'
    BY <1>10 DEF Reconcile, Goto, TypeOK, ScansTyped
  <1>11. ASSUME NEW w \in Workers, SetDiff(w) PROVE ScansTyped'
    BY <1>11 DEF SetDiff, Goto, TypeOK, ScansTyped
  <1>12. ASSUME NEW w \in Workers, FinishScan(w) PROVE ScansTyped'
    BY <1>12, FinishScans DEF FinishScan, TypeOK, ScansTyped, RunRows, RunRow, Busy,
       Terminal
  <1>13. ASSUME NEW w \in Workers, Activate(w) PROVE ScansTyped'
    BY <1>13 DEF Activate, Goto, TypeOK, ScansTyped
  <1>14. ASSUME NEW w \in Workers, Fails(w) PROVE ScansTyped'
    BY <1>14, FailsRun DEF ScansTyped, Busy, Terminal
  <1>15. ASSUME NEW w \in Workers, Moves(w) PROVE ScansTyped'
    BY <1>15, MovesFrame DEF TypeOK, ScansTyped
  <1>16. QED
    BY <1>1, <1>2, <1>3, <1>4, <1>5, <1>6, <1>7, <1>8, <1>9, <1>10, <1>11, <1>12, <1>13,
       <1>14, <1>15 DEF Next, Server, RunStep, Fails, Moves
\* The rows of snapshots keep their type.
LEMMA SnapshotsStayTyped ==
  ASSUME TypeOK, RunRows, RunsApart, LatestExists, Next
  PROVE  SnapshotsTyped'
  <1>1. ASSUME NEW s \in Scans, NEW trigger \in {"verify", "scan"}, Enqueue(s, trigger)
        PROVE  SnapshotsTyped'
    BY <1>1 DEF Enqueue, NoRow, TypeOK, SnapshotsTyped, Stored
  <1>2. CASE DeleteAccount
    BY <1>2 DEF DeleteAccount, NoRow, NoSnapshot, NoScan, NoDiff, TypeOK, SnapshotsTyped,
       SnapshotRow, ScanRow, Stored
  <1>3. CASE RegisterAccount
    BY <1>3 DEF RegisterAccount, TypeOK, SnapshotsTyped, Stored
  <1>4. ASSUME NEW w \in Workers, NEW s \in Scans, Claim(w, s) PROVE SnapshotsTyped'
    BY <1>4 DEF Claim, NoRun, NoScan, TypeOK, SnapshotsTyped, Stored
  <1>5. ASSUME NEW w \in Workers, VerifyActivate(w) PROVE SnapshotsTyped'
    BY <1>5 DEF VerifyActivate, Goto, TypeOK, SnapshotsTyped, Stored
  <1>6. ASSUME NEW w \in Workers, VerifyFinish(w) PROVE SnapshotsTyped'
    BY <1>6 DEF VerifyFinish, Goto, Finish, TypeOK, SnapshotsTyped, Stored
  <1>7. ASSUME NEW w \in Workers, ListRegions(w) PROVE SnapshotsTyped'
    BY <1>7 DEF ListRegions, TypeOK, SnapshotsTyped, Stored
  <1>8. ASSUME NEW w \in Workers, InsertSnapshot(w) PROVE SnapshotsTyped'
    BY <1>8, LatestIsLast DEF InsertSnapshot, NoSnapshot, NoScan, NoDiff, Covered, TypeOK,
       SnapshotsTyped, SnapshotRow, ScanRow, Stored
  <1>9. ASSUME NEW w \in Workers, WriteResults(w) PROVE SnapshotsTyped'
    <2> DEFINE written == ~ Gone(w)
    <2>1. runs[w].scan \in Scans /\ written \in BOOLEAN
      BY <1>9 DEF WriteResults, RunRows, Busy, RunRow
    <2>2. snapshots' = [snapshots EXCEPT ![runs[w].scan].results = written]
      BY <1>9 DEF WriteResults
    <2> HIDE DEF written
    <2>3. [snapshots[runs[w].scan] EXCEPT !.results = written] \in SnapshotRow
      BY <2>1 DEF TypeOK, SnapshotRow
    <2>4. QED
      BY <2>1, <2>2, <2>3 DEF TypeOK, SnapshotsTyped
  <1>10. ASSUME NEW w \in Workers, Reconcile(w) PROVE SnapshotsTyped'
    BY <1>10 DEF Reconcile, Goto, TypeOK, SnapshotsTyped, Stored
  <1>11. ASSUME NEW w \in Workers, SetDiff(w) PROVE SnapshotsTyped'
    <2>1. runs[w].scan \in Scans /\ runs[w].prev \in Scans \cup {NoScan}
      BY <1>11 DEF SetDiff, RunRows, Busy, RunRow, TypeOK, Run
    <2>2. [snapshots[runs[w].scan] EXCEPT !.diff = runs[w].prev] \in SnapshotRow
      BY <2>1 DEF TypeOK, SnapshotRow
    <2>3. QED
      BY <1>11, <2>1, <2>2 DEF SetDiff, TypeOK, SnapshotsTyped
  <1>12. ASSUME NEW w \in Workers, FinishScan(w) PROVE SnapshotsTyped'
    BY <1>12 DEF FinishScan, Goto, Finish, TypeOK, SnapshotsTyped, Stored
  <1>13. ASSUME NEW w \in Workers, Activate(w) PROVE SnapshotsTyped'
    BY <1>13 DEF Activate, Goto, TypeOK, SnapshotsTyped, Stored
  <1>14. ASSUME NEW w \in Workers, Fails(w) PROVE SnapshotsTyped'
    BY <1>14, FailsRun DEF TypeOK, SnapshotsTyped
  <1>15. ASSUME NEW w \in Workers, Moves(w) PROVE SnapshotsTyped'
    BY <1>15, MovesFrame DEF TypeOK, SnapshotsTyped, Stored
  <1>16. QED
    BY <1>1, <1>2, <1>3, <1>4, <1>5, <1>6, <1>7, <1>8, <1>9, <1>10, <1>11, <1>12, <1>13,
       <1>14, <1>15 DEF Next, Server, RunStep, Fails, Moves
\* The locals of the runs keep their type.
LEMMA RunsStayTyped ==
  ASSUME TypeOK, RunRows, RunsApart, LatestExists, Next
  PROVE  RunsTyped'
  <1>1. ASSUME NEW s \in Scans, NEW trigger \in {"verify", "scan"}, Enqueue(s, trigger)
        PROVE  RunsTyped'
    BY <1>1 DEF Enqueue, NoRow, TypeOK, RunsTyped, Run, Pcs, Terminal
  <1>2. CASE DeleteAccount
    BY <1>2 DEF DeleteAccount, NoRow, NoSnapshot, NoScan, NoDiff, TypeOK, RunsTyped
  <1>3. CASE RegisterAccount
    BY <1>3 DEF RegisterAccount, TypeOK, RunsTyped, Run, Pcs, Terminal
  <1>4. ASSUME NEW w \in Workers, NEW s \in Scans, Claim(w, s) PROVE RunsTyped'
    BY <1>4 DEF Claim, NoRun, NoScan, TypeOK, RunsTyped, Run, Pcs, Terminal
  <1>5. ASSUME NEW w \in Workers, AssumeRole(w) PROVE RunsTyped'
    BY <1>5, GotoRuns DEF AssumeRole, TypeOK, RunsTyped, Run, Pcs, Terminal
  <1>6. ASSUME NEW w \in Workers, BeginVerify(w) PROVE RunsTyped'
    BY <1>6, GotoRuns DEF BeginVerify, TypeOK, RunsTyped, Run, Pcs, Terminal
  <1>7. ASSUME NEW w \in Workers, VerifyActivate(w) PROVE RunsTyped'
    BY <1>7, GotoRuns DEF VerifyActivate, TypeOK, RunsTyped, Run, Pcs, Terminal
  <1>8. ASSUME NEW w \in Workers, VerifyFinish(w) PROVE RunsTyped'
    BY <1>8, GotoRuns DEF VerifyFinish, TypeOK, RunsTyped, Pcs, Terminal
  <1>9. ASSUME NEW w \in Workers, ListRegions(w) PROVE RunsTyped'
    <2>1. PICK regions \in SUBSET Regions :
            runs' = [runs EXCEPT ![w].pc = "passes", ![w].todo = regions \cup {"global"}]
      BY <1>9 DEF ListRegions
    <2>2. runs[w] \in Run
      BY DEF TypeOK
    <2>3. [runs[w] EXCEPT !.pc = "passes", !.todo = regions \cup {"global"}] \in Run
      BY <2>2 DEF Run, Pcs
    <2>4. QED
      BY <2>1, <2>3 DEF TypeOK, RunsTyped
  <1>10. ASSUME NEW w \in Workers, BeginPass(w) PROVE RunsTyped'
    BY <1>10 DEF BeginPass, TypeOK, RunsTyped, Run, Pcs, Terminal
  <1>11. ASSUME NEW w \in Workers, PassDone(w) PROVE RunsTyped'
    <2>1. runs[w] \in Run
      BY DEF TypeOK
    <2>2. [runs[w] EXCEPT !.pc = "passes", !.pass = "none"] \in Run
      BY <1>11, <2>1 DEF PassDone, Run, Pcs
    <2>3. QED
      BY <1>11, <2>2 DEF PassDone, TypeOK, RunsTyped
  <1>12. ASSUME NEW w \in Workers, RegionFails(w) PROVE RunsTyped'
    <2>1. runs[w] \in Run
      BY DEF TypeOK
    <2>2. [runs[w] EXCEPT !.pc = "passes", !.pass = "none",
                          !.failed = @ \cup {runs[w].pass}] \in Run
      BY <1>12, <2>1 DEF RegionFails, Run, Pcs, RunRows, RunRow, Busy
    <2>3. QED
      BY <1>12, <2>2 DEF RegionFails, TypeOK, RunsTyped
  <1>13. ASSUME NEW w \in Workers, Merge(w) PROVE RunsTyped'
    <2>1. runs[w] \in Run
      BY DEF TypeOK
    <2>2. [runs[w] EXCEPT !.pc = "insert", !.prev = Latest] \in Run
      BY <1>13, <2>1, LatestIsLast DEF Merge, Run, Pcs, Stored
    <2>3. QED
      BY <1>13, <2>2 DEF Merge, TypeOK, RunsTyped
  <1>14. ASSUME NEW w \in Workers, InsertSnapshot(w) PROVE RunsTyped'
    BY <1>14, GotoRuns DEF InsertSnapshot, NoSnapshot, NoScan, NoDiff, Covered, TypeOK,
       RunsTyped, Pcs, Terminal
  <1>15. ASSUME NEW w \in Workers, WriteResults(w) PROVE RunsTyped'
    BY <1>15, GotoRuns DEF WriteResults, TypeOK, RunsTyped, Pcs, Terminal
  <1>16. ASSUME NEW w \in Workers, Reconcile(w) PROVE RunsTyped'
    BY <1>16, GotoRuns DEF Reconcile, TypeOK, RunsTyped, Run, Pcs, Terminal
  <1>17. ASSUME NEW w \in Workers, SetDiff(w) PROVE RunsTyped'
    BY <1>17, GotoRuns DEF SetDiff, TypeOK, RunsTyped, Pcs, Terminal
  <1>18. ASSUME NEW w \in Workers, FinishScan(w) PROVE RunsTyped'
    BY <1>18, GotoRuns DEF FinishScan, TypeOK, RunsTyped, Pcs, Terminal
  <1>19. ASSUME NEW w \in Workers, Activate(w) PROVE RunsTyped'
    BY <1>19, GotoRuns DEF Activate, TypeOK, RunsTyped, Run, Pcs, Terminal
  <1>20. ASSUME NEW w \in Workers, Return(w) PROVE RunsTyped'
    BY <1>20 DEF Return, NoRun, NoScan, TypeOK, RunsTyped, Run, Pcs, Terminal
  <1>21. ASSUME NEW w \in Workers, Crash(w) PROVE RunsTyped'
    BY <1>21 DEF Crash, NoRun, NoScan, TypeOK, RunsTyped, Run, Pcs, Terminal
  <1>22. ASSUME NEW w \in Workers, Fails(w) PROVE RunsTyped'
    BY <1>22, FailsRun DEF RunsTyped, Pcs, Terminal
  <1>23. QED
    BY <1>1, <1>2, <1>3, <1>4, <1>5, <1>6, <1>7, <1>8, <1>9, <1>10, <1>11, <1>12, <1>13,
       <1>14, <1>15, <1>16, <1>17, <1>18, <1>19, <1>20, <1>21, <1>22 DEF Next, Server,
       RunStep, Fails

\* So do the other variables.
LEMMA RestStaysTyped ==
  ASSUME TypeOK, RunRows, RunsApart, LatestExists, Next
  PROVE  RestTyped'
  <1>1. ASSUME NEW s \in Scans, NEW trigger \in {"verify", "scan"}, Enqueue(s, trigger)
        PROVE  RestTyped'
    BY <1>1 DEF Enqueue, NoRow, TypeOK, RestTyped, RunRows, RunRow, Busy
  <1>2. CASE DeleteAccount
    BY <1>2 DEF DeleteAccount, NoRow, NoSnapshot, NoScan, NoDiff, TypeOK, RestTyped
  <1>3. CASE RegisterAccount
    BY <1>3 DEF RegisterAccount, TypeOK, RestTyped, RunRows, RunRow, Busy
  <1>4. ASSUME NEW w \in Workers, NEW s \in Scans, Claim(w, s) PROVE RestTyped'
    BY <1>4 DEF Claim, NoRun, NoScan, TypeOK, RestTyped
  <1>5. ASSUME NEW w \in Workers, AssumeRole(w) PROVE RestTyped'
    BY <1>5 DEF AssumeRole, TypeOK, RestTyped, RunRows, RunRow, Busy
  <1>6. ASSUME NEW w \in Workers, BeginVerify(w) PROVE RestTyped'
    BY <1>6 DEF BeginVerify, TypeOK, RestTyped, RunRows, RunRow, Busy
  <1>7. ASSUME NEW w \in Workers, VerifyActivate(w) PROVE RestTyped'
    BY <1>7 DEF VerifyActivate, TypeOK, RestTyped, RunRows, RunRow, Busy
  <1>8. ASSUME NEW w \in Workers, VerifyFinish(w) PROVE RestTyped'
    BY <1>8 DEF VerifyFinish, Goto, Finish, TypeOK, RestTyped
  <1>9. ASSUME NEW w \in Workers, ListRegions(w) PROVE RestTyped'
    BY <1>9 DEF ListRegions, Gone, TypeOK, RestTyped, RunRows, RunRow, Busy
  <1>10. ASSUME NEW w \in Workers, BeginPass(w) PROVE RestTyped'
    BY <1>10 DEF BeginPass, TypeOK, RestTyped, RunRows, RunRow, Busy
  <1>11. ASSUME NEW w \in Workers, PassDone(w) PROVE RestTyped'
    BY <1>11 DEF PassDone, TypeOK, RestTyped, RunRows, RunRow, Busy
  <1>12. ASSUME NEW w \in Workers, RegionFails(w) PROVE RestTyped'
    BY <1>12 DEF RegionFails, TypeOK, RestTyped, RunRows, RunRow, Busy
  <1>13. ASSUME NEW w \in Workers, Merge(w) PROVE RestTyped'
    BY <1>13 DEF Merge, TypeOK, RestTyped, RunRows, RunRow, Busy
  <1>14. ASSUME NEW w \in Workers, InsertSnapshot(w) PROVE RestTyped'
    BY <1>14 DEF InsertSnapshot, Goto, NoSnapshot, NoScan, NoDiff, Covered, TypeOK,
       RestTyped
  <1>15. ASSUME NEW w \in Workers, WriteResults(w) PROVE RestTyped'
    BY <1>15 DEF WriteResults, Goto, TypeOK, RestTyped
  <1>16. ASSUME NEW w \in Workers, Reconcile(w) PROVE RestTyped'
    BY <1>16 DEF Reconcile, TypeOK, RestTyped, RunRows, RunRow, Busy
  <1>17. ASSUME NEW w \in Workers, SetDiff(w) PROVE RestTyped'
    BY <1>17 DEF SetDiff, Goto, TypeOK, RestTyped
  <1>18. ASSUME NEW w \in Workers, FinishScan(w) PROVE RestTyped'
    BY <1>18 DEF FinishScan, Goto, Finish, TypeOK, RestTyped
  <1>19. ASSUME NEW w \in Workers, Activate(w) PROVE RestTyped'
    BY <1>19 DEF Activate, TypeOK, RestTyped, RunRows, RunRow, Busy
  <1>20. ASSUME NEW w \in Workers, Return(w) PROVE RestTyped'
    BY <1>20 DEF Return, NoRun, NoScan, TypeOK, RestTyped
  <1>21. ASSUME NEW w \in Workers, Crash(w) PROVE RestTyped'
    BY <1>21 DEF Crash, NoRun, NoScan, TypeOK, RestTyped
  <1>22. ASSUME NEW w \in Workers, Fails(w) PROVE RestTyped'
    BY <1>22, FailsRun DEF RestTyped, Busy, TypeOK
  <1>23. QED
    BY <1>1, <1>2, <1>3, <1>4, <1>5, <1>6, <1>7, <1>8, <1>9, <1>10, <1>11, <1>12, <1>13,
       <1>14, <1>15, <1>16, <1>17, <1>18, <1>19, <1>20, <1>21, <1>22 DEF Next, Server,
       RunStep, Fails
\* The foreign keys hold, through every cascade and failed insert.
LEMMA KeysHold ==
  ASSUME TypeOK, RunRows, RunsApart, LatestExists, Next
  PROVE  ForeignKeys'
  <1>1. ASSUME NEW s \in Scans, NEW trigger \in {"verify", "scan"}, Enqueue(s, trigger)
        PROVE  ForeignKeys'
    BY <1>1 DEF Enqueue, NoRow, TypeOK, ForeignKeys
  <1>2. CASE DeleteAccount
    BY <1>2 DEF DeleteAccount, NoRow, NoSnapshot, NoScan, NoDiff, TypeOK, ForeignKeys
  <1>3. CASE RegisterAccount
    BY <1>3 DEF RegisterAccount, TypeOK, ForeignKeys
  <1>4. ASSUME NEW w \in Workers, NEW s \in Scans, Claim(w, s) PROVE ForeignKeys'
    BY <1>4 DEF Claim, NoRun, NoScan, TypeOK, ForeignKeys
  <1>5. ASSUME NEW w \in Workers, VerifyActivate(w) PROVE ForeignKeys'
    BY <1>5 DEF VerifyActivate, TypeOK, ForeignKeys
  <1>6. ASSUME NEW w \in Workers, VerifyFinish(w) PROVE ForeignKeys'
    BY <1>6 DEF VerifyFinish, Finish, Gone, TypeOK, ForeignKeys, RunRows, RunRow, Busy,
       Working, Terminal, Pcs
  <1>7. ASSUME NEW w \in Workers, ListRegions(w) PROVE ForeignKeys'
    BY <1>7 DEF ListRegions, TypeOK, ForeignKeys
  <1>8. ASSUME NEW w \in Workers, InsertSnapshot(w) PROVE ForeignKeys'
    BY <1>8 DEF InsertSnapshot, Gone, NoSnapshot, NoScan, NoDiff, Covered, TypeOK,
       ForeignKeys, RunRows, RunRow, Busy, Working, Terminal, Pcs
  <1>9. ASSUME NEW w \in Workers, WriteResults(w) PROVE ForeignKeys'
    BY <1>9 DEF WriteResults, TypeOK, ForeignKeys
  <1>10. ASSUME NEW w \in Workers, Reconcile(w) PROVE ForeignKeys'
    BY <1>10 DEF Reconcile, Goto, TypeOK, ForeignKeys
  <1>11. ASSUME NEW w \in Workers, SetDiff(w) PROVE ForeignKeys'
    BY <1>11 DEF SetDiff, TypeOK, ForeignKeys
  <1>12. ASSUME NEW w \in Workers, FinishScan(w) PROVE ForeignKeys'
    BY <1>12 DEF FinishScan, Finish, Gone, TypeOK, ForeignKeys, RunRows, RunRow, Busy,
       Working, Terminal, Pcs
  <1>13. ASSUME NEW w \in Workers, Activate(w) PROVE ForeignKeys'
    BY <1>13 DEF Activate, TypeOK, ForeignKeys
  <1>14. ASSUME NEW w \in Workers, Fails(w) PROVE ForeignKeys'
    <2>1. snapshots' = snapshots /\ account' = account
      BY <1>14, FailsRun
    <2>2. ASSUME NEW s \in Scans
          PROVE  \/ scans'[s].status = scans[s].status
                 \/ scans[s].status = "running" /\ scans'[s].status = "failed"
      <3>1. CASE s = runs[w].scan
        BY <1>14, <3>1, FailsRun DEF Gone
      <3>2. CASE s # runs[w].scan
        BY <1>14, <3>2, FailsRun
      <3>3. QED
        BY <3>1, <3>2
    <2>3. QED
      BY <2>1, <2>2 DEF TypeOK, ForeignKeys
  <1>15. ASSUME NEW w \in Workers, Moves(w) PROVE ForeignKeys'
    BY <1>15, MovesFrame DEF TypeOK, ForeignKeys
  <1>16. QED
    BY <1>1, <1>2, <1>3, <1>4, <1>5, <1>6, <1>7, <1>8, <1>9, <1>10, <1>11, <1>12, <1>13,
       <1>14, <1>15 DEF Next, Server, RunStep, Fails, Moves
\* Nobody but the run itself, or a cascade, ends its row.
LEMMA RunRowsKept ==
  ASSUME TypeOK, RunRows, RunsApart, LatestExists, Next
  PROVE  RunRows'
  <1>1. ASSUME NEW s \in Scans, NEW trigger \in {"verify", "scan"}, Enqueue(s, trigger)
        PROVE  RunRows'
    BY <1>1 DEF Enqueue, NoRow, TypeOK, RunRows, RunRow, Busy, Working, Terminal, Pcs
  <1>2. CASE DeleteAccount
    BY <1>2 DEF DeleteAccount, NoRow, NoSnapshot, NoScan, NoDiff, TypeOK, RunRows, RunRow,
       Busy
  <1>3. CASE RegisterAccount
    BY <1>3 DEF RegisterAccount, TypeOK, RunRows, RunRow, Busy
  <1>4. ASSUME NEW w \in Workers, NEW s \in Scans, Claim(w, s) PROVE RunRows'
    BY <1>4 DEF Claim, NoRun, NoScan, TypeOK, RunRows, RunRow, Busy, Working, Terminal, Pcs
  <1>5. ASSUME NEW w \in Workers, AssumeRole(w) PROVE RunRows'
    BY <1>5, GotoRuns DEF AssumeRole, TypeOK, RunRows, RunRow, Busy, Working, Terminal, Pcs
  <1>6. ASSUME NEW w \in Workers, BeginVerify(w) PROVE RunRows'
    BY <1>6, GotoRuns DEF BeginVerify, TypeOK, RunRows, RunRow, Busy, Working, Terminal, Pcs
  <1>7. ASSUME NEW w \in Workers, VerifyActivate(w) PROVE RunRows'
    BY <1>7, GotoRuns DEF VerifyActivate, TypeOK, RunRows, RunRow, Busy, Working, Terminal,
       Pcs
  <1>8. ASSUME NEW w \in Workers, VerifyFinish(w) PROVE RunRows'
    BY <1>8, GotoRuns, FinishScans DEF VerifyFinish, Gone, TypeOK, RunRows, RunRow,
       RunsApart, Busy, Working, Terminal, Pcs
  <1>9. ASSUME NEW w \in Workers, ListRegions(w) PROVE RunRows'
    BY <1>9 DEF ListRegions, TypeOK, RunRows, RunRow, Busy, Working, Terminal, Pcs
  <1>10. ASSUME NEW w \in Workers, BeginPass(w) PROVE RunRows'
    BY <1>10 DEF BeginPass, TypeOK, Run, ScanRow
  <1>11. ASSUME NEW w \in Workers, PassDone(w) PROVE RunRows'
    BY <1>11 DEF PassDone, TypeOK, RunRows, RunRow, Busy, Working, Terminal, Pcs
  <1>12. ASSUME NEW w \in Workers, RegionFails(w) PROVE RunRows'
    BY <1>12 DEF RegionFails, TypeOK, RunRows, RunRow, Busy, Working, Terminal, Pcs
  <1>13. ASSUME NEW w \in Workers, Merge(w) PROVE RunRows'
    BY <1>13 DEF Merge, TypeOK, RunRows, RunRow, Busy, Working, Terminal, Pcs
  <1>14. ASSUME NEW w \in Workers, InsertSnapshot(w) PROVE RunRows'
    BY <1>14, GotoRuns, SMTT(30) DEF InsertSnapshot, Gone, NoSnapshot, NoScan, NoDiff,
       Covered, TypeOK, RunRows, RunRow, RunsApart, Busy, Working, Terminal, Pcs, Run,
       ScanRow
  <1>15. ASSUME NEW w \in Workers, WriteResults(w) PROVE RunRows'
    BY <1>15, GotoRuns DEF WriteResults, TypeOK, RunRows, RunRow, Busy, Working, Terminal,
       Pcs
  <1>16. ASSUME NEW w \in Workers, Reconcile(w) PROVE RunRows'
    BY <1>16, GotoRuns DEF Reconcile, TypeOK, RunRows, RunRow, Busy, Working, Terminal, Pcs
  <1>17. ASSUME NEW w \in Workers, SetDiff(w) PROVE RunRows'
    BY <1>17, GotoRuns DEF SetDiff, TypeOK, RunRows, RunRow, Busy, Working, Terminal, Pcs
  <1>18. ASSUME NEW w \in Workers, FinishScan(w) PROVE RunRows'
    BY <1>18, GotoRuns, FinishScans, SMTT(30) DEF FinishScan, Gone, TypeOK, RunRows, RunRow,
       RunsApart, Busy, Working, Terminal, Pcs, Run, ScanRow
  <1>19. ASSUME NEW w \in Workers, Activate(w) PROVE RunRows'
    BY <1>19, GotoRuns DEF Activate, TypeOK, RunRows, RunRow, Busy, Working, Terminal, Pcs
  <1>20. ASSUME NEW w \in Workers, Return(w) PROVE RunRows'
    BY <1>20 DEF Return, NoRun, NoScan, TypeOK, RunRows, RunRow, Busy
  <1>21. ASSUME NEW w \in Workers, Crash(w) PROVE RunRows'
    BY <1>21 DEF Crash, NoRun, NoScan, TypeOK, RunRows, RunRow, Busy
  <1>22. ASSUME NEW w \in Workers, Fails(w) PROVE RunRows'
    <2>1. \A v \in Workers \ {w} : Busy(v) => RunRow(v)'
      BY <1>22, FailsRun DEF RunRows, RunRow, RunsApart, Busy
    <2>2. RunRow(w)'
      BY <1>22, FailsRun DEF RunRow, Terminal, Working, Gone
    <2>3. QED
      BY <2>1, <2>2, <1>22, FailsRun DEF RunRows, Busy
  <1>23. QED
    BY <1>1, <1>2, <1>3, <1>4, <1>5, <1>6, <1>7, <1>8, <1>9, <1>10, <1>11, <1>12, <1>13,
       <1>14, <1>15, <1>16, <1>17, <1>18, <1>19, <1>20, <1>21, <1>22 DEF Next, Server,
       RunStep, Fails
\* A claim takes a scan that no run has.
LEMMA RunsKeptApart ==
  ASSUME TypeOK, RunRows, RunsApart, LatestExists, Next
  PROVE  RunsApart'
  <1>1. ASSUME NEW s \in Scans, NEW trigger \in {"verify", "scan"}, Enqueue(s, trigger)
        PROVE  RunsApart'
    BY <1>1 DEF Enqueue, NoRow, TypeOK, RunRows, RunRow, RunsApart, Busy
  <1>2. CASE DeleteAccount
    BY <1>2 DEF DeleteAccount, NoRow, NoSnapshot, NoScan, NoDiff, TypeOK, RunRows, RunRow,
       RunsApart, Busy
  <1>3. CASE RegisterAccount
    BY <1>3 DEF RegisterAccount, TypeOK, RunRows, RunRow, RunsApart, Busy
  <1>4. ASSUME NEW w \in Workers, NEW s \in Scans, Claim(w, s) PROVE RunsApart'
    BY <1>4 DEF Claim, NoRun, NoScan, TypeOK, RunRows, RunRow, RunsApart, Busy, Working,
       Terminal, Pcs, Run
  <1>5. ASSUME NEW w \in Workers, AssumeRole(w) PROVE RunsApart'
    BY <1>5, GotoRuns DEF AssumeRole, TypeOK, RunRows, RunRow, RunsApart, Busy, Working,
       Terminal, Pcs
  <1>6. ASSUME NEW w \in Workers, BeginVerify(w) PROVE RunsApart'
    BY <1>6, GotoRuns DEF BeginVerify, TypeOK, RunRows, RunRow, RunsApart, Busy, Working,
       Terminal, Pcs
  <1>7. ASSUME NEW w \in Workers, VerifyActivate(w) PROVE RunsApart'
    BY <1>7, GotoRuns DEF VerifyActivate, TypeOK, RunRows, RunRow, RunsApart, Busy, Working,
       Terminal, Pcs
  <1>8. ASSUME NEW w \in Workers, VerifyFinish(w) PROVE RunsApart'
    BY <1>8, GotoRuns DEF VerifyFinish, Gone, TypeOK, RunRows, RunRow, RunsApart, Busy,
       Working, Terminal, Pcs
  <1>9. ASSUME NEW w \in Workers, ListRegions(w) PROVE RunsApart'
    BY <1>9 DEF ListRegions, Gone, TypeOK, RunRows, RunRow, RunsApart, Busy
  <1>10. ASSUME NEW w \in Workers, BeginPass(w) PROVE RunsApart'
    BY <1>10 DEF BeginPass, TypeOK, RunRows, RunRow, RunsApart, Busy
  <1>11. ASSUME NEW w \in Workers, PassDone(w) PROVE RunsApart'
    BY <1>11 DEF PassDone, TypeOK, RunRows, RunRow, RunsApart, Busy
  <1>12. ASSUME NEW w \in Workers, RegionFails(w) PROVE RunsApart'
    BY <1>12 DEF RegionFails, TypeOK, RunRows, RunRow, RunsApart, Busy
  <1>13. ASSUME NEW w \in Workers, Merge(w) PROVE RunsApart'
    BY <1>13 DEF Merge, TypeOK, RunRows, RunRow, RunsApart, Busy
  <1>14. ASSUME NEW w \in Workers, InsertSnapshot(w) PROVE RunsApart'
    BY <1>14, GotoRuns DEF InsertSnapshot, Gone, NoSnapshot, NoScan, NoDiff, Covered,
       TypeOK, RunRows, RunRow, RunsApart, Busy, Working, Terminal, Pcs
  <1>15. ASSUME NEW w \in Workers, WriteResults(w) PROVE RunsApart'
    BY <1>15, GotoRuns DEF WriteResults, Gone, TypeOK, RunRows, RunRow, RunsApart, Busy,
       Working, Terminal, Pcs
  <1>16. ASSUME NEW w \in Workers, Reconcile(w) PROVE RunsApart'
    BY <1>16, GotoRuns DEF Reconcile, TypeOK, RunRows, RunRow, RunsApart, Busy, Working,
       Terminal, Pcs
  <1>17. ASSUME NEW w \in Workers, SetDiff(w) PROVE RunsApart'
    BY <1>17, GotoRuns DEF SetDiff, Gone, TypeOK, RunRows, RunRow, RunsApart, Busy, Working,
       Terminal, Pcs
  <1>18. ASSUME NEW w \in Workers, FinishScan(w) PROVE RunsApart'
    BY <1>18, GotoRuns DEF FinishScan, Gone, TypeOK, RunRows, RunRow, RunsApart, Busy,
       Working, Terminal, Pcs
  <1>19. ASSUME NEW w \in Workers, Activate(w) PROVE RunsApart'
    BY <1>19, GotoRuns DEF Activate, TypeOK, RunRows, RunRow, RunsApart, Busy, Working,
       Terminal, Pcs
  <1>20. ASSUME NEW w \in Workers, Return(w) PROVE RunsApart'
    BY <1>20 DEF Return, NoRun, NoScan, TypeOK, RunRows, RunRow, RunsApart, Busy
  <1>21. ASSUME NEW w \in Workers, Crash(w) PROVE RunsApart'
    BY <1>21 DEF Crash, NoRun, NoScan, TypeOK, RunRows, RunRow, RunsApart, Busy
  <1>22. ASSUME NEW w \in Workers, Fails(w) PROVE RunsApart'
    BY <1>22, FailsRun DEF RunsApart, Busy, Terminal, Pcs
  <1>23. QED
    BY <1>1, <1>2, <1>3, <1>4, <1>5, <1>6, <1>7, <1>8, <1>9, <1>10, <1>11, <1>12, <1>13,
       <1>14, <1>15, <1>16, <1>17, <1>18, <1>19, <1>20, <1>21, <1>22 DEF Next, Server,
       RunStep, Fails
\* The snapshots keep a last one.
LEMMA LatestKept ==
  ASSUME TypeOK, RunRows, RunsApart, LatestExists, Next
  PROVE  LatestExists'
  <1>1. ASSUME NEW s \in Scans, NEW trigger \in {"verify", "scan"}, Enqueue(s, trigger)
        PROVE  LatestExists'
    BY <1>1 DEF Enqueue, NoRow, TypeOK, LatestExists, Stored
  <1>2. CASE DeleteAccount
    BY <1>2 DEF DeleteAccount, NoRow, NoSnapshot, NoScan, NoDiff, TypeOK, LatestExists,
       Stored
  <1>3. CASE RegisterAccount
    BY <1>3 DEF RegisterAccount, TypeOK, LatestExists, Stored
  <1>4. ASSUME NEW w \in Workers, NEW s \in Scans, Claim(w, s) PROVE LatestExists'
    BY <1>4 DEF Claim, NoRun, NoScan, TypeOK, LatestExists, Stored
  <1>5. ASSUME NEW w \in Workers, VerifyActivate(w) PROVE LatestExists'
    BY <1>5 DEF VerifyActivate, Goto, TypeOK, LatestExists, Stored
  <1>6. ASSUME NEW w \in Workers, VerifyFinish(w) PROVE LatestExists'
    BY <1>6 DEF VerifyFinish, Goto, Finish, TypeOK, LatestExists, Stored
  <1>7. ASSUME NEW w \in Workers, ListRegions(w) PROVE LatestExists'
    BY <1>7 DEF ListRegions, TypeOK, LatestExists, Stored
  <1>8. ASSUME NEW w \in Workers, InsertSnapshot(w) PROVE LatestExists'
    BY <1>8, ScanJobAssumption DEF InsertSnapshot, NoSnapshot, NoScan, NoDiff, Covered,
       TypeOK, LatestExists, Stored
  <1>9. ASSUME NEW w \in Workers, WriteResults(w) PROVE LatestExists'
    BY <1>9 DEF WriteResults, TypeOK, LatestExists, Stored
  <1>10. ASSUME NEW w \in Workers, Reconcile(w) PROVE LatestExists'
    BY <1>10 DEF Reconcile, Goto, TypeOK, LatestExists, Stored
  <1>11. ASSUME NEW w \in Workers, SetDiff(w) PROVE LatestExists'
    BY <1>11 DEF SetDiff, TypeOK, LatestExists, Stored
  <1>12. ASSUME NEW w \in Workers, FinishScan(w) PROVE LatestExists'
    BY <1>12 DEF FinishScan, Goto, Finish, TypeOK, LatestExists, Stored
  <1>13. ASSUME NEW w \in Workers, Activate(w) PROVE LatestExists'
    BY <1>13 DEF Activate, Goto, TypeOK, LatestExists, Stored
  <1>14. ASSUME NEW w \in Workers, Fails(w) PROVE LatestExists'
    BY <1>14, FailsRun DEF LatestExists, Busy, Stored, SnapshotRow
  <1>15. ASSUME NEW w \in Workers, Moves(w) PROVE LatestExists'
    BY <1>15, MovesFrame DEF TypeOK, LatestExists, Stored
  <1>16. QED
    BY <1>1, <1>2, <1>3, <1>4, <1>5, <1>6, <1>7, <1>8, <1>9, <1>10, <1>11, <1>12, <1>13,
       <1>14, <1>15 DEF Next, Server, RunStep, Fails, Moves
\* Copies are held during a pass, the master during a run.
LEMMA SecretsKept ==
  ASSUME TypeOK, SecretsBorrowed, Next
  PROVE  SecretsBorrowed'
  <1>1. ASSUME NEW s \in Scans, NEW trigger \in {"verify", "scan"}, Enqueue(s, trigger)
        PROVE  SecretsBorrowed'
    BY <1>1 DEF Enqueue, NoRow, TypeOK, SecretsBorrowed, Pcs, Run
  <1>2. CASE DeleteAccount
    BY <1>2 DEF DeleteAccount, NoRow, NoSnapshot, NoScan, NoDiff, TypeOK, SecretsBorrowed
  <1>3. CASE RegisterAccount
    BY <1>3 DEF RegisterAccount, TypeOK, SecretsBorrowed, Pcs, Run
  <1>4. ASSUME NEW w \in Workers, NEW s \in Scans, Claim(w, s) PROVE SecretsBorrowed'
    BY <1>4 DEF Claim, NoRun, NoScan, TypeOK, SecretsBorrowed, Pcs, Run
  <1>5. ASSUME NEW w \in Workers, AssumeRole(w) PROVE SecretsBorrowed'
    BY <1>5, GotoRuns DEF AssumeRole, TypeOK, SecretsBorrowed, Pcs, Run
  <1>6. ASSUME NEW w \in Workers, AssumeRoleFails(w) PROVE SecretsBorrowed'
    BY <1>6, GotoRuns DEF AssumeRoleFails, Throw, TypeOK, SecretsBorrowed, Pcs
  <1>7. ASSUME NEW w \in Workers, BeginVerify(w) PROVE SecretsBorrowed'
    BY <1>7, GotoRuns DEF BeginVerify, TypeOK, SecretsBorrowed, Pcs, Run
  <1>8. ASSUME NEW w \in Workers, VerifyActivate(w) PROVE SecretsBorrowed'
    BY <1>8, GotoRuns DEF VerifyActivate, TypeOK, SecretsBorrowed, Pcs, Run
  <1>9. ASSUME NEW w \in Workers, VerifyFinish(w) PROVE SecretsBorrowed'
    BY <1>9, GotoRuns DEF VerifyFinish, Gone, TypeOK, SecretsBorrowed, Pcs, Run
  <1>10. ASSUME NEW w \in Workers, VerifyFails(w) PROVE SecretsBorrowed'
    BY <1>10, GotoRuns DEF VerifyFails, Throw, TypeOK, SecretsBorrowed, Pcs
  <1>11. ASSUME NEW w \in Workers, ListRegions(w) PROVE SecretsBorrowed'
    BY <1>11 DEF ListRegions, Gone, TypeOK, SecretsBorrowed, Pcs, Run
  <1>12. ASSUME NEW w \in Workers, ListRegionsFails(w) PROVE SecretsBorrowed'
    BY <1>12, GotoRuns DEF ListRegionsFails, Throw, TypeOK, SecretsBorrowed, Pcs
  <1>13. ASSUME NEW w \in Workers, BeginPass(w) PROVE SecretsBorrowed'
    BY <1>13 DEF BeginPass, TypeOK, SecretsBorrowed, Pcs, Run
  <1>14. ASSUME NEW w \in Workers, PassDone(w) PROVE SecretsBorrowed'
    BY <1>14 DEF PassDone, TypeOK, SecretsBorrowed, Pcs, Run
  <1>15. ASSUME NEW w \in Workers, RegionFails(w) PROVE SecretsBorrowed'
    BY <1>15 DEF RegionFails, TypeOK, SecretsBorrowed, Pcs, Run
  <1>16. ASSUME NEW w \in Workers, GlobalFails(w) PROVE SecretsBorrowed'
    BY <1>16, GotoRuns DEF GlobalFails, Throw, TypeOK, SecretsBorrowed, Pcs
  <1>17. ASSUME NEW w \in Workers, Merge(w) PROVE SecretsBorrowed'
    BY <1>17 DEF Merge, TypeOK, SecretsBorrowed, Pcs, Run
  <1>18. ASSUME NEW w \in Workers, MergeFails(w) PROVE SecretsBorrowed'
    BY <1>18, GotoRuns DEF MergeFails, Throw, TypeOK, SecretsBorrowed, Pcs
  <1>19. ASSUME NEW w \in Workers, InsertSnapshot(w) PROVE SecretsBorrowed'
    BY <1>19, GotoRuns DEF InsertSnapshot, NoSnapshot, NoScan, NoDiff, Covered, TypeOK,
       SecretsBorrowed, Pcs
  <1>20. ASSUME NEW w \in Workers, InsertSnapshotFails(w) PROVE SecretsBorrowed'
    BY <1>20, GotoRuns DEF InsertSnapshotFails, Throw, TypeOK, SecretsBorrowed, Pcs
  <1>21. ASSUME NEW w \in Workers, WriteResults(w) PROVE SecretsBorrowed'
    BY <1>21, GotoRuns DEF WriteResults, Gone, TypeOK, SecretsBorrowed, Pcs, Run
  <1>22. ASSUME NEW w \in Workers, WriteResultsFails(w) PROVE SecretsBorrowed'
    BY <1>22, GotoRuns DEF WriteResultsFails, Throw, TypeOK, SecretsBorrowed, Pcs
  <1>23. ASSUME NEW w \in Workers, Reconcile(w) PROVE SecretsBorrowed'
    BY <1>23, GotoRuns DEF Reconcile, TypeOK, SecretsBorrowed, Pcs, Run
  <1>24. ASSUME NEW w \in Workers, ReconcileFails(w) PROVE SecretsBorrowed'
    BY <1>24, GotoRuns DEF ReconcileFails, Throw, TypeOK, SecretsBorrowed, Pcs
  <1>25. ASSUME NEW w \in Workers, SetDiff(w) PROVE SecretsBorrowed'
    BY <1>25, GotoRuns DEF SetDiff, Gone, TypeOK, SecretsBorrowed, Pcs, Run
  <1>26. ASSUME NEW w \in Workers, SetDiffFails(w) PROVE SecretsBorrowed'
    BY <1>26, GotoRuns DEF SetDiffFails, Throw, TypeOK, SecretsBorrowed, Pcs
  <1>27. ASSUME NEW w \in Workers, FinishScan(w) PROVE SecretsBorrowed'
    BY <1>27, GotoRuns DEF FinishScan, Gone, TypeOK, SecretsBorrowed, Pcs, Run
  <1>28. ASSUME NEW w \in Workers, Activate(w) PROVE SecretsBorrowed'
    BY <1>28, GotoRuns DEF Activate, TypeOK, SecretsBorrowed, Pcs, Run
  <1>29. ASSUME NEW w \in Workers, Return(w) PROVE SecretsBorrowed'
    BY <1>29 DEF Return, NoRun, NoScan, TypeOK, SecretsBorrowed, Pcs, Run
  <1>30. ASSUME NEW w \in Workers, Crash(w) PROVE SecretsBorrowed'
    BY <1>30 DEF Crash, NoRun, NoScan, TypeOK, SecretsBorrowed, Pcs, Run
  <1>31. QED
    BY <1>1, <1>2, <1>3, <1>4, <1>5, <1>6, <1>7, <1>8, <1>9, <1>10, <1>11, <1>12, <1>13,
       <1>14, <1>15, <1>16, <1>17, <1>18, <1>19, <1>20, <1>21, <1>22, <1>23, <1>24, <1>25,
       <1>26, <1>27, <1>28, <1>29, <1>30 DEF Next, Server, RunStep

\* What a run relies on survives its own steps and those of others.
LEMMA RunsDataKept ==
  ASSUME TypeOK, RunRows, RunsApart, RunsData, Next
  PROVE  RunsData'
  <1>1. ASSUME NEW s \in Scans, NEW trigger \in {"verify", "scan"}, Enqueue(s, trigger)
        PROVE  RunsData'
    BY <1>1 DEF Enqueue, NoRow, TypeOK, RunRows, RunRow, RunsApart, Busy, RunsData, RunData,
       AfterInsert, Gone, Covered, Working, Terminal, Pcs
  <1>2. CASE DeleteAccount
    BY <1>2 DEF DeleteAccount, NoRow, NoSnapshot, NoScan, NoDiff, TypeOK, RunRows, RunRow,
       RunsApart, Busy, RunsData, RunData, AfterInsert, Gone, Covered, Working, Terminal,
       Pcs
  <1>3. CASE RegisterAccount
    BY <1>3 DEF RegisterAccount, TypeOK, RunRows, RunRow, RunsApart, Busy, RunsData,
       RunData, AfterInsert, Gone, Covered
  <1>4. ASSUME NEW w \in Workers, NEW s \in Scans, Claim(w, s) PROVE RunsData'
    BY <1>4 DEF Claim, NoRun, NoScan, TypeOK, RunRows, RunRow, RunsApart, Busy, RunsData,
       RunData, AfterInsert, Gone, Covered
  <1>5. ASSUME NEW w \in Workers, AssumeRole(w) PROVE RunsData'
    BY <1>5, GotoRuns, SMTT(30) DEF AssumeRole, TypeOK, RunRows, RunRow, RunsApart, Busy,
       RunsData, RunData, AfterInsert, Gone, Covered, Run, ScanRow, SnapshotRow, Working,
       Terminal, Pcs
  <1>6. ASSUME NEW w \in Workers, BeginVerify(w) PROVE RunsData'
    BY <1>6, GotoRuns, SMTT(30) DEF BeginVerify, TypeOK, RunRows, RunRow, RunsApart, Busy,
       RunsData, RunData, AfterInsert, Gone, Covered, Run, ScanRow, SnapshotRow, Working,
       Terminal, Pcs
  <1>7. ASSUME NEW w \in Workers, VerifyActivate(w) PROVE RunsData'
    BY <1>7, GotoRuns DEF VerifyActivate, TypeOK, RunRows, RunRow, RunsApart, Busy,
       RunsData, RunData, AfterInsert, Gone, Covered, Working, Terminal, Pcs
  <1>8. ASSUME NEW w \in Workers, VerifyFinish(w) PROVE RunsData'
    BY <1>8, GotoRuns, FinishScans DEF VerifyFinish, Gone, TypeOK, RunRows, RunRow,
       RunsApart, Busy, RunsData, RunData, AfterInsert, Covered, Working, Terminal, Pcs
  <1>9. ASSUME NEW w \in Workers, ListRegions(w) PROVE RunsData'
    BY <1>9 DEF ListRegions, Gone, TypeOK, RunRows, RunRow, RunsApart, Busy, RunsData,
       RunData, AfterInsert, Covered
  <1>10. ASSUME NEW w \in Workers, BeginPass(w) PROVE RunsData'
    BY <1>10, SMTT(30) DEF BeginPass, TypeOK, RunRows, RunRow, RunsApart, Busy, RunsData,
       RunData, AfterInsert, Gone, Covered, Run, ScanRow, SnapshotRow, Working, Terminal,
       Pcs
  <1>11. ASSUME NEW w \in Workers, PassDone(w) PROVE RunsData'
    BY <1>11 DEF PassDone, TypeOK, RunRows, RunRow, RunsApart, Busy, RunsData, RunData,
       AfterInsert, Gone, Covered
  <1>12. ASSUME NEW w \in Workers, RegionFails(w) PROVE RunsData'
    BY <1>12, SMTT(30) DEF RegionFails, TypeOK, RunRows, RunRow, RunsApart, Busy, RunsData, RunData,
       AfterInsert, Gone, Covered
  <1>13. ASSUME NEW w \in Workers, Merge(w) PROVE RunsData'
    BY <1>13 DEF Merge, TypeOK, RunRows, RunRow, RunsApart, Busy, RunsData, RunData,
       AfterInsert, Gone, Covered
  <1>14. ASSUME NEW w \in Workers, InsertSnapshot(w) PROVE RunsData'
    BY <1>14, GotoRuns DEF InsertSnapshot, Gone, NoSnapshot, NoScan, NoDiff, Covered,
       TypeOK, RunRows, RunRow, RunsApart, Busy, RunsData, RunData, AfterInsert, Working,
       Terminal, Pcs
  <1>15. ASSUME NEW w \in Workers, WriteResults(w) PROVE RunsData'
    BY <1>15, GotoRuns, SMTT(30) DEF WriteResults, Gone, TypeOK, RunRows, RunRow, RunsApart,
       Busy, RunsData, RunData, AfterInsert, Covered, Run, ScanRow, SnapshotRow, Working,
       Terminal, Pcs
  <1>16. ASSUME NEW w \in Workers, Reconcile(w) PROVE RunsData'
    BY <1>16, GotoRuns DEF Reconcile, TypeOK, RunRows, RunRow, RunsApart, Busy, RunsData,
       RunData, AfterInsert, Gone, Covered, Working, Terminal, Pcs
  <1>17. ASSUME NEW w \in Workers, SetDiff(w) PROVE RunsData'
    <2>1. runs[w].scan \in Scans /\ runs[w].prev \in Scans \cup {NoScan}
      BY <1>17 DEF SetDiff, RunRows, Busy, RunRow, TypeOK, Run
    <2>2. runs[w].prev # NoDiff
      BY <2>1, ScanJobAssumption DEF NoScan, NoDiff
    <2>3. snapshots'[runs[w].scan] = [snapshots[runs[w].scan] EXCEPT !.diff = runs[w].prev]
      BY <1>17, <2>1 DEF SetDiff, TypeOK
    <2>4. /\ snapshots'[runs[w].scan].diff # NoDiff
          /\ snapshots'[runs[w].scan].stored = snapshots[runs[w].scan].stored
          /\ snapshots'[runs[w].scan].covered = snapshots[runs[w].scan].covered
          /\ snapshots'[runs[w].scan].results = snapshots[runs[w].scan].results
      BY <2>1, <2>2, <2>3 DEF TypeOK, SnapshotRow
    <2>5. /\ scans' = scans /\ runs[w].pc = "diff" /\ Goto(w, "finish")
          /\ \A s \in Scans \ {runs[w].scan} : snapshots'[s] = snapshots[s]
      BY <1>17 DEF SetDiff, TypeOK
    <2>6. QED
      BY <2>1, <2>4, <2>5, GotoRuns, SMTT(30) DEF RunsData, RunData, AfterInsert, Gone, Covered,
         RunRows, RunRow, RunsApart, Busy, Pcs
  <1>18. ASSUME NEW w \in Workers, FinishScan(w) PROVE RunsData'
    BY <1>18, GotoRuns, FinishScans DEF FinishScan, Gone, TypeOK, RunRows, RunRow,
       RunsApart, Busy, RunsData, RunData, AfterInsert, Covered, Working, Terminal, Pcs
  <1>19. ASSUME NEW w \in Workers, Activate(w) PROVE RunsData'
    BY <1>19, GotoRuns DEF Activate, TypeOK, RunRows, RunRow, RunsApart, Busy, RunsData,
       RunData, AfterInsert, Gone, Covered, Working, Terminal, Pcs
  <1>20. ASSUME NEW w \in Workers, Return(w) PROVE RunsData'
    BY <1>20 DEF Return, NoRun, NoScan, TypeOK, RunRows, RunRow, RunsApart, Busy, RunsData,
       RunData, AfterInsert, Gone, Covered
  <1>21. ASSUME NEW w \in Workers, Crash(w) PROVE RunsData'
    BY <1>21 DEF Crash, NoRun, NoScan, TypeOK, RunRows, RunRow, RunsApart, Busy, RunsData,
       RunData, AfterInsert, Gone, Covered
  <1>22. ASSUME NEW w \in Workers, Fails(w) PROVE RunsData'
    <2>1. ASSUME NEW v \in Workers \ {w}, Busy(v)', ~ Gone(v)' PROVE RunData(v)'
      <3>1. Busy(v) /\ runs'[v] = runs[v] /\ snapshots' = snapshots
        BY <1>22, <2>1, FailsRun DEF Busy
      <3>2. scans'[runs[v].scan] = scans[runs[v].scan]
        BY <1>22, <3>1, FailsRun DEF RunsApart, RunRows, RunRow
      <3>3. QED
        BY <2>1, <3>1, <3>2 DEF RunsData, RunData, Gone, Covered
    <2>2. RunData(w)'
      BY <1>22, FailsRun DEF RunData, AfterInsert
    <2>3. QED
      BY <2>1, <2>2 DEF RunsData
  <1>23. QED
    BY <1>1, <1>2, <1>3, <1>4, <1>5, <1>6, <1>7, <1>8, <1>9, <1>10, <1>11, <1>12, <1>13,
       <1>14, <1>15, <1>16, <1>17, <1>18, <1>19, <1>20, <1>21, <1>22 DEF Next, Server,
       RunStep, Fails
\* An outcome is written when all it promises is stored.
LEMMA OutcomesKept ==
  ASSUME TypeOK, RunRows, RunsApart, RunsData, OutcomesBacked, Next
  PROVE  OutcomesBacked'
  <1>1. ASSUME NEW s \in Scans, NEW trigger \in {"verify", "scan"}, Enqueue(s, trigger)
        PROVE  OutcomesBacked'
    BY <1>1 DEF Enqueue, NoRow, TypeOK, RunsData, RunData, AfterInsert, Covered,
       OutcomesBacked
  <1>2. CASE DeleteAccount
    BY <1>2 DEF DeleteAccount, NoRow, NoSnapshot, NoScan, NoDiff, TypeOK, RunsData, RunData,
       AfterInsert, Covered, OutcomesBacked
  <1>3. CASE RegisterAccount
    BY <1>3 DEF RegisterAccount, TypeOK, RunsData, RunData, AfterInsert, Covered,
       OutcomesBacked
  <1>4. ASSUME NEW w \in Workers, NEW s \in Scans, Claim(w, s) PROVE OutcomesBacked'
    BY <1>4 DEF Claim, NoRun, NoScan, TypeOK, RunsData, RunData, AfterInsert, Covered,
       OutcomesBacked
  <1>5. ASSUME NEW w \in Workers, VerifyActivate(w) PROVE OutcomesBacked'
    BY <1>5 DEF VerifyActivate, Goto, TypeOK, RunsData, RunData, AfterInsert, Covered,
       OutcomesBacked
  <1>6. ASSUME NEW w \in Workers, VerifyFinish(w) PROVE OutcomesBacked'
    BY <1>6, FinishScans DEF VerifyFinish, TypeOK, RunRows, RunRow, Busy, RunsData, RunData,
       AfterInsert, Covered, OutcomesBacked, Working, Terminal, Pcs
  <1>7. ASSUME NEW w \in Workers, ListRegions(w) PROVE OutcomesBacked'
    BY <1>7 DEF ListRegions, TypeOK, RunRows, RunRow, Busy, RunsData, RunData, AfterInsert,
       Covered, OutcomesBacked, Working, Terminal, Pcs
  <1>8. ASSUME NEW w \in Workers, InsertSnapshot(w) PROVE OutcomesBacked'
    BY <1>8 DEF InsertSnapshot, NoSnapshot, NoScan, NoDiff, Covered, TypeOK, RunRows,
       RunRow, Busy, RunsData, RunData, AfterInsert, OutcomesBacked, Working, Terminal, Pcs
  <1>9. ASSUME NEW w \in Workers, WriteResults(w) PROVE OutcomesBacked'
    BY <1>9 DEF WriteResults, TypeOK, RunRows, RunRow, Busy, RunsData, RunData, AfterInsert,
       Covered, OutcomesBacked, Working, Terminal, Pcs
  <1>10. ASSUME NEW w \in Workers, Reconcile(w) PROVE OutcomesBacked'
    BY <1>10 DEF Reconcile, Goto, TypeOK, RunsData, RunData, AfterInsert, Covered,
       OutcomesBacked
  <1>11. ASSUME NEW w \in Workers, SetDiff(w) PROVE OutcomesBacked'
    BY <1>11 DEF SetDiff, TypeOK, RunRows, RunRow, Busy, RunsData, RunData, AfterInsert,
       Covered, OutcomesBacked, Working, Terminal, Pcs
  <1>12. ASSUME NEW w \in Workers, FinishScan(w) PROVE OutcomesBacked'
    <2> DEFINE status == IF runs[w].failed = {} THEN "ok" ELSE "partial"
    <2>1. /\ runs[w].pc = "finish" /\ Busy(w) /\ Finish(w, status) /\ snapshots' = snapshots
      BY <1>12 DEF FinishScan, Busy
    <2>2. runs[w].scan \in Scans
      BY <2>1 DEF RunRows, RunRow
    <2>3. CASE Gone(w)
      BY <2>1, <2>2, <2>3, FinishScans DEF OutcomesBacked, Terminal
    <2>4. CASE ~ Gone(w)
      <3>1. /\ snapshots[runs[w].scan].stored /\ snapshots[runs[w].scan].results
            /\ snapshots[runs[w].scan].diff # NoDiff
            /\ snapshots[runs[w].scan].covered = scans[runs[w].scan].regions \ runs[w].failed
            /\ runs[w].failed \subseteq scans[runs[w].scan].regions
        BY <2>1, <2>2, <2>4 DEF RunsData, RunData, AfterInsert, Covered
      <3>2. /\ scans'[runs[w].scan].status = status
            /\ scans'[runs[w].scan].regions = scans[runs[w].scan].regions
            /\ \A s \in Scans \ {runs[w].scan} : scans'[s] = scans[s]
        BY <2>1, <2>2, <2>4, FinishScans DEF Terminal
      <3>3. /\ snapshots[runs[w].scan].covered \subseteq scans[runs[w].scan].regions
            /\ status = "ok" <=> snapshots[runs[w].scan].covered = scans[runs[w].scan].regions
        BY <3>1
      <3> HIDE DEF status
      <3>4. ASSUME NEW s \in Scans, scans'[s].trigger = "scan",
                   scans'[s].status \in {"ok", "partial"}
            PROVE  /\ snapshots'[s].stored /\ snapshots'[s].results
                   /\ snapshots'[s].diff # NoDiff
                   /\ snapshots'[s].covered \subseteq scans'[s].regions
                   /\ scans'[s].status = "ok" <=> snapshots'[s].covered = scans'[s].regions
        <4>1. CASE s = runs[w].scan
          BY <2>1, <3>1, <3>2, <3>3, <4>1
        <4>2. CASE s # runs[w].scan
          BY <2>1, <3>2, <3>4, <4>2 DEF OutcomesBacked
        <4>3. QED
          BY <4>1, <4>2
      <3>5. QED
        BY <3>4 DEF OutcomesBacked
    <2>5. QED
      BY <2>3, <2>4
  <1>13. ASSUME NEW w \in Workers, Activate(w) PROVE OutcomesBacked'
    BY <1>13 DEF Activate, Goto, TypeOK, RunsData, RunData, AfterInsert, Covered,
       OutcomesBacked
  <1>14. ASSUME NEW w \in Workers, Fails(w) PROVE OutcomesBacked'
    BY <1>14, FailsRun DEF RunsData, RunData, AfterInsert, Covered, OutcomesBacked
  <1>15. ASSUME NEW w \in Workers, Moves(w) PROVE OutcomesBacked'
    BY <1>15, MovesFrame DEF TypeOK, OutcomesBacked
  <1>16. QED
    BY <1>1, <1>2, <1>3, <1>4, <1>5, <1>6, <1>7, <1>8, <1>9, <1>10, <1>11, <1>12, <1>13,
       <1>14, <1>15 DEF Next, Server, RunStep, Fails, Moves
\* The next scan is queued when the one before is over.
LEMMA OrderKept ==
  ASSUME TypeOK, RunRows, InOrder, Next
  PROVE  InOrder'
  <1>1. ASSUME NEW s \in Scans, NEW trigger \in {"verify", "scan"}, Enqueue(s, trigger)
        PROVE  InOrder'
    BY <1>1 DEF Enqueue, NoRow, TypeOK, InOrder
  <1>2. CASE DeleteAccount
    BY <1>2 DEF DeleteAccount, NoRow, NoSnapshot, NoScan, NoDiff, TypeOK, InOrder
  <1>3. CASE RegisterAccount
    BY <1>3 DEF RegisterAccount, TypeOK, InOrder
  <1>4. ASSUME NEW w \in Workers, NEW s \in Scans, Claim(w, s) PROVE InOrder'
    BY <1>4 DEF Claim, NoRun, NoScan, TypeOK, InOrder
  <1>5. ASSUME NEW w \in Workers, VerifyActivate(w) PROVE InOrder'
    BY <1>5 DEF VerifyActivate, Goto, TypeOK, InOrder
  <1>6. ASSUME NEW w \in Workers, VerifyFinish(w) PROVE InOrder'
    BY <1>6, FinishScans DEF VerifyFinish, Gone, TypeOK, RunRows, RunRow, Busy, InOrder,
       Terminal, Working, Pcs
  <1>7. ASSUME NEW w \in Workers, ListRegions(w) PROVE InOrder'
    BY <1>7 DEF ListRegions, Gone, TypeOK, InOrder
  <1>8. ASSUME NEW w \in Workers, InsertSnapshot(w) PROVE InOrder'
    BY <1>8 DEF InsertSnapshot, Goto, Gone, NoSnapshot, NoScan, NoDiff, Covered, TypeOK,
       InOrder
  <1>9. ASSUME NEW w \in Workers, WriteResults(w) PROVE InOrder'
    BY <1>9 DEF WriteResults, Goto, Gone, TypeOK, InOrder
  <1>10. ASSUME NEW w \in Workers, Reconcile(w) PROVE InOrder'
    BY <1>10 DEF Reconcile, Goto, TypeOK, InOrder
  <1>11. ASSUME NEW w \in Workers, SetDiff(w) PROVE InOrder'
    BY <1>11 DEF SetDiff, Goto, Gone, TypeOK, InOrder
  <1>12. ASSUME NEW w \in Workers, FinishScan(w) PROVE InOrder'
    BY <1>12, FinishScans, SMTT(30) DEF FinishScan, Gone, TypeOK, RunRows, RunRow, Busy,
       InOrder, ScanRow, Terminal, Working, Pcs
  <1>13. ASSUME NEW w \in Workers, Activate(w) PROVE InOrder'
    BY <1>13 DEF Activate, Goto, TypeOK, InOrder
  <1>14. ASSUME NEW w \in Workers, Fails(w) PROVE InOrder'
    BY <1>14, FailsRun DEF Busy, InOrder, Terminal, Pcs
  <1>15. ASSUME NEW w \in Workers, Moves(w) PROVE InOrder'
    BY <1>15, MovesFrame DEF TypeOK, InOrder
  <1>16. QED
    BY <1>1, <1>2, <1>3, <1>4, <1>5, <1>6, <1>7, <1>8, <1>9, <1>10, <1>11, <1>12, <1>13,
       <1>14, <1>15 DEF Next, Server, RunStep, Fails, Moves
\* Between the two reads of the latest snapshot no other is inserted.
LEMMA PrevReadKept ==
  ASSUME TypeOK, RunRows, RunsApart, LatestExists, InOrder, PrevRead, Next
  PROVE  PrevRead'
  <1>1. ASSUME NEW s \in Scans, NEW trigger \in {"verify", "scan"}, Enqueue(s, trigger)
        PROVE  PrevRead'
    BY <1>1, LatestSame DEF Enqueue, NoRow, TypeOK, RunRows, RunRow, RunsApart, Busy,
       PrevRead, AfterInsert, Gone
  <1>2. CASE DeleteAccount
    BY <1>2 DEF DeleteAccount, NoRow, NoSnapshot, NoScan, NoDiff, TypeOK, RunRows, RunRow,
       RunsApart, Busy, PrevRead, AfterInsert, Working, Gone, Pcs
  <1>3. CASE RegisterAccount
    BY <1>3, LatestSame DEF RegisterAccount, TypeOK, RunRows, RunRow, RunsApart, Busy,
       PrevRead, AfterInsert, Gone
  <1>4. ASSUME NEW w \in Workers, NEW s \in Scans, Claim(w, s) PROVE PrevRead'
    <2>1. /\ runs'[w].pc = "assume" /\ runs'[w].scan = s /\ runs[w].pc = "idle"
          /\ \A v \in Workers \ {w} : runs'[v] = runs[v]
          /\ \A r \in Scans \ {s} : scans'[r] = scans[r]
          /\ snapshots' = snapshots /\ Latest' = Latest
          /\ scans[s].status = "queued" /\ scans'[s].status = "running"
      BY <1>4, LatestSame DEF Claim, NoRun, TypeOK, ScanRow, Run
    <2>2. ~ snapshots[s].stored
      BY <2>1 DEF TypeOK, ForeignKeys
    <2>3. ASSUME NEW v \in Workers \ {w}, Busy(v)
          PROVE  runs[v].scan \in Scans \ {s}
      BY <2>1, <2>3 DEF RunRows, RunRow, Pcs, Working, Busy, TypeOK, Run, Terminal
    <2>4. QED
      BY <2>1, <2>2, <2>3 DEF PrevRead, Busy, Gone, Working, AfterInsert, Pcs
  <1>5. ASSUME NEW w \in Workers, AssumeRole(w) PROVE PrevRead'
    BY <1>5, GotoRuns, LatestSame, SMTT(30) DEF AssumeRole, TypeOK, RunRows, RunRow,
       RunsApart, Busy, PrevRead, AfterInsert, Working, Gone, Run, Pcs
  <1>6. ASSUME NEW w \in Workers, BeginVerify(w) PROVE PrevRead'
    BY <1>6, GotoRuns, LatestSame DEF BeginVerify, TypeOK, RunRows, RunRow, RunsApart, Busy,
       PrevRead, AfterInsert, Working, Gone, Pcs
  <1>7. ASSUME NEW w \in Workers, VerifyActivate(w) PROVE PrevRead'
    BY <1>7, GotoRuns, LatestSame DEF VerifyActivate, TypeOK, RunRows, RunRow, RunsApart,
       Busy, PrevRead, AfterInsert, Working, Gone, Pcs
  <1>8. ASSUME NEW w \in Workers, VerifyFinish(w) PROVE PrevRead'
    <2>1. /\ Busy(w) /\ runs[w].scan \in Scans /\ snapshots' = snapshots /\ Latest' = Latest
      BY <1>8, LatestSame DEF VerifyFinish, Busy, RunRows, RunRow
    <2>2. /\ runs'[w].pc = "return"
          /\ \A v \in Workers \ {w} : runs'[v] = runs[v]
      BY <1>8, GotoRuns DEF VerifyFinish, Pcs
    <2>3. \A s \in Scans \ {runs[w].scan} : scans'[s] = scans[s]
      BY <1>8, <2>1, FinishScans DEF VerifyFinish, Terminal
    <2>4. \A v \in Workers \ {w} : Busy(v) => scans'[runs[v].scan] = scans[runs[v].scan]
      BY <2>1, <2>3 DEF RunsApart, RunRows, RunRow
    <2>5. QED
      BY <2>1, <2>2, <2>4 DEF PrevRead, AfterInsert, Busy, Gone, Working, Pcs
  <1>9. ASSUME NEW w \in Workers, ListRegions(w) PROVE PrevRead'
    <2>1. /\ runs[w].pc = "regions" /\ runs'[w].pc = "passes" /\ runs'[w].scan = runs[w].scan
          /\ \A v \in Workers \ {w} : runs'[v] = runs[v]
          /\ snapshots' = snapshots
      BY <1>9 DEF ListRegions, TypeOK, Run
    <2>2. /\ runs[w].scan \in Scans /\ Latest' = Latest
      BY <2>1, LatestSame DEF RunRows, Busy, RunRow
    <2>3. \A s \in Scans : scans'[s].status = scans[s].status
      BY <1>9, <2>2 DEF ListRegions, TypeOK, ScanRow
    <2>4. QED
      BY <2>1, <2>2, <2>3 DEF PrevRead, Busy, Gone, RunRows, RunRow, AfterInsert, Working,
         Pcs
  <1>10. ASSUME NEW w \in Workers, BeginPass(w) PROVE PrevRead'
    BY <1>10, LatestSame DEF BeginPass, TypeOK, RunRows, RunRow, RunsApart, Busy, PrevRead,
       AfterInsert, Working, Gone, Pcs
  <1>11. ASSUME NEW w \in Workers, PassDone(w) PROVE PrevRead'
    BY <1>11, LatestSame DEF PassDone, TypeOK, RunRows, RunRow, RunsApart, Busy, PrevRead,
       AfterInsert, Working, Gone, Pcs
  <1>12. ASSUME NEW w \in Workers, RegionFails(w) PROVE PrevRead'
    BY <1>12, LatestSame DEF RegionFails, TypeOK, RunRows, RunRow, RunsApart, Busy,
       PrevRead, AfterInsert, Working, Gone, Pcs
  <1>13. ASSUME NEW w \in Workers, Merge(w) PROVE PrevRead'
    BY <1>13, LatestSame DEF Merge, TypeOK, RunRows, RunRow, RunsApart, Busy, PrevRead,
       AfterInsert, Working, Gone, Pcs
  <1>14. ASSUME NEW w \in Workers, InsertSnapshot(w) PROVE PrevRead'
    <2> DEFINE s == runs[w].scan
    <2>1. /\ runs[w].pc = "insert" /\ Busy(w) /\ s \in Scans /\ scans[s].status = "running"
          /\ scans' = scans /\ runs[w].prev = Latest
      BY <1>14 DEF InsertSnapshot, RunRows, Busy, RunRow, Working, Pcs, Gone, PrevRead
    <2>2. /\ runs'[w].pc = "results" /\ runs'[w].scan = s /\ runs'[w].prev = runs[w].prev
          /\ \A v \in Workers \ {w} : runs'[v] = runs[v]
      BY <1>14, GotoRuns DEF InsertSnapshot, Pcs
    <2>3. /\ snapshots'[s].prev = Latest /\ snapshots'[s].stored
          /\ \A t \in Scans \ {s} : snapshots'[t] = snapshots[t]
      BY <1>14, <2>1 DEF InsertSnapshot, TypeOK, NoSnapshot
    <2>4. \A v \in Workers \ {w} :
            Busy(v) => runs[v].scan \in Scans \ {s} /\ (runs[v].pc = "insert" => Gone(v))
      <3>1. ASSUME NEW v \in Workers \ {w}, Busy(v), runs[v].pc = "insert", ~ Gone(v) PROVE FALSE
        <4>1. runs[v].scan \in Scans /\ runs[v].scan # s /\ scans[runs[v].scan].status = "running"
          BY <2>1, <3>1 DEF RunRows, RunRow, RunsApart, Gone, Working, Pcs
        <4>2. runs[v].scan \in Nat /\ s \in Nat
          BY <2>1, <4>1, ScanJobAssumption
        <4> HIDE DEF s
        <4>3. runs[v].scan < s \/ s < runs[v].scan
          BY <4>1, <4>2
        <4>4. QED
          BY <2>1, <4>1, <4>3 DEF InOrder
      <3>2. QED
        BY <2>1, <3>1 DEF RunRows, RunRow, RunsApart
    <2>5. QED
      BY <2>1, <2>2, <2>3, <2>4 DEF PrevRead, Busy, Gone, AfterInsert, Working, Pcs
  <1>15. ASSUME NEW w \in Workers, WriteResults(w) PROVE PrevRead'
    <2>1. /\ runs[w].pc = "results" /\ runs[w].scan \in Scans /\ scans' = scans
      BY <1>15 DEF WriteResults, RunRows, Busy, RunRow
    <2>2. \A s \in Scans : /\ snapshots'[s].stored = snapshots[s].stored
                          /\ snapshots'[s].prev = snapshots[s].prev
      BY <1>15, <2>1 DEF WriteResults, TypeOK, SnapshotRow
    <2>3. Latest' = Latest
      BY <2>2, StoredSame
    <2>4. /\ runs'[w].pc = "reconcile"
          /\ runs'[w].scan = runs[w].scan /\ runs'[w].prev = runs[w].prev
          /\ \A v \in Workers \ {w} : runs'[v] = runs[v]
      BY <1>15, GotoRuns DEF WriteResults, Pcs
    <2>5. QED
      BY <2>1, <2>2, <2>3, <2>4 DEF PrevRead, Busy, Gone, RunRows, RunRow, AfterInsert
  <1>16. ASSUME NEW w \in Workers, Reconcile(w) PROVE PrevRead'
    BY <1>16, GotoRuns, LatestSame DEF Reconcile, TypeOK, RunRows, RunRow, RunsApart, Busy,
       PrevRead, AfterInsert, Working, Gone, Pcs
  <1>17. ASSUME NEW w \in Workers, SetDiff(w) PROVE PrevRead'
    <2>1. /\ runs[w].pc = "diff" /\ runs[w].scan \in Scans /\ scans' = scans
      BY <1>17 DEF SetDiff, RunRows, Busy, RunRow
    <2>2. \A s \in Scans : /\ snapshots'[s].stored = snapshots[s].stored
                          /\ snapshots'[s].prev = snapshots[s].prev
      BY <1>17, <2>1 DEF SetDiff, TypeOK, SnapshotRow
    <2>3. Latest' = Latest
      BY <2>2, StoredSame
    <2>4. /\ runs'[w].pc = "finish"
          /\ runs'[w].scan = runs[w].scan /\ runs'[w].prev = runs[w].prev
          /\ \A v \in Workers \ {w} : runs'[v] = runs[v]
      BY <1>17, GotoRuns DEF SetDiff, Pcs
    <2>5. QED
      BY <2>1, <2>2, <2>3, <2>4 DEF PrevRead, Busy, Gone, RunRows, RunRow, AfterInsert
  <1>18. ASSUME NEW w \in Workers, FinishScan(w) PROVE PrevRead'
    <2>1. /\ Busy(w) /\ runs[w].scan \in Scans /\ snapshots' = snapshots /\ Latest' = Latest
      BY <1>18, LatestSame DEF FinishScan, Busy, RunRows, RunRow
    <2>2. /\ runs'[w].pc = "activate"
          /\ \A v \in Workers \ {w} : runs'[v] = runs[v]
      BY <1>18, GotoRuns DEF FinishScan, Pcs
    <2>3. \A s \in Scans \ {runs[w].scan} : scans'[s] = scans[s]
      BY <1>18, <2>1, FinishScans DEF FinishScan, Terminal
    <2>4. \A v \in Workers \ {w} : Busy(v) => scans'[runs[v].scan] = scans[runs[v].scan]
      BY <2>1, <2>3 DEF RunsApart, RunRows, RunRow
    <2>5. QED
      BY <2>1, <2>2, <2>4 DEF PrevRead, AfterInsert, Busy, Gone, Working, Pcs
  <1>19. ASSUME NEW w \in Workers, Activate(w) PROVE PrevRead'
    BY <1>19, GotoRuns, LatestSame DEF Activate, TypeOK, RunRows, RunRow, RunsApart, Busy,
       PrevRead, AfterInsert, Working, Gone, Pcs
  <1>20. ASSUME NEW w \in Workers, Return(w) PROVE PrevRead'
    BY <1>20, LatestSame DEF Return, NoRun, NoScan, TypeOK, RunRows, RunRow, RunsApart,
       Busy, PrevRead, AfterInsert, Gone
  <1>21. ASSUME NEW w \in Workers, Crash(w) PROVE PrevRead'
    BY <1>21, LatestSame DEF Crash, NoRun, NoScan, TypeOK, RunRows, RunRow, RunsApart, Busy,
       PrevRead, AfterInsert, Gone
  <1>22. ASSUME NEW w \in Workers, Fails(w) PROVE PrevRead'
    <2>1. \A v \in Workers \ {w} : Busy(v) => scans'[runs[v].scan] = scans[runs[v].scan]
      BY <1>22, FailsRun DEF RunsApart, RunRows, RunRow
    <2>2. QED
      BY <1>22, <2>1, FailsRun, LatestSame DEF PrevRead, AfterInsert, Busy, Gone, Working,
         Pcs
  <1>23. QED
    BY <1>1, <1>2, <1>3, <1>4, <1>5, <1>6, <1>7, <1>8, <1>9, <1>10, <1>11, <1>12, <1>13,
       <1>14, <1>15, <1>16, <1>17, <1>18, <1>19, <1>20, <1>21, <1>22 DEF Next, Server,
       RunStep, Fails
\* An insert extends the chain at its end.
LEMMA ChainKept ==
  ASSUME TypeOK, RunRows, RunsApart, LatestExists, InOrder, PrevRead, DiffChain, Next
  PROVE  DiffChain'
  <1>1. ASSUME NEW s \in Scans, NEW trigger \in {"verify", "scan"}, Enqueue(s, trigger)
        PROVE  DiffChain'
    BY <1>1 DEF Enqueue, NoRow, TypeOK, ForeignKeys, PrevRead, AfterInsert, DiffChain,
       Stored
  <1>2. CASE DeleteAccount
    BY <1>2 DEF DeleteAccount, NoRow, NoSnapshot, NoScan, NoDiff, TypeOK, ForeignKeys,
       PrevRead, AfterInsert, DiffChain, Stored
  <1>3. CASE RegisterAccount
    BY <1>3 DEF RegisterAccount, TypeOK, ForeignKeys, PrevRead, AfterInsert, DiffChain,
       Stored
  <1>4. ASSUME NEW w \in Workers, NEW s \in Scans, Claim(w, s) PROVE DiffChain'
    BY <1>4 DEF Claim, NoRun, NoScan, TypeOK, ForeignKeys, PrevRead, AfterInsert, DiffChain,
       Stored
  <1>5. ASSUME NEW w \in Workers, VerifyActivate(w) PROVE DiffChain'
    BY <1>5 DEF VerifyActivate, Goto, TypeOK, ForeignKeys, PrevRead, AfterInsert, DiffChain,
       Stored
  <1>6. ASSUME NEW w \in Workers, VerifyFinish(w) PROVE DiffChain'
    BY <1>6 DEF VerifyFinish, Goto, Finish, TypeOK, ForeignKeys, PrevRead, AfterInsert,
       DiffChain, Stored
  <1>7. ASSUME NEW w \in Workers, ListRegions(w) PROVE DiffChain'
    BY <1>7 DEF ListRegions, TypeOK, ForeignKeys, PrevRead, AfterInsert, DiffChain, Stored
  <1>8. ASSUME NEW w \in Workers, InsertSnapshot(w) PROVE DiffChain'
    <2> DEFINE s == runs[w].scan
    <2>1. /\ s \in Scans /\ scans[s].status = "running" /\ ~ snapshots[s].stored
      BY <1>8 DEF InsertSnapshot, RunRows, Busy, RunRow, Working, Pcs, Gone, PrevRead,
         AfterInsert
    <2>2. /\ snapshots'[s].prev = Latest /\ snapshots'[s].stored /\ snapshots'[s].diff = NoDiff
          /\ \A t \in Scans \ {s} : snapshots'[t] = snapshots[t]
      BY <1>8, <2>1 DEF InsertSnapshot, TypeOK, NoSnapshot
    <2>3. \A t \in Stored : t < s
      <3>1. ASSUME NEW t \in Stored PROVE t < s
        <4>1. t \in Scans /\ t # s /\ scans[t].status # "unused"
          BY <2>1, <3>1 DEF Stored, TypeOK, ForeignKeys
        <4>2. ~ (s < t)
          BY <2>1, <4>1 DEF InOrder
        <4>3. t \in Nat /\ s \in Nat
          BY <2>1, <4>1, ScanJobAssumption
        <4> HIDE DEF s
        <4>4. QED
          BY <4>1, <4>2, <4>3
      <3>2. QED
        BY <3>1
    <2>4. /\ Latest \in Stored \cup {NoScan}
          /\ Stored # {} => Latest \in Stored
          /\ \A t \in Stored : t <= Latest
      BY LatestIsLast
    <2>5. Stored' = Stored \cup {s}
      BY <2>1, <2>2 DEF Stored
    <2>6. \A t \in Stored : snapshots'[t] = snapshots[t] /\ t \in Scans
      BY <2>1, <2>2 DEF Stored
    <2>7. s \in Nat /\ NoScan < s /\ Stored \subseteq Nat
      <3>1. Stored \subseteq Scans
        BY DEF Stored
      <3> HIDE DEF s
      <3>2. QED
        BY <2>1, <3>1, ScanJobAssumption DEF NoScan
    <2> HIDE DEF s
    <2>8. Latest < s
      BY <2>3, <2>4, <2>7
    <2>9. ASSUME NEW t \in Stored
          PROVE  /\ snapshots'[t].prev < t
                 /\ \A u \in Stored' : u < t => u <= snapshots'[t].prev
                 /\ snapshots'[t].prev # NoScan => snapshots'[t].prev \in Stored'
                 /\ snapshots'[t].diff \in {NoDiff, snapshots'[t].prev}
      BY <2>3, <2>5, <2>6, <2>7, <2>9 DEF DiffChain
    <2>10. QED
      BY <2>2, <2>3, <2>4, <2>5, <2>7, <2>8, <2>9 DEF DiffChain
  <1>9. ASSUME NEW w \in Workers, WriteResults(w) PROVE DiffChain'
    BY <1>9 DEF WriteResults, TypeOK, ForeignKeys, PrevRead, AfterInsert, DiffChain, Stored
  <1>10. ASSUME NEW w \in Workers, Reconcile(w) PROVE DiffChain'
    BY <1>10 DEF Reconcile, Goto, TypeOK, ForeignKeys, PrevRead, AfterInsert, DiffChain,
       Stored
  <1>11. ASSUME NEW w \in Workers, SetDiff(w) PROVE DiffChain'
    BY <1>11 DEF SetDiff, TypeOK, ForeignKeys, RunRows, RunRow, Busy, PrevRead, AfterInsert,
       DiffChain, Stored
  <1>12. ASSUME NEW w \in Workers, FinishScan(w) PROVE DiffChain'
    BY <1>12 DEF FinishScan, Goto, Finish, TypeOK, ForeignKeys, PrevRead, AfterInsert,
       DiffChain, Stored
  <1>13. ASSUME NEW w \in Workers, Activate(w) PROVE DiffChain'
    BY <1>13 DEF Activate, Goto, TypeOK, ForeignKeys, PrevRead, AfterInsert, DiffChain,
       Stored
  <1>14. ASSUME NEW w \in Workers, Fails(w) PROVE DiffChain'
    BY <1>14, FailsRun DEF ForeignKeys, PrevRead, AfterInsert, DiffChain, Stored
  <1>15. ASSUME NEW w \in Workers, Moves(w) PROVE DiffChain'
    BY <1>15, MovesFrame DEF TypeOK, DiffChain, Stored
  <1>16. QED
    BY <1>1, <1>2, <1>3, <1>4, <1>5, <1>6, <1>7, <1>8, <1>9, <1>10, <1>11, <1>12, <1>13,
       <1>14, <1>15 DEF Next, Server, RunStep, Fails, Moves
\* No live run reconciles after another that has not finished.
LEMMA RunReconciledKept ==
  ASSUME TypeOK, RunRows, RunsApart, InOrder, RunReconciled, Next
  PROVE  RunReconciled'
  <1>1. ASSUME NEW s \in Scans, NEW trigger \in {"verify", "scan"}, Enqueue(s, trigger)
        PROVE  RunReconciled'
    BY <1>1 DEF Enqueue, NoRow, TypeOK, RunsApart, RunReconciled, Gone
  <1>2. CASE DeleteAccount
    BY <1>2 DEF DeleteAccount, NoRow, NoSnapshot, NoScan, NoDiff, TypeOK, RunRows, RunRow,
       RunsApart, Busy, RunReconciled, Working, Gone, Pcs, Terminal
  <1>3. CASE RegisterAccount
    BY <1>3 DEF RegisterAccount, TypeOK, RunsApart, RunReconciled, Gone
  <1>4. ASSUME NEW w \in Workers, NEW s \in Scans, Claim(w, s) PROVE RunReconciled'
    BY <1>4 DEF Claim, NoRun, NoScan, TypeOK, RunsApart, RunReconciled, Gone
  <1>5. ASSUME NEW w \in Workers, AssumeRole(w) PROVE RunReconciled'
    BY <1>5, GotoRuns DEF AssumeRole, TypeOK, RunsApart, RunReconciled, Working, Gone, Pcs,
       Terminal
  <1>6. ASSUME NEW w \in Workers, BeginVerify(w) PROVE RunReconciled'
    BY <1>6, GotoRuns DEF BeginVerify, TypeOK, RunsApart, RunReconciled, Working, Gone, Pcs,
       Terminal
  <1>7. ASSUME NEW w \in Workers, VerifyActivate(w) PROVE RunReconciled'
    BY <1>7, GotoRuns DEF VerifyActivate, TypeOK, RunsApart, RunReconciled, Working, Gone,
       Pcs, Terminal
  <1>8. ASSUME NEW w \in Workers, VerifyFinish(w) PROVE RunReconciled'
    <2>1. /\ Busy(w) /\ runs[w].scan \in Scans /\ reconciled' = reconciled
      BY <1>8 DEF VerifyFinish, Busy, RunRows, RunRow
    <2>2. /\ runs'[w].pc = "return"
          /\ \A v \in Workers \ {w} : runs'[v] = runs[v]
      BY <1>8, GotoRuns DEF VerifyFinish, Pcs
    <2>3. /\ Gone(w) => scans'[runs[w].scan].status = "deleted"
          /\ \A s \in Scans \ {runs[w].scan} : scans'[s] = scans[s]
      BY <1>8, <2>1, FinishScans DEF VerifyFinish, Terminal
    <2>4. QED
      <3>1. ASSUME NEW v \in Workers, runs'[v].pc \in {"diff", "finish"}, ~ Gone(v)'
            PROVE  /\ reconciled' # NoScan
                   /\ reconciled' = runs'[v].scan \/ scans'[reconciled'].status = "deleted"
        <4>1. v # w /\ runs'[v] = runs[v] /\ Busy(v)
          BY <2>2, <3>1 DEF Busy
        <4>2. scans'[runs[v].scan] = scans[runs[v].scan]
          BY <2>1, <2>3, <4>1 DEF RunsApart, RunRows, RunRow
        <4>3. /\ reconciled # NoScan
              /\ reconciled = runs[v].scan \/ scans[reconciled].status = "deleted"
          BY <3>1, <4>1, <4>2 DEF RunReconciled, Gone
        <4>4. reconciled \in Scans
          BY <4>3 DEF TypeOK
        <4>5. QED
          BY <2>1, <2>3, <4>1, <4>3, <4>4 DEF Gone
      <3>2. QED
        BY <3>1 DEF RunReconciled
  <1>9. ASSUME NEW w \in Workers, ListRegions(w) PROVE RunReconciled'
    BY <1>9 DEF ListRegions, Gone, TypeOK, RunsApart, RunReconciled
  <1>10. ASSUME NEW w \in Workers, BeginPass(w) PROVE RunReconciled'
    BY <1>10 DEF BeginPass, TypeOK, RunsApart, RunReconciled, Gone
  <1>11. ASSUME NEW w \in Workers, PassDone(w) PROVE RunReconciled'
    BY <1>11 DEF PassDone, TypeOK, RunsApart, RunReconciled, Gone
  <1>12. ASSUME NEW w \in Workers, RegionFails(w) PROVE RunReconciled'
    BY <1>12 DEF RegionFails, TypeOK, RunsApart, RunReconciled, Gone
  <1>13. ASSUME NEW w \in Workers, Merge(w) PROVE RunReconciled'
    BY <1>13 DEF Merge, TypeOK, RunsApart, RunReconciled, Gone
  <1>14. ASSUME NEW w \in Workers, InsertSnapshot(w) PROVE RunReconciled'
    BY <1>14, GotoRuns DEF InsertSnapshot, Gone, NoSnapshot, NoScan, NoDiff, Covered,
       TypeOK, RunsApart, RunReconciled, Working, Pcs, Terminal
  <1>15. ASSUME NEW w \in Workers, WriteResults(w) PROVE RunReconciled'
    BY <1>15, GotoRuns DEF WriteResults, Gone, TypeOK, RunsApart, RunReconciled, Working,
       Pcs, Terminal
  <1>16. ASSUME NEW w \in Workers, Reconcile(w) PROVE RunReconciled'
    <2> DEFINE s == runs[w].scan
    <2>1. /\ runs[w].pc = "reconcile" /\ Busy(w) /\ s \in Scans /\ scans' = scans
          /\ reconciled' = IF account = "absent" THEN reconciled ELSE s
      BY <1>16 DEF Reconcile, RunRows, Busy, RunRow
    <2>2. /\ runs'[w].pc = "diff" /\ runs'[w].scan = s
          /\ \A v \in Workers \ {w} : runs'[v] = runs[v]
      BY <1>16, GotoRuns DEF Reconcile, Pcs
    <2>3. s # NoScan
      BY <2>1, ScanJobAssumption
    <2>4. ~ Gone(w) => account # "absent" /\ scans[s].status = "running"
      BY <2>1 DEF RunRows, RunRow, Gone, Working, Pcs, TypeOK, ForeignKeys
    <2>5. ASSUME NEW v \in Workers \ {w}, runs[v].pc \in {"diff", "finish"}, ~ Gone(v)
          PROVE  Gone(w)
      <3>1. runs[v].scan \in Scans /\ runs[v].scan # s /\ scans[runs[v].scan].status = "running"
        BY <2>1, <2>5 DEF RunRows, RunRow, RunsApart, Busy, Gone, Working, Pcs
      <3>2. runs[v].scan < s \/ s < runs[v].scan
        BY <2>1, <3>1, ScanJobAssumption
      <3>3. QED
        BY <2>1, <2>4, <3>1, <3>2 DEF InOrder
    <2> HIDE DEF s
    <2>6. Gone(w) => scans[s].status = "deleted"
      BY DEF Gone, s
    <2>7. ASSUME NEW v \in Workers \ {w}, runs'[v].pc \in {"diff", "finish"}, ~ Gone(v)'
          PROVE  /\ reconciled' # NoScan
                 /\ reconciled' = runs'[v].scan \/ scans'[reconciled'].status = "deleted"
      <3>1. runs[v].pc \in {"diff", "finish"} /\ ~ Gone(v)
        BY <2>1, <2>2, <2>7 DEF Gone
      <3>2. QED
        BY <2>1, <2>2, <2>3, <2>5, <2>6, <3>1 DEF RunReconciled
    <2>8. ~ Gone(w)' => ~ Gone(w)
      BY <2>1, <2>2 DEF Gone, s
    <2>9. QED
      BY <2>1, <2>2, <2>3, <2>4, <2>7, <2>8 DEF RunReconciled
  <1>17. ASSUME NEW w \in Workers, SetDiff(w) PROVE RunReconciled'
    BY <1>17, GotoRuns DEF SetDiff, Gone, TypeOK, RunsApart, RunReconciled, Working, Pcs,
       Terminal
  <1>18. ASSUME NEW w \in Workers, FinishScan(w) PROVE RunReconciled'
    BY <1>18, GotoRuns, FinishScans, SMTT(30) DEF FinishScan, Gone, TypeOK, RunRows, RunRow,
       RunsApart, Busy, RunReconciled, Working, Run, ScanRow, Pcs, Terminal
  <1>19. ASSUME NEW w \in Workers, Activate(w) PROVE RunReconciled'
    BY <1>19, GotoRuns DEF Activate, TypeOK, RunsApart, RunReconciled, Working, Gone, Pcs,
       Terminal
  <1>20. ASSUME NEW w \in Workers, Return(w) PROVE RunReconciled'
    BY <1>20 DEF Return, NoRun, NoScan, TypeOK, RunsApart, RunReconciled, Gone
  <1>21. ASSUME NEW w \in Workers, Crash(w) PROVE RunReconciled'
    BY <1>21 DEF Crash, NoRun, NoScan, TypeOK, RunsApart, RunReconciled, Gone
  <1>22. ASSUME NEW w \in Workers, Fails(w) PROVE RunReconciled'
    <2>1. /\ Busy(w) /\ runs[w].scan \in Scans /\ reconciled' = reconciled
      BY <1>22, FailsRun
    <2>2. /\ runs'[w].pc = "return"
          /\ \A v \in Workers \ {w} : runs'[v] = runs[v]
      BY <1>22, FailsRun
    <2>3. /\ Gone(w) => scans'[runs[w].scan].status = "deleted"
          /\ \A s \in Scans \ {runs[w].scan} : scans'[s] = scans[s]
      BY <1>22, FailsRun
    <2>4. QED
      <3>1. ASSUME NEW v \in Workers, runs'[v].pc \in {"diff", "finish"}, ~ Gone(v)'
            PROVE  /\ reconciled' # NoScan
                   /\ reconciled' = runs'[v].scan \/ scans'[reconciled'].status = "deleted"
        <4>1. v # w /\ runs'[v] = runs[v] /\ Busy(v)
          BY <2>2, <3>1 DEF Busy
        <4>2. scans'[runs[v].scan] = scans[runs[v].scan]
          BY <2>1, <2>3, <4>1 DEF RunsApart, RunRows, RunRow
        <4>3. /\ reconciled # NoScan
              /\ reconciled = runs[v].scan \/ scans[reconciled].status = "deleted"
          BY <3>1, <4>1, <4>2 DEF RunReconciled, Gone
        <4>4. reconciled \in Scans
          BY <4>3 DEF TypeOK
        <4>5. QED
          BY <2>1, <2>3, <4>1, <4>3, <4>4 DEF Gone
      <3>2. QED
        BY <3>1 DEF RunReconciled
  <1>23. QED
    BY <1>1, <1>2, <1>3, <1>4, <1>5, <1>6, <1>7, <1>8, <1>9, <1>10, <1>11, <1>12, <1>13,
       <1>14, <1>15, <1>16, <1>17, <1>18, <1>19, <1>20, <1>21, <1>22 DEF Next, Server,
       RunStep, Fails
\* A scan that completes is the one the findings were reconciled with.
LEMMA FindingsKept ==
  ASSUME TypeOK, RunRows, RunsApart, InOrder, RunReconciled, FindingsFollow, Next
  PROVE  FindingsFollow'
  <1>1. ASSUME NEW s \in Scans, NEW trigger \in {"verify", "scan"}, Enqueue(s, trigger)
        PROVE  FindingsFollow'
    BY <1>1 DEF Enqueue, NoRow, TypeOK, RunReconciled, FindingsFollow
  <1>2. CASE DeleteAccount
    BY <1>2 DEF DeleteAccount, NoRow, NoSnapshot, NoScan, NoDiff, TypeOK, RunReconciled,
       FindingsFollow
  <1>3. CASE RegisterAccount
    BY <1>3 DEF RegisterAccount, TypeOK, RunReconciled, FindingsFollow
  <1>4. ASSUME NEW w \in Workers, NEW s \in Scans, Claim(w, s) PROVE FindingsFollow'
    BY <1>4 DEF Claim, NoRun, NoScan, TypeOK, RunReconciled, FindingsFollow
  <1>5. ASSUME NEW w \in Workers, VerifyActivate(w) PROVE FindingsFollow'
    BY <1>5 DEF VerifyActivate, Goto, TypeOK, RunReconciled, FindingsFollow
  <1>6. ASSUME NEW w \in Workers, VerifyFinish(w) PROVE FindingsFollow'
    <2>1. /\ runs[w].scan \in Scans /\ scans[runs[w].scan].trigger # "scan"
          /\ reconciled' = reconciled
      BY <1>6 DEF VerifyFinish, RunRows, Busy, RunRow
    <2>2. /\ scans'[runs[w].scan].trigger # "scan"
          /\ Gone(w) => scans'[runs[w].scan].status = "deleted"
          /\ \A s \in Scans \ {runs[w].scan} : scans'[s] = scans[s]
      BY <1>6, <2>1, FinishScans DEF VerifyFinish, Terminal
    <2>3. \A s \in Scans : scans[s].status = "deleted" => scans'[s].status = "deleted"
      BY <2>1, <2>2 DEF Gone
    <2>4. QED
      BY <2>1, <2>2, <2>3 DEF FindingsFollow, TypeOK
  <1>7. ASSUME NEW w \in Workers, ListRegions(w) PROVE FindingsFollow'
    BY <1>7 DEF ListRegions, TypeOK, RunReconciled, FindingsFollow
  <1>8. ASSUME NEW w \in Workers, InsertSnapshot(w) PROVE FindingsFollow'
    BY <1>8 DEF InsertSnapshot, Goto, NoSnapshot, NoScan, NoDiff, Covered, TypeOK,
       RunReconciled, FindingsFollow
  <1>9. ASSUME NEW w \in Workers, WriteResults(w) PROVE FindingsFollow'
    BY <1>9 DEF WriteResults, Goto, TypeOK, RunReconciled, FindingsFollow
  <1>10. ASSUME NEW w \in Workers, Reconcile(w) PROVE FindingsFollow'
    <2> DEFINE s == runs[w].scan
    <2>1. /\ s \in Scans /\ scans' = scans /\ scans[s].status \in {"running", "deleted"}
          /\ reconciled' = IF account = "absent" THEN reconciled ELSE s
      BY <1>10 DEF Reconcile, RunRows, Busy, RunRow, Working, Pcs
    <2>2. s # NoScan /\ Scans \subseteq Nat
      BY <2>1, ScanJobAssumption
    <2>3. ASSUME NEW t \in Scans, scans[t].status \in {"ok", "partial"}, scans[s].status = "running"
          PROVE  t <= s
      <3>1. ~ (s < t)
        BY <2>1, <2>3 DEF InOrder
      <3>2. s \in Nat /\ t \in Nat
        BY <2>1, <2>2
      <3> HIDE DEF s
      <3>3. QED
        BY <3>1, <3>2
    <2> HIDE DEF s
    <2>4. QED
      BY <2>1, <2>2, <2>3 DEF FindingsFollow
  <1>11. ASSUME NEW w \in Workers, SetDiff(w) PROVE FindingsFollow'
    BY <1>11 DEF SetDiff, Goto, TypeOK, RunReconciled, FindingsFollow
  <1>12. ASSUME NEW w \in Workers, FinishScan(w) PROVE FindingsFollow'
    <2> DEFINE s == runs[w].scan
    <2>1. /\ s \in Scans /\ reconciled' = reconciled /\ runs[w].pc = "finish"
          /\ Gone(w) <=> scans[s].status = "deleted"
      BY <1>12 DEF FinishScan, RunRows, Busy, RunRow, Gone
    <2>2. /\ Gone(w) => scans'[s].status = "deleted"
          /\ \A t \in Scans \ {s} : scans'[t] = scans[t]
      BY <1>12, <2>1, FinishScans DEF FinishScan, Terminal
    <2>3. \A t \in Scans : scans[t].status = "deleted" => scans'[t].status = "deleted"
      BY <2>1, <2>2
    <2>4. ~ Gone(w) => /\ reconciled # NoScan
                       /\ reconciled = s \/ scans[reconciled].status = "deleted"
      BY <2>1 DEF RunReconciled
    <2>5. Scans \subseteq Nat /\ reconciled \in Scans \cup {NoScan}
      BY ScanJobAssumption DEF TypeOK
    <2> HIDE DEF s
    <2>6. ASSUME NEW t \in Scans, scans'[t].trigger = "scan",
                 scans'[t].status \in {"ok", "partial"}
          PROVE  /\ reconciled # NoScan
                 /\ t <= reconciled \/ scans'[reconciled].status = "deleted"
      <3>1. CASE t = s
        BY <2>1, <2>2, <2>3, <2>4, <2>5, <2>6, <3>1
      <3>2. CASE t # s
        BY <2>2, <2>3, <2>5, <2>6, <3>2 DEF FindingsFollow
      <3>3. QED
        BY <3>1, <3>2
    <2>7. QED
      BY <2>1, <2>6 DEF FindingsFollow
  <1>13. ASSUME NEW w \in Workers, Activate(w) PROVE FindingsFollow'
    BY <1>13 DEF Activate, Goto, TypeOK, RunReconciled, FindingsFollow
  <1>14. ASSUME NEW w \in Workers, Fails(w) PROVE FindingsFollow'
    <2>1. /\ runs[w].scan \in Scans /\ reconciled' = reconciled
          /\ scans'[runs[w].scan].status \in {"deleted", "failed"}
          /\ Gone(w) => scans'[runs[w].scan].status = "deleted"
          /\ \A s \in Scans \ {runs[w].scan} : scans'[s] = scans[s]
      BY <1>14, FailsRun
    <2>2. \A s \in Scans : scans[s].status = "deleted" => scans'[s].status = "deleted"
      BY <2>1 DEF Gone
    <2>3. QED
      BY <2>1, <2>2 DEF FindingsFollow, TypeOK
  <1>15. ASSUME NEW w \in Workers, Moves(w) PROVE FindingsFollow'
    BY <1>15, MovesFrame DEF TypeOK, FindingsFollow
  <1>16. QED
    BY <1>1, <1>2, <1>3, <1>4, <1>5, <1>6, <1>7, <1>8, <1>9, <1>10, <1>11, <1>12, <1>13,
       <1>14, <1>15 DEF Next, Server, RunStep, Fails, Moves

-----------------------------------------------------------------------------
(* The theorems.                                                           *)

LEMMA InitIInv == Init => IInv
  <1> SUFFICES ASSUME Init PROVE IInv
    OBVIOUS
  <1>1. TypeOK
    BY DEF Init, TypeOK, ScanRow, SnapshotRow, Run, ForeignKeys, NoRow, NoSnapshot, NoRun,
       NoScan, NoDiff, Pcs
  <1>2. RunRows /\ RunsApart /\ SecretsBorrowed /\ RunsData /\ PrevRead /\ RunReconciled
    BY DEF Init, RunRows, RunsApart, SecretsBorrowed, RunsData, PrevRead, RunReconciled,
       Busy, NoRun
  <1>3. LatestExists /\ OutcomesBacked /\ InOrder /\ DiffChain /\ FindingsFollow
    BY DEF Init, LatestExists, OutcomesBacked, InOrder, DiffChain, FindingsFollow, Stored,
       NoRow, NoSnapshot
  <1>4. QED
    BY <1>1, <1>2, <1>3 DEF IInv

LEMMA NextIInv ==
  ASSUME IInv, Next
  PROVE  IInv'
  <1>1. TypeOK'
    BY ScansStayTyped, SnapshotsStayTyped, RunsStayTyped, RestStaysTyped, KeysHold DEF IInv,
       TypeOK, ScansTyped, SnapshotsTyped, RunsTyped, RestTyped
  <1>2. RunRows' /\ RunsApart' /\ LatestExists' /\ SecretsBorrowed'
    BY RunRowsKept, RunsKeptApart, LatestKept, SecretsKept DEF IInv
  <1>3. RunsData' /\ OutcomesBacked'
    BY RunsDataKept, OutcomesKept DEF IInv
  <1>4. InOrder' /\ PrevRead' /\ DiffChain'
    BY OrderKept, PrevReadKept, ChainKept DEF IInv
  <1>5. RunReconciled' /\ FindingsFollow'
    BY RunReconciledKept, FindingsKept DEF IInv
  <1>6. QED
    BY <1>1, <1>2, <1>3, <1>4, <1>5 DEF IInv

LEMMA StutterIInv ==
  ASSUME IInv, UNCHANGED vars
  PROVE  IInv'
  <1>1. TypeOK'
    BY DEF IInv, vars, TypeOK, ForeignKeys
  <1>2. RunRows' /\ RunsApart' /\ SecretsBorrowed'
    BY DEF IInv, vars, RunRows, RunRow, RunsApart, SecretsBorrowed, Busy
  <1>3. LatestExists' /\ DiffChain' /\ OutcomesBacked' /\ InOrder' /\ FindingsFollow'
    BY DEF IInv, vars, LatestExists, DiffChain, OutcomesBacked, InOrder, FindingsFollow,
       Stored
  <1>4. RunsData' /\ RunReconciled'
    BY DEF IInv, vars, RunsData, RunData, RunReconciled, Busy, Gone, Covered
  <1>5. PrevRead'
    BY LatestSame DEF IInv, vars, PrevRead, Busy, Gone
  <1>6. QED
    BY <1>1, <1>2, <1>3, <1>4, <1>5 DEF IInv

\* The invariant holds in every reachable state.
THEOREM Invariance == Spec => []IInv
  <1>1. Init => IInv
    BY InitIInv
  <1>2. IInv /\ [Next]_vars => IInv'
    BY NextIInv, StutterIInv
  <1>3. QED
    BY <1>1, <1>2, PTL DEF Spec

\* Every variable has its type, a snapshot its scan and a scan its account.
THEOREM TypeCorrect == Spec => []TypeOK
  <1>1. IInv => TypeOK
    BY DEF IInv
  <1>2. QED
    BY <1>1, Invariance, PTL

\* An outcome of runScan is true of what the run stored.
THEOREM OutcomesAreTrue == Spec => []OutcomeTrue
  <1>1. IInv => OutcomeTrue
    BY DEF IInv, OutcomeTrue, RunRows, RunRow, Busy
  <1>2. QED
    BY <1>1, Invariance, PTL

\* The stored diff is the one against the predecessor in the chain of snapshots.
THEOREM DiffsFollowTheChain == Spec => []DiffChain
  <1>1. IInv => DiffChain
    BY DEF IInv
  <1>2. QED
    BY <1>1, Invariance, PTL

\* No secret outlives the run, or the pass, that borrowed it.
THEOREM SecretsAreBorrowed == Spec => []SecretsBorrowed
  <1>1. IInv => SecretsBorrowed
    BY DEF IInv
  <1>2. QED
    BY <1>1, Invariance, PTL

\* The findings never stay behind the last scan that completed.
THEOREM FindingsFollowScans == Spec => []FindingsFollow
  <1>1. IInv => FindingsFollow
    BY DEF IInv
  <1>2. QED
    BY <1>1, Invariance, PTL
=============================================================================
