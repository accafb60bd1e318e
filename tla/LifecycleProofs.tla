--------------------------- MODULE LifecycleProofs ---------------------------
(***************************************************************************)
(* Theorems of Lifecycle for every set of workers, accounts, findings and  *)
(* suppressions.                                                           *)
(***************************************************************************)
EXTENDS Lifecycle, GeneralLemmas

-----------------------------------------------------------------------------
(* The inductive invariant.  What a reconcile writes was decided when the   *)
(* run observed the account and read the suppressions, so the invariant     *)
(* says of each run what still holds of both.                               *)

ObservingPcs == {"merged", "persisted", "read"}
Existing == {s \in SupIds : suppressions[s].state # "none"}

\* What a run r may rely on until it reconciles.
RunOK(r) ==
  /\ r.pc \in ObservingPcs => 0 < r.observed /\ r.observed <= clock
  /\ r.known \subseteq Existing
  /\ (r.pc = "read" /\ ~ r.outdated) => r.known = ActiveAt(r.observed)
  /\ (r.pc \in ObservingPcs /\ ~ r.gone) =>
       \A f \in Of(r.account) \ orphaned :
         findings[f].status # "absent" =>
           findings[f].last <= r.observed /\ findings[f].resolved <= r.observed

RunsOK == \A w \in Workers : RunOK(runs[w])

\* An account has one run whose scan still has its row.
OneLiveRun ==
  \A v, w \in Workers :
    (/\ runs[v].account # NoAccount /\ runs[v].account = runs[w].account
     /\ ~ runs[v].gone /\ ~ runs[w].gone) => v = w

RowsNotAhead ==
  /\ 0 < clock
  /\ \A f \in Findings :
       findings[f].status # "absent" =>
         findings[f].last <= clock /\ findings[f].resolved <= clock

IInv == /\ TypeOK /\ RunsOK /\ OneLiveRun /\ RowsNotAhead
        /\ RowsAgree /\ HistoryInOrder /\ SuppressionsInForce

-----------------------------------------------------------------------------
\* matchSuppression returns one of the given suppressions that covers the
\* finding and is not over, and nothing only if there is none.
LEMMA MatchReturns ==
  ASSUME NEW f, NEW list \in SUBSET SupIds, NEW t
  PROVE  /\ Match(f, list, t) \in SupIds \cup {NoSup}
         /\ Match(f, list, t) = NoSup <=> Matching(f, list, t) = {}
         /\ Match(f, list, t) # NoSup => Match(f, list, t) \in Matching(f, list, t)
  <1>1. Matching(f, list, t) \in SUBSET SupIds /\ NoSup \notin SupIds
    BY LifecycleAssumption DEF Matching
  <1>2. CASE Matching(f, list, t) = {}
    BY <1>2 DEF Match
  <1>3. CASE Matching(f, list, t) # {}
    <2>1. \E s \in Matching(f, list, t) : \A r \in Matching(f, list, t) : r <= s
      BY <1>1, <1>3, LifecycleAssumption, FS_Subset, GreatestNumber
    <2>2. Match(f, list, t) \in Matching(f, list, t)
      BY <1>3, <2>1 DEF Match
    <2>3. QED
      BY <1>1, <1>3, <2>2
  <1>4. QED
    BY <1>2, <1>3

\* A row that was just seen.
LEMMA SeenRow ==
  ASSUME TypeOK, NEW f \in Findings, NEW list \in SUBSET SupIds, NEW t \in Nat
  PROVE  /\ Seen(f, list, t) \in FindingRow
         /\ Seen(f, list, t).sup = Match(f, list, t)
         /\ Seen(f, list, t).status = StatusOf(Match(f, list, t))
         /\ Seen(f, list, t).last = t
         /\ Seen(f, list, t).resolved = Never
         /\ Seen(f, list, t).first =
              IF findings[f].status = "absent" THEN t ELSE findings[f].first
  <1>1. findings[f] \in FindingRow
    BY DEF TypeOK
  <1>2. Match(f, list, t) \in SupIds \cup {NoSup}
    BY MatchReturns
  <1>3. StatusOf(Match(f, list, t)) \in Status
    BY DEF StatusOf, Status
  <1>4. QED
    BY <1>1, <1>2, <1>3 DEF Seen, FindingRow, Never

\* A row that was just resolved.
LEMMA ResolvedRow ==
  ASSUME TypeOK, NEW f \in Findings, NEW t \in Nat
  PROVE  /\ Resolved(f, t) \in FindingRow
         /\ Resolved(f, t).sup = NoSup
         /\ Resolved(f, t).status = "resolved"
         /\ Resolved(f, t).first = findings[f].first
         /\ Resolved(f, t).last = findings[f].last
         /\ Resolved(f, t).resolved = t
  <1>1. findings[f] \in FindingRow
    BY DEF TypeOK
  <1>2. QED
    BY <1>1 DEF Resolved, FindingRow, Status, NoSup

\* A row that the suppressions were just applied to.
LEMMA AppliedRow ==
  ASSUME TypeOK, NEW f \in Findings
  PROVE  /\ Applied(f) \in FindingRow
         /\ Applied(f).sup = Match(f, ActiveAt(clock), clock)
         /\ Applied(f).status = StatusOf(Match(f, ActiveAt(clock), clock))
         /\ Applied(f).first = findings[f].first
         /\ Applied(f).last = findings[f].last
         /\ Applied(f).resolved = findings[f].resolved
  <1>1. findings[f] \in FindingRow
    BY DEF TypeOK
  <1>2. Match(f, ActiveAt(clock), clock) \in SupIds \cup {NoSup}
    BY MatchReturns DEF ActiveAt
  <1>3. StatusOf(Match(f, ActiveAt(clock), clock)) \in Status
    BY DEF StatusOf, Status
  <1>4. QED
    BY <1>1, <1>2, <1>3 DEF Applied, FindingRow

\* What is active later was active before.
LEMMA ActiveShrinks ==
  ASSUME TypeOK, NEW t \in Nat, NEW u \in Nat, t <= u
  PROVE  ActiveAt(u) \subseteq ActiveAt(t)
  <1>1. \A s \in SupIds : suppressions[s].expires \in Nat
    BY DEF TypeOK, Suppression
  <1>2. QED
    BY <1>1 DEF ActiveAt

LEMMA InitIInv ==
  ASSUME Init
  PROVE  IInv
  <1>1. NoRow \in FindingRow /\ NoRow.status = "absent" /\ NoRow.sup = NoSup
        /\ NoRow.resolved = Never
    BY DEF NoRow, FindingRow, Status, Never
  <1>2. Unwritten \in Suppression
    BY DEF Unwritten, Suppression, Never
  <1>3. /\ NoRun \in Run /\ NoRun.pc = "idle" /\ NoRun.account = NoAccount
        /\ NoRun.found = {} /\ NoRun.known = {}
    BY DEF NoRun, Run, RunPcs, Never
  <1>4. TypeOK
    BY <1>1, <1>2, <1>3 DEF Init, TypeOK
  <1>5. RunsOK /\ OneLiveRun
    BY <1>3 DEF Init, RunsOK, RunOK, OneLiveRun, ObservingPcs
  <1>6. RowsNotAhead /\ RowsAgree /\ HistoryInOrder /\ SuppressionsInForce
    BY <1>1 DEF Init, RowsNotAhead, RowsAgree, HistoryInOrder, SuppressionsInForce
  <1>7. QED
    BY <1>4, <1>5, <1>6 DEF IInv

-----------------------------------------------------------------------------
(* Steps that change one run and nothing else.                              *)

LEMMA RunChanges ==
  ASSUME IInv, NEW w \in Workers, NEW r \in Run,
         runs' = [runs EXCEPT ![w] = r],
         UNCHANGED <<clock, registered, findings, suppressions, server, raced, orphaned>>,
         RunOK(r), r.found \subseteq Of(r.account), r.pc = "idle" => r = NoRun,
         \A v \in Workers \ {w} :
           (/\ r.account # NoAccount /\ runs[v].account = r.account
            /\ ~ runs[v].gone) => r.gone
  PROVE  IInv'
  <1> USE DEF IInv
  <1>1. runs \in [Workers -> Run] /\ runs'[w] = r
        /\ \A v \in Workers \ {w} : runs'[v] = runs[v]
    BY DEF TypeOK
  <1>2. TypeOK'
    BY <1>1 DEF TypeOK, Of
  <1>3. RunsOK'
    <2>1. \A v \in Workers : RunOK(runs'[v])
      BY <1>1 DEF RunsOK
    <2>2. QED
      BY <2>1 DEF RunsOK, RunOK, Existing, ActiveAt, Of
  <1>4. OneLiveRun'
    BY <1>1 DEF OneLiveRun
  <1>5. (RowsNotAhead /\ RowsAgree /\ HistoryInOrder /\ SuppressionsInForce)'
    BY DEF RowsNotAhead, RowsAgree, HistoryInOrder, SuppressionsInForce, ActiveAt
  <1>6. QED
    BY <1>2, <1>3, <1>4, <1>5

\* The run of a worker and what its fields are.
LEMMA RunOf ==
  ASSUME TypeOK, NEW w \in Workers
  PROVE  /\ runs[w] \in Run
         /\ runs[w].found \subseteq Of(runs[w].account)
         /\ runs[w].pc \in RunPcs
         /\ runs[w].account \in Accounts \cup {NoAccount}
         /\ runs[w].gone \in BOOLEAN /\ runs[w].outdated \in BOOLEAN
         /\ runs[w].observed \in Nat
         /\ runs[w].known \subseteq SupIds
  BY DEF TypeOK, Run

LEMMA NoRunIsOK ==
  /\ NoRun \in Run /\ RunOK(NoRun)
  /\ NoRun.pc = "idle" /\ NoRun.account = NoAccount
  /\ NoRun.found = {} /\ NoRun.known = {}
  BY DEF NoRun, Run, RunPcs, RunOK, ObservingPcs, Never

LEMMA EndIInv ==
  ASSUME IInv, NEW w \in Workers, End(w),
         UNCHANGED <<clock, registered, findings, suppressions, server, raced, orphaned>>
  PROVE  IInv'
  BY RunChanges, NoRunIsOK DEF End

LEMMA ClaimIInv ==
  ASSUME IInv, NEW w \in Workers, NEW a \in Accounts, Claim(w, a)
  PROVE  IInv'
  <1> DEFINE r == [NoRun EXCEPT !.pc = "scanning", !.account = a]
  <1>1. /\ r \in Run /\ r.pc = "scanning" /\ r.account = a
        /\ r.found = {} /\ r.known = {}
    BY DEF NoRun, Run, RunPcs, Never
  <1>2. RunOK(r)
    BY <1>1 DEF RunOK, ObservingPcs
  <1>3. \A v \in Workers : runs[v].account = a => runs[v].gone
    BY DEF Claim, Claimable
  <1>4. runs' = [runs EXCEPT ![w] = r]
    BY DEF Claim
  <1> HIDE DEF r
  <1>5. QED
    BY <1>1, <1>2, <1>3, <1>4, RunChanges DEF Claim

LEMMA MergeIInv ==
  ASSUME IInv, NEW w \in Workers, Merge(w)
  PROVE  IInv'
  <1> USE DEF IInv
  <1>1. PICK failed \in SUBSET Regions, found \in SUBSET Of(runs[w].account) :
          runs' = [runs EXCEPT ![w].pc = "merged", ![w].observed = clock,
                               ![w].found = found, ![w].failed = failed]
    BY DEF Merge
  <1> DEFINE r == [runs[w] EXCEPT !.pc = "merged", !.observed = clock,
                                  !.found = found, !.failed = failed]
  <1>2. runs[w] \in Run /\ clock \in Nat /\ found \subseteq Findings
    BY RunOf DEF TypeOK, Of
  <1>3. /\ r \in Run /\ r.pc = "merged" /\ r.observed = clock /\ r.found = found
        /\ r.account = runs[w].account /\ r.gone = runs[w].gone
        /\ r.known = runs[w].known
    BY <1>2 DEF Run, RunPcs
  <1>4. runs' = [runs EXCEPT ![w] = r]
    BY <1>1, <1>2 DEF TypeOK
  <1> HIDE DEF r
  <1>5. RunOK(r)
    BY <1>2, <1>3 DEF RunOK, RunsOK, RowsNotAhead, Of, ObservingPcs
  <1>6. \A v \in Workers \ {w} :
          (r.account # NoAccount /\ runs[v].account = r.account /\ ~ runs[v].gone) => r.gone
    BY <1>3 DEF OneLiveRun
  <1>7. QED
    BY <1>3, <1>4, <1>5, <1>6, RunChanges DEF Merge

LEMMA PersistIInv ==
  ASSUME IInv, NEW w \in Workers, Persist(w)
  PROVE  IInv'
  <1> USE DEF IInv
  <1> DEFINE r == [runs[w] EXCEPT !.pc = "persisted"]
  <1>1. runs[w] \in Run /\ runs[w].pc = "merged"
        /\ runs[w].found \subseteq Of(runs[w].account) /\ RunOK(runs[w])
    BY RunOf DEF Persist, RunsOK
  <1>2. /\ r \in Run /\ r.pc = "persisted" /\ r.observed = runs[w].observed
        /\ r.account = runs[w].account /\ r.gone = runs[w].gone
        /\ r.known = runs[w].known /\ r.found = runs[w].found
    BY <1>1 DEF Run, RunPcs
  <1>3. runs' = [runs EXCEPT ![w] = r]
    BY <1>1 DEF TypeOK, Persist, Goto
  <1> HIDE DEF r
  <1>4. RunOK(r)
    BY <1>1, <1>2 DEF RunOK, ObservingPcs
  <1>5. \A v \in Workers \ {w} :
          (r.account # NoAccount /\ runs[v].account = r.account /\ ~ runs[v].gone) => r.gone
    BY <1>2 DEF OneLiveRun
  <1>6. QED
    BY <1>1, <1>2, <1>3, <1>4, <1>5, RunChanges DEF Persist

LEMMA ReadSuppressionsIInv ==
  ASSUME IInv, NEW w \in Workers, ReadSuppressions(w)
  PROVE  IInv'
  <1> USE DEF IInv
  <1> DEFINE known == ActiveAt(runs[w].observed)
             r == [runs[w] EXCEPT !.pc = "read", !.known = known]
  <1>1. runs[w] \in Run /\ runs[w].pc = "persisted"
        /\ runs[w].found \subseteq Of(runs[w].account) /\ RunOK(runs[w])
    BY RunOf DEF ReadSuppressions, RunsOK
  <1>2. known \subseteq SupIds /\ known \subseteq Existing
    BY DEF ActiveAt, Existing
  <1>3. /\ r \in Run /\ r.pc = "read" /\ r.observed = runs[w].observed
        /\ r.account = runs[w].account /\ r.gone = runs[w].gone
        /\ r.known = known /\ r.found = runs[w].found
    BY <1>1, <1>2 DEF Run, RunPcs
  <1>4. runs' = [runs EXCEPT ![w] = r]
    BY <1>1 DEF TypeOK, ReadSuppressions
  <1> HIDE DEF r
  <1>5. RunOK(r)
    BY <1>1, <1>2, <1>3 DEF RunOK, ObservingPcs
  <1>6. \A v \in Workers \ {w} :
          (r.account # NoAccount /\ runs[v].account = r.account /\ ~ runs[v].gone) => r.gone
    BY <1>3 DEF OneLiveRun
  <1>7. QED
    BY <1>1, <1>3, <1>4, <1>5, <1>6, RunChanges DEF ReadSuppressions

LEMMA CrashIInv ==
  ASSUME IInv, NEW w \in Workers, Crash(w)
  PROVE  IInv'
  <1> USE DEF IInv
  <1> DEFINE r == [NoRun EXCEPT !.pc = "down", !.account = runs[w].account,
                                !.gone = runs[w].gone]
  <1>1. /\ r \in Run /\ r.pc = "down" /\ r.account = runs[w].account
        /\ r.gone = runs[w].gone /\ r.known = {} /\ r.found = {}
    BY RunOf DEF NoRun, Run, RunPcs, Never
  <1>2. runs' = [runs EXCEPT ![w] = r]
    BY DEF Crash
  <1> HIDE DEF r
  <1>3. RunOK(r)
    BY <1>1 DEF RunOK, ObservingPcs
  <1>4. \A v \in Workers \ {w} :
          (r.account # NoAccount /\ runs[v].account = r.account /\ ~ runs[v].gone) => r.gone
    BY <1>1 DEF OneLiveRun
  <1>5. QED
    BY <1>1, <1>2, <1>3, <1>4, RunChanges DEF Crash

-----------------------------------------------------------------------------
(* The reconcile.                                                           *)

\* What it does to a row: seen, resolved, or left as it was.
LEMMA ReconcileRows ==
  ASSUME TypeOK, NEW w \in Workers, Reconcile(w), NEW f \in Findings
  PROVE  \/ /\ f \in runs[w].found
            /\ findings'[f] = Seen(f, runs[w].known, runs[w].observed)
         \/ /\ f \in Of(runs[w].account) \ runs[w].found
            /\ Unresolved(f)
            /\ findings'[f] = Resolved(f, runs[w].observed)
         \/ /\ f \in Of(runs[w].account) => f \notin runs[w].found /\ ~ Unresolved(f)
            /\ findings'[f] = findings[f]
  <1>1. runs[w].found \subseteq Of(runs[w].account)
    BY RunOf
  <1>2. CASE f \in runs[w].found
    BY <1>2 DEF Reconcile
  <1>3. CASE f \in Of(runs[w].account) \ runs[w].found /\ Unresolved(f)
    BY <1>3 DEF Reconcile
  <1>4. CASE f \notin runs[w].found /\ ~ (f \in Of(runs[w].account) /\ Unresolved(f))
    BY <1>1, <1>4 DEF Reconcile
  <1>5. QED
    BY <1>2, <1>3, <1>4

LEMMA ReconcileIInv ==
  ASSUME IInv, NEW w \in Workers, Reconcile(w)
  PROVE  IInv'
  <1> USE DEF IInv
  <1> DEFINE run == runs[w]
  <1>1. /\ run \in Run /\ run.found \subseteq Of(run.account)
        /\ run.known \in SUBSET SupIds /\ run.known \subseteq Existing
        /\ run.observed \in Nat /\ 0 < run.observed /\ run.observed <= clock
        /\ run.pc = "read" /\ clock \in Nat /\ run.gone \in BOOLEAN
    BY RunOf DEF RunsOK, RunOK, ObservingPcs, Reconcile, TypeOK
  <1>2. /\ runs' \in [Workers -> Run] /\ runs'[w] = NoRun
        /\ \A v \in Workers \ {w} : runs'[v] = runs[v]
    BY NoRunIsOK DEF Reconcile, End, TypeOK
  <1>3. \A f \in Findings : findings[f] \in FindingRow /\ findings'[f] \in FindingRow
    BY <1>1, ReconcileRows, SeenRow, ResolvedRow DEF TypeOK
  <1>4. TypeOK'
    <2>1. findings' \in [Findings -> FindingRow]
      BY <1>3 DEF Reconcile
    <2>2. raced' \subseteq Findings /\ orphaned' \subseteq Findings
      BY DEF Reconcile, TypeOK, Of
    <2>3. QED
      BY <1>2, <2>1, <2>2, NoRunIsOK DEF TypeOK, Reconcile, Of
  <1>5. OneLiveRun'
    BY <1>2, NoRunIsOK DEF OneLiveRun
  <1>6. RunsOK'
    <2> SUFFICES ASSUME NEW v \in Workers
                 PROVE  RunOK(runs[v])'
      BY DEF RunsOK
    <2>1. CASE v = w
      BY <2>1, <1>2, NoRunIsOK DEF RunOK, ObservingPcs
    <2>2. CASE v # w
      <3>1. runs'[v] = runs[v] /\ RunOK(runs[v]) /\ runs[v] \in Run
        BY <1>2, <2>2 DEF RunsOK, TypeOK
      <3>2. ASSUME runs[v].pc \in ObservingPcs, ~ runs[v].gone,
                   NEW f \in Of(runs[v].account) \ orphaned'
            PROVE  findings'[f] = findings[f] /\ f \notin orphaned /\ f \in Findings
        <4>1. f \in Findings /\ Owner[f] = runs[v].account /\ runs[v].account # NoAccount
          BY LifecycleAssumption DEF Of
        <4>2. runs[v].account # run.account
          <5>1. SUFFICES ASSUME runs[v].account = run.account PROVE FALSE
            OBVIOUS
          <5>2. run.gone
            BY <2>2, <3>2, <4>1, <5>1 DEF OneLiveRun
          <5>3. QED
            BY <3>2, <4>1, <5>1, <5>2 DEF Reconcile, Of
        <4>3. f \notin Of(run.account)
          BY <4>1, <4>2 DEF Of
        <4>4. QED
          BY <1>1, <4>1, <4>3, ReconcileRows DEF Reconcile
      <3>3. UNCHANGED <<clock, suppressions>>
        BY DEF Reconcile
      <3>4. (runs[v].pc \in ObservingPcs /\ ~ runs[v].gone) =>
               \A f \in Of(runs[v].account) \ orphaned' :
                 findings'[f].status # "absent" =>
                   /\ findings'[f].last <= runs[v].observed
                   /\ findings'[f].resolved <= runs[v].observed
        BY <3>1, <3>2 DEF RunOK
      <3>5. QED
        BY <3>1, <3>3, <3>4 DEF RunOK, Existing, ActiveAt, ObservingPcs, Of
    <2>3. QED
      BY <2>1, <2>2
  <1>7. RowsNotAhead'
    <2>1. \A f \in Findings : findings[f].status = "absent" => ~ Unresolved(f)
      BY DEF Unresolved
    <2>2. \A f \in Findings :
            findings'[f].status # "absent" =>
              findings'[f].last <= clock /\ findings'[f].resolved <= clock
      BY <1>1, <2>1, ReconcileRows, SeenRow, ResolvedRow DEF RowsNotAhead, Never
    <2>3. QED
      BY <2>2 DEF RowsNotAhead, Reconcile
  <1>8. RowsAgree'
    <2> SUFFICES ASSUME NEW f \in Findings
                 PROVE  LET row == findings'[f]
                        IN /\ row.status = "suppressed" <=> row.sup # NoSup
                           /\ row.sup # NoSup => /\ suppressions[row.sup].state # "none"
                                                 /\ f \in suppressions[row.sup].covers
                           /\ row.status = "resolved" <=> row.resolved # Never
                           /\ row.status # "absent" => Owner[f] \in registered
      BY DEF RowsAgree, Reconcile
    <2>1. CASE f \in run.found /\ findings'[f] = Seen(f, run.known, run.observed)
      <3> DEFINE sup == Match(f, run.known, run.observed)
      <3>1. /\ findings'[f].sup = sup /\ findings'[f].status = StatusOf(sup)
            /\ findings'[f].resolved = Never
        BY <1>1, <2>1, SeenRow
      <3>2. sup # NoSup => sup \in run.known /\ f \in suppressions[sup].covers
        BY <1>1, MatchReturns DEF Matching
      <3>3. Owner[f] \in registered
        BY <1>1, <2>1 DEF Reconcile, RowsAgree, Of
      <3> HIDE DEF sup
      <3>4. QED
        BY <1>1, <3>1, <3>2, <3>3 DEF StatusOf, Existing
    <2>2. CASE Unresolved(f) /\ findings'[f] = Resolved(f, run.observed)
      BY <1>1, <2>2, ResolvedRow DEF RowsAgree, Unresolved, Never
    <2>3. CASE findings'[f] = findings[f]
      BY <2>3 DEF RowsAgree
    <2>4. QED
      BY <2>1, <2>2, <2>3, ReconcileRows
  <1>9. HistoryInOrder'
    <2> SUFFICES ASSUME NEW f \in Findings \ orphaned', findings'[f].status # "absent"
                 PROVE  /\ findings'[f].first # Never
                        /\ findings'[f].first <= findings'[f].last
                        /\ findings'[f].status = "resolved"
                             => findings'[f].last <= findings'[f].resolved
      BY DEF HistoryInOrder
    <2>1. f \notin orphaned /\ (f \in Of(run.account) => ~ run.gone)
      BY DEF Reconcile, Of
    <2>2. (f \in Of(run.account) /\ findings[f].status # "absent") =>
             findings[f].last <= run.observed
      BY <1>1, <2>1 DEF RunsOK, RunOK, ObservingPcs
    <2>3. findings[f].status # "absent" =>
            findings[f].first # Never /\ findings[f].first <= findings[f].last
      BY <2>1 DEF HistoryInOrder
    <2>4. /\ findings[f].first \in Nat /\ findings[f].last \in Nat
          /\ findings'[f].first \in Nat
      BY <1>3 DEF FindingRow
    <2>5. CASE f \in run.found /\ findings'[f] = Seen(f, run.known, run.observed)
      <3>1. /\ findings'[f].last = run.observed
            /\ findings'[f].status \in {"open", "suppressed"}
            /\ findings'[f].first =
                 IF findings[f].status = "absent" THEN run.observed ELSE findings[f].first
        BY <1>1, <2>5, SeenRow DEF StatusOf
      <3>2. QED
        BY <1>1, <2>2, <2>3, <2>4, <2>5, <3>1 DEF Never
    <2>6. CASE /\ f \in Of(run.account) /\ Unresolved(f)
               /\ findings'[f] = Resolved(f, run.observed)
      BY <1>1, <2>2, <2>3, <2>6, ResolvedRow DEF Unresolved
    <2>7. CASE findings'[f] = findings[f]
      BY <2>1, <2>7 DEF HistoryInOrder
    <2>8. QED
      BY <2>5, <2>6, <2>7, ReconcileRows
  <1>10. SuppressionsInForce'
    <2> SUFFICES ASSUME server = "idle", NEW f \in Findings \ raced'
                 PROVE  /\ findings'[f].status = "suppressed"
                             => suppressions[findings'[f].sup].state = "active"
                        /\ findings'[f].status = "open"
                             => \A s \in ActiveAt(clock) : f \notin suppressions[s].covers
      BY DEF SuppressionsInForce, Reconcile, ActiveAt
    <2>1. CASE f \in run.found /\ findings'[f] = Seen(f, run.known, run.observed)
      <3>1. ~ run.outdated
        BY <1>1, <2>1 DEF Reconcile
      <3>2. run.known = ActiveAt(run.observed)
        BY <1>1, <3>1 DEF RunsOK, RunOK
      <3> DEFINE sup == Match(f, run.known, run.observed)
      <3>3. /\ findings'[f].sup = sup /\ findings'[f].status = StatusOf(sup)
        BY <1>1, <2>1, SeenRow
      <3>4. sup # NoSup => suppressions[sup].state = "active"
        BY <1>1, <3>2, MatchReturns DEF Matching, ActiveAt
      <3>5. sup = NoSup => \A s \in ActiveAt(clock) : f \notin suppressions[s].covers
        <4>1. ActiveAt(clock) \subseteq ActiveAt(run.observed)
          BY <1>1, ActiveShrinks
        <4>2. sup = NoSup => Matching(f, run.known, run.observed) = {}
          BY <1>1, MatchReturns
        <4>3. QED
          BY <3>2, <4>1, <4>2 DEF Matching, ActiveAt
      <3> HIDE DEF sup
      <3>6. QED
        BY <3>3, <3>4, <3>5 DEF StatusOf
    <2>2. CASE findings'[f] = Resolved(f, run.observed)
      BY <1>1, <2>2, ResolvedRow
    <2>3. CASE /\ f \in Of(run.account) => ~ Unresolved(f)
               /\ findings'[f] = findings[f]
      <3>1. CASE f \in Of(run.account)
        BY <2>3, <3>1 DEF Unresolved
      <3>2. CASE f \notin Of(run.account)
        <4>1. f \notin raced
          BY <3>2 DEF Reconcile, Of
        <4>2. QED
          BY <2>3, <4>1 DEF SuppressionsInForce
      <3>3. QED
        BY <3>1, <3>2
    <2>4. QED
      BY <2>1, <2>2, <2>3, ReconcileRows
  <1>11. QED
    BY <1>4, <1>5, <1>6, <1>7, <1>8, <1>9, <1>10

-----------------------------------------------------------------------------
(* The server's steps.                                                      *)

LEMMA OutdateRuns ==
  ASSUME TypeOK
  PROVE  /\ Outdate(runs) \in [Workers -> Run]
         /\ \A w \in Workers :
              /\ Outdate(runs)[w].pc = runs[w].pc
              /\ Outdate(runs)[w].account = runs[w].account
              /\ Outdate(runs)[w].gone = runs[w].gone
              /\ Outdate(runs)[w].observed = runs[w].observed
              /\ Outdate(runs)[w].found = runs[w].found
              /\ Outdate(runs)[w].known = runs[w].known
              /\ Outdate(runs)[w].outdated <=> runs[w].pc = "read"
              /\ runs[w].pc = "idle" => Outdate(runs)[w] = NoRun
  <1> SUFFICES ASSUME NEW w \in Workers
               PROVE  /\ Outdate(runs)[w] \in Run
                      /\ Outdate(runs)[w].pc = runs[w].pc
                      /\ Outdate(runs)[w].account = runs[w].account
                      /\ Outdate(runs)[w].gone = runs[w].gone
                      /\ Outdate(runs)[w].observed = runs[w].observed
                      /\ Outdate(runs)[w].found = runs[w].found
                      /\ Outdate(runs)[w].known = runs[w].known
                      /\ Outdate(runs)[w].outdated <=> runs[w].pc = "read"
                      /\ runs[w].pc = "idle" => Outdate(runs)[w] = NoRun
    BY DEF Outdate
  <1> DEFINE read == runs[w].pc = "read"
  <1>1. runs[w] \in Run /\ Outdate(runs)[w] = [runs[w] EXCEPT !.outdated = read]
    BY RunOf DEF Outdate
  <1>2. runs[w].pc = "idle" => runs[w] = NoRun /\ ~ read
    BY DEF TypeOK
  <1>3. read \in BOOLEAN /\ (read <=> runs[w].pc = "read")
    OBVIOUS
  <1> HIDE DEF read
  <1>4. QED
    BY <1>1, <1>2, <1>3 DEF Run, NoRun

\* A suppression is created or revoked.
LEMMA SuppressionChanges ==
  ASSUME IInv, NEW s \in SupIds, NEW r \in Suppression,
         suppressions' = [suppressions EXCEPT ![s] = r], r.state # "none",
         suppressions[s].state # "none" => r.covers = suppressions[s].covers,
         runs' = Outdate(runs), server' = "apply",
         UNCHANGED <<clock, registered, findings, raced, orphaned>>
  PROVE  IInv'
  <1> USE DEF IInv
  <1>1. /\ suppressions \in [SupIds -> Suppression]
        /\ suppressions' \in [SupIds -> Suppression]
        /\ suppressions'[s] = r
        /\ \A q \in SupIds \ {s} : suppressions'[q] = suppressions[q]
    BY DEF TypeOK
  <1>2. TypeOK'
    BY <1>1, OutdateRuns DEF TypeOK, Of
  <1>3. RunsOK'
    <2>1. Existing \subseteq Existing'
      BY <1>1 DEF Existing
    <2> SUFFICES ASSUME NEW w \in Workers
                 PROVE  RunOK(runs[w])'
      BY DEF RunsOK
    <2>2. RunOK(runs[w]) /\ runs'[w] = Outdate(runs)[w]
      BY DEF RunsOK
    <2>3. QED
      BY <2>1, <2>2, OutdateRuns DEF RunOK, ObservingPcs, Of
  <1>4. OneLiveRun'
    BY OutdateRuns DEF OneLiveRun
  <1>5. RowsAgree'
    BY <1>1, LifecycleAssumption DEF RowsAgree, TypeOK, FindingRow
  <1>6. (RowsNotAhead /\ HistoryInOrder /\ SuppressionsInForce)'
    BY DEF RowsNotAhead, HistoryInOrder, SuppressionsInForce
  <1>7. QED
    BY <1>2, <1>3, <1>4, <1>5, <1>6

LEMMA CreateIInv ==
  ASSUME IInv, NEW s \in SupIds, NEW covers \in SUBSET Findings, NEW expires \in Nat,
         CreateSuppression(s, covers, expires)
  PROVE  IInv'
  <1> DEFINE r == [state |-> "active", covers |-> covers, expires |-> expires]
  <1>1. r \in Suppression /\ r.state # "none"
    BY DEF Suppression
  <1>2. QED
    BY <1>1, SuppressionChanges DEF CreateSuppression

LEMMA RevokeIInv ==
  ASSUME IInv, NEW s \in SupIds, RevokeSuppression(s)
  PROVE  IInv'
  <1> DEFINE r == [suppressions[s] EXCEPT !.state = "revoked"]
  <1>1. suppressions \in [SupIds -> Suppression]
    BY DEF IInv, TypeOK
  <1>2. /\ r \in Suppression /\ r.state = "revoked"
        /\ r.covers = suppressions[s].covers
    BY <1>1 DEF Suppression
  <1>3. suppressions' = [suppressions EXCEPT ![s] = r]
    BY <1>1 DEF RevokeSuppression
  <1> HIDE DEF r
  <1>4. QED
    BY <1>2, <1>3, SuppressionChanges DEF RevokeSuppression

LEMMA ApplyIInv ==
  ASSUME IInv, Apply
  PROVE  IInv'
  <1> USE DEF IInv
  <1>1. \A f \in Findings : /\ findings[f] \in FindingRow
                            /\ findings'[f] = IF Unresolved(f) THEN Applied(f) ELSE findings[f]
    BY DEF Apply, TypeOK
  <1>2. clock \in Nat /\ ActiveAt(clock) \in SUBSET SupIds
    BY DEF TypeOK, ActiveAt
  <1>3. \A f \in Findings :
          /\ findings'[f] \in FindingRow
          /\ findings'[f].first = findings[f].first
          /\ findings'[f].last = findings[f].last
          /\ findings'[f].resolved = findings[f].resolved
          /\ findings'[f].status = "absent" <=> findings[f].status = "absent"
          /\ findings'[f].status = "resolved" <=> findings[f].status = "resolved"
    BY <1>1, AppliedRow DEF Unresolved, StatusOf
  <1>4. TypeOK'
    <2>1. findings' \in [Findings -> FindingRow]
      BY <1>3 DEF Apply
    <2>2. QED
      BY <2>1 DEF TypeOK, Apply, Of
  <1>5. RunsOK'
    BY <1>3 DEF RunsOK, RunOK, Existing, ActiveAt, Of, Apply
  <1>6. (OneLiveRun /\ RowsNotAhead /\ HistoryInOrder)'
    BY <1>3 DEF OneLiveRun, RowsNotAhead, HistoryInOrder, Apply
  <1>7. \A f \in Findings :
          Unresolved(f) =>
            LET sup == Match(f, ActiveAt(clock), clock)
            IN /\ findings'[f].sup = sup
               /\ findings'[f].status = StatusOf(sup)
               /\ sup # NoSup => /\ suppressions[sup].state = "active"
                                 /\ f \in suppressions[sup].covers
               /\ sup = NoSup => \A s \in ActiveAt(clock) : f \notin suppressions[s].covers
    <2> SUFFICES ASSUME NEW f \in Findings, Unresolved(f)
                 PROVE  LET sup == Match(f, ActiveAt(clock), clock)
                        IN /\ findings'[f].sup = sup
                           /\ findings'[f].status = StatusOf(sup)
                           /\ sup # NoSup => /\ suppressions[sup].state = "active"
                                             /\ f \in suppressions[sup].covers
                           /\ sup = NoSup =>
                                \A s \in ActiveAt(clock) : f \notin suppressions[s].covers
      OBVIOUS
    <2> DEFINE sup == Match(f, ActiveAt(clock), clock)
    <2>1. findings'[f].sup = sup /\ findings'[f].status = StatusOf(sup)
      BY <1>1, AppliedRow
    <2>2. sup # NoSup => sup \in ActiveAt(clock) /\ f \in suppressions[sup].covers
      BY <1>2, MatchReturns DEF Matching
    <2>3. sup = NoSup => Matching(f, ActiveAt(clock), clock) = {}
      BY <1>2, MatchReturns
    <2>4. QED
      BY <2>1, <2>2, <2>3 DEF Matching, ActiveAt
  <1>8. RowsAgree'
    <2> SUFFICES ASSUME NEW f \in Findings
                 PROVE  LET row == findings'[f]
                        IN /\ row.status = "suppressed" <=> row.sup # NoSup
                           /\ row.sup # NoSup => /\ suppressions[row.sup].state # "none"
                                                 /\ f \in suppressions[row.sup].covers
                           /\ row.status = "resolved" <=> row.resolved # Never
                           /\ row.status # "absent" => Owner[f] \in registered
      BY DEF RowsAgree, Apply
    <2>1. CASE Unresolved(f)
      BY <2>1, <1>3, <1>7 DEF RowsAgree, StatusOf
    <2>2. CASE ~ Unresolved(f)
      BY <2>2, <1>1 DEF RowsAgree
    <2>3. QED
      BY <2>1, <2>2
  <1>9. SuppressionsInForce'
    <2> SUFFICES ASSUME NEW f \in Findings
                 PROVE  /\ findings'[f].status = "suppressed"
                             => suppressions[findings'[f].sup].state = "active"
                        /\ findings'[f].status = "open"
                             => \A s \in ActiveAt(clock) : f \notin suppressions[s].covers
      BY DEF SuppressionsInForce, Apply, ActiveAt
    <2>1. CASE Unresolved(f)
      BY <2>1, <1>7 DEF StatusOf
    <2>2. CASE ~ Unresolved(f)
      BY <2>2, <1>1 DEF Unresolved
    <2>3. QED
      BY <2>1, <2>2
  <1>10. QED
    BY <1>4, <1>5, <1>6, <1>8, <1>9

LEMMA ServerRestartsIInv ==
  ASSUME IInv, ServerRestarts
  PROVE  IInv'
  <1> USE DEF IInv
  <1>1. TypeOK'
    BY DEF TypeOK, ServerRestarts, Of
  <1>2. RunsOK'
    BY DEF RunsOK, RunOK, Existing, ActiveAt, Of, ServerRestarts
  <1>3. (OneLiveRun /\ RowsNotAhead /\ HistoryInOrder /\ RowsAgree)'
    BY DEF OneLiveRun, RowsNotAhead, HistoryInOrder, RowsAgree, ServerRestarts
  <1>4. SuppressionsInForce'
    BY DEF SuppressionsInForce, ServerRestarts
  <1>5. QED
    BY <1>1, <1>2, <1>3, <1>4

LEMMA DeleteAccountIInv ==
  ASSUME IInv, NEW a \in Accounts, DeleteAccount(a)
  PROVE  IInv'
  <1> USE DEF IInv
  <1>1. /\ NoRow \in FindingRow /\ NoRow.status = "absent" /\ NoRow.sup = NoSup
        /\ NoRow.resolved = Never
    BY DEF NoRow, FindingRow, Status, Never
  <1>2. \A f \in Findings :
          findings'[f] = IF Owner[f] = a THEN NoRow ELSE findings[f]
    BY DEF DeleteAccount
  <1>3. \A w \in Workers :
          /\ runs'[w] = IF runs[w].account = a THEN [runs[w] EXCEPT !.gone = TRUE] ELSE runs[w]
          /\ runs[w] \in Run
    BY DEF DeleteAccount, TypeOK
  <1>4. \A w \in Workers :
          /\ runs'[w] \in Run
          /\ runs'[w].pc = runs[w].pc /\ runs'[w].account = runs[w].account
          /\ runs'[w].observed = runs[w].observed /\ runs'[w].found = runs[w].found
          /\ runs'[w].known = runs[w].known /\ runs'[w].outdated = runs[w].outdated
          /\ runs'[w].gone <=> (runs[w].gone \/ runs[w].account = a)
    BY <1>3, ZenonT(40) DEF Run
  <1>5. TypeOK'
    <2>1. findings' \in [Findings -> FindingRow]
      BY <1>1 DEF TypeOK, DeleteAccount
    <2>2. runs' \in [Workers -> Run]
      BY <1>4 DEF DeleteAccount
    <2>3. \A w \in Workers : runs'[w].pc = "idle" => runs'[w] = NoRun
      <3> SUFFICES ASSUME NEW w \in Workers, runs'[w].pc = "idle"
                   PROVE  runs'[w] = NoRun
        OBVIOUS
      <3>1. runs[w] = NoRun
        BY <1>4 DEF TypeOK
      <3>2. runs[w].account # a
        BY <3>1, NoRunIsOK, LifecycleAssumption
      <3>3. QED
        BY <1>3, <3>1, <3>2
    <2>4. QED
      BY <1>4, <2>1, <2>2, <2>3 DEF TypeOK, DeleteAccount, Of
  <1>6. RunsOK'
    <2> SUFFICES ASSUME NEW w \in Workers
                 PROVE  RunOK(runs[w])'
      BY DEF RunsOK
    <2>1. RunOK(runs[w])
      BY DEF RunsOK
    <2>2. UNCHANGED <<clock, suppressions>>
      BY DEF DeleteAccount
    <2>3. (runs'[w].pc \in ObservingPcs /\ ~ runs'[w].gone) =>
             \A f \in Of(runs'[w].account) \ orphaned' :
               findings'[f].status # "absent" =>
                 /\ findings'[f].last <= runs'[w].observed
                 /\ findings'[f].resolved <= runs'[w].observed
      BY <1>1, <1>2, <1>4, <2>1 DEF RunOK, DeleteAccount, Of
    <2>4. QED
      BY <1>4, <2>1, <2>2, <2>3 DEF RunOK, Existing, ActiveAt, ObservingPcs, Of
  <1>7. OneLiveRun'
    BY <1>4 DEF OneLiveRun
  <1>8. (RowsNotAhead /\ RowsAgree)'
    BY <1>1, <1>2 DEF RowsNotAhead, RowsAgree, DeleteAccount
  <1>9. HistoryInOrder'
    BY <1>1, <1>2 DEF HistoryInOrder, DeleteAccount, Of
  <1>10. SuppressionsInForce'
    BY <1>1, <1>2 DEF SuppressionsInForce, DeleteAccount, ActiveAt
  <1>11. QED
    BY <1>5, <1>6, <1>7, <1>8, <1>9, <1>10

LEMMA RegisterAccountIInv ==
  ASSUME IInv, NEW a \in Accounts, RegisterAccount(a)
  PROVE  IInv'
  <1> USE DEF IInv
  <1>1. TypeOK'
    BY DEF TypeOK, RegisterAccount, Of
  <1>2. RunsOK'
    BY DEF RunsOK, RunOK, Existing, ActiveAt, Of, RegisterAccount
  <1>3. (OneLiveRun /\ RowsNotAhead /\ HistoryInOrder /\ RowsAgree)'
    BY DEF OneLiveRun, RowsNotAhead, HistoryInOrder, RowsAgree, RegisterAccount
  <1>4. SuppressionsInForce'
    BY DEF SuppressionsInForce, RegisterAccount, ActiveAt
  <1>5. QED
    BY <1>1, <1>2, <1>3, <1>4

LEMMA TickIInv ==
  ASSUME IInv, Tick
  PROVE  IInv'
  <1> USE DEF IInv
  <1>1. clock \in Nat /\ clock' = clock + 1
    BY DEF TypeOK, Tick
  <1>2. TypeOK'
    BY <1>1 DEF TypeOK, Tick, Of
  <1>3. RunsOK'
    <2>1. \A w \in Workers : runs[w].observed \in Nat
      BY RunOf
    <2>2. QED
      BY <1>1, <2>1 DEF RunsOK, RunOK, Existing, ActiveAt, Of, Tick
  <1>4. (OneLiveRun /\ HistoryInOrder /\ RowsAgree)'
    BY DEF OneLiveRun, HistoryInOrder, RowsAgree, Tick
  <1>5. RowsNotAhead'
    <2>1. \A f \in Findings : findings[f].last \in Nat /\ findings[f].resolved \in Nat
      BY DEF TypeOK, FindingRow
    <2>2. QED
      BY <1>1, <2>1 DEF RowsNotAhead, Tick
  <1>6. SuppressionsInForce'
    <2>1. ActiveAt(clock') \subseteq ActiveAt(clock)
      BY <1>1, ActiveShrinks
    <2>2. ActiveAt(clock)' = ActiveAt(clock')
      BY DEF ActiveAt, Tick
    <2>3. QED
      BY <2>1, <2>2 DEF SuppressionsInForce, Tick
  <1>7. QED
    BY <1>2, <1>3, <1>4, <1>5, <1>6

LEMMA StutterIInv ==
  ASSUME IInv, UNCHANGED vars
  PROVE  IInv'
  <1> USE DEF IInv, vars
  <1>1. TypeOK'
    BY DEF TypeOK, Of
  <1>2. RunsOK'
    BY DEF RunsOK, RunOK, Existing, ActiveAt, Of
  <1>3. (OneLiveRun /\ RowsNotAhead /\ HistoryInOrder /\ RowsAgree)'
    BY DEF OneLiveRun, RowsNotAhead, HistoryInOrder, RowsAgree
  <1>4. SuppressionsInForce'
    BY DEF SuppressionsInForce, ActiveAt
  <1>5. QED
    BY <1>1, <1>2, <1>3, <1>4

-----------------------------------------------------------------------------
(* The theorems.                                                            *)

LEMMA NextIInv ==
  ASSUME IInv, [Next]_vars
  PROVE  IInv'
  <1>1. CASE Tick
    BY <1>1, TickIInv
  <1>2. CASE Server
    <2>1. \A s \in SupIds, covers \in SUBSET Findings \ {{}}, expires \in {Never} \cup 2..MaxClock :
            covers \in SUBSET Findings /\ expires \in Nat
      BY DEF Never
    <2>2. QED
      BY <1>2, <2>1, CreateIInv, RevokeIInv, ApplyIInv, ServerRestartsIInv,
         DeleteAccountIInv, RegisterAccountIInv DEF Server
  <1>3. ASSUME NEW w \in Workers, RunStep(w)
        PROVE  IInv'
    <2>1. (Fail(w) \/ PersistFails(w) \/ ReconcileFails(w)) => IInv'
      BY EndIInv DEF Fail, PersistFails, ReconcileFails
    <2>2. QED
      BY <1>3, <2>1, ClaimIInv, MergeIInv, PersistIInv, ReadSuppressionsIInv,
         ReconcileIInv DEF RunStep
  <1>4. ASSUME NEW w \in Workers, Crash(w)
        PROVE  IInv'
    BY <1>4, CrashIInv
  <1>5. CASE UNCHANGED vars
    BY <1>5, StutterIInv
  <1>6. QED
    BY <1>1, <1>2, <1>3, <1>4, <1>5 DEF Next

\* The inductive invariant holds in every reachable state.
THEOREM Invariance == Spec => []IInv
  BY InitIInv, NextIInv, PTL DEF Spec

\* Tables, processes and history keep their types: in particular a run finds
\* only resources of the account it scans.
THEOREM TypeCorrect == Spec => []TypeOK
  <1>1. IInv => TypeOK
    BY DEF IInv
  <1>2. QED
    BY <1>1, Invariance, PTL

\* The columns of a finding agree after every reconcile, apply and delete.
THEOREM RowsStayConsistent == Spec => []RowsAgree
  <1>1. IInv => RowsAgree
    BY DEF IInv
  <1>2. QED
    BY <1>1, Invariance, PTL

\* The history of a finding is in order unless a deleted scan wrote it.
THEOREM HistoryStaysInOrder == Spec => []HistoryInOrder
  <1>1. IInv => HistoryInOrder
    BY DEF IInv
  <1>2. QED
    BY <1>1, Invariance, PTL

\* Suppressions are in force between requests except on the findings that a
\* stale list or a stopped server reached last.
THEOREM SuppressionsStayInForce == Spec => []SuppressionsInForce
  <1>1. IInv => SuppressionsInForce
    BY DEF IInv
  <1>2. QED
    BY <1>1, Invariance, PTL

\* A step of the lifecycle never sets the sighting of a finding back.
LEMMA SeenGrowsStep ==
  ASSUME IInv, [Next]_vars, NEW f \in Findings \ (orphaned \cup orphaned'),
         findings[f].status # "absent", findings'[f].status # "absent"
  PROVE  findings'[f].last >= findings[f].last /\ findings'[f].first = findings[f].first
  <1> USE DEF IInv
  <1>1. findings[f] \in FindingRow /\ findings[f].last \in Nat
    BY DEF TypeOK, FindingRow
  <1>2. CASE findings'[f] = findings[f]
    BY <1>1, <1>2
  <1>3. ASSUME NEW w \in Workers, Reconcile(w)
        PROVE  findings'[f].last >= findings[f].last /\ findings'[f].first = findings[f].first
    <2> DEFINE run == runs[w]
    <2>1. /\ run.observed \in Nat /\ run.known \in SUBSET SupIds /\ run.pc = "read"
          /\ run.found \subseteq Of(run.account)
      BY <1>3, RunOf DEF Reconcile
    <2>2. f \in Of(run.account) => ~ run.gone
      BY <1>3 DEF Reconcile, Of
    <2>3. f \in Of(run.account) => findings[f].last <= run.observed
      BY <2>1, <2>2 DEF RunsOK, RunOK, ObservingPcs
    <2>4. CASE f \in run.found /\ findings'[f] = Seen(f, run.known, run.observed)
      BY <1>1, <2>1, <2>3, <2>4, SeenRow
    <2>5. CASE findings'[f] = Resolved(f, run.observed)
      BY <1>1, <2>1, <2>5, ResolvedRow
    <2>6. QED
      BY <1>2, <1>3, <2>4, <2>5, ReconcileRows
  <1>4. CASE Apply
    BY <1>1, <1>4, AppliedRow DEF Apply
  <1>5. ASSUME NEW a \in Accounts, DeleteAccount(a)
        PROVE  findings'[f].last >= findings[f].last /\ findings'[f].first = findings[f].first
    BY <1>1, <1>5 DEF DeleteAccount, NoRow
  <1>6. QED
    BY <1>2, <1>3, <1>4, <1>5
       DEF Next, vars, Tick, Server, CreateSuppression, RevokeSuppression, ServerRestarts,
           RegisterAccount, RunStep, Claim, Merge, Fail, Persist, PersistFails, ReadSuppressions,
           ReconcileFails, Crash

\* first_seen_at never changes and last_seen_at never goes back, unless a
\* deleted scan wrote the row.
THEOREM SeenNeverGoesBack == Spec => SeenGrows
  <1>1. IInv /\ [Next]_vars =>
          [\A f \in Findings \ (orphaned \cup orphaned') :
             (findings[f].status # "absent" /\ findings'[f].status # "absent") =>
               /\ findings'[f].last >= findings[f].last
               /\ findings'[f].first = findings[f].first]_vars
    BY SeenGrowsStep
  <1>2. QED
    BY <1>1, Invariance, PTL DEF Spec, SeenGrows
=============================================================================
