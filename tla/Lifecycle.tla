------------------------------ MODULE Lifecycle ------------------------------
(***************************************************************************)
(* The findings and suppressions tables (db/sqlite-lifecycle.ts): workers  *)
(* reconcile the findings of a scan, the API server creates and revokes    *)
(* suppressions and applies them at once, accounts are deleted and         *)
(* registered again, and any of them may stop between two statements.      *)
(*                                                                         *)
(* A rule, a resource pattern and an account scope matter only by what     *)
(* they match: a suppression is the set of findings it covers.             *)
(***************************************************************************)
EXTENDS Naturals, FiniteSets

CONSTANTS
  Workers,    \* worker processes
  Accounts,   \* AWS accounts
  Findings,   \* finding ids, deterministic in rule and resource
  Owner,      \* finding id -> the account of its resource
  Home,       \* finding id -> the pass that looks for it
  Regions,    \* the regional passes; Home may also be "global"
  SupIds,     \* bound: suppressions that can be created, in order of creation
  MaxClock    \* bound: the last instant

Never == 0    \* NULL timestamp, and an expires_at that is not set
NoSup == 0
NoAccount == "none"

ASSUME LifecycleAssumption ==
  /\ NoAccount \notin Accounts
  /\ Owner \in [Findings -> Accounts]
  /\ Home \in [Findings -> Regions \cup {"global"}]
  /\ SupIds \subseteq Nat \ {NoSup} /\ IsFiniteSet(SupIds)
  /\ MaxClock \in Nat

VARIABLES
  clock,
  registered,    \* the accounts that have a row
  findings,      \* the findings table
  suppressions,  \* the suppressions table
  runs,          \* each worker's runScan: its locals, and `gone`, its scan row
  server,        \* "apply" between a write to suppressions and its application
  raced,         \* history: findings written with a list that had changed, or
                 \* left behind by a server that stopped before it applied
  orphaned       \* history: findings written by a run whose scan was deleted

vars == <<clock, registered, findings, suppressions, runs, server, raced, orphaned>>

-----------------------------------------------------------------------------
NoRow == [status |-> "absent", sup |-> NoSup, first |-> Never, last |-> Never,
          resolved |-> Never]

Unwritten == [state |-> "none", covers |-> {}, expires |-> Never]

NoRun == [pc |-> "idle", account |-> NoAccount, gone |-> FALSE, observed |-> Never,
          found |-> {}, failed |-> {}, known |-> {}, outdated |-> FALSE]

Of(a) == {f \in Findings : Owner[f] = a}
Unresolved(f) == findings[f].status \in {"open", "suppressed"}

\* suppressions.list and activeFor at time t.
ActiveAt(t) ==
  {s \in SupIds : /\ suppressions[s].state = "active"
                  /\ suppressions[s].expires = Never \/ suppressions[s].expires > t}

\* matchSuppression: the newest of the given suppressions that covers f and has
\* not expired at time t.
Matching(f, list, t) ==
  {s \in list : /\ f \in suppressions[s].covers
                /\ suppressions[s].expires = Never \/ suppressions[s].expires > t}
Match(f, list, t) ==
  IF Matching(f, list, t) = {}
    THEN NoSup
    ELSE CHOOSE s \in Matching(f, list, t) : \A r \in Matching(f, list, t) : r <= s

StatusOf(sup) == IF sup = NoSup THEN "open" ELSE "suppressed"

\* Mutant of Seen: the refresh of a row keeps its suppression.
SeenKeepsSuppression(f, list, t) ==
  LET sup == IF findings[f].sup = NoSup THEN Match(f, list, t) ELSE findings[f].sup
  IN [status |-> StatusOf(sup), sup |-> sup,
      first |-> IF findings[f].status = "absent" THEN t ELSE findings[f].first,
      last |-> t, resolved |-> Never]

\* INSERT or refresh of a finding that was seen at t.
Seen(f, list, t) ==
  LET sup == Match(f, list, t)
  IN [status |-> StatusOf(sup), sup |-> sup,
      first |-> IF findings[f].status = "absent" THEN t ELSE findings[f].first,
      last |-> t, resolved |-> Never]

\* Mutant of Resolved: the suppression of the row is not cleared.
ResolvedKeepsSuppression(f, t) ==
  [findings[f] EXCEPT !.status = "resolved", !.resolved = t]

\* resolve: the finding was not seen at t.
Resolved(f, t) ==
  [findings[f] EXCEPT !.status = "resolved", !.sup = NoSup, !.resolved = t]

Init ==
  /\ clock = 1
  /\ registered = Accounts
  /\ findings = [f \in Findings |-> NoRow]
  /\ suppressions = [s \in SupIds |-> Unwritten]
  /\ runs = [w \in Workers |-> NoRun]
  /\ server = "idle"
  /\ raced = {}
  /\ orphaned = {}

Tick ==
  /\ clock < MaxClock
  /\ clock' = clock + 1
  /\ UNCHANGED <<registered, findings, suppressions, runs, server, raced, orphaned>>

-----------------------------------------------------------------------------
(* A worker's run, from the claim to the end of the reconcile transaction. *)

Goto(w, pc) == runs' = [runs EXCEPT ![w].pc = pc]

\* Mutant of End: the run's account stays taken.
EndReturns(w) == Goto(w, "idle")

End(w) == runs' = [runs EXCEPT ![w] = NoRun]

\* Mutant of Claimable: without the NOT EXISTS of nextQueued.
AnyRegistered(a) == a \in registered

\* nextQueued's NOT EXISTS: the account has no running scan, be it one of a
\* worker that is down.
Claimable(a) ==
  /\ a \in registered
  /\ \A w \in Workers : runs[w].account = a => runs[w].gone

Claim(w, a) ==
  /\ runs[w].pc = "idle"
  /\ Claimable(a)
  /\ runs' = [runs EXCEPT ![w] = [NoRun EXCEPT !.pc = "scanning", !.account = a]]
  /\ UNCHANGED <<clock, registered, findings, suppressions, server, raced, orphaned>>

\* The passes, the merge and the rules: each regional pass sees its findings or
\* fails, and generatedAt is taken.
Merge(w) ==
  /\ runs[w].pc = "scanning"
  /\ \E failed \in SUBSET Regions :
       \E found \in SUBSET {f \in Of(runs[w].account) : Home[f] \notin failed} :
         runs' = [runs EXCEPT ![w].pc = "merged", ![w].observed = clock,
                              ![w].found = found, ![w].failed = failed]
  /\ UNCHANGED <<clock, registered, findings, suppressions, server, raced, orphaned>>

\* The role, the regions, the global pass or the graph's integrity fails.
Fail(w) ==
  /\ runs[w].pc = "scanning"
  /\ End(w)
  /\ UNCHANGED <<clock, registered, findings, suppressions, server, raced, orphaned>>

\* snapshots.insert, whose foreign keys need the scan, and ruleResults.
Persist(w) ==
  /\ runs[w].pc = "merged"
  /\ ~ runs[w].gone
  /\ Goto(w, "persisted")
  /\ UNCHANGED <<clock, registered, findings, suppressions, server, raced, orphaned>>

\* ruleResults.replaceForSnapshot throws on two results of one rule and resource,
\* with the snapshot stored and the findings untouched; or, once the scan is
\* gone, the foreign key of the snapshot or of its results does.
PersistFails(w) ==
  /\ runs[w].pc = "merged" \/ (runs[w].pc = "persisted" /\ runs[w].gone)
  /\ End(w)
  /\ UNCHANGED <<clock, registered, findings, suppressions, server, raced, orphaned>>

\* suppressions.activeFor(account, observedAt).
ReadSuppressions(w) ==
  /\ runs[w].pc = "persisted"
  /\ runs' = [runs EXCEPT ![w].pc = "read", ![w].known = ActiveAt(runs[w].observed)]
  /\ UNCHANGED <<clock, registered, findings, suppressions, server, raced, orphaned>>

\* findings.reconcile, one transaction; a finding that is new needs the row of
\* its account, and its foreign-key error rolls everything back.
Reconcile(w) ==
  LET run == runs[w]
  IN /\ run.pc = "read"
     /\ \/ run.account \in registered
        \/ \A f \in run.found : findings[f].status # "absent"
     /\ findings' = [f \in Findings |->
          CASE f \in run.found -> Seen(f, run.known, run.observed)
            [] f \in Of(run.account) \ run.found /\ Unresolved(f) ->
                 Resolved(f, run.observed)
            [] OTHER -> findings[f]]
     /\ raced' = IF run.outdated THEN raced \cup Of(run.account)
                                 ELSE raced \ Of(run.account)
     /\ orphaned' = IF run.gone THEN orphaned \cup Of(run.account) ELSE orphaned
     /\ End(w)
     /\ UNCHANGED <<clock, registered, suppressions, server>>

ReconcileFails(w) ==
  /\ runs[w].pc = "read"
  /\ runs[w].account \notin registered
  /\ \E f \in runs[w].found : findings[f].status = "absent"
  /\ End(w)
  /\ UNCHANGED <<clock, registered, findings, suppressions, server, raced, orphaned>>

\* The process ends; its scan stays `running`.
Crash(w) ==
  /\ runs[w].pc \notin {"idle", "down"}
  /\ runs' = [runs EXCEPT ![w] = [NoRun EXCEPT !.pc = "down", !.account = runs[w].account,
                                               !.gone = runs[w].gone]]
  /\ UNCHANGED <<clock, registered, findings, suppressions, server, raced, orphaned>>

-----------------------------------------------------------------------------
(* The API server: a handler writes suppressions, then applies them.       *)

\* A list of suppressions read before this write is out of date.
Outdate(rs) == [w \in Workers |-> [rs[w] EXCEPT !.outdated = rs[w].pc = "read"]]

\* suppressions.create
CreateSuppression(s, covers, expires) ==
  /\ server = "idle"
  /\ suppressions[s].state = "none"
  /\ \A r \in SupIds : r < s => suppressions[r].state # "none"
  /\ suppressions' = [suppressions EXCEPT ![s] =
       [state |-> "active", covers |-> covers, expires |-> expires]]
  /\ runs' = Outdate(runs)
  /\ server' = "apply"
  /\ UNCHANGED <<clock, registered, findings, raced, orphaned>>

\* suppressions.revoke: an expired one may be revoked, a revoked one is a 404.
RevokeSuppression(s) ==
  /\ server = "idle"
  /\ suppressions[s].state = "active"
  /\ suppressions' = [suppressions EXCEPT ![s].state = "revoked"]
  /\ runs' = Outdate(runs)
  /\ server' = "apply"
  /\ UNCHANGED <<clock, registered, findings, raced, orphaned>>

\* applySuppressions(list(), now), over every unresolved finding.
Applied(f) ==
  LET sup == Match(f, ActiveAt(clock), clock)
  IN [findings[f] EXCEPT !.status = StatusOf(sup), !.sup = sup]

\* Mutant of Apply: only open findings are gone over.
ApplyToOpen ==
  /\ server = "apply"
  /\ findings' = [f \in Findings |->
       IF findings[f].status = "open" THEN Applied(f) ELSE findings[f]]
  /\ raced' = {}
  /\ server' = "idle"
  /\ UNCHANGED <<clock, registered, suppressions, runs, orphaned>>

Apply ==
  /\ server = "apply"
  /\ findings' = [f \in Findings |-> IF Unresolved(f) THEN Applied(f) ELSE findings[f]]
  /\ raced' = {}
  /\ server' = "idle"
  /\ UNCHANGED <<clock, registered, suppressions, runs, orphaned>>

\* The server ends between the two statements and comes back.
ServerRestarts ==
  /\ server = "apply"
  /\ server' = "idle"
  /\ raced' = Findings
  /\ UNCHANGED <<clock, registered, findings, suppressions, runs, orphaned>>

\* DELETE /accounts/:id takes the scans, snapshots and findings along.
DeleteAccount(a) ==
  /\ server = "idle"
  /\ a \in registered
  /\ registered' = registered \ {a}
  /\ findings' = [f \in Findings |-> IF Owner[f] = a THEN NoRow ELSE findings[f]]
  /\ runs' = [w \in Workers |->
       IF runs[w].account = a THEN [runs[w] EXCEPT !.gone = TRUE] ELSE runs[w]]
  /\ orphaned' = orphaned \ Of(a)
  /\ UNCHANGED <<clock, suppressions, server, raced>>

\* POST /accounts
RegisterAccount(a) ==
  /\ server = "idle"
  /\ a \notin registered
  /\ registered' = registered \cup {a}
  /\ UNCHANGED <<clock, findings, suppressions, runs, server, raced, orphaned>>

RunStep(w) ==
  \/ \E a \in Accounts : Claim(w, a)
  \/ Merge(w) \/ Fail(w) \/ Persist(w) \/ PersistFails(w)
  \/ ReadSuppressions(w) \/ Reconcile(w) \/ ReconcileFails(w)

Server ==
  \/ \E s \in SupIds :
       \/ \E covers \in SUBSET Findings \ {{}}, expires \in {Never} \cup 2..MaxClock :
            CreateSuppression(s, covers, expires)
       \/ RevokeSuppression(s)
  \/ Apply \/ ServerRestarts
  \/ \E a \in Accounts : DeleteAccount(a) \/ RegisterAccount(a)

Next ==
  \/ Tick
  \/ Server
  \/ \E w \in Workers : RunStep(w) \/ Crash(w)

Spec == Init /\ [][Next]_vars

\* A handler ends, a run goes on, and what Scheduler shows of the queue: an
\* account is claimed again and again.  A run may fail every time.
Fairness ==
  /\ WF_vars(Apply \/ ServerRestarts)
  /\ \A w \in Workers : WF_vars(RunStep(w))
  /\ \A a \in Accounts : SF_vars(\E w \in Workers : Claim(w, a))

FairSpec == Spec /\ Fairness

-----------------------------------------------------------------------------
(* Properties.                                                             *)

Status == {"absent", "open", "suppressed", "resolved"}
RunPcs == {"idle", "scanning", "merged", "persisted", "read", "down"}

FindingRow == [status : Status, sup : SupIds \cup {NoSup},
               first : Nat, last : Nat, resolved : Nat]
Suppression == [state : {"none", "active", "revoked"},
                covers : SUBSET Findings, expires : Nat]
Run == [pc : RunPcs, account : Accounts \cup {NoAccount}, gone : BOOLEAN,
        observed : Nat, found : SUBSET Findings, failed : SUBSET Regions,
        known : SUBSET SupIds, outdated : BOOLEAN]

\* Also: a run finds only resources of the account it scans, and a worker that
\* is idle has nothing left of its last run.
TypeOK ==
  /\ clock \in Nat
  /\ registered \subseteq Accounts
  /\ findings \in [Findings -> FindingRow]
  /\ suppressions \in [SupIds -> Suppression]
  /\ runs \in [Workers -> Run]
  /\ \A w \in Workers : /\ runs[w].found \subseteq Of(runs[w].account)
                        /\ runs[w].pc = "idle" => runs[w] = NoRun
  /\ server \in {"idle", "apply"}
  /\ raced \subseteq Findings
  /\ orphaned \subseteq Findings

\* The columns of a row agree whoever wrote it last, reconcile or apply: a
\* suppressed finding and no other names a suppression, one that covers it; a
\* resolved one and no other has a time of resolution; and no row outlives the
\* account it belongs to, even when a run reconciles after the delete.
RowsAgree ==
  \A f \in Findings :
    LET row == findings[f]
    IN /\ row.status = "suppressed" <=> row.sup # NoSup
       /\ row.sup # NoSup => /\ suppressions[row.sup].state # "none"
                             /\ f \in suppressions[row.sup].covers
       /\ row.status = "resolved" <=> row.resolved # Never
       /\ row.status # "absent" => Owner[f] \in registered

\* The times of a row are in order although observedAt is read long before the
\* row is written: runs of one account never overtake each other, except a run
\* whose scan was deleted with the account in the meantime.
HistoryInOrder ==
  \A f \in Findings \ orphaned :
    findings[f].status # "absent" =>
      /\ findings[f].first # Never
      /\ findings[f].first <= findings[f].last
      /\ findings[f].status = "resolved" => findings[f].last <= findings[f].resolved

\* No scan sets a finding's last_seen_at back, nor its first_seen_at at all,
\* with the same exception.
SeenGrows ==
  [][\A f \in Findings \ (orphaned \cup orphaned') :
       (findings[f].status # "absent" /\ findings'[f].status # "absent") =>
         /\ findings'[f].last >= findings[f].last
         /\ findings'[f].first = findings[f].first]_vars

\* Between two requests the suppressions are in force: no finding is hidden by
\* a revoked one and none is open that an active one covers, unless a run
\* reconciled with a list that had changed since it was read.
SuppressionsInForce ==
  server = "idle" =>
    \A f \in Findings \ raced :
      /\ findings[f].status = "suppressed"
           => suppressions[findings[f].sup].state = "active"
      /\ findings[f].status = "open"
           => \A s \in ActiveAt(clock) : f \notin suppressions[s].covers

WorkersStayUp == [](\A w \in Workers : runs[w].pc # "down")

\* What no code provides: an account whose scans are claimed again and again has
\* some of them stored, or is deleted.  A finding that Security Hub keeps sending
\* twice fails every scan of its account in PersistFails.
ScansGetThrough ==
  \A a \in Accounts :
    []<><<\E w \in Workers : Claim(w, a)>>_vars =>
      \/ []<><<\E w \in Workers : runs[w].account = a /\ Persist(w)>>_vars
      \/ []<>(a \notin registered)

\* Such a race heals, and an expired suppression, which nothing watches, is
\* noticed: where workers live and scans get through, one that was revoked or has
\* expired ends up hiding nothing, the next reconcile of the account at the
\* latest.  Where every scan fails its findings stay hidden until somebody
\* writes another suppression.
LapsedReopens ==
  (WorkersStayUp /\ ScansGetThrough) =>
    \A f \in Findings, s \in SupIds :
      (findings[f].sup = s /\ s \notin ActiveAt(clock)) ~> findings[f].sup # s
=============================================================================
