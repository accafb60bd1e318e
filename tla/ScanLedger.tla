----------------------------- MODULE ScanLedger -----------------------------
(***************************************************************************)
(* What the scan queue promises its clients, with the workers, the lease   *)
(* and the handlers hidden.  A scan is submitted once for one account,     *)
(* starts at most once, closes only after it started, and never while      *)
(* another scan of its account is in flight.  Deleting an account purges   *)
(* every scan it ever had.  Scheduler implements this specification.       *)
(***************************************************************************)
CONSTANTS
  ScanIds,     \* identities a scan can get; none is ever used twice
  Accounts,    \* registered AWS accounts
  NoAccount    \* the account of a scan that does not exist

VARIABLE ledger   \* scan id -> its account and its phase

Entry(a, p) == [account |-> a, phase |-> p]

InFlight(a) == {s \in ScanIds : ledger[s] = Entry(a, "running")}

Init == ledger = [s \in ScanIds |-> Entry(NoAccount, "none")]

Submit(s, a) ==
  /\ ledger[s] = Entry(NoAccount, "none")
  /\ ledger' = [ledger EXCEPT ![s] = Entry(a, "queued")]

Start(s, a) ==
  /\ ledger[s] = Entry(a, "queued")
  /\ InFlight(a) = {}
  /\ ledger' = [ledger EXCEPT ![s] = Entry(a, "running")]

Close(s, a) ==
  /\ ledger[s] = Entry(a, "running")
  /\ ledger' = [ledger EXCEPT ![s] = Entry(a, "closed")]

Purge(a) ==
  ledger' = [s \in ScanIds |-> IF ledger[s].account = a
                                 THEN Entry(NoAccount, "purged")
                                 ELSE ledger[s]]

Next ==
  \E a \in Accounts :
    \/ Purge(a)
    \/ \E s \in ScanIds : Submit(s, a) \/ Start(s, a) \/ Close(s, a)

Spec == Init /\ [][Next]_ledger
=============================================================================
