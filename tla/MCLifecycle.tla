---------------------------- MODULE MCLifecycle ----------------------------
(* An instance of Lifecycle for TLC: one account, which may be deleted and  *)
(* registered again, with one finding of a regional pass and one of the     *)
(* global pass.                                                             *)
EXTENDS Lifecycle, TLC

CONSTANTS f1, f2, acct, east

WorkerSymmetry == Permutations(Workers)
OfAcct == [f \in Findings |-> acct]
EastAndGlobal == [f \in Findings |-> IF f = f1 THEN east ELSE "global"]
=============================================================================
