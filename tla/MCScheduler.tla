----------------------------- MODULE MCScheduler -----------------------------
EXTENDS Scheduler, TLC
WorkerSymmetry == Permutations(Workers)
=============================================================================
