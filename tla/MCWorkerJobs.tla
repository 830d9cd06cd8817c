------------------------------ MODULE MCWorkerJobs ------------------------------
EXTENDS WorkerJobs, TLC

MCSymmetry == Permutations(Pids)
=============================================================================
