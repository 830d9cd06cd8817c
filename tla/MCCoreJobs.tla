------------------------------ MODULE MCCoreJobs ------------------------------
EXTENDS CoreJobs

\* Liveness is lost when a question of the owner meets a failed call or a second
\* publication (see README), so a behaviour has one or the other.
Undisturbed == used.directs = 0 \/ used.failures = 0

MCFairSpec == Init /\ [][Next /\ Undisturbed']_vars /\ Fairness
=============================================================================
