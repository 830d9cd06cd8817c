------------------------------- MODULE MCDelivery -------------------------------
EXTENDS Delivery, TLC

CONSTANT MCDisturbances  \* bound: notices, crashes, failures and losses together

MCSymmetry == Permutations(Tasks)

\* Constraint: few things besides the messages happen.
MCFewDisturbances ==
    Cardinality({i \in DOMAIN out : out[i].kind \in {"ack", "progress"}})
        + used.crashes + used.failures + used.losses <= MCDisturbances

\* A job has the process for itself.
MCJobsAlone ==
    \E kinds \in {JobMessages, Messages \ JobMessages} :
        \A t \in Tasks : task[t].req \in kinds \cup {None}

\* FairSpec under the bound MCJobsAlone.
MCFairSpec == Init /\ [][Next /\ MCJobsAlone']_vars /\ Fairness
=============================================================================
