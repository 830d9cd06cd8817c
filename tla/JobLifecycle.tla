------------------------------ MODULE JobLifecycle ------------------------------
(***************************************************************************)
(* What the worker promises about one job to the core, whatever processes, *)
(* crashes and restarts implement it: the transitions a poller may see,    *)
(* that nothing reaches GitHub before a publication has been claimed, that *)
(* a claim needs an order to publish, and that SUCCEEDED means a pull      *)
(* request exists.                                                         *)
(***************************************************************************)
CONSTANTS
    Jobs,
    AutoJobs    \* jobs whose request itself orders the publication

VARIABLES
    state,     \* job -> the state of its manifest
    exposed,   \* job -> what GitHub shows of it
    ordered    \* job -> the core has ordered its publication

lifecycle == <<state, exposed, ordered>>

Authorised(j) == j \in AutoJobs \/ ordered[j]

Init ==
    /\ state = [j \in Jobs |-> "absent"]
    /\ exposed = [j \in Jobs |-> "none"]
    /\ ordered = [j \in Jobs |-> FALSE]

Move(j, from, to) ==
    /\ state[j] \in from
    /\ state' = [state EXCEPT ![j] = to]
    /\ UNCHANGED <<exposed, ordered>>

Accept(j)  == Move(j, {"absent"}, "queued")
Start(j)   == Move(j, {"queued"}, "running")
Retry(j)   == Move(j, {"running"}, "queued")
Prepare(j) == Move(j, {"running"}, "prepared")
Fail(j)    == Move(j, {"queued", "running"}, "failed")

\* Between Codex and an automatic publication the job is still active work.
Cancel(j) == \/ Move(j, {"queued", "running"}, "cancelled")
             \/ j \in AutoJobs /\ Move(j, {"prepared"}, "cancelled")

OrderPublication(j) ==
    /\ state[j] = "prepared"
    /\ ordered' = [ordered EXCEPT ![j] = TRUE]
    /\ UNCHANGED <<state, exposed>>

Claim(j)   == Authorised(j) /\ Move(j, {"prepared"}, "publishing")
Release(j) == Move(j, {"publishing"}, "prepared")

\* A publication process may outlive the release of its claim.
Expose(j) ==
    /\ Authorised(j)
    /\ state[j] \in {"publishing", "prepared"}
    /\ \/ exposed[j] = "none" /\ exposed' = [exposed EXCEPT ![j] = "branch"]
       \/ exposed[j] = "branch" /\ exposed' = [exposed EXCEPT ![j] = "pr"]
    /\ UNCHANGED <<state, ordered>>

Complete(j) == exposed[j] = "pr" /\ Move(j, {"publishing"}, "succeeded")

Next == \E j \in Jobs :
    \/ Accept(j) \/ Start(j) \/ Retry(j) \/ Prepare(j) \/ Fail(j) \/ Cancel(j)
    \/ OrderPublication(j) \/ Claim(j) \/ Release(j) \/ Expose(j) \/ Complete(j)

Spec == Init /\ [][Next]_lifecycle
=============================================================================
