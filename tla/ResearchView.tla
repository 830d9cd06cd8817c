------------------------------ MODULE ResearchView ------------------------------
(***************************************************************************)
(* The research view (worker/research_view.py): a directory with what the  *)
(* HEAD of every repository holds, which each build replaces by renames    *)
(* next to it, and the OpenCode service that runs a build before every     *)
(* start (ops/opencode-capnet.service).                                    *)
(*                                                                         *)
(* Builds are processes of their own: the one of the service and those of  *)
(* an operator.  A build may fail at any step and be killed between two.   *)
(* A repository may be cloned at any time; none is removed.                *)
(***************************************************************************)
EXTENDS Integers

CONSTANTS
    Builders,     \* processes that build
    Service,      \* the builder in the service's ExecStartPre
    Nobody,       \* holder of a free lock
    Repos,        \* the repositories of the workspace, there or still to be cloned
    Brain,        \* the one no build goes without
    MaxCommits,   \* bound: commits of a repository
    MaxBuilds,    \* bound: builds by hand and restarts of the service
    MaxKills,     \* bound: builds that are killed
    MaxFailures   \* bound: builds that raise

ASSUME BuildersAssumption ==
    Service \in Builders /\ Nobody \notin Builders /\ Brain \in Repos
ASSUME BoundsAssumption ==
    MaxCommits \in Nat /\ MaxBuilds \in Nat /\ MaxKills \in Nat /\ MaxFailures \in Nat

VARIABLES
    head,      \* repository -> the number of its HEAD commit, 0 if it is not there
    target,    \* the published view
    backup,    \* .<target>.previous
    staging,   \* builder -> its temporary directory
    lock,      \* who holds the flock
    pc,        \* builder -> where its build is
    todo,      \* builder -> repositories it has listed and not exported
    service,   \* the state of the OpenCode service
    since,     \* history: HEADs when the service began to start
    last,      \* history: repository -> its commit in the last view that held it
    used       \* how much of each bound has been spent

disk == <<target, backup, staging>>
vars == <<head, target, backup, staging, lock, pc, todo, service, since, last, used>>

Commits == [Repos -> Nat]

\* A directory tree and the commits in it, 0 of a repository it does not hold.
\* "partial": files of a whole view are missing, because it is being written or deleted.
View   == [is: {"absent", "partial", "whole"}, commits: Commits]
Absent == [is |-> "absent", commits |-> [r \in Repos |-> 0]]

Exists(view) == view.is # "absent"

\* One of the repositories that a holds is older than it is in b.
Older(a, b) == \E r \in Repos : a[r] # 0 /\ a[r] < b[r]

\* What a build that was cut short leaves of a view it was deleting.
Gutted(view) == [view EXCEPT !.is = "partial"]

Init ==
    /\ head = [r \in Repos |-> IF r = Brain THEN 1 ELSE 0]
    /\ target = Absent /\ backup = Absent
    /\ staging = [b \in Builders |-> Absent]
    /\ lock = Nobody
    /\ pc = [b \in Builders |-> "idle"]
    /\ todo = [b \in Builders |-> {}]
    /\ service = "down"
    /\ since = [r \in Repos |-> 0] /\ last = [r \in Repos |-> 0]
    /\ used = [builds |-> 0, kills |-> 0, failures |-> 0]

Spend(what, max) ==
    /\ used[what] < max
    /\ used' = [used EXCEPT ![what] = @ + 1]

Goto(b, label) == pc' = [pc EXCEPT ![b] = label]

\* A repository is cloned, or its HEAD moves on.
Commit(r) ==
    /\ head[r] < MaxCommits
    /\ head' = [head EXCEPT ![r] = @ + 1]
    /\ UNCHANGED <<disk, lock, pc, todo, service, since, last, used>>

-----------------------------------------------------------------------------
(* A build.                                                                *)

\* An operator runs the script, whatever the service is doing.
BuildByHand(b) ==
    /\ b # Service /\ pc[b] = "idle"
    /\ Spend("builds", MaxBuilds)
    /\ Goto(b, "list")
    /\ UNCHANGED <<head, disk, lock, todo, service, since, last>>

\* systemd starts the service, at boot or after a failure, or an operator does.
StartService ==
    /\ service \in {"down", "stopped"}
    /\ service' = "starting"
    /\ since' = head
    /\ Goto(Service, "list")
    /\ UNCHANGED <<head, disk, lock, todo, last, used>>

\* OpenCode starts after the script has exited with 0; it asks for no lock and, by the
\* "-" of WorkingDirectory, for no view.
ExecStart ==
    /\ pc[Service] = "exit"
    /\ service' = "up"
    /\ Goto(Service, "idle")
    /\ UNCHANGED <<head, disk, lock, todo, since, last, used>>

\* OpenCode dies, or an operator stops the service.
StopService ==
    /\ service = "up"
    /\ Spend("builds", MaxBuilds)
    /\ service' \in {"down", "stopped"}
    /\ UNCHANGED <<head, disk, lock, pc, todo, since, last>>

\* The repositories are listed before the lock is waited for.
List(b) ==
    /\ pc[b] = "list"
    /\ todo' = [todo EXCEPT ![b] = {r \in Repos : head[r] # 0}]
    /\ Goto(b, "lock")
    /\ UNCHANGED <<head, disk, lock, service, since, last, used>>

\* A path that is refused, or no room for the temporary directory: nothing to undo.
RaiseEarly(b) ==
    /\ pc[b] \in {"list", "lock"}
    /\ Spend("failures", MaxFailures)
    /\ Goto(b, "idle")
    /\ todo' = [todo EXCEPT ![b] = {}]
    /\ service' = IF b = Service THEN "down" ELSE service
    /\ UNCHANGED <<head, disk, lock, since, last>>

\* Mutant: builds do not wait for each other.
Unlocked(b) == TRUE

MayLock(b) == lock = Nobody

\* fcntl.flock, then a directory with a name of its own
Acquire(b) ==
    /\ pc[b] = "lock" /\ MayLock(b)
    /\ lock' = b
    /\ staging' = [staging EXCEPT ![b] = [Absent EXCEPT !.is = "partial"]]
    /\ Goto(b, "export")
    /\ UNCHANGED <<head, target, backup, todo, service, since, last, used>>

\* _export_repository: the archive of the commit that HEAD is now
Export(b, r) ==
    /\ pc[b] = "export" /\ r \in todo[b]
    /\ staging' = [staging EXCEPT ![b].commits[r] = head[r]]
    /\ todo' = [todo EXCEPT ![b] = @ \ {r}]
    /\ UNCHANGED <<head, target, backup, lock, pc, service, since, last, used>>

WriteManifest(b) ==
    /\ pc[b] = "export" /\ todo[b] = {}
    /\ staging' = [staging EXCEPT ![b].is = "whole"]
    /\ Goto(b, "clear")
    /\ UNCHANGED <<head, target, backup, lock, todo, service, since, last, used>>

\* Mutant: what an earlier build left is not deleted.
NotCleared == FALSE

HasLeftover == Exists(backup)

\* shutil.rmtree of a backup an earlier build left; it is no single step.
Clear(b) ==
    /\ pc[b] = "clear"
    /\ IF HasLeftover
       THEN backup' = Gutted(backup) /\ Goto(b, "clearing")
       ELSE UNCHANGED backup /\ Goto(b, "out")
    /\ UNCHANGED <<head, target, staging, lock, todo, service, since, last, used>>

Cleared(b) ==
    /\ pc[b] = "clearing"
    /\ backup' = Absent
    /\ Goto(b, "out")
    /\ UNCHANGED <<head, target, staging, lock, todo, service, since, last, used>>

\* Mutant: the old view is deleted and not renamed.
Deleted == Absent

Aside == IF Exists(target) THEN target ELSE backup

\* os.replace cannot put a directory in the place of one that has content.
Movable == Exists(target) => ~Exists(backup)

MoveOut(b) ==
    /\ pc[b] = "out" /\ Movable
    /\ backup' = Aside
    /\ target' = Absent
    /\ Goto(b, "in")
    /\ UNCHANGED <<head, staging, lock, todo, service, since, last, used>>

MoveIn(b) ==
    /\ pc[b] = "in"
    /\ target' = staging[b]
    /\ staging' = [staging EXCEPT ![b] = Absent]
    /\ last' = [r \in Repos |-> IF staging[b].commits[r] = 0 THEN last[r]
                               ELSE staging[b].commits[r]]
    /\ Goto(b, "drop")
    /\ UNCHANGED <<head, backup, lock, todo, service, since, used>>

\* Mutant: the script exits with 0 in any case.
LeaveAnyway(b, failed) ==
    /\ Goto(b, IF b = Service THEN "exit" ELSE "idle")
    /\ lock' = Nobody
    /\ UNCHANGED service

\* The lock is given up; a build that raised is a start that failed.
Leave(b, failed) ==
    /\ Goto(b, IF b = Service /\ ~failed THEN "exit" ELSE "idle")
    /\ lock' = Nobody
    /\ service' = IF b = Service /\ failed THEN "down" ELSE service

Drop(b) ==
    /\ pc[b] = "drop"
    /\ IF Exists(backup)
       THEN backup' = Gutted(backup) /\ Goto(b, "dropping") /\ UNCHANGED <<lock, service>>
       ELSE UNCHANGED backup /\ Leave(b, FALSE)
    /\ UNCHANGED <<head, target, staging, todo, since, last, used>>

Dropped(b) ==
    /\ pc[b] = "dropping"
    /\ backup' = Absent
    /\ Leave(b, FALSE)
    /\ UNCHANGED <<head, target, staging, todo, since, last, used>>

\* git, the archive, its deadline or the file system raises.
Raise(b) ==
    /\ pc[b] \in {"export", "clear", "clearing", "out", "in", "drop", "dropping"}
    /\ \/ Spend("failures", MaxFailures)
       \/ pc[b] = "out" /\ ~Movable /\ UNCHANGED used
    /\ Goto(b, "undo")
    /\ UNCHANGED <<head, disk, lock, todo, service, since, last>>

\* Mutant: the backup is put back whether there is a view or not.
AnyBackup == Exists(backup)

Restorable == ~Exists(target) /\ Exists(backup)

\* The except clause puts the backup back if there is no view.
Undo(b) ==
    /\ pc[b] = "undo"
    /\ staging' = [staging EXCEPT ![b] = Absent]
    /\ todo' = [todo EXCEPT ![b] = {}]
    /\ IF Restorable
       THEN target' = backup /\ backup' = Absent
       ELSE UNCHANGED <<target, backup>>
    /\ Leave(b, TRUE)
    /\ UNCHANGED <<head, since, last, used>>

\* SIGKILL, a timeout of systemd, the service is stopped while it starts, or the machine
\* stops.  Nothing ever deletes the temporary directory.
Kill(b) ==
    /\ pc[b] # "idle"
    /\ Spend("kills", MaxKills)
    /\ staging' = [staging EXCEPT ![b] = Absent]
    /\ todo' = [todo EXCEPT ![b] = {}]
    /\ Goto(b, "idle")
    /\ lock' = IF lock = b THEN Nobody ELSE lock
    /\ IF b = Service THEN service' \in {"down", "stopped"} ELSE UNCHANGED service
    /\ UNCHANGED <<head, target, backup, since, last>>

Step(b) ==
    \/ List(b) \/ WriteManifest(b) \/ Clear(b) \/ Cleared(b) \/ MoveOut(b) \/ MoveIn(b)
    \/ Drop(b) \/ Dropped(b) \/ Undo(b)
    \/ \E r \in Repos : Export(b, r)

Next ==
    \/ StartService \/ ExecStart \/ StopService
    \/ \E r \in Repos : Commit(r)
    \/ \E b \in Builders :
        BuildByHand(b) \/ Acquire(b) \/ Step(b) \/ RaiseEarly(b) \/ Raise(b) \/ Kill(b)

\* systemd starts the service again after a failure (Restart=on-failure) and not after a
\* stop, a build goes on, and the kernel gives the lock to one who waits for it.
Fairness ==
    /\ WF_vars(service = "down" /\ StartService) /\ WF_vars(ExecStart)
    /\ \A b \in Builders : SF_vars(Acquire(b)) /\ WF_vars(Step(b))

Spec     == Init /\ [][Next]_vars
FairSpec == Spec /\ Fairness

-----------------------------------------------------------------------------
(* Properties.                                                             *)

Labels == {"idle", "list", "lock", "export", "clear", "clearing", "out", "in", "drop",
           "dropping", "undo", "exit"}

\* Types, and the lock says whose build is under way.
TypeOK ==
    /\ head \in Commits /\ since \in Commits /\ last \in Commits
    /\ target \in View /\ backup \in View
    /\ staging \in [Builders -> View]
    /\ lock \in Builders \cup {Nobody}
    /\ pc \in [Builders -> Labels]
    /\ \A b \in Builders : lock = b <=> pc[b] \notin {"idle", "list", "lock", "exit"}
    /\ todo \in [Builders -> SUBSET Repos]
    /\ service \in {"down", "starting", "up", "stopped"}
    /\ used \in [builds: Nat, kills: Nat, failures: Nat]

\* The directory readers see is a whole view or absent, however many builds failed and
\* however many were killed, as long as not both happened.
PublishedIsWhole ==
    used.kills = 0 \/ used.failures = 0 => target.is \in {"whole", "absent"}

\* A build that is cut short never costs the view: once one was published, a whole one
\* is in place, is the backup, or is ready to be moved in.
ViewSurvives ==
    /\ \E r \in Repos : last[r] # 0
    /\ used.kills + used.failures <= 1
    => \/ target.is = "whole" \/ backup.is = "whole"
       \/ lock # Nobody /\ staging[lock].is = "whole"

\* What a build puts in place, its own view or the backup it restores, holds no
\* repository at an older commit than a view before it did, whoever built the two.
NeverBack ==
    [][target' # target /\ Exists(target') => ~Older(target'.commits, last)]_vars

\* The build of a service that starts ends with a whole view of all repositories there
\* were then, at those commits or later, though it may have waited for one by hand.  When
\* OpenCode starts, builds by hand may have run in between: what the view holds is still
\* not older, and it is absent only between the renames of a build or after a kill.
StartsOnNewest ==
    [][/\ pc[Service] # "exit" /\ pc'[Service] = "exit" =>
            target'.is = "whole" /\ \A r \in Repos : since[r] <= target'.commits[r]
       /\ service # "up" /\ service' = "up" =>
            /\ Exists(target) => ~Older(target.commits, since)
            /\ \/ Exists(target) \/ used.kills # 0
               \/ \E b \in Builders : pc[b] \in {"in", "undo"}]_vars

\* Whatever builds that failed or were killed left behind, a service that starts, or has
\* to be started again, comes up unless it is stopped.
ServiceComesUp == service \in {"down", "starting"} ~> service \in {"up", "stopped"}
=============================================================================
