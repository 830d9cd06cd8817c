---------------------------- MODULE RetentionProofs ----------------------------
(***************************************************************************)
(* Type correctness of Retention, the inductive invariant IInv about who   *)
(* has which lease file open and what a cleanup has done, and the safety   *)
(* properties that follow from it.                                         *)
(***************************************************************************)
EXTENDS Retention, FiniteSetTheorems, TLAPS

-----------------------------------------------------------------------------
(* The invariant.                                                          *)

Holding == {"check"} \cup Cleaning

\* Only the holder of the retention lock sweeps, and a job under cleanup is a job.
SweepOK ==
    \A r \in Reapers :
        /\ reaper[r] # NoSweep => sweeper = r
        /\ reaper[r].does \in Holding => reaper[r].job \in Jobs /\ reaper[r].file \in Files

\* The lease file a process or a cleanup has open is the one its job's lease has, until
\* the cleanup unlinks it; what may have become of the job meanwhile.
ProcessesOK ==
    \A p \in Processes : process[p].does # "nothing" =>
        /\ process[p].job \in Jobs /\ process[p].file \in Files
        /\ process[p].file = lease[process[p].job]
        /\ manifest[process[p].job] # "absent"
        /\ process[p].does = "wait" => manifest[process[p].job] # "expired"

\* A cleanup has begun on a job that is expired, and the job stays so.
CleanupsOK ==
    \A r \in Reapers : reaper[r].does \in Holding =>
        /\ reaper[r].does # "check" => manifest[reaper[r].job] = "expired"
        /\ lease[reaper[r].job] =
               IF reaper[r].does = "manifest" THEN NoFile ELSE reaper[r].file

LeaseOK == ProcessesOK /\ CleanupsOK

\* What a cleanup has deleted stays deleted until it is over.
DiskOK ==
    \A r \in Reapers :
        LET j == reaper[r].job
            d == reaper[r].does
        IN
        /\ d \in Cleaning \ {"worktree"} => j \notin worktree
        /\ d \in Cleaning \ {"worktree", "branch"} /\ j \in recorded => j \notin branch
        /\ d \in {"trashed", "lease", "manifest"} => j \notin artifacts
        /\ d \in {"artifacts", "lease", "manifest"} => j \notin trash

IInv == TypeOK /\ SweepOK /\ LeaseOK /\ DiskOK /\ ForgottenLeavesNothing

-----------------------------------------------------------------------------
(* A fresh lease file exists.                                              *)

\* The values of a function on a finite set are no more than its arguments.
LEMMA FewValues ==
    ASSUME NEW S, IsFiniteSet(S), NEW f, f = [x \in S |-> f[x]]
    PROVE  LET T == {f[x] : x \in S}
           IN  IsFiniteSet(T) /\ Cardinality(T) <= Cardinality(S)
<1> DEFINE T == {f[x] : x \in S}
<1>1. f \in Surjection(S, T)
  BY DEF Surjection
<1> QED
  BY <1>1, FS_Surjection

\* There are more files than can be open or in place when one job has no lease file.
LEMMA FreshFile ==
    ASSUME TypeOK, NEW j \in Jobs, lease[j] = NoFile
    PROVE  Fresh \in Files
<1> DEFINE own    == [o \in Owners |-> IF o \in Processes THEN process[o].file
                                                          ELSE reaper[o].file]
           owned  == {own[o] : o \in Owners}
           leases == {lease[k] : k \in Jobs}
           open   == {process[p].file : p \in Processes} \cup {reaper[r].file : r \in Reapers}
                         \cup leases
           total  == Cardinality(Jobs) + Cardinality(Owners)
<1>1. IsFiniteSet(Jobs) /\ IsFiniteSet(Owners)
  BY OwnersAssumption, FS_Subset
<1>2. Cardinality(Jobs) \in Nat /\ Cardinality(Owners) \in Nat
  BY <1>1, FS_CardinalityType
<1>3. IsFiniteSet(owned) /\ Cardinality(owned) <= Cardinality(Owners)
  <2> HIDE DEF own
  <2>1. own = [o \in Owners |-> own[o]]
    BY DEF own
  <2> QED
    BY <1>1, <2>1, FewValues
<1>4. IsFiniteSet(leases) /\ Cardinality(leases) <= Cardinality(Jobs)
  <2>1. lease = [k \in Jobs |-> lease[k]]
    BY DEF TypeOK
  <2> QED
    BY <1>1, <2>1, FewValues
<1>5. open = owned \cup leases
  <2>1. Owners = Processes \cup Reapers /\ Processes \cap Reapers = {}
    BY OwnersAssumption DEF Owners
  <2>2. owned = {process[p].file : p \in Processes} \cup {reaper[r].file : r \in Reapers}
    BY <2>1
  <2> QED
    BY <2>2
<1>6. IsFiniteSet(open) /\ Cardinality(open) <= total
  <2> HIDE DEF owned, leases, open
  <2>1. /\ IsFiniteSet(owned \cup leases)
        /\ Cardinality(owned \cup leases) =
               Cardinality(owned) + Cardinality(leases) - Cardinality(owned \cap leases)
    BY <1>3, <1>4, FS_Union
  <2>2. Cardinality(owned) \in Nat /\ Cardinality(leases) \in Nat
    BY <1>3, <1>4, FS_CardinalityType
  <2>3. IsFiniteSet(owned \cap leases)
    BY <1>3, FS_Intersection
  <2>4. Cardinality(owned \cap leases) \in Nat
    BY <2>3, FS_CardinalityType
  <2> QED
    BY <1>2, <1>3, <1>4, <1>5, <2>1, <2>2, <2>4
<1>7. NoFile \in open
  BY DEF TypeOK
<1>8. \E f \in Files : f \notin open
  <2>1. SUFFICES ASSUME Files \subseteq open
                 PROVE  FALSE
    OBVIOUS
  <2> HIDE DEF open
  <2>2. 0..total \subseteq open
    BY <1>2, <1>7, <2>1 DEF Files, NoFile
  <2>3. Cardinality(0..total) = total + 1
    BY <1>2, FS_Interval
  <2>4. Cardinality(0..total) <= Cardinality(open)
    BY <1>6, <2>2, FS_Subset
  <2>5. Cardinality(open) \in Nat
    BY <1>6, FS_CardinalityType
  <2> QED
    BY <1>2, <1>6, <2>3, <2>4, <2>5
<1>9. Fresh = CHOOSE f \in Files : f \notin open
  BY DEF Fresh
<1> QED
  <2> HIDE DEF open
  <2> QED
    BY <1>8, <1>9

LEMMA OpenedFile ==
    ASSUME TypeOK, NEW j \in Jobs
    PROVE  Opened(j) \in Files
<1>1. lease[j] \in Files \cup {NoFile}
  BY DEF TypeOK
<1> QED
  BY <1>1, FreshFile DEF Opened

-----------------------------------------------------------------------------
(* Types.                                                                  *)

\* The variables that are not locks and not records of an owner.
ScalarsOK ==
    /\ manifest \in [Jobs -> {"absent", "active", "ended", "expired"}]
    /\ before \in [Jobs -> SUBSET Jobs]
    /\ worktree \subseteq Jobs /\ branch \subseteq Jobs
    /\ artifacts \subseteq Jobs /\ trash \subseteq Jobs /\ recorded \subseteq Jobs
    /\ lease \in [Jobs -> Files \cup {NoFile}]
    /\ sweeper \in Reapers \cup {Nobody}
    /\ used \in [runs: Nat, failures: Nat, crashes: Nat]

Process == [job: Jobs \cup {Nobody}, file: Files \cup {NoFile},
            does: {"nothing", "wait", "work", "exit"}]

Reaper == [batch: SUBSET Jobs, job: Jobs \cup {Nobody}, file: Files \cup {NoFile},
           does: {"nothing", "next", "check"} \cup Cleaning]

\* Who holds which lock.
LocksOK ==
    /\ \A p \in Processes : process[p].does \in {"work", "exit"} =>
        holder[process[p].file] = p
    /\ \A r \in Reapers : reaper[r].does \in Holding => holder[reaper[r].file] = r

SweepersOK == \A r \in Reapers : reaper[r].does \in Holding => sweeper = r

LEMMA TypeParts ==
    /\ TypeOK <=> /\ ScalarsOK
                  /\ holder \in [Files -> Owners \cup {Nobody}]
                  /\ process \in [Processes -> Process]
                  /\ reaper \in [Reapers -> Reaper]
                  /\ LocksOK /\ SweepersOK
    /\ TypeOK' <=> /\ ScalarsOK'
                   /\ (holder \in [Files -> Owners \cup {Nobody}])'
                   /\ (process \in [Processes -> Process])'
                   /\ (reaper \in [Reapers -> Reaper])'
                   /\ LocksOK' /\ SweepersOK'
  BY DEF TypeOK, ScalarsOK, Process, Reaper, LocksOK, SweepersOK, Holding

\* A cleanup goes on to its next step.
LEMMA BecomesTypes ==
    ASSUME TypeOK, SweepOK, NEW r \in Reapers, NEW d \in Cleaning,
           reaper[r].does \in Holding, Becomes(r, d), UNCHANGED <<holder, process, sweeper>>
    PROVE  /\ reaper' \in [Reapers -> Reaper]
           /\ LocksOK' /\ SweepersOK' /\ SweepOK'
           /\ reaper'[r] = [reaper[r] EXCEPT !.does = d]
           /\ \A s \in Reapers \ {r} : reaper'[s] = reaper[s]
<1>1. reaper \in [Reapers -> Reaper]
  BY TypeParts
<1>2. reaper' = [reaper EXCEPT ![r].does = d]
  BY DEF Becomes
<1>3. reaper' \in [Reapers -> Reaper]
  BY <1>1, <1>2 DEF Reaper
<1>4. /\ reaper'[r] = [reaper[r] EXCEPT !.does = d]
      /\ \A s \in Reapers \ {r} : reaper'[s] = reaper[s]
  BY <1>1, <1>2
<1>5. /\ reaper'[r].does = d /\ reaper'[r].file = reaper[r].file
      /\ reaper'[r].job = reaper[r].job
  BY <1>1, <1>4 DEF Reaper
<1>6. reaper[r] # NoSweep
  BY DEF NoSweep, Holding, Cleaning
<1>7. LocksOK'
  BY <1>4, <1>5, TypeParts DEF LocksOK
<1>8. SweepersOK'
  BY <1>4, <1>5, TypeParts DEF SweepersOK
<1>9. SweepOK'
  BY <1>4, <1>5, <1>6 DEF SweepOK
<1> QED
  BY <1>3, <1>4, <1>7, <1>8, <1>9

\* A cleanup is over.
LEMMA ReleaseTypes ==
    ASSUME TypeOK, SweepOK, NEW r \in Reapers,
           reaper[r].does \in Holding, Release(r), UNCHANGED <<process, sweeper>>
    PROVE  /\ reaper' \in [Reapers -> Reaper]
           /\ holder' \in [Files -> Owners \cup {Nobody}]
           /\ LocksOK' /\ SweepersOK' /\ SweepOK'
           /\ reaper'[r].does = "next"
           /\ \A s \in Reapers \ {r} : reaper'[s] = reaper[s]
<1> DEFINE f == reaper[r].file
<1>1. reaper \in [Reapers -> Reaper] /\ LocksOK /\ SweepersOK
  BY TypeParts
<1>2. /\ reaper' = [reaper EXCEPT ![r].job = Nobody, ![r].file = NoFile, ![r].does = "next"]
      /\ holder' = [holder EXCEPT ![f] = Nobody]
  BY DEF Release
<1>3. reaper' \in [Reapers -> Reaper]
  BY <1>1, <1>2 DEF Reaper
<1>4. reaper'[r].does = "next" /\ \A s \in Reapers \ {r} : reaper'[s] = reaper[s]
  BY <1>1, <1>2 DEF Reaper
<1>5. holder' \in [Files -> Owners \cup {Nobody}]
  BY <1>2, TypeParts
<1>6. f \in Files /\ holder[f] = r
  BY <1>1 DEF SweepOK, LocksOK
<1>7. \A g \in Files \ {f} : holder'[g] = holder[g]
  BY <1>2, TypeParts
<1>8. r \notin Processes
  BY OwnersAssumption
<1>9. holder' = [holder EXCEPT ![f] = Nobody] /\ holder \in [Files -> Owners \cup {Nobody}]
  BY <1>2, TypeParts
<1>10. \A g : holder[g] # r => g # f
  BY <1>6
<1>11. \A g : g # f => holder'[g] = holder[g]
  BY <1>9, <1>6
<1>12. ASSUME NEW p \in Processes, process'[p].does \in {"work", "exit"}
       PROVE  holder'[process'[p].file] = p
  BY <1>1, <1>8, <1>10, <1>11, <1>12 DEF LocksOK
<1>13. ASSUME NEW s \in Reapers, reaper'[s].does \in Holding
       PROVE  holder'[reaper'[s].file] = s
  <2>1. s # r
    BY <1>4, <1>13 DEF Holding, Cleaning
  <2> QED
    BY <1>1, <1>4, <1>10, <1>11, <1>13, <2>1 DEF LocksOK
<1>14. LocksOK'
  BY <1>12, <1>13 DEF LocksOK
<1>15. SweepersOK'
  BY <1>1, <1>4 DEF SweepersOK, Holding, Cleaning
<1>16. reaper[r] # NoSweep
  BY DEF NoSweep, Holding, Cleaning
<1>17. SweepOK'
  BY <1>4, <1>16 DEF SweepOK, Holding, Cleaning
<1> QED
  BY <1>3, <1>4, <1>5, <1>14, <1>15, <1>17

\* Types and locks are inductive with the retention lock and with what ProcessesOK says of
\* the file a process waits for.
LEMMA TypeStep ==
    ASSUME TypeOK, SweepOK, ProcessesOK, [Next]_vars
    PROVE  TypeOK' /\ SweepOK'
<1> USE DEF Holding
<1>0. /\ ScalarsOK /\ LocksOK /\ SweepersOK
      /\ holder \in [Files -> Owners \cup {Nobody}]
      /\ process \in [Processes -> Process] /\ reaper \in [Reapers -> Reaper]
  BY TypeParts
<1> SUFFICES /\ ScalarsOK' /\ LocksOK' /\ SweepersOK' /\ SweepOK'
             /\ (holder \in [Files -> Owners \cup {Nobody}])'
             /\ (process \in [Processes -> Process])' /\ (reaper \in [Reapers -> Reaper])'
  BY TypeParts
<1>1. ASSUME NEW j \in Jobs, Create(j) \/ End(j) \/ Expire(j)
      PROVE  TypeOK' /\ SweepOK'
  <2>1. UNCHANGED <<files, lease, holder, sweeper, process, reaper, used>>
    BY <1>1 DEF Create, End, Expire
  <2>5. recorded' \subseteq Jobs
    BY <1>0, <1>1 DEF ScalarsOK, Create, End, Expire
  <2>2. manifest' \in [Jobs -> {"absent", "active", "ended", "expired"}]
    BY <1>0, <1>1 DEF ScalarsOK, Create, End, Expire
  <2>3. before' \in [Jobs -> SUBSET Jobs]
    BY <1>0, <1>1 DEF ScalarsOK, Create, End, Expire
  <2>4. ScalarsOK'
    BY <1>0, <2>1, <2>2, <2>3, <2>5 DEF ScalarsOK, files
  <2> QED
    BY <1>0, <2>1, <2>4, TypeParts DEF LocksOK, SweepersOK, SweepOK
<1>2. ASSUME NEW p \in Processes, NEW j \in Jobs, StartProcess(p, j)
      PROVE  TypeOK' /\ SweepOK'
  <2>1. Opened(j) \in Files
    BY OpenedFile
  <2>2. /\ process' = [process EXCEPT ![p] = [job |-> j, file |-> Opened(j), does |-> "wait"]]
        /\ lease' = [lease EXCEPT ![j] = Opened(j)]
        /\ used' = [used EXCEPT !["runs"] = @ + 1]
        /\ artifacts' = artifacts \cup {j}
        /\ UNCHANGED <<manifest, recorded, before, worktree, branch, trash, holder, sweeper,
                       reaper>>
    BY <1>2 DEF StartProcess, Spend
  <2>3. process' \in [Processes -> Process]
    BY <1>0, <2>1, <2>2 DEF Process
  <2>4. ScalarsOK'
    BY <1>0, <2>1, <2>2 DEF ScalarsOK, files
  <2>5. process'[p].does = "wait" /\ \A q \in Processes \ {p} : process'[q] = process[q]
    BY <1>0, <2>2
  <2>6. LocksOK'
    BY <1>0, <2>2, <2>5 DEF LocksOK
  <2> QED
    BY <1>0, <2>2, <2>3, <2>4, <2>6, TypeParts DEF SweepersOK, SweepOK
<1>3. ASSUME NEW p \in Processes, TakeLease(p)
      PROVE  TypeOK' /\ SweepOK'
  <2> DEFINE f == process[p].file
             d == IF manifest[process[p].job] = "active" THEN "work" ELSE "exit"
  <2>1. /\ process[p].does = "wait" /\ holder[f] = Nobody
        /\ holder' = [holder EXCEPT ![f] = p]
        /\ process' = [process EXCEPT ![p].does = d]
        /\ UNCHANGED <<manifest, recorded, before, files, lease, sweeper, reaper, used>>
    BY <1>3 DEF TakeLease
  <2>2. f \in Files
    BY <2>1 DEF ProcessesOK
  <2>3. holder' \in [Files -> Owners \cup {Nobody}]
    BY <1>0, <2>1 DEF Owners
  <2>4. process' \in [Processes -> Process]
    BY <1>0, <2>1 DEF Process
  <2>5. /\ process'[p].file = f
        /\ \A q \in Processes \ {p} : process'[q] = process[q]
    BY <1>0, <2>1 DEF Process
  <2>6. holder'[f] = p /\ \A g : g # f => holder'[g] = holder[g]
    BY <1>0, <2>1, <2>2
  <2>7. Nobody \notin Processes \cup Reapers
    BY OwnersAssumption DEF Owners
  <2>8. LocksOK'
    BY <1>0, <2>1, <2>5, <2>6, <2>7 DEF LocksOK
  <2> QED
    BY <1>0, <2>1, <2>3, <2>4, <2>8, TypeParts DEF ScalarsOK, SweepersOK, SweepOK, files
<1>4. ASSUME NEW p \in Processes, Work(p)
      PROVE  TypeOK' /\ SweepOK'
  <2>1. process[p].does = "work" /\ UNCHANGED <<manifest, before, trash, lease, holder, sweeper,
                                               process, reaper, used>>
    BY <1>4 DEF Work, AddBranch, AddWorktree, Record, WriteArtifacts, files
  <2>2. process[p].job \in Jobs
    BY <2>1 DEF ProcessesOK
  <2>3. /\ worktree' \subseteq Jobs /\ branch' \subseteq Jobs /\ artifacts' \subseteq Jobs
        /\ recorded' \subseteq Jobs
    BY <1>0, <1>4, <2>2 DEF Work, AddBranch, AddWorktree, Record, WriteArtifacts, ScalarsOK,
                            files
  <2> QED
    BY <1>0, <2>1, <2>3, TypeParts DEF ScalarsOK, LocksOK, SweepersOK, SweepOK
<1>5. ASSUME NEW p \in Processes, Exit(p)
      PROVE  TypeOK' /\ SweepOK'
  <2>1. /\ process' = [process EXCEPT ![p] = NoProcess]
        /\ holder' = [f \in Files |-> IF holder[f] = p THEN Nobody ELSE holder[f]]
        /\ UNCHANGED <<manifest, recorded, before, files, lease, sweeper, reaper, used>>
    BY <1>5 DEF Exit
  <2>2. process' \in [Processes -> Process]
    BY <1>0, <2>1 DEF Process, NoProcess
  <2>3. holder' \in [Files -> Owners \cup {Nobody}]
    BY <1>0, <2>1
  <2>4. process'[p].does = "nothing" /\ \A q \in Processes \ {p} : process'[q] = process[q]
    BY <1>0, <2>1 DEF NoProcess
  <2>5. p \notin Reapers
    BY OwnersAssumption
  <2>6. \A f \in Files : holder[f] # p => holder'[f] = holder[f]
    BY <2>1
  <2>7. \A q \in Processes \ {p} : process[q].does \in {"work", "exit"} =>
            process[q].file \in Files
    BY DEF ProcessesOK
  <2>8. \A r \in Reapers : reaper[r].does \in Holding => reaper[r].file \in Files
    BY DEF SweepOK
  <2>9. LocksOK'
    BY <1>0, <2>1, <2>4, <2>5, <2>6, <2>7, <2>8 DEF LocksOK
  <2> QED
    BY <1>0, <2>1, <2>2, <2>3, <2>9, TypeParts DEF ScalarsOK, SweepersOK, SweepOK, files
<1>6. ASSUME NEW r \in Reapers, Sweep(r)
      PROVE  TypeOK' /\ SweepOK'
  <2>1. /\ reaper[r] = NoSweep /\ sweeper = Nobody /\ sweeper' = r
        /\ reaper' = [reaper EXCEPT ![r].batch = Batch, ![r].does = "next"]
        /\ UNCHANGED <<manifest, recorded, before, files, lease, holder, process, used>>
    BY <1>6 DEF Sweep
  <2>2. Batch \subseteq Jobs
    BY DEF Batch, Candidates
  <2>3. reaper' \in [Reapers -> Reaper]
    BY <1>0, <2>1, <2>2 DEF Reaper
  <2>4. reaper'[r].does = "next" /\ \A s \in Reapers \ {r} : reaper'[s] = reaper[s]
    BY <1>0, <2>1 DEF Reaper
  <2>5. \A s \in Reapers \ {r} : reaper[s] = NoSweep
    BY <2>1, OwnersAssumption DEF SweepOK, Owners
  <2>6. NoSweep.does \notin Holding
    BY DEF NoSweep, Cleaning
  <2>7. LocksOK' /\ SweepersOK' /\ SweepOK'
    BY <1>0, <2>1, <2>4, <2>5, <2>6 DEF LocksOK, SweepersOK, SweepOK, Cleaning
  <2> QED
    BY <1>0, <2>1, <2>3, <2>7, TypeParts DEF ScalarsOK, files
<1>7. ASSUME NEW r \in Reapers, EndSweep(r)
      PROVE  TypeOK' /\ SweepOK'
  <2>1. /\ reaper[r].does = "next" /\ sweeper' = Nobody
        /\ reaper' = [reaper EXCEPT ![r] = NoSweep]
        /\ UNCHANGED <<manifest, recorded, before, files, lease, holder, process, used>>
    BY <1>7 DEF EndSweep
  <2>2. reaper' \in [Reapers -> Reaper]
    BY <1>0, <2>1 DEF Reaper, NoSweep
  <2>3. reaper'[r] = NoSweep /\ \A s \in Reapers \ {r} : reaper'[s] = reaper[s]
    BY <1>0, <2>1
  <2>4. reaper[r] # NoSweep
    BY <2>1 DEF NoSweep
  <2>5. \A s \in Reapers : reaper'[s] = NoSweep
    BY <2>3, <2>4 DEF SweepOK
  <2>6. NoSweep.does \notin Holding
    BY DEF NoSweep, Cleaning
  <2>7. LocksOK' /\ SweepersOK' /\ SweepOK'
    BY <1>0, <2>1, <2>5, <2>6 DEF LocksOK, SweepersOK, SweepOK
  <2> QED
    BY <1>0, <2>1, <2>2, <2>7, TypeParts DEF ScalarsOK, files
<1>8. ASSUME NEW r \in Reapers, NEW j \in Jobs, Claim(r, j)
      PROVE  TypeOK' /\ SweepOK'
  <2> DEFINE f == Opened(j)
  <2>1. /\ reaper[r].does = "next" /\ lease' = [lease EXCEPT ![j] = f]
        /\ UNCHANGED <<manifest, recorded, before, files, sweeper, process, used>>
    BY <1>8 DEF Claim
  <2>2. f \in Files
    BY OpenedFile
  <2>3. ScalarsOK'
    BY <1>0, <2>1, <2>2 DEF ScalarsOK, files
  <2>4. sweeper = r
    BY <2>1 DEF SweepOK, NoSweep
  <2>5. CASE LeaseFree(f)
    <3>1. /\ holder' = [holder EXCEPT ![f] = r]
          /\ reaper' = [reaper EXCEPT ![r] = [batch |-> @.batch \ {j}, job |-> j,
                                                   file |-> f, does |-> "check"]]
      BY <1>8, <2>5 DEF Claim
    <3>2. holder' \in [Files -> Owners \cup {Nobody}]
      BY <1>0, <3>1 DEF Owners
    <3>3. reaper' \in [Reapers -> Reaper]
      BY <1>0, <2>2, <3>1 DEF Reaper
    <3>4. /\ reaper'[r].does = "check" /\ reaper'[r].file = f /\ reaper'[r].job = j
          /\ \A s \in Reapers \ {r} : reaper'[s] = reaper[s]
      BY <1>0, <3>1 DEF Reaper
    <3>5. holder'[f] = r /\ \A g : g # f => holder'[g] = holder[g]
      BY <1>0, <2>2, <3>1
    <3>6. holder[f] = Nobody
      BY <2>5 DEF LeaseFree
    <3>7. Nobody \notin Processes \cup Reapers
      BY OwnersAssumption DEF Owners
    <3>8. LocksOK'
      BY <1>0, <2>1, <3>4, <3>5, <3>6, <3>7 DEF LocksOK
    <3>9. SweepersOK' /\ SweepOK'
      BY <1>0, <2>1, <2>2, <2>4, <3>4 DEF SweepersOK, SweepOK
    <3> QED
      BY <1>0, <2>1, <2>3, <3>2, <3>3, <3>8, <3>9, TypeParts
  <2>6. CASE ~LeaseFree(f)
    <3>1. holder' = holder /\ reaper' = [reaper EXCEPT ![r].batch = @ \ {j}]
      BY <1>8, <2>6 DEF Claim
    <3>2. reaper' \in [Reapers -> Reaper]
      BY <1>0, <3>1 DEF Reaper
    <3>3. /\ reaper'[r].does = "next" /\ \A s \in Reapers \ {r} : reaper'[s] = reaper[s]
      BY <1>0, <2>1, <3>1 DEF Reaper
    <3>4. LocksOK' /\ SweepersOK' /\ SweepOK'
      BY <1>0, <2>1, <2>4, <3>1, <3>3 DEF LocksOK, SweepersOK, SweepOK, Cleaning
    <3> QED
      BY <1>0, <2>1, <2>3, <3>1, <3>2, <3>4, TypeParts
  <2> QED
    BY <2>5, <2>6
<1>9. ASSUME NEW r \in Reapers,
             \/ RemoveWorktree(r) \/ RemoveBranch(r) \/ EmptyTrash(r) \/ MoveArtifacts(r)
             \/ UnlinkLease(r)
      PROVE  TypeOK' /\ SweepOK'
  <2>1. /\ reaper[r].does \in Holding
        /\ UNCHANGED <<manifest, recorded, before, holder, sweeper, process, used>>
    BY <1>9 DEF RemoveWorktree, RemoveBranch, EmptyTrash, MoveArtifacts, UnlinkLease, Cleaning,
                files
  <2>2. PICK d \in Cleaning : Becomes(r, d)
    BY <1>9 DEF RemoveWorktree, RemoveBranch, EmptyTrash, MoveArtifacts, UnlinkLease, Cleaning
  <2>3. reaper[r].job \in Jobs
    BY <2>1 DEF SweepOK
  <2>4. /\ worktree' \subseteq Jobs /\ branch' \subseteq Jobs
        /\ artifacts' \subseteq Jobs /\ trash' \subseteq Jobs
    BY <1>0, <1>9, <2>3 DEF RemoveWorktree, RemoveBranch, EmptyTrash, MoveArtifacts,
                            UnlinkLease, ScalarsOK, files
  <2>5. lease' \in [Jobs -> Files \cup {NoFile}]
    BY <1>0, <1>9 DEF RemoveWorktree, RemoveBranch, EmptyTrash, MoveArtifacts, UnlinkLease,
                      ScalarsOK
  <2>6. ScalarsOK'
    BY <1>0, <2>1, <2>4, <2>5 DEF ScalarsOK
  <2>7. reaper' \in [Reapers -> Reaper] /\ LocksOK' /\ SweepersOK' /\ SweepOK'
    BY <2>1, <2>2, BecomesTypes
  <2> QED
    BY <1>0, <2>1, <2>6, <2>7, TypeParts
<1>10. ASSUME NEW r \in Reapers, Check(r)
       PROVE  TypeOK' /\ SweepOK'
  <2>1. /\ reaper[r].does = "check"
        /\ UNCHANGED <<manifest, recorded, before, files, lease, sweeper, process, used>>
    BY <1>10 DEF Check
  <2>2. ScalarsOK'
    BY <1>0, <2>1 DEF ScalarsOK, files
  <2>3. CASE IsExpired(reaper[r].job)
    <3>1. Becomes(r, "worktree") /\ UNCHANGED holder
      BY <1>10, <2>3 DEF Check
    <3>2. reaper' \in [Reapers -> Reaper] /\ LocksOK' /\ SweepersOK' /\ SweepOK'
      BY <2>1, <3>1, BecomesTypes DEF Cleaning
    <3> QED
      BY <1>0, <2>1, <2>2, <3>1, <3>2, TypeParts
  <2>4. CASE ~IsExpired(reaper[r].job)
    <3>1. Release(r)
      BY <1>10, <2>4 DEF Check
    <3>2. /\ reaper' \in [Reapers -> Reaper] /\ LocksOK' /\ SweepersOK' /\ SweepOK'
          /\ holder' \in [Files -> Owners \cup {Nobody}]
      BY <2>1, <3>1, ReleaseTypes
    <3> QED
      BY <1>0, <2>1, <2>2, <3>2, TypeParts
  <2> QED
    BY <2>3, <2>4
<1>11. ASSUME NEW r \in Reapers, DeleteManifest(r) \/ GiveUp(r)
       PROVE  TypeOK' /\ SweepOK'
  <2>1. /\ reaper[r].does \in Holding /\ Release(r)
        /\ UNCHANGED <<files, lease, sweeper, process>>
    BY <1>11 DEF DeleteManifest, GiveUp, Cleaning
  <2>2. manifest' \in [Jobs -> {"absent", "active", "ended", "expired"}]
    BY <1>0, <1>11 DEF ScalarsOK, DeleteManifest, GiveUp
  <2>3. before' \in [Jobs -> SUBSET Jobs] /\ recorded' \subseteq Jobs
    BY <1>0, <1>11 DEF ScalarsOK, DeleteManifest, GiveUp
  <2>4. used' \in [runs: Nat, failures: Nat, crashes: Nat]
    BY <1>0, <1>11 DEF ScalarsOK, DeleteManifest, GiveUp, Spend
  <2>5. ScalarsOK'
    BY <1>0, <2>1, <2>2, <2>3, <2>4 DEF ScalarsOK, files
  <2>6. /\ reaper' \in [Reapers -> Reaper] /\ LocksOK' /\ SweepersOK' /\ SweepOK'
        /\ holder' \in [Files -> Owners \cup {Nobody}]
    BY <2>1, ReleaseTypes
  <2> QED
    BY <1>0, <2>1, <2>5, <2>6, TypeParts
<1>12. ASSUME NEW r \in Reapers, Crash(r)
       PROVE  TypeOK' /\ SweepOK'
  <2>1. /\ reaper[r] # NoSweep /\ sweeper' = Nobody
        /\ reaper' = [reaper EXCEPT ![r] = NoSweep]
        /\ holder' = [f \in Files |-> IF holder[f] = r THEN Nobody ELSE holder[f]]
        /\ used' = [used EXCEPT !["crashes"] = @ + 1]
        /\ UNCHANGED <<manifest, recorded, before, files, lease, process>>
    BY <1>12 DEF Crash, Spend
  <2>2. reaper' \in [Reapers -> Reaper]
    BY <1>0, <2>1 DEF Reaper, NoSweep
  <2>3. holder' \in [Files -> Owners \cup {Nobody}]
    BY <1>0, <2>1
  <2>4. \A s \in Reapers : reaper'[s] = NoSweep
    BY <1>0, <2>1 DEF SweepOK
  <2>5. NoSweep.does \notin Holding
    BY DEF NoSweep, Cleaning
  <2>6. r \notin Processes
    BY OwnersAssumption
  <2>7. \A q \in Processes : process[q].does \in {"work", "exit"} => process[q].file \in Files
    BY DEF ProcessesOK
  <2>8. LocksOK'
    BY <1>0, <2>1, <2>4, <2>5, <2>6, <2>7 DEF LocksOK
  <2>9. SweepersOK' /\ SweepOK'
    BY <2>4, <2>5 DEF SweepersOK, SweepOK
  <2>10. ScalarsOK'
    BY <1>0, <2>1 DEF ScalarsOK, files
  <2> QED
    BY <1>0, <2>1, <2>2, <2>3, <2>8, <2>9, <2>10, TypeParts
<1>13. CASE UNCHANGED vars
  BY <1>0, <1>13 DEF vars, files, ScalarsOK, LocksOK, SweepersOK, SweepOK
<1> QED
  BY <1>1, <1>2, <1>3, <1>4, <1>5, <1>6, <1>7, <1>8, <1>9, <1>10, <1>11, <1>12, <1>13, TypeParts
     DEF Next, Reap

-----------------------------------------------------------------------------
(* Leases.                                                                 *)

LEMMA NoFileIsNone == NoFile \notin Files
  BY DEF NoFile, Files

\* Two workers do not sweep at a time.
LEMMA OneSweep ==
    ASSUME SweepOK, NEW r \in Reapers, NEW s \in Reapers,
           reaper[r] # NoSweep, reaper[s] # NoSweep
    PROVE  r = s
  BY DEF SweepOK

\* No process is at a job that is being cleaned up: it would hold or wait for the lease.
LEMMA Alone ==
    ASSUME TypeOK, SweepOK, LeaseOK, NEW r \in Reapers, reaper[r].does \in Cleaning,
           NEW p \in Processes, process[p].does # "nothing"
    PROVE  process[p].job # reaper[r].job
<1>1. SUFFICES ASSUME process[p].job = reaper[r].job
               PROVE  FALSE
  OBVIOUS
<1>2. reaper[r].does \in Holding /\ reaper[r].does # "check"
  BY DEF Holding, Cleaning
<1>3. manifest[reaper[r].job] = "expired"
  BY <1>2 DEF LeaseOK, CleanupsOK
<1>4. /\ process[p].file \in Files /\ process[p].file = lease[reaper[r].job]
      /\ process[p].does # "wait"
  BY <1>1, <1>3 DEF LeaseOK, ProcessesOK
<1>5. process[p].does \in {"work", "exit"}
  BY <1>4, TypeParts DEF Process
<1>6. holder[process[p].file] = p /\ holder[reaper[r].file] = r
  BY <1>2, <1>5, TypeParts DEF LocksOK
<1>7. lease[reaper[r].job] = reaper[r].file
  BY <1>2, <1>4, NoFileIsNone DEF LeaseOK, CleanupsOK
<1> QED
  BY <1>4, <1>6, <1>7, OwnersAssumption

\* Opening a lease leaves the leases that somebody has open as they are.
LEMMA OpeningKeeps ==
    ASSUME TypeOK, NEW j \in Jobs, lease' = [lease EXCEPT ![j] = Opened(j)]
    PROVE  /\ lease'[j] = Opened(j)
           /\ \A k \in Jobs : k # j \/ lease[k] # NoFile => lease'[k] = lease[k]
<1>1. lease \in [Jobs -> Files \cup {NoFile}]
  BY TypeParts DEF ScalarsOK
<1> QED
  BY <1>1 DEF Opened

\* In particular as the one of a process.
LEMMA OpeningKeepsProcess ==
    ASSUME TypeOK, ProcessesOK, NEW j \in Jobs, lease' = [lease EXCEPT ![j] = Opened(j)],
           NEW q \in Processes, process[q].does # "nothing"
    PROVE  lease'[process[q].job] = lease[process[q].job]
<1>1. process[q].job \in Jobs /\ lease[process[q].job] # NoFile
  BY NoFileIsNone DEF ProcessesOK
<1> QED
  BY <1>1, OpeningKeeps

LEMMA ProcessesStep ==
    ASSUME TypeOK, SweepOK, LeaseOK, [Next]_vars
    PROVE  ProcessesOK'
<1>0. /\ manifest \in [Jobs -> {"absent", "active", "ended", "expired"}]
      /\ lease \in [Jobs -> Files \cup {NoFile}]
      /\ process \in [Processes -> Process] /\ ProcessesOK
  BY TypeParts DEF ScalarsOK, LeaseOK
<1>1. ASSUME UNCHANGED <<process, manifest, lease>>
      PROVE  ProcessesOK'
  BY <1>0, <1>1 DEF ProcessesOK
<1>2. ASSUME NEW j \in Jobs, Create(j) \/ End(j) \/ Expire(j)
      PROVE  ProcessesOK'
  <2>1. UNCHANGED <<process, lease>>
    BY <1>2 DEF Create, End, Expire
  <2>2. \A k \in Jobs : k # j => manifest'[k] = manifest[k]
    BY <1>0, <1>2 DEF Create, End, Expire
  <2>3. manifest'[j] # "absent"
    BY <1>0, <1>2 DEF Create, End, Expire
  <2>4. \A p \in Processes :
            process[p].job = j /\ process[p].does = "wait" => manifest'[j] # "expired"
    BY <1>0, <1>2 DEF Create, End, Expire
  <2> QED
    BY <1>0, <2>1, <2>2, <2>3, <2>4 DEF ProcessesOK
<1>3. ASSUME NEW p \in Processes, NEW j \in Jobs, StartProcess(p, j)
      PROVE  ProcessesOK'
  <2>1. /\ process' = [process EXCEPT ![p] = [job |-> j, file |-> Opened(j), does |-> "wait"]]
        /\ lease' = [lease EXCEPT ![j] = Opened(j)]
        /\ manifest[j] = "active" /\ manifest' = manifest
    BY <1>3 DEF StartProcess
  <2>2. Opened(j) \in Files
    BY OpenedFile
  <2>3. /\ process'[p].job = j /\ process'[p].file = Opened(j)
        /\ \A q \in Processes \ {p} : process'[q] = process[q]
    BY <1>0, <2>1
  <2>4. lease'[j] = Opened(j)
    BY <2>1, OpeningKeeps
  <2>5. ASSUME NEW q \in Processes \ {p}, process[q].does # "nothing"
        PROVE  lease'[process[q].job] = lease[process[q].job]
    BY <1>0, <2>1, <2>5, OpeningKeepsProcess
  <2> QED
    BY <1>0, <2>1, <2>2, <2>3, <2>4, <2>5 DEF ProcessesOK
<1>4. ASSUME NEW p \in Processes, TakeLease(p)
      PROVE  ProcessesOK'
  <2>1. /\ process[p].does = "wait" /\ UNCHANGED <<manifest, lease>>
        /\ process' = [process EXCEPT ![p].does =
               IF manifest[process[p].job] = "active" THEN "work" ELSE "exit"]
    BY <1>4 DEF TakeLease
  <2>2. /\ process'[p].job = process[p].job /\ process'[p].file = process[p].file
        /\ process'[p].does # "wait"
        /\ \A q \in Processes \ {p} : process'[q] = process[q]
    BY <1>0, <2>1 DEF Process
  <2> QED
    BY <1>0, <2>1, <2>2 DEF ProcessesOK
<1>5. ASSUME NEW p \in Processes, Exit(p)
      PROVE  ProcessesOK'
  <2>1. process' = [process EXCEPT ![p] = NoProcess] /\ UNCHANGED <<manifest, lease>>
    BY <1>5 DEF Exit
  <2>2. process'[p].does = "nothing" /\ \A q \in Processes \ {p} : process'[q] = process[q]
    BY <1>0, <2>1 DEF NoProcess
  <2> QED
    BY <1>0, <2>1, <2>2 DEF ProcessesOK
<1>6. ASSUME NEW r \in Reapers, NEW j \in Jobs, Claim(r, j)
      PROVE  ProcessesOK'
  <2>1. UNCHANGED <<process, manifest>> /\ lease' = [lease EXCEPT ![j] = Opened(j)]
    BY <1>6 DEF Claim
  <2>2. ASSUME NEW q \in Processes, process[q].does # "nothing"
        PROVE  lease'[process[q].job] = lease[process[q].job]
    BY <1>0, <2>1, <2>2, OpeningKeepsProcess
  <2> QED
    BY <1>0, <2>1, <2>2 DEF ProcessesOK
<1>7. ASSUME NEW r \in Reapers, UnlinkLease(r)
      PROVE  ProcessesOK'
  <2>1. /\ reaper[r].does = "lease" /\ UNCHANGED <<process, manifest>>
        /\ lease' = [lease EXCEPT ![reaper[r].job] = NoFile]
    BY <1>7 DEF UnlinkLease
  <2>2. ASSUME NEW q \in Processes, process[q].does # "nothing"
        PROVE  lease'[process[q].job] = lease[process[q].job]
    <3>1. process[q].job # reaper[r].job
      BY <2>1, <2>2, Alone DEF Cleaning
    <3> QED
      BY <1>0, <2>1, <2>2, <3>1 DEF ProcessesOK
  <2> QED
    BY <1>0, <2>1, <2>2 DEF ProcessesOK
<1>8. ASSUME NEW r \in Reapers, DeleteManifest(r)
      PROVE  ProcessesOK'
  <2>1. /\ reaper[r].does = "manifest" /\ UNCHANGED <<process, lease>>
        /\ \A k \in Jobs : k # reaper[r].job => manifest'[k] = manifest[k]
    BY <1>0, <1>8 DEF DeleteManifest
  <2>2. ASSUME NEW q \in Processes, process[q].does # "nothing"
        PROVE  manifest'[process[q].job] = manifest[process[q].job]
    <3>1. process[q].job # reaper[r].job
      BY <2>1, <2>2, Alone DEF Cleaning
    <3> QED
      BY <1>0, <2>1, <2>2, <3>1 DEF ProcessesOK
  <2> QED
    BY <1>0, <2>1, <2>2 DEF ProcessesOK
<1>9. ASSUME NEW p \in Processes, Work(p)
      PROVE  ProcessesOK'
  BY <1>1, <1>9 DEF Work, AddBranch, AddWorktree, Record, WriteArtifacts
<1>10. ASSUME NEW r \in Reapers,
              \/ Sweep(r) \/ EndSweep(r) \/ Check(r) \/ RemoveWorktree(r) \/ RemoveBranch(r)
              \/ EmptyTrash(r) \/ MoveArtifacts(r) \/ GiveUp(r) \/ Crash(r)
       PROVE  ProcessesOK'
  BY <1>1, <1>10 DEF Sweep, EndSweep, Check, RemoveWorktree, RemoveBranch, EmptyTrash,
                     MoveArtifacts, GiveUp, Crash
<1>11. CASE UNCHANGED vars
  BY <1>1, <1>11 DEF vars
<1> QED
  BY <1>2, <1>3, <1>4, <1>5, <1>6, <1>7, <1>8, <1>9, <1>10, <1>11 DEF Next, Reap

\* And as the one of a cleanup, unless it has unlinked it.
LEMMA OpeningKeepsCleanup ==
    ASSUME TypeOK, SweepOK, CleanupsOK, NEW j \in Jobs,
           lease' = [lease EXCEPT ![j] = Opened(j)],
           NEW s \in Reapers, reaper[s].does \in Holding,
           reaper[s].does = "manifest" => reaper[s].job # j
    PROVE  lease'[reaper[s].job] = lease[reaper[s].job]
<1>1. reaper[s].job \in Jobs /\ reaper[s].file \in Files
  BY DEF SweepOK
<1>2. reaper[s].job # j \/ lease[reaper[s].job] # NoFile
  BY <1>1, NoFileIsNone DEF CleanupsOK
<1> QED
  BY <1>1, <1>2, OpeningKeeps

LEMMA CleanupsStep ==
    ASSUME TypeOK, SweepOK, LeaseOK, [Next]_vars
    PROVE  CleanupsOK'
<1> USE DEF Holding
<1>0. /\ manifest \in [Jobs -> {"absent", "active", "ended", "expired"}]
      /\ lease \in [Jobs -> Files \cup {NoFile}]
      /\ reaper \in [Reapers -> Reaper] /\ CleanupsOK
  BY TypeParts DEF ScalarsOK, LeaseOK
<1>1. ASSUME UNCHANGED <<reaper, manifest, lease>>
      PROVE  CleanupsOK'
  BY <1>0, <1>1 DEF CleanupsOK
<1>2. ASSUME NEW j \in Jobs, Create(j) \/ End(j) \/ Expire(j)
      PROVE  CleanupsOK'
  <2>1. UNCHANGED <<reaper, lease>>
    BY <1>2 DEF Create, End, Expire
  <2>2. \A k \in Jobs : manifest[k] = "expired" => manifest'[k] = "expired"
    BY <1>0, <1>2 DEF Create, End, Expire
  <2> QED
    BY <1>0, <2>1, <2>2 DEF CleanupsOK, SweepOK
<1>3. ASSUME NEW p \in Processes, NEW j \in Jobs, StartProcess(p, j)
      PROVE  CleanupsOK'
  <2>1. /\ manifest[j] = "active" /\ UNCHANGED <<manifest, reaper>>
        /\ lease' = [lease EXCEPT ![j] = Opened(j)]
    BY <1>3 DEF StartProcess
  <2>2. ASSUME NEW s \in Reapers, reaper[s].does \in Holding
        PROVE  lease'[reaper[s].job] = lease[reaper[s].job]
    <3>1. reaper[s].does = "manifest" => reaper[s].job # j
      BY <1>0, <2>1, <2>2 DEF CleanupsOK
    <3> QED
      BY <1>0, <2>1, <2>2, <3>1, OpeningKeepsCleanup
  <2> QED
    BY <1>0, <2>1, <2>2 DEF CleanupsOK
<1>4. ASSUME NEW p \in Processes, TakeLease(p) \/ Work(p) \/ Exit(p)
      PROVE  CleanupsOK'
  BY <1>1, <1>4 DEF TakeLease, Work, AddBranch, AddWorktree, Record, WriteArtifacts, Exit
<1>5. ASSUME NEW r \in Reapers, reaper[r] # NoSweep,
             \A s \in Reapers \ {r} : reaper'[s] = reaper[s]
      PROVE  \A s \in Reapers \ {r} : reaper'[s].does \notin Holding
  <2>1. \A s \in Reapers \ {r} : reaper[s] = NoSweep
    BY <1>5, OneSweep
  <2> QED
    BY <1>5, <2>1 DEF NoSweep, Cleaning
<1>6. ASSUME NEW r \in Reapers, Sweep(r)
      PROVE  CleanupsOK'
  <2>1. /\ reaper' = [reaper EXCEPT ![r].batch = Batch, ![r].does = "next"]
        /\ UNCHANGED <<manifest, lease>>
    BY <1>6 DEF Sweep
  <2>2. reaper'[r].does = "next" /\ \A s \in Reapers \ {r} : reaper'[s] = reaper[s]
    BY <1>0, <2>1 DEF Reaper
  <2> QED
    BY <1>0, <2>1, <2>2 DEF CleanupsOK, Cleaning
<1>7. ASSUME NEW r \in Reapers, EndSweep(r) \/ Crash(r)
      PROVE  CleanupsOK'
  <2>1. reaper' = [reaper EXCEPT ![r] = NoSweep] /\ UNCHANGED <<manifest, lease>>
    BY <1>7 DEF EndSweep, Crash
  <2>2. reaper'[r].does = "nothing" /\ \A s \in Reapers \ {r} : reaper'[s] = reaper[s]
    BY <1>0, <2>1 DEF NoSweep
  <2> QED
    BY <1>0, <2>1, <2>2 DEF CleanupsOK, Cleaning
<1>8. ASSUME NEW r \in Reapers, NEW j \in Jobs, Claim(r, j)
      PROVE  CleanupsOK'
  <2>1. /\ reaper[r].does = "next" /\ manifest' = manifest
        /\ lease' = [lease EXCEPT ![j] = Opened(j)]
    BY <1>8 DEF Claim
  <2>2. CASE LeaseFree(Opened(j))
    <3>1. reaper' = [reaper EXCEPT ![r] = [batch |-> @.batch \ {j}, job |-> j,
                                           file |-> Opened(j), does |-> "check"]]
      BY <1>8, <2>2 DEF Claim
    <3>2. /\ reaper'[r].job = j /\ reaper'[r].file = Opened(j) /\ reaper'[r].does = "check"
          /\ \A s \in Reapers \ {r} : reaper'[s] = reaper[s]
      BY <1>0, <3>1
    <3>3. lease'[j] = Opened(j)
      BY <2>1, OpeningKeeps
    <3>4. \A s \in Reapers \ {r} : reaper'[s].does \notin Holding
      BY <1>5, <2>1, <3>2 DEF NoSweep
    <3> QED
      BY <3>2, <3>3, <3>4 DEF CleanupsOK
  <2>3. CASE ~LeaseFree(Opened(j))
    <3>1. reaper' = [reaper EXCEPT ![r].batch = @ \ {j}]
      BY <1>8, <2>3 DEF Claim
    <3>2. reaper'[r].does = "next" /\ \A s \in Reapers \ {r} : reaper'[s] = reaper[s]
      BY <1>0, <2>1, <3>1 DEF Reaper
    <3>3. \A s \in Reapers \ {r} : reaper'[s].does \notin Holding
      BY <1>5, <2>1, <3>2 DEF NoSweep
    <3> QED
      BY <3>2, <3>3 DEF CleanupsOK, Cleaning
  <2> QED
    BY <2>2, <2>3
<1>9. ASSUME NEW r \in Reapers, reaper[r].does \in Holding, Release(r),
             UNCHANGED <<process, sweeper>>
      PROVE  CleanupsOK'
  <2>1. reaper'[r].does = "next" /\ \A s \in Reapers \ {r} : reaper'[s] = reaper[s]
    BY <1>9, ReleaseTypes
  <2>2. \A s \in Reapers \ {r} : reaper'[s].does \notin Holding
    BY <1>5, <1>9, <2>1 DEF NoSweep, Cleaning
  <2> QED
    BY <2>1, <2>2 DEF CleanupsOK, Cleaning
<1>10. ASSUME NEW r \in Reapers, NEW d \in Cleaning, reaper[r].does \in Holding, Becomes(r, d),
              UNCHANGED <<holder, process, sweeper, manifest>>,
              manifest[reaper[r].job] = "expired",
              lease'[reaper[r].job] = IF d = "manifest" THEN NoFile ELSE reaper[r].file
       PROVE  CleanupsOK'
  <2>1. /\ reaper'[r] = [reaper[r] EXCEPT !.does = d]
        /\ \A s \in Reapers \ {r} : reaper'[s] = reaper[s]
    BY <1>10, BecomesTypes
  <2>2. /\ reaper'[r].does = d /\ reaper'[r].file = reaper[r].file
        /\ reaper'[r].job = reaper[r].job
    BY <1>0, <2>1 DEF Reaper
  <2>3. \A s \in Reapers \ {r} : reaper'[s].does \notin Holding
    BY <1>5, <1>10, <2>1 DEF NoSweep, Cleaning
  <2> QED
    BY <1>10, <2>2, <2>3 DEF CleanupsOK
<1>11. ASSUME NEW r \in Reapers,
              RemoveWorktree(r) \/ RemoveBranch(r) \/ EmptyTrash(r) \/ MoveArtifacts(r)
       PROVE  CleanupsOK'
  <2>1. /\ reaper[r].does \in Holding \ {"check", "manifest"}
        /\ UNCHANGED <<manifest, lease, holder, sweeper, process>>
    BY <1>11 DEF RemoveWorktree, RemoveBranch, EmptyTrash, MoveArtifacts, Cleaning
  <2>2. PICK d \in Cleaning \ {"manifest"} : Becomes(r, d)
    BY <1>11 DEF RemoveWorktree, RemoveBranch, EmptyTrash, MoveArtifacts, Cleaning
  <2>3. manifest[reaper[r].job] = "expired" /\ lease[reaper[r].job] = reaper[r].file
    BY <1>0, <2>1 DEF CleanupsOK
  <2> QED
    BY <1>10, <2>1, <2>2, <2>3
<1>12. ASSUME NEW r \in Reapers, UnlinkLease(r)
       PROVE  CleanupsOK'
  <2>1. /\ reaper[r].does = "lease" /\ Becomes(r, "manifest")
        /\ lease' = [lease EXCEPT ![reaper[r].job] = NoFile]
        /\ UNCHANGED <<manifest, holder, sweeper, process>>
    BY <1>12 DEF UnlinkLease
  <2>2. manifest[reaper[r].job] = "expired" /\ reaper[r].job \in Jobs
    BY <1>0, <2>1 DEF CleanupsOK, SweepOK, Cleaning
  <2>3. lease'[reaper[r].job] = NoFile
    BY <1>0, <2>1, <2>2
  <2> QED
    BY <1>10, <2>1, <2>2, <2>3 DEF Cleaning
<1>13. ASSUME NEW r \in Reapers, Check(r)
       PROVE  CleanupsOK'
  <2>1. reaper[r].does = "check" /\ UNCHANGED <<manifest, lease, sweeper, process>>
    BY <1>13 DEF Check
  <2>2. CASE IsExpired(reaper[r].job)
    <3>1. Becomes(r, "worktree") /\ UNCHANGED holder
      BY <1>13, <2>2 DEF Check
    <3>2. lease[reaper[r].job] = reaper[r].file
      BY <1>0, <2>1 DEF CleanupsOK
    <3> QED
      BY <1>10, <2>1, <2>2, <3>1, <3>2 DEF Cleaning, IsExpired
  <2>3. CASE ~IsExpired(reaper[r].job)
    BY <1>9, <1>13, <2>1, <2>3 DEF Check
  <2> QED
    BY <2>2, <2>3
<1>14. ASSUME NEW r \in Reapers, DeleteManifest(r) \/ GiveUp(r)
       PROVE  CleanupsOK'
  <2>1. /\ reaper[r].does \in Holding /\ Release(r) /\ UNCHANGED <<sweeper, process>>
    BY <1>14 DEF DeleteManifest, GiveUp, Cleaning
  <2> QED
    BY <1>9, <2>1
<1>15. CASE UNCHANGED vars
  BY <1>1, <1>15 DEF vars
<1> QED
  BY <1>2, <1>3, <1>4, <1>6, <1>7, <1>8, <1>11, <1>12, <1>13, <1>14, <1>15 DEF Next, Reap

-----------------------------------------------------------------------------
(* What is deleted.                                                        *)

\* A step that leaves at most the cleanup of one worker going.
LEMMA DiskOfOne ==
    ASSUME SweepOK, NEW r \in Reapers, reaper[r] # NoSweep,
           \A s \in Reapers \ {r} : reaper'[s] = reaper[s],
           reaper'[r].does \in {"nothing", "next", "check", "worktree"} \/
               (/\ reaper'[r].job \notin worktree'
                /\ reaper'[r].does # "branch" /\ reaper'[r].job \in recorded' =>
                       reaper'[r].job \notin branch'
                /\ reaper'[r].does \in {"trashed", "lease", "manifest"} =>
                       reaper'[r].job \notin artifacts'
                /\ reaper'[r].does \in {"artifacts", "lease", "manifest"} =>
                       reaper'[r].job \notin trash')
    PROVE  DiskOK'
<1>1. \A s \in Reapers \ {r} : reaper'[s] = NoSweep
  BY OneSweep
<1> QED
  BY <1>1 DEF DiskOK, NoSweep, Cleaning

LEMMA DiskStep ==
    ASSUME TypeOK, SweepOK, LeaseOK, DiskOK, ForgottenLeavesNothing, [Next]_vars
    PROVE  DiskOK' /\ ForgottenLeavesNothing'
<1>0. /\ manifest \in [Jobs -> {"absent", "active", "ended", "expired"}]
      /\ reaper \in [Reapers -> Reaper]
  BY TypeParts DEF ScalarsOK
<1>1. ASSUME UNCHANGED <<reaper, recorded, files>>,
             \A j \in Jobs : manifest'[j] = "absent" => manifest[j] = "absent"
      PROVE  DiskOK' /\ ForgottenLeavesNothing'
  BY <1>1 DEF DiskOK, ForgottenLeavesNothing, files
<1>2. ASSUME NEW j \in Jobs, Create(j) \/ End(j) \/ Expire(j)
      PROVE  DiskOK' /\ ForgottenLeavesNothing'
  <2>1. UNCHANGED <<reaper, files>> /\ recorded' \subseteq recorded
    BY <1>2 DEF Create, End, Expire
  <2>2. \A k \in Jobs : manifest'[k] = "absent" => manifest[k] = "absent"
    BY <1>0, <1>2 DEF Create, End, Expire
  <2>3. DiskOK'
    BY <2>1 DEF DiskOK, files
  <2>4. ForgottenLeavesNothing'
    BY <2>1, <2>2 DEF ForgottenLeavesNothing, files
  <2> QED
    BY <2>3, <2>4
<1>3. ASSUME NEW p \in Processes, TakeLease(p) \/ Exit(p)
      PROVE  DiskOK' /\ ForgottenLeavesNothing'
  BY <1>1, <1>3 DEF TakeLease, Exit
<1>4. ASSUME NEW p \in Processes, NEW j \in Jobs,
             \/ StartProcess(p, j)
             \/ Work(p) /\ j = process[p].job
      PROVE  DiskOK' /\ ForgottenLeavesNothing'
  <2>1. /\ UNCHANGED <<manifest, trash, reaper>>
        /\ worktree' \subseteq worktree \cup {j} /\ branch' \subseteq branch \cup {j}
        /\ artifacts' \subseteq artifacts \cup {j} /\ recorded' \subseteq recorded \cup {j}
    BY <1>4 DEF StartProcess, Work, AddBranch, AddWorktree, Record, WriteArtifacts, files
  <2>2. \A r \in Reapers : reaper[r].does \in Cleaning => j # reaper[r].job
    <3>1. CASE StartProcess(p, j)
      <4>1. manifest[j] = "active"
        BY <3>1 DEF StartProcess
      <4>2. \A r \in Reapers : reaper[r].does \in Cleaning =>
                manifest[reaper[r].job] = "expired"
        BY DEF LeaseOK, CleanupsOK, Holding, Cleaning
      <4> QED
        BY <4>1, <4>2
    <3>2. CASE Work(p) /\ j = process[p].job
      <4>1. process[p].does = "work"
        BY <3>2 DEF Work, AddBranch, AddWorktree, Record, WriteArtifacts
      <4> QED
        BY <3>2, <4>1, Alone
    <3> QED
      BY <1>4, <3>1, <3>2
  <2>3. manifest[j] # "absent"
    <3>1. CASE StartProcess(p, j)
      BY <3>1 DEF StartProcess
    <3>2. CASE Work(p) /\ j = process[p].job
      <4>1. process[p].does = "work"
        BY <3>2 DEF Work, AddBranch, AddWorktree, Record, WriteArtifacts
      <4> QED
        BY <3>2, <4>1 DEF LeaseOK, ProcessesOK
    <3> QED
      BY <1>4, <3>1, <3>2
  <2>4. DiskOK'
    BY <2>1, <2>2 DEF DiskOK, Cleaning
  <2> QED
    BY <2>1, <2>3, <2>4 DEF ForgottenLeavesNothing
<1>5. ASSUME NEW r \in Reapers, Sweep(r)
      PROVE  DiskOK' /\ ForgottenLeavesNothing'
  <2>1. /\ reaper' = [reaper EXCEPT ![r].batch = Batch, ![r].does = "next"]
        /\ UNCHANGED <<manifest, recorded, files>>
    BY <1>5 DEF Sweep
  <2>2. reaper'[r].does = "next" /\ \A s \in Reapers \ {r} : reaper'[s] = reaper[s]
    BY <1>0, <2>1 DEF Reaper
  <2>3. DiskOK'
    <3>1. \A s \in Reapers : reaper'[s].does \in Cleaning => reaper'[s] = reaper[s]
      BY <2>2 DEF Cleaning
    <3>2. UNCHANGED <<recorded, worktree, branch, artifacts, trash>>
      BY <2>1 DEF files
    <3> QED
      BY <3>1, <3>2 DEF DiskOK, Cleaning
  <2>4. ForgottenLeavesNothing'
    BY <2>1 DEF ForgottenLeavesNothing, files
  <2> QED
    BY <2>3, <2>4
<1>6. ASSUME NEW r \in Reapers, EndSweep(r) \/ Crash(r)
      PROVE  DiskOK' /\ ForgottenLeavesNothing'
  <2>1. /\ reaper' = [reaper EXCEPT ![r] = NoSweep]
        /\ UNCHANGED <<manifest, recorded, files>>
    BY <1>6 DEF EndSweep, Crash
  <2>2. reaper'[r].does = "nothing" /\ \A s \in Reapers \ {r} : reaper'[s] = reaper[s]
    BY <1>0, <2>1 DEF NoSweep
  <2> QED
    BY <2>1, <2>2 DEF DiskOK, ForgottenLeavesNothing, Cleaning, files
<1>7. ASSUME NEW r \in Reapers, NEW j \in Jobs, Claim(r, j)
      PROVE  DiskOK' /\ ForgottenLeavesNothing'
  <2>1. reaper[r].does = "next" /\ UNCHANGED <<manifest, recorded, files>>
    BY <1>7 DEF Claim
  <2>2. /\ reaper'[r].does \in {"next", "check"}
        /\ \A s \in Reapers \ {r} : reaper'[s] = reaper[s]
    <3>1. CASE LeaseFree(Opened(j))
      <4>1. reaper' = [reaper EXCEPT ![r] = [batch |-> @.batch \ {j}, job |-> j,
                                             file |-> Opened(j), does |-> "check"]]
        BY <1>7, <3>1 DEF Claim
      <4> QED
        BY <1>0, <4>1
    <3>2. CASE ~LeaseFree(Opened(j))
      <4>1. reaper' = [reaper EXCEPT ![r].batch = @ \ {j}]
        BY <1>7, <3>2 DEF Claim
      <4> QED
        BY <1>0, <2>1, <4>1 DEF Reaper
    <3> QED
      BY <3>1, <3>2
  <2> QED
    BY <2>1, <2>2 DEF DiskOK, ForgottenLeavesNothing, Cleaning, files
<1>8. ASSUME NEW r \in Reapers, reaper[r].does \in Holding, Release(r),
             UNCHANGED <<process, sweeper, recorded, files>>
      PROVE  DiskOK'
  <2>1. reaper'[r].does = "next" /\ \A s \in Reapers \ {r} : reaper'[s] = reaper[s]
    BY <1>8, ReleaseTypes
  <2> QED
    BY <1>8, <2>1 DEF DiskOK, Cleaning, files
<1>9. ASSUME NEW r \in Reapers, NEW d \in Cleaning, reaper[r].does \in Holding, Becomes(r, d),
             UNCHANGED <<holder, process, sweeper>>
      PROVE  /\ reaper[r] # NoSweep
             /\ reaper'[r].does = d /\ reaper'[r].job = reaper[r].job
             /\ \A s \in Reapers \ {r} : reaper'[s] = reaper[s]
  <2>1. /\ reaper'[r] = [reaper[r] EXCEPT !.does = d]
        /\ \A s \in Reapers \ {r} : reaper'[s] = reaper[s]
    BY <1>9, BecomesTypes
  <2> QED
    BY <1>0, <1>9, <2>1 DEF Reaper, NoSweep, Holding, Cleaning
<1>10. ASSUME NEW r \in Reapers, Check(r)
       PROVE  DiskOK' /\ ForgottenLeavesNothing'
  <2>1. reaper[r].does = "check" /\ UNCHANGED <<manifest, recorded, files, sweeper, process>>
    BY <1>10 DEF Check
  <2>2. reaper[r].does \in Holding
    BY <2>1 DEF Holding
  <2>3. DiskOK'
    <3>1. CASE IsExpired(reaper[r].job)
      <4>1. Becomes(r, "worktree") /\ UNCHANGED holder
        BY <1>10, <3>1 DEF Check
      <4>2. /\ reaper[r] # NoSweep /\ reaper'[r].does = "worktree"
            /\ \A s \in Reapers \ {r} : reaper'[s] = reaper[s]
        BY <1>9, <2>1, <2>2, <4>1 DEF Cleaning
      <4> QED
        BY <4>2, DiskOfOne
    <3>2. CASE ~IsExpired(reaper[r].job)
      BY <1>8, <1>10, <2>1, <2>2, <3>2 DEF Check
    <3> QED
      BY <3>1, <3>2
  <2> QED
    BY <2>1, <2>3 DEF ForgottenLeavesNothing, files
<1>11. ASSUME NEW r \in Reapers,
              \/ RemoveWorktree(r) \/ RemoveBranch(r) \/ EmptyTrash(r) \/ MoveArtifacts(r)
              \/ UnlinkLease(r)
       PROVE  DiskOK' /\ ForgottenLeavesNothing'
  <2> DEFINE j == reaper[r].job
  <2>1. /\ reaper[r].does \in Cleaning /\ UNCHANGED <<manifest, recorded, holder, sweeper, process>>
    BY <1>11 DEF RemoveWorktree, RemoveBranch, EmptyTrash, MoveArtifacts, UnlinkLease, Cleaning
  <2>2. reaper[r].does \in Holding /\ j \in Jobs /\ manifest[j] = "expired"
    BY <2>1 DEF Holding, LeaseOK, CleanupsOK, SweepOK, Cleaning
  <2>3. /\ worktree' \subseteq worktree /\ branch' \subseteq branch
        /\ artifacts' \subseteq artifacts /\ trash' \subseteq trash \cup {j}
    BY <1>11 DEF RemoveWorktree, RemoveBranch, EmptyTrash, MoveArtifacts, UnlinkLease, files
  <2>4. ForgottenLeavesNothing'
    BY <2>1, <2>2, <2>3 DEF ForgottenLeavesNothing
  <2>5. DiskOK'
    <3>1. CASE RemoveWorktree(r)
      <4>1. /\ Becomes(r, IF j \in recorded THEN "branch" ELSE "trash")
            /\ worktree' = worktree \ {j}
        BY <3>1 DEF RemoveWorktree
      <4>2. CASE j \in recorded
        BY <1>9, <2>1, <2>2, <4>1, <4>2, DiskOfOne DEF Cleaning
      <4>3. CASE j \notin recorded
        BY <1>9, <2>1, <2>2, <4>1, <4>3, DiskOfOne DEF Cleaning
      <4> QED
        BY <4>2, <4>3
    <3>2. CASE RemoveBranch(r)
      <4>1. /\ Becomes(r, "trash") /\ branch' = branch \ {j} /\ reaper[r].does = "branch"
            /\ worktree' = worktree
        BY <3>2 DEF RemoveBranch
      <4>2. j \notin worktree
        BY <4>1 DEF DiskOK, Cleaning
      <4> QED
        BY <1>9, <2>1, <2>2, <4>1, <4>2, DiskOfOne DEF Cleaning
    <3>3. CASE EmptyTrash(r) /\ reaper[r].does = "trash"
      <4>1. /\ Becomes(r, "artifacts") /\ trash' = trash \ {j}
            /\ worktree' = worktree /\ branch' = branch
        BY <3>3 DEF EmptyTrash
      <4>2. j \notin worktree /\ (j \in recorded => j \notin branch)
        BY <3>3 DEF DiskOK, Cleaning
      <4> QED
        BY <1>9, <2>1, <2>2, <4>1, <4>2, DiskOfOne DEF Cleaning
    <3>4. CASE MoveArtifacts(r)
      <4>1. /\ Becomes(r, "trashed") /\ artifacts' = artifacts \ {j}
            /\ worktree' = worktree /\ branch' = branch /\ reaper[r].does = "artifacts"
        BY <3>4 DEF MoveArtifacts
      <4>2. j \notin worktree /\ (j \in recorded => j \notin branch)
        BY <4>1 DEF DiskOK, Cleaning
      <4> QED
        BY <1>9, <2>1, <2>2, <4>1, <4>2, DiskOfOne DEF Cleaning
    <3>5. CASE EmptyTrash(r) /\ reaper[r].does = "trashed"
      <4>1. /\ Becomes(r, "lease") /\ trash' = trash \ {j}
            /\ worktree' = worktree /\ branch' = branch /\ artifacts' = artifacts
        BY <3>5 DEF EmptyTrash
      <4>2. j \notin worktree /\ (j \in recorded => j \notin branch) /\ j \notin artifacts
        BY <3>5 DEF DiskOK, Cleaning
      <4> QED
        BY <1>9, <2>1, <2>2, <4>1, <4>2, DiskOfOne DEF Cleaning
    <3>6. CASE UnlinkLease(r)
      <4>1. /\ Becomes(r, "manifest") /\ UNCHANGED files /\ reaper[r].does = "lease"
        BY <3>6 DEF UnlinkLease
      <4>2. j \notin worktree /\ (j \in recorded => j \notin branch) /\ j \notin artifacts /\ j \notin trash
        BY <4>1 DEF DiskOK, Cleaning
      <4> QED
        BY <1>9, <2>1, <2>2, <4>1, <4>2, DiskOfOne DEF Cleaning, files
    <3> QED
      BY <1>11, <3>1, <3>2, <3>3, <3>4, <3>5, <3>6 DEF EmptyTrash
  <2> QED
    BY <2>4, <2>5
<1>12. ASSUME NEW r \in Reapers, DeleteManifest(r)
       PROVE  DiskOK' /\ ForgottenLeavesNothing'
  <2> DEFINE j == reaper[r].job
  <2>1. /\ reaper[r].does = "manifest" /\ Release(r) /\ UNCHANGED <<recorded, files, sweeper, process>>
        /\ \A k \in Jobs : k # j => manifest'[k] = manifest[k]
    BY <1>0, <1>12 DEF DeleteManifest
  <2>2. DiskOK'
    BY <1>8, <2>1 DEF Holding, Cleaning
  <2>3. j \notin worktree /\ (j \in recorded => j \notin branch) /\ j \notin artifacts /\ j \notin trash
    BY <2>1 DEF DiskOK, Cleaning
  <2> QED
    BY <2>1, <2>2, <2>3 DEF ForgottenLeavesNothing, files
<1>13. ASSUME NEW r \in Reapers, GiveUp(r)
       PROVE  DiskOK' /\ ForgottenLeavesNothing'
  <2>1. /\ reaper[r].does \in Holding /\ Release(r)
        /\ UNCHANGED <<manifest, recorded, files, sweeper, process>>
    BY <1>13 DEF GiveUp, Holding
  <2> QED
    BY <1>8, <2>1 DEF ForgottenLeavesNothing, files
<1>14. CASE UNCHANGED vars
  BY <1>1, <1>14 DEF vars
<1>15. ASSUME NEW p \in Processes, Work(p)
       PROVE  DiskOK' /\ ForgottenLeavesNothing'
  <2>1. process[p].does = "work"
    BY <1>15 DEF Work, AddBranch, AddWorktree, Record, WriteArtifacts
  <2>2. process[p].job \in Jobs
    BY <2>1 DEF LeaseOK, ProcessesOK
  <2> QED
    BY <1>4, <1>15, <2>2
<1> QED
  BY <1>2, <1>3, <1>4, <1>5, <1>6, <1>7, <1>10, <1>11, <1>12, <1>13, <1>14,
     <1>15 DEF Next, Reap

-----------------------------------------------------------------------------
(* Theorems.                                                               *)

LEMMA InitInv == Init => IInv
<1> SUFFICES ASSUME Init PROVE IInv
  OBVIOUS
<1> USE DEF Init
<1>1. ScalarsOK
  BY BoundsAssumption DEF ScalarsOK
<1>2. /\ holder \in [Files -> Owners \cup {Nobody}]
      /\ process \in [Processes -> Process] /\ reaper \in [Reapers -> Reaper]
  BY DEF Process, Reaper, NoProcess, NoSweep
<1>3. /\ \A p \in Processes : process[p].does = "nothing"
      /\ \A r \in Reapers : reaper[r] = NoSweep /\ reaper[r].does = "nothing"
  BY DEF NoProcess, NoSweep
<1>4. TypeOK
  BY <1>1, <1>2, <1>3, TypeParts DEF LocksOK, SweepersOK, Holding, Cleaning
<1>5. SweepOK /\ LeaseOK
  BY <1>3 DEF SweepOK, LeaseOK, ProcessesOK, CleanupsOK, Holding, Cleaning
<1>6. DiskOK /\ ForgottenLeavesNothing
  BY <1>3 DEF DiskOK, ForgottenLeavesNothing, Cleaning
<1> QED
  BY <1>4, <1>5, <1>6 DEF IInv

\* Every state any execution of workers and processes reaches satisfies IInv: lease files,
\* their holders, manifests and what is left on disk agree.
THEOREM RetentionInvariant == Spec => []IInv
<1>1. IInv /\ [Next]_vars => IInv'
  BY TypeStep, ProcessesStep, CleanupsStep, DiskStep DEF IInv, LeaseOK
<1> QED
  BY InitInv, <1>1, PTL DEF Spec

\* Types, and whoever works or cleans up under a lease holds its lock (job_lease and
\* _retention_lease of worker/retention.py).
THEOREM RetentionTypeCorrect == Spec => []TypeOK
<1>1. IInv => TypeOK
  BY DEF IInv
<1> QED
  BY RetentionInvariant, <1>1, PTL

\* No process works on a job that a sweep cleans up (prune_once against the detached
\* processes), although the sweep unlinks the lease file under the lock.
THEOREM NoCleanupUnderProcess == Spec => []NotUnderProcess
<1>1. IInv => NotUnderProcess
  BY Alone DEF IInv, NotUnderProcess
<1> QED
  BY RetentionInvariant, <1>1, PTL

\* Whenever a manifest is gone, so is everything else of its job but a branch it never named:
\* the manifest goes last (delete_if_expired_terminal), and nobody writes for the job
\* afterwards.  A branch is named only after `git worktree add -b` (CodexRunner.run), so
\* that of a process which came to an end in between stays (_cleanup_worktree returns).
THEOREM NothingIsLeft == Spec => []ForgottenLeavesNothing
<1>1. IInv => ForgottenLeavesNothing
  BY DEF IInv
<1> QED
  BY RetentionInvariant, <1>1, PTL

\* A sweep deletes only what belongs to a job that has been over for retention_days, at
\* every one of its steps (is_expired_terminal, checked again under the lease).
THEOREM OnlyTheOldIsDeleted == Spec => OnlyExpiredIsDeleted
<1> DEFINE Deleted(j) ==
               \/ j \in worktree /\ j \notin worktree'
               \/ j \in branch /\ j \notin branch'
               \/ j \in artifacts /\ j \notin artifacts'
               \/ manifest[j] # "absent" /\ manifest'[j] = "absent"
           Step == \A j \in Jobs : Deleted(j) => manifest[j] = "expired"
<1>1. ASSUME IInv, Next
      PROVE  Step
  <2> SUFFICES ASSUME NEW j \in Jobs, Deleted(j)
               PROVE  manifest[j] = "expired"
    OBVIOUS
  <2>0. manifest \in [Jobs -> {"absent", "active", "ended", "expired"}]
    BY <1>1, TypeParts DEF IInv, ScalarsOK
  <2>1. PICK r \in Reapers : /\ reaper[r].does \in Cleaning
                             /\ j = reaper[r].job
    <3>1. ASSUME NEW k \in Jobs, Create(k) \/ End(k) \/ Expire(k)
          PROVE  FALSE
      BY <2>0, <3>1 DEF Create, End, Expire, files
    <3>2. ASSUME NEW p \in Processes,
                 TakeLease(p) \/ Work(p) \/ Exit(p) \/ \E k \in Jobs : StartProcess(p, k)
          PROVE  FALSE
      BY <3>2 DEF TakeLease, Work, AddBranch, AddWorktree, Record, WriteArtifacts, Exit, StartProcess, files
    <3>3. ASSUME NEW r \in Reapers,
                 \/ Sweep(r) \/ EndSweep(r) \/ Check(r) \/ UnlinkLease(r) \/ GiveUp(r)
                 \/ Crash(r) \/ \E k \in Jobs : Claim(r, k)
          PROVE  FALSE
      BY <3>3 DEF Sweep, EndSweep, Check, UnlinkLease, GiveUp, Crash, Claim, files
    <3>4. ASSUME NEW r \in Reapers, RemoveWorktree(r) \/ RemoveBranch(r) \/ EmptyTrash(r)
                                    \/ MoveArtifacts(r)
          PROVE  reaper[r].does \in Cleaning /\ j = reaper[r].job
      BY <3>4 DEF RemoveWorktree, RemoveBranch, EmptyTrash, MoveArtifacts, Cleaning
    <3>5. ASSUME NEW r \in Reapers, DeleteManifest(r)
          PROVE  reaper[r].does \in Cleaning /\ j = reaper[r].job
      BY <2>0, <3>5 DEF DeleteManifest, Cleaning, files
    <3> QED
      BY <1>1, <3>1, <3>2, <3>3, <3>4, <3>5 DEF Next, Reap
  <2> QED
    BY <1>1, <2>1 DEF IInv, LeaseOK, CleanupsOK, Holding, Cleaning
<1>2. ASSUME UNCHANGED vars
      PROVE  Step
  BY <1>2 DEF vars, files
<1>3. IInv /\ [Next]_vars => [Step]_vars
  BY <1>1
<1> QED
  BY RetentionInvariant, <1>3, PTL DEF Spec, OnlyExpiredIsDeleted
=============================================================================
