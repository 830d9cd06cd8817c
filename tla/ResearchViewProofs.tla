--------------------------- MODULE ResearchViewProofs ---------------------------
(***************************************************************************)
(* The research view is safe for any repositories, builders and bounds:   *)
(* readers see whole views that never go back in time, a build that is cut *)
(* short never costs the view, and OpenCode starts on nothing older than   *)
(* its start.                                                              *)
(***************************************************************************)
EXTENDS ResearchView, TLAPS

\* The builder has written its view and not yet moved it in.
Building == {"clear", "clearing", "out", "in"}

Published == \E r \in Repos : last[r] # 0

\* Which directories are whole at which point of a build.  Without kills a build
\* always ends in a way that puts the backup back; without failures there is no
\* way to put one back that was being deleted.
WholeOK ==
    /\ \A b \in Builders : pc[b] \in Building => staging[b].is = "whole"
    /\ \A b \in Builders : pc[b] = "out" => backup.is = "absent"
    /\ \A b \in Builders : pc[b] \in {"drop", "dropping"} => target.is = "whole"
    /\ used.failures = 0 => \A b \in Builders : pc[b] # "undo"
    /\ used.kills = 0 /\ backup.is = "partial" => target.is # "absent"
    /\ used.kills = 0 /\ backup.is # "absent" /\ target.is = "absent"
       => \E b \in Builders : pc[b] \in {"in", "undo"}
    /\ PublishedIsWhole

\* How the commits of the views, of the HEADs and of the last start compare.
OrderOK ==
    /\ \A r \in Repos : last[r] <= head[r] /\ since[r] <= head[r]
    /\ \A b \in Builders : pc[b] \in {"export"} \cup Building => \A r \in Repos :
        \/ staging[b].commits[r] = 0
        \/ last[r] <= staging[b].commits[r] /\ staging[b].commits[r] <= head[r]
    /\ target.is # "absent" => \A r \in Repos : target.commits[r] \in {0, last[r]}
    /\ target.is = "absent" /\ backup.is # "absent"
       => \A r \in Repos : backup.commits[r] \in {0, last[r]}

\* A service that starts is one that builds, or is about to start OpenCode.
ServiceOK ==
    /\ service = "starting" <=> pc[Service] # "idle"
    /\ \A b \in Builders \ {Service} : pc[b] # "exit"

\* What the build of a starting service lists, reads and publishes is not older than the
\* start, and without kills a view is there afterwards or about to be.
StartOK ==
    /\ pc[Service] \in {"lock", "export"} => \A r \in Repos :
        since[r] # 0 => r \in todo[Service] \/
            (pc[Service] = "export" /\ since[r] <= staging[Service].commits[r])
    /\ pc[Service] \in Building => \A r \in Repos :
        since[r] <= staging[Service].commits[r]
    /\ pc[Service] \in {"drop", "dropping"} => \A r \in Repos :
        since[r] <= target.commits[r]
    /\ pc[Service] = "exit" => \A r \in Repos : since[r] <= last[r]
    /\ pc[Service] = "exit" /\ used.kills = 0 =>
        \/ target.is # "absent"
        \/ backup.is # "absent" /\ \E b \in Builders : pc[b] \in {"in", "undo"}

\* Where a whole view is after no disturbance, and after one.
SurvivesOK ==
    /\ Published /\ used.kills + used.failures = 0
       => \/ target.is = "whole"
          \/ backup.is = "whole" /\ \E b \in Builders : pc[b] = "in"
    /\ Published /\ used.kills + used.failures <= 1
       => \/ target.is = "whole" \/ backup.is = "whole"
          \/ \E b \in Builders : pc[b] \in Building

IInv == TypeOK /\ ServiceOK /\ WholeOK /\ OrderOK /\ StartOK /\ SurvivesOK

-----------------------------------------------------------------------------
\* A bound that is spent stays a count.
LEMMA SpendType ==
    ASSUME TypeOK, NEW what \in {"builds", "kills", "failures"}, NEW max \in Nat,
           Spend(what, max)
    PROVE  /\ used' \in [builds: Nat, kills: Nat, failures: Nat]
           /\ used'[what] = used[what] + 1
           /\ \A w \in {"builds", "kills", "failures"} \ {what} : used'[w] = used[w]
BY DEF TypeOK, Spend

LEMMA TypeInit == Init => TypeOK /\ ServiceOK
BY BuildersAssumption DEF Init, TypeOK, ServiceOK, Labels, View, Commits, Absent

\* TypeOK and ServiceOK need each other: a service that is down has no build.
LEMMA TypeStep == TypeOK /\ ServiceOK /\ [Next]_vars => TypeOK' /\ ServiceOK'
<1> SUFFICES ASSUME TypeOK, ServiceOK, [Next]_vars PROVE TypeOK' /\ ServiceOK'
  OBVIOUS
<1>0. TypeOK
  OBVIOUS
<1> USE BuildersAssumption DEF TypeOK, ServiceOK, Labels, View, Commits, Absent, disk, Goto
<1>1. CASE StartService
  BY <1>1 DEF StartService
<1>2. CASE StopService
  <2>1. used' \in [builds: Nat, kills: Nat, failures: Nat]
    BY <1>0, <1>2, SpendType, BoundsAssumption DEF StopService
  <2>2. QED BY <1>2, <2>1 DEF StopService
<1>3. ASSUME NEW r \in Repos, Commit(r) PROVE TypeOK' /\ ServiceOK'
  BY <1>3 DEF Commit
<1>4. ASSUME NEW b \in Builders, BuildByHand(b) PROVE TypeOK' /\ ServiceOK'
  <2>1. used' \in [builds: Nat, kills: Nat, failures: Nat]
    BY <1>0, <1>4, SpendType, BoundsAssumption DEF BuildByHand
  <2>2. QED BY <1>4, <2>1 DEF BuildByHand
<1>5. ASSUME NEW b \in Builders, Acquire(b) PROVE TypeOK' /\ ServiceOK'
  BY <1>5 DEF Acquire, MayLock
<1>6. ASSUME NEW b \in Builders, NEW r \in Repos, Export(b, r)
      PROVE  TypeOK' /\ ServiceOK'
  BY <1>6 DEF Export
<1>7. ASSUME NEW b \in Builders, WriteManifest(b) PROVE TypeOK' /\ ServiceOK'
  BY <1>7 DEF WriteManifest
<1>8. ASSUME NEW b \in Builders, Clear(b) PROVE TypeOK' /\ ServiceOK'
  <2>1. PICK label \in {"clearing", "out"} :
          /\ pc' = [pc EXCEPT ![b] = label] /\ pc[b] = "clear"
          /\ UNCHANGED <<head, target, staging, lock, todo, service, since, last, used>>
    BY <1>8 DEF Clear
  <2>2. backup' \in View
    BY <1>8 DEF Clear, HasLeftover, Gutted, Exists
  <2>3. QED BY <2>1, <2>2
<1>9. ASSUME NEW b \in Builders, Cleared(b) PROVE TypeOK' /\ ServiceOK'
  BY <1>9 DEF Cleared
<1>10. ASSUME NEW b \in Builders, MoveOut(b) PROVE TypeOK' /\ ServiceOK'
  BY <1>10 DEF MoveOut, Aside, Movable, Exists
<1>11. ASSUME NEW b \in Builders, MoveIn(b) PROVE TypeOK' /\ ServiceOK'
  BY <1>11 DEF MoveIn
<1>12. ASSUME NEW b \in Builders, Drop(b) PROVE TypeOK' /\ ServiceOK'
  <2>1. CASE Exists(backup)
    <3>1. backup' \in View
      BY <1>12, <2>1 DEF Drop, Gutted
    <3>2. /\ pc' = [pc EXCEPT ![b] = "dropping"] /\ pc[b] = "drop"
          /\ UNCHANGED <<head, target, staging, lock, todo, service, since, last, used>>
      BY <1>12, <2>1 DEF Drop
    <3>3. QED BY <3>1, <3>2
  <2>2. CASE ~Exists(backup)
    <3>1. /\ pc' = [pc EXCEPT ![b] = IF b = Service THEN "exit" ELSE "idle"]
          /\ pc[b] = "drop" /\ lock' = Nobody
          /\ UNCHANGED <<head, target, backup, staging, todo, service, since, last, used>>
      BY <1>12, <2>2 DEF Drop, Leave, Exists
    <3>2. QED BY <3>1
  <2>3. QED BY <2>1, <2>2
<1>13. ASSUME NEW b \in Builders, Dropped(b) PROVE TypeOK' /\ ServiceOK'
  BY <1>13 DEF Dropped, Leave
<1>14. ASSUME NEW b \in Builders, Raise(b) PROVE TypeOK' /\ ServiceOK'
  <2>1. used' \in [builds: Nat, kills: Nat, failures: Nat]
    BY <1>0, <1>14, SpendType, BoundsAssumption DEF Raise
  <2>2. QED BY <1>14, <2>1 DEF Raise
<1>15. ASSUME NEW b \in Builders, Undo(b) PROVE TypeOK' /\ ServiceOK'
  <2>1. /\ pc' = [pc EXCEPT ![b] = "idle"] /\ pc[b] = "undo" /\ lock' = Nobody
        /\ staging' = [staging EXCEPT ![b] = Absent]
        /\ todo' = [todo EXCEPT ![b] = {}]
        /\ service' = IF b = Service THEN "down" ELSE service
        /\ UNCHANGED <<head, since, last, used>>
    BY <1>15 DEF Undo, Leave
  <2>2. target' \in View /\ backup' \in View
    BY <1>15 DEF Undo, Restorable
  <2>3. Absent \in View
    OBVIOUS
  <2>4. staging' \in [Builders -> View]
    <3> HIDE DEF View, Absent
    <3> QED BY <2>1, <2>3
  <2>5. todo' \in [Builders -> SUBSET Repos]
    BY <2>1
  <2>6. QED BY <2>1, <2>2, <2>4, <2>5
<1>16. ASSUME NEW b \in Builders, Kill(b) PROVE TypeOK' /\ ServiceOK'
  <2>1. used' \in [builds: Nat, kills: Nat, failures: Nat]
    BY <1>0, <1>16, SpendType, BoundsAssumption DEF Kill
  <2>2. QED BY <1>16, <2>1 DEF Kill
<1>18. CASE ExecStart
  BY <1>18 DEF ExecStart
<1>19. ASSUME NEW b \in Builders, List(b) PROVE TypeOK' /\ ServiceOK'
  BY <1>19 DEF List
<1>20. ASSUME NEW b \in Builders, RaiseEarly(b) PROVE TypeOK' /\ ServiceOK'
  <2>1. used' \in [builds: Nat, kills: Nat, failures: Nat]
    BY <1>0, <1>20, SpendType, BoundsAssumption DEF RaiseEarly
  <2>2. QED BY <1>20, <2>1 DEF RaiseEarly
<1>17. CASE UNCHANGED vars
  BY <1>17 DEF vars
<1>21. QED
  BY <1>1, <1>2, <1>3, <1>4, <1>5, <1>6, <1>7, <1>8, <1>9, <1>10, <1>11, <1>12,
     <1>13, <1>14, <1>15, <1>16, <1>17, <1>18,
     <1>19, <1>20 DEF Next, Step

\* No step puts a half view in place.
LEMMA WholeStep == TypeOK /\ ServiceOK /\ WholeOK /\ [Next]_vars => WholeOK'
<1> SUFFICES ASSUME TypeOK, ServiceOK, WholeOK, [Next]_vars PROVE WholeOK'
  OBVIOUS
<1> USE BuildersAssumption, BoundsAssumption DEF TypeOK, Labels, View, Commits, Absent, disk, Goto, ServiceOK,
           WholeOK, PublishedIsWhole, Building
<1>1. CASE StartService
  BY <1>1 DEF StartService
<1>2. CASE StopService
  BY <1>2 DEF StopService, Spend
<1>3. ASSUME NEW r \in Repos, Commit(r) PROVE WholeOK'
  BY <1>3 DEF Commit
<1>4. ASSUME NEW b \in Builders, BuildByHand(b) PROVE WholeOK'
  BY <1>4 DEF BuildByHand, Spend
<1>5. ASSUME NEW b \in Builders, Acquire(b) PROVE WholeOK'
  BY <1>5 DEF Acquire, MayLock
<1>6. ASSUME NEW b \in Builders, NEW r \in Repos, Export(b, r) PROVE WholeOK'
  BY <1>6 DEF Export
<1>7. ASSUME NEW b \in Builders, WriteManifest(b) PROVE WholeOK'
  BY <1>7 DEF WriteManifest
<1>8. ASSUME NEW b \in Builders, Clear(b) PROVE WholeOK'
  <2>1. CASE Exists(backup)
    <3>1. /\ pc[b] = "clear" /\ pc' = [pc EXCEPT ![b] = "clearing"]
          /\ backup' = [backup EXCEPT !.is = "partial"]
          /\ UNCHANGED <<target, staging, used>>
      BY <1>8, <2>1 DEF Clear, HasLeftover, Gutted, Exists
    <3>2. backup.is # "absent"
      BY <2>1 DEF Exists
    <3>3. QED BY <3>1, <3>2
  <2>2. CASE ~Exists(backup)
    BY <1>8, <2>2 DEF Clear, HasLeftover, Exists
  <2>3. QED BY <2>1, <2>2
<1>9. ASSUME NEW b \in Builders, Cleared(b) PROVE WholeOK'
  BY <1>9 DEF Cleared
<1>10. ASSUME NEW b \in Builders, MoveOut(b) PROVE WholeOK'
  BY <1>10 DEF MoveOut, Aside, Movable, Exists
<1>11. ASSUME NEW b \in Builders, MoveIn(b) PROVE WholeOK'
  BY <1>11 DEF MoveIn
<1>12. ASSUME NEW b \in Builders, Drop(b) PROVE WholeOK'
  BY <1>12 DEF Drop, Gutted, Exists, Leave
<1>13. ASSUME NEW b \in Builders, Dropped(b) PROVE WholeOK'
  BY <1>13 DEF Dropped, Leave
<1>14. ASSUME NEW b \in Builders, Raise(b) PROVE WholeOK'
  BY <1>14 DEF Raise, Movable, Exists, Spend
<1>15. ASSUME NEW b \in Builders, Undo(b) PROVE WholeOK'
  BY <1>15 DEF Undo, Restorable, Exists, Leave
<1>16. ASSUME NEW b \in Builders, Kill(b) PROVE WholeOK'
  BY <1>16 DEF Kill, Spend
<1>18. CASE ExecStart
  BY <1>18 DEF ExecStart
<1>19. ASSUME NEW b \in Builders, List(b) PROVE WholeOK'
  BY <1>19 DEF List
<1>20. ASSUME NEW b \in Builders, RaiseEarly(b) PROVE WholeOK'
  BY <1>20 DEF RaiseEarly, Spend
<1>17. CASE UNCHANGED vars
  BY <1>17 DEF vars
<1>21. QED
  BY <1>1, <1>2, <1>3, <1>4, <1>5, <1>6, <1>7, <1>8,
     <1>9, <1>10, <1>11, <1>12, <1>13, <1>14, <1>15, <1>16, <1>17, <1>18,
     <1>19, <1>20 DEF Next, Step

\* No step makes a view older than the last one.
LEMMA OrderStep == TypeOK /\ WholeOK /\ OrderOK /\ [Next]_vars => OrderOK'
<1> SUFFICES ASSUME TypeOK, WholeOK, OrderOK, [Next]_vars PROVE OrderOK'
  OBVIOUS
<1> USE BuildersAssumption, BoundsAssumption DEF TypeOK, Labels, View, Commits, Absent, disk, Goto,
           WholeOK, OrderOK, Building
<1>1. CASE StartService
  BY <1>1 DEF StartService
<1>2. CASE StopService
  BY <1>2 DEF StopService, Spend
<1>3. ASSUME NEW r \in Repos, Commit(r) PROVE OrderOK'
  BY <1>3 DEF Commit
<1>4. ASSUME NEW b \in Builders, BuildByHand(b) PROVE OrderOK'
  BY <1>4 DEF BuildByHand, Spend
<1>5. ASSUME NEW b \in Builders, Acquire(b) PROVE OrderOK'
  BY <1>5 DEF Acquire, MayLock
<1>6. ASSUME NEW b \in Builders, NEW r \in Repos, Export(b, r) PROVE OrderOK'
  BY <1>6 DEF Export
<1>7. ASSUME NEW b \in Builders, WriteManifest(b) PROVE OrderOK'
  BY <1>7 DEF WriteManifest
<1>8. ASSUME NEW b \in Builders, Clear(b) PROVE OrderOK'
  BY <1>8 DEF Clear, HasLeftover, Gutted, Exists
<1>9. ASSUME NEW b \in Builders, Cleared(b) PROVE OrderOK'
  BY <1>9 DEF Cleared
<1>10. ASSUME NEW b \in Builders, MoveOut(b) PROVE OrderOK'
  BY <1>10 DEF MoveOut, Aside, Movable, Exists
<1>11. ASSUME NEW b \in Builders, MoveIn(b) PROVE OrderOK'
  <2>1. /\ pc[b] = "in" /\ pc' = [pc EXCEPT ![b] = "drop"] /\ UNCHANGED <<head, since>>
        /\ target' = staging[b]
        /\ last' = [r \in Repos |-> IF staging[b].commits[r] = 0 THEN last[r]
                                    ELSE staging[b].commits[r]]
    BY <1>11 DEF MoveIn
  <2>2. \A c \in Builders : pc'[c] \notin {"export"} \cup Building
    BY <2>1
  <2>3. /\ staging[b].commits \in Commits
        /\ \A r \in Repos : \/ staging[b].commits[r] = 0
                             \/ staging[b].commits[r] <= head[r]
    BY <2>1
  <2>4. \A r \in Repos : last'[r] <= head'[r] /\ since'[r] <= head'[r]
    BY <2>1, <2>3
  <2>5. /\ target'.is # "absent"
        /\ \A r \in Repos : target'.commits[r] \in {0, last'[r]}
    <3>1. staging[b].is = "whole"
      BY <2>1
    <3>2. QED
      BY <2>1, <2>3, <3>1
  <2>6. QED
    BY <2>2, <2>4, <2>5
<1>12. ASSUME NEW b \in Builders, Drop(b) PROVE OrderOK'
  <2>1. target.is = "whole"
    BY <1>12 DEF Drop
  <2>2. \E label \in {"idle", "exit", "dropping"} : pc' = [pc EXCEPT ![b] = label]
    BY <1>12 DEF Drop, Leave, Exists
  <2>3. QED BY <1>12, <2>1, <2>2 DEF Drop
<1>13. ASSUME NEW b \in Builders, Dropped(b) PROVE OrderOK'
  BY <1>13 DEF Dropped, Leave
<1>14. ASSUME NEW b \in Builders, Raise(b) PROVE OrderOK'
  BY <1>14 DEF Raise, Movable, Exists, Spend
<1>15. ASSUME NEW b \in Builders, Undo(b) PROVE OrderOK'
  BY <1>15 DEF Undo, Restorable, Exists, Leave
<1>16. ASSUME NEW b \in Builders, Kill(b) PROVE OrderOK'
  BY <1>16 DEF Kill, Spend
<1>18. CASE ExecStart
  BY <1>18 DEF ExecStart
<1>19. ASSUME NEW b \in Builders, List(b) PROVE OrderOK'
  BY <1>19 DEF List
<1>20. ASSUME NEW b \in Builders, RaiseEarly(b) PROVE OrderOK'
  BY <1>20 DEF RaiseEarly, Spend
<1>17. CASE UNCHANGED vars
  BY <1>17 DEF vars
<1>21. QED
  BY <1>1, <1>2, <1>3, <1>4, <1>5, <1>6, <1>7, <1>8,
     <1>9, <1>10, <1>11, <1>12, <1>13, <1>14, <1>15, <1>16, <1>17, <1>18,
     <1>19, <1>20 DEF Next, Step

\* No step takes the newest commits from a service that starts.
LEMMA StartStep ==
    TypeOK /\ ServiceOK /\ WholeOK /\ OrderOK /\ StartOK /\ [Next]_vars => StartOK'
<1> SUFFICES ASSUME TypeOK, ServiceOK, WholeOK, OrderOK, StartOK, [Next]_vars PROVE StartOK'
  OBVIOUS
<1>0. \A b \in Builders : pc[b] \in {"drop", "dropping"} => target.is = "whole"
  BY DEF WholeOK
<1> USE BuildersAssumption, BoundsAssumption DEF TypeOK, Labels, View, Commits, Absent, disk, Goto, ServiceOK,
           OrderOK, StartOK, Building
<1>1. CASE StartService
  <2>1. pc'[Service] = "list"
    BY <1>1 DEF StartService
  <2>2. QED BY <2>1
<1>2. CASE StopService
  BY <1>2 DEF StopService, Spend
<1>3. ASSUME NEW r \in Repos, Commit(r) PROVE StartOK'
  BY <1>3 DEF Commit
<1>4. ASSUME NEW b \in Builders, BuildByHand(b) PROVE StartOK'
  BY <1>4 DEF BuildByHand, Spend
<1>5. ASSUME NEW b \in Builders, Acquire(b) PROVE StartOK'
  BY <1>5 DEF Acquire, MayLock
<1>6. ASSUME NEW b \in Builders, NEW r \in Repos, Export(b, r) PROVE StartOK'
  BY <1>6 DEF Export
<1>7. ASSUME NEW b \in Builders, WriteManifest(b) PROVE StartOK'
  <2>1. /\ pc' = [pc EXCEPT ![b] = "clear"] /\ pc[b] = "export" /\ todo[b] = {}
        /\ staging' = [staging EXCEPT ![b].is = "whole"]
        /\ UNCHANGED <<head, target, backup, todo, since, last, used>>
    BY <1>7 DEF WriteManifest
  <2>2. CASE b = Service
    <3>1. \A r \in Repos : since[r] <= staging[Service].commits[r]
      <4> TAKE r \in Repos
      <4>1. since[r] \in Nat /\ staging[Service].commits[r] \in Nat
        OBVIOUS
      <4>2. since[r] # 0 => since[r] <= staging[Service].commits[r]
        BY <2>1, <2>2
      <4>3. QED BY <4>1, <4>2
    <3>2. staging'[Service].commits = staging[Service].commits
      BY <2>1, <2>2
    <3>3. pc'[Service] = "clear"
      BY <2>1, <2>2
    <3>4. QED BY <2>1, <3>1, <3>2, <3>3
  <2>3. CASE b # Service
    <3>1. pc'[Service] = pc[Service] /\ staging'[Service] = staging[Service]
      BY <2>1, <2>3
    <3>2. \A c \in Builders : pc[c] \in {"in", "undo"} => pc'[c] = pc[c]
      BY <2>1
    <3>3. QED BY <2>1, <3>1, <3>2
  <2>4. QED BY <2>2, <2>3
<1>8. ASSUME NEW b \in Builders, Clear(b) PROVE StartOK'
  BY <1>8 DEF Clear, HasLeftover, Gutted, Exists
<1>9. ASSUME NEW b \in Builders, Cleared(b) PROVE StartOK'
  BY <1>9 DEF Cleared
<1>10. ASSUME NEW b \in Builders, MoveOut(b) PROVE StartOK'
  BY <1>10 DEF MoveOut, Aside, Movable, Exists
<1>11. ASSUME NEW b \in Builders, MoveIn(b) PROVE StartOK'
  <2>1. /\ pc' = [pc EXCEPT ![b] = "drop"] /\ pc[b] = "in" /\ target' = staging[b]
        /\ staging' = [staging EXCEPT ![b] = Absent]
        /\ last' = [r \in Repos |-> IF staging[b].commits[r] = 0 THEN last[r]
                                   ELSE staging[b].commits[r]]
        /\ UNCHANGED <<head, backup, todo, since, used>>
    BY <1>11 DEF MoveIn
  <2>2. staging[b].is = "whole"
    BY <2>1 DEF WholeOK
  <2>3. \A r \in Repos : last[r] <= last'[r]
    <3> TAKE r \in Repos
    <3>1. last[r] \in Nat /\ (staging[b].commits[r] = 0 \/ last[r] <= staging[b].commits[r])
      BY <2>1
    <3>2. QED BY <2>1, <3>1
  <2>4. CASE b = Service
    <3>1. \A r \in Repos : since[r] <= target'.commits[r]
      <4>1. \A r \in Repos : since[r] <= staging[Service].commits[r]
        <5>1. pc[Service] = "in"
          BY <2>1, <2>4
        <5>2. QED BY <5>1
      <4>2. target' = staging[Service]
        BY <2>1, <2>4
      <4>3. QED BY <4>1, <4>2
    <3>2. pc'[Service] = "drop"
      BY <2>1, <2>4
    <3>3. QED BY <2>1, <3>1, <3>2
  <2>5. CASE b # Service
    <3>1. pc'[Service] = pc[Service] /\ staging'[Service] = staging[Service]
      BY <2>1, <2>5
    <3>2. pc[Service] \in {"idle", "list", "lock", "exit"}
      BY <2>1, <2>5
    <3>3. pc[Service] = "exit" => \A r \in Repos : since[r] <= last'[r]
      <4> SUFFICES ASSUME pc[Service] = "exit", NEW r \in Repos PROVE since[r] <= last'[r]
        OBVIOUS
      <4>1. since[r] <= last[r] /\ last[r] <= last'[r]
        BY <2>3
      <4>2. since[r] \in Nat /\ last[r] \in Nat /\ last'[r] \in Nat
        BY <2>1
      <4>3. QED BY <4>1, <4>2
    <3>4. target'.is # "absent"
      BY <2>1, <2>2
    <3>5. QED BY <2>1, <3>1, <3>2, <3>3, <3>4
  <2>6. QED BY <2>4, <2>5
<1>12. ASSUME NEW b \in Builders, Drop(b) PROVE StartOK'
  <2>1. target.is = "whole" /\ UNCHANGED <<head, target, staging, todo, since, last, used>>
    BY <1>0, <1>12 DEF Drop
  <2>2. PICK label \in {"dropping", "exit", "idle"} :
          /\ pc' = [pc EXCEPT ![b] = label] /\ pc[b] \in {"drop", "dropping"}
          /\ b = Service => label # "idle"
    BY <1>12 DEF Drop, Leave
  <2>3. b = Service => \A r \in Repos : since[r] <= target.commits[r] /\ since[r] <= last[r]
    <3> SUFFICES ASSUME b = Service, NEW r \in Repos
                 PROVE  since[r] <= target.commits[r] /\ since[r] <= last[r]
      OBVIOUS
    <3>1. since[r] <= target.commits[r] /\ target.commits[r] \in {0, last[r]}
      BY <2>1, <2>2
    <3>2. since[r] \in Nat /\ last[r] \in Nat
      OBVIOUS
    <3>3. QED BY <3>1, <3>2
  <2>4. CASE b = Service
    BY <2>1, <2>2, <2>3, <2>4
  <2>5. CASE b # Service
    BY <2>1, <2>2, <2>5
  <2>6. QED BY <2>4, <2>5
<1>13. ASSUME NEW b \in Builders, Dropped(b) PROVE StartOK'
  <2>1. target.is = "whole" /\ UNCHANGED <<head, target, staging, todo, since, last, used>>
    BY <1>0, <1>13 DEF Dropped
  <2>2. PICK label \in {"dropping", "exit", "idle"} :
          /\ pc' = [pc EXCEPT ![b] = label] /\ pc[b] \in {"drop", "dropping"}
          /\ b = Service => label # "idle"
    BY <1>13 DEF Dropped, Leave
  <2>3. b = Service => \A r \in Repos : since[r] <= target.commits[r] /\ since[r] <= last[r]
    <3> SUFFICES ASSUME b = Service, NEW r \in Repos
                 PROVE  since[r] <= target.commits[r] /\ since[r] <= last[r]
      OBVIOUS
    <3>1. since[r] <= target.commits[r] /\ target.commits[r] \in {0, last[r]}
      BY <2>1, <2>2
    <3>2. since[r] \in Nat /\ last[r] \in Nat
      OBVIOUS
    <3>3. QED BY <3>1, <3>2
  <2>4. CASE b = Service
    BY <2>1, <2>2, <2>3, <2>4
  <2>5. CASE b # Service
    BY <2>1, <2>2, <2>5
  <2>6. QED BY <2>4, <2>5
<1>14. ASSUME NEW b \in Builders, Raise(b) PROVE StartOK'
  BY <1>14 DEF Raise, Movable, Exists, Spend
<1>15. ASSUME NEW b \in Builders, Undo(b) PROVE StartOK'
  BY <1>15 DEF Undo, Restorable, Exists, Leave
<1>16. ASSUME NEW b \in Builders, Kill(b) PROVE StartOK'
  BY <1>16 DEF Kill, Spend
<1>18. CASE ExecStart
  BY <1>18 DEF ExecStart
<1>19. ASSUME NEW b \in Builders, List(b) PROVE StartOK'
  BY <1>19 DEF List
<1>20. ASSUME NEW b \in Builders, RaiseEarly(b) PROVE StartOK'
  BY <1>20 DEF RaiseEarly, Spend
<1>17. CASE UNCHANGED vars
  BY <1>17 DEF vars
<1>21. QED
  BY <1>1, <1>2, <1>3, <1>4, <1>5, <1>6, <1>7, <1>8,
     <1>9, <1>10, <1>11, <1>12, <1>13, <1>14, <1>15, <1>16, <1>17, <1>18,
     <1>19, <1>20 DEF Next, Step

\* After one disturbance another one makes two.
LEMMA Twice ==
    ASSUME used.kills \in Nat, used.failures \in Nat, used.kills + used.failures # 0,
           \/ used'.kills = used.kills + 1 /\ used'.failures = used.failures
           \/ used'.kills = used.kills /\ used'.failures = used.failures + 1
    PROVE  ~(used'.kills + used'.failures <= 1) /\ used'.kills + used'.failures # 0
OBVIOUS

\* No single disturbance costs the view.
LEMMA SurvivesStep == TypeOK /\ ServiceOK /\ WholeOK /\ SurvivesOK /\ [Next]_vars => SurvivesOK'
<1> SUFFICES ASSUME TypeOK, ServiceOK, WholeOK, SurvivesOK, [Next]_vars PROVE SurvivesOK'
  OBVIOUS
<1> USE BuildersAssumption, BoundsAssumption DEF TypeOK, Labels, View, Commits, Absent, disk, Goto, ServiceOK,
           WholeOK, PublishedIsWhole, SurvivesOK, Published, Building
<1>1. CASE StartService
  BY <1>1 DEF StartService
<1>2. CASE StopService
  BY <1>2 DEF StopService, Spend
<1>3. ASSUME NEW r \in Repos, Commit(r) PROVE SurvivesOK'
  BY <1>3 DEF Commit
<1>4. ASSUME NEW b \in Builders, BuildByHand(b) PROVE SurvivesOK'
  BY <1>4 DEF BuildByHand, Spend
<1>5. ASSUME NEW b \in Builders, Acquire(b) PROVE SurvivesOK'
  BY <1>5 DEF Acquire, MayLock
<1>6. ASSUME NEW b \in Builders, NEW r \in Repos, Export(b, r) PROVE SurvivesOK'
  BY <1>6 DEF Export
<1>7. ASSUME NEW b \in Builders, WriteManifest(b) PROVE SurvivesOK'
  BY <1>7 DEF WriteManifest
<1>8. ASSUME NEW b \in Builders, Clear(b) PROVE SurvivesOK'
  BY <1>8 DEF Clear, HasLeftover, Gutted, Exists
<1>9. ASSUME NEW b \in Builders, Cleared(b) PROVE SurvivesOK'
  BY <1>9 DEF Cleared
<1>10. ASSUME NEW b \in Builders, MoveOut(b) PROVE SurvivesOK'
  BY <1>10 DEF MoveOut, Aside, Movable, Exists
<1>11. ASSUME NEW b \in Builders, MoveIn(b) PROVE SurvivesOK'
  BY <1>11 DEF MoveIn
<1>12. ASSUME NEW b \in Builders, Drop(b) PROVE SurvivesOK'
  BY <1>12 DEF Drop, Gutted, Exists, Leave
<1>13. ASSUME NEW b \in Builders, Dropped(b) PROVE SurvivesOK'
  BY <1>13 DEF Dropped, Leave
<1>14. ASSUME NEW b \in Builders, Raise(b) PROVE SurvivesOK'
  <2>1. used'.kills = used.kills /\ used'.failures = used.failures + 1
    BY <1>14 DEF Raise, Movable, Exists, Spend
  <2>2. /\ used.kills \in Nat /\ used.failures \in Nat
        /\ last' = last /\ target' = target /\ backup' = backup
    BY <1>14 DEF Raise
  <2>3. CASE used.kills + used.failures = 0
    <3>1. Published => target.is = "whole" \/ backup.is = "whole"
      BY <2>3
    <3>2. used'.kills + used'.failures = 1
      BY <2>1, <2>2, <2>3
    <3>3. QED BY <2>2, <3>1, <3>2
  <2>4. CASE used.kills + used.failures # 0
    <3>1. ~(used'.kills + used'.failures <= 1) /\ used'.kills + used'.failures # 0
      BY <2>1, <2>2, <2>4, Twice
    <3>2. QED BY <3>1
  <2>5. QED BY <2>3, <2>4
<1>15. ASSUME NEW b \in Builders, Undo(b) PROVE SurvivesOK'
  BY <1>15 DEF Undo, Restorable, Exists, Leave
<1>16. ASSUME NEW b \in Builders, Kill(b) PROVE SurvivesOK'
  <2>1. used'.kills = used.kills + 1 /\ used'.failures = used.failures
    BY <1>16 DEF Kill, Spend
  <2>2. /\ used.kills \in Nat /\ used.failures \in Nat
        /\ last' = last /\ target' = target /\ backup' = backup
    BY <1>16 DEF Kill
  <2>3. CASE used.kills + used.failures = 0
    <3>1. Published => target.is = "whole" \/ backup.is = "whole"
      BY <2>3
    <3>2. used'.kills + used'.failures = 1
      BY <2>1, <2>2, <2>3
    <3>3. QED BY <2>2, <3>1, <3>2
  <2>4. CASE used.kills + used.failures # 0
    <3>1. ~(used'.kills + used'.failures <= 1) /\ used'.kills + used'.failures # 0
      BY <2>1, <2>2, <2>4, Twice
    <3>2. QED BY <3>1
  <2>5. QED BY <2>3, <2>4
<1>18. CASE ExecStart
  BY <1>18 DEF ExecStart
<1>19. ASSUME NEW b \in Builders, List(b) PROVE SurvivesOK'
  BY <1>19 DEF List
<1>20. ASSUME NEW b \in Builders, RaiseEarly(b) PROVE SurvivesOK'
  BY <1>20 DEF RaiseEarly, Spend
<1>17. CASE UNCHANGED vars
  BY <1>17 DEF vars
<1>21. QED
  BY <1>1, <1>2, <1>3, <1>4, <1>5, <1>6, <1>7, <1>8,
     <1>9, <1>10, <1>11, <1>12, <1>13, <1>14, <1>15, <1>16, <1>17, <1>18,
     <1>19, <1>20 DEF Next, Step

-----------------------------------------------------------------------------
LEMMA InvInit == Init => IInv
<1> SUFFICES ASSUME Init PROVE IInv
  OBVIOUS
<1>1. TypeOK /\ ServiceOK
  BY TypeInit
<1>2. WholeOK
  BY BuildersAssumption DEF Init, WholeOK, Building, PublishedIsWhole, Absent
<1>3. OrderOK
  <2>1. \A r \in Repos : last[r] = 0 /\ since[r] = 0 /\ head[r] \in {0, 1}
    BY DEF Init
  <2>2. QED
    BY <2>1 DEF Init, OrderOK, Building, Absent
<1>4. StartOK
  BY BuildersAssumption DEF Init, StartOK, Building
<1>5. SurvivesOK
  BY DEF Init, SurvivesOK, Published
<1>6. QED
  BY <1>1, <1>2, <1>3, <1>4, <1>5 DEF IInv

LEMMA InvStep == IInv /\ [Next]_vars => IInv'
<1> SUFFICES ASSUME IInv, [Next]_vars PROVE IInv'
  OBVIOUS
<1>1. TypeOK' /\ ServiceOK'
  BY TypeStep DEF IInv
<1>2. WholeOK'
  BY WholeStep DEF IInv
<1>3. OrderOK'
  BY OrderStep DEF IInv
<1>4. StartOK'
  BY StartStep DEF IInv
<1>5. SurvivesOK'
  BY SurvivesStep DEF IInv
<1>6. QED
  BY <1>1, <1>2, <1>3, <1>4, <1>5 DEF IInv

THEOREM InductiveInvariant == Spec => []IInv
<1>1. QED
  BY InvInit, InvStep, PTL DEF Spec

\* The variables keep their types, and the lock says whose build is under way.
THEOREM TypeCorrect == Spec => []TypeOK
<1>1. IInv => TypeOK
  BY DEF IInv
<1>2. QED
  BY <1>1, InductiveInvariant, PTL

\* The renames of build_research_view: readers never see a half written or half deleted view,
\* unless a build was killed and another one failed.
THEOREM WholeViews == Spec => []PublishedIsWhole
<1>1. IInv => PublishedIsWhole
  BY DEF IInv, WholeOK
<1>2. QED
  BY <1>1, InductiveInvariant, PTL

\* The backup of build_research_view: a build that fails or is killed, at any step, leaves a whole
\* view somewhere.
THEOREM ViewNeverLost == Spec => []ViewSurvives
<1>1. IInv => ViewSurvives
  <2> SUFFICES ASSUME IInv, Published, used.kills + used.failures <= 1,
                      ~(target.is = "whole" \/ backup.is = "whole")
               PROVE  lock # Nobody /\ staging[lock].is = "whole"
    BY DEF ViewSurvives, Published
  <2>1. PICK b \in Builders : pc[b] \in Building
    BY DEF IInv, SurvivesOK
  <2>2. staging[b].is = "whole"
    BY <2>1 DEF IInv, WholeOK
  <2>3. lock = b
    BY <2>1 DEF IInv, TypeOK, Building
  <2>4. QED
    BY <2>2, <2>3, BuildersAssumption
<1>2. QED
  BY <1>1, InductiveInvariant, PTL

\* Only the renames of a build put a view in place: its own or the backup.
LEMMA PlacedBy ==
    ASSUME Next, target' # target, Exists(target')
    PROVE  \E b \in Builders :
             \/ pc[b] = "in" /\ target' = staging[b]
             \/ ~Exists(target) /\ Exists(backup) /\ target' = backup
<1>1. ~(StartService \/ ExecStart \/ StopService \/ \E r \in Repos : Commit(r))
  BY DEF StartService, ExecStart, StopService, Commit, disk
<1>2. PICK b \in Builders :
        BuildByHand(b) \/ Acquire(b) \/ Step(b) \/ RaiseEarly(b) \/ Raise(b) \/ Kill(b)
  BY <1>1 DEF Next
<1>3. ~(BuildByHand(b) \/ Acquire(b) \/ RaiseEarly(b) \/ Raise(b) \/ Kill(b))
  BY DEF BuildByHand, Acquire, RaiseEarly, Raise, Kill, disk
<1>4. ~(List(b) \/ WriteManifest(b) \/ Clear(b) \/ Cleared(b) \/ Drop(b) \/ Dropped(b))
  BY DEF List, disk, WriteManifest, Clear, Cleared, Drop, Dropped
<1>5. ~MoveOut(b) /\ \A r \in Repos : ~Export(b, r)
  BY DEF MoveOut, Export, Exists, Absent
<1>6. MoveIn(b) \/ Undo(b)
  BY <1>2, <1>3, <1>4, <1>5 DEF Step
<1>7. CASE MoveIn(b)
  BY <1>7 DEF MoveIn
<1>8. CASE Undo(b)
  BY <1>8 DEF Undo, Restorable
<1>9. QED
  BY <1>6, <1>7, <1>8

\* Builds under the lock, each with the HEADs it found: what the view holds never goes back
\* to older commits, also when a build by hand and one of the service meet and one of them
\* listed the repositories long before it got the lock.
THEOREM NeverGoesBack == Spec => NeverBack
<1>1. IInv /\ [Next]_vars
      => [target' # target /\ Exists(target') => ~Older(target'.commits, last)]_vars
  <2> SUFFICES ASSUME IInv, Next, target' # target, Exists(target'),
                      NEW r \in Repos, target'.commits[r] # 0, target'.commits[r] < last[r]
               PROVE  FALSE
    BY DEF Older
  <2>1. last[r] \in Nat
    BY DEF IInv, TypeOK, Commits
  <2>2. PICK b \in Builders :
          \/ pc[b] = "in" /\ target' = staging[b]
          \/ ~Exists(target) /\ Exists(backup) /\ target' = backup
    BY PlacedBy
  <2>3. CASE pc[b] = "in" /\ target' = staging[b]
    <3>1. last[r] <= staging[b].commits[r]
      BY <2>3 DEF IInv, OrderOK, Building
    <3>2. staging[b].commits[r] \in Nat
      BY DEF IInv, TypeOK, View, Commits
    <3>3. QED
      BY <2>1, <2>3, <3>1, <3>2
  <2>4. CASE ~Exists(target) /\ Exists(backup) /\ target' = backup
    <3>1. backup.commits[r] \in {0, last[r]}
      BY <2>4 DEF IInv, OrderOK, Exists
    <3>2. QED
      BY <2>1, <2>4, <3>1
  <2>5. QED
    BY <2>2, <2>3, <2>4
<1>2. QED
  BY <1>1, InductiveInvariant, PTL DEF Spec, NeverBack

\* Only the end of its own build brings the service to ExecStart.
LEMMA EndedBy ==
    ASSUME Next, TypeOK, pc[Service] # "exit", pc'[Service] = "exit"
    PROVE  pc[Service] \in {"drop", "dropping"} /\ UNCHANGED <<target, since>>
<1> USE BuildersAssumption DEF TypeOK, Goto
<1>1. ~(StartService \/ ExecStart \/ StopService \/ \E r \in Repos : Commit(r))
  BY DEF StartService, ExecStart, StopService, Commit
<1>2. PICK b \in Builders :
        BuildByHand(b) \/ Acquire(b) \/ Step(b) \/ RaiseEarly(b) \/ Raise(b) \/ Kill(b)
  BY <1>1 DEF Next
<1>3. ~(BuildByHand(b) \/ Acquire(b) \/ RaiseEarly(b) \/ Raise(b) \/ Kill(b))
  BY DEF BuildByHand, Acquire, RaiseEarly, Raise, Kill
<1>4. ~(\/ List(b) \/ WriteManifest(b) \/ Clear(b) \/ Cleared(b) \/ MoveOut(b) \/ MoveIn(b)
        \/ Undo(b))
  BY DEF List, WriteManifest, Clear, Cleared, MoveOut, MoveIn, Undo, Leave
<1>5. \A r \in Repos : ~Export(b, r)
  BY DEF Export
<1>6. Drop(b) \/ Dropped(b)
  BY <1>2, <1>3, <1>4, <1>5 DEF Step
<1>7. CASE Drop(b)
  <2>1. b = Service
    BY <1>7 DEF Drop, Leave
  <2> QED
    BY <1>7, <2>1 DEF Drop
<1>8. CASE Dropped(b)
  <2>1. b = Service
    BY <1>8 DEF Dropped, Leave
  <2> QED
    BY <1>8, <2>1 DEF Dropped
<1>9. QED
  BY <1>6, <1>7, <1>8

\* Only ExecStart lets the service come up.
LEMMA StartedBy ==
    ASSUME Next, service # "up", service' = "up"
    PROVE  pc[Service] = "exit"
<1>1. ~(StartService \/ StopService \/ \E r \in Repos : Commit(r))
  BY DEF StartService, StopService, Commit
<1>2. SUFFICES ASSUME ~ExecStart PROVE FALSE
  BY DEF ExecStart
<1>3. PICK b \in Builders :
        BuildByHand(b) \/ Acquire(b) \/ Step(b) \/ RaiseEarly(b) \/ Raise(b) \/ Kill(b)
  BY <1>1, <1>2 DEF Next
<1>4. ~(BuildByHand(b) \/ Acquire(b) \/ RaiseEarly(b) \/ Raise(b) \/ Kill(b))
  BY DEF BuildByHand, Acquire, RaiseEarly, Raise, Kill
<1>5. ~(\/ List(b) \/ WriteManifest(b) \/ Clear(b) \/ Cleared(b) \/ MoveOut(b) \/ MoveIn(b)
        \/ Drop(b) \/ Dropped(b) \/ Undo(b))
  BY DEF List, WriteManifest, Clear, Cleared, MoveOut, MoveIn, Drop, Dropped, Undo, Leave
<1>6. \A r \in Repos : ~Export(b, r)
  BY DEF Export
<1>7. QED
  BY <1>3, <1>4, <1>5, <1>6 DEF Step

\* ExecStartPre and ExecStart: the build of a starting service ends on a whole view of all
\* there was; OpenCode starts later, on nothing older, and without a view only while another
\* build is between its renames or after one was killed.
THEOREM StartsNewest == Spec => StartsOnNewest
<1> DEFINE Ends   == pc[Service] # "exit" /\ pc'[Service] = "exit" =>
                        target'.is = "whole" /\ \A r \in Repos : since[r] <= target'.commits[r]
           Starts == service # "up" /\ service' = "up" =>
                        /\ Exists(target) => ~Older(target.commits, since)
                        /\ \/ Exists(target) \/ used.kills # 0
                           \/ \E b \in Builders : pc[b] \in {"in", "undo"}
<1>1. ASSUME IInv, Next PROVE Ends
  <2> SUFFICES ASSUME pc[Service] # "exit", pc'[Service] = "exit"
               PROVE  target'.is = "whole" /\ \A r \in Repos : since[r] <= target'.commits[r]
    OBVIOUS
  <2>1. pc[Service] \in {"drop", "dropping"} /\ target' = target
    BY <1>1, EndedBy DEF IInv
  <2> QED
    BY <1>1, <2>1, BuildersAssumption DEF IInv, WholeOK, StartOK
<1>2. ASSUME IInv, Next PROVE Starts
  <2> SUFFICES ASSUME service # "up", service' = "up"
               PROVE  /\ Exists(target) => ~Older(target.commits, since)
                      /\ \/ Exists(target) \/ used.kills # 0
                         \/ \E b \in Builders : pc[b] \in {"in", "undo"}
    OBVIOUS
  <2>1. pc[Service] = "exit"
    BY <1>2, StartedBy
  <2>2. ASSUME Exists(target), NEW r \in Repos, target.commits[r] # 0
        PROVE  ~(target.commits[r] < since[r])
    <3>1. target.commits[r] = last[r] /\ since[r] <= last[r]
      BY <1>2, <2>1, <2>2 DEF IInv, OrderOK, StartOK, Exists
    <3>2. since[r] \in Nat /\ last[r] \in Nat
      BY <1>2 DEF IInv, TypeOK, Commits
    <3> QED
      BY <3>1, <3>2
  <2>3. \/ Exists(target) \/ used.kills # 0
        \/ \E b \in Builders : pc[b] \in {"in", "undo"}
    BY <1>2, <2>1 DEF IInv, StartOK, Exists
  <2> QED
    BY <2>2, <2>3 DEF Older
<1>3. IInv /\ [Next]_vars => [Ends /\ Starts]_vars
  BY <1>1, <1>2
<1>4. QED
  BY <1>3, InductiveInvariant, PTL DEF Spec, StartsOnNewest
=============================================================================
