---------------------------- MODULE LabRunProofs ----------------------------
(***************************************************************************)
(* Invariance theorems of LabRun, for every number of processes, Scenarios *)
(* and Namespaces, crashes, faults and Operator commands.                  *)
(***************************************************************************)
EXTENDS LabRun, TLAPS

Others(r) == \A q \in Runners : q # r => proc'[q] = proc[q]
Moved(r) ==
  /\ proc' \in [Runners -> Processes] /\ Others(r)
  /\ proc'[r].scenario = proc[r].scenario /\ proc'[r].verb = proc[r].verb

(* Goto changes where one process is.                                      *)
LEMMA GotoEffect ==
  ASSUME proc \in [Runners -> Processes], NEW r \in Runners, NEW phase \in Phases,
         Goto(r, phase)
  PROVE  /\ Moved(r) /\ proc'[r].at = phase /\ proc'[r].then = proc[r].then
         /\ proc'[r].verdict = proc[r].verdict /\ proc'[r].removed = proc[r].removed
<1>1. proc[r] \in Processes
  OBVIOUS
<1>2. proc'[r] = [proc[r] EXCEPT !.at = phase]
  BY DEF Goto
<1>3. proc'[r] \in Processes /\ proc'[r].at = phase /\ proc'[r].then = proc[r].then
      /\ proc'[r].scenario = proc[r].scenario /\ proc'[r].verb = proc[r].verb
      /\ proc'[r].verdict = proc[r].verdict /\ proc'[r].removed = proc[r].removed
  BY <1>1, <1>2 DEF Processes
<1>4. Others(r) /\ proc' \in [Runners -> Processes]
  BY <1>1, <1>2, <1>3 DEF Goto, Others
<1> QED
  BY <1>3, <1>4 DEF Moved

(* GotoThen also changes where its lock check or its wipe leads.           *)
LEMMA GotoThenEffect ==
  ASSUME proc \in [Runners -> Processes], NEW r \in Runners, NEW phase \in Phases,
         NEW then \in Phases, GotoThen(r, phase, then)
  PROVE  /\ Moved(r) /\ proc'[r].at = phase /\ proc'[r].then = then
         /\ proc'[r].verdict = proc[r].verdict /\ proc'[r].removed = proc[r].removed
<1>1. proc[r] \in Processes
  OBVIOUS
<1>2. proc'[r] = [proc[r] EXCEPT !.at = phase, !.then = then]
  BY DEF GotoThen
<1>3. proc'[r] \in Processes /\ proc'[r].at = phase /\ proc'[r].then = then
      /\ proc'[r].scenario = proc[r].scenario /\ proc'[r].verb = proc[r].verb
      /\ proc'[r].verdict = proc[r].verdict /\ proc'[r].removed = proc[r].removed
  BY <1>1, <1>2 DEF Processes
<1>4. Others(r) /\ proc' \in [Runners -> Processes]
  BY <1>1, <1>2, <1>3 DEF GotoThen, Others
<1> QED
  BY <1>3, <1>4 DEF Moved

(* Ending a script gives the process its verdict.                          *)
LEMMA VerdictEffect ==
  ASSUME proc \in [Runners -> Processes], NEW r \in Runners, NEW phase \in Phases,
         NEW verdict \in {"passed", "failed", "error"},
         proc' = [proc EXCEPT ![r].at = phase, ![r].verdict = verdict]
  PROVE  /\ Moved(r) /\ proc'[r].at = phase /\ proc'[r].then = proc[r].then
         /\ proc'[r].verdict = verdict /\ proc'[r].removed = proc[r].removed
<1>1. proc[r] \in Processes
  OBVIOUS
<1>2. proc'[r] = [proc[r] EXCEPT !.at = phase, !.verdict = verdict]
  OBVIOUS
<1>3. proc'[r] \in Processes /\ proc'[r].at = phase /\ proc'[r].then = proc[r].then
      /\ proc'[r].scenario = proc[r].scenario /\ proc'[r].verb = proc[r].verb
      /\ proc'[r].verdict = verdict /\ proc'[r].removed = proc[r].removed
  BY <1>1, <1>2 DEF Processes
<1>4. Others(r) /\ proc' \in [Runners -> Processes]
  BY <1>1, <1>2, <1>3 DEF Others
<1> QED
  BY <1>3, <1>4 DEF Moved

(* A wipe ends with the Namespace removed if that is what it was for.      *)
LEMMA WipeEffect ==
  ASSUME proc \in [Runners -> Processes], NEW r \in Runners, NextWipe(r) \in Phases, Wipe(r)
  PROVE  /\ Moved(r) /\ proc'[r].at = NextWipe(r) /\ proc'[r].then = proc[r].then
         /\ proc'[r].verdict = proc[r].verdict
         /\ proc'[r].removed = (NextWipe(r) = "release")
<1> DEFINE next == NextWipe(r)
<1>1. proc[r] \in Processes /\ next \in Phases
  OBVIOUS
<1>2. proc'[r] = [proc[r] EXCEPT !.at = next, !.removed = (next = "release")]
  BY DEF Wipe
<1> HIDE DEF next
<1>3. proc'[r] \in Processes /\ proc'[r].at = next /\ proc'[r].then = proc[r].then
      /\ proc'[r].scenario = proc[r].scenario /\ proc'[r].verb = proc[r].verb
      /\ proc'[r].verdict = proc[r].verdict /\ proc'[r].removed = (next = "release")
  BY <1>1, <1>2 DEF Processes
<1>4. Others(r) /\ proc' \in [Runners -> Processes]
  BY <1>1, <1>2, <1>3 DEF Others, Wipe
<1> QED
  BY <1>3, <1>4 DEF Moved, next

(* Where a look at the lock file or a wipe leads, and who has removed a    *)
(* Namespace.                                                              *)
ThenInv ==
  \A r \in Runners :
    /\ At(r, {"look", "clear"}) => proc[r].then \in {"ended", "ready", "create"}
    /\ At(r, Wiping) => proc[r].then \in {"seed", "release"}
    /\ proc[r].removed => At(r, {"release", "ended", "killed"})

(* A process that has dropped something of its Namespace, or all of it.    *)
Emptied(r) ==
  \/ At(r, {"dropCollections", "deleteDeployment"})
  \/ At(r, {"release"}) /\ proc[r].removed

(* A step of a process moves no other process and keeps ThenInv; only the  *)
(* exclusive create makes it active, only a pause of the app lets it into  *)
(* the product path, it leaves that with the app back or stranded, and     *)
(* only a wipe empties the Namespace.                                      *)
LEMMA RunsMoves ==
  ASSUME TypeOK, ThenInv, NEW r \in Runners, Runs(r)
  PROVE  /\ Moved(r) /\ ThenInv' /\ fixture' = fixture
         /\ Active(r)' => (Active(r) \/ (CreateLock(r) /\ lock = NoFile))
         /\ InProductPath(r)' => ((InProductPath(r) /\ app' = app) \/ ~app')
         /\ HoldsApp(r) => (HoldsApp(r)' \/ stranded' \/ app' = fixture)
         /\ Wipe(r) \/ ~Emptied(r)'
<1>1. proc \in [Runners -> Processes] /\ proc[r] \in Processes /\ proc[r].then \in Phases
  <2>1. proc \in [Runners -> Processes] /\ proc[r] \in Processes
    BY DEF TypeOK
  <2> QED
    BY <2>1 DEF Processes
<1>2. ASSUME NEW phase \in Phases, Goto(r, phase)
      PROVE  /\ Moved(r) /\ proc'[r].at = phase /\ proc'[r].then = proc[r].then
             /\ proc'[r].removed = proc[r].removed
  BY <1>1, <1>2, GotoEffect
<1>3. ASSUME NEW phase \in Phases, NEW then \in Phases, GotoThen(r, phase, then)
      PROVE  /\ Moved(r) /\ proc'[r].at = phase /\ proc'[r].then = then
             /\ proc'[r].removed = proc[r].removed
  BY <1>1, <1>3, GotoThenEffect
<1>4. ASSUME NEW phase \in Phases, NEW verdict \in {"passed", "failed", "error"},
             proc' = [proc EXCEPT ![r].at = phase, ![r].verdict = verdict]
      PROVE  /\ Moved(r) /\ proc'[r].at = phase /\ proc'[r].then = proc[r].then
             /\ proc'[r].removed = proc[r].removed
  BY <1>1, <1>4, VerdictEffect
<1>5. ASSUME Wipe(r)
      PROVE  /\ Moved(r) /\ proc'[r].at = NextWipe(r) /\ proc'[r].then = proc[r].then
             /\ proc'[r].removed = (NextWipe(r) = "release")
  <2>1. NextWipe(r) \in Phases
    BY <1>1 DEF NextWipe, Phases, Wiping
  <2> QED
    BY <1>1, <1>5, <2>1, WipeEffect
<1>6. ASSUME GiveUp(r), At(r, Wiping \cup ProductPath \cup {"enrich"})
      PROVE  /\ Moved(r) /\ proc'[r].at = AfterError(r) /\ proc'[r].then = proc[r].then
             /\ proc'[r].removed = proc[r].removed
  BY <1>4, <1>6 DEF GiveUp, AfterError, Phases
<1> DEFINE Result ==
      /\ Moved(r)
      /\ At(r, {"look", "clear"})' => proc'[r].then \in {"ended", "ready", "create"}
      /\ At(r, Wiping)' => proc'[r].then \in {"seed", "release"}
      /\ proc'[r].removed => At(r, {"release", "ended", "killed"})'
      /\ fixture' = fixture
      /\ Active(r)' => (Active(r) \/ (CreateLock(r) /\ lock = NoFile))
      /\ InProductPath(r)' => ((InProductPath(r) /\ app' = app) \/ ~app')
      /\ HoldsApp(r) => (HoldsApp(r)' \/ stranded' \/ app' = fixture)
      /\ Wipe(r) \/ ~Emptied(r)'
<1>7. SUFFICES Result
  BY DEF Moved, Others, ThenInv, At
<1> USE DEF ThenInv, At, Phases, Wiping, ProductPath, InProductPath, HoldsApp, Active, Emptied
<1>8. CASE Start(r)
  BY <1>1, <1>2, <1>3, <1>8 DEF Start
<1>9. CASE ReadLock(r)
  BY <1>1, <1>2, <1>3, <1>9 DEF ReadLock
<1>10. CASE ClearStaleLock(r)
  BY <1>1, <1>2, <1>3, <1>10 DEF ClearStaleLock
<1>11. CASE EnsureFixtureReady(r)
  BY <1>1, <1>2, <1>3, <1>11 DEF EnsureFixtureReady
<1>12. CASE CreateLock(r)
  BY <1>1, <1>2, <1>3, <1>12 DEF CreateLock
<1>13. CASE WriteLock(r)
  BY <1>1, <1>2, <1>3, <1>13 DEF WriteLock
<1>14. CASE PauseApp(r)
  BY <1>1, <1>2, <1>3, <1>14 DEF PauseApp
<1>15. CASE Wipe(r)
  <2>1. proc'[r].at = NextWipe(r) /\ proc'[r].then = proc[r].then
        /\ proc'[r].removed = (NextWipe(r) = "release") /\ Moved(r)
        /\ app' = app /\ fixture' = fixture /\ At(r, Wiping)
    BY <1>5, <1>15 DEF Wipe
  <2> QED
    BY <1>1, <1>15, <2>1 DEF NextWipe
<1>16. CASE Seed(r)
  <2>1. proc'[r].at = "apply" /\ proc'[r].then = proc[r].then
        /\ proc'[r].removed = proc[r].removed /\ Moved(r)
        /\ app' = app /\ fixture' = fixture /\ At(r, {"seed"})
    BY <1>2, <1>16 DEF Seed, ProductStep
  <2> QED
    BY <1>1, <2>1
<1>17. CASE Apply(r)
  <2>1. proc'[r].at = "sync" /\ proc'[r].then = proc[r].then
        /\ proc'[r].removed = proc[r].removed /\ Moved(r)
        /\ app' = app /\ fixture' = fixture /\ At(r, {"apply"})
    BY <1>2, <1>17 DEF Apply, ProductStep
  <2> QED
    BY <1>1, <2>1
<1>18. CASE SyncAndAssert(r)
  <2>1. proc'[r].at = "resume" /\ proc'[r].then = proc[r].then
        /\ proc'[r].removed = proc[r].removed /\ Moved(r)
        /\ app' = app /\ fixture' = fixture /\ At(r, {"sync"})
    BY <1>4, <1>18 DEF SyncAndAssert
  <2> QED
    BY <1>1, <2>1
<1>19. CASE CallFails(r)
  BY <1>6, <1>19 DEF CallFails, GiveUp, AfterError
<1>20. CASE ResumeApp(r)
  BY <1>1, <1>2, <1>3, <1>20 DEF ResumeApp
<1>21. CASE Enrich(r)
  BY <1>2, <1>3, <1>6, <1>21 DEF Enrich, GiveUp, AfterError
<1>22. CASE ReleaseLock(r)
  BY <1>1, <1>2, <1>3, <1>22 DEF ReleaseLock
<1>23. CASE Crash(r)
  <2>1. proc'[r].at = "killed" /\ proc'[r].then = proc[r].then
        /\ proc'[r].removed = proc[r].removed /\ Moved(r)
        /\ app' = app /\ fixture' = fixture /\ (HoldsApp(r) => stranded')
    BY <1>2, <1>23 DEF Crash
  <2> QED
    BY <1>1, <2>1
<1> QED
  BY <1>8, <1>9, <1>10, <1>11, <1>12, <1>13, <1>14, <1>15,
     <1>16, <1>17, <1>18, <1>19, <1>20, <1>21, <1>22, <1>23 DEF Runs

(* What the processes share stays in its types.                            *)
LEMMA TypeKept ==
  ASSUME LabAssumption, TypeOK, ThenInv, [Next]_vars PROVE TypeOK'
<1>1. CASE UNCHANGED vars
  BY <1>1 DEF vars, budget, ghosts, TypeOK
<1>2. CASE LabUp
  <2>1. upped' \in BOOLEAN
    BY <1>2 DEF LabUp
  <2>2. operator' \in 0 .. MaxOperator
    BY <1>2 DEF LabUp, TypeOK, LabAssumption
  <2> QED
    BY <1>2, <2>1, <2>2 DEF LabUp, TypeOK
<1>3. CASE LabDown
  <2>1. operator' \in 0 .. MaxOperator
    BY <1>3 DEF LabDown, TypeOK, LabAssumption
  <2>2. namespace' \in [Scenarios -> SUBSET Parts]
    BY <1>3 DEF LabDown
  <2> QED
    BY <1>3, <2>1, <2>2 DEF LabDown, TypeOK, ghosts
<1>4. CASE AppDelivers
  BY <1>4 DEF AppDelivers, TypeOK, Parts, budget
<1>5. ASSUME NEW r \in Runners, Runs(r) PROVE TypeOK'
  <2>1. proc' \in [Runners -> Processes] /\ fixture' \in BOOLEAN
    BY <1>5, RunsMoves DEF Moved, TypeOK
  <2>2. proc[r].scenario \in Scenarios
    BY DEF TypeOK, Processes
  <2> USE LabAssumption DEF TypeOK, budget, ghosts, Fault
  <2>3. CASE Start(r)
    BY <2>1, <2>2, <2>3 DEF Start
  <2>4. CASE ReadLock(r)
    BY <2>1, <2>2, <2>4 DEF ReadLock
  <2>5. CASE ClearStaleLock(r)
    BY <2>1, <2>2, <2>5 DEF ClearStaleLock
  <2>6. CASE EnsureFixtureReady(r)
    BY <2>1, <2>2, <2>6 DEF EnsureFixtureReady
  <2>7. CASE CreateLock(r)
    <3>1. lock' \in [by : Runners, written : BOOLEAN] \cup {NoFile}
      <4>1. lock' = [by |-> r, written |-> FALSE] \/ lock' = lock
        BY <2>7, Zenon DEF CreateLock
      <4>2. [by |-> r, written |-> FALSE] \in [by : Runners, written : BOOLEAN]
        OBVIOUS
      <4> QED
        BY <4>1, <4>2, Zenon
    <3> QED
      BY <2>1, <2>7, <3>1 DEF CreateLock
  <2>8. CASE WriteLock(r)
    <3>1. lock' \in [by : Runners, written : BOOLEAN] \cup {NoFile}
      BY <2>8 DEF WriteLock
    <3>2. faults' \in 0 .. MaxFaults
      BY <2>8 DEF WriteLock, LabAssumption
    <3> QED
      BY <2>1, <2>8, <3>1, <3>2 DEF WriteLock
  <2>9. CASE PauseApp(r)
    <3>1. faults' \in 0 .. MaxFaults /\ app' \in BOOLEAN /\ stranded' \in BOOLEAN
      <4>1. /\ \/ app' = FALSE /\ faults' = faults
               \/ faults < MaxFaults /\ faults' = faults + 1 /\ app' \in {app, FALSE}
            /\ stranded' \in {stranded, TRUE}
        BY <2>9, Zenon DEF PauseApp
      <4>2. app' \in BOOLEAN /\ stranded' \in BOOLEAN
        BY <4>1, Zenon
      <4>3. faults' = faults \/ (faults < MaxFaults /\ faults' = faults + 1)
        BY <4>1, Zenon
      <4>4. faults' \in 0 .. MaxFaults
        BY <4>3 DEF LabAssumption
      <4> QED
        BY <4>2, <4>4
    <3> QED
      BY <2>1, <2>9, <3>1 DEF PauseApp
  <2>10. CASE Wipe(r)
    BY <2>1, <2>2, <2>10 DEF Wipe
  <2>11. CASE Seed(r)
    BY <2>1, <2>2, <2>11 DEF Seed, ProductStep, Parts
  <2>12. CASE Apply(r)
    BY <2>1, <2>2, <2>12 DEF Apply, ProductStep, Parts
  <2>13. CASE SyncAndAssert(r)
    BY <2>1, <2>2, <2>13 DEF SyncAndAssert, Parts
  <2>14. CASE CallFails(r)
    BY <2>1, <2>2, <2>14 DEF CallFails, GiveUp
  <2>15. CASE ResumeApp(r)
    <3>1. faults' \in 0 .. MaxFaults /\ app' \in BOOLEAN /\ stranded' \in BOOLEAN
      <4>1. \/ app' = fixture /\ faults' = faults /\ stranded' = stranded
            \/ faults < MaxFaults /\ faults' = faults + 1 /\ stranded' = TRUE /\ app' = app
        BY <2>15, Zenon DEF ResumeApp
      <4>2. app' \in BOOLEAN /\ stranded' \in BOOLEAN
        BY <4>1, Zenon
      <4>3. faults' = faults \/ (faults < MaxFaults /\ faults' = faults + 1)
        BY <4>1, Zenon
      <4>4. faults' \in 0 .. MaxFaults
        BY <4>3 DEF LabAssumption
      <4> QED
        BY <4>2, <4>4
    <3> QED
      BY <2>1, <2>15, <3>1 DEF ResumeApp
  <2>16. CASE Enrich(r)
    BY <2>1, <2>2, <2>16 DEF Enrich, GiveUp
  <2>17. CASE ReleaseLock(r)
    BY <2>1, <2>2, <2>17 DEF ReleaseLock
  <2>18. CASE Crash(r)
    BY <2>1, <2>2, <2>18 DEF Crash
  <2> QED
    BY <1>5, <2>3, <2>4, <2>5, <2>6, <2>7, <2>8, <2>9, <2>10,
       <2>11, <2>12, <2>13, <2>14, <2>15, <2>16, <2>17, <2>18 DEF Runs
<1> QED
  BY <1>1, <1>2, <1>3, <1>4, <1>5 DEF Next

(* The lock file is that of the active process, until a live process loses *)
(* its file.                                                               *)
LockInv ==
  raced \/ \A r \in Runners : Active(r) => (lock # NoFile /\ lock.by = r)

(* An active process is alive.                                             *)
LEMMA ActiveAlive == ASSUME NEW r \in Runners, Active(r) PROVE Alive(r)
BY DEF Active, Alive, At, Wiping, ProductPath

(* A step of an active process is the step of the one that holds the lock. *)
LEMMA LockKept ==
  ASSUME LabAssumption, TypeOK, ThenInv, LockInv, [Next]_vars PROVE LockInv'
<1>1. CASE UNCHANGED <<lock, proc, raced>>
  BY <1>1 DEF LockInv, Active, At
<1>2. CASE LabUp \/ LabDown \/ AppDelivers
  BY <1>1, <1>2 DEF LabUp, LabDown, AppDelivers, ghosts
<1>3. ASSUME NEW r \in Runners, Runs(r) PROVE LockInv'
  <2>1. /\ \A q \in Runners : q # r => (Active(q)' <=> Active(q))
        /\ Active(r)' => (Active(r) \/ (CreateLock(r) /\ lock = NoFile))
    BY <1>3, RunsMoves DEF Moved, Others, Active, At
  <2>2. CASE UNCHANGED <<lock, raced>> /\ ~(CreateLock(r) /\ lock = NoFile)
    BY <2>1, <2>2 DEF LockInv
  <2>3. CASE ClearStaleLock(r)
    <3>1. Active(r)' => Active(r)
      BY <2>1, <2>3 DEF ClearStaleLock, CreateLock, At
    <3>2. SUFFICES ASSUME ~raced', NEW q \in Runners, Active(q)' PROVE FALSE
      BY DEF LockInv
    <3>3. Active(q) /\ ~raced /\ lock # NoFile /\ lock.by = q /\ ~Alive(lock.by)
      BY <2>1, <2>3, <3>1, <3>2 DEF ClearStaleLock, LockInv
    <3> QED
      BY <3>3, ActiveAlive
  <2>4. CASE CreateLock(r) /\ lock = NoFile
    <3>1. ~raced => \A q \in Runners : ~Active(q)
      BY <2>4 DEF LockInv
    <3>2. lock' = [by |-> r, written |-> FALSE] /\ raced' = raced
      BY <2>4 DEF CreateLock, ghosts
    <3>3. lock' # NoFile /\ lock'.by = r
        <4>1. lock' \in [by : Runners, written : BOOLEAN] /\ lock'.by = r
        BY <3>2
      <4> QED
        BY <4>1, LabAssumption DEF LabAssumption
    <3> QED
      BY <2>1, <3>1, <3>2, <3>3 DEF LockInv
  <2>5. CASE WriteLock(r)
    <3>1. raced' = raced /\ ~(CreateLock(r) /\ lock = NoFile)
      BY <2>5 DEF WriteLock, CreateLock, At, ghosts
    <3>2. lock # NoFile => (lock' # NoFile /\ lock'.by = lock.by)
      <4>1. lock # NoFile => (lock \in [by : Runners, written : BOOLEAN])
        BY DEF TypeOK
      <4>2. lock' = lock \/ (lock # NoFile /\ lock' = [lock EXCEPT !.written = TRUE])
        BY <2>5 DEF WriteLock
      <4>3. lock # NoFile => [lock EXCEPT !.written = TRUE] \in [by : Runners, written : BOOLEAN]
        BY <4>1
      <4> QED
        BY <4>1, <4>2, <4>3, LabAssumption
    <3> QED
      BY <2>1, <3>1, <3>2 DEF LockInv
  <2>6. CASE ReleaseLock(r)
    <3>1. Active(r) /\ ~Active(r)'
      <4>1. Goto(r, "ended") /\ At(r, {"release"})
        BY <2>6 DEF ReleaseLock
      <4>2. proc'[r].at = "ended"
        BY <4>1, GotoEffect DEF TypeOK, Phases
      <4> QED
        BY <4>1, <4>2 DEF Active, At, Wiping, ProductPath
    <3>2. SUFFICES ASSUME ~raced', NEW q \in Runners, Active(q)' PROVE FALSE
      BY DEF LockInv
    <3>3. ~raced /\ q # r /\ Active(q)
      BY <2>1, <2>6, <3>1, <3>2 DEF ReleaseLock
    <3> QED
      BY <3>1, <3>3 DEF LockInv
  <2>7. UNCHANGED <<lock, raced>> \/ ClearStaleLock(r) \/ CreateLock(r) \/ WriteLock(r) \/ ReleaseLock(r)
    BY <1>3 DEF Runs, Start, ReadLock, EnsureFixtureReady, PauseApp, Wipe, Seed, Apply, ProductStep,
                SyncAndAssert, CallFails, GiveUp, ResumeApp, Enrich, Crash, ghosts
  <2>8. CreateLock(r) => (lock = NoFile \/ UNCHANGED <<lock, raced>>)
    BY DEF CreateLock, ghosts
  <2> QED
    BY <2>2, <2>3, <2>4, <2>5, <2>6, <2>7, <2>8
<1> QED
  BY <1>1, <1>2, <1>3 DEF Next, vars, ghosts

(* What once happened stays known, and a process that is not active leaves *)
(* the Namespaces alone.                                                   *)
LEMMA GhostsStay ==
  ASSUME NEW r \in Runners, Runs(r)
  PROVE  /\ (raced => raced') /\ (stranded => stranded') /\ (upped => upped')
         /\ (fixture' => fixture)
         /\ ~Active(r) => UNCHANGED <<namespace, revived>>
<1> USE DEF ghosts, Active, At, Wiping, ProductPath
<1>1. (raced => raced') /\ (stranded => stranded') /\ (upped => upped') /\ (fixture' => fixture)
  <2>1. CASE ClearStaleLock(r)
    BY <2>1, Zenon DEF ClearStaleLock
  <2>2. CASE ReleaseLock(r)
    BY <2>2, Zenon DEF ReleaseLock
  <2>3. CASE ResumeApp(r)
    <3>1. (raced => raced') /\ (upped => upped') /\ (fixture' => fixture)
      BY <2>3 DEF ResumeApp
    <3>2. stranded => stranded'
      BY <2>3, Zenon DEF ResumeApp
    <3> QED
      BY <3>1, <3>2, Zenon
  <2>4. CASE Crash(r)
    BY <2>4, Zenon DEF Crash
  <2>5. \/ (raced => raced') /\ (stranded => stranded') /\ (upped => upped') /\ (fixture' => fixture)
        \/ ClearStaleLock(r) \/ ReleaseLock(r) \/ ResumeApp(r) \/ Crash(r)
    BY DEF Runs, Start, ReadLock, EnsureFixtureReady, CreateLock, WriteLock, PauseApp, Wipe, Seed,
           Apply, ProductStep, SyncAndAssert, CallFails, GiveUp, Enrich
  <2> QED
    BY <2>1, <2>2, <2>3, <2>4, <2>5, Zenon
<1>2. ~Active(r) => UNCHANGED <<namespace, revived>>
  BY DEF Runs, Start, ReadLock, ClearStaleLock, EnsureFixtureReady, CreateLock, WriteLock, PauseApp,
         Wipe, Seed, Apply, ProductStep, SyncAndAssert, CallFails, GiveUp, ResumeApp, Enrich,
         ReleaseLock, Crash
<1> QED
  BY <1>1, <1>2

(* The app is stopped while a product path runs: the only process that     *)
(* could resume it is the one that paused it.                              *)
LEMMA CaptureKept ==
  ASSUME TypeOK, ThenInv, LockInv, ExclusiveCapture, [Next]_vars PROVE ExclusiveCapture'
<1> USE DEF ExclusiveCapture
<1>1. CASE UNCHANGED <<proc, app, raced, upped>>
  BY <1>1 DEF InProductPath, At
<1>2. CASE LabUp
  BY <1>2 DEF LabUp, HoldsApp, InProductPath, At
<1>3. CASE LabDown
  BY <1>3 DEF LabDown
<1>4. CASE AppDelivers
  BY <1>1, <1>4 DEF AppDelivers
<1>5. ASSUME NEW r \in Runners, Runs(r), ~raced', ~upped', NEW q \in Runners, InProductPath(q)'
      PROVE  ~app'
  <2>1. ~raced /\ ~upped
    BY <1>5, GhostsStay
  <2>2. CASE q = r
    BY <1>5, <2>1, <2>2, RunsMoves
  <2>3. CASE q # r
    <3>1. InProductPath(q) /\ ~app
      BY <1>5, <2>1, <2>3, RunsMoves DEF Moved, Others, InProductPath, At
    <3>2. ~Active(r)
      BY <2>1, <2>3, <3>1 DEF LockInv, Active, InProductPath, At
    <3> QED
      BY <1>5, <3>1, <3>2 DEF Runs, Start, ReadLock, ClearStaleLock, EnsureFixtureReady, CreateLock,
         WriteLock, PauseApp, Wipe, Seed, Apply, ProductStep, SyncAndAssert, CallFails, GiveUp,
         ResumeApp, Enrich, ReleaseLock, Crash, Active, At
  <2> QED
    BY <2>2, <2>3
<1> QED
  BY <1>1, <1>2, <1>3, <1>4, <1>5 DEF Next, vars, ghosts

(* Whoever stopped the app is still in its product path, or about to       *)
(* resume it, or was kept from it.                                         *)
LEMMA AppBackKept ==
  ASSUME TypeOK, ThenInv, AppComesBack, [Next]_vars PROVE AppComesBack'
<1> USE DEF AppComesBack
<1>1. CASE UNCHANGED <<proc, app, fixture, stranded>>
  BY <1>1 DEF HoldsApp, InProductPath, At
<1>2. CASE LabUp \/ LabDown
  BY <1>2 DEF LabUp, LabDown
<1>3. CASE AppDelivers
  BY <1>1, <1>3 DEF AppDelivers
<1>4. ASSUME NEW r \in Runners, Runs(r), fixture', ~app', ~stranded'
      PROVE  \E q \in Runners : HoldsApp(q)'
  <2>1. fixture /\ ~stranded
    BY <1>4, RunsMoves, GhostsStay
  <2>2. CASE app
    <3>1. PauseApp(r) \/ ResumeApp(r)
      BY <1>4, <2>2 DEF Runs, Start, ReadLock, ClearStaleLock, EnsureFixtureReady, CreateLock,
         WriteLock, Wipe, Seed, Apply, ProductStep, SyncAndAssert, CallFails, GiveUp,
         Enrich, ReleaseLock, Crash
    <3>2. PauseApp(r) /\ GotoThen(r, "dropTables", "seed")
      BY <1>4, <2>1, <2>2, <3>1, Zenon DEF PauseApp, ResumeApp
    <3>3. proc'[r].at = "dropTables" /\ proc'[r].then = "seed"
      BY <3>2, GotoThenEffect DEF TypeOK, Phases, Wiping, ProductPath
    <3> QED
      BY <3>3 DEF HoldsApp, InProductPath, At, Wiping
  <2>3. CASE ~app
    <3>1. PICK q \in Runners : HoldsApp(q)
      BY <2>1, <2>3
    <3>2. CASE q = r
      BY <1>4, <2>1, <3>1, <3>2, RunsMoves
    <3>3. CASE q # r
      BY <1>4, <3>1, <3>3, RunsMoves DEF Moved, Others, HoldsApp, InProductPath, At
    <3> QED
      BY <3>2, <3>3
  <2> QED
    BY <2>2, <2>3
<1> QED
  BY <1>1, <1>2, <1>3, <1>4 DEF Next, vars, ghosts

(* What a wipe has dropped so far stays dropped, but for collections the   *)
(* app Delivers to.                                                        *)
Gone(r) ==
  LET s == proc[r].scenario
  IN  /\ At(r, {"dropCollections", "deleteDeployment"}) => "tables" \notin namespace[s]
      /\ At(r, {"deleteDeployment"}) => ("collections" \notin namespace[s] \/ s \in revived)
      /\ (At(r, {"release"}) /\ proc[r].removed) => (namespace[s] = {} \/ s \in revived)
WipeInv == raced \/ \A r \in Runners : Gone(r)

LEMMA WipeKept ==
  ASSUME TypeOK, ThenInv, LockInv, WipeInv, [Next]_vars PROVE WipeInv'
<1>1. CASE UNCHANGED <<proc, namespace, raced, revived>>
  BY <1>1 DEF WipeInv, Gone, At
<1>2. CASE LabUp
  BY <1>1, <1>2 DEF LabUp
<1>3. CASE LabDown
  <2>1. \A s \in Scenarios : namespace'[s] = {}
    BY <1>3 DEF LabDown
  <2>2. proc' = proc /\ \A r \in Runners : proc[r].scenario \in Scenarios
    BY <1>3 DEF LabDown, TypeOK, Processes
  <2> QED
    BY <2>1, <2>2 DEF WipeInv, Gone
<1>4. CASE AppDelivers
  <2>1. PICK s \in Scenarios : /\ namespace' = [namespace EXCEPT ![s] = @ \cup {"collections"}]
                               /\ revived' = revived \cup {s}
    BY <1>4 DEF AppDelivers
  <2>2. proc' = proc /\ raced' = raced /\ \A r \in Runners : proc[r].scenario \in Scenarios
    BY <1>4 DEF AppDelivers, TypeOK, Processes
  <2>3. \A t \in Scenarios : namespace'[t] = namespace[t] \cup (IF t = s THEN {"collections"} ELSE {})
    BY <2>1 DEF TypeOK
  <2>4. ASSUME NEW r \in Runners, Gone(r) PROVE Gone(r)'
    BY <2>1, <2>2, <2>3, <2>4 DEF Gone, At
  <2> QED
    BY <2>2, <2>4 DEF WipeInv
<1>5. ASSUME NEW r \in Runners, Runs(r), ~raced', NEW q \in Runners PROVE Gone(q)'
  <2>1. ~raced /\ Gone(q)
    BY <1>5, GhostsStay DEF WipeInv
  <2>2. CASE q # r
    <3>1. proc'[q] = proc[q]
      BY <1>5, <2>2, RunsMoves DEF Moved, Others
    <3>2. CASE Active(r)
      <4>1. ~Active(q)
        BY <2>1, <2>2, <3>2 DEF LockInv
      <4> QED
        BY <3>1, <4>1 DEF Gone, At, Active, Wiping
    <3>3. CASE ~Active(r)
      BY <1>5, <2>1, <3>1, <3>3, GhostsStay DEF Gone, At
    <3> QED
      BY <3>2, <3>3
  <2>3. CASE q = r /\ ~Wipe(r)
    BY <1>5, <2>3, RunsMoves DEF Gone, Emptied, At
  <2>4. CASE q = r /\ Wipe(r)
    <3> DEFINE s == proc[r].scenario
    <3>1. s \in Scenarios /\ proc[r].then \in Phases
      BY DEF TypeOK, Processes
    <3>2. /\ namespace' = [namespace EXCEPT ![s] = @ \ {NextPart[proc[r].at]}]
          /\ revived' = IF At(r, {"dropTables"}) THEN revived \ {s} ELSE revived
          /\ At(r, Wiping)
      BY <2>4 DEF Wipe
    <3>3. namespace'[s] = namespace[s] \ {NextPart[proc[r].at]} /\ namespace[s] \subseteq Parts
      BY <3>1, <3>2 DEF TypeOK
    <3>4. /\ proc'[r].at = NextWipe(r) /\ proc'[r].scenario = s
          /\ proc'[r].removed = (NextWipe(r) = "release")
      <4>1. NextWipe(r) \in Phases
        BY <3>1 DEF NextWipe, Phases, Wiping
      <4> QED
        BY <2>4, <4>1, WipeEffect DEF TypeOK, Moved
    <3>5. proc[r].then \in {"seed", "release"}
      BY <3>2 DEF ThenInv
    <3>6. CASE At(r, {"dropTables"})
      BY <2>4, <3>3, <3>4, <3>6 DEF Gone, At, NextWipe, NextPart
    <3>7. CASE At(r, {"dropCollections"})
      BY <2>1, <2>4, <3>3, <3>4, <3>7 DEF Gone, At, NextWipe, NextPart
    <3>8. CASE At(r, {"deleteDeployment"})
      <4>1. proc'[r].at \in {"seed", "release"} /\ "deployment" \notin namespace'[s] /\ revived' = revived
        BY <3>2, <3>3, <3>4, <3>5, <3>8 DEF NextWipe, NextPart, At
      <4>2. "tables" \notin namespace'[s] /\ ("collections" \notin namespace'[s] \/ s \in revived')
        BY <2>1, <2>4, <3>3, <3>8, <4>1 DEF Gone, At
      <4> QED
        BY <2>4, <3>3, <3>4, <4>1, <4>2 DEF Gone, At, Parts
    <3> QED
      BY <3>2, <3>6, <3>7, <3>8 DEF At, Wiping
  <2> QED
    BY <2>2, <2>3, <2>4
<1> QED
  BY <1>1, <1>2, <1>3, <1>4, <1>5 DEF Next, vars, ghosts, WipeInv

-----------------------------------------------------------------------------
IInv == TypeOK /\ ThenInv /\ LockInv /\ ExclusiveCapture /\ AppComesBack /\ WipeInv

LEMMA InitHolds == ASSUME LabAssumption, Init PROVE IInv
<1>1. \A r \in Runners : proc[r].at = "new" /\ ~proc[r].removed
  BY DEF Init
<1>2. proc \in [Runners -> Processes]
  BY DEF Init, Processes, Phases
<1>3. TypeOK
  <2>1. /\ lock = NoFile /\ fixture \in BOOLEAN /\ app \in BOOLEAN
        /\ raced \in BOOLEAN /\ upped \in BOOLEAN /\ stranded \in BOOLEAN /\ revived = {}
    BY Zenon DEF Init
  <2>2. namespace \in [Scenarios -> SUBSET Parts] /\ crashes = 0 /\ faults = 0 /\ operator = 0
    BY DEF Init
  <2> QED
    BY <1>2, <2>1, <2>2 DEF TypeOK, LabAssumption
<1>4. ThenInv /\ LockInv /\ ExclusiveCapture /\ AppComesBack /\ WipeInv
  BY <1>1 DEF Init, ThenInv, LockInv, ExclusiveCapture, AppComesBack, WipeInv, Gone, At, Active,
              InProductPath, Wiping, ProductPath
<1> QED
  BY <1>3, <1>4 DEF IInv

LEMMA ThenKept ==
  ASSUME TypeOK, ThenInv, [Next]_vars PROVE ThenInv'
<1>1. CASE UNCHANGED proc
  BY <1>1 DEF ThenInv, At
<1>2. ASSUME NEW r \in Runners, Runs(r) PROVE ThenInv'
  BY <1>2, RunsMoves
<1> QED
  BY <1>1, <1>2 DEF Next, LabUp, LabDown, AppDelivers, vars

LEMMA Invariance == Spec => []IInv
<1>1. Init => IInv
  BY LabAssumption, InitHolds
<1>2. IInv /\ [Next]_vars => IInv'
  BY LabAssumption, TypeKept, ThenKept, LockKept, CaptureKept, AppBackKept, WipeKept DEF IInv
<1> QED
  BY <1>1, <1>2, PTL DEF Spec

(* Type correctness, whatever is killed and whatever fails.                *)
THEOREM TypeCorrect == Spec => []TypeOK
<1>1. IInv => TypeOK
  BY DEF IInv
<1> QED
  BY <1>1, Invariance, PTL

(* For any number of processes at most one Scenario is prepared, run or    *)
(* removed at a time, as long as no lock of a live process was taken for   *)
(* a stale one (lab_scenario/mod.rs, read_active_lock).                    *)
THEOREM OneScenarioAtATimeHolds == Spec => []OneScenarioAtATime
<1>1. IInv => OneScenarioAtATime
  BY DEF IInv, LockInv, OneScenarioAtATime
<1> QED
  BY <1>1, Invariance, PTL

(* Under the same condition, and while nobody starts the Fixture anew, the *)
(* app does not capture beside the product path (lab.rs, pause_fixture_app).*)
THEOREM ExclusiveCaptureHolds == Spec => []ExclusiveCapture
<1>1. IInv => ExclusiveCapture
  BY DEF IInv
<1> QED
  BY <1>1, Invariance, PTL

(* However a run ends, the app it stopped comes back, but for a kill or a  *)
(* failed start (lab_scenario/mod.rs, scenario_run).                       *)
THEOREM AppComesBackHolds == Spec => []AppComesBack
<1>1. IInv => AppComesBack
  BY DEF IInv
<1> QED
  BY <1>1, Invariance, PTL

(* A removed Namespace is empty unless the app Delivered to it meanwhile   *)
(* (lab_scenario/namespace.rs, wipe_namespace).                            *)
THEOREM RemovedNamespaceIsGoneHolds == Spec => []RemovedNamespaceIsGone
<1>1. IInv => RemovedNamespaceIsGone
  BY DEF IInv, WipeInv, Gone, RemovedNamespaceIsGone
<1> QED
  BY <1>1, Invariance, PTL
=============================================================================
