------------------------------- MODULE LabRun -------------------------------
(***************************************************************************)
(* `migraloop lab` commands on one Lab directory: scenario run, scenario   *)
(* remove and status, each a process of its own, with the lock file that   *)
(* keeps Scenarios apart, the Fixture's app (a continuous `migraloop run`) *)
(* that a Scenario pauses, and the Namespace it prepares and removes.      *)
(* Reading the lock file and removing a stale one are two steps, and so    *)
(* are creating the file and writing the owner into it.                    *)
(* What the product path of a Scenario does and finds is LabScenarios;     *)
(* here it passes, fails or ends in an error.                              *)
(***************************************************************************)
EXTENDS Naturals, FiniteSets

CONSTANTS
  Runners,      \* processes, each of which runs one command
  Scenarios,    \* selectable Scenarios, with Namespaces of their own
  NoFile,       \* the lock file does not exist
  MaxCrashes,   \* bound: processes killed
  MaxFaults,    \* bound: failures of docker compose, of the disk, of a store
  MaxOperator   \* bound: `lab up` and `lab down`

ASSUME LabAssumption ==
  /\ NoFile \notin [by : Runners, written : BOOLEAN]
  /\ MaxCrashes \in Nat /\ MaxFaults \in Nat /\ MaxOperator \in Nat

VARIABLES
  lock,       \* the lock file: NoFile, or who created it and whether it is written
  proc,       \* what every process does
  fixture,    \* are Oracle, MongoDB and the Platform Store up
  app,        \* does the app of the Fixture run
  namespace,  \* of every Scenario: which parts of its Namespace exist
  crashes, faults, operator,
  raced,      \* a lock of a live process was taken for a stale one and removed
  upped,      \* `lab up` started the app while a Scenario was on
  stranded,   \* a crash or a fault kept an app that was paused from coming back
  revived     \* Namespaces the app Delivered to while they were removed

budget == <<crashes, faults, operator>>
ghosts == <<raced, upped, stranded, revived>>
vars == <<lock, proc, fixture, app, namespace, budget, ghosts>>

Parts == {"tables", "collections", "deployment"}
Wiping == {"dropTables", "dropCollections", "deleteDeployment"}
ProductPath == {"seed", "apply", "sync"}
Phases == {"new", "look", "clear", "ready", "create", "write", "pause", "resume",
           "enrich", "release", "ended", "killed"} \cup Wiping \cup ProductPath

(* then: where a look at the lock file leads when nothing is active, and   *)
(* where a wipe leads when it is done.                                     *)
Processes ==
  [verb : {"run", "remove", "status"}, scenario : Scenarios, autoRemove : BOOLEAN,
   at : Phases, then : Phases, verdict : {"none", "passed", "failed", "error"},
   removed : BOOLEAN]

TypeOK ==
  /\ lock \in [by : Runners, written : BOOLEAN] \cup {NoFile}
  /\ proc \in [Runners -> Processes]
  /\ fixture \in BOOLEAN /\ app \in BOOLEAN
  /\ namespace \in [Scenarios -> SUBSET Parts]
  /\ crashes \in 0 .. MaxCrashes /\ faults \in 0 .. MaxFaults /\ operator \in 0 .. MaxOperator
  /\ raced \in BOOLEAN /\ upped \in BOOLEAN /\ stranded \in BOOLEAN
  /\ revived \subseteq Scenarios

At(r, phases) == proc[r].at \in phases
Alive(r) == ~At(r, {"new", "ended", "killed"})
InProductPath(r) == At(r, ProductPath) \/ (At(r, Wiping) /\ proc[r].then = "seed")
HoldsApp(r) == InProductPath(r) \/ At(r, {"resume"})
Active(r) ==
  At(r, {"write", "pause", "resume", "enrich", "release"} \cup Wiping \cup ProductPath)

Goto(r, phase) == proc' = [proc EXCEPT ![r].at = phase]
GotoThen(r, phase, then) == proc' = [proc EXCEPT ![r].at = phase, ![r].then = then]
Fault == faults < MaxFaults /\ faults' = faults + 1

Init ==
  /\ lock = NoFile
  /\ \E verb \in [Runners -> {"run", "remove", "status"}],
        scenario \in [Runners -> Scenarios], autoRemove \in [Runners -> BOOLEAN] :
       /\ \A r \in Runners : autoRemove[r] => verb[r] = "run"
       /\ proc = [r \in Runners |->
            [verb |-> verb[r], scenario |-> scenario[r], autoRemove |-> autoRemove[r],
             at |-> "new", then |-> "ended", verdict |-> "none", removed |-> FALSE]]
  /\ fixture = TRUE /\ app = TRUE
  /\ namespace = [s \in Scenarios |-> {}]
  /\ crashes = 0 /\ faults = 0 /\ operator = 0
  /\ raced = FALSE /\ upped = FALSE /\ stranded = FALSE /\ revived = {}

Start(r) ==
  /\ At(r, {"new"})
  /\ GotoThen(r, "look", IF proc[r].verb = "status" THEN "ended" ELSE "ready")
  /\ UNCHANGED <<lock, fixture, app, namespace, budget, ghosts>>

(* read_active_lock: a file that cannot be parsed is an error, a live      *)
(* owner ends the command, a dead one makes the file stale.                *)
ReadLock(r) ==
  /\ At(r, {"look"})
  /\ Goto(r, IF lock = NoFile THEN proc[r].then
             ELSE IF ~lock.written \/ Alive(lock.by) THEN "ended" ELSE "clear")
  /\ UNCHANGED <<lock, fixture, app, namespace, budget, ghosts>>

(* The file is removed by its path, whatever it holds by now.              *)
ClearStaleLock(r) ==
  /\ At(r, {"clear"})
  /\ raced' = (raced \/ (lock # NoFile /\ Alive(lock.by)))
  /\ lock' = NoFile /\ Goto(r, proc[r].then)
  /\ UNCHANGED <<fixture, app, namespace, budget, upped, stranded, revived>>

EnsureFixtureReady(r) ==
  /\ At(r, {"ready"})
  /\ IF fixture THEN GotoThen(r, "look", "create") ELSE Goto(r, "ended")
  /\ UNCHANGED <<lock, fixture, app, namespace, budget, ghosts>>

(* Mutant: the file is created whether or not it exists. *)
FaultyCreateLock(r) ==
  /\ At(r, {"create"})
  /\ lock' = [by |-> r, written |-> FALSE] /\ Goto(r, "write")
  /\ UNCHANGED <<fixture, app, namespace, budget, ghosts>>

(* The exclusive create: when the file exists the error path looks at it   *)
(* once more, which may remove it, and the command ends.                   *)
CreateLock(r) ==
  /\ At(r, {"create"})
  /\ IF lock = NoFile
     THEN lock' = [by |-> r, written |-> FALSE] /\ Goto(r, "write")
     ELSE GotoThen(r, "look", "ended") /\ UNCHANGED lock
  /\ UNCHANGED <<fixture, app, namespace, budget, ghosts>>

(* Writes into the file it created, which may have lost its name; when the *)
(* write fails the file stays as it is.                                    *)
WriteLock(r) ==
  /\ At(r, {"write"})
  /\ \/ /\ lock' = IF lock # NoFile /\ lock.by = r THEN [lock EXCEPT !.written = TRUE] ELSE lock
        /\ IF proc[r].verb = "run" THEN Goto(r, "pause") ELSE GotoThen(r, "dropTables", "release")
        /\ UNCHANGED faults
     \/ Fault /\ Goto(r, "ended") /\ UNCHANGED lock
  /\ UNCHANGED <<fixture, app, namespace, crashes, operator, ghosts>>

(* Mutant: a failed `compose pause` is only warned of. *)
FaultyPauseApp(r) ==
  /\ At(r, {"pause"})
  /\ GotoThen(r, "dropTables", "seed")
  /\ (app' = FALSE /\ UNCHANGED faults) \/ (Fault /\ UNCHANGED app)
  /\ UNCHANGED <<lock, fixture, namespace, crashes, operator, ghosts>>

(* A `compose stop` that fails ends the run, which does not resume the app *)
(* then, although it may have been stopped.                                *)
PauseApp(r) ==
  /\ At(r, {"pause"})
  /\ \/ /\ app' = FALSE /\ GotoThen(r, "dropTables", "seed")
        /\ UNCHANGED <<faults, stranded>>
     \/ /\ Fault /\ Goto(r, "release")
        /\ UNCHANGED <<app, stranded>> \/ (app' = FALSE /\ stranded' = TRUE)
  /\ UNCHANGED <<lock, fixture, namespace, crashes, operator, raced, upped, revived>>

(* Mutant: the first error returns at once. *)
FaultyAfterError(r) == "release"

(* An error in the product path still resumes the app; after it, or in a   *)
(* removal, the process only gives up its lock.                            *)
AfterError(r) == IF InProductPath(r) THEN "resume" ELSE "release"
GiveUp(r) ==
  /\ proc' = [proc EXCEPT ![r].at = AfterError(r), ![r].verdict = "error"]
  /\ UNCHANGED <<lock, fixture, app, namespace, crashes, operator, ghosts>>

(* Any call to Oracle, MongoDB or the Platform Store may fail.             *)
CallFails(r) ==
  /\ At(r, Wiping \cup ProductPath)
  /\ (~fixture /\ UNCHANGED faults) \/ Fault
  /\ GiveUp(r)

NextPart == [dropTables |-> "tables", dropCollections |-> "collections",
             deleteDeployment |-> "deployment"]
(* Mutant: no collection is dropped. *)
FaultyNextWipe(r) == IF At(r, {"dropTables"}) THEN "deleteDeployment" ELSE proc[r].then
NextWipe(r) ==
  CASE At(r, {"dropTables"}) -> "dropCollections"
    [] At(r, {"dropCollections"}) -> "deleteDeployment"
    [] OTHER -> proc[r].then

(* wipe_namespace: Source tables, then Target collections, then the        *)
(* Deployment.                                                             *)
Wipe(r) ==
  /\ At(r, Wiping) /\ fixture
  /\ namespace' = [namespace EXCEPT ![proc[r].scenario] = @ \ {NextPart[proc[r].at]}]
  /\ proc' = [proc EXCEPT ![r].at = NextWipe(r), ![r].removed = NextWipe(r) = "release"]
  /\ revived' = IF At(r, {"dropTables"}) THEN revived \ {proc[r].scenario} ELSE revived
  /\ UNCHANGED <<lock, fixture, app, budget, raced, upped, stranded>>

(* The product path: tables and seed, apply, and the rest of the script.   *)
ProductStep(r, phase, part, next) ==
  /\ At(r, {phase}) /\ fixture
  /\ namespace' = [namespace EXCEPT ![proc[r].scenario] = @ \cup {part}]
  /\ Goto(r, next)
  /\ UNCHANGED <<lock, fixture, app, budget, ghosts>>

Seed(r) == ProductStep(r, "seed", "tables", "apply")
Apply(r) == ProductStep(r, "apply", "deployment", "sync")

(* Correctness and thresholds are judged when the script is through.       *)
SyncAndAssert(r) ==
  /\ At(r, {"sync"}) /\ fixture
  /\ namespace' = [namespace EXCEPT ![proc[r].scenario] = @ \cup {"collections"}]
  /\ \E verdict \in {"passed", "failed"} :
       proc' = [proc EXCEPT ![r].at = "resume", ![r].verdict = verdict]
  /\ UNCHANGED <<lock, fixture, app, budget, ghosts>>

(* Best effort: a failure is only a warning.                               *)
ResumeApp(r) ==
  /\ At(r, {"resume"})
  /\ Goto(r, IF proc[r].verdict = "error" THEN "release" ELSE "enrich")
  /\ \/ app' = fixture /\ UNCHANGED <<faults, stranded>>
     \/ Fault /\ stranded' = TRUE /\ UNCHANGED app
  /\ UNCHANGED <<lock, fixture, namespace, crashes, operator, raced, upped, revived>>

(* The component pressure decides whether the infrastructure was saturated: *)
(* only a run that passed and was not is cleaned up.                       *)
Enrich(r) ==
  /\ At(r, {"enrich"})
  /\ \/ /\ fixture /\ UNCHANGED faults
        /\ \E saturated \in BOOLEAN :
             IF proc[r].autoRemove /\ proc[r].verdict = "passed" /\ ~saturated
             THEN GotoThen(r, "dropTables", "release") ELSE Goto(r, "release")
        /\ UNCHANGED <<lock, fixture, app, namespace, crashes, operator, ghosts>>
     \/ ((~fixture /\ UNCHANGED faults) \/ Fault) /\ GiveUp(r)

(* Dropping the lock removes the file, whoever created it.                 *)
ReleaseLock(r) ==
  /\ At(r, {"release"})
  /\ raced' = (raced \/ (lock # NoFile /\ lock.by # r /\ Alive(lock.by)))
  /\ lock' = NoFile /\ Goto(r, "ended")
  /\ UNCHANGED <<fixture, app, namespace, budget, upped, stranded, revived>>

(* A kill runs no destructor: the lock file and a paused app stay.         *)
Crash(r) ==
  /\ Alive(r) /\ crashes < MaxCrashes /\ crashes' = crashes + 1
  /\ stranded' = (stranded \/ HoldsApp(r))
  /\ Goto(r, "killed")
  /\ UNCHANGED <<lock, fixture, app, namespace, faults, operator, raced, upped, revived>>

Runs(r) ==
  \/ Start(r) \/ ReadLock(r) \/ ClearStaleLock(r) \/ EnsureFixtureReady(r)
  \/ CreateLock(r) \/ WriteLock(r) \/ PauseApp(r) \/ Wipe(r) \/ Seed(r) \/ Apply(r)
  \/ SyncAndAssert(r) \/ CallFails(r) \/ ResumeApp(r) \/ Enrich(r) \/ ReleaseLock(r)
  \/ Crash(r)

(* `lab up` and `lab down` do not look at the lock.                        *)
LabUp ==
  /\ operator < MaxOperator /\ operator' = operator + 1
  /\ fixture' = TRUE /\ app' = TRUE
  /\ upped' = (upped \/ \E r \in Runners : HoldsApp(r))
  /\ stranded' = FALSE
  /\ UNCHANGED <<lock, proc, namespace, crashes, faults, raced, revived>>

LabDown ==
  /\ operator < MaxOperator /\ operator' = operator + 1
  /\ fixture' = FALSE /\ app' = FALSE
  /\ namespace' = [s \in Scenarios |-> {}]
  /\ UNCHANGED <<lock, proc, crashes, faults, ghosts>>

(* A cycle of the app Delivers changes it has read, to a collection that   *)
(* MongoDB creates when it is not there.                                   *)
AppDelivers ==
  /\ app /\ fixture
  /\ \E s \in Scenarios :
       /\ "deployment" \in namespace[s] /\ "collections" \notin namespace[s]
       /\ namespace' = [namespace EXCEPT ![s] = @ \cup {"collections"}]
       /\ revived' = revived \cup {s}
  /\ UNCHANGED <<lock, proc, fixture, app, budget, raced, upped, stranded>>

Next == (\E r \in Runners : Runs(r)) \/ LabUp \/ LabDown \/ AppDelivers

Spec == Init /\ [][Next]_vars

-----------------------------------------------------------------------------
(* At most one Scenario is prepared, run or removed at a time: true until  *)
(* a process removes as stale a lock that another one has replaced between *)
(* its reading and its removing.                                           *)
OneScenarioAtATime ==
  raced \/ \A r, other \in Runners : (Active(r) /\ Active(other)) => r = other

(* While the product path of a Scenario runs, the app does not capture     *)
(* beside it: pausing and resuming both happen under the lock. `lab up`    *)
(* breaks it, which looks at no lock.                                      *)
ExclusiveCapture ==
  raced \/ upped \/ \A r \in Runners : InProductPath(r) => ~app

(* The app of a Fixture that is up runs again when no Scenario is on, on   *)
(* every path out of a run, the ones that end in an error included; a      *)
(* killed process leaves it stopped, and so do a failed `compose start`    *)
(* and a `compose stop` that fails when it has stopped the app.            *)
AppComesBack ==
  (fixture /\ ~app) => (stranded \/ \E r \in Runners : HoldsApp(r))

(* A process that removed a Namespace leaves no part of it, unless the app *)
(* Delivered to it in between: the app runs while a Namespace is removed,  *)
(* and its Deployment goes last.                                           *)
RemovedNamespaceIsGone ==
  \A r \in Runners :
    (At(r, {"release"}) /\ proc[r].removed) =>
      (raced \/ proc[r].scenario \in revived \/ namespace[proc[r].scenario] = {})

=============================================================================
