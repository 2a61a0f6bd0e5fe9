-------------------------- MODULE PipelineLifecycle --------------------------
(***************************************************************************)
(* The Operator verbs (apply, pause, resume, remove) against the cycles of *)
(* Incremental Sync, for the Pipelines that read one Base Dataset. A cycle *)
(* works from the Pipeline list it read when it started; a verb is a       *)
(* sequence of Platform Store and Target calls, and holds no lock that a   *)
(* cycle takes. How the Base Dataset is loaded and advanced is the         *)
(* business of InitialLoad and IncrementalSync: here a load yields the     *)
(* rows of its watermark, and a cycle applies the log change by change.    *)
(***************************************************************************)
EXTENDS Naturals, Sequences, FiniteSets

CONSTANTS
  Keys,          \* Source Primary Key values
  Absent,        \* no row, no document
  NumPipelines,  \* Pipelines that may be declared, in the order they are listed
  Transforms,    \* those of them that materialize a Derived Dataset
  Initial,       \* those applied and Delivered at the start
  Verbs,         \* the Operator verbs used
  Interleaved,   \* may a verb run while a cycle runs
  Stops,         \* stages at which a verb may stop, by a crash or an error
  LoadPauses,    \* may an apply pause its Initial Load before the end
  Redeclares,    \* may a Pipeline be declared over documents of an earlier one
  MaxChanges,    \* bound: changes of the Source
  MaxRevision,   \* bound: revisions of a Pipeline
  MaxVerbs,      \* bound: verbs
  MaxCrashes     \* bound: cycles that crash or fail midway

Pipelines == 1 .. NumPipelines

ASSUME LifecycleAssumption ==
  /\ Absent \notin Nat
  /\ NumPipelines \in Nat
  /\ Transforms \subseteq Pipelines /\ Initial \subseteq Pipelines
  /\ Verbs \subseteq {"pause", "resume", "remove", "apply"}
  /\ Stops \subseteq {"replace", "base", "next", "derive", "upsert", "reconcile", "delivered"}
  /\ {Interleaved, LoadPauses, Redeclares} \subseteq BOOLEAN
  /\ {MaxChanges, MaxRevision, MaxVerbs, MaxCrashes} \subseteq Nat

VARIABLES
  log,       \* changes of the Source table: key and image
  (* the Platform Store *)
  base,      \* the Base Dataset: status, rows, and changes applied
  pipe,      \* pipelines: revision (0 if none), paused, delivered
  derived,   \* Derived Dataset of every Transform Pipeline
  target,    \* the Target's documents of every Pipeline
  (* the memory of the running cycle *)
  cpc, listed, rows, position, todo,
  (* the memory of the running verb *)
  vpc,       \* what the verb does next
  existing,  \* Pipelines as apply read them
  wanted,    \* revision of every Pipeline the verb handles
  catchUp,   \* Pipelines to Deliver with reconciliation of deletes
  revised,   \* Pipelines to unpause after that
  starts,    \* Pipelines to Deliver for the first time
  snapshot,  \* Base rows read for the Delivery
  verbs, crashes

cycleVars == <<cpc, listed, rows, position, todo>>
verbVars  == <<vpc, existing, wanted, catchUp, revised, starts, snapshot>>
vars == <<log, base, pipe, derived, target, cycleVars, verbVars, verbs, crashes>>

Images    == Nat \cup {Absent}
Rows      == [Keys -> Images]
NoRows    == [k \in Keys |-> Absent]
Stored    == [rev : Nat, paused : BOOLEAN, delivered : BOOLEAN]
NoPipe    == [rev |-> 0, paused |-> FALSE, delivered |-> FALSE]
NoPipes   == [p \in Pipelines |-> NoPipe]
FaultyDocument(image, rev) == <<image, rev>>

(* A deleted row has no document.                                          *)
Document(image, rev) == IF image = Absent THEN Absent ELSE <<image, rev>>
Documents == [Keys -> (Nat \X Nat) \cup {Absent}]

TypeOK ==
  /\ log \in Seq([key : Keys, image : Images])
  /\ base \in [status : {"none", "loading", "ready"}, rows : Rows, position : Nat]
  /\ pipe \in [Pipelines -> Stored] /\ listed \in [Pipelines -> Stored]
  /\ existing \in [Pipelines -> Stored] /\ wanted \in [Pipelines -> Nat]
  /\ derived \in [Pipelines -> Rows] /\ target \in [Pipelines -> Documents]
  /\ rows \in Rows /\ snapshot \in Rows /\ position \in Nat
  /\ {todo, catchUp, revised, starts} \subseteq SUBSET Pipelines
  /\ cpc \in {"idle", "read", "item", "deliver", "write", "progress", "lag"}
  /\ vpc \in {"none", "replace", "base", "next", "derive", "upsert", "reconcile",
              "delivered"}
  /\ verbs \in 0 .. MaxVerbs /\ crashes \in 0 .. MaxCrashes

Declared(pipes) == {p \in Pipelines : pipes[p].rev # 0}

(* v is the image of row k after the first n changes; every row starts     *)
(* with image 0.                                                           *)
IsImageAfter(n, k, v) ==
  \/ v = 0 /\ \A i \in 1 .. n : log[i].key # k
  \/ \E i \in 1 .. n : /\ log[i].key = k /\ log[i].image = v
                      /\ \A j \in 1 .. n : log[j].key = k => j <= i

IsTableAfter(n, table) == \A k \in Keys : IsImageAfter(n, k, table[k])

NoCycle ==
  /\ cpc = "idle" /\ listed = NoPipes /\ rows = NoRows /\ position = 0 /\ todo = {}

NoVerb ==
  /\ vpc = "none" /\ existing = NoPipes /\ wanted = [p \in Pipelines |-> 0]
  /\ catchUp = {} /\ revised = {} /\ starts = {} /\ snapshot = NoRows

(* The Pipelines of Initial have been applied to a Source with all rows.   *)
Init ==
  LET AllRows == [k \in Keys |-> 0]
  IN  /\ log = << >>
      /\ base = IF Initial = {} THEN [status |-> "none", rows |-> NoRows, position |-> 0]
                ELSE [status |-> "ready", rows |-> AllRows, position |-> 0]
      /\ pipe = [p \in Pipelines |->
                   IF p \in Initial THEN [rev |-> 1, paused |-> FALSE, delivered |-> TRUE] ELSE NoPipe]
      /\ derived = [p \in Pipelines |->
                      IF p \in Initial /\ p \in Transforms THEN AllRows ELSE NoRows]
      /\ target = [p \in Pipelines |->
                     IF p \in Initial THEN [k \in Keys |-> Document(0, 1)] ELSE NoRows]
      /\ NoCycle /\ NoVerb
      /\ verbs = 0 /\ crashes = 0

SourceChange ==
  /\ Len(log) < MaxChanges
  /\ \E k \in Keys, image \in {Len(log) + 1, Absent} :
       /\ image = Absent => ~IsImageAfter(Len(log), k, Absent)
       /\ log' = Append(log, [key |-> k, image |-> image])
  /\ UNCHANGED <<base, pipe, derived, target, cycleVars, verbVars, verbs, crashes>>

-----------------------------------------------------------------------------
(* A cycle of Incremental Sync.                                            *)

EndCycle ==
  /\ cpc' = "idle" /\ listed' = NoPipes /\ rows' = NoRows /\ position' = 0 /\ todo' = {}

Change == log[position + 1]

CycleStart ==
  /\ cpc = "idle" /\ Declared(pipe) # {}
  /\ Interleaved \/ vpc = "none"
  /\ cpc' = "read" /\ listed' = pipe
  /\ UNCHANGED <<log, base, pipe, derived, target, rows, position, todo, verbVars, verbs, crashes>>

(* A Base Dataset that Initial Load still owns is skipped; one that is     *)
(* gone ends the cycle with an error.                                      *)
CycleReadBase ==
  /\ cpc = "read"
  /\ IF base.status = "ready"
       THEN /\ cpc' = "item" /\ rows' = base.rows /\ position' = base.position
            /\ UNCHANGED <<listed, todo>>
       ELSE EndCycle
  /\ UNCHANGED <<log, base, pipe, derived, target, verbVars, verbs, crashes>>

FaultyRunning(pipes) == Declared(pipes)

Running(pipes) == {p \in Declared(pipes) : ~pipes[p].paused}

CycleApply ==
  /\ cpc = "item" /\ position < Len(log)
  /\ rows' = [rows EXCEPT ![Change.key] = Change.image]
  /\ todo' = Running(listed)
  /\ cpc' = "deliver"
  /\ UNCHANGED <<log, base, pipe, derived, target, listed, position, verbVars, verbs, crashes>>

IsNextPipeline(p, S) == p \in S /\ \A q \in S : p <= q

FaultyMaintained(p) ==
  IF rows[Change.key] = Absent THEN derived[p]
  ELSE [derived[p] EXCEPT ![Change.key] = rows[Change.key]]

(* Derived rows of p after the affected identity has been recomputed.      *)
Maintained(p) == [derived[p] EXCEPT ![Change.key] = rows[Change.key]]

(* A Derived Dataset refers to its Pipeline: without it the transaction    *)
(* fails before anything is Delivered.                                     *)
CycleMaintain(p) ==
  /\ cpc = "deliver" /\ p \in Transforms /\ IsNextPipeline(p, todo)
  /\ IF pipe[p].rev = 0
       THEN cpc' = "progress" /\ UNCHANGED derived
       ELSE cpc' = "write" /\ derived' = [derived EXCEPT ![p] = Maintained(p)]
  /\ UNCHANGED <<log, base, pipe, target, listed, rows, position, todo, verbVars, verbs, crashes>>

CycleDeliver(p) ==
  /\ cpc = (IF p \in Transforms THEN "write" ELSE "deliver")
  /\ IsNextPipeline(p, todo)
  /\ target' = [target EXCEPT ![p][Change.key] = Document(rows[Change.key], listed[p].rev)]
  /\ cpc' = "progress"
  /\ UNCHANGED <<log, base, pipe, derived, listed, rows, position, todo, verbVars, verbs, crashes>>

(* Delivery progress marks the Pipeline delivered (a Transform Pipeline    *)
(* only when documents were touched); without the Pipeline the cycle fails. *)
CycleProgress(p) ==
  /\ cpc = "progress" /\ IsNextPipeline(p, todo)
  /\ IF pipe[p].rev = 0
       THEN EndCycle /\ UNCHANGED pipe
       ELSE /\ \/ pipe' = [pipe EXCEPT ![p].delivered = TRUE]
               \/ p \in Transforms /\ rows[Change.key] = Absent /\ UNCHANGED pipe
            /\ todo' = todo \ {p} /\ cpc' = "deliver"
            /\ UNCHANGED <<listed, rows, position>>
  /\ UNCHANGED <<log, base, derived, target, verbVars, verbs, crashes>>

FaultyRecordedRows ==
  IF rows[Change.key] = Absent THEN base.rows
  ELSE [base.rows EXCEPT ![Change.key] = rows[Change.key]]

RecordedRows == [base.rows EXCEPT ![Change.key] = rows[Change.key]]

(* One transaction; the Base Dataset's row is inserted if it is not there. *)
CycleRecord ==
  /\ cpc = "deliver" /\ todo = {}
  /\ base' = [status |-> "ready", rows |-> RecordedRows, position |-> position + 1]
  /\ position' = position + 1
  /\ cpc' = "lag"
  /\ UNCHANGED <<log, pipe, derived, target, listed, rows, todo, verbVars, verbs, crashes>>

(* The lag of every listed Pipeline is stored, and the cycle fails on one  *)
(* that is gone.                                                           *)
CycleLag ==
  /\ cpc = "lag"
  /\ IF Declared(listed) \subseteq Declared(pipe)
       THEN cpc' = "item" /\ UNCHANGED <<listed, rows, position, todo>>
       ELSE EndCycle
  /\ UNCHANGED <<log, base, pipe, derived, target, verbVars, verbs, crashes>>

(* Sync fields are updated, if there still is a Base Dataset.              *)
CycleCaughtUp ==
  /\ cpc = "item" /\ position = Len(log)
  /\ base' = IF base.status = "none" THEN base
             ELSE [base EXCEPT !.status = "ready", !.position = position]
  /\ EndCycle
  /\ UNCHANGED <<log, pipe, derived, target, verbVars, verbs, crashes>>

CycleCrash ==
  /\ cpc # "idle"
  /\ crashes < MaxCrashes
  /\ crashes' = crashes + 1
  /\ EndCycle
  /\ UNCHANGED <<log, base, pipe, derived, target, verbVars, verbs>>

-----------------------------------------------------------------------------
(* The Operator verbs, one at a time. Each starts with a check of the      *)
(* store and goes on with what it has read.                                *)

EndVerb ==
  /\ vpc' = "none" /\ existing' = NoPipes /\ wanted' = [p \in Pipelines |-> 0]
  /\ catchUp' = {} /\ revised' = {} /\ starts' = {} /\ snapshot' = NoRows

VerbStarts(verb) ==
  /\ vpc = "none" /\ verb \in Verbs /\ verbs < MaxVerbs
  /\ Interleaved \/ cpc = "idle"
  /\ verbs' = verbs + 1

Pause(p) ==
  /\ VerbStarts("pause")
  /\ pipe[p].rev # 0 /\ ~pipe[p].paused
  /\ pipe' = [pipe EXCEPT ![p].paused = TRUE]
  /\ UNCHANGED <<log, base, derived, target, cycleVars, verbVars, crashes>>

(* The Pipeline is unpaused first, and caught up after that.               *)
Resume(p) ==
  /\ VerbStarts("resume")
  /\ pipe[p].rev # 0 /\ pipe[p].paused
  /\ pipe' = [pipe EXCEPT ![p].paused = FALSE]
  /\ vpc' = "next"
  /\ wanted' = [q \in Pipelines |-> pipe[q].rev]
  /\ catchUp' = {p}
  /\ UNCHANGED <<log, base, derived, target, cycleVars, existing, revised, starts, snapshot, crashes>>

NoBase == [status |-> "none", rows |-> NoRows, position |-> 0]

FaultyPruned(pipes) == base

(* The Base Dataset goes with the last Pipeline that refers to its table.  *)
Pruned(pipes) == IF Declared(pipes) = {} THEN NoBase ELSE base

(* One transaction: the Pipeline, its Derived Dataset by cascade, and the  *)
(* Base Dataset nobody refers to. Its documents stay in the Target.        *)
Remove(p) ==
  /\ VerbStarts("remove")
  /\ pipe[p].rev # 0
  /\ pipe' = [pipe EXCEPT ![p] = NoPipe]
  /\ derived' = [derived EXCEPT ![p] = NoRows]
  /\ base' = Pruned(pipe')
  /\ UNCHANGED <<log, target, cycleVars, verbVars, crashes>>

(* The document declares a revision of every Pipeline it keeps or adds.    *)
Documented(doc, p) ==
  \/ doc[p] = pipe[p].rev
  \/ /\ doc[p] = pipe[p].rev + 1
     /\ pipe[p].rev # 0 \/ target[p] = NoRows \/ Redeclares
  \/ doc[p] = 0 /\ "remove" \in Verbs

ApplyStart ==
  /\ VerbStarts("apply")
  /\ \E doc \in [Pipelines -> 0 .. MaxRevision] :
       /\ \A p \in Pipelines : Documented(doc, p)
       /\ wanted' = doc
       /\ revised' = {p \in Declared(pipe) : doc[p] \notin {0, pipe[p].rev}}
  /\ existing' = pipe
  /\ vpc' = "replace"
  /\ UNCHANGED <<log, base, pipe, derived, target, cycleVars, catchUp, starts, snapshot, crashes>>

StillRunning == {p \in revised : ~pipe[p].paused}

PauseOld(p) ==
  /\ vpc = "replace" /\ IsNextPipeline(p, StillRunning)
  /\ pipe' = [pipe EXCEPT ![p].paused = TRUE]
  /\ UNCHANGED <<log, base, derived, target, cycleVars, verbVars, verbs, crashes>>

(* An unchanged Pipeline keeps its progress and its pause as they were     *)
(* read; a revised one is held paused until it has been Delivered again.   *)
Replaced(p) ==
  IF wanted[p] = 0 THEN NoPipe
  ELSE IF existing[p].rev = wanted[p] THEN existing[p]
  ELSE [rev |-> wanted[p], paused |-> p \in revised, delivered |-> FALSE]

(* Newly added, or unchanged, not paused and not yet Delivered.            *)
NeedsStart(p) ==
  /\ wanted[p] # 0
  /\ \/ existing[p].rev = 0
     \/ existing[p].rev = wanted[p] /\ ~existing[p].paused /\ ~existing[p].delivered

(* All rows of the pipelines table are deleted and inserted again, and     *)
(* every Derived Dataset goes with the row it refers to.                   *)
ReplacePipelines ==
  /\ vpc = "replace" /\ StillRunning = {}
  /\ pipe' = [p \in Pipelines |-> Replaced(p)]
  /\ derived' = [p \in Pipelines |-> NoRows]
  /\ catchUp' = revised
  /\ starts' = {p \in Pipelines : NeedsStart(p)}
  /\ vpc' = "base"
  /\ UNCHANGED <<log, base, target, cycleVars, existing, wanted, revised, snapshot, verbs, crashes>>

(* What reading the table yields, as of the watermark of the load.         *)
Tables(watermark) ==
  {table \in [Keys -> {Absent} \cup 0 .. Len(log)] : IsTableAfter(watermark, table)}

(* Prunes, and runs or resumes the Initial Load of a Base Dataset that is  *)
(* not ready. A load that pauses counts as success.                        *)
SyncBase ==
  /\ vpc = "base"
  /\ vpc' = "next"
  /\ IF Declared(pipe) = {} \/ base.status = "ready" THEN base' = Pruned(pipe)
     ELSE LET watermark == IF base.status = "loading" THEN base.position ELSE Len(log)
          IN  \E table \in Tables(watermark), S \in SUBSET Keys :
                /\ LoadPauses \/ S = Keys
                /\ \A k \in Keys : base.rows[k] # Absent => k \in S
                /\ base' = [status   |-> IF S = Keys THEN "ready" ELSE "loading",
                            rows     |-> [k \in Keys |-> IF k \in S THEN table[k] ELSE Absent],
                            position |-> watermark]
  /\ UNCHANGED <<log, pipe, derived, target, cycleVars, existing, wanted, catchUp, revised,
                 starts, snapshot, verbs, crashes>>

-----------------------------------------------------------------------------
(* The Delivery of whole datasets: catch-up first, then the revised        *)
(* Pipelines are unpaused, then first Deliveries.                          *)

IsDelivering(p) ==
  \/ IsNextPipeline(p, catchUp)
  \/ catchUp = {} /\ revised = {} /\ IsNextPipeline(p, starts)

(* Derived rows are written before documents. The Base Dataset's rows are  *)
(* read once; without a Base Dataset the verb fails.                       *)
DeliverRead(p) ==
  /\ vpc = "next" /\ IsDelivering(p)
  /\ IF base.status = "none" THEN EndVerb
     ELSE /\ snapshot' = base.rows
          /\ vpc' = IF p \in Transforms THEN "derive" ELSE "upsert"
          /\ UNCHANGED <<existing, wanted, catchUp, revised, starts>>
  /\ UNCHANGED <<log, base, pipe, derived, target, cycleVars, verbs, crashes>>

ReplaceDerived(p) ==
  /\ vpc = "derive" /\ IsDelivering(p)
  /\ derived' = [derived EXCEPT ![p] = snapshot]
  /\ vpc' = "upsert"
  /\ UNCHANGED <<log, base, pipe, target, cycleVars, existing, wanted, catchUp, revised,
                 starts, snapshot, verbs, crashes>>

UpsertAll(p) ==
  /\ vpc = "upsert" /\ IsDelivering(p)
  /\ target' = [target EXCEPT ![p] =
                  [k \in Keys |-> IF snapshot[k] = Absent THEN @[k]
                                  ELSE Document(snapshot[k], wanted[p])]]
  /\ vpc' = IF catchUp # {} THEN "reconcile" ELSE "delivered"
  /\ UNCHANGED <<log, base, pipe, derived, cycleVars, existing, wanted, catchUp, revised,
                 starts, snapshot, verbs, crashes>>

FaultyStale(k) == FALSE

(* A document whose identity is not among the rows Delivered.              *)
Stale(k) == snapshot[k] = Absent

ReconcileDeletes(p) ==
  /\ vpc = "reconcile" /\ IsDelivering(p)
  /\ target' = [target EXCEPT ![p] =
                  [k \in Keys |-> IF Stale(k) THEN Absent ELSE @[k]]]
  /\ vpc' = "delivered"
  /\ UNCHANGED <<log, base, pipe, derived, cycleVars, existing, wanted, catchUp, revised,
                 starts, snapshot, verbs, crashes>>

RecordDelivered(p) ==
  /\ vpc = "delivered" /\ IsDelivering(p)
  /\ pipe' = [pipe EXCEPT ![p].delivered = TRUE]
  /\ IF catchUp # {} THEN catchUp' = catchUp \ {p} /\ UNCHANGED starts
     ELSE starts' = starts \ {p} /\ UNCHANGED catchUp
  /\ snapshot' = NoRows
  /\ vpc' = "next"
  /\ UNCHANGED <<log, base, derived, target, cycleVars, existing, wanted, revised, verbs, crashes>>

UnpauseRevised(p) ==
  /\ vpc = "next" /\ catchUp = {} /\ IsNextPipeline(p, revised)
  /\ pipe' = [pipe EXCEPT ![p].paused = FALSE]
  /\ revised' = revised \ {p}
  /\ UNCHANGED <<log, base, derived, target, cycleVars, vpc, existing, wanted, catchUp, starts,
                 snapshot, verbs, crashes>>

VerbEnds ==
  /\ vpc = "next" /\ catchUp = {} /\ revised = {} /\ starts = {}
  /\ EndVerb
  /\ UNCHANGED <<log, base, pipe, derived, target, cycleVars, verbs, crashes>>

VerbStops ==
  /\ vpc # "none" /\ vpc \in Stops
  /\ EndVerb
  /\ UNCHANGED <<log, base, pipe, derived, target, cycleVars, verbs, crashes>>

-----------------------------------------------------------------------------

Cycle ==
  \/ CycleStart \/ CycleReadBase \/ CycleApply
  \/ \E p \in Pipelines : CycleMaintain(p) \/ CycleDeliver(p) \/ CycleProgress(p)
  \/ CycleRecord \/ CycleLag \/ CycleCaughtUp

Delivery(p) ==
  \/ DeliverRead(p) \/ ReplaceDerived(p) \/ UpsertAll(p) \/ ReconcileDeletes(p)
  \/ RecordDelivered(p) \/ UnpauseRevised(p)

VerbStep ==
  \/ \E p \in Pipelines : PauseOld(p) \/ Delivery(p)
  \/ ReplacePipelines \/ SyncBase \/ VerbEnds

Operator ==
  \/ \E p \in Pipelines : Pause(p) \/ Resume(p) \/ Remove(p)
  \/ ApplyStart

Next == SourceChange \/ Cycle \/ CycleCrash \/ Operator \/ VerbStep \/ VerbStops

Spec == Init /\ [][Next]_vars

(* Continuous sync starts one cycle after another, and a verb that does    *)
(* not stop goes on; nobody has to change the Source or call a verb.       *)
LiveSpec == Spec /\ WF_vars(Cycle) /\ WF_vars(VerbStep)

-----------------------------------------------------------------------------

InForce(p) == pipe[p].rev # 0 /\ ~pipe[p].paused /\ pipe[p].delivered

(* The document row k of p should have, or the one the next change of the  *)
(* log gives it: a cycle Delivers before it records.                       *)
DocumentIsCurrent(p, k) ==
  \/ target[p][k] = Document(base.rows[k], pipe[p].rev)
  \/ /\ base.position < Len(log) /\ log[base.position + 1].key = k
     /\ target[p][k] = Document(log[base.position + 1].image, pipe[p].rev)

(* Between verbs, the Target of every Pipeline in force holds the Base     *)
(* Dataset under its current revision, or one change more: nothing that    *)
(* happened while it was paused, revised or not yet declared is missing    *)
(* (resume_pipeline, deliver_pipelines_with_options, the revision path).   *)
RunningPipelinesFollowBase ==
  (vpc = "none" /\ base.status = "ready") =>
    \A p \in Pipelines : InForce(p) => \A k \in Keys : DocumentIsCurrent(p, k)

(* Documents change only for a declared Pipeline that is not paused, or    *)
(* that apply is rebuilding (the paused filter of the cycle, ignore_paused *)
(* of the revision path).                                                  *)
OnlyRunningPipelinesReceive ==
  [][\A p \in Pipelines : target'[p] # target[p] =>
       pipe[p].rev # 0 /\ (~pipe[p].paused \/ p \in revised)]_vars

(* Whatever the order of verbs and crashes, between verbs the Base Dataset *)
(* is stored exactly when some Pipeline refers to its table                *)
(* (delete_base_datasets_not_in, sync_base_datasets_for_pipelines).        *)
BaseIffReferenced ==
  vpc = "none" => ((base.status = "none") <=> (Declared(pipe) = {}))

(* The Base Dataset is the table after the changes its position counts,    *)
(* however often it was pruned and loaded again (record_sync_row_progress, *)
(* run_chunked_initial_load).                                              *)
BaseIsPrefix == base.status = "ready" => IsTableAfter(base.position, base.rows)

(* Between verbs no row of a Derived Dataset in force is outdated: it is   *)
(* the Base row, or the image of the next change. Rows may be missing: an  *)
(* apply drops the Derived Datasets of unchanged Pipelines, and a cycle    *)
(* brings back the rows that change (replace_derived_dataset, maintenance  *)
(* of a cycle, replace_pipelines_for_deployment).                          *)
DerivedRowsAreCurrent ==
  (vpc = "none" /\ base.status = "ready") =>
    \A p \in Transforms : InForce(p) => \A k \in Keys :
      \/ derived[p][k] \in {Absent, base.rows[k]}
      \/ /\ base.position < Len(log) /\ log[base.position + 1].key = k
         /\ derived[p][k] = log[base.position + 1].image

(* Once Source and Operator are quiet, the Target of every Pipeline in     *)
(* force becomes and stays the Source table, and none is left between two  *)
(* verbs (run_continuous_sync over sync_deployment_once).                  *)
RunningPipelinesConverge ==
  <>[](/\ vpc = "none"
       /\ \A p \in Pipelines : InForce(p) => \A k \in Keys :
            \E v \in {Absent} \cup 0 .. Len(log) :
              IsImageAfter(Len(log), k, v) /\ target[p][k] = Document(v, pipe[p].rev))

(* If verbs wait for cycles, the Base Dataset that is left catches up with *)
(* the Source, however often a cycle dies and verbs prune it and load it   *)
(* again, and every verb comes to an end. A removal under a running cycle  *)
(* breaks it: the progress of that cycle stores a few rows of the pruned   *)
(* Base Dataset (record_sync_row_progress).                                *)
BaseConverges ==
  Interleaved \/ <>[](vpc = "none" /\ (base.status # "none" => IsTableAfter(Len(log), base.rows)))

=============================================================================
