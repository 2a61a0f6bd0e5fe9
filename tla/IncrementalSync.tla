-------------------------- MODULE IncrementalSync --------------------------
(***************************************************************************)
(* Incremental Capture and Direct Delivery of one Base Dataset: the cycles *)
(* of `migraloop run`, which hold the incremental sync lock one at a time. *)
(* A cycle reads the durable Base Dataset, drains bounded windows of the   *)
(* Source log, and for every change applies it in memory, Delivers it to   *)
(* each Pipeline that is not paused, and only then records Base row,       *)
(* change id and checkpoint in one transaction. A crash or an error ends   *)
(* the cycle at any step; the next one starts from the Platform Store.     *)
(***************************************************************************)
EXTENDS SourceRedo

CONSTANTS
  QueueCapacity,  \* capacity of the bounded window
  MaxAttempts,    \* Delivery attempts before a change is quarantined
  MaxCrashes      \* bound: cycles that crash or fail midway

ASSUME SyncAssumption ==
  /\ QueueCapacity \in Nat \ {0}
  /\ MaxAttempts \in Nat \ {0}
  /\ MaxCrashes \in Nat

VARIABLES
  (* the Platform Store *)
  handoff,       \* Base Dataset at the end of Initial Load (never changes)
  base,          \* base_rows
  checkpoint,    \* base_datasets.capture_checkpoint
  applied,       \* applied_source_changes
  paused,        \* pipelines.paused
  quarantine,    \* poison_quarantine: Pipeline and change
  (* the Target *)
  target,        \* Managed Document of each Pipeline and Output Identity
  (* the memory of the running cycle *)
  pc,            \* what the cycle does next
  rows,          \* image of the Base Dataset read at cycle start
  skipped,       \* Pipelines paused in the list read at cycle start
  startCheckpoint,  \* checkpoint of the dataset read at cycle start
  injected,      \* Schema Changes read at cycle start
  resumeFrom,    \* inclusive resume position of the next window
  drained,       \* has this cycle processed a window
  window,        \* items of the window still to process
  todo,          \* Pipelines the current item still has to visit
  attempts,      \* failed Delivery attempts of the current Pipeline
  crashes

storeVars  == <<handoff, base, checkpoint, applied, paused, quarantine>>
cycleVars  == <<rows, skipped, startCheckpoint, injected>>
windowVars == <<resumeFrom, drained, window>>
itemVars   == <<todo, attempts>>
vars == <<sourceVars, storeVars, target, pc, cycleVars, windowVars, itemVars, crashes>>

Versions == [Keys -> Images]

TypeOK ==
  /\ origin \in Versions /\ log \in Seq(RowChange \cup SchemaChange)
  /\ committed \subseteq DOMAIN log
  /\ handoff \in Versions /\ base \in Versions /\ rows \in Versions
  /\ checkpoint \in Nat /\ startCheckpoint \in Nat /\ resumeFrom \in Nat
  /\ applied \subseteq committed /\ injected \subseteq committed /\ window \subseteq committed
  /\ paused \subseteq Pipelines /\ skipped \subseteq Pipelines /\ todo \subseteq Pipelines
  /\ quarantine \subseteq Pipelines \X committed
  /\ target \in [Pipelines -> Versions]
  /\ pc \in {"idle", "fetch", "drained", "item", "deliver", "impact"}
  /\ drained \in BOOLEAN
  /\ attempts \in 0 .. MaxAttempts - 1
  /\ crashes \in 0 .. MaxCrashes

-----------------------------------------------------------------------------
(* The window.                                                             *)

(* Faulty...: the definition that follows it with a plausible mistake.     *)
(* The mutants of PROJECT.json put each in its place to show which         *)
(* property notices.                                                       *)
FaultyBefore(i, j) == \/ Scn(i) < Scn(j)
                      \/ Scn(i) = Scn(j) /\ i > j

(* Capture order, and Schema Changes after the row changes of their SCN.   *)
Before(i, j) ==
  \/ Scn(i) < Scn(j)
  \/ /\ Scn(i) = Scn(j)
     /\ \/ IsRow(i) /\ IsDdl(j)
        \/ IsRow(i) = IsRow(j) /\ i < j

(* T is what a read of S that stops after n items returns. *)
FirstOf(T, S, n) ==
  /\ \A i \in S, j \in T : Before(i, j) => i \in T
  /\ Cardinality(T) = IF Cardinality(S) <= n THEN Cardinality(S) ELSE n

FaultyFetchable == {i \in committed : IsRow(i) /\ Scn(i) > resumeFrom}

Fetchable == {i \in committed : IsRow(i) /\ Scn(i) >= resumeFrom}

AppliedFromResume == {i \in applied : Scn(i) >= resumeFrom}

FaultyFetchLimit == QueueCapacity

FetchLimit == QueueCapacity + Cardinality(AppliedFromResume)

FaultyUnapplied(S) == S

Unapplied(S) == S \ applied

PendingDdl == Unapplied({i \in injected : Scn(i) >= resumeFrom})

(* The merged window is truncated to capacity. *)
Cut(items, S) == FirstOf(items, S, QueueCapacity)

FaultyIsNext(i) == i \in window /\ \A j \in window \ {i} : Before(j, i)

(* The item of the window the loop is at. *)
IsNext(i) == i \in window /\ \A j \in window \ {i} : Before(i, j)

(* The Pipeline the loop over todo is at. *)
IsNextPipeline(p) == p \in todo /\ \A q \in todo : p <= q

-----------------------------------------------------------------------------
(* Checkpoint handed to Incremental Capture by the cutover.                *)
FaultyHandoffCheckpoint == LowWatermark + 1

HandoffCheckpoint == IF LowWatermark = 0 THEN 0 ELSE LowWatermark - 1

HandoffInit ==
  handoff \in {h \in [Keys -> {Absent} \cup 0 .. MaxOverlap] :
                 \A k \in Keys :
                   \/ h[k] = origin[k]
                   \/ \E i \in DOMAIN log : Touches(i, k) /\ h[k] = Image(i)}

NoCycle ==
  /\ pc = "idle"
  /\ rows = [k \in Keys |-> Absent] /\ skipped = {} /\ injected = {}
  /\ startCheckpoint = 0 /\ resumeFrom = 0 /\ drained = FALSE
  /\ window = {} /\ todo = {} /\ attempts = 0

(* Initial Load has completed and apply has Delivered it. *)
Init ==
  /\ SourceInit
  /\ HandoffInit
  /\ base = handoff
  /\ checkpoint = HandoffCheckpoint
  /\ applied = {} /\ paused = {} /\ quarantine = {}
  /\ target = [p \in Pipelines |-> handoff]
  /\ NoCycle
  /\ crashes = 0

(* The cycle's memory is gone. *)
EndCycle ==
  /\ pc' = "idle"
  /\ rows' = [k \in Keys |-> Absent] /\ skipped' = {} /\ injected' = {}
  /\ startCheckpoint' = 0 /\ resumeFrom' = 0 /\ drained' = FALSE
  /\ window' = {} /\ todo' = {} /\ attempts' = 0

StartCycle ==
  /\ pc = "idle"
  /\ pc' = "fetch"
  /\ rows' = base
  /\ skipped' = paused
  /\ startCheckpoint' = checkpoint
  /\ injected' = {i \in committed : IsDdl(i)}
  /\ resumeFrom' = checkpoint
  /\ drained' = FALSE
  /\ UNCHANGED <<sourceVars, storeVars, target, window, itemVars, crashes>>

(* Already applied ids are skipped before the capacity is spent, and the   *)
(* Schema Changes are merged before the window is cut to capacity.         *)
FetchWindow ==
  /\ pc = "fetch"
  /\ \E fetched \in SUBSET Fetchable : \E candidates \in SUBSET Unapplied(fetched) :
       /\ FirstOf(fetched, Fetchable, FetchLimit)
       /\ FirstOf(candidates, Unapplied(fetched), QueueCapacity)
       /\ \E items \in SUBSET (candidates \cup PendingDdl) :
            /\ Cut(items, candidates \cup PendingDdl)
            /\ window' = items
            /\ pc' = IF items = {} THEN "drained" ELSE "item"
  /\ UNCHANGED <<sourceVars, storeVars, target, cycleVars, resumeFrom, drained, itemVars, crashes>>

(* An empty window: the table is caught up and its Sync fields are saved.  *)
CaughtUp ==
  /\ pc = "drained"
  /\ checkpoint' = IF drained THEN resumeFrom ELSE startCheckpoint
  /\ EndCycle
  /\ UNCHANGED <<sourceVars, handoff, base, applied, paused, quarantine, target, crashes>>

(* The item has been recorded: on to the next one, or to the next window.  *)
NextItem(i) ==
  /\ window' = window \ {i}
  /\ todo' = {} /\ attempts' = 0
  /\ IF window = {i}
       THEN pc' = "fetch" /\ resumeFrom' = Scn(i) /\ drained' = TRUE
       ELSE pc' = "item" /\ UNCHANGED <<resumeFrom, drained>>

-----------------------------------------------------------------------------
(* A row change.                                                           *)

ApplyToRows(i) ==
  /\ pc = "item" /\ IsNext(i)
  /\ log[i].kind \in {"upsert", "delete"}
  /\ rows' = [rows EXCEPT ![log[i].key] = Image(i)]
  /\ todo' = Pipelines \ skipped
  /\ pc' = "deliver"
  /\ UNCHANGED <<sourceVars, storeVars, target, skipped, startCheckpoint, injected,
                 windowVars, attempts, crashes>>

FaultyFailToApply(i) ==
  /\ pc = "item" /\ IsNext(i)
  /\ log[i].kind = "unappliable"
  /\ base' = [rows EXCEPT ![log[i].key] = Image(i)]
  /\ checkpoint' = startCheckpoint
  /\ EndCycle
  /\ UNCHANGED <<sourceVars, handoff, applied, paused, quarantine, target, crashes>>

(* The change has no row image or a value that cannot be normalized: the   *)
(* failure is recorded with the checkpoint the cycle started from.         *)
FailToApply(i) ==
  /\ pc = "item" /\ IsNext(i)
  /\ log[i].kind = "unappliable"
  /\ base' = rows
  /\ checkpoint' = startCheckpoint
  /\ EndCycle
  /\ UNCHANGED <<sourceVars, handoff, applied, paused, quarantine, target, crashes>>

Visited(p) == todo' = todo \ {p} /\ attempts' = 0

DeliverDocument(i, p) ==
  target' = [target EXCEPT ![p][log[i].key] = rows[log[i].key]]

Deliver(i, p) ==
  /\ pc = "deliver" /\ IsNext(i) /\ IsNextPipeline(p)
  /\ DeliverDocument(i, p)
  /\ Visited(p)
  /\ UNCHANGED <<sourceVars, storeVars, pc, cycleVars, windowVars, crashes>>

FaultyRetryLeft == attempts + 1 <= MaxAttempts

RetryLeft == attempts + 1 < MaxAttempts

Quarantine(p, i) == quarantine' = quarantine \cup {<<p, i>>}

(* A failed attempt, which the Target may have carried out all the same.   *)
DeliverFails(i, p) ==
  /\ pc = "deliver" /\ IsNext(i) /\ IsNextPipeline(p)
  /\ DeliverDocument(i, p) \/ UNCHANGED target
  /\ \/ /\ RetryLeft
        /\ attempts' = attempts + 1
        /\ UNCHANGED <<todo, quarantine>>
     \/ /\ ~RetryLeft
        /\ Quarantine(p, i)
        /\ Visited(p)
  /\ UNCHANGED <<sourceVars, handoff, base, checkpoint, applied, paused, pc, cycleVars,
                 windowVars, crashes>>

FaultyDelivered(i) == pc = "deliver" /\ IsNext(i)

Delivered(i) == pc = "deliver" /\ IsNext(i) /\ todo = {}

(* One transaction: the touched Base row, the change id, the checkpoint.   *)
RecordRowProgress(i) ==
  /\ Delivered(i)
  /\ base' = [base EXCEPT ![log[i].key] = rows[log[i].key]]
  /\ applied' = applied \cup {i}
  /\ checkpoint' = Scn(i)
  /\ NextItem(i)
  /\ UNCHANGED <<sourceVars, handoff, paused, quarantine, target, cycleVars, crashes>>

-----------------------------------------------------------------------------
(* A Schema Change.                                                        *)

ClassifyDdl(i) ==
  /\ pc = "item" /\ IsNext(i) /\ IsDdl(i)
  /\ todo' = log[i].blocks
  /\ pc' = "impact"
  /\ UNCHANGED <<sourceVars, storeVars, target, cycleVars, windowVars, attempts, crashes>>

FaultyStopDelivering(p) == UNCHANGED skipped

StopDelivering(p) == skipped' = skipped \cup {p}

(* Pause and impact record of one Pipeline, in a transaction of its own.   *)
MarkSchemaImpact(p) ==
  /\ pc = "impact" /\ IsNextPipeline(p)
  /\ paused' = paused \cup {p}
  /\ StopDelivering(p)
  /\ Visited(p)
  /\ UNCHANGED <<sourceVars, handoff, base, checkpoint, applied, quarantine, target, pc,
                 rows, startCheckpoint, injected, windowVars, crashes>>

RecordDdlProgress(i) ==
  /\ pc = "impact" /\ IsNext(i) /\ todo = {}
  /\ base' = rows
  /\ applied' = applied \cup {i}
  /\ checkpoint' = Scn(i)
  /\ NextItem(i)
  /\ UNCHANGED <<sourceVars, handoff, paused, quarantine, target, cycleVars, crashes>>

-----------------------------------------------------------------------------
(* The process dies, or an error of the Source, the Platform Store or a    *)
(* progress write ends the cycle: its memory is gone and the supervisor    *)
(* starts another one.                                                     *)
Crash ==
  /\ pc # "idle"
  /\ crashes < MaxCrashes
  /\ crashes' = crashes + 1
  /\ EndCycle
  /\ UNCHANGED <<sourceVars, storeVars, target>>

ItemStep(i) ==
  \/ ApplyToRows(i) \/ FailToApply(i)
  \/ \E p \in Pipelines : Deliver(i, p) \/ DeliverFails(i, p)
  \/ RecordRowProgress(i)
  \/ ClassifyDdl(i) \/ RecordDdlProgress(i)

CycleStep ==
  \/ StartCycle \/ FetchWindow \/ CaughtUp
  \/ \E i \in window : ItemStep(i)
  \/ \E p \in Pipelines : MarkSchemaImpact(p)

Next ==
  \/ SourceStep /\ UNCHANGED <<storeVars, target, pc, cycleVars, windowVars, itemVars, crashes>>
  \/ CycleStep
  \/ Crash

Spec == Init /\ [][Next]_vars

Committing ==
  /\ \E i \in 1 .. MaxLog : SourceCommit(i)
  /\ UNCHANGED <<storeVars, target, pc, cycleVars, windowVars, itemVars, crashes>>

(* The supervisor keeps a cycle running and open transactions end; nothing *)
(* forces new changes, the outcome of a Delivery, or a crash.              *)
FairSpec == Spec /\ WF_vars(CycleStep) /\ WF_vars(Committing)

-----------------------------------------------------------------------------
(* Properties.                                                             *)

(* No gap: no committed row change lies below the durable checkpoint       *)
(* without having been applied, since no later cycle would fetch it        *)
(* (ADR-0004; the inclusive resume and change-id dedupe of issue #143).    *)
NoGap ==
  \A i \in committed : IsRow(i) /\ Scn(i) < checkpoint => i \in applied

(* The durable Base Dataset is always the hand-off image with exactly the  *)
(* recorded changes replayed in order, whatever was Delivered, retried or  *)
(* lost with the memory of a cycle (record_sync_row_progress is one        *)
(* transaction).                                                           *)
BaseIsReplay ==
  \A k \in Keys : LatestImage(applied, handoff, k, base[k])

(* Draining the log closes the cutover: once every committed row change    *)
(* has been applied, the Base Dataset equals the Source table, although    *)
(* Initial Load read its rows at different moments of the overlap.         *)
DrainedMeansEqual ==
  (\A i \in committed : IsRow(i) => i \in applied)
    => \A k \in Keys : LatestImage(committed, origin, k, base[k])

(* The change of row k that is applied next.                               *)
IsEarliestUnapplied(i) ==
  /\ i \in committed \ applied
  /\ IsRow(i)
  /\ \A j \in committed \ applied : IsRow(j) => i <= j

(* Deliver-before-checkpoint bounds what a Target may differ by: a running *)
(* Pipeline's document is the Base row, or already the image of the one    *)
(* change whose progress is not recorded yet, or the last change of that   *)
(* row is quarantined for the Pipeline.                                    *)
TargetFollowsBase ==
  \A p \in Pipelines \ paused, k \in Keys :
    \/ target[p][k] = base[k]
    \/ \E i \in committed : /\ IsEarliestUnapplied(i)
                            /\ Touches(i, k)
                            /\ target[p][k] = Image(i)
    \/ \E i \in applied : /\ <<p, i>> \in quarantine
                          /\ Touches(i, k)
                          /\ \A j \in applied : Touches(j, k) => j <= i

(* A Pipeline that a Schema Change paused receives nothing more, and once  *)
(* a Schema Change is recorded none of those it blocks does: they are      *)
(* paused one by one, and a cycle that dies in between does not let the    *)
(* rest run on past it.                                                    *)
NoDeliveryWhilePaused ==
  [][\A p \in Pipelines : target'[p] # target[p] =>
       /\ p \notin paused
       /\ \A i \in applied : IsDdl(i) => p \notin log[i].blocks]_vars

(* Changes are Delivered at least once, but never after they have been     *)
(* recorded: a crash, a retry or the inclusive resume cannot bring back an *)
(* image that the Base Dataset has already moved past.                     *)
NoRedeliveryOfRecorded ==
  [][\A p \in Pipelines, k \in Keys :
       target'[p][k] # target[p][k] => target'[p][k] \notin applied]_vars

(* The cycles implement the ordered application of the log.                *)
Abstract == INSTANCE OrderedApply WITH handoff <- handoff, base <- base, applied <- applied
ImplementsOrderedApply == Abstract!Spec

(* Every committed row change is eventually applied, through crashes,      *)
(* failing Deliveries, full windows and changes that share an SCN.         *)
EveryChangeApplied ==
  \A i \in 1 .. MaxLog : (i \in committed /\ IsRow(i)) ~> i \in applied

(* When the Source falls silent every running Pipeline's Target reaches    *)
(* the Source's rows, apart from rows whose last change is quarantined.    *)
TargetConverges ==
  <>[](\A p \in Pipelines \ paused, k \in Keys :
         \/ LatestImage(committed, origin, k, target[p][k])
         \/ \E i \in applied : /\ <<p, i>> \in quarantine
                               /\ Touches(i, k)
                               /\ \A j \in applied : Touches(j, k) => j <= i)

=============================================================================
