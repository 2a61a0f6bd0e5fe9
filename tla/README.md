# Migraloop: TLA+ models, model checking and proofs

Migraloop keeps document collections (MongoDB) in step with tables of an Oracle
Source. This directory holds TLA+ models of the parts of it whose correctness
depends on order, interruption and interleaving, the TLC runs that check them on
small instances, and TLAPS proofs for every instance.

Paths below are relative to the repository root; `runtime/x.rs` stands for
`crates/runtime/src/x.rs`, `store` for `crates/platform-store/src/lib.rs`,
`capture/x.rs` for `crates/capture/src/x.rs`.

## The system

| Component | State it keeps | Operations | What makes it correct |
| --- | --- | --- | --- |
| Source redo stream (`capture/logminer/*`, external Oracle) | redo log, commit state | fetch from an inclusive SCN, count, limit | order of same-SCN siblings, no committed change below a resume position |
| Initial Load (`runtime/apply.rs`, `capture/oracle_source.rs`) | Base Dataset status, PK cursor, low-watermark | chunk read, append, pause, resume, complete | low-watermark before the first row; every row of the Source at hand-off is loaded or changed in the overlap |
| Cutover (`runtime/cutover.rs`) | low-watermark, checkpoint | hand-off, resume | the overlap is re-read inclusively |
| Incremental Sync cycle (`runtime/incremental.rs`) | in memory: rows, Pipeline list, window, resume position | start, fetch, apply, Deliver, record, end | no gap, no reordering per row, Deliver before checkpoint |
| Backpressure (`runtime/backpressure.rs`) | window capacity | fetch limit, truncate | a full window never starves siblings |
| Poison Change Handling (`runtime/poison.rs`) | quarantine | bounded retries, quarantine | one failing change does not stop a Pipeline |
| Schema Change impact (`runtime/schema_impact.rs`) | paused flag, impact rows | classify, pause | a blocked Pipeline receives nothing until resumed |
| Platform Store (`store`) | all durable state, advisory lock | transactions per verb | each verb is all or nothing |
| Pipeline lifecycle (`runtime/lifecycle.rs`) | paused flag, Pipelines, Base Datasets | pause, resume, remove, change by apply | a running cycle must not undo them |
| Alignment and Drift (`runtime/lifecycle.rs`, `runtime/verify_repair.rs`) | alignment fields, Drift baseline | compare, repair | a repair must not undo newer changes |
| Transform (`crates/transform`) | Derived Datasets, Maintenance State | Affect Analysis, maintain, recompute | incremental result equals evaluation from Base |
| Delivery (`crates/delivery`) | Managed Documents | idempotent upsert, delete by identity | at-least-once is harmless |
| Lab (`crates/cli/src/lab.rs`, `lab_scenario/*`) | lock file, the Fixture's app, Namespaces | run, remove and status of Scenarios, `lab up`, `lab down` | one Scenario at a time, the app comes back, a Scenario sees what it claims to test |
| Operator CLI | none of its own | calls the runtime, prints | what it says is what happened |
| Observability, capacity, guardrails, options | none of their own | reads and formatting | labels agree with state |

One process runs continuous sync (`run_continuous_incremental_sync` under a
supervisor) while one-shot commands of other processes (`sync`, `apply`, `pause`,
`resume`, `remove`, `align`, `drift`) work on the same Platform Store and Target.
Only sync cycles exclude each other, through a PostgreSQL advisory lock; all
others interleave with a cycle, which works on a list of Pipelines and an image
of the Base Dataset that it read once. The components talk through the Platform
Store, the Target collection and the Source stream; there are no callbacks.

The hard behaviours: a crash between Delivery and the progress transaction;
siblings of one SCN with a bounded window and an inclusive resume; transactions
that commit late; Schema Changes merged into the row stream; a Delivery that
fails after it took effect; stale copies of Pipelines and rows in a cycle; chunked
Initial Load of a table that changes; Affect Analysis that must not skip a change
that matters; repairs that write back what they read; lock files of killed
processes. `PROJECT.json` lists each with its line
under "hazards".

## Modules

| Module | Models |
| --- | --- |
| `SourceRedo` | one Source table and its redo stream |
| `OrderedApply` | what Incremental Capture promises of a Base Dataset (abstract specification) |
| `IncrementalSync` | the sync cycle of one table with Direct Pipelines |
| `InitialLoad` | chunked Initial Load of a changing table, pause, resume, crash, hand-off |
| `PipelineLifecycle` | apply, pause, resume, remove and revision against a cycle's stale list |
| `Decimal` | values, exact decimals and aggregates of the Rich Transforms |
| `Transform` | the Rich Transform operators and their evaluation |
| `AffectAnalysis` | which Output Identities a Base change touches; Maintenance State |
| `DerivedMaintenance` | one Transform Pipeline in the cycles, with retries, quarantine and crashes |
| `VerifyRepair` | Source Alignment and Drift Checks against cycles and their advisory lock |
| `LabRun` | the processes of `migraloop lab`: lock file, app, Namespaces |
| `LabProduct` | the product as a Scenario sees it, right or with one fault |
| `LabScenarios` | the product path and the checks of every Scenario |
| `MC*` | instances of the above for TLC |
| `*Proofs` | theorems about `IncrementalSync`, `InitialLoad`, `PipelineLifecycle`, `VerifyRepair`, `LabRun`, `DerivedMaintenance`, `Decimal` |

`InitialLoad` ends where `IncrementalSync` begins (`HandoffAsAssumed`);
`PipelineLifecycle` and `VerifyRepair` use cycles reduced to what a verb or a check
can disturb; `DerivedMaintenance` is the Transform step of such a cycle, for which
`Transform` and `AffectAnalysis` are pure operators; `LabProduct` uses the same
`Transform`.

### SourceRedo

The log holds row changes (`upsert`, `delete`, and `unappliable` for a change whose image
is missing or does not normalize) and injected Schema Changes in capture order: SCN, then
RS_ID and SSN (`logminer_content_order`; the code also puts COMMIT_TIMESTAMP between the
SCN and RS_ID, which is left out: the log has one order of the siblings of an SCN, and no
property asks which). A row image is the index of the change that wrote it; two stores
hold the same row exactly when they hold the same index. `committed` is what a fetch can
return. The Source itself is external: a statement holds its row until it commits, several
statements may share an SCN, and with `OverlappingTransactions` a transaction may commit
before an earlier writer does.

### IncrementalSync

| Variables | Code |
| --- | --- |
| `base`, `checkpoint`, `applied` | `base_rows`, `base_datasets.capture_checkpoint`, `applied_source_changes` |
| `paused`, `quarantine` | `pipelines.paused`, `poison_quarantine` |
| `target` | the Managed Documents of each Pipeline |
| `rows`, `skipped`, `startCheckpoint`, `injected` | what `sync_deployment_incremental` reads once: Base rows, paused Pipelines, dataset, Schema Changes |
| `resumeFrom`, `drained`, `window`, `todo`, `attempts` | the loop over windows, items, Pipelines and Delivery attempts |
| `handoff` | the Base Dataset that Initial Load left (history) |

Actions follow the code in order: `StartCycle`; `FetchWindow` (skip applied ids,
limit, merge Schema Changes, truncate); `CaughtUp`; per row change `ApplyToRows`
or `FailToApply`, `Deliver` or `DeliverFails` for each Pipeline in turn, then
`RecordRowProgress`; per Schema Change `ClassifyDdl`, `MarkSchemaImpact` for each
blocked Pipeline, `RecordDdlProgress`; `Crash` at any step. Every action is one
atomic step of the code: one transaction, one call of the Target, or one fetch.
Reads are separate steps from the writes that use them.

What is abstracted: row contents, documents and identities are names; the Base
status is not kept (Initial Load is over); a cycle works on one table; delays and
poll intervals only take time; `DeliverFails` may or may not have changed the
Target.

`OrderedApply` is the abstract specification: a committed row change takes effect
once, and after every earlier committed row change of the table.

### InitialLoad

| Variables | Code |
| --- | --- |
| `status`, `baseRows`, `rowCount`, `watermark` | `base_datasets` and `base_rows`, with their ordinals |
| `paused` | the durable pause of a Pipeline on the table |
| `offset`, `established`, `chunk`, `exhausted`, `chunks` | the memory of `run_chunked_initial_load` |

The Source is that of `SourceRedo`; here its rows are also read by queries, each as
of its own moment. A run goes `StartRun`, then per chunk `CheckPause`,
`EstablishWatermark`, `ReadPage`, `AppendChunk` (one transaction), and ends complete,
in `PersistPause` or in `Crash`; the next run goes on from the stored row count and
watermark. `HandoffAsAssumed` is what `IncrementalSync` assumes in its initial
state, so the two modules fit together. The passing run excludes two things the
code does not exclude, each a CONSTANT of its own: rows that appear or disappear
among those already read (`RowsMoveBehind`), and a transaction older than the
checkpoint that is still open when the watermark is read (`OpenAtWatermark`).

### PipelineLifecycle

| Variables | Code |
| --- | --- |
| `base`, `pipe`, `derived`, `target` | Base Dataset, `pipelines`, Derived Datasets, Target documents under the revision that wrote them |
| `cpc`, `listed`, `rows`, `position`, `todo` | a cycle: where it is, the Pipelines it listed, its Base rows, the changes applied, the Pipelines left for the change |
| `vpc`, `existing`, `wanted`, `revised`, `catchUp`, `starts`, `snapshot` | a verb: where it is, what it read and computed |

A cycle is `CycleStart`, `CycleReadBase`, then per change `CycleApply`, per Pipeline
`CycleMaintain` (Transform only), `CycleDeliver`, `CycleProgress`, then
`CycleRecord`, `CycleLag`, at the end `CycleCaughtUp`. `Pause` and `Remove` are one
transaction. `Resume` unpauses and then Delivers. Apply is `ApplyStart` (reads the
Pipelines), `PauseOld`, `ReplacePipelines`, `SyncBase`, and Deliveries: revised
Pipelines with reconciliation, `UnpauseRevised`, first Deliveries. A Delivery is
`DeliverRead`, `ReplaceDerived`, `UpsertAll`, `ReconcileDeletes`, `RecordDelivered`.
`VerbStops` is an error or a crash of a verb, at one of the stages in `Stops`.

What is abstracted: one Base Dataset, a Transform that maps each of its rows to one
Derived row, a log applied change by change (windows, siblings and the checkpoint
are `IncrementalSync`'s business), a load that is atomic or stops once
(`InitialLoad`'s business). `Interleaved` decides whether a verb may run while a
cycle does. The code does not prevent it; the runs without it show that the verbs
themselves are right, those with it what the missing lock costs.

### Decimal, Transform, AffectAnalysis

Pure operators. A value is null, a text, a decimal (an integer of units and a scale),
an array or an object; `WideLimit`, `NumberLimit` and `FloatDigits` stand for the
limits of `i128`, of a JSON number and of an `f64`, so that overflow and loss of
digits happen at small numbers. `Transform` evaluates a sequence of operators over a
stream of rows, an error included. `AffectAnalysis` has the lineage of fields, the
identities before and after a change of the primary or of a joined or united table,
and the reference counts of `distinct` and `addToSet`.

### DerivedMaintenance

| Variables | Code |
| --- | --- |
| `base`, `derived`, `state` | Base rows, Derived rows and Maintenance State in the Platform Store |
| `target` | the documents of the Pipeline |
| `source` | the tables of the Source, as far as the cycle has met their changes |
| `phase`, `change`, `attempt`, `plan`, `pending` | where `maintain_transform_pipeline_for_change` and `recompute_and_deliver_affected_identities` are |
| `undelivered`, `trusted` | history: what a quarantine left behind, and whether Affect Analysis has met neither a Maintenance State that a loss left counting too much nor a replayed change that contradicts the Base, since the last whole Delivery |

The load and the replay overlap: the cutover hands over the low-watermark minus one
(`cutover.rs:46`) and the load records no change ids, so the first cycle meets changes
that the loaded rows already show. `Loads` gives pairs of what the load left (`loaded`)
and what the Source had where the replay starts (`start`). `NextChange` takes the kind
of a change from the Source, as `base_change_kind` does, and the cycle meets it with
whatever row its Base has: an insert of a row it has, an update or a delete of one it
lacks. `Contradicts` names the replayed changes that Affect Analysis gets wrong: an
update of a row the Base lacks (it fails, is quarantined and is recorded), an insert of
a row the Base has for a Transform with Maintenance State (counted twice), and, where
identities are taken from the old image as well, an insert over a different row. All
others are analysed right.

Per change: `NextChange`, `Maintain` (analysis, evaluation, Derived rows stored),
`Upsert` and `Delete` in the Target, of which each may fail (`WriteFails`: analysed
again, in the end quarantined), `Record` (Base row, checkpoint), `Persist`
(Maintenance State). `Crash` between any two. `Redeliver` is a catch-up after pause or
revision: it replaces the Derived Dataset and rebuilds the state.

What the Pipeline promises is split. `AffectIsExact` is about one change, whatever
happened before it, as far as `trusted` and a failed analysis allow: that evaluating only
some identities again yields the rows a whole evaluation has for them
(`RecomputationIsExact`), and that the identities found are those of all rows that come or
go (`AnalysisCoversChange`). The others are about the sequence of stores, failures and
retries: `DerivedFollowsBase`, `TargetFollowsBase`, `DocumentsOldOrNew`. All are stated
while `trusted` holds; `derived_crash` and its variant with `InsertLoaded` (Known limits)
show what the code does when it does not.

Two assumptions on the constants state what a Pipeline needs of its declaration, and TLC
evaluates them over `Bases`, every content the Base Datasets can have within the bounds:
`TablesAssumption` (keys are unique, what is loaded lies within the bounds, every
Secondary Base is one of the tables) and
`IdentityAssumption` (every Derived row has the fields of the Output Identity, no two
rows of a Derived Dataset share one, and rows of one identity have the same fields, so
that merging Managed fields leaves nothing of an older row).

### VerifyRepair

| Variables | Code |
| --- | --- |
| `base` | rows, checkpoint and alignment of one Base Dataset |
| `applied`, `target` | `applied_source_changes`, Managed Documents |
| `lock`, `cycle` | the advisory lock, and of every cycle process where it is |
| `align`, `drift` | the memory of a check: what it listed, sampled, read |
| `edited`, `damage`, `losses` | history: documents or rows others wrote, locks lost |

A cycle goes `CycleStart` (blocks on the lock), `CycleFetch`, `CycleDeliver`,
`CycleRecord`, `CycleEnd`, or `CycleCrash`; `LoseLock` takes the session's lock from a
cycle that goes on. Alignment is `AlignList` (the Sync fields it will write back),
`AlignSample`, `AlignRead`, `AlignWrite`; a Drift Check `DriftStart`, `DriftExpect`,
`DriftList`, `DriftUpsert`. Rows and documents may be damaged at any time.
`Interleaved` decides whether a check may run beside a cycle; the code does not
prevent it.

### LabRun

`lock` is the lock file, which exists before it is written; `proc` says of every
process which command it runs and where it is; `app`, `fixture` and `namespace` are
the Fixture and what exists of each Scenario's Namespace. Reading the lock,
removing a stale one, creating it and writing it are separate steps, as they are
separate system calls. A call may fail, a process may be killed (its destructors do
not run), `lab up` and `lab down` come at any time, and an app that runs may Deliver to
a Namespace that is being wiped. `raced`, `upped`, `stranded` and `revived` are
history: they mark the four things that the code does not prevent. A `docker compose stop` that
reports an error may have stopped the app all the same (`PauseApp`); the run then ends
without resuming it, which `stranded` marks too.

### LabProduct, LabScenarios

`LabProduct` is what the commands do to Base and Derived Datasets and the Target and
what they print, under a fault: none, or one way of being wrong (a change lost, an
operator skipped, a pause ignored, a load that starts over, ...). `LabScenarios` runs
the script of each of the 26 Scenarios on it: seed, apply, mutate, sync, assert, with
the checks of the Rust hooks and of the recipe. The checks are those of the code, weak
where it is weak: a name or a number that occurs somewhere in what inspection prints, an
amount that a document of the collection has under whatever field (`FoundAnywhere`; the
code looks for it within 180 bytes of the key or anywhere as a `$numberDecimal`, so it
finds still less or more by the layout of the output, which is left out). The question
is what a Scenario can tell.

## Runs

| Run | Instance | Shows |
| --- | --- | --- |
| `sync_rows` | 2 rows, 1 Pipeline, 3 log entries of which 1 in the overlap and up to 1 Schema Change, unappliable changes, window 2, 2 attempts, 1 crash | `TypeOK`, `NoGap`, `BaseIsReplay`, `DrainedMeansEqual`, `TargetFollowsBase`, `NoRedeliveryOfRecorded`, refinement of `OrderedApply` |
| `sync_live` | 1 row, 2 Pipelines, 2 entries, Schema Change, window 1, crash, fairness | `NoDeliveryWhilePaused`, `EveryChangeApplied`, `TargetConverges` |
| `sync_late_commit` | transactions overlap | `NoGap` fails |
| `load_resume` | 3 key values, pages of 1, self-pause after 2, 2 changes, 1 crash or Operator pause | `TypeOK`, `HandoffAsAssumed`, `OneRowPerKey`, `ResumesWhereItStopped`, `ProgressIsKept` |
| `load_row_removed` | the same with rows moving behind | `NoRowMissed` fails |
| `life_verbs` | a Transform and a Direct Pipeline, 2 rows, 2 changes, 3 verbs (apply, pause, resume, remove) between cycles, apply may stop once it has paused what it revises, 1 crash, fairness | `TypeOK`, `RunningPipelinesFollowBase`, `BaseIsPrefix`, `DerivedRowsAreCurrent`, `BaseIffReferenced`, `OnlyRunningPipelinesReceive`, `RunningPipelinesConverge`, `BaseConverges` |
| `life_add_gap` | a Pipeline is added while a cycle runs | `RunningPipelinesFollowBase` fails |
| `derived_rows` | 9 Transforms, 2 customers and 1 order, 3 loads of which 2 overlap the replay, 2 changes, 2 attempts, 1 crash | `TypeOK`, `AffectIsExact`, `DerivedFollowsBase`, `TargetFollowsBase`, `DocumentsOldOrNew` |
| `derived_crash` | `distinct`, 2 changes, 1 crash | `DerivedIsEvaluation` fails |
| `repair` | 2 rows, 2 cycle processes, budgets 1 and 2, 2 changes, 2 checks, 1 damage, 1 crash or lost lock, fairness | `TypeOK`, `BaseKeepsRecorded`, `DocumentsFollow`, `AlignmentRestores`, `DriftRestores`, `EveryChangeRecorded` |
| `repair_race` | a check beside a cycle | `BaseKeepsRecorded` fails |
| `lab` | 3 processes, any two of 1 crash, 1 fault and 1 `lab up` or `lab down`; 26 Scenarios with every fault of their capability | `OneScenarioAtATime`, `ExclusiveCapture`, `AppComesBack`, `RemovedNamespaceIsGone`, `CorrectProductPasses`, `CapabilityFaultIsCaught` |

Bounds. Three log entries allow a change before and two after any point of
interest: two siblings of an SCN with a window of one or two, a change in the
overlap followed by a later one of the same row, a delete followed by a re-insert.
A second row is enough to see a change of one row overtake another's, and the
rows are interchangeable (symmetry in the safety run). Two Pipelines show a pause
of one, of the other and of both, and a crash between the two. Two attempts show a
retry and the quarantine after the last. One crash is enough to interrupt each
step once; a run with more repeats the same steps from the same kinds of store.

For the load, three keys and pages of one give a first, a middle and a last page, a
self-pause between them and a resumed run; two changes can touch a row before and
after it is read. For the lifecycle, two Pipelines give a bystander to every verb,
three verbs the sequences pause, revise, resume and revise, pause, resume, and two
changes one before and one during a verb's absence.

For Transforms, two customers that may share a group or a distinct value, and an
order that may join either of them, let a change move a row into, out of and between
groups, empty a group, and make and break a join; the second change meets what the
first one left, in the Maintenance State too. Two of the three loads are ahead of the
replay: one has rows inserted and updated since its start, the other lacks rows deleted
since. The nine Transforms hold each operator
once and the combinations with a path of their own in Affect Analysis.

For the checks, two rows and budgets of one and two give a truncated and a whole
sample; two checks an Alignment before a Drift Check. Two cycle processes are
what a lost lock needs. For the Lab, one process holds the lock, one takes it for
stale and one creates it anew; a second Scenario would add nothing, since processes
meet at the lock, and two runs of one Scenario share a Namespace as well. The
Scenarios have no bound: each is a finite script.

Fairness. `FairSpec` assumes weak fairness of the cycle as a whole (the
supervisor restarts it after every end, error or panic, and a cycle's steps follow
each other) and that open transactions end. Nothing forces new changes, a Delivery
to succeed (it is bounded by the attempts) or a crash (bounded by `MaxCrashes`:
with endlessly many crashes nothing can be promised). `LiveSpec` of
`PipelineLifecycle` assumes the same of a cycle, and that a verb that does not stop
goes on; no verb and no change has to happen. `FairSpec` of `VerifyRepair` assumes that
some cycle goes on and that a check that was started does; of two processes that
wait for the lock neither is promised its turn.

## Findings

- `sync_late_commit`: positions are SCNs of changes, and a fetch returns committed
  data at or above the checkpoint; a change made before and committed after a
  change that was checkpointed is never seen. The proofs therefore assume
  `CommitsInOrder`.
- `load_row_removed`: pages are OFFSETs into the live table. A row deleted among those
  already read makes the next page skip one that no change of the overlap touches.
- `life_add_gap`: a Pipeline added or resumed while a cycle is between Delivering and
  recording a change gets the change neither from its Delivery nor from the cycle.
- `derived_crash`: the Maintenance State of a change is stored after the change is
  recorded. A crash in between leaves it one change behind, the change is not
  analysed again, and a later change may be skipped that should remove a Derived row.
- `repair_race`: an Alignment takes no lock and writes back all rows. A change recorded
  since it sampled is overwritten, and never applied again.

## Known limits

The same models show these when their constants are changed as given; they have no
run of their own.

Sync and load:

- A change that cannot be applied to the Base Dataset is met again by every cycle;
  quarantine covers Delivery only: `sync_live.cfg` with
  `Kinds = {"upsert", "unappliable"}`, `EveryChangeApplied`.
- A row inserted among those already read is stored twice: `load_resume.cfg` with
  `RowsMoveBehind = TRUE` and `Kinds = {"upsert"}`, `OneRowPerKey`.
- The low-watermark does not look at open transactions: `load_resume.cfg` with
  `OpenAtWatermark = TRUE`, `NoRowMissed`.
- Schema Changes are read once per cycle; one that appears during the cycle, below
  the position the cycle then records, is never classified (`PendingDdl` of
  `IncrementalSync` reads `injected`).

Lifecycle, `life_verbs.cfg` with

- `LoadPauses = TRUE`, `RunningPipelinesFollowBase`: a paused load is Delivered and
  marked delivered, and what the next apply loads is not Delivered.
- `Verbs = {"pause", "resume"}` and `Stops = {"next"}`, `RunningPipelinesFollowBase`:
  resume unpauses before it catches up, and what fails in between is not repeated.
- `Initial = {}`, `Verbs = {"apply"}` and `Stops = {"next"}`,
  `RunningPipelinesFollowBase`: one change Delivered by a cycle marks a Pipeline
  delivered whose first Delivery failed.
- `Redeclares = TRUE`, `RunningPipelinesFollowBase`: a first Delivery deletes nothing, so
  a Pipeline removed and declared again keeps documents of rows deleted in between.
- `Interleaved = TRUE`, `OnlyRunningPipelinesReceive`: a cycle in flight keeps
  Delivering to a Pipeline that has been paused or revised.
- `Interleaved = TRUE`, `BaseIffReferenced`: a cycle in flight brings back a Base
  Dataset that remove has pruned, with the rows of the changes it still records only.
  `BaseConverges` is therefore stated for verbs that wait for cycles.
- `Interleaved = TRUE`, `RunningPipelinesFollowBase`: a catch-up Delivery that read its
  rows before a cycle recorded a change puts older documents back over its Delivery.
- A revision that stops after it has replaced the Pipelines leaves them paused, on old
  documents: with `Initial = {1, 2}`, `Verbs = {"apply"}` and every stage in `Stops`
  `RunningPipelinesFollowBase` and `OnlyRunningPipelinesReceive` hold. The run leaves
  these stages out for the first Delivery of an added Pipeline, which does not wait.
- Every apply drops the Derived Datasets of unchanged Pipelines by cascade, and a
  cycle brings back only the rows that change; `DerivedRowsAreCurrent` therefore lets
  rows be missing.

Checks:

- A Drift Check next to a cycle upserts rows it read before the cycle's Delivery, with
  `Interleaved = TRUE` and `DocumentsFollow`.
- With a lost lock two cycles record one after the other what each has read:
  `BaseKeepsRecorded` and `DocumentsFollow` are stated for `losses = 0`.
- An Alignment Delivers nothing: its documents wait for a Drift Check or the next
  change (`edited`). A Drift Check never deletes a document that nothing expects, and
  does not ask whether the Pipeline is paused.

Overlap of load and replay:

- `derived_crash.cfg` with `Loads <- InsertLoaded`, `Rows <- LoadedRows` and
  `MaxCrashes = 0`, `DerivedIsEvaluation`: ADR 0004 calls duplicate applies of the overlap
  acceptable (`docs/adr/0004-initial-load-cdc-overlap-no-gaps.md:3`). The Base Dataset takes them
  idempotently, the Maintenance State does not: an insert that the load has seen is counted
  again (`transform/src/lib.rs:1536`), the delete of the last row of its value is taken for
  one of several and skipped, and the Derived row and its document stay.
- Of a replayed update whose row the load lacks, the cycle stores the row although its
  analysis fails; the Derived row comes with the next change of it, or the next whole
  Delivery (`Contradicts`).

Transforms. The run leaves out combinations for which the code's analysis and
evaluation do not agree:

- a `rename` or `addFields` before a grouping (the identities of a grouping are
  evaluated on raw rows), and a `rename` after one;
- a null member of `addToSet`, which the Maintenance State and the evaluation treat
  differently;
- an update that changes the Output Identity of a row that is not grouped;
- decimals that differ only beyond the digits of an `f64`, which sort as equal.

A Transform that joins its primary table with itself reads the stored rows for the other
side (`Others`); none of the run does.

Lab:

- The comment "Exclusive create closes the TOCTOU race between runners"
  (`lab_scenario/mod.rs:5207`) holds for the creation; a stale lock is removed by its
  path after it was read, so that a new owner's file may be removed (`raced`).
- A lock file whose owner died before writing it cannot be parsed, and every later
  command ends there until somebody removes it.
- `lab up` and `lab down` look at no lock (`upped`); an app that runs while a
  Namespace is wiped may bring a collection back (`revived`).
- `rt-project` and `remove-pipeline` share a table and a collection, so that running one
  wipes what the other left.
- Faults of their own capability that Scenarios do not see (`BlindSpots`):
  `rt-distinct-addtoset` and `mega-mix` a `distinct` or `addToSet` that is skipped,
  `mega-mix` also a skipped `filterEq` or `addFields`; `rt-unwind` inserts no order,
  although it reports "unwind Output Identities insert/update/delete"
  (`lab_scenario/mod.rs:2530`).

## Proofs

`IncrementalSyncProofs` holds for every number of rows, Pipelines, changes,
window sizes, attempts and crashes, from the named assumptions on the constants.

- `TypeCorrect`: `Spec => []TypeOK`, one step per action.
- `NoGapHolds`, under `CommitsInOrder`. `NoGap` speaks of the durable checkpoint
  only and is not inductive: the checkpoint comes from the window's last item. The
  invariant `OrderInv` adds that the log is ordered, that committed changes are a
  prefix, that no gap lies below `startCheckpoint` and `resumeFrom` either, that row
  changes are applied in order, and `WindowComplete`: whatever must be recorded
  before an item of the window is applied or in the window. The hard step is
  `FetchedWindowComplete`: a row change left out by the limits cannot be owed to a
  Schema Change in the window, since the candidates before it would already fill
  the window. It is a counting argument about `FetchLimit` and `Cut`.
- `BaseIsReplayHolds` adds `RowsFollowBase` (how the rows in memory relate to the
  durable ones at each point of the cycle); `DrainedMeansEqualHolds` follows with
  `HandoffFromLog`.
- `ImplementsOrderedApplyHolds`: initial states map to initial states,
  `RecordRowProgress` to `Apply`, `RecordDdlProgress` to `AcknowledgeDdl`, steps of
  the Source to themselves and all others to stuttering.
- `NoDeliveryWhilePausedHolds` needs `PauseInv`, that the paused Pipelines are among
  those the cycle skips, and `ImpactInv`, that a Pipeline blocked by a Schema Change that
  the cycle has recorded is paused: a crash between two pauses leaves the change
  unrecorded, and the next cycle finds it again.
- `TargetFollowsBaseHolds`, under `CommitsInOrder`. The property leaves open what a
  cycle has done when it stops halfway. `TargetInv` therefore states it at every step,
  for every Pipeline that is not paused, and adds that a cycle about to record a change
  has settled it, by Delivery or by quarantine, with every Pipeline it no longer has to
  visit. Order enters through `NextIsEarliest`: the change at hand is the earliest one
  unapplied, so a document that has it is one change ahead and not two.
- `NoRedeliveryOfRecordedHolds` follows from the same facts: what a step Delivers is the
  change at hand, which is not recorded, although a window read again after a crash
  begins with changes that are.

`PipelineLifecycleProofs` holds for every set of rows, Pipelines, verbs and bounds.

- `TypeCorrect`, one step per action.
- `BaseIsPrefixHolds`, if verbs wait for cycles or none removes a Pipeline. The
  invariant `BaseInv` adds what a cycle relies on: its position and rows are those of
  the stored Base Dataset, one change ahead between `CycleApply` and `CycleRecord`
  (`CycleOnBase`). Nothing may prune the Base Dataset under it, hence `NoOverlap` for
  verbs that wait, and `PipelinesStay` for those that do not: without removals apply
  keeps every Pipeline, so `Pruned` keeps the Base Dataset. Without the assumption the
  property fails (see "Known limits").
- `BaseIffReferencedHolds`, if verbs wait for cycles and none stops between replacing the
  Pipelines and loading or pruning the Base Dataset: `ReferenceInv`
  states the equivalence at every step of a verb except between the replacement of
  the Pipelines and the pruning.
- `OnlyRunningPipelinesReceiveHolds`, if verbs wait for cycles. `ReceiveInv` says that
  the cycle's list agrees with the store on revision and pause, and that what a verb
  is to Deliver is declared and unpaused, or held paused by that verb.
- `RunningPipelinesFollowBaseHolds`. The property speaks only of the time between verbs;
  `FollowInv` says what holds during them. A Pipeline that a verb has still to Deliver
  (`Owed`) is exempt; every other one that runs, or is revised and waits to be unpaused,
  is current (`OthersAreCurrent`). `ApplyKnows` says that apply replaces the Pipelines by
  what they still are, `DeliveryInv` how far a Delivery has come and that a first one
  finds no documents, `CycleDelivers` which Pipelines have the change a cycle is at. The
  cases that need the other invariants are `ReplacePipelines` (with `ReferenceInv`:
  without a Base Dataset there is no Pipeline to keep) and `SyncBase` (a Base Dataset
  loaded now has only Pipelines to start). The assumptions are all needed, and TLC has a
  counterexample without each: verbs wait for cycles (`life_add_gap`), `LoadPauses` and
  `Redeclares` are off, and a verb stops, if at all, before it replaces the Pipelines. A
  crash of a cycle is allowed at any step.
- `DerivedRowsAreCurrentHolds` needs less: verbs wait for cycles, and none stops between
  unpausing a Pipeline and replacing its Derived rows (`Stops` without "next" and
  "derive"; TLC has a counterexample with either). An Initial Load may pause, and
  documents of an earlier Pipeline do no harm. `DerivedInv` holds at every step: only
  a Pipeline being resumed has outdated rows (`UpToDate`), since apply drops the rows of
  all; a Derived Dataset without its Pipeline or its Base Dataset is empty
  (`EmptyWithout`), so a new load finds none; and a load that goes on keeps the rows it
  has, because the watermark fixes the image of every row (`LoadedAreImages`,
  `ImageIsUnique`).

`InitialLoadProofs` holds for any finite table, page size, pauses, crashes and resumed
runs.

- `TypeCorrect`, and `ProgressIsKeptHolds` from `LoadInv`: a run that goes on works from
  the stored row count and, once rows are stored, from the stored watermark.
- `ResumesWhereItStoppedHolds` and `AppendsAreFreeHolds` from `RowsInv`: the stored
  ordinals are dense, and so is the page read last. That a page is dense (`PageIsDense`)
  follows from ranks: the rank of a row is the number of rows before it, so the rows of a
  finite table have the ranks from 0 up, each once (`RanksAreDense`, by well-founded
  induction on the size of the set).
- `OneRowPerKeyHolds`, if no row appears or disappears behind the OFFSET
  (`RowsMoveBehind = FALSE`). `BehindInv`: the keys stored, and those with the page read
  last, are a beginning of the table in key order, so the next page cannot meet them.
- `HandoffAsAssumedHolds` and `NoRowMissedHolds`, if moreover no transaction is open at
  the watermark. `HandoffInv`: every change still open lies in the window that will be
  replayed (`WindowHolds`), and every row stored or read, and every key found to have no
  row, is as it was when that window began or as a change of the window left it
  (`IsSound`). `load_row_removed` shows what the first assumption excludes; the second
  excludes a change made before the watermark that commits after its row was read.

`VerifyRepairProofs` holds for any number of rows, processes, changes, checks, faults and
damage.

- `TypeCorrect`, one step per action; inductive with the fact that a cycle that is at a
  change is at one of the log (`TypeInv`).
- `AlignmentRestoresHolds`, in any interleaving. `AlignInv` says that a sample is the
  Source at some moment since the start, which stays true because the past of a table
  is fixed (`PastIsFixed`); `WholeWindow` is the counting argument that a sample which was
  not truncated has all rows in its window.
- `BaseKeepsRecordedHolds`, if checks wait for cycles. The property is not inductive: a
  cycle could record an old change over a newer one. `LockInv` (a running cycle has
  the lock) and `PrefixInv` exclude it: what was recorded is a prefix of the log, no
  checkpoint, stored or listed by an Alignment, lies beyond it, and so the change a
  cycle fetches is the next one (`FetchIsNext`), although the checkpoint may go back.
  `KeepInv` adds that an Alignment began no earlier than the last record, and that the
  rows it read are still the rows.
- `DriftRestoresHolds`, if checks wait for cycles: what a check has read is still so while
  `damage` has not moved (`DriftInv`).
- `DocumentsFollowHolds`, under both assumptions: `FollowInv` adds that a cycle about to
  record a change has Delivered it, and that a Drift Check repairs from current rows.

`DerivedMaintenanceProofs` holds for any Transforms, rows and bounds that satisfy the two
assumptions. The theorems have the form `Spec /\ []AffectIsExact => []P`: what the
operators and Affect Analysis compute of rows is left to TLC, and what is proved is that
this is enough, over every load, replayed changes included, and every order of failures,
retries, quarantines, crashes and catch-up Deliveries. Of what the three say only
`trusted` is left out: a change that contradicts the Base or a state that counts too much
ends them until the next whole Delivery.

- `TypeCorrect` needs `RecomputationIsExact` only. `TypeInv` adds that a change not yet
  recorded has room for its row (`RoomForChange`, so the Base Datasets stay in `Bases`),
  and that every document and every planned row is one that some Bases yield
  (`AreDocuments`).
- `DerivedFollowsBaseHolds`. Between the store of the Derived rows and the record of the
  change the rows are new and the Base is old, and a retry starts from there.
  `DerivedInv` says that the rows are those of the Bases before or after the change
  until it is maintained, and after it from then on. Both look alike to a retry: they
  differ only in rows that the identities stand for, which are replaced, so replacing
  them yields the new rows from either. Derived rows are a bag; that no row is in it
  twice follows from exactness and from the Output Identity telling rows apart.
- `TargetFollowsBaseHolds` and `DocumentsOldOrNewHolds`. `TargetInv` compares the Target
  with the rows one identity at a time, those left behind excepted: its document is a
  row of these Bases, or there is neither (`Shows`). Until the change is Delivered it
  agrees with the Bases before or after, a planned row after `Upsert` with those after,
  and every one with those after once `Delete` is done. `PlanInv` says that a plan names
  every identity whose row comes or goes and deletes none that has a row. An identity
  outside the plan has the same row before and after (`UntouchedShows`), so a write that
  fails half way (`Partly`) leaves each document old, new or set aside.

`LabRunProofs` holds for any number of processes, Scenarios, crashes, faults and Operator
commands: `TypeCorrect`, `OneScenarioAtATimeHolds`, `ExclusiveCaptureHolds`,
`AppComesBackHolds` and `RemovedNamespaceIsGoneHolds`. The invariant `IInv` adds to the
four where a look at the lock or a wipe may lead (`ThenInv`), that an active process
owns the lock file (`LockInv`), and which parts of a Namespace are gone at each step of
a wipe (`WipeInv`).

`DecimalProofs` has one theorem about an operator: `RoundedIsNearest`, that truncated
division corrected by remainder and sign yields the nearest quotient of an average,
halves away from zero, for integers of any size. (What limits their size is `Wide`,
in `Average`.)

Only model-checked:

- `AffectIsExact`, the hypothesis of `DerivedMaintenanceProofs`: what a Transform yields and what Affect Analysis finds are
  folds over operators and rows, so that what they compute for every input needs an
  induction over data;
- `LabScenarios`, a finite set of scripts over the same operators, which TLC runs all;
- the liveness properties (`EveryChangeApplied`, `TargetConverges`,
  `RunningPipelinesConverge`, `BaseConverges`, `EveryChangeRecorded`), which are out of
  the prover's reach.

## Not modelled

Oracle, MongoDB and PostgreSQL themselves; text and JSON conversions; the parser of the
aggregation dialect (`transform/src/aggregation_dx.rs`) and the validation of documents
at apply; configuration files and argument parsing; metrics, health labels, capacity
and guardrail figures, which are read and printed and change no state; performance
thresholds, pressure probes and reports of the Lab. A cycle over several tables or
Deployments, checks over several Pipelines, and apply with Secondary Bases repeat
for one after the other what is modelled for one, and are not composed.
