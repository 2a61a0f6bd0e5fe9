------------------------- MODULE DerivedMaintenance -------------------------
(* One Transform Pipeline in the Sync cycles: what a change of one of its    *)
(* Bases does to its Derived Dataset, its Maintenance State and its Target   *)
(* documents (crates/runtime/src/incremental.rs, apply.rs).  Derived rows    *)
(* are stored before Delivery, the Base row with the checkpoint after it,    *)
(* and the Maintenance State last; a Delivery may fail, and be retried from  *)
(* the analysis on, and the process may die between any two of them.         *)
(*                                                                           *)
(* The Target merges the Managed fields of a document, here all of them, and *)
(* a document is known by its Output Identity.                               *)
(*                                                                           *)
(* The first cycle replays changes from the low-watermark of the Initial     *)
(* Load on (cutover.rs), which the loaded rows may already show: a row is    *)
(* inserted that the Base has, updated or deleted that it lacks.             *)
EXTENDS AffectAnalysis

CONSTANTS Transforms,    \* records [ops, identity]: operators, Output Identity fields
          Primary,       \* table names
          Foreign,
          KeyField,      \* the primary key field of each table
          Rows,          \* the images rows of each table may take
          Loads,         \* records [loaded, start]: the rows an Initial Load left, and
                         \* those of the Source where the replay of changes starts
          RowsLoaded,    \* bound on the rows of a table that is loaded
          MaxAttempts,   \* max_poison_attempts
          MaxChanges,    \* bound on Source changes
          MaxCrashes     \* bound on process deaths

ASSUME BoundsAssumption ==
    /\ MaxAttempts \in Nat \ {0} /\ MaxChanges \in Nat /\ MaxCrashes \in Nat
    /\ RowsLoaded \in Nat

VARIABLES
    source,     \* Source: its tables, as far as the changes met go
    transform,  \* the Pipeline's transform and Output Identity
    base,       \* Platform Store: the Base Datasets, rows in the order of their ordinals
    derived,    \* Platform Store: how often each Derived row is stored
    state,      \* Platform Store: the Maintenance State
    target,     \* Target System: the document of each Output Identity
    phase,      \* what the cycle does next
    change,     \* the change it is at
    attempt,    \* Delivery attempts that failed for it
    plan,       \* rows to upsert and Output Identities to delete
    pending,    \* the Maintenance State to store once the change is recorded
    undelivered,\* auxiliary: Output Identities a quarantine left as they were
    trusted,    \* auxiliary: no state was lost so that what is left counts too much,
                \* and no replayed change contradicted the Base
    changes, crashes

store == <<base, derived, state>>
vars == <<source, transform, store, target, phase, change, attempt, plan, pending, undelivered,
          trusted, changes, crashes>>

NoChange == [kind |-> "none"]
NoPlan == [upserts |-> <<>>, deletes |-> {}]
Tables == {Primary, Foreign}
Ops == transform.ops

-----------------------------------------------------------------------------
(* row_matches_identity, apply_change_events_to_base_rows: an image replaces *)
(* the row of its key or comes last; keys are unique.                        *)
SameKey(table, r, s) == r[KeyField[table]] = s[KeyField[table]]
RowIn(tables, table, row) == SelectSeq(tables[table], LAMBDA r : SameKey(table, r, row))
RowOf(table, row) == RowIn(base, table, row)

Applied(rows, c) ==
    LET at == {i \in DOMAIN rows : SameKey(c.table, rows[i], c.row)}
        here == CHOOSE i \in at : TRUE
    IN  IF at = {} THEN IF c.kind = "delete" THEN rows ELSE Append(rows, c.row)
        ELSE IF c.kind = "delete" THEN RemoveAt(rows, here) ELSE [rows EXCEPT ![here] = c.row]

(* secondary_base_refs, pipeline_base_table_refs *)
Secondary(ops) == {ops[i].from : i \in {j \in DOMAIN ops : Is(ops[j], {"equiLookup", "union"})}}
Referenced == {Primary} \cup Secondary(Ops)

EvaluationOf(t, tables) ==
    Evaluate(t.ops, tables[Primary], [s \in Secondary(t.ops) |-> tables[s]])
Evaluation(tables) == EvaluationOf(transform, tables)

RowBag(rows) == [r \in Range(rows) |-> Cardinality({i \in DOMAIN rows : rows[i] = r})]

(* output_identity_from_row; a row may lack a field of it *)
IdentityOf(t, row) == Keep(row, Range(t.identity))
OutputIdentity(row) == IdentityOf(transform, row)
Identified(row) == Range(transform.identity) \subseteq DOMAIN row
IdentitiesOf(rows) == {OutputIdentity(r) : r \in Range(rows)}

(* delivery_document_for_row, upsert_managed: Managed fields are merged, so  *)
(* the last row that has a field gives its value.                            *)
Upserted(documents, rows) ==
    LET Before(id) == IF id \in DOMAIN documents THEN documents[id] ELSE NoRow
        Of(id) == {i \in DOMAIN rows : OutputIdentity(rows[i]) = id}
        With(id, f) == {i \in Of(id) : f \in DOMAIN rows[i]}
        Merged(id) == [f \in DOMAIN Before(id) \cup UNION {DOMAIN rows[i] : i \in Of(id)} |->
                        IF With(id, f) = {} THEN Before(id)[f] ELSE rows[Max(With(id, f))][f]]
    IN  [id \in DOMAIN documents \cup IdentitiesOf(rows) |-> Merged(id)]
Deleted(documents, ids) == [id \in DOMAIN documents \ ids |-> documents[id]]

-----------------------------------------------------------------------------
(* The contents the Base Datasets may have: one row of a key, and no more    *)
(* rows than were loaded and the changes of the Source bring.                *)
Contents(table) ==
    {rows \in UNION {[1..n -> Rows[table]] : n \in 0..(RowsLoaded + MaxChanges)} :
        \A i, j \in DOMAIN rows : SameKey(table, rows[i], rows[j]) => i = j}
Bases == {[t \in Tables |-> IF t = Primary THEN p ELSE f]
            : p \in Contents(Primary), f \in Contents(Foreign)}

ASSUME TablesAssumption ==
    /\ \A load \in Loads : load.loaded \in Bases
    /\ \A load \in Loads : \A t \in Tables : Len(load.loaded[t]) <= RowsLoaded
    /\ \A t \in Transforms : Secondary(t.ops) \subseteq Tables

(* An evaluation yields rows, and the Output Identity is one: every row has  *)
(* it, and it tells the rows of a Derived Dataset apart.  Rows of the same   *)
(* identity have the same fields, whenever they are derived.                 *)
Outputs(t) == UNION {Range(EvaluationOf(t, tables)) : tables \in Bases}
IsRow(r) == r \in [DOMAIN r -> Range(r)]

ASSUME IdentityAssumption ==
    \A t \in Transforms :
        /\ \A r \in Outputs(t) : IsRow(r) /\ Range(t.identity) \subseteq DOMAIN r
        /\ \A tables \in Bases :
              LET rows == EvaluationOf(t, tables) IN rows \in Seq(Range(rows))
        /\ \A tables \in Bases : \A i, j \in DOMAIN EvaluationOf(t, tables) :
              IdentityOf(t, EvaluationOf(t, tables)[i]) = IdentityOf(t, EvaluationOf(t, tables)[j])
                => i = j
        /\ \A r, s \in Outputs(t) : IdentityOf(t, r) = IdentityOf(t, s) => DOMAIN r = DOMAIN s

-----------------------------------------------------------------------------
(* deliver_transform_pipeline_with_options: all Derived rows and a new       *)
(* Maintenance State from the Bases, then the documents, of which those      *)
(* without a row are deleted.                                                *)
DeliverAll(rows) ==
    /\ derived' = RowBag(rows)
    /\ target' = Upserted(Deleted(target, DOMAIN target \ IdentitiesOf(rows)), rows)

Reconcile(tables) ==
    /\ DeliverAll(Evaluation(tables))
    /\ state' = InitialState(Ops, tables[Primary])
    /\ undelivered' = {} /\ trusted' = TRUE

Init ==
    /\ transform \in Transforms
    /\ \E load \in Loads : base = load.loaded /\ source = load.start
    /\ derived = RowBag(Evaluation(base))
    /\ state = InitialState(Ops, base[Primary])
    /\ target = Upserted(NoRow, Evaluation(base))
    /\ phase = "idle" /\ change = NoChange /\ attempt = 0
    /\ plan = NoPlan /\ pending = NoState
    /\ undelivered = {} /\ trusted = TRUE /\ changes = 0 /\ crashes = 0

(* Catch-up Delivery of a resumed or revised Pipeline, between two changes.  *)
Redeliver ==
    /\ phase = "idle"
    /\ Reconcile(base)
    /\ UNCHANGED <<source, transform, base, phase, change, attempt, plan, pending, changes,
                   crashes>>

(* A replayed change that Affect Analysis takes for what it is not: the      *)
(* update of a row the Base lacks is not analyzed but recorded, and the      *)
(* insert of one it has is analyzed as if the row were new.                  *)
Contradicts(c) ==
    LET stored == RowOf(c.table, c.row)
        byRow == ~Grouped(Ops) /\ ~HasOp(Ops, IF c.table = Primary THEN {"unwind"}
                                              ELSE {"equiLookup"})
    IN  \/ c.kind = "update" /\ stored = <<>>
        \/ /\ c.kind = "insert" /\ stored # <<>>
           /\ RequiresState(Ops) \/ (~byRow /\ stored # <<c.row>>)

(* The next change of the Source, decoded and met by the cycle: what it is   *)
(* called comes from the Source, whatever the Base holds.                    *)
NextChange ==
    /\ phase = "idle" /\ changes < MaxChanges
    /\ \E table \in Referenced, row \in Rows[Primary] \cup Rows[Foreign],
          kind \in {"insert", "update", "delete"} :
        /\ row \in Rows[table]
        /\ IF kind = "insert" THEN RowIn(source, table, row) = <<>>
           ELSE RowIn(source, table, row) # <<>>
        /\ kind = "delete" => RowIn(source, table, row) = <<row>>
        /\ change' = [table |-> table, kind |-> kind, row |-> row]
    /\ source' = [source EXCEPT ![change'.table] = Applied(@, change')]
    /\ trusted' = (trusted /\ ~Contradicts(change'))
    /\ changes' = changes + 1
    /\ phase' = "maintain" /\ attempt' = 0
    /\ UNCHANGED <<transform, store, target, plan, pending, undelivered, crashes>>

-----------------------------------------------------------------------------
(* maintain_transform_pipeline_for_change: the changed Base as the cycle has *)
(* it in memory, the others and the Maintenance State as stored.             *)
InMemory == [base EXCEPT ![change.table] = Applied(@, change)]

(* A Transform that reads its primary table as another one reads it as stored. *)
Others == [t \in Secondary(Ops) |-> IF t = Primary THEN base[t] ELSE InMemory[t]]

Analysis ==
    LET before == RowOf(change.table, change.row)
        pre == IF before = <<>> THEN NoRow ELSE Head(before)
        after == IF change.kind = "delete" THEN NoRow ELSE change.row
    IN  AnalyzeBaseChange(Ops, change.table, Primary, change.kind, pre, after,
                          InMemory[Primary], Others, state)

FaultyRecomputed(identities) ==
    EvaluateFor(Ops, <<change.row>>, Others, identities)

(* recompute_and_deliver_affected_identities *)
Recomputed(identities) ==
    EvaluateFor(Ops, InMemory[Primary], Others, identities)

(* Which stored rows an identity stands for: of grouped Transforms those that *)
(* contain it, of the others those of its Output Identity.                   *)
HasAll(row, fields) == DOMAIN fields \subseteq DOMAIN row /\ Keep(row, DOMAIN fields) = fields

(* identity_targets_row: decimals are compared, not their text. *)
Targets(identity, row) ==
    MatchesOn(IF Grouped(Ops) THEN DOMAIN identity ELSE Range(transform.identity), identity, row)

(* The rows a recomputation replaces: matched as text in the store or, when  *)
(* an identity lacks a field of the Output Identity, in memory.              *)
StandFor(identities, row) ==
    LET complete == Grouped(Ops) \/ \A i \in DOMAIN identities : Identified(identities[i])
        Stands(id, r) == IF complete
                         THEN HasAll(r, IF Grouped(Ops) THEN id ELSE OutputIdentity(id))
                         ELSE Targets(id, r)
    IN  AnyOf(identities, Stands, row)

Replaced(identities) == {r \in DOMAIN derived : StandFor(identities, r)}

DerivedAfter(identities, rows) ==
    Drop(derived, Replaced(identities)) (+) RowBag(rows)

FaultyGone(identities, rows) == {}

Gone(identities, rows) ==
    {identities[i] : i \in {j \in DOMAIN identities :
        \A k \in DOMAIN rows : ~Targets(identities[j], rows[k])}}

FaultyFails(ids) ==
    /\ attempt' = attempt + 1
    /\ IF attempt < MaxAttempts THEN phase' = "maintain" /\ UNCHANGED undelivered
       ELSE phase' = "record" /\ undelivered' = undelivered \cup ids
    /\ plan' = NoPlan /\ pending' = NoState

(* An attempt fails: it is made again from the analysis on, or the change is *)
(* quarantined, its Maintenance State with it, and recorded all the same.    *)
Fails(ids) ==
    /\ attempt' = attempt + 1
    /\ IF attempt + 1 < MaxAttempts
       THEN phase' = "maintain" /\ UNCHANGED undelivered
       ELSE phase' = "record" /\ undelivered' = undelivered \cup ids
    /\ plan' = NoPlan /\ pending' = NoState

AffectedBy(outcome) == IF "recompute" \in DOMAIN outcome THEN outcome.recompute ELSE <<>>

(* The recomputed rows replace those of the identities, and are planned.     *)
MaintainDerived(identities, rows, next) ==
    LET gone == Gone(identities, rows)
    IN  IF rows = Failed THEN Fails({}) /\ UNCHANGED derived
        ELSE /\ derived' = DerivedAfter(identities, rows)
             /\ IF \A r \in Range(rows) \cup gone : Identified(r)
                THEN /\ plan' = [upserts |-> rows,
                                 deletes |-> {OutputIdentity(id) : id \in gone}]
                     /\ pending' = next
                     /\ phase' = "upsert"
                     /\ UNCHANGED <<attempt, undelivered>>
                ELSE Fails({})

MaintainOn(analysis) ==
    IF analysis.outcome = AnalysisFailed THEN Fails({}) /\ UNCHANGED derived
    ELSE MaintainDerived(AffectedBy(analysis.outcome), Recomputed(AffectedBy(analysis.outcome)),
                         analysis.state)

Maintain ==
    /\ phase = "maintain"
    /\ MaintainOn(Analysis)
    /\ UNCHANGED <<source, transform, base, state, target, change, trusted, changes, crashes>>

Upsert ==
    /\ phase = "upsert"
    /\ target' = Upserted(target, plan.upserts)
    /\ undelivered' = undelivered \ IdentitiesOf(plan.upserts)
    /\ phase' = "delete"
    /\ UNCHANGED <<source, transform, store, change, attempt, plan, pending, trusted, changes,
                   crashes>>

Delete ==
    /\ phase = "delete"
    /\ target' = Deleted(target, plan.deletes)
    /\ undelivered' = undelivered \ plan.deletes
    /\ phase' = "record" /\ plan' = NoPlan
    /\ UNCHANGED <<source, transform, store, change, attempt, pending, trusted, changes, crashes>>

Planned == IdentitiesOf(plan.upserts) \cup plan.deletes

(* A write fails, having reached some of its documents. *)
Partly(before, after, reached) ==
    [id \in (DOMAIN before \ reached) \cup (DOMAIN after \cap reached) |->
        IF id \in reached THEN after[id] ELSE before[id]]

WriteFails ==
    /\ phase \in {"upsert", "delete"}
    /\ \E reached \in SUBSET Planned :
        target' = Partly(target, IF phase = "upsert" THEN Upserted(target, plan.upserts)
                                 ELSE Deleted(target, plan.deletes), reached)
    /\ Fails(Planned)
    /\ UNCHANGED <<source, transform, store, change, trusted, changes, crashes>>

(* The Maintenance State counts more rows of some identity than there are. *)
Counted(e) == Refcount(InitialState(Ops, base[Primary]), e.identity, e.value)
Overcounts == state # NoState /\ \E e \in state : e.refcount > Counted(e)

(* record_sync_row_progress *)
Record ==
    /\ phase = "record"
    /\ base' = InMemory
    /\ phase' = "persist"
    /\ UNCHANGED <<source, transform, derived, state, target, change, attempt, plan, pending,
                   undelivered, trusted, changes, crashes>>

(* persist_maintenance_state_blob, of Transforms that have one. *)
Persist ==
    /\ phase = "persist"
    /\ state' = IF pending = NoState THEN state ELSE pending
    /\ phase' = "idle" /\ change' = NoChange /\ pending' = NoState /\ attempt' = 0
    /\ UNCHANGED <<source, transform, base, derived, target, plan, undelivered, changes, crashes>>
    /\ trusted' = (trusted /\ (pending = NoState => ~Overcounts'))

(* The process dies.  The next cycle meets the change again unless it was    *)
(* recorded.                                                                 *)
Crash ==
    /\ phase # "idle" /\ crashes < MaxCrashes
    /\ IF phase = "persist" THEN phase' = "idle" /\ change' = NoChange
       ELSE phase' = "maintain" /\ UNCHANGED change
    /\ attempt' = 0 /\ plan' = NoPlan /\ pending' = NoState
    /\ crashes' = crashes + 1
    /\ trusted' = (trusted /\ (phase = "persist" => ~Overcounts))
    /\ UNCHANGED <<source, transform, store, target, undelivered, changes>>

Next == \/ NextChange \/ Maintain \/ Upsert \/ Delete \/ WriteFails
        \/ Record \/ Persist \/ Crash \/ Redeliver
Spec == Init /\ [][Next]_vars

-----------------------------------------------------------------------------
(* TypeOK: what the phases hold, and attempts stay below their limit.        *)
TypeOK ==
    /\ transform \in Transforms
    /\ base \in Bases
    /\ phase \in {"idle", "maintain", "upsert", "delete", "record", "persist"}
    /\ (phase = "idle") = (change = NoChange)
    /\ attempt \in 0..MaxAttempts /\ (attempt = MaxAttempts => phase \in {"record", "persist"})
    /\ \A id \in DOMAIN target : OutputIdentity(target[id]) = id
    /\ changes \in 0..MaxChanges /\ crashes \in 0..MaxCrashes

(* Of the identities of a change, those rows are evaluated again that the    *)
(* Derived Dataset has or will have for them, no other and none twice.       *)
IsExact(ids, rows, new) ==
    LET wanted == {r \in Range(new) : StandFor(ids, r)}
    IN  /\ rows # Failed /\ rows \in Seq(wanted) /\ wanted \subseteq Range(rows)
        /\ \A i, j \in DOMAIN rows : rows[i] = rows[j] => i = j

ExactOn(outcome) ==
    outcome # AnalysisFailed =>
        IsExact(AffectedBy(outcome), Recomputed(AffectedBy(outcome)), Evaluation(InMemory))

RecomputationIsExact == phase = "maintain" => ExactOn(Analysis.outcome)

(* The identities found cover what the change does: no other row comes or    *)
(* goes, a document is deleted only if no row is left for it, and always if  *)
(* its row goes.                                                             *)
Covers(ids, rows, gone, old, new) ==
    LET deletes == {OutputIdentity(id) : id \in gone}
    IN  /\ \A r \in (old \ new) \cup (new \ old) : StandFor(ids, r)
        /\ \A id \in gone : Identified(id)
        /\ deletes \cap {OutputIdentity(r) : r \in new} = {}
        /\ \A r \in old : StandFor(ids, r) =>
              OutputIdentity(r) \in IdentitiesOf(rows) \cup deletes

CoveredBy(ids, rows) ==
    Covers(ids, rows, Gone(ids, rows), Range(Evaluation(base)), Range(Evaluation(InMemory)))

CoversOn(outcome) ==
    IF outcome = AnalysisFailed THEN InMemory = base
    ELSE CoveredBy(AffectedBy(outcome), Recomputed(AffectedBy(outcome)))

AnalysisCoversChange == phase = "maintain" /\ trusted => CoversOn(Analysis.outcome)

(* Affect Analysis and the evaluation of what it finds are right, of every   *)
(* change and of every replayed one that does not contradict the loaded row, *)
(* by whatever retries, crashes and quarantines it is preceded, as long as   *)
(* no lost Maintenance State leaves one that counts too much.  It fails only *)
(* for a change that changes nothing, the delete of a row never loaded.      *)
AffectIsExact == RecomputationIsExact /\ AnalysisCoversChange

(* Between changes the Derived Dataset is what the Transform yields of the   *)
(* Bases, no row more often: skipping a change was right, unless a lost      *)
(* Maintenance State left one that counts too much, or a replayed insert or  *)
(* update contradicted the loaded rows, since the last full Delivery.        *)
DerivedFollowsBase ==
    phase = "idle" /\ trusted => derived = RowBag(Evaluation(base))

AgreesWith(documents) ==
    \A id \in (DOMAIN target \cup DOMAIN documents) \ undelivered :
        /\ id \in DOMAIN target \cap DOMAIN documents
        /\ target[id] = documents[id]

(* And the documents are its rows, except those a quarantine left behind,    *)
(* with the same two provisos.                                               *)
TargetFollowsBase ==
    phase = "idle" /\ trusted => AgreesWith(Upserted(NoRow, Evaluation(base)))

(* At no time does the Target show a document that is of neither the Bases   *)
(* before the change nor those after it, with the same two provisos.         *)
DocumentsOldOrNew ==
    trusted =>
        LET rows == Range(Evaluation(base)) \cup
                    IF phase = "idle" THEN {} ELSE Range(Evaluation(InMemory))
        IN  \A id \in DOMAIN target \ undelivered : target[id] \in rows

(* The same without the provisos: what a reader of the Derived Dataset sees. *)
DerivedIsEvaluation == phase = "idle" => derived = RowBag(Evaluation(base))
=============================================================================
