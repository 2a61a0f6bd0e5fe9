--------------------------- MODULE AffectAnalysis --------------------------
(* Affect Analysis of crates/transform: which Output Identities one change   *)
(* of a Base can affect, and the Maintenance State of distinct and addToSet, *)
(* which counts how many primary rows contribute to each identity or member. *)
EXTENDS Transform

NoRow == [f \in {} |-> Null]
NoState == {[none |-> TRUE]}

SkipUnusedFields == [skip |-> "unused fields"]
SkipValueUnchanged == [skip |-> "value unchanged"]
Recompute(identities) == [recompute |-> identities]
AnalysisFailed == [recompute |-> Failed]

If(condition, s) == IF condition THEN s ELSE <<>>

(* push_unique_identity *)
PushUnique(identities, more) ==
    FoldLeft(LAMBDA s, id : IF AnyOf(s, IdentitiesEq, id) THEN s ELSE Append(s, id),
             identities, more)

-----------------------------------------------------------------------------
(* affect_deps: for each output field the Base fields it comes from          *)
(* (lineage); closed once an operator names all output fields; the Base      *)
(* fields removed from an open output; those a filter or an unwind reads.    *)
NoDeps == [lineage |-> NoRow, closed |-> FALSE, removed |-> {}, read |-> {}]

ResolveFieldDeps(d, field) ==
    IF field \in DOMAIN d.lineage THEN d.lineage[field]
    ELSE IF d.closed \/ field \in d.removed THEN {} ELSE {field}

(* One output field that comes from some Base fields. *)
Output(d, field, deps) ==
    [d EXCEPT !.lineage = Put(@, field, deps), !.removed = @ \ {field}]

(* What project, groupBy, distinct and addToSet let through: [as, field]. *)
Selected(op) ==
    CASE op.op \in {"project", "distinct"} ->
            [i \in DOMAIN op.fields |-> [as |-> op.fields[i], field |-> op.fields[i]]]
      [] op.op = "groupBy" ->
            [i \in DOMAIN op.keys |-> [as |-> op.keys[i], field |-> op.keys[i]]]
            \o op.aggregates
      [] op.op = "addToSet" ->
            [i \in DOMAIN op.keys |-> [as |-> op.keys[i], field |-> op.keys[i]]]
            \o <<[as |-> op.as, field |-> op.field]>>

Select(d, op) ==
    LET Next(n, o) == Output(n, o.as, ResolveFieldDeps(d, o.field))
    IN  FoldLeft(Next, [d EXCEPT !.lineage = NoRow, !.closed = TRUE, !.removed = {}],
                 Selected(op))

UnwindDeps(d, op) ==
    LET deps == ResolveFieldDeps(d, op.path)
        rest == Drop(d.lineage, {op.path})
    IN  [d EXCEPT !.lineage = [f \in DOMAIN rest |-> rest[f] \cup deps],
                  !.removed = @ \cup {op.path}, !.read = @ \cup deps]

OpDeps(d, op) ==
    CASE op.op \in {"project"} \cup Grouping -> Select(d, op)
      [] op.op = "filterEq" -> [d EXCEPT !.read = @ \cup ResolveFieldDeps(d, op.field)]
      [] op.op = "addFields" ->
            FoldLeft(LAMBDA e, spec :
                        Output(e, spec.as, IF "literal" \in DOMAIN spec THEN {}
                                           ELSE ResolveFieldDeps(e, spec.field)),
                     d, op.fields)
      [] op.op = "rename" ->
            FoldLeft(LAMBDA e, spec :
                        Output([e EXCEPT !.lineage = Drop(@, {spec.from}),
                                         !.removed = IF e.closed THEN @
                                                     ELSE @ \cup {spec.from}],
                               spec.to, ResolveFieldDeps(e, spec.from)),
                     d, op.fields)
      [] op.op = "remove" -> [d EXCEPT !.lineage = Drop(@, Range(op.fields)),
                                       !.removed = @ \cup Range(op.fields)]
      [] op.op = "equiLookup" -> Output(d, op.as, ResolveFieldDeps(d, op.localField))
      [] op.op = "unwind" -> UnwindDeps(d, op)
      [] op.op = "union" -> d

Deps(ops) == FoldLeft(OpDeps, NoDeps, ops)

(* used_base_fields *)
UsedBaseFields(ops) ==
    LET d == Deps(ops) IN d.read \cup UNION {d.lineage[f] : f \in DOMAIN d.lineage}

ChangedFields(pre, after) ==
    {f \in DOMAIN pre \cup DOMAIN after :
        ~(HasField(pre, f) /\ HasField(after, f) /\ JsonValuesEq(pre[f], after[f]))}

(* An update of fields that no output depends on. *)
OnlyUnusedChanged(ops, pre, after) ==
    LET changed == ChangedFields(pre, after)
        unused == Deps(ops).removed \ UsedBaseFields(ops)
    IN  IF Deps(ops).closed THEN changed \cap UsedBaseFields(ops) = {}
        ELSE changed \subseteq unused

-----------------------------------------------------------------------------
(* Maintenance State: a set of [identity, value, refcount]; value is Null for *)
(* distinct and the member for addToSet.                                     *)
RequiresState(ops) == HasOp(ops, Stateful)
StateOpAt(ops) == CHOOSE i \in DOMAIN ops :
                    Is(ops[i], Stateful) /\ \A j \in 1..(i - 1) : ~Is(ops[j], Stateful)
StateOp(ops) == ops[StateOpAt(ops)]
StatePrefix(ops) == SubSeq(ops, 1, StateOpAt(ops) - 1)

(* shape_row_before_ms_operator: <<>> when the prefix filters the row out. *)
ShapedBeforeState(ops, row) ==
    IF RequiresState(ops) THEN Evaluate(StatePrefix(ops), <<row>>, NoBases) ELSE <<row>>

SameEntry(e, identity, value) ==
    IdentitiesEq(e.identity, identity) /\ JsonValuesEq(e.value, value)

(* state_refcount *)
Refcount(state, identity, value) ==
    IF \E e \in state : SameEntry(e, identity, value)
    THEN (CHOOSE e \in state : SameEntry(e, identity, value)).refcount ELSE 0

(* bump_state: an entry lives as long as its count is positive. *)
Bump(state, identity, value, delta) ==
    LET same == {e \in state : SameEntry(e, identity, value)}
        count == Refcount(state, identity, value) + delta
    IN  IF same # {}
        THEN (state \ same) \cup {[e EXCEPT !.refcount = count] : e \in {x \in same : count > 0}}
        ELSE state \cup {[identity |-> identity, value |-> value, refcount |-> d]
                            : d \in {delta} \cap (1..delta)}

(* What one shaped row adds to the state: nothing if it has no member. *)
Count(op, state, row, delta) ==
    IF op.op = "distinct" THEN Bump(state, Identity(row, op.fields), Null, delta)
    ELSE IF FieldOrNull(row, op.field) = Null THEN state
    ELSE Bump(state, Identity(row, op.keys), row[op.field], delta)

(* build_maintenance_state *)
BuildState(ops, rows) ==
    FoldLeft(LAMBDA state, r : Count(StateOp(ops), state, r, 1),
             {}, Evaluate(StatePrefix(ops), rows, NoBases))

(* initial_maintenance_state *)
InitialState(ops, rows) == IF RequiresState(ops) THEN BuildState(ops, rows) ELSE NoState

(* maintain_state_for_change: the old image is taken out, the new one put in. *)
MaintainState(ops, state, kind, pre, after) ==
    LET Shaped(row, ofKinds) == If(kind \in ofKinds, ShapedBeforeState(ops, row))
        CountAll(s, rows, delta) ==
            IF rows = <<>> THEN s ELSE Count(StateOp(ops), s, Head(rows), delta)
    IN  CountAll(CountAll(state, Shaped(pre, {"update", "delete"}), -1),
                 Shaped(after, {"insert", "update"}), 1)

FaultyDistinctAffect(kind, state, afterId, preId) ==
    CASE kind = "insert" -> If(Refcount(state, afterId, Null) = 0, <<afterId>>)
      [] kind = "delete" -> If(Refcount(state, preId, Null) < 1, <<preId>>)
      [] kind = "update" -> If(~IdentitiesEq(preId, afterId), <<preId, afterId>>)

(* distinct_value_level_affect *)
DistinctAffect(kind, state, afterId, preId) ==
    CASE kind = "insert" -> If(Refcount(state, afterId, Null) = 0, <<afterId>>)
      [] kind = "delete" -> If(Refcount(state, preId, Null) <= 1, <<preId>>)
      [] kind = "update" ->
            LET moved == ~IdentitiesEq(preId, afterId)
            IN  If(moved /\ Refcount(state, preId, Null) <= 1, <<preId>>)
                \o If(moved /\ Refcount(state, afterId, Null) = 0, <<afterId>>)

(* add_to_set_value_level_affect: a row without a member affects nothing. *)
AddToSetAffect(kind, state, pre, after, afterId, preId) ==
    LET leaves == pre # Null /\ Refcount(state, preId, pre) <= 1
        enters == after # Null /\ Refcount(state, afterId, after) = 0
        changed == pre # after /\ ~(pre # Null /\ after # Null /\ JsonValuesEq(pre, after))
    IN  CASE kind = "insert" -> If(enters, <<afterId>>)
          [] kind = "delete" -> If(leaves, <<preId>>)
          [] kind = "update" ->
                IF ~IdentitiesEq(preId, afterId)
                THEN If(leaves, <<preId>>) \o If(enters, <<afterId>>)
                ELSE If(changed /\ (leaves \/ enters), <<afterId>>)

(* value_level_affect: the identities whose Derived rows change. *)
ValueLevelAffect(ops, kind, state, pre, after, afterId, preId) ==
    IF StateOp(ops).op = "distinct" THEN DistinctAffect(kind, state, afterId, preId)
    ELSE LET field == StateOp(ops).field
         IN  AddToSetAffect(kind, state, FieldOrNull(pre, field), FieldOrNull(after, field),
                            afterId, preId)

-----------------------------------------------------------------------------
(* identity_from_row: the grouping keys of the row as given, or the row as   *)
(* the shaping operators leave it.                                           *)
Shaping == {"project", "addFields", "rename", "remove"}

FirstOr(default, rows) == IF rows = <<>> THEN default ELSE Head(rows)

ShapeBy(ops, kinds, row) ==
    FirstOr(NoRow, Evaluate(SelectSeq(ops, LAMBDA op : Is(op, kinds)), <<row>>, NoBases))

FailedIfEmpty(row) == IF row = NoRow THEN FailedRow ELSE row

IdentityFromRow(ops, row) ==
    LET keys == Range(GroupingKeys(ops))
    IN  IF ~Grouped(ops) THEN FailedIfEmpty(ShapeBy(ops, Shaping, row))
        ELSE IF keys \subseteq DOMAIN row THEN Keep(row, keys) ELSE FailedRow

Outcome(identities) ==
    IF \E i \in DOMAIN identities : identities[i] = FailedRow THEN AnalysisFailed
    ELSE Recompute(identities)

(* expands_output_grain, expand_primary_to_output_rows *)
ExpandsOutputGrain(ops) == ~Grouped(ops) /\ HasOp(ops, {"unwind"})
Expand(ops, row, secondary) == Evaluate(ops, <<row>>, secondary)

(* The identities of one change whose images survived the operators before   *)
(* the stateful one; an update of which one image did is an insert or delete. *)
RecomputeUnlessNone(ids) == IF ids = <<>> THEN SkipValueUnchanged ELSE Recompute(ids)

AffectOn(ops, kind, state, pre, after, preId, afterId) ==
    IF FailedRow \in {preId, afterId} THEN AnalysisFailed
    ELSE IF RequiresState(ops) /\ state # NoState
    THEN RecomputeUnlessNone(ValueLevelAffect(ops, kind, state, pre, after, afterId, preId))
    ELSE Recompute(CASE kind = "delete" -> <<preId>>
                     [] kind = "update" /\ Grouped(ops) -> PushUnique(<<afterId>>, <<preId>>)
                     [] OTHER -> <<afterId>>)

AffectedIdentities(ops, kind, state, pre, after) ==
    AffectOn(ops, kind, state, pre, after,
             IF kind = "insert" THEN NoRow ELSE IdentityFromRow(ops, pre),
             IF kind = "delete" THEN NoRow ELSE IdentityFromRow(ops, after))

(* Of what the two images become, the expanded rows or what shaping leaves.  *)
AffectOf(ops, state, pres, afters) ==
    LET kind == IF pres = <<>> THEN "insert" ELSE IF afters = <<>> THEN "delete" ELSE "update"
    IN  IF Failed \in {pres, afters} THEN AnalysisFailed
        ELSE IF ExpandsOutputGrain(ops) THEN Recompute(PushUnique(pres, afters))
        ELSE IF pres = <<>> /\ afters = <<>> THEN SkipValueUnchanged
        ELSE AffectedIdentities(ops, kind, state, FirstOr(NoRow, pres), FirstOr(NoRow, afters))

(* An update or a delete of a row that the Base lacks is not analyzed. *)
LacksImage(kind, pre) == kind # "insert" /\ pre = NoRow

(* analyze_primary_affect_inner *)
AnalyzePrimary(ops, kind, pre, after, state, secondary) ==
    LET Become(row) == IF ExpandsOutputGrain(ops) THEN Expand(ops, row, secondary)
                       ELSE ShapedBeforeState(ops, row)
    IN  IF LacksImage(kind, pre) THEN AnalysisFailed
        ELSE IF kind = "update" /\ OnlyUnusedChanged(ops, pre, after) THEN SkipUnusedFields
        ELSE AffectOf(ops, state, If(kind # "insert", Become(pre)), If(kind # "delete", Become(after)))

-----------------------------------------------------------------------------
(* equi_lookup_as_survives: whether the embedded array, under its latest     *)
(* name, can still be seen in the output.                                    *)
LookupSurvives(ops, as) ==
    LET Follow(names, op) ==
            CASE op.op = "equiLookup" -> names \cup ({op.as} \cap {as})
              [] op.op \in {"project", "distinct"} -> names \cap Range(op.fields)
              [] op.op = "remove" -> names \ Range(op.fields)
              [] op.op = "rename" ->
                    FoldLeft(LAMBDA n, spec : IF spec.from \in n
                                              THEN (n \ {spec.from}) \cup {spec.to} ELSE n,
                             names, op.fields)
              [] op.op = "groupBy" ->
                    names \cap (Range(op.keys) \cup {a.as : a \in Range(op.aggregates)}
                                    \cup {a.field : a \in Range(op.aggregates)})
              [] op.op = "addToSet" -> names \cap (Range(op.keys) \cup {op.as})
              [] OTHER -> names
    IN  FoldLeft(Follow, {}, ops) # {}

FromTable(op, kind, table) == Is(op, {kind}) /\ op.from = table
SurvivingLookups(ops, table) ==
    SelectSeq(ops, LAMBDA op : FromTable(op, "equiLookup", table) /\ LookupSurvives(ops, op.as))

(* shape_row_until_equi_lookup: the row as the lookup sees it, as far as the *)
(* operators before it work on one row.                                      *)
ShapeUntilLookup(ops, row, table) ==
    LET at == CHOOSE i \in DOMAIN ops :
                /\ FromTable(ops[i], "equiLookup", table)
                /\ \A j \in 1..(i - 1) : ~FromTable(ops[j], "equiLookup", table)
    IN  ShapeBy(SubSeq(ops, 1, at - 1), Shaping \cup Stateful, row)

(* The values of the join field in the images of a foreign change. *)
JoinValues(lookups, images) ==
    UNION {{r[op.foreignField] : r \in {x \in images : HasField(x, op.foreignField)}}
            : op \in Range(lookups)}

Joins(row, field, values) ==
    HasField(row, field) /\ \E v \in values : JsonValuesEq(v, row[field])

MatchingPrimaries(ops, table, primary, images) ==
    LET lookups == SurvivingLookups(ops, table)
        joined == JoinValues(lookups, images)
        Matches(row) ==
            \E op \in Range(lookups) :
                Joins(ShapeUntilLookup(ops, row, table), op.localField, joined)
    IN  SelectSeq(primary, Matches)

FaultyBeforeForeignChange(secondary, table, kind, pre, after) == secondary

(* foreign_secondary_pre_image: the foreign table before the change. *)
BeforeForeignChange(secondary, table, kind, pre, after) ==
    LET rows == IF table \in DOMAIN secondary THEN secondary[table] ELSE <<>>
        others == SelectSeq(rows, LAMBDA r : ~(kind = "update" /\ IdentitiesEq(r, after)))
    IN  (table :> Append(others, pre)) @@ secondary

(* analyze_foreign_equi_lookup_affect: the identities of the primary rows    *)
(* that join an old or new image; with unwind those of their expansions      *)
(* before and after the change.                                              *)
AnalyzeForeign(ops, table, kind, pre, after, primary, secondary) ==
    LET images == (IF kind = "insert" THEN {} ELSE {pre})
                    \cup (IF kind = "delete" THEN {} ELSE {after})
        matching == MatchingPrimaries(ops, table, primary, images)
        old == BeforeForeignChange(secondary, table, kind, pre, after)
        Expansions(row) == If(kind # "insert", Expand(ops, row, old)) \o Expand(ops, row, secondary)
        Identities(row) == IF ExpandsOutputGrain(ops) THEN Expansions(row)
                           ELSE <<IdentityFromRow(ops, row)>>
    IN  IF SurvivingLookups(ops, table) = <<>> THEN SkipUnusedFields
        ELSE IF LacksImage(kind, pre) THEN AnalysisFailed
        ELSE IF kind = "update" /\ ChangedFields(pre, after) = {} THEN SkipUnusedFields
        ELSE Outcome(PushUnique(<<>>, FlattenSeq(MapRows(matching, Identities))))

(* analyze_union_secondary_affect: only the operators after the union see    *)
(* the row of the secondary table.                                           *)
AfterUnion(ops, table) ==
    LET at == CHOOSE i \in DOMAIN ops :
                /\ FromTable(ops[i], "union", table)
                /\ \A j \in 1..(i - 1) : ~FromTable(ops[j], "union", table)
    IN  SubSeq(ops, at + 1, Len(ops))

(* analyze_affect_on_base_with_bases *)
AnalyzeAffect(ops, table, primaryTable, kind, pre, after, primary, secondary, state) ==
    LET ReadBy(op) == table # primaryTable /\ \E i \in DOMAIN ops : FromTable(ops[i], op, table)
    IN  IF ReadBy("equiLookup")
        THEN AnalyzeForeign(ops, table, kind, pre, after, primary, secondary)
        ELSE IF ReadBy("union")
        THEN AnalyzePrimary(AfterUnion(ops, table), kind, pre, after, NoState, NoBases)
        ELSE AnalyzePrimary(ops, kind, pre, after, state, secondary)

(* analyze_base_change: what to recompute, and the next Maintenance State,   *)
(* which counts the change even when nothing is recomputed.                  *)
AnalyzeBaseChange(ops, table, primaryTable, kind, pre, after, primary, secondary, prior) ==
    LET stateful == RequiresState(ops) /\ table = primaryTable
        state == IF ~stateful THEN NoState ELSE IF prior = NoState THEN {} ELSE prior
    IN  [outcome |-> AnalyzeAffect(ops, table, primaryTable, kind, pre, after, primary,
                                   secondary, state),
         state |-> IF stateful THEN MaintainState(ops, state, kind, pre, after) ELSE NoState]
=============================================================================
