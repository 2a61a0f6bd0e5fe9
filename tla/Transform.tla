----------------------------- MODULE Transform -----------------------------
(* The Rich Transform operators of crates/transform: what a Transform yields *)
(* of Base rows.  Pure definitions; AffectAnalysis says which of them a Base *)
(* change touches, and DerivedMaintenance has the steps that use both.       *)
(*                                                                           *)
(* A row is a function from the names of its fields to values of Decimal; a  *)
(* stream is a sequence of rows; an operator is a record whose op names it.  *)
(* Table names are compared as they are (the code ignores their case).       *)
EXTENDS Decimal

(* The error of an evaluation, as the stream and the row no Base can have. *)
FailedRow == [error |-> Null]
Failed == <<FailedRow>>

MapRows(rows, Op(_)) == [i \in DOMAIN rows |-> Op(rows[i])]
HasField(row, field) == field \in DOMAIN row
FieldOrNull(row, field) == IF HasField(row, field) THEN row[field] ELSE Null
Put(row, field, value) == (field :> value) @@ row
Keep(row, fields) == [f \in DOMAIN row \cap fields |-> row[f]]
Drop(row, fields) == [f \in DOMAIN row \ fields |-> row[f]]

Is(op, kinds) == op.op \in kinds
HasOp(ops, kinds) == \E i \in DOMAIN ops : Is(ops[i], kinds)
Grouping == {"groupBy", "distinct", "addToSet"}
Stateful == {"distinct", "addToSet"}

-----------------------------------------------------------------------------
(* Shaping operators: each maps a row to a row.                              *)
AddFields(op, row) ==
    FoldLeft(LAMBDA r, spec :
                Put(r, spec.as, IF "literal" \in DOMAIN spec THEN spec.literal
                                ELSE FieldOrNull(r, spec.field)),
             row, op.fields)

Rename(op, row) ==
    FoldLeft(LAMBDA r, spec :
                IF HasField(r, spec.from)
                THEN Put(Drop(r, {spec.from}), spec.to, r[spec.from]) ELSE r,
             row, op.fields)

(* apply_equi_lookup: the foreign rows that match, embedded as an array. *)
EquiLookup(op, row, foreign) ==
    LET Matches(f) == /\ HasField(row, op.localField) /\ HasField(f, op.foreignField)
                      /\ JsonValuesEq(f[op.foreignField], row[op.localField])
    IN  Put(row, op.as, Array(MapRows(SelectSeq(foreign, Matches), Object)))

(* apply_unwind: one row per element; an object is merged into the row.  A   *)
(* missing, null or empty array gives none, anything else is an error.       *)
Unwind(op, row) ==
    LET rest == Drop(row, {op.path})
        value == FieldOrNull(row, op.path)
        Expanded(item) == IF DOMAIN item = {"object"} THEN item.object @@ rest
                          ELSE Put(rest, op.path, item)
    IN  IF value = Null THEN <<>>
        ELSE IF DOMAIN value # {"items"} THEN Failed
        ELSE MapRows(value.items, Expanded)

-----------------------------------------------------------------------------
(* Grouping operators.                                                       *)
SameGroup(r, s, keys) ==
    \A i \in DOMAIN keys : GroupKey(FieldOrNull(r, keys[i])) = GroupKey(FieldOrNull(s, keys[i]))

(* The first row of each group.  Groups come in the order of their keys in   *)
(* the code; the order of Derived rows means nothing.                        *)
Leaders(rows, keys) ==
    FoldLeft(LAMBDA seen, r :
                IF \E i \in DOMAIN seen : SameGroup(seen[i], r, keys)
                THEN seen ELSE Append(seen, r),
             <<>>, rows)

GroupOf(rows, leader, keys) ==
    SelectSeq(rows, LAMBDA r : SameGroup(r, leader, keys))

(* identity_map_from_fields *)
Identity(row, fields) == [f \in Range(fields) |-> FieldOrNull(row, f)]

NonNull(rows, field) ==
    MapRows(SelectSeq(rows, LAMBDA r : FieldOrNull(r, field) # Null), LAMBDA r : r[field])

Aggregate(op, values) ==
    CASE op = "sum"   -> SumField(values)
      [] op = "count" -> CountField(values)
      [] op = "min"   -> MinField(values)
      [] op = "max"   -> MaxField(values)
      [] op = "avg"   -> AvgField(values)

HasInvalid(row) == \E f \in DOMAIN row : row[f] = Invalid
FailedIfInvalid(rows) == IF \E i \in DOMAIN rows : HasInvalid(rows[i]) THEN Failed ELSE rows

(* apply_group_by: one row per group, an error if an aggregate is not a number. *)
GroupBy(op, rows) ==
    LET Derived(leader, group) ==
            FoldLeft(LAMBDA r, spec :
                        Put(r, spec.as, Aggregate(spec.op, NonNull(group, spec.field))),
                     Identity(leader, op.keys), op.aggregates)
    IN  FailedIfInvalid(MapRows(Leaders(rows, op.keys),
                                LAMBDA r : Derived(r, GroupOf(rows, r, op.keys))))

Distinct(op, rows) ==
    MapRows(Leaders(rows, op.fields), LAMBDA r : Identity(r, op.fields))

(* apply_add_to_set: the non-null values of a group, each once, in the order *)
(* of their keys; a group whose values are all null has the empty array.     *)
AddToSet(op, rows) ==
    LET Members(group) ==
            FoldLeft(LAMBDA seen, v :
                        IF \E i \in DOMAIN seen : GroupKey(seen[i]) = GroupKey(v)
                        THEN seen ELSE Append(seen, v),
                     <<>>, NonNull(group, op.field))
    IN  MapRows(Leaders(rows, op.keys),
                LAMBDA r : Put(Identity(r, op.keys), op.as,
                               Array(SetToSeq(Range(Members(GroupOf(rows, r, op.keys)))))))

-----------------------------------------------------------------------------
(* evaluate_transform_with_bases: the operators one after the other, with    *)
(* the rows of the secondary tables that are loaded.                         *)
Concatenated(streams) == IF Failed \in Range(streams) THEN Failed ELSE FlattenSeq(streams)

ApplyOp(op, rows, secondary) ==
    IF rows = Failed THEN Failed
    ELSE CASE op.op = "project"   -> MapRows(rows, LAMBDA r : Keep(r, Range(op.fields)))
           [] op.op = "addFields" -> MapRows(rows, LAMBDA r : AddFields(op, r))
           [] op.op = "rename"    -> MapRows(rows, LAMBDA r : Rename(op, r))
           [] op.op = "remove"    -> MapRows(rows, LAMBDA r : Drop(r, Range(op.fields)))
           [] op.op = "filterEq"  ->
                SelectSeq(rows, LAMBDA r : /\ HasField(r, op.field)
                                           /\ JsonValuesEq(r[op.field], op.value))
           [] op.op = "equiLookup" ->
                IF op.from \notin DOMAIN secondary THEN Failed
                ELSE MapRows(rows, LAMBDA r : EquiLookup(op, r, secondary[op.from]))
           [] op.op = "unwind"    -> Concatenated(MapRows(rows, LAMBDA r : Unwind(op, r)))
           [] op.op = "union"     ->
                IF op.from \notin DOMAIN secondary THEN Failed
                ELSE rows \o secondary[op.from]
           [] op.op = "groupBy"   -> GroupBy(op, rows)
           [] op.op = "distinct"  -> Distinct(op, rows)
           [] op.op = "addToSet"  -> AddToSet(op, rows)

Evaluate(ops, rows, secondary) ==
    FoldLeft(LAMBDA s, op : ApplyOp(op, s, secondary), rows, ops)

NoBases == [t \in {} |-> <<>>]

(* output_grouping_keys: of the last grouping operator, <<>> if there is none. *)
GroupingKeys(ops) ==
    FoldLeft(LAMBDA keys, op : IF Is(op, {"groupBy", "addToSet"}) THEN op.keys
                               ELSE IF Is(op, {"distinct"}) THEN op.fields ELSE keys,
             <<>>, ops)
Grouped(ops) == HasOp(ops, Grouping)

(* identity_matches_row, row_matches_group_keys, identity_maps_eq *)
MatchesOn(fields, identity, row) ==
    \A f \in fields : /\ HasField(identity, f) /\ HasField(row, f)
                      /\ JsonValuesEq(identity[f], row[f])
IdentityMatchesRow(identity, row) == MatchesOn(DOMAIN identity, identity, row)
IdentitiesEq(a, b) == DOMAIN a = DOMAIN b /\ IdentityMatchesRow(a, b)

(* primary_row_matches_identity_overlap *)
MatchesOnOverlap(identity, row) ==
    LET overlap == DOMAIN identity \cap DOMAIN row
    IN  overlap # {} /\ MatchesOn(overlap, identity, row)

AnyOf(identities, Matches(_, _), row) ==
    \E i \in DOMAIN identities : Matches(identities[i], row)

(* evaluate_transform_for_identities_with_bases: the Derived rows of some    *)
(* Output Identities, from the primary rows that can contribute to them      *)
(* where the code can tell (it compares unshaped rows), else from all.       *)
EvaluateFor(ops, rows, secondary, identities) ==
    LET byGroup == Grouped(ops) /\ ~HasOp(ops, {"union"})
        byRow == /\ ~HasOp(ops, {"union", "equiLookup", "unwind"} \cup Grouping)
                 /\ \E i \in DOMAIN identities : \E j \in DOMAIN rows :
                        DOMAIN identities[i] \cap DOMAIN rows[j] # {}
        OfGroup(r) == AnyOf(identities, LAMBDA id, row :
                                MatchesOn(Range(GroupingKeys(ops)), id, row), r)
        Contributes(r) == IF byGroup THEN OfGroup(r)
                          ELSE byRow => AnyOf(identities, MatchesOnOverlap, r)
        Wanted(r) == IF Grouped(ops) THEN OfGroup(r) ELSE AnyOf(identities, IdentityMatchesRow, r)
        Kept(stream) == IF byGroup \/ stream = Failed THEN stream ELSE SelectSeq(stream, Wanted)
    IN  IF identities = <<>> THEN <<>>
        ELSE Kept(Evaluate(ops, SelectSeq(rows, Contributes), secondary))
=============================================================================
