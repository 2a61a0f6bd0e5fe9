----------------------------- MODULE LabProduct -----------------------------
(***************************************************************************)
(* The product as a Lab Scenario sees it: what its commands do to the Base *)
(* and Derived Datasets and the Target, what they report, what inspection  *)
(* and status show.  The product obeys a fault: none, or one way in which  *)
(* it could be wrong.  What the product really does is the subject of the  *)
(* other modules; this one is there to ask what a Scenario can tell.       *)
(*                                                                         *)
(* A fault is a pair of the part it spoils and how.  Rows are those of     *)
(* Transform; a table is a set of them and so is a collection.             *)
(***************************************************************************)
EXTENDS Transform, FiniteSets, TLC

None == <<"none", "none">>

(* The Source row of a key is found by ORDER_ID where there is one. *)
KeyOf(row) == IF HasField(row, "ORDER_ID") THEN row.ORDER_ID ELSE row.ID
WithKey(rows, key) == {r \in rows : KeyOf(r) = key}
Highest(rows) == CHOOSE r \in rows : \A s \in rows : KeyOf(s).units <= KeyOf(r).units

(* A Pipeline is declared with the table it reads, its operators and the   *)
(* column of its Output Identity; a Direct one has no operators and takes  *)
(* the key of the row.                                                     *)
Pipe(table, ops, identity) == [table |-> table, ops |-> ops, identity |-> identity]
Direct(table) == Pipe(table, <<>>, "")

Fresh(pipes, source) ==
  [source |-> source, base |-> [t \in {} |-> {}], loaded |-> [t \in {} |-> {}],
   deleted |-> [t \in DOMAIN source |-> {}], log |-> <<>>,
   pipes |-> pipes, state |-> [n \in DOMAIN pipes |-> "new"],
   derived |-> [n \in DOMAIN pipes |-> <<>>], target |-> [n \in DOMAIN pipes |-> {}],
   quarantined |-> {}, status |-> {}, said |-> {}, lag |-> 0, depth |-> 0, ok |-> TRUE]

-----------------------------------------------------------------------------
(* Source DML, which Capture will see as a log of row changes.             *)
Insert(table, row) == [table |-> table, kind |-> "insert", key |-> KeyOf(row), set |-> row]
Update(table, key, fields) ==
  [table |-> table, kind |-> "update", key |-> Number(key), set |-> fields]
Delete(table, key) ==
  [table |-> table, kind |-> "delete", key |-> Number(key), set |-> [f \in {} |-> Null]]

Image(rows, change) ==
  IF change.kind = "delete" THEN {}
  ELSE IF change.kind = "insert" THEN {change.set}
  ELSE {change.set @@ r : r \in WithKey(rows, change.key)}
After(rows, change) == (rows \ WithKey(rows, change.key)) \cup Image(rows, change)

Dml(p, changes) ==
  LET One(q, c) ==
        LET was == q.source[c.table]
        IN  [q EXCEPT !.source[c.table] = After(was, c),
                      !.log = Append(@, [table |-> c.table, kind |-> c.kind, key |-> c.key,
                                         row |-> Image(was, c)])]
  IN  FoldLeft(One, p, changes)

-----------------------------------------------------------------------------
(* Derived Datasets and Delivery.                                          *)
StageKept(op, fault) == ~(fault[1] = "stage" /\ fault[2] = op.op)

InKeyOrder(rows) ==
  LET Below(r) == {t \in rows : KeyOf(t).units < KeyOf(r).units}
  IN  [i \in 1 .. Cardinality(rows) |-> CHOOSE r \in rows : Cardinality(Below(r)) = i - 1]

Derive(p, name, fault) ==
  LET pipe == p.pipes[name]
      ops == SelectSeq(pipe.ops, LAMBDA op : StageKept(op, fault))
      Seen(t) == IF fault = <<"rows", "foreignIgnored">> /\ t # pipe.table
                 THEN p.loaded[t] ELSE p.base[t]
      kept == IF fault = <<"rows", "deleteNotMaintained">> THEN p.deleted[pipe.table] ELSE {}
  IN  Evaluate(ops, InKeyOrder(p.base[pipe.table] \cup kept),
               [t \in DOMAIN p.base |-> InKeyOrder(Seen(t))])

Materialize(p, names, fault) ==
  [p EXCEPT !.derived = [n \in DOMAIN @ |-> IF n \in names /\ p.pipes[n].ops # <<>>
                                            THEN Derive(p, n, fault) ELSE @[n]]]

RowsFor(p, name) == IF p.pipes[name].ops = <<>> THEN InKeyOrder(p.base[p.pipes[name].table])
                    ELSE p.derived[name]
Identified(p, name, row) == p.pipes[name].identity \in DOMAIN row \cup {""}
OutputIdentity(p, name, row) ==
  IF p.pipes[name].identity = "" THEN KeyOf(row) ELSE row[p.pipes[name].identity]
DocumentOf(p, name, row) ==
  {d \in p.target[name] : OutputIdentity(p, name, d) = OutputIdentity(p, name, row)}
Poisoned(p, name, row) == OutputIdentity(p, name, row) \in p.quarantined

(* An upsert leaves the fields that are not Managed alone; of the rows of  *)
(* one Output Identity the last remains.  The document of a quarantined    *)
(* Output Identity stays what it was.                                      *)
Upserted(p, name, row) ==
  row @@ FoldSet(LAMBDA d, note : Keep(d, {"NOTE"}) @@ note, [f \in {} |-> Null],
                 DocumentOf(p, name, row))
Documents(p, name) ==
  LET rows == RowsFor(p, name)
      Id(i) == OutputIdentity(p, name, rows[i])
      Remains(i) == \A k \in i + 1 .. Len(rows) : Id(k) # Id(i)
  IN  {Upserted(p, name, rows[i]) :
         i \in {k \in DOMAIN rows : Remains(k) /\ ~Poisoned(p, name, rows[k])}}
        \cup {d \in p.target[name] : Poisoned(p, name, d)}

(* A row without its Output Identity ends the command in an error. *)
Deliver(p, names, fault) ==
  IF fault = <<"delivery", "nothing">> THEN p
  ELSE IF \E n \in names : \E row \in Range(RowsFor(p, n)) : ~Identified(p, n, row)
  THEN [p EXCEPT !.ok = FALSE]
  ELSE [p EXCEPT !.target = [n \in DOMAIN @ |-> IF n \in names THEN Documents(p, n) ELSE @[n]],
                 !.said = @ \cup {<<"delivered", n>> : n \in names}]

(* A structured event in the log of a command. *)
Event(kind, fault) == IF fault = <<"events", "missing">> THEN {} ELSE {<<"event", kind>>}

-----------------------------------------------------------------------------
(* apply                                                                   *)
Load(p, fault) ==
  LET Read(rows) == IF fault = <<"load", "losesRow">> THEN rows \ {Highest(rows)} ELSE rows
      tables == DOMAIN p.source
      names == DOMAIN p.pipes
      q == [p EXCEPT !.base = [t \in tables |-> Read(p.source[t])],
                     !.loaded = [t \in tables |-> Read(p.source[t])],
                     !.state = [n \in names |-> "active"], !.log = <<>>,
                     !.said = {<<"initial load">>} \cup Event("loaded", fault) \cup
                              {<<"derived", n>> : n \in {m \in names : p.pipes[m].ops # <<>>}}]
  IN  Deliver(Materialize(q, names, fault), names, None)

(* An apply of bounded chunks stops by itself and leaves the rest for the  *)
(* next, which is rate limited and backs off.                              *)
LoadSome(p, fault) ==
  IF fault = <<"load", "notPaused">> THEN Load(p, fault)
  ELSE [p EXCEPT !.said = {<<"initial load">>, <<"load paused">>, <<"progress">>},
                 !.status = {<<"load paused">>, <<"watermark">>}]
LoadRest(p, fault) ==
  IF fault = <<"load", "notResumed">> THEN [p EXCEPT !.said = {<<"initial load">>}]
  ELSE LET slow == {<<"rate limit">>, <<"backoff">>}
       IN  [Load(p, fault) EXCEPT !.said = @ \cup {<<"load complete">>} \cup
                              IF fault = <<"load", "noBackoff">> THEN {} ELSE slow,
                     !.status = {<<"load complete">>}]

(* Apply again: nothing is loaded; what was set to pending is Delivered.   *)
Redeliver(p, name, fault) ==
  LET q == [p EXCEPT !.said = IF fault = <<"redelivery", "reloads">>
                              THEN {<<"initial load">>} ELSE {}]
      Copy(d) == [d EXCEPT !.ID = Number(KeyOf(d).units + 1000)]
      r == Deliver(q, {name}, None)
  IN  CASE fault = <<"redelivery", "nothing">> -> q
        [] fault = <<"redelivery", "duplicates">> ->
             [r EXCEPT !.target[name] = @ \cup {Copy(d) : d \in @}]
        [] fault = <<"redelivery", "replaces">> ->
             [r EXCEPT !.target[name] = {Drop(d, {"NOTE"}) : d \in @}]
        [] OTHER -> r

(* A semantic revision rebuilds the Derived Dataset of the Pipeline and    *)
(* Delivers it, with the deletes that the old documents need.              *)
WithRevision(p, name, ops, fault) ==
  [p EXCEPT !.pipes[name].ops = ops,
            !.said = {<<"revision", name>>, <<"paused", name>>} \cup
              (IF fault = <<"revision", "reloadsBase">> THEN {<<"initial load">>} ELSE {})]
Rebuilt(p, name, fault) ==
  IF fault = <<"revision", "notRebuilt">> THEN p
  ELSE [Materialize(p, {name}, fault) EXCEPT !.said = @ \cup {<<"derived", name>>}]
Reconciled(p, name, documents, fault) ==
  [p EXCEPT !.target[name] = @ \cup IF fault = <<"revision", "noReconcile">> THEN documents ELSE {},
            !.state[name] = IF fault = <<"revision", "staysPaused">> THEN "paused" ELSE @]
Revise(p, name, ops, fault) ==
  LET siblings == IF fault = <<"revision", "redeliversSiblings">> THEN DOMAIN p.pipes ELSE {}
  IN  Reconciled(Deliver(Rebuilt(WithRevision(p, name, ops, fault), name, fault),
                         {name} \cup siblings, fault),
                 name, p.target[name], fault)

(* A description is metadata: nothing is rebuilt. *)
Describe(p, name, fault) ==
  LET q == [p EXCEPT !.said = {<<"metadata skipped", name>>}]
  IN  IF fault = <<"revision", "metadataRebuilds">>
      THEN Deliver([q EXCEPT !.said = @ \cup {<<"derived", name>>}], {name}, fault) ELSE q

-----------------------------------------------------------------------------
(* sync                                                                    *)
Captured(c, fault) == ~(fault[1] = "lost" /\ fault[2] = c.kind)

Record(p, c) ==
  LET was == WithKey(p.base[c.table], c.key)
  IN  [p EXCEPT !.base[c.table] = (@ \ was) \cup c.row,
                !.deleted[c.table] = IF c.row = {} THEN @ \cup was ELSE @]

Running(p, fault) ==
  {n \in DOMAIN p.state :
     \/ p.state[n] = "active"
     \/ p.state[n] = "paused" /\ fault = <<"pause", "stillDelivers">>
     \/ p.state[n] = "removed" /\ fault = <<"remove", "stillDelivers">>}

Cycle(p, fault) ==
  Deliver(Materialize(p, {n \in DOMAIN p.state : p.state[n] # "removed"}, fault),
          Running(p, fault), fault)
AllPausedIf(pauses, p) ==
  IF pauses THEN [p EXCEPT !.state = [n \in DOMAIN @ |-> "paused"]] ELSE p

(* A cycle applies the log in its order.  An Output Identity it is told to *)
(* treat as poison is quarantined; after `most` changes it may have to stop. *)
SyncSome(p, poison, most, capacity, fault) ==
  LET order == IF fault = <<"rows", "sameKeyReordered">> THEN Reverse(p.log) ELSE p.log
      now == SubSeq(order, 1, IF most < Len(order) THEN most ELSE Len(order))
      rest == SubSeq(order, Len(now) + 1, Len(order))
      seen == SelectSeq(now, LAMBDA c : Captured(c, fault))
      bad == {c.key : c \in Range(seen)} \cap poison
      quarantine == fault # <<"poison", "notQuarantined">>
      q == FoldLeft(Record, [p EXCEPT !.log = rest], seen)
      r == [q EXCEPT
              !.quarantined = @ \cup IF quarantine THEN bad ELSE {},
              !.said = {<<"logminer">>} \cup
                (IF bad # {} /\ quarantine THEN {<<"quarantine">>, <<"alert">>} ELSE {}) \cup
                (IF rest # <<>> THEN {<<"stopped">>} ELSE {}) \cup
                (IF rest # <<>> /\ fault # <<"backpressure", "silent">>
                 THEN {<<"backpressure">>} ELSE {}) \cup Event("captured", fault),
              !.status = IF bad # {} /\ quarantine THEN {<<"unhealthy">>, <<"quarantine">>} ELSE {},
              !.depth = IF fault # <<"backpressure", "unbounded">> /\ capacity < Len(order)
                        THEN capacity ELSE Len(order),
              !.lag = IF fault = <<"backpressure", "lagHidden">> THEN 0 ELSE Len(rest)]
      pauses == \/ bad # {} /\ fault = <<"poison", "pauses">>
                \/ rest # <<>> /\ fault = <<"backpressure", "pauses">>
  IN  Cycle(AllPausedIf(pauses, r), fault)

Everything == 1000
Sync(p, fault) == SyncSome(p, {}, Everything, Everything, fault)

(* A Schema Change that takes a column in use away blocks its Pipelines.   *)
Block(p, name, fault) ==
  IF fault = <<"schema", "ignored">> THEN p
  ELSE [p EXCEPT !.state[name] = "blocked",
                 !.said = @ \cup {<<"schema change">>, <<"paused", name>>} \cup
                          (IF fault = <<"schema", "quarantines">> THEN {<<"quarantine">>} ELSE {}),
                 !.status = @ \cup {<<"paused">>, <<"schema change">>}]
SyncSchemaChange(p, name, fault) == Block(Sync(p, fault), name, fault)

-----------------------------------------------------------------------------
(* pause, resume, remove                                                   *)
PausePipeline(p, name) == [p EXCEPT !.state[name] = "paused", !.said = {<<"paused", name>>}]
ResumePipeline(p, name, fault) ==
  LET q == [p EXCEPT !.state[name] = IF fault = <<"resume", "staysPaused">> THEN @ ELSE "active",
                     !.said = {<<"resumed", name>>}]
  IN  IF p.state[name] # "paused" \/ fault = <<"resume", "noCatchUp">> THEN q
      ELSE Deliver(q, {name}, fault)
DropPipeline(p, name, fault) ==
  LET q == [p EXCEPT !.state[name] = "removed", !.said = {<<"removed", name>>}]
  IN  IF fault = <<"remove", "dropsBase">>
      THEN [q EXCEPT !.base = [t \in {} |-> {}]] ELSE q

-----------------------------------------------------------------------------
(* align and drift look at rows in the order of their keys, up to a budget. *)
Budget(rows, most) == {r \in rows : Cardinality({s \in rows :
                                      KeyOf(s).units < KeyOf(r).units}) < most}
Outcome(p, most, total, fault, kind) ==
  {<<kind>>} \cup (IF most < total THEN {<<"partial">>} ELSE {})

Align(p, table, most, fault) ==
  LET looked == IF fault = <<"align", "noBudget">> THEN p.source[table]
                ELSE Budget(p.source[table], most)
      keys == {KeyOf(r) : r \in looked}
      wrong == looked \ p.base[table]
      repaired == {r \in p.base[table] : KeyOf(r) \notin keys} \cup looked
      said == Outcome(p, most, Cardinality(p.source[table]), fault, "alignment") \cup
              (IF wrong # {} THEN {<<"mismatched">>, <<"repaired">>} ELSE {})
  IN  CASE fault = <<"align", "nothing">> ->
             [p EXCEPT !.said = {<<"alignment">>}, !.status = {<<"aligned">>}]
        [] fault = <<"align", "writesSource">> ->
             [p EXCEPT !.source[table] = p.base[table], !.said = said, !.status = {<<"aligned">>}]
        [] OTHER -> [p EXCEPT !.base[table] = repaired, !.said = said, !.status = {<<"aligned">>}]

Plant(p, name, key, fields) ==
  [p EXCEPT !.target[name] = {IF KeyOf(d) = Number(key) THEN fields @@ d ELSE d : d \in @}]

Drift(p, name, most, fault) ==
  LET rows == Range(RowsFor(p, name))
      looked == IF fault = <<"drift", "noBudget">> THEN rows ELSE Budget(rows, most)
      Differs(r) == \A d \in p.target[name] : Drop(d, {"NOTE"}) # r
      wrong == {r \in looked : Differs(r)}
      Kept(r) == IF fault = <<"drift", "dropsOtherFields">> THEN r ELSE Upserted(p, name, r)
      repaired == (p.target[name] \ UNION {DocumentOf(p, name, r) : r \in wrong})
                    \cup {Kept(r) : r \in wrong}
      said == Outcome(p, most, Cardinality(rows), fault, "drift") \cup
              (IF wrong # {} THEN {<<"mismatched">>, <<"repaired">>} ELSE {})
  IN  IF fault = <<"drift", "nothing">>
      THEN [p EXCEPT !.said = {<<"drift">>}, !.status = {<<"drift ok">>}]
      ELSE [p EXCEPT !.target[name] = repaired, !.said = said, !.status = {<<"drift ok">>}]

-----------------------------------------------------------------------------
(* status under an injected Platform Store setting, and the upgrade verbs. *)
Guardrails(p, inject, fault) ==
  LET reject == inject = "sharedBuffers" /\ fault # <<"guardrails", "accept">>
      warn == inject = "freeDisk" /\ fault # <<"guardrails", "silent">>
  IN  [p EXCEPT !.state = IF inject = "freeDisk" /\ fault = <<"guardrails", "pauses">>
                          THEN [n \in DOMAIN @ |-> "paused"] ELSE @,
                !.said = (IF reject THEN {<<"rejected">>} ELSE {<<"healthy">>})
                         \cup IF warn THEN {<<"disk warning">>} ELSE {}]

Migrate(p, fault) ==
  IF fault = <<"upgrade", "wipes">>
  THEN [p EXCEPT !.base = [t \in {} |-> {}], !.state = [n \in {} |-> ""], !.said = {<<"migration">>}]
  ELSE [p EXCEPT !.said = {<<"migration">>}]
Metrics(p, fault) ==
  [p EXCEPT !.said = IF fault = <<"metrics", "missing">> THEN {} ELSE {<<"metrics">>}]
OlderConfig(p, fault) ==
  [p EXCEPT !.said = IF fault = <<"upgrade", "reloads">> THEN {<<"initial load">>} ELSE {}]

-----------------------------------------------------------------------------
(* What inspection shows: every field with its value, nested ones too.     *)
Inside(field, value) ==
  IF DOMAIN value = {"items"}
  THEN UNION {IF DOMAIN v = {"object"} THEN {<<f, v.object[f]>> : f \in DOMAIN v.object}
              ELSE {<<field, v>>} : v \in Range(value.items)}
  ELSE {<<field, value>>}
ShownBy(rows) == UNION {UNION {Inside(f, r[f]) : f \in DOMAIN r} : r \in rows}
Fields(rows) == UNION {DOMAIN r : r \in rows}

Surface(p, on, of) ==
  CASE on = "base"    -> IF of \in DOMAIN p.base THEN p.base[of] ELSE {}
    [] on = "derived" -> Range(p.derived[of])
    [] on = "target"  -> p.target[of]

StatusShows(p) ==
  p.status \cup {<<p.state[n], n>> : n \in DOMAIN p.state} \cup {<<"base", t>> : t \in DOMAIN p.base}
=============================================================================
