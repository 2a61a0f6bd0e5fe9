---------------------------- MODULE LabScenarios ----------------------------
(***************************************************************************)
(* The product path of every Lab Scenario (crates/cli/src/lab_scenario):   *)
(* prepare the Namespace, apply, mutate the Source, sync, assert, with the *)
(* checks a Scenario makes on the way and those its recipe lists.  The     *)
(* product under test is LabProduct with one fault or none.                *)
(* Bounds: one row stands for the rows of a bulk load beyond the third,    *)
(* and one for each batch of 100 rows of mega-mix.                         *)
(***************************************************************************)
EXTENDS LabProduct

VARIABLES
  scenario,  \* the Scenario that runs
  fault,     \* what is wrong with the product
  step,      \* how many steps of its product path are done
  product,   \* the product under test, and what its last command said
  verdict    \* of the run

scripted == <<scenario, fault, step, product, verdict>>

-----------------------------------------------------------------------------
(* Rows of the Lab tables.                                                 *)
Money(cents) == Quoted(cents, 2)
Named(id, name) == [ID |-> Number(id), NAME |-> Text(name)]
Person(id, name) == [EMAIL |-> Text(name)] @@ Named(id, name)
Member(id, name, active) == [ACTIVE |-> Number(active)] @@ Person(id, name)
Order(id, customer, amount) ==
  [ORDER_ID |-> Number(id), CUSTOMER_ID |-> Number(customer), AMOUNT |-> amount]
Sale(id, customer, amount) ==
  [ID |-> Number(id), CUSTOMER_ID |-> Number(customer), AMOUNT |-> Number(amount)]

Members == {Member(1, "Alice", 1), Member(2, "Bob", 0)}
Persons == {Person(1, "Alice"), Person(2, "Bob")}
Sales == {Sale(1, 1, 10), Sale(2, 1, 20), Sale(3, 2, 5)}
Orders == {Order(100, 1, Money(4250)), Order(101, 1, Money(1000)), Order(200, 2, Money(500))}

Renamed(table, name) == Update(table, 1, [NAME |-> Text(name), EMAIL |-> Text(name)])
UsualChanges(table, new) ==
  <<Renamed(table, "Alicia"), Insert(table, new), Delete(table, 2)>>

-----------------------------------------------------------------------------
(* Operators of the Lab Transforms.                                        *)
Project(fields) == [op |-> "project", fields |-> fields]
Where(field, value) == [op |-> "filterEq", field |-> field, value |-> Number(value)]
Lookup(from) == [op |-> "equiLookup", from |-> from, localField |-> "ID",
                 foreignField |-> "CUSTOMER_ID", as |-> "orders"]
UnwindOrders == [op |-> "unwind", path |-> "orders"]
Union(from) == [op |-> "union", from |-> from]
Aggregated(op, field, as) == [op |-> op, field |-> field, as |-> as]
ByCustomer(aggregates) ==
  [op |-> "groupBy", keys |-> <<"CUSTOMER_ID">>, aggregates |-> aggregates]
OrderStats == <<Aggregated("count", "ID", "ORDER_COUNT"), Aggregated("min", "AMOUNT", "MIN_AMOUNT"),
                Aggregated("max", "AMOUNT", "MAX_AMOUNT")>>
AverageAmount == <<Aggregated("avg", "AMOUNT", "AVG_AMOUNT")>>
TotalAmount == <<Aggregated("sum", "AMOUNT", "TOTAL_AMOUNT")>>
Totals == ByCustomer(OrderStats \o AverageAmount \o TotalAmount)
DistinctCustomers == [op |-> "distinct", fields |-> <<"CUSTOMER_ID">>]
AmountSet == [op |-> "addToSet", keys |-> <<"CUSTOMER_ID">>, field |-> "AMOUNT", as |-> "AMOUNTS"]
(* Mutant: a field is added from a name that comes only later. *)
FaultyFieldOps ==
  <<Project(<<"ID", "NAME", "EMAIL", "ACTIVE">>),
    [op |-> "remove", fields |-> <<"EMAIL">>],
    [op |-> "addFields", fields |-> <<[as |-> "source", literal |-> Text("oracle")],
                                      [as |-> "displayName", field |-> "customerName"]>>],
    [op |-> "rename", fields |-> <<[from |-> "NAME", to |-> "customerName"]>>],
    Where("ACTIVE", 1)>>
FieldOps ==
  <<Project(<<"ID", "NAME", "EMAIL", "ACTIVE">>),
    [op |-> "remove", fields |-> <<"EMAIL">>],
    [op |-> "rename", fields |-> <<[from |-> "NAME", to |-> "customerName"]>>],
    [op |-> "addFields", fields |-> <<[as |-> "source", literal |-> Text("oracle")],
                                      [as |-> "displayName", field |-> "customerName"]>>],
    Where("ACTIVE", 1)>>
ActiveOnly(active) == <<Project(<<"ID", "NAME", "ACTIVE">>), Where("ACTIVE", active)>>

-----------------------------------------------------------------------------
(* Expectations of an inspection.  A needle that `contains` looks for is   *)
(* found in the middle of a text: 50 in 42.50 and in order 117050.         *)
Uncounted == 0 - 1
Look(on, of) == [on |-> on, of |-> of, present |-> {}, absent |-> {}, noField |-> {},
                 contains |-> {}, notContains |-> {}, starts |-> {}, notStarts |-> {},
                 count |-> Uncounted]
Names(names) == {<<"NAME", Text(n)>> : n \in names}
People(on, of, here, gone) == [Look(on, of) EXCEPT !.present = Names(here), !.absent = Names(gone)]
Amounts(here) == {<<"TOTAL_AMOUNT", Number(n)>> : n \in here}
OnBoth(name, check) == {[check EXCEPT !.on = on, !.of = name] : on \in {"derived", "target"}}

DigitsIn(n, m) ==
  LET width == CHOOSE w \in 1 .. 6 : n < 10 ^ w /\ (w = 1 \/ n >= 10 ^ (w - 1))
  IN  \E k \in 0 .. 6 : (m \div 10 ^ k) % 10 ^ width = n
Holds(value, needle) ==
  /\ IsDecimal(value)
  /\ \/ JsonValuesEq(value, needle)
     \/ /\ ~needle.quoted
        /\ \/ DigitsIn(needle.units, value.units \div 10 ^ value.scale)
           \/ value.scale > 0 /\ DigitsIn(needle.units, value.units % 10 ^ value.scale)
StartsWith(value, needle) ==
  IsDecimal(value) /\ \E k \in 0 .. 6 : value.units \div 10 ^ k = needle.units

(* The Target shows a Decimal128 as "$numberDecimal", which is looked for  *)
(* under no field; averages are Decimal128, and so are values with a scale. *)
FoundAnywhere(c, field, value) ==
  c.on = "target" /\ IsDecimal(value) /\ (value.quoted \/ field = "AVG_AMOUNT")

Satisfied(p, c) ==
  LET rows == Surface(p, c.on, c.of)
      shown == ShownBy(rows)
      Here(fv) == \E s \in shown : /\ s[1] = fv[1] \/ FoundAnywhere(c, s[1], s[2])
                                   /\ JsonValuesEq(s[2], fv[2])
      Has(needle) == \E s \in shown : Holds(s[2], needle)
      Starts(fv) == \E s \in shown : s[1] = fv[1] /\ StartsWith(s[2], fv[2])
  IN  /\ \A fv \in c.present : Here(fv)
      /\ \A fv \in c.absent : ~Here(fv)
      /\ c.noField \cap Fields(rows) = {}
      /\ \A n \in c.contains : Has(n)
      /\ \A n \in c.notContains : ~Has(n)
      /\ \A fv \in c.starts : Starts(fv)
      /\ \A fv \in c.notStarts : ~Starts(fv)
      /\ c.count \in {Uncounted, Cardinality(rows)}

-----------------------------------------------------------------------------
(* The commands of a script: product verbs, Source and Target edits, and   *)
(* the checks between them.                                                *)
Do(verb) == [do |-> verb]
DoTo(verb, of) == [do |-> verb, of |-> of]
Looked(verb, of, most) == [do |-> verb, of |-> of, most |-> most]
Mutation(changes) == [do |-> "dml", changes |-> changes]
Revised(of, ops) == [do |-> "revise", of |-> of, ops |-> ops]
Planted(of, key, fields) == [do |-> "plant", of |-> of, key |-> key, fields |-> fields]
Injected(setting) == [do |-> "guardrails", setting |-> setting]
SyncWith(poison, most, capacity) ==
  [do |-> "syncSome", poison |-> poison, most |-> most, capacity |-> capacity]
See(checks) == [do |-> "see", checks |-> checks]
SourceHas(table, row) == [do |-> "source", of |-> table, row |-> row]
Hear(has, lacks) == [do |-> "hear", has |-> has, lacks |-> lacks]
Status(has, lacks) == [do |-> "status", has |-> has, lacks |-> lacks]
LagWithin(least, most) == [do |-> "lag", least |-> least, most |-> most]
DepthWithin(most) == [do |-> "depth", most |-> most]

Obey(c, p, f) ==
  CASE c.do = "dml"        -> Dml(p, c.changes)
    [] c.do = "load"       -> Load(p, f)
    [] c.do = "loadSome"   -> LoadSome(p, f)
    [] c.do = "loadRest"   -> LoadRest(p, f)
    [] c.do = "redeliver"  -> Redeliver(p, c.of, f)
    [] c.do = "revise"     -> Revise(p, c.of, c.ops, f)
    [] c.do = "describe"   -> Describe(p, c.of, f)
    [] c.do = "sync"       -> Sync(p, f)
    [] c.do = "syncSome"   -> SyncSome(p, c.poison, c.most, c.capacity, f)
    [] c.do = "syncSchema" -> SyncSchemaChange(p, c.of, f)
    [] c.do = "pause"      -> PausePipeline(p, c.of)
    [] c.do = "resume"     -> ResumePipeline(p, c.of, f)
    [] c.do = "remove"     -> DropPipeline(p, c.of, f)
    [] c.do = "align"      -> Align(p, c.of, c.most, f)
    [] c.do = "drift"      -> Drift(p, c.of, c.most, f)
    [] c.do = "plant"      -> Plant(p, c.of, c.key, c.fields)
    [] c.do = "guardrails" -> Guardrails(p, c.setting, f)
    [] c.do = "metrics"    -> Metrics(p, f)
    [] c.do = "migrate"    -> Migrate(p, f)
    [] c.do = "older"      -> OlderConfig(p, f)
    [] c.do = "see"    -> [p EXCEPT !.ok = \A check \in c.checks : Satisfied(p, check)]
    [] c.do = "source" -> [p EXCEPT !.ok = c.row \in ShownBy(p.source[c.of])]
    [] c.do = "hear"   -> [p EXCEPT !.ok = c.has \subseteq p.said /\ c.lacks \cap p.said = {}]
    [] c.do = "status" -> [p EXCEPT !.ok = /\ c.has \subseteq StatusShows(p)
                                           /\ c.lacks \cap StatusShows(p) = {}]
    [] c.do = "lag"    -> [p EXCEPT !.ok = p.lag \in c.least .. c.most]
    [] c.do = "depth"  -> [p EXCEPT !.ok = p.depth \in 1 .. c.most]

(* The first check that fails ends the run. *)
Perform(commands, p, f) ==
  FoldLeft(LAMBDA q, c : IF q.ok THEN Obey(c, q, f) ELSE q, p, commands)
PerformAll(phases, p, f) ==
  FoldLeft(LAMBDA q, commands : IF q.ok THEN Perform(commands, q, f) ELSE q, p, phases)

-----------------------------------------------------------------------------
(* The Scenarios.  What a script does not mention is as in Standard; its   *)
(* recipe's mutation comes before the commands of its own, and what its    *)
(* recipe expects is checked at the end.                                   *)
Prepare == "prepare"
AllSteps == <<Prepare, "apply", "mutate", "sync", "assert">>
NoSync == <<Prepare, "apply", "mutate", "assert">>
ApplyOnly == <<Prepare, "apply", "assert">>
Standard ==
  [steps |-> AllSteps, load |-> "load", loaded |-> {<<"initial load">>},
   afterApply |-> <<>>, changes |-> {<<>>}, mutate |-> <<>>,
   sync |-> Do("sync"), afterSync |-> <<>>, protocol |-> <<>>, assert |-> <<>>,
   expect |-> {}, status |-> {}]

OneTable(rows) == "CUSTOMERS" :> rows
WithOrders(rows, orders) == OneTable(rows) @@ ("ORDERS" :> orders)
OneDirect == "customers" :> Direct("CUSTOMERS")
OneTransform(ops) == "customers" :> Pipe("CUSTOMERS", ops, "ID")
DerivedAre(here, gone) == People("derived", "customers", here, gone)
Usual(on, of) == People(on, of, {"Alicia", "Carol"}, {"Bob"})
UsualOutcome == {Usual("base", "CUSTOMERS"), Usual("target", "customers")}

DirectPipeline ==
  [pipes |-> OneDirect, seed |-> OneTable(Members),
   afterApply |-> <<See({People("base", "CUSTOMERS", {"Alice", "Bob"}, {})})>>,
   changes |-> {UsualChanges("CUSTOMERS", Member(3, "Carol", 1))},
   expect |-> UsualOutcome]

RtProject ==
  [pipes |-> OneTransform(<<Project(<<"ID", "NAME">>)>>), seed |-> OneTable(Persons),
   afterApply |-> <<Hear({<<"derived", "customers">>}, {}),
                    See({[DerivedAre({"Alice", "Bob"}, {}) EXCEPT !.noField = {"EMAIL"}]})>>,
   changes |-> {UsualChanges("CUSTOMERS", Person(3, "Carol"))},
   expect |-> OnBoth("customers", [Usual("", "") EXCEPT !.noField = {"EMAIL"}])]

RtFilter ==
  [pipes |-> OneTransform(<<Where("ACTIVE", 1)>>), seed |-> OneTable(Members),
   afterApply |-> <<See({DerivedAre({"Alice"}, {"Bob"})})>>,
   changes |-> {<<Renamed("CUSTOMERS", "Alicia"),
                  Update("CUSTOMERS", 2, [ACTIVE |-> Number(1)]),
                  Insert("CUSTOMERS", Member(3, "Carol", 1)),
                  Insert("CUSTOMERS", Member(4, "Dana", 0))>>},
   expect |-> OnBoth("customers", People("", "", {"Alicia", "Bob", "Carol"}, {"Dana"}))]

RtFieldOps ==
  LET Shaped(name) == {<<"customerName", Text(name)>>, <<"displayName", Text(name)>>,
                       <<"source", Text("oracle")>>}
      Shows(here) == [Look("derived", "customers") EXCEPT !.present = here,
                        !.absent = {<<"customerName", Text("Bob")>>}, !.noField = {"EMAIL"}]
  IN  [pipes |-> OneTransform(FieldOps), seed |-> OneTable(Members),
       afterApply |-> <<See({Shows(Shaped("Alice"))})>>,
       changes |-> {<<Update("CUSTOMERS", 1, [EMAIL |-> Text("alice-only")]),
                      Update("CUSTOMERS", 1, [NAME |-> Text("Alicia")]),
                      Insert("CUSTOMERS", Member(3, "Carol", 1)), Delete("CUSTOMERS", 2)>>},
       expect |-> OnBoth("customers",
                         Shows(Shaped("Alicia") \cup {<<"customerName", Text("Carol")>>}))]

OrderChanges ==
  <<Update("CUSTOMERS", 1, [NAME |-> Text("Alicia")]),
    Update("ORDERS", 100, [AMOUNT |-> Money(5000)])>>

RtEquilookup ==
  LET People50 == [People("", "", {"Alicia", "Bob"}, {}) EXCEPT !.contains = {Number(50)}]
  IN  [pipes |-> OneTransform(<<Project(<<"ID", "NAME">>), Lookup("ORDERS")>>),
       seed |-> WithOrders(Persons, Orders),
       afterApply |-> <<See({[DerivedAre({"Alice", "Bob"}, {})
                              EXCEPT !.contains = {Money(4250)}]})>>,
       changes |-> {OrderChanges},
       expect |-> OnBoth("customers", People50) \cup
                  {[People50 EXCEPT !.on = "derived", !.of = "customers",
                                    !.notContains = {Money(4250)}]}]

RtUnion ==
  [pipes |-> "customers" :> Pipe("EAST", <<Union("WEST"), Project(<<"ID", "NAME">>)>>, "ID"),
   seed |-> ("EAST" :> Persons) @@ ("WEST" :> {Person(10, "Zoe"), Person(11, "Wade")}),
   afterApply |-> <<See({[DerivedAre({"Alice", "Zoe", "Wade"}, {})
                          EXCEPT !.absent = {<<"EMAIL", Text("Alice")>>}]})>>,
   changes |-> {<<Update("EAST", 1, [NAME |-> Text("Alicia")]),
                  Update("WEST", 10, [NAME |-> Text("Zora")])>>},
   expect |-> OnBoth("customers", People("", "", {"Alicia", "Zora", "Wade"}, {})) \cup
              {DerivedAre({}, {"Alice", "Zoe"})}]

RtUnwind ==
  LET Rows == [People("", "", {"Alicia", "Bob"}, {}) EXCEPT
                 !.contains = {Number(50)}, !.notContains = {Number(101)}]
  IN  [pipes |-> "customers" :> Pipe("CUSTOMERS", <<Project(<<"ID", "NAME">>), Lookup("ORDERS"),
                                                     UnwindOrders>>, "ORDER_ID"),
       seed |-> WithOrders(Persons, Orders),
       afterApply |-> <<See({[DerivedAre({"Alice", "Bob"}, {}) EXCEPT
                              !.contains = {Money(4250), Number(101)}, !.noField = {"orders"}]})>>,
       changes |-> {Append(OrderChanges, Delete("ORDERS", 101))},
       expect |-> OnBoth("customers", Rows) \cup
                  {[Look("derived", "customers") EXCEPT !.notContains = {Money(4250)}]}]

RtDistinctAddtoset ==
  LET Is3(id) == {<<"CUSTOMER_ID", Number(id)>>}
      Customers(on) == [Look(on, "distinct") EXCEPT !.starts = Is3(1) \cup Is3(3),
                                                   !.notStarts = Is3(2)]
      Sets == [Look("target", "amounts") EXCEPT !.contains = {Money(700)}, !.starts = Is3(3)]
  IN  [pipes |-> ("distinct" :> Pipe("ORDERS", <<DistinctCustomers>>, "CUSTOMER_ID")) @@
                 ("amounts" :> Pipe("ORDERS", <<AmountSet>>, "CUSTOMER_ID")),
       seed |-> "ORDERS" :> Orders,
       afterApply |-> <<See({[Look("derived", "distinct") EXCEPT !.starts = Is3(1) \cup Is3(2)],
                             [Look("derived", "amounts") EXCEPT
                                !.contains = {Money(4250), Money(1000), Money(500)}]})>>,
       changes |-> {<<Update("ORDERS", 100, [ADDRESS |-> Text("Main Ave")]),
                      Insert("ORDERS", Order(102, 1, Money(4250))),
                      Insert("ORDERS", Order(103, 1, Money(700))),
                      Update("ORDERS", 200, [CUSTOMER_ID |-> Number(3)])>>},
       expect |-> {Customers("derived"), Customers("target"), Sets,
                   [Sets EXCEPT !.on = "derived", !.notStarts = Is3(2),
                      !.contains = {Money(700), Money(4250), Money(1000), Money(500)}]}]

TwoPipes(grouping) == OneDirect @@ ("totals" :> Pipe("ORDERS", <<grouping>>, "CUSTOMER_ID"))
TotalsAre(here, gone) ==
  OnBoth("totals", [Look("", "") EXCEPT !.present = Amounts(here), !.absent = Amounts(gone)])
LoadedTotals ==
  <<See({People("base", "CUSTOMERS", {"Alice", "Bob"}, {}),
         [Look("base", "ORDERS") EXCEPT
            !.present = {<<"AMOUNT", Number(n)>> : n \in {10, 20, 5}}],
         [Look("derived", "totals") EXCEPT !.present = Amounts({30, 5})]})>>

TransformPipeline ==
  LET Stats == {<<"ORDER_COUNT", Number(2)>>, <<"ORDER_COUNT", Number(1)>>,
                <<"MIN_AMOUNT", Number(15)>>, <<"MAX_AMOUNT", Number(20)>>,
                <<"AVG_AMOUNT", Quoted(175, 1)>>}
  IN  [pipes |-> TwoPipes(Totals), seed |-> WithOrders(Persons, Sales), afterApply |-> LoadedTotals,
       changes |-> {UsualChanges("CUSTOMERS", Person(3, "Carol")) \o
                    <<Insert("ORDERS", Sale(4, 1, 15)),
                      Update("ORDERS", 3, [AMOUNT |-> Number(50)]), Delete("ORDERS", 1)>>},
       expect |-> UsualOutcome \cup TotalsAre({35, 50}, {30}) \cup
                  OnBoth("totals", [Look("", "") EXCEPT !.present = Stats])]

(* Three sessions at once: they touch different keys, so that each of      *)
(* their orders is a log Capture may see.                                  *)
ConcurrentSourceWorkload ==
  LET sessions == <<UsualChanges("CUSTOMERS", Person(3, "Carol")),
                    <<Insert("ORDERS", Sale(10, 1, 5)), Insert("ORDERS", Sale(11, 1, 10)),
                      Delete("ORDERS", 1)>>,
                    <<Insert("ORDERS", Sale(20, 2, 15)), Insert("ORDERS", Sale(21, 2, 30))>>>>
  IN  [steps |-> NoSync, pipes |-> TwoPipes(ByCustomer(TotalAmount)), seed |-> WithOrders(Persons, Sales),
       afterApply |-> LoadedTotals,
       changes |-> {FlattenSeq([i \in 1 .. 3 |-> sessions[o[i]]]) : o \in Permutations(1 .. 3)},
       assert |-> <<Do("sync")>>,
       expect |-> UsualOutcome \cup TotalsAre({35, 50}, {30})]

ChangeOrdering ==
  LET Finals(on, of) == People(on, of, {"NameC", "Key2Final"},
                               {"NameA", "NameB", "Key2Start", "Key2Mid"})
      Call(id, name) == Update("CUSTOMERS", id, [NAME |-> Text(name)])
      Stats == {<<"MIN_AMOUNT", Number(20)>>, <<"MAX_AMOUNT", Number(20)>>,
                <<"ORDER_COUNT", Number(1)>>, <<"MIN_AMOUNT", Number(5)>>}
  IN  [pipes |-> TwoPipes(ByCustomer(OrderStats \o TotalAmount)),
       seed |-> WithOrders({Person(1, "NameA"), Person(2, "Key2Start")}, Sales),
       afterApply |-> <<Hear({<<"derived", "totals">>}, {})>>,
       changes |-> {<<Call(1, "NameB"), Call(2, "Key2Mid"), Call(1, "NameC"),
                      Call(2, "Key2Final"), Delete("ORDERS", 1)>>},
       expect |-> {Finals("base", "CUSTOMERS"), Finals("target", "customers")} \cup
                  TotalsAre({20, 5}, {10}) \cup
                  OnBoth("totals", [Look("", "") EXCEPT !.present = Stats])]

-----------------------------------------------------------------------------
BulkRows == {Named(i, "item") : i \in 1 .. 4}
Counted(on, of) == [Look(on, of) EXCEPT !.count = Cardinality(BulkRows)]

(* Mutant: no rows are counted. *)
FaultyBulkLoad ==
  [steps |-> ApplyOnly, pipes |-> OneDirect, seed |-> OneTable(BulkRows),
   assert |-> <<LagWithin(0, 0)>>, expect |-> {}]
BulkLoad ==
  [steps |-> ApplyOnly, pipes |-> OneDirect, seed |-> OneTable(BulkRows),
   assert |-> <<LagWithin(0, 0)>>,
   expect |-> {Counted("base", "CUSTOMERS"), Counted("target", "customers")}]

LoadPaused ==
  <<Hear({<<"load paused">>, <<"progress">>}, {}), Status({<<"load paused">>, <<"watermark">>}, {})>>

InitialLoadThrottled ==
  [steps |-> ApplyOnly, pipes |-> OneDirect, seed |-> OneTable(BulkRows),
   load |-> "loadSome", loaded |-> {},
   afterApply |-> LoadPaused,
   assert |-> <<Do("loadRest"), Hear({<<"load complete">>, <<"rate limit">>, <<"backoff">>}, {}),
                Status({<<"load complete">>}, {}), See({Counted("base", "CUSTOMERS")})>>,
   expect |-> {Counted("base", "CUSTOMERS")}]

Note == [NOTE |-> Text("keep")]
HasNote == [Look("target", "customers") EXCEPT !.present = {<<"NOTE", Text("keep")>>}]

IdempotentRedelivery ==
  LET Two == [Usual("target", "customers") EXCEPT !.count = 2]
  IN  [pipes |-> OneDirect, seed |-> OneTable(Members),
       changes |-> {UsualChanges("CUSTOMERS", Member(3, "Carol", 1))},
       assert |-> <<See({Two}), Planted("customers", 1, Note), DoTo("redeliver", "customers"),
                    Hear({<<"delivered", "customers">>}, {<<"initial load">>}), See({Two})>>,
       expect |-> UsualOutcome \cup {Two, HasNote}]

PausedThenChanged ==
  <<DoTo("pause", "customers"), Hear({<<"paused", "customers">>}, {}),
    Mutation(Append(UsualChanges("CUSTOMERS", Member(3, "Carol", 1)),
                    Update("ORDERS", 100, [AMOUNT |-> Money(5000)])))>>

PausedStaysSiblingMoves ==
  <<Hear({<<"delivered", "orders">>}, {<<"delivered", "customers">>}),
    See({People("target", "customers", {"Alice", "Bob"}, {"Alicia"}),
         [Look("target", "orders") EXCEPT !.contains = {Money(5000)}]})>>

PauseResume ==
  [pipes |-> OneDirect @@ ("orders" :> Direct("ORDERS")),
   seed |-> WithOrders(Members, {Order(100, 1, Money(4250))}),
   mutate |-> PausedThenChanged, afterSync |-> PausedStaysSiblingMoves,
   assert |-> <<DoTo("resume", "customers"),
                Hear({<<"resumed", "customers">>, <<"delivered", "customers">>}, {}),
                Status({<<"active", "orders">>}, {<<"paused", "customers">>})>>,
   expect |-> {Usual("target", "customers")}]

TwoOfOneTable == OneDirect @@ ("reporting" :> Direct("CUSTOMERS"))

RemovedThenChanged ==
  <<DoTo("remove", "customers"), Hear({<<"removed", "customers">>}, {}),
    Status({<<"active", "reporting">>, <<"base", "CUSTOMERS">>}, {<<"active", "customers">>}),
    Mutation(UsualChanges("CUSTOMERS", Member(3, "Carol", 1)))>>

RemovedStaysSiblingMoves ==
  <<Hear({<<"delivered", "reporting">>}, {<<"delivered", "customers">>}),
    See({People("target", "customers", {"Alice", "Bob"}, {"Alicia"}),
         Usual("target", "reporting")})>>

RemovePipeline ==
  [pipes |-> TwoOfOneTable, seed |-> OneTable(Members),
   mutate |-> RemovedThenChanged, afterSync |-> RemovedStaysSiblingMoves,
   expect |-> {Usual("base", "CUSTOMERS")}]

OnlyBob(on) == People(on, "active", {"Bob"}, {"Alice", "Carol"})
RevisedInPlace ==
  LET All(on, of) == People(on, of, {"Alice", "Bob", "Carol"}, {})
  IN  <<Revised("active", ActiveOnly(0)),
        Hear({<<"revision", "active">>, <<"paused", "active">>, <<"derived", "active">>},
             {<<"initial load">>, <<"delivered", "reporting">>}),
        See({OnlyBob("derived"), OnlyBob("target"), All("base", "CUSTOMERS"),
             All("target", "reporting")})>>

ActiveApplied == <<See({People("target", "active", {"Alice", "Carol"}, {"Bob"})})>>
NotLeftPaused == <<Status({}, {<<"paused", "active">>})>>

ChangePipeline ==
  [pipes |-> ("active" :> Pipe("CUSTOMERS", ActiveOnly(1), "ID")) @@
             ("reporting" :> Direct("CUSTOMERS")),
   seed |-> OneTable(Members \cup {Member(3, "Carol", 1)}),
   afterApply |-> ActiveApplied, mutate |-> RevisedInPlace, afterSync |-> NotLeftPaused,
   assert |-> <<DoTo("describe", "active"),
                Hear({<<"metadata skipped", "active">>},
                     {<<"derived", "active">>, <<"delivered", "active">>})>>,
   expect |-> {OnlyBob("target")}]

-----------------------------------------------------------------------------
PoisonHeard == <<Hear({<<"quarantine">>, <<"alert">>}, {<<"paused", "customers">>})>>
SchemaChangeHeard ==
  <<Hear({<<"schema change">>, <<"paused", "customers">>}, {<<"quarantine">>})>>

PoisonQuarantine ==
  [pipes |-> OneDirect, seed |-> OneTable(Members),
   changes |-> {UsualChanges("CUSTOMERS", Member(3, "Carol", 1))},
   sync |-> SyncWith({Number(1)}, Everything, Everything),
   afterSync |-> PoisonHeard,
   expect |-> {People("target", "customers", {"Alice", "Carol"}, {"Alicia", "Bob"})},
   status |-> {<<"unhealthy">>, <<"quarantine">>}]

(* The DDL reaches the product as an injected event, not by Capture. *)
SchemaChangePause ==
  [pipes |-> OneDirect, seed |-> OneTable(Members),
   sync |-> DoTo("syncSchema", "customers"),
   afterSync |-> SchemaChangeHeard,
   status |-> {<<"paused">>, <<"schema change">>}]

SourceAlignment ==
  LET Call(id, name) == <<Update("CUSTOMERS", id, [NAME |-> Text(name)])>>
      Base(here, gone) == See({People("base", "CUSTOMERS", here, gone)})
  IN  [steps |-> NoSync, pipes |-> OneDirect, seed |-> OneTable(Members),
       changes |-> {Call(1, "AlignedAlice")},
       assert |-> <<Looked("align", "CUSTOMERS", Everything),
                    Hear({<<"alignment">>, <<"mismatched">>, <<"repaired">>}, {}),
                    Base({"AlignedAlice"}, {"Alice"}),
                    SourceHas("CUSTOMERS", <<"NAME", Text("AlignedAlice")>>),
                    Status({<<"aligned">>}, {}),
                    Mutation(Call(2, "BobAligned")), Looked("align", "CUSTOMERS", 1),
                    Hear({<<"partial">>}, {}), Base({}, {"BobAligned"}),
                    Looked("align", "CUSTOMERS", Everything), Base({"BobAligned"}, {})>>,
       expect |-> {People("base", "CUSTOMERS", {"AlignedAlice"}, {})}]

DriftedDocument ==
  <<Looked("align", "CUSTOMERS", Everything), Hear({<<"alignment">>}, {}),
    Planted("customers", 1, [NAME |-> Text("DRIFTED")] @@ Note)>>

DriftCheck ==
  LET Call(name) == [NAME |-> Text(name)]
      Target(here, gone) == See({People("target", "customers", here, gone)})
  IN  [steps |-> NoSync, pipes |-> OneDirect, seed |-> OneTable(Members),
       mutate |-> DriftedDocument,
       assert |-> <<Looked("drift", "customers", Everything),
                    Hear({<<"drift">>, <<"mismatched">>, <<"repaired">>}, {}),
                    Target({"Alice"}, {"DRIFTED"}), See({HasNote}), Status({<<"drift ok">>}, {}),
                    Planted("customers", 2, Call("CORRUPT_BOB")), Looked("drift", "customers", 1),
                    Hear({<<"partial">>}, {}), Target({"CORRUPT_BOB"}, {}),
                    Looked("drift", "customers", Everything),
                    Target({"Bob"}, {"CORRUPT_BOB"})>>,
       expect |-> {HasNote}]

Backlog == [i \in 1 .. 20 |-> Insert("CUSTOMERS", [ID |-> Number(99 + i), NAME |-> Number(99 + i)])]
SlowTarget ==
  [pipes |-> OneDirect, seed |-> OneTable(Members), changes |-> {Backlog},
   sync |-> SyncWith({}, 1, 2)]
CaughtUp == <<SyncWith({}, Everything, 2), LagWithin(0, 0)>>

NotPaused == Status({}, {<<"paused", "customers">>})
BoundedAndVisible ==
  <<Hear({<<"stopped">>, <<"backpressure">>}, {<<"paused", "customers">>}),
    DepthWithin(2), LagWithin(10, Everything), NotPaused>>
SurfacesAgree ==
  <<Hear({<<"stopped">>, <<"backpressure">>, <<"event", "captured">>}, {}),
    LagWithin(10, Everything), Do("metrics"), Hear({<<"metrics">>}, {})>>
LoadEventHeard == <<Hear({<<"event", "loaded">>}, {})>>

BoundedBackpressure ==
  LET Ends == {[Look("target", "customers") EXCEPT !.contains = {Number(100), Number(119)}]}
  IN  [afterSync |-> BoundedAndVisible, assert |-> CaughtUp \o <<NotPaused, See(Ends)>>,
       expect |-> Ends] @@ SlowTarget

ObservabilitySurface ==
  [afterApply |-> LoadEventHeard, afterSync |-> SurfacesAgree, assert |-> CaughtUp] @@ SlowTarget

PlatformStoreGuardrails ==
  [steps |-> ApplyOnly, pipes |-> OneDirect, seed |-> OneTable(Members),
   assert |-> <<Injected("none"), Hear({<<"healthy">>}, {<<"rejected">>}),
                Injected("sharedBuffers"), Hear({<<"rejected">>}, {}),
                Injected("freeDisk"), Hear({<<"healthy">>, <<"disk warning">>}, {}),
                Status({}, {<<"paused", "customers">>})>>]

BackwardCompatibleUpgrades ==
  LET Survives == Status({<<"active", "customers">>, <<"base", "CUSTOMERS">>}, {})
  IN  [steps |-> ApplyOnly, pipes |-> OneDirect, seed |-> OneTable(Members),
       assert |-> <<Survives, Do("migrate"), Hear({<<"migration">>}, {}), Survives,
                    Do("older"), Hear({}, {<<"initial load">>}), Survives>>]

-----------------------------------------------------------------------------
(* mega-mix: a Pipeline of every path family over tables of its own.       *)
MixPipes ==
  <<<<"direct-a", Direct("DIRECT_A")>>, <<"direct-b", Direct("DIRECT_B")>>,
    <<"project", Pipe("PROJECT", <<Project(<<"ID", "NAME">>)>>, "ID")>>,
    <<"field-ops", Pipe("FIELD_OPS", FieldOps, "ID")>>,
    <<"match", Pipe("MATCH", <<Where("ACTIVE", 1)>>, "ID")>>,
    <<"lookup", Pipe("LOOKUP_CUSTOMERS",
                     <<Project(<<"ID", "NAME">>), Lookup("LOOKUP_ORDERS")>>, "ID")>>,
    <<"union", Pipe("EAST", <<Union("WEST"), Project(<<"ID", "NAME">>)>>, "ID")>>,
    <<"unwind", Pipe("UNWIND_CUSTOMERS",
                     <<Project(<<"ID", "NAME">>), Lookup("UNWIND_ORDERS"), UnwindOrders>>,
                     "ORDER_ID")>>,
    <<"group", Pipe("GROUP_ORDERS", <<Totals>>, "CUSTOMER_ID")>>,
    <<"distinct", Pipe("DIST_ORDERS", <<DistinctCustomers>>, "CUSTOMER_ID")>>,
    <<"addtoset", Pipe("DIST_ORDERS", <<AmountSet>>, "CUSTOMER_ID")>>>>
MixNames == {MixPipes[i][1] : i \in DOMAIN MixPipes}

MixSeed ==
  [t \in {"DIRECT_A", "DIRECT_B", "LOOKUP_CUSTOMERS", "UNWIND_CUSTOMERS"} |-> {Named(1, "Alice")}]
  @@ [PROJECT |-> {Person(1, "Alice")}, FIELD_OPS |-> {Member(1, "Alice", 1)}, MATCH |-> Members,
      LOOKUP_ORDERS |-> {Order(100, 1, Money(1000))}, UNWIND_ORDERS |-> {Order(100, 1, Money(4250))},
      EAST |-> {Named(1, "East-Alice")}, WEST |-> {Named(2, "West-Bob")},
      GROUP_ORDERS |-> {Sale(1, 1, 10), Sale(2, 1, 20)},
      DIST_ORDERS |-> {Order(100, 1, Money(4250)), Order(101, 1, Money(1000))}]

(* The 51st row of a batch of 100, whose id is the base of the batch + 50. *)
Batch(table, base) ==
  LET id == base + 50
  IN  CASE table = "GROUP_ORDERS" -> <<Insert(table, Sale(id, id + 1000, 3))>>
        [] table = "DIST_ORDERS"  -> <<Insert(table, Order(id, id + 2000, Money(300)))>>
        [] table = "LOOKUP_CUSTOMERS" ->
             <<Insert(table, Named(id, "mm")), Insert("LOOKUP_ORDERS", Order(id, id, Money(100)))>>
        [] table = "UNWIND_CUSTOMERS" ->
             <<Insert(table, Named(id, "mm")),
               Insert("UNWIND_ORDERS", Order(id + 100000, id, Money(100)))>>
        [] OTHER -> <<Insert(table, Member(id, "mm", 1))>>

Settled == <<Do("sync"), LagWithin(0, 0)>>
ResumeAll == [i \in DOMAIN MixPipes |-> DoTo("resume", MixPipes[i][1])]

(* One Pipeline at a time while its siblings are paused. *)
Solo(i) ==
  LET Only(j) == IF j = i THEN <<DoTo("resume", MixPipes[j][1])>>
                 ELSE <<DoTo("pause", MixPipes[j][1]), Hear({<<"paused", MixPipes[j][1]>>}, {})>>
  IN  FlattenSeq([j \in DOMAIN MixPipes |-> Only(j)]) \o
      <<Mutation(Batch(MixPipes[i][2].table, 10000 + (i - 1) * 1000))>> \o Settled

(* All at once: every table is driven by the first Pipeline that reads it. *)
MixBurst ==
  LET Drives(i) == \A j \in 1 .. i - 1 : MixPipes[j][2].table # MixPipes[i][2].table
  IN  FlattenSeq([i \in DOMAIN MixPipes |->
        IF Drives(i) THEN Batch(MixPipes[i][2].table, 20000 + (i - 1) * 1000) ELSE <<>>])

MixChanges ==
  LET Call(table, id, name) == Update(table, id, [NAME |-> Text(name)])
      AliciaAndCarol(table, carol) == <<Call(table, 1, "Alicia"), Insert(table, carol)>>
  IN  FlattenSeq(<<AliciaAndCarol("DIRECT_A", Named(2, "Carol")),
                   AliciaAndCarol("DIRECT_B", Named(2, "Carol")),
                   AliciaAndCarol("PROJECT", Person(2, "Carol")),
                   AliciaAndCarol("FIELD_OPS", Member(2, "Carol", 1)),
                   AliciaAndCarol("LOOKUP_CUSTOMERS", Named(2, "Carol"))>>) \o
      <<Call("MATCH", 1, "Alicia"), Update("MATCH", 2, [ACTIVE |-> Number(1)]),
        Insert("MATCH", Member(3, "Carol", 1)), Insert("LOOKUP_ORDERS", Order(200, 2, Money(500))),
        Call("EAST", 1, "East-Alicia"), Insert("EAST", Named(3, "East-Carol")),
        Call("WEST", 2, "West-Robert"), Call("UNWIND_CUSTOMERS", 1, "Alicia"),
        Update("UNWIND_ORDERS", 100, [AMOUNT |-> Money(5000)]),
        Insert("UNWIND_ORDERS", Order(101, 1, Money(700))),
        Insert("GROUP_ORDERS", Sale(3, 1, 15)), Update("GROUP_ORDERS", 2, [AMOUNT |-> Number(50)]),
        Insert("DIST_ORDERS", Order(102, 1, Money(700))),
        Insert("DIST_ORDERS", Order(200, 3, Money(500)))>>

MixExpected ==
  LET Two == People("", "", {"Alicia", "Carol"}, {})
      None3 == Look("", "")
      Of(ids) == {<<"CUSTOMER_ID", Number(id)>> : id \in ids}
  IN  {[Two EXCEPT !.on = "target", !.of = n] : n \in {"direct-a", "direct-b"}} \cup
      OnBoth("project", [Two EXCEPT !.noField = {"EMAIL"}]) \cup
      OnBoth("field-ops", [None3 EXCEPT !.noField = {"EMAIL"},
               !.present = {<<"customerName", Text(n)>> : n \in {"Alicia", "Carol"}}]) \cup
      OnBoth("match", People("", "", {"Alicia", "Bob", "Carol"}, {})) \cup
      OnBoth("lookup", Two) \cup
      OnBoth("union", People("", "", {"East-Alicia", "West-Robert", "East-Carol"}, {})) \cup
      OnBoth("unwind", [None3 EXCEPT !.contains = {Number(50), Number(7)}]) \cup
      OnBoth("group", [None3 EXCEPT !.present = Amounts({75})]) \cup
      OnBoth("distinct", [None3 EXCEPT !.starts = Of({1, 3})]) \cup
      OnBoth("addtoset", [None3 EXCEPT !.contains = {Money(700)}, !.starts = Of({3})])

(* The changes its recipe expects to see, and the sync that shows them. *)
Converged == <<Mutation(MixChanges), Do("sync")>>

MegaMix ==
  [steps |-> ApplyOnly, seed |-> MixSeed,
   pipes |-> [n \in MixNames |-> MixPipes[CHOOSE i \in DOMAIN MixPipes : MixPipes[i][1] = n][2]],
   protocol |-> [i \in DOMAIN MixPipes |-> Solo(i)] \o
                <<ResumeAll, <<Mutation(MixBurst)>> \o Settled \o Converged>>,
   expect |-> MixExpected]
-----------------------------------------------------------------------------
Catalog ==
  [direct_pipeline |-> DirectPipeline, transform_pipeline |-> TransformPipeline,
   rt_project |-> RtProject, rt_filter |-> RtFilter, rt_field_ops |-> RtFieldOps,
   rt_equilookup |-> RtEquilookup, rt_union |-> RtUnion, rt_unwind |-> RtUnwind,
   rt_distinct_addtoset |-> RtDistinctAddtoset,
   concurrent_source_workload |-> ConcurrentSourceWorkload, change_ordering |-> ChangeOrdering,
   bulk_load |-> BulkLoad, idempotent_redelivery |-> IdempotentRedelivery,
   pause_resume |-> PauseResume, remove_pipeline |-> RemovePipeline,
   change_pipeline |-> ChangePipeline, poison_quarantine |-> PoisonQuarantine,
   schema_change_pause |-> SchemaChangePause, source_alignment |-> SourceAlignment,
   drift_check |-> DriftCheck, bounded_backpressure |-> BoundedBackpressure,
   observability_surface |-> ObservabilitySurface,
   platform_store_guardrails |-> PlatformStoreGuardrails,
   backward_compatible_upgrades |-> BackwardCompatibleUpgrades,
   initial_load_throttled |-> InitialLoadThrottled, mega_mix |-> MegaMix]
Prepared(s) == Fresh(s.pipes, s.seed)
Script == [s \in DOMAIN Catalog |-> Catalog[s] @@ Standard]

(* The capability each Scenario is there for, as the ways to get it wrong. *)
Part(part, ways) == {part} \X ways
Dmls == Part("lost", {"insert", "update", "delete"})
Stages(ops) == Part("stage", ops)
Maintained == {<<"rows", "deleteNotMaintained">>}
Foreign == {<<"rows", "foreignIgnored">>}
NotDelivered == {<<"delivery", "nothing">>}
Claims ==
  [direct_pipeline |-> {<<"load", "losesRow">>} \cup NotDelivered \cup Dmls,
   transform_pipeline |-> Stages({"groupBy"}) \cup Maintained \cup Dmls,
   rt_project |-> Stages({"project"}), rt_filter |-> Stages({"filterEq"}),
   rt_field_ops |-> Stages({"addFields", "rename", "remove"}),
   rt_equilookup |-> Stages({"equiLookup"}) \cup Foreign,
   rt_union |-> Stages({"union"}) \cup Foreign,
   rt_unwind |-> Stages({"unwind"}) \cup Foreign \cup Dmls,
   rt_distinct_addtoset |-> Stages({"distinct", "addToSet"}),
   concurrent_source_workload |-> Dmls,
   change_ordering |-> {<<"rows", "sameKeyReordered">>} \cup Maintained,
   bulk_load |-> {<<"load", "losesRow">>},
   idempotent_redelivery |-> Part("redelivery", {"nothing", "reloads", "duplicates", "replaces"}),
   pause_resume |-> Part("pause", {"stillDelivers"}) \cup Part("resume", {"staysPaused", "noCatchUp"}),
   remove_pipeline |-> Part("remove", {"stillDelivers", "dropsBase"}),
   change_pipeline |-> Part("revision", {"reloadsBase", "redeliversSiblings", "notRebuilt",
                                         "noReconcile", "staysPaused", "metadataRebuilds"}),
   poison_quarantine |-> Part("poison", {"notQuarantined", "pauses"}),
   schema_change_pause |-> Part("schema", {"ignored", "quarantines"}),
   source_alignment |-> Part("align", {"nothing", "noBudget", "writesSource"}),
   drift_check |-> Part("drift", {"nothing", "noBudget", "dropsOtherFields"}),
   bounded_backpressure |-> Part("backpressure", {"silent", "unbounded", "lagHidden", "pauses"}),
   observability_surface |-> {<<"events", "missing">>, <<"metrics", "missing">>,
                              <<"backpressure", "lagHidden">>},
   platform_store_guardrails |-> Part("guardrails", {"accept", "silent", "pauses"}),
   backward_compatible_upgrades |-> Part("upgrade", {"wipes", "reloads"}),
   initial_load_throttled |-> Part("load", {"notPaused", "notResumed", "noBackoff", "losesRow"}),
   mega_mix |-> Stages({"project", "filterEq", "rename", "remove", "addFields", "equiLookup",
                        "union", "unwind", "groupBy", "distinct", "addToSet"}) \cup NotDelivered]

-----------------------------------------------------------------------------
ScriptInit ==
  /\ scenario \in DOMAIN Claims
  /\ fault \in Claims[scenario] \cup {None}
  /\ step = 0 /\ verdict = "running"
  /\ product = Prepared(Script[scenario])

(* What a Scenario may do in each step: phases of commands.                *)
Reported(signals) == <<Hear(signals, {})>>
PrepareNamespace(s) == {<<>>}
ProductApply(s) == {<<<<Do(s.load)>> \o Reported(s.loaded) \o s.afterApply>>}
Mutate(s) == {<<<<Mutation(changes)>> \o s.mutate>> : changes \in s.changes}
ProductSync(s) == {<<<<s.sync>> \o Reported({<<"logminer">>}) \o s.afterSync>>}
AssertCorrectness(s) ==
  {Append(s.protocol, s.assert \o <<See(s.expect), Status(s.status, {})>>)}
StepOf(s, kind) ==
  CASE kind = Prepare  -> PrepareNamespace(s)
    [] kind = "apply"  -> ProductApply(s)
    [] kind = "mutate" -> Mutate(s)
    [] kind = "sync"   -> ProductSync(s)
    [] kind = "assert" -> AssertCorrectness(s)

(* The run fails at the first check that fails.                            *)
Take(s) ==
  /\ step < Len(s.steps) /\ step' = step + 1
  /\ \E phases \in StepOf(s, s.steps[step']) : product' = PerformAll(phases, product, fault)
  /\ verdict' = IF ~product'.ok THEN "failed"
                ELSE IF step' < Len(s.steps) THEN "running" ELSE "passed"

ScriptNext == verdict = "running" /\ Take(Script[scenario]) /\ UNCHANGED <<scenario, fault>>
ScriptSpec == ScriptInit /\ [][ScriptNext]_scripted

-----------------------------------------------------------------------------
(* The faults in its own capability that a Scenario does not see.  Grouping  *)
(* by one column leaves a document for each value of it even if it is      *)
(* skipped, for documents are told apart by that column; rt-unwind inserts *)
(* no order; mega-mix asks of an order, a filter and an added field        *)
(* nothing that batches and updates do not satisfy.                        *)
BlindSpots ==
  ({"rt_distinct_addtoset"} \X Stages({"distinct", "addToSet"})) \cup
  {<<"rt_unwind", <<"lost", "insert">>>>} \cup
  ({"mega_mix"} \X Stages({"distinct", "addToSet", "filterEq", "addFields"}))

(* A product that does what it promises passes every Scenario, in every    *)
(* order in which the sessions of a workload may be seen.                  *)
CorrectProductPasses == fault = None => verdict # "failed"

(* A product that gets the capability of a Scenario wrong does not pass    *)
(* it, but for the blind spots, where it always does.                      *)
CapabilityFaultIsCaught ==
  fault # None => verdict # IF <<scenario, fault>> \in BlindSpots THEN "failed" ELSE "passed"
=============================================================================
