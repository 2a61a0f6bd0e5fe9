------------------------ MODULE MCDerivedMaintenance ------------------------
(* Instances of DerivedMaintenance for TLC: customers are the primary table, *)
(* orders the foreign one, and there is one Transform of every operator and  *)
(* of the combinations whose Affect Analysis takes a path of its own.        *)
EXTENDS DerivedMaintenance

A == Text("a")
B == Text("b")
Customer(id, k, v) == [id |-> Number(id), k |-> k, v |-> v]
Order(fid, k, w) == [fid |-> Number(fid), k |-> k, w |-> w]

Eq(field, value) == [op |-> "filterEq", field |-> field, value |-> value]
Project(fields) == [op |-> "project", fields |-> fields]
Add(fields) == [op |-> "addFields", fields |-> fields]
Renamed(from, to) == [op |-> "rename", fields |-> <<[from |-> from, to |-> to]>>]
Without(fields) == [op |-> "remove", fields |-> fields]
Lookup == [op |-> "equiLookup", from |-> "orders", localField |-> "k",
           foreignField |-> "k", as |-> "os"]
Unwound == [op |-> "unwind", path |-> "os"]
Union == [op |-> "union", from |-> "orders"]
Group(keys, aggregates) == [op |-> "groupBy", keys |-> keys, aggregates |-> aggregates]
Agg(op, field, as) == [op |-> op, field |-> field, as |-> as]
DistinctOf(fields) == [op |-> "distinct", fields |-> fields]
SetOf(keys, field, as) == [op |-> "addToSet", keys |-> keys, field |-> field, as |-> as]

Shaped == [ops |-> <<Eq("k", A), Add(<<[as |-> "c", literal |-> A]>>), Renamed("v", "w"),
                     Without(<<"k">>)>>, identity |-> <<"id">>]
Joined == [ops |-> <<Lookup>>, identity |-> <<"id">>]
JoinedRows == [ops |-> <<Without(<<"v">>), Lookup, Unwound>>, identity |-> <<"id", "fid">>]
United == [ops |-> <<Union, Renamed("fid", "id")>>, identity |-> <<"id">>]
Totals == [ops |-> <<Group(<<"k">>, <<Agg("sum", "v", "s"), Agg("avg", "v", "m"),
                                      Agg("max", "v", "x")>>)>>, identity |-> <<"k">>]
OrderCounts == [ops |-> <<Union, Group(<<"k">>, <<Agg("count", "w", "n")>>)>>, identity |-> <<"k">>]
Keys == [ops |-> <<DistinctOf(<<"k">>)>>, identity |-> <<"k">>]
FilteredKeys == [ops |-> <<Eq("v", Number(1)), DistinctOf(<<"k">>)>>, identity |-> <<"k">>]
Sets == [ops |-> <<SetOf(<<"k">>, "v", "vs")>>, identity |-> <<"k">>]

MCTransforms == {Shaped, Joined, JoinedRows, United, Totals, OrderCounts, Keys, FilteredKeys, Sets}
MCKeyField == [t \in {"customers", "orders"} |-> IF t = "customers" THEN "id" ELSE "fid"]
MCRows ==
    [t \in {"customers", "orders"} |->
        IF t = "customers" THEN {Customer(i, k, Number(v)) : i \in 1..2, k \in {A, B}, v \in 1..2}
        ELSE {Order(3, k, w) : k \in {A, B}, w \in {Number(1), Null}}]

One == Number(1)
TablesOf(customers, orders) ==
    [t \in {"customers", "orders"} |-> IF t = "customers" THEN customers ELSE orders]
Both == TablesOf(<<Customer(1, A, One), Customer(2, A, One)>>, <<Order(3, A, One)>>)

(* The load saw what the Source has where the replay of changes starts.      *)
InStep == {[loaded |-> Both, start |-> Both]}

(* It saw inserts and an update that will be replayed, or deletes.           *)
MCLoads == InStep \cup
    {[loaded |-> Both, start |-> TablesOf(<<Customer(1, B, One)>>, <<>>)],
     [loaded |-> TablesOf(<<Customer(1, A, One)>>, <<>>), start |-> Both]}

(* The only row of its kind is loaded, and its insert will be replayed; rows *)
(* have one image (README, Known limits).                                    *)
InsertLoaded ==
    {[loaded |-> TablesOf(<<Customer(1, A, One), Customer(2, B, One)>>, <<>>),
      start  |-> TablesOf(<<Customer(1, A, One)>>, <<>>)]}
LoadedRows ==
    [t \in {"customers", "orders"} |->
        IF t = "customers" THEN {Customer(1, A, One), Customer(2, B, One)} ELSE {}]
=============================================================================
