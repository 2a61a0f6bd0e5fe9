---------------------- MODULE DerivedMaintenanceProofs ----------------------
(* Theorems of DerivedMaintenance.  What a Transform yields of rows, and what *)
(* Affect Analysis finds, are folds, which the run derived_rows checks as     *)
(* AffectIsExact.  Given what it says of one change at a time, for any        *)
(* Transforms, rows and bounds: retries, quarantine, crashes and the order    *)
(* of the stores leave the Derived Dataset and the Target as they must be.    *)
EXTENDS DerivedMaintenance, FiniteSetTheorems, SequenceTheorems, TLAPS

-----------------------------------------------------------------------------
(* Base rows.                                                                *)
UniqueKeys(table, rows) ==
    \A i, j \in DOMAIN rows : SameKey(table, rows[i], rows[j]) => i = j

LEMMA ContentsAre ==
    ASSUME NEW table \in Tables, NEW rows
    PROVE  rows \in Contents(table) <=>
              /\ rows \in Seq(Rows[table])
              /\ Len(rows) <= RowsLoaded + MaxChanges
              /\ UniqueKeys(table, rows)
<1> DEFINE most == RowsLoaded + MaxChanges
<1>1. most \in Nat
  BY BoundsAssumption
<1>2. rows \in Contents(table) <=>
        (\E n \in 0..most : rows \in [1..n -> Rows[table]]) /\ UniqueKeys(table, rows)
  BY DEF Contents, UniqueKeys
<1>3. ASSUME NEW n \in 0..most, rows \in [1..n -> Rows[table]]
      PROVE  rows \in Seq(Rows[table]) /\ Len(rows) <= most
  BY <1>1, <1>3
<1>4. ASSUME rows \in Seq(Rows[table]), Len(rows) <= most
      PROVE  Len(rows) \in 0..most /\ rows \in [1..Len(rows) -> Rows[table]]
  BY <1>1, <1>4
<1> QED BY <1>2, <1>3, <1>4

LEMMA BasesAre ==
    ASSUME NEW tables
    PROVE  tables \in Bases <=>
              /\ tables = [t \in Tables |-> tables[t]]
              /\ \A t \in Tables : tables[t] \in Contents(t)
<1>1. ASSUME tables \in Bases
      PROVE  tables = [t \in Tables |-> tables[t]] /\ \A t \in Tables : tables[t] \in Contents(t)
  BY <1>1 DEF Bases, Tables
<1>2. ASSUME tables = [t \in Tables |-> tables[t]], \A t \in Tables : tables[t] \in Contents(t)
      PROVE  tables \in Bases
  <2>1. tables[Primary] \in Contents(Primary) /\ tables[Foreign] \in Contents(Foreign)
    BY <1>2 DEF Tables
  <2>2. tables = [t \in Tables |-> IF t = Primary THEN tables[Primary] ELSE tables[Foreign]]
    BY <1>2 DEF Tables
  <2> QED BY <2>1, <2>2 DEF Bases
<1> QED BY <1>1, <1>2

LEMMA AppendIs ==
    ASSUME NEW S, NEW s \in Seq(S), NEW e \in S
    PROVE  /\ Append(s, e) \in Seq(S) /\ Len(Append(s, e)) = Len(s) + 1
           /\ \A i \in 1..Len(s) : Append(s, e)[i] = s[i]
           /\ Append(s, e)[Len(s) + 1] = e
  OBVIOUS

LEMMA RemoveAtIs ==
    ASSUME NEW S, NEW s \in Seq(S), NEW k \in DOMAIN s
    PROVE  /\ RemoveAt(s, k) \in Seq(S) /\ Len(RemoveAt(s, k)) = Len(s) - 1
           /\ \A i \in 1..(Len(s) - 1) : RemoveAt(s, k)[i] = IF i < k THEN s[i] ELSE s[i + 1]
<1> DEFINE head == SubSeq(s, 1, k - 1)
           tail == SubSeq(s, k + 1, Len(s))
<1>1. k \in Nat /\ 1 <= k /\ k <= Len(s)
  OBVIOUS
<1>2. head \in Seq(S) /\ Len(head) = k - 1 /\ \A i \in 1..(k - 1) : head[i] = s[i]
  BY <1>1
<1>3. tail \in Seq(S) /\ Len(tail) = Len(s) - k /\ \A i \in 1..(Len(s) - k) : tail[i] = s[k + i]
  BY <1>1
<1>4. RemoveAt(s, k) = head \o tail
  BY DEF RemoveAt
<1> HIDE DEF head, tail
<1>5. RemoveAt(s, k) \in Seq(S) /\ Len(RemoveAt(s, k)) = Len(s) - 1
  BY <1>1, <1>2, <1>3, <1>4
<1>6. ASSUME NEW i \in 1..(Len(s) - 1), i < k
      PROVE  RemoveAt(s, k)[i] = s[i]
  BY <1>1, <1>2, <1>3, <1>4, <1>6
<1>7. ASSUME NEW i \in 1..(Len(s) - 1), ~(i < k)
      PROVE  RemoveAt(s, k)[i] = s[i + 1]
  <2>1. i \in 1..(Len(head) + Len(tail)) /\ ~(i <= Len(head))
    BY <1>1, <1>2, <1>3, <1>7
  <2>2. (head \o tail)[i] = tail[i - Len(head)]
    BY <2>1, <1>2, <1>3, ConcatProperties
  <2>3. i - Len(head) \in 1..(Len(s) - k) /\ k + (i - Len(head)) = i + 1
    BY <1>1, <1>2, <1>7
  <2> QED BY <2>2, <2>3, <1>3, <1>4
<1> QED BY <1>5, <1>6, <1>7

(* A change leaves the keys unique and brings one row at most. *)
LEMMA AppliedIsContent ==
    ASSUME NEW table \in Tables, NEW c, c.table = table, c.row \in Rows[table],
           NEW rows \in Seq(Rows[table]), UniqueKeys(table, rows)
    PROVE  /\ Applied(rows, c) \in Seq(Rows[table])
           /\ UniqueKeys(table, Applied(rows, c))
           /\ Len(Applied(rows, c)) <= Len(rows) + 1
<1> DEFINE at == {i \in DOMAIN rows : SameKey(table, rows[i], c.row)}
<1>0. PICK row \in Rows[table] : row = c.row
  OBVIOUS
<1>1. CASE at = {} /\ c.kind = "delete"
  BY <1>1 DEF Applied
<1>2. CASE at = {} /\ c.kind # "delete"
  <2>1. PICK after : after = Append(rows, row)
    OBVIOUS
  <2>2. after \in Seq(Rows[table]) /\ Len(after) = Len(rows) + 1
        /\ (\A i \in 1..Len(rows) : after[i] = rows[i]) /\ after[Len(rows) + 1] = row
    BY ONLY <2>1, AppendIs, rows \in Seq(Rows[table])
  <2>3. \A i \in 1..Len(rows) : ~SameKey(table, rows[i], row)
    BY <1>0, <1>2
  <2>4. Applied(rows, c) = after
    BY <2>1, <1>0, <1>2 DEF Applied
  <2>5. UniqueKeys(table, after)
    BY <2>2, <2>3 DEF UniqueKeys, SameKey
  <2> QED BY <2>2, <2>4, <2>5
<1>3. PICK here : here = CHOOSE i \in at : TRUE
  OBVIOUS
<1>4. CASE at # {} /\ c.kind = "delete"
  <2>1. here \in DOMAIN rows
    BY <1>3, <1>4
  <2>2. PICK after : after = RemoveAt(rows, here)
    OBVIOUS
  <2>3. /\ after \in Seq(Rows[table]) /\ Len(after) = Len(rows) - 1
        /\ \A i \in 1..(Len(rows) - 1) : after[i] = IF i < here THEN rows[i] ELSE rows[i + 1]
    BY <2>1, <2>2, RemoveAtIs
  <2>4. Applied(rows, c) = after
    BY <2>2, <1>3, <1>4 DEF Applied
  <2>5. UniqueKeys(table, after)
    <3> SUFFICES ASSUME NEW i \in 1..(Len(rows) - 1), NEW j \in 1..(Len(rows) - 1),
                        SameKey(table, after[i], after[j])
                 PROVE  i = j
      BY <2>3 DEF UniqueKeys
    <3>1. PICK m \in DOMAIN rows : m = IF i < here THEN i ELSE i + 1
      BY <2>1
    <3>2. PICK n \in DOMAIN rows : n = IF j < here THEN j ELSE j + 1
      BY <2>1
    <3>3. after[i] = rows[m] /\ after[j] = rows[n]
      BY <2>3, <3>1, <3>2
    <3>4. m = n
      BY <3>3 DEF UniqueKeys, SameKey
    <3> QED BY <3>1, <3>2, <3>4, <2>1
  <2>6. Len(after) <= Len(rows) + 1
    BY <2>3
  <2> QED BY <2>3, <2>4, <2>5, <2>6
<1>5. CASE at # {} /\ c.kind # "delete"
  <2>1. here \in 1..Len(rows) /\ SameKey(table, rows[here], row)
    BY <1>0, <1>3, <1>5
  <2>2. PICK after : after = [rows EXCEPT ![here] = row]
    OBVIOUS
  <2>3. after \in Seq(Rows[table]) /\ Len(after) = Len(rows)
        /\ \A i \in 1..Len(rows) : after[i] = IF i = here THEN row ELSE rows[i]
    <3>1. rows \in [1..Len(rows) -> Rows[table]] /\ Len(rows) \in Nat
      BY LenProperties
    <3>2. /\ after \in [1..Len(rows) -> Rows[table]]
          /\ \A i \in 1..Len(rows) : after[i] = IF i = here THEN row ELSE rows[i]
      BY <3>1, <2>1, <2>2
    <3>3. after \in Seq(Rows[table]) /\ Len(after) = Len(rows)
      BY <3>1, <3>2
    <3> QED BY <3>2, <3>3
  <2>4. Applied(rows, c) = after
    BY <2>2, <1>0, <1>3, <1>5 DEF Applied
  <2>5. UniqueKeys(table, after)
    BY <2>1, <2>3 DEF UniqueKeys, SameKey
  <2> QED BY <2>3, <2>4, <2>5
<1> QED BY <1>1, <1>2, <1>4, <1>5

-----------------------------------------------------------------------------
(* Rows and documents.                                                       *)
TellApart(t, rows) ==
    \A i, j \in DOMAIN rows : IdentityOf(t, rows[i]) = IdentityOf(t, rows[j]) => i = j
AreDocuments(t, docs) ==
    \A id \in DOMAIN docs : docs[id] \in Outputs(t) /\ IdentityOf(t, docs[id]) = id

LEMMA EvaluationIs ==
    ASSUME NEW t \in Transforms, NEW tables \in Bases
    PROVE  /\ EvaluationOf(t, tables) \in Seq(Outputs(t))
           /\ Range(EvaluationOf(t, tables)) \subseteq Outputs(t)
           /\ TellApart(t, EvaluationOf(t, tables))
<1> PICK rows : rows = EvaluationOf(t, tables)
  OBVIOUS
<1>1. rows \in Seq(Range(rows))
  BY IdentityAssumption
<1>2. Range(rows) \subseteq Outputs(t)
  BY DEF Outputs
<1>3. rows \in Seq(Outputs(t))
  BY <1>1, <1>2, SeqMonotonic
<1>4. TellApart(t, rows)
  BY IdentityAssumption DEF TellApart
<1> QED BY <1>2, <1>3, <1>4

LEMMA OutputIsRow ==
    ASSUME NEW t \in Transforms, NEW r \in Outputs(t)
    PROVE  r = [f \in DOMAIN r |-> r[f]] /\ Range(t.identity) \subseteq DOMAIN r
  BY IdentityAssumption DEF IsRow

(* The rows of a Derived Dataset are known by their identities. *)
LEMMA RowIsKnown ==
    ASSUME NEW t, NEW rows, TellApart(t, rows), NEW r \in Range(rows), NEW s \in Range(rows),
           IdentityOf(t, r) = IdentityOf(t, s)
    PROVE  r = s
  BY DEF TellApart, Range

(* An upsert of rows known by their identities replaces their documents and  *)
(* leaves the others.                                                        *)
LEMMA UpsertedIs ==
    ASSUME transform \in Transforms, NEW docs, AreDocuments(transform, docs),
           NEW rows \in Seq(Outputs(transform)), TellApart(transform, rows)
    PROVE  /\ DOMAIN Upserted(docs, rows) = DOMAIN docs \cup IdentitiesOf(rows)
           /\ \A r \in Range(rows) : Upserted(docs, rows)[OutputIdentity(r)] = r
           /\ \A id \in DOMAIN docs \ IdentitiesOf(rows) : Upserted(docs, rows)[id] = docs[id]
<1> DEFINE Before(id) == IF id \in DOMAIN docs THEN docs[id] ELSE NoRow
           Of(id) == {i \in DOMAIN rows : OutputIdentity(rows[i]) = id}
           With(id, f) == {i \in Of(id) : f \in DOMAIN rows[i]}
           Merged(id) == [f \in DOMAIN Before(id) \cup UNION {DOMAIN rows[i] : i \in Of(id)} |->
                            IF With(id, f) = {} THEN Before(id)[f] ELSE rows[Max(With(id, f))][f]]
<1>1. Upserted(docs, rows) = [id \in DOMAIN docs \cup IdentitiesOf(rows) |-> Merged(id)]
  BY DEF Upserted
<1>2. ASSUME NEW r \in Range(rows)
      PROVE  Merged(OutputIdentity(r)) = r
  <2>1. PICK i \in DOMAIN rows : rows[i] = r
    BY DEF Range
  <2>2. PICK id : id = OutputIdentity(r)
    OBVIOUS
  <2>3. Of(id) = {i}
    BY <2>1, <2>2 DEF TellApart, OutputIdentity
  <2>4. r \in Outputs(transform)
    BY <2>1
  <2>5. DOMAIN Before(id) \subseteq DOMAIN r
    <3>1. CASE id \in DOMAIN docs
      <4>1. docs[id] \in Outputs(transform) /\ IdentityOf(transform, docs[id]) = IdentityOf(transform, r)
        BY <3>1, <2>2 DEF AreDocuments, OutputIdentity
      <4>2. DOMAIN docs[id] = DOMAIN r
        BY <4>1, <2>4, IdentityAssumption
      <4> QED BY <3>1, <4>2
    <3>2. CASE id \notin DOMAIN docs
      BY <3>2 DEF NoRow
    <3> QED BY <3>1, <3>2
  <2>6. UNION {DOMAIN rows[k] : k \in Of(id)} = DOMAIN r
    BY <2>1, <2>3
  <2>7. ASSUME NEW f \in DOMAIN r
        PROVE  With(id, f) # {} /\ rows[Max(With(id, f))][f] = r[f]
    <3>1. With(id, f) = {i}
      BY <2>1, <2>3, <2>7
    <3>2. i \in Int
      OBVIOUS
    <3>3. Max({i}) = i
      BY <3>2 DEF Max
    <3> QED BY <3>1, <3>3, <2>1
  <2> HIDE DEF Before, Of, With
  <2>8. Merged(id) = [f \in DOMAIN r |-> r[f]]
    BY <2>5, <2>6, <2>7
  <2> QED BY <2>2, <2>4, <2>8, OutputIsRow
<1>3. ASSUME NEW id \in DOMAIN docs \ IdentitiesOf(rows)
      PROVE  Merged(id) = docs[id]
  <2>1. Of(id) = {}
    BY <1>3 DEF IdentitiesOf, Range
  <2>2. UNION {DOMAIN rows[k] : k \in Of(id)} = {}
    BY <2>1
  <2>3. \A f : With(id, f) = {}
    BY <2>1
  <2>4. Before(id) = docs[id]
    BY <1>3
  <2> HIDE DEF Before, Of, With
  <2>5. Merged(id) = [f \in DOMAIN docs[id] |-> docs[id][f]]
    BY <2>2, <2>3, <2>4
  <2> QED BY <1>3, <2>5, OutputIsRow DEF AreDocuments
<1> HIDE DEF Merged
<1>4. \A r \in Range(rows) : OutputIdentity(r) \in IdentitiesOf(rows)
  BY DEF IdentitiesOf
<1> QED BY <1>1, <1>2, <1>3, <1>4

LEMMA UpsertedAreDocuments ==
    ASSUME transform \in Transforms, NEW docs, AreDocuments(transform, docs),
           NEW rows \in Seq(Outputs(transform)), TellApart(transform, rows)
    PROVE  AreDocuments(transform, Upserted(docs, rows))
<1> SUFFICES ASSUME NEW id \in DOMAIN Upserted(docs, rows)
             PROVE  /\ Upserted(docs, rows)[id] \in Outputs(transform)
                    /\ IdentityOf(transform, Upserted(docs, rows)[id]) = id
  BY DEF AreDocuments
<1>1. CASE id \in IdentitiesOf(rows)
  <2>1. PICK r \in Range(rows) : id = OutputIdentity(r)
    BY <1>1 DEF IdentitiesOf
  <2>2. Upserted(docs, rows)[id] = r
    BY <2>1, UpsertedIs
  <2>3. r \in Outputs(transform)
    BY DEF Range
  <2> QED BY <2>1, <2>2, <2>3 DEF OutputIdentity
<1>2. CASE id \notin IdentitiesOf(rows)
  <2>1. id \in DOMAIN docs /\ Upserted(docs, rows)[id] = docs[id]
    BY <1>2, UpsertedIs
  <2> QED BY <2>1 DEF AreDocuments
<1> QED BY <1>1, <1>2

LEMMA DeletedAreDocuments ==
    ASSUME NEW t, NEW docs, AreDocuments(t, docs), NEW ids
    PROVE  AreDocuments(t, Deleted(docs, ids))
  BY DEF AreDocuments, Deleted

LEMMA PartlyAreDocuments ==
    ASSUME NEW t, NEW before, NEW after, NEW reached,
           AreDocuments(t, before), AreDocuments(t, after)
    PROVE  AreDocuments(t, Partly(before, after, reached))
  BY DEF AreDocuments, Partly

LEMMA NoRowAreDocuments == ASSUME NEW t PROVE AreDocuments(t, NoRow)
  BY DEF AreDocuments, NoRow

(* Rows that occur once make a bag of ones. *)
LEMMA RowBagIs ==
    ASSUME NEW rows, \A i, j \in DOMAIN rows : rows[i] = rows[j] => i = j
    PROVE  RowBag(rows) = [r \in Range(rows) |-> 1]
<1>1. ASSUME NEW r \in Range(rows)
      PROVE  Cardinality({i \in DOMAIN rows : rows[i] = r}) = 1
  <2>1. PICK k \in DOMAIN rows : rows[k] = r
    BY DEF Range
  <2>2. {i \in DOMAIN rows : rows[i] = r} = {k}
    BY <2>1
  <2> QED BY <2>2, FS_Singleton
<1> QED BY <1>1 DEF RowBag

LEMMA EvaluationBag ==
    ASSUME NEW t \in Transforms, NEW tables \in Bases
    PROVE  RowBag(EvaluationOf(t, tables)) = [r \in Range(EvaluationOf(t, tables)) |-> 1]
<1> PICK rows : rows = EvaluationOf(t, tables)
  OBVIOUS
<1>1. \A i, j \in DOMAIN rows : rows[i] = rows[j] => i = j
  BY EvaluationIs DEF TellApart
<1> QED BY <1>1, RowBagIs

-----------------------------------------------------------------------------
(* The type invariant, with what makes it inductive: a change that is not    *)
(* recorded yet has room for its row, and documents and planned rows are     *)
(* rows that the Transform yields.                                           *)
Doing == {"maintain", "upsert", "delete", "record"}

RoomForChange ==
    \A t \in Tables :
        Len(base[t]) + (IF phase \in Doing THEN 1 ELSE 0) <= RowsLoaded + changes

TypeInv ==
    /\ TypeOK
    /\ phase # "idle" => change.table \in Tables /\ change.row \in Rows[change.table]
    /\ RoomForChange
    /\ AreDocuments(transform, target)
    /\ plan.upserts \in Seq(Outputs(transform)) /\ TellApart(transform, plan.upserts)

LEMMA TablesOf ==
    ASSUME NEW tables \in Bases, NEW t \in Tables
    PROVE  tables[t] \in Seq(Rows[t]) /\ Len(tables[t]) \in Nat /\ UniqueKeys(t, tables[t])
  BY BasesAre, ContentsAre

(* With the change applied the Bases are still such as they may be. *)
LEMMA InMemoryIs ==
    ASSUME TypeInv, phase \in Doing
    PROVE  /\ InMemory \in Bases
           /\ \A t \in Tables : Len(InMemory[t]) <= RowsLoaded + changes
<1>1. base \in Bases /\ changes \in 0..MaxChanges
  BY DEF TypeInv, TypeOK
<1>2. PICK table \in Tables : table = change.table
  BY DEF TypeInv, Doing
<1>3. PICK rows \in Seq(Rows[table]) : rows = base[table] /\ UniqueKeys(table, rows)
  BY <1>1, TablesOf
<1>4. change.table = table /\ change.row \in Rows[table]
  BY <1>2 DEF TypeInv, Doing
<1>5. PICK after : after = Applied(rows, change)
  OBVIOUS
<1>6. after \in Seq(Rows[table]) /\ UniqueKeys(table, after) /\ Len(after) <= Len(rows) + 1
  BY <1>4, <1>3, <1>5, AppliedIsContent
<1>7. base = [t \in Tables |-> base[t]]
  BY <1>1, BasesAre
<1>8. InMemory = [t \in Tables |-> IF t = table THEN after ELSE base[t]]
  BY <1>2, <1>3, <1>5, <1>7 DEF InMemory
<1>9. ASSUME NEW t \in Tables
      PROVE  InMemory[t] \in Contents(t) /\ Len(InMemory[t]) <= RowsLoaded + changes
  <2>1. RowsLoaded \in Nat /\ Len(base[t]) \in Nat /\ MaxChanges \in Nat
    BY <1>1, TablesOf, BoundsAssumption
  <2>2. Len(base[t]) + 1 <= RowsLoaded + changes
    BY DEF TypeInv, RoomForChange
  <2>3. CASE t = table
    <3>1. InMemory[t] = after /\ Len(after) \in Nat
      BY <2>3, <1>6, <1>8
    <3>2. Len(after) <= RowsLoaded + changes
      BY <3>1, <2>1, <2>2, <2>3, <1>1, <1>3, <1>6
    <3>3. Len(after) <= RowsLoaded + MaxChanges
      BY <3>1, <3>2, <2>1, <1>1
    <3> QED BY <3>1, <3>2, <3>3, <2>3, <1>6, ContentsAre
  <2>4. CASE t # table
    <3>1. InMemory[t] = base[t]
      BY <2>4, <1>8
    <3>2. base[t] \in Contents(t)
      BY <1>1, BasesAre
    <3>3. Len(base[t]) <= RowsLoaded + changes
      BY <2>1, <2>2, <1>1
    <3> QED BY <3>1, <3>2, <3>3
  <2> QED BY <2>3, <2>4
<1>10. InMemory = [t \in Tables |-> InMemory[t]]
  BY <1>8
<1> QED BY <1>9, <1>10, BasesAre

(* The recomputed rows are the wanted ones of what the Transform yields. *)
LEMMA RecomputedIs ==
    ASSUME TypeInv, RecomputationIsExact, phase = "maintain",
           Analysis.outcome # AnalysisFailed,
           NEW ids, ids = AffectedBy(Analysis.outcome), NEW rows, rows = Recomputed(ids)
    PROVE  /\ rows # Failed
           /\ Range(rows) = {r \in Range(Evaluation(InMemory)) : StandFor(ids, r)}
           /\ rows \in Seq(Outputs(transform)) /\ TellApart(transform, rows)
           /\ \A i, j \in DOMAIN rows : rows[i] = rows[j] => i = j
<1>1. transform \in Transforms /\ InMemory \in Bases
  BY InMemoryIs DEF TypeInv, TypeOK, Doing
<1>2. PICK new : new = Evaluation(InMemory)
  OBVIOUS
<1>3. Range(new) \subseteq Outputs(transform) /\ TellApart(transform, new)
  BY <1>1, <1>2, EvaluationIs DEF Evaluation
<1> DEFINE wanted == {r \in Range(new) : StandFor(ids, r)}
<1>4. /\ rows # Failed /\ rows \in Seq(wanted) /\ wanted \subseteq Range(rows)
      /\ \A i, j \in DOMAIN rows : rows[i] = rows[j] => i = j
  BY <1>2 DEF RecomputationIsExact, ExactOn, IsExact
<1>5. Range(rows) = wanted
  BY <1>4 DEF Range
<1>6. rows \in Seq(Outputs(transform))
  BY <1>3, <1>4, SeqMonotonic
<1>7. TellApart(transform, rows)
  <2> SUFFICES ASSUME NEW i \in DOMAIN rows, NEW j \in DOMAIN rows,
                      IdentityOf(transform, rows[i]) = IdentityOf(transform, rows[j])
               PROVE  i = j
    BY DEF TellApart
  <2>1. rows[i] \in Range(new) /\ rows[j] \in Range(new)
    BY <1>4
  <2>2. rows[i] = rows[j]
    BY <2>1, <1>3, RowIsKnown
  <2> QED BY <2>2, <1>4
<1> QED BY <1>2, <1>4, <1>5, <1>6, <1>7

(* What an attempt of Maintain comes to: it fails, or the rows are planned.  *)
LEMMA MaintainIs ==
    ASSUME Maintain, NEW ids, ids = AffectedBy(Analysis.outcome), NEW rows, rows = Recomputed(ids)
    PROVE  \/ Analysis.outcome = AnalysisFailed /\ Fails({}) /\ UNCHANGED derived
           \/ /\ Analysis.outcome # AnalysisFailed /\ rows = Failed
              /\ Fails({}) /\ UNCHANGED derived
           \/ /\ Analysis.outcome # AnalysisFailed /\ rows # Failed
              /\ derived' = DerivedAfter(ids, rows)
              /\ ~ \A r \in Range(rows) \cup Gone(ids, rows) : Identified(r)
              /\ Fails({})
           \/ /\ Analysis.outcome # AnalysisFailed /\ rows # Failed
              /\ derived' = DerivedAfter(ids, rows)
              /\ plan' = [upserts |-> rows, deletes |-> {OutputIdentity(id) : id \in Gone(ids, rows)}]
              /\ phase' = "upsert" /\ UNCHANGED <<attempt, undelivered>>
  BY DEF Maintain, MaintainOn, MaintainDerived

(* A step that leaves the Bases, the change and the transform alone.         *)
LEMMA StepInChange ==
    ASSUME TypeInv, phase \in Doing, phase' \in Doing,
           UNCHANGED <<transform, base, change, changes>>,
           attempt' \in 0..MaxAttempts, attempt' = MaxAttempts => phase' = "record",
           crashes' \in 0..MaxCrashes,
           AreDocuments(transform, target'),
           plan'.upserts \in Seq(Outputs(transform)), TellApart(transform, plan'.upserts)
    PROVE  TypeInv'
<1>1. transform' = transform /\ base' = base /\ change' = change /\ changes' = changes
  OBVIOUS
<1>2. phase # "idle" /\ phase' # "idle"
  BY DEF Doing
<1>3. RoomForChange'
  BY <1>1 DEF TypeInv, RoomForChange
<1>4. \A id \in DOMAIN target' : IdentityOf(transform, target'[id]) = id
  BY DEF AreDocuments
<1>5. TypeOK'
  BY <1>1, <1>2, <1>4 DEF TypeInv, TypeOK, Doing, OutputIdentity
<1> QED BY <1>1, <1>2, <1>3, <1>5 DEF TypeInv

LEMMA FailsIs ==
    ASSUME TypeInv, phase \in {"maintain", "upsert", "delete"}, NEW ids, Fails(ids)
    PROVE  /\ phase' \in {"maintain", "record"} /\ plan' = NoPlan
           /\ attempt' \in 0..MaxAttempts /\ (attempt' = MaxAttempts => phase' = "record")
           /\ phase' = "maintain" => UNCHANGED undelivered
           /\ phase' = "record" => undelivered' = undelivered \cup ids
<1>1. attempt \in 0..MaxAttempts /\ attempt # MaxAttempts
  BY DEF TypeInv, TypeOK
<1>2. MaxAttempts \in Nat
  BY BoundsAssumption
<1> QED BY <1>1, <1>2 DEF Fails

LEMMA NoPlanIs ==
    ASSUME NEW t
    PROVE  NoPlan.upserts \in Seq(Outputs(t)) /\ TellApart(t, NoPlan.upserts)
  BY DEF NoPlan, TellApart

LEMMA InitType == ASSUME Init PROVE TypeInv
<1>1. transform \in Transforms /\ base \in Bases
  BY TablesAssumption DEF Init
<1>2. AreDocuments(transform, target)
  <2>1. PICK rows : rows = EvaluationOf(transform, base)
    OBVIOUS
  <2>2. rows \in Seq(Outputs(transform)) /\ TellApart(transform, rows)
    BY <1>1, <2>1, EvaluationIs
  <2>3. target = Upserted(NoRow, rows)
    BY <2>1 DEF Init, Evaluation
  <2> QED BY <1>1, <2>2, <2>3, NoRowAreDocuments, UpsertedAreDocuments
<1>3. \A id \in DOMAIN target : OutputIdentity(target[id]) = id
  BY <1>2 DEF AreDocuments, OutputIdentity
<1>4. RoomForChange
  <2> SUFFICES ASSUME NEW t \in Tables PROVE Len(base[t]) <= RowsLoaded + changes
    BY DEF RoomForChange, Init, Doing
  <2>1. Len(base[t]) <= RowsLoaded /\ changes = 0
    BY TablesAssumption DEF Init
  <2> QED BY <2>1, <1>1, TablesOf, BoundsAssumption
<1>5. TypeOK
  BY <1>1, <1>3, BoundsAssumption DEF Init, TypeOK
<1>6. plan.upserts \in Seq(Outputs(transform)) /\ TellApart(transform, plan.upserts)
  BY NoPlanIs DEF Init
<1> QED BY <1>2, <1>4, <1>5, <1>6 DEF TypeInv, Init

(* What DeliverAll leaves in the Target. *)
LEMMA DeliverAllIs ==
    ASSUME TypeInv, NEW tables \in Bases, DeliverAll(Evaluation(tables))
    PROVE  AreDocuments(transform, target')
<1>1. PICK rows : rows = Evaluation(tables)
  OBVIOUS
<1>2. transform \in Transforms /\ AreDocuments(transform, target)
  BY DEF TypeInv, TypeOK
<1>3. rows \in Seq(Outputs(transform)) /\ TellApart(transform, rows)
  BY <1>1, <1>2, EvaluationIs DEF Evaluation
<1>4. PICK kept : kept = Deleted(target, DOMAIN target \ IdentitiesOf(rows))
  OBVIOUS
<1>5. target' = Upserted(kept, rows)
  BY <1>1, <1>4 DEF DeliverAll
<1>6. AreDocuments(transform, kept)
  BY <1>2, <1>4, DeletedAreDocuments
<1> QED BY <1>2, <1>3, <1>5, <1>6, UpsertedAreDocuments

LEMMA TypeStep ==
    ASSUME TypeInv, RecomputationIsExact, [Next]_vars
    PROVE  TypeInv'
<1> USE BoundsAssumption
<1>1. /\ transform \in Transforms /\ base \in Bases /\ AreDocuments(transform, target)
      /\ attempt \in 0..MaxAttempts /\ changes \in 0..MaxChanges /\ crashes \in 0..MaxCrashes
      /\ plan.upserts \in Seq(Outputs(transform)) /\ TellApart(transform, plan.upserts)
  BY DEF TypeInv, TypeOK
<1>2. CASE NextChange
  <2>1. PICK table \in Referenced : change'.table = table /\ change'.row \in Rows[table]
                                   /\ change'.kind \in {"insert", "update", "delete"}
    BY <1>2 DEF NextChange
  <2>2. table \in Tables
    BY <1>1, TablesAssumption DEF Referenced, Tables, Ops
  <2>3. change' # NoChange
    BY <2>1 DEF NoChange
  <2>4. phase = "idle" /\ phase' = "maintain" /\ changes' = changes + 1 /\ changes < MaxChanges
        /\ attempt' = 0 /\ UNCHANGED <<transform, base, target, plan, crashes>>
    BY <1>2 DEF NextChange, store
  <2>5. RoomForChange'
    <3> SUFFICES ASSUME NEW t \in Tables
                 PROVE  Len(base[t]) + 1 <= RowsLoaded + (changes + 1)
      BY <2>4 DEF RoomForChange, Doing
    <3>1. Len(base[t]) <= RowsLoaded + changes
      BY <2>4, <1>1, TablesOf DEF TypeInv, RoomForChange, Doing
    <3>2. PICK m \in Nat, n \in Nat, k \in Nat :
            m = Len(base[t]) /\ n = RowsLoaded /\ k = changes
      BY <1>1, TablesOf, BoundsAssumption
    <3>3. m <= n + k
      BY <3>1, <3>2, Zenon
    <3>4. m + 1 <= n + (k + 1)
      BY <3>3
    <3> QED BY <3>2, <3>4
  <2>6. TypeOK'
    BY <1>1, <2>3, <2>4 DEF TypeInv, TypeOK, OutputIdentity
  <2> QED BY <1>1, <2>1, <2>2, <2>4, <2>5, <2>6 DEF TypeInv
<1>3. CASE Maintain
  <2>1. PICK ids : ids = AffectedBy(Analysis.outcome)
    OBVIOUS
  <2>2. PICK rows : rows = Recomputed(ids)
    OBVIOUS
  <2>3. phase = "maintain" /\ UNCHANGED <<transform, base, target, change, changes, crashes>>
    BY <1>3 DEF Maintain
  <2>4. CASE Fails({})
    <3>1. /\ phase' \in {"maintain", "record"} /\ plan' = NoPlan
          /\ attempt' \in 0..MaxAttempts /\ (attempt' = MaxAttempts => phase' = "record")
      BY <2>3, <2>4, FailsIs
    <3> QED BY <1>1, <2>3, <3>1, StepInChange, NoPlanIs DEF Doing
  <2>5. CASE /\ Analysis.outcome # AnalysisFailed /\ plan'.upserts = rows
             /\ phase' = "upsert" /\ attempt' = attempt
    <3>1. rows \in Seq(Outputs(transform)) /\ TellApart(transform, rows)
      BY <2>1, <2>2, <2>3, <2>5, RecomputedIs
    <3>2. attempt # MaxAttempts
      BY <2>3 DEF TypeInv, TypeOK
    <3> QED BY <1>1, <2>3, <2>5, <3>1, <3>2, StepInChange DEF Doing
  <2> QED BY <1>3, <2>1, <2>2, <2>4, <2>5, MaintainIs
<1>4. CASE Upsert
  <2>1. AreDocuments(transform, target')
    BY <1>1, <1>4, UpsertedAreDocuments DEF Upsert
  <2>2. attempt # MaxAttempts
    BY <1>4 DEF Upsert, TypeInv, TypeOK
  <2> QED BY <1>1, <1>4, <2>1, <2>2, StepInChange DEF Upsert, Doing, store
<1>5. CASE Delete
  <2>1. AreDocuments(transform, target')
    BY <1>1, <1>5, DeletedAreDocuments DEF Delete
  <2> QED BY <1>1, <1>5, <2>1, StepInChange, NoPlanIs DEF Delete, Doing, store
<1>6. CASE WriteFails
  <2>1. /\ phase \in {"upsert", "delete"} /\ Fails(Planned)
        /\ UNCHANGED <<transform, base, change, changes, crashes>>
    BY <1>6 DEF WriteFails, store
  <2>2. /\ phase' \in {"maintain", "record"} /\ plan' = NoPlan
        /\ attempt' \in 0..MaxAttempts /\ (attempt' = MaxAttempts => phase' = "record")
    BY <2>1, FailsIs
  <2>3. AreDocuments(transform, target')
    BY <1>1, <1>6, UpsertedAreDocuments, DeletedAreDocuments, PartlyAreDocuments DEF WriteFails
  <2> QED BY <1>1, <2>1, <2>2, <2>3, StepInChange, NoPlanIs DEF Doing
<1>7. CASE Record
  <2>1. phase = "record" /\ base' = InMemory /\ phase' = "persist"
        /\ UNCHANGED <<transform, change, changes, attempt, crashes, target, plan>>
    BY <1>7 DEF Record
  <2>2. InMemory \in Bases /\ \A t \in Tables : Len(InMemory[t]) <= RowsLoaded + changes
    BY <2>1, InMemoryIs DEF Doing
  <2>3. RoomForChange'
    <3> SUFFICES ASSUME NEW t \in Tables PROVE Len(InMemory[t]) + 0 <= RowsLoaded + changes
      BY <2>1 DEF RoomForChange, Doing
    <3> QED BY <2>2, TablesOf
  <2>4. TypeOK'
    BY <1>1, <2>1, <2>2 DEF TypeInv, TypeOK, OutputIdentity
  <2> QED BY <1>1, <2>1, <2>3, <2>4 DEF TypeInv
<1>8. CASE Persist
  <2>1. phase = "persist" /\ phase' = "idle" /\ change' = NoChange /\ attempt' = 0
        /\ UNCHANGED <<transform, base, target, plan, changes, crashes>>
    BY <1>8 DEF Persist
  <2>2. RoomForChange'
    BY <2>1 DEF TypeInv, RoomForChange, Doing
  <2>3. TypeOK'
    BY <1>1, <2>1 DEF TypeInv, TypeOK, OutputIdentity
  <2> QED BY <1>1, <2>1, <2>2, <2>3 DEF TypeInv
<1>9. CASE Crash
  <2>1. /\ phase # "idle" /\ crashes < MaxCrashes /\ attempt' = 0 /\ plan' = NoPlan
        /\ crashes' = crashes + 1 /\ UNCHANGED <<transform, base, target, changes>>
    BY <1>9 DEF Crash, store
  <2>2. CASE phase = "persist"
    <3>1. phase' = "idle" /\ change' = NoChange
      BY <1>9, <2>2 DEF Crash
    <3>2. RoomForChange'
      BY <2>1, <2>2, <3>1 DEF TypeInv, RoomForChange, Doing
    <3>3. TypeOK'
      BY <1>1, <2>1, <3>1 DEF TypeInv, TypeOK, OutputIdentity
    <3> QED BY <1>1, <2>1, <3>1, <3>2, <3>3, NoPlanIs DEF TypeInv
  <2>3. CASE phase # "persist"
    <3>1. phase' = "maintain" /\ change' = change /\ phase \in Doing
      BY <1>9, <2>1, <2>3 DEF Crash, Doing, TypeInv, TypeOK
    <3> QED BY <1>1, <2>1, <3>1, StepInChange, NoPlanIs DEF Doing
  <2> QED BY <2>2, <2>3
<1>10. CASE Redeliver
  <2>1. phase = "idle" /\ DeliverAll(Evaluation(base))
        /\ UNCHANGED <<transform, base, phase, change, attempt, plan, changes, crashes>>
    BY <1>10 DEF Redeliver, Reconcile
  <2>2. AreDocuments(transform, target')
    BY <1>1, <2>1, DeliverAllIs
  <2>3. TypeOK'
    BY <1>1, <2>1, <2>2 DEF TypeInv, TypeOK, OutputIdentity, AreDocuments
  <2>4. RoomForChange'
    BY <2>1 DEF TypeInv, RoomForChange
  <2> QED BY <1>1, <2>1, <2>2, <2>3, <2>4 DEF TypeInv
<1>11. CASE UNCHANGED vars
  BY <1>11 DEF TypeInv, TypeOK, RoomForChange, vars, store, OutputIdentity
<1> QED BY <1>2, <1>3, <1>4, <1>5, <1>6, <1>7, <1>8, <1>9, <1>10, <1>11 DEF Next

(* The phases hold what they should, the Base Datasets have unique keys and  *)
(* every document is known by the identity that its row has, whatever fails, *)
(* dies or is retried, as long as recomputations are exact.                  *)
THEOREM TypeCorrect == Spec /\ []RecomputationIsExact => []TypeOK
<1>1. Init => TypeInv
  BY InitType
<1>2. TypeInv /\ RecomputationIsExact /\ [Next]_vars => TypeInv'
  BY TypeStep
<1>3. TypeInv => TypeOK
  BY DEF TypeInv
<1> QED BY <1>1, <1>2, <1>3, PTL DEF Spec

-----------------------------------------------------------------------------
(* What the Derived Dataset and the Target hold at each phase of a change.   *)
OldRows == Evaluation(base)
NewRows == Evaluation(InMemory)

(* The document of an identity is its row among these, or there is neither.  *)
Shows(t, docs, id, rows) ==
    IF id \in DOMAIN docs THEN docs[id] \in Range(rows)
    ELSE \A r \in Range(rows) : IdentityOf(t, r) # id

DerivedInv ==
    /\ phase \in {"idle", "persist"} => derived = RowBag(OldRows)
    /\ phase = "maintain" => derived \in {RowBag(OldRows), RowBag(NewRows)}
    /\ phase \in {"upsert", "delete", "record"} => derived = RowBag(NewRows)

(* A plan has what the change comes to, and deletes no document that has a row. *)
PlanInv ==
    phase \in {"upsert", "delete"} =>
        /\ Range(plan.upserts) \subseteq Range(NewRows)
        /\ \A r \in Range(NewRows) : OutputIdentity(r) \notin plan.deletes
        /\ \A r \in (Range(OldRows) \ Range(NewRows)) \cup (Range(NewRows) \ Range(OldRows)) :
              OutputIdentity(r) \in Planned

(* A retry meets documents of before and after the change side by side. *)
TargetInv ==
    \A id : id \notin undelivered =>
        /\ phase \in {"idle", "persist"} => Shows(transform, target, id, OldRows)
        /\ phase \in {"maintain", "upsert", "delete"} =>
              Shows(transform, target, id, OldRows) \/ Shows(transform, target, id, NewRows)
        /\ phase = "delete" /\ id \in IdentitiesOf(plan.upserts) =>
              Shows(transform, target, id, NewRows)
        /\ phase = "record" => Shows(transform, target, id, NewRows)

IInv == TypeInv /\ (trusted => DerivedInv /\ PlanInv /\ TargetInv)

LEMMA UpsertShows ==
    ASSUME transform \in Transforms, NEW docs, AreDocuments(transform, docs),
           NEW rows \in Seq(Outputs(transform)), TellApart(transform, rows), NEW id
    PROVE  /\ \A all : Range(rows) \subseteq Range(all) /\ id \in IdentitiesOf(rows) =>
                Shows(transform, Upserted(docs, rows), id, all)
           /\ \A all : id \notin IdentitiesOf(rows) =>
                (Shows(transform, Upserted(docs, rows), id, all) <=> Shows(transform, docs, id, all))
<1> PICK up : up = Upserted(docs, rows)
  OBVIOUS
<1>1. /\ DOMAIN up = DOMAIN docs \cup IdentitiesOf(rows)
      /\ \A r \in Range(rows) : up[OutputIdentity(r)] = r
      /\ \A k \in DOMAIN docs \ IdentitiesOf(rows) : up[k] = docs[k]
  BY UpsertedIs
<1>2. ASSUME NEW all, Range(rows) \subseteq Range(all), id \in IdentitiesOf(rows)
      PROVE  Shows(transform, up, id, all)
  BY <1>1, <1>2 DEF Shows, IdentitiesOf
<1>3. ASSUME NEW all, id \notin IdentitiesOf(rows)
      PROVE  Shows(transform, up, id, all) <=> Shows(transform, docs, id, all)
  <2>1. CASE id \in DOMAIN docs
    BY <1>1, <1>3, <2>1 DEF Shows
  <2>2. CASE id \notin DOMAIN docs
    BY <1>1, <1>3, <2>2 DEF Shows
  <2> QED BY <2>1, <2>2
<1> QED BY <1>2, <1>3

LEMMA DeleteShows ==
    ASSUME NEW t, NEW docs, NEW ids, NEW id
    PROVE  /\ \A all : id \in ids /\ (\A r \in Range(all) : IdentityOf(t, r) # id) =>
                Shows(t, Deleted(docs, ids), id, all)
           /\ \A all : id \notin ids =>
                (Shows(t, Deleted(docs, ids), id, all) <=> Shows(t, docs, id, all))
<1> PICK left : left = Deleted(docs, ids)
  OBVIOUS
<1>1. DOMAIN left = DOMAIN docs \ ids /\ \A k \in DOMAIN docs \ ids : left[k] = docs[k]
  BY DEF Deleted
<1>2. ASSUME NEW all, id \notin ids
      PROVE  Shows(t, left, id, all) <=> Shows(t, docs, id, all)
  <2>1. CASE id \in DOMAIN docs
    BY <1>1, <1>2, <2>1 DEF Shows
  <2>2. CASE id \notin DOMAIN docs
    BY <1>1, <1>2, <2>2 DEF Shows
  <2> QED BY <2>1, <2>2
<1> QED BY <1>1, <1>2 DEF Shows

LEMMA PartlyShows ==
    ASSUME NEW t, NEW before, NEW after, NEW reached, NEW id
    PROVE  \/ \A all : Shows(t, Partly(before, after, reached), id, all) <=> Shows(t, after, id, all)
           \/ \A all : Shows(t, Partly(before, after, reached), id, all) <=> Shows(t, before, id, all)
<1> PICK now : now = Partly(before, after, reached)
  OBVIOUS
<1>1. /\ DOMAIN now = (DOMAIN before \ reached) \cup (DOMAIN after \cap reached)
      /\ \A k \in DOMAIN now : now[k] = IF k \in reached THEN after[k] ELSE before[k]
  BY DEF Partly
<1>2. CASE id \in reached
  <2>1. id \in DOMAIN now <=> id \in DOMAIN after
    BY <1>1, <1>2
  <2>2. id \in DOMAIN now => now[id] = after[id]
    BY <1>1, <1>2
  <2> QED BY <2>1, <2>2 DEF Shows
<1>3. CASE id \notin reached
  <2>1. id \in DOMAIN now <=> id \in DOMAIN before
    BY <1>1, <1>3
  <2>2. id \in DOMAIN now => now[id] = before[id]
    BY <1>1, <1>3
  <2> QED BY <2>1, <2>2 DEF Shows
<1> QED BY <1>2, <1>3

(* What a change does not touch shows the same before and after it. *)
LEMMA UntouchedShows ==
    ASSUME NEW t, NEW docs, AreDocuments(t, docs), NEW old, NEW new, NEW touched, NEW id,
           \A r \in (Range(old) \ Range(new)) \cup (Range(new) \ Range(old)) :
              IdentityOf(t, r) \in touched,
           id \notin touched, Shows(t, docs, id, old)
    PROVE  Shows(t, docs, id, new)
<1>1. CASE id \in DOMAIN docs
  <2>1. docs[id] \in Range(old) /\ IdentityOf(t, docs[id]) = id
    BY <1>1 DEF Shows, AreDocuments
  <2> QED BY <1>1, <2>1 DEF Shows
<1>2. CASE id \notin DOMAIN docs
  BY <1>2 DEF Shows
<1> QED BY <1>1, <1>2

(* A full Delivery shows the rows. *)
LEMMA FullDeliveryShows ==
    ASSUME transform \in Transforms, NEW docs, AreDocuments(transform, docs),
           NEW rows \in Seq(Outputs(transform)), TellApart(transform, rows),
           DOMAIN docs \subseteq IdentitiesOf(rows), NEW id
    PROVE  Shows(transform, Upserted(docs, rows), id, rows)
<1>1. CASE id \in IdentitiesOf(rows)
  BY <1>1, UpsertShows
<1>2. CASE id \notin IdentitiesOf(rows)
  <2>1. Shows(transform, docs, id, rows)
    BY <1>2 DEF Shows, IdentitiesOf, OutputIdentity
  <2> QED BY <1>2, <2>1, UpsertShows
<1> QED BY <1>1, <1>2

-----------------------------------------------------------------------------
(* The steps. *)
LEMMA RowsStay ==
    ASSUME UNCHANGED <<transform, base, change>>
    PROVE  OldRows' = OldRows /\ NewRows' = NewRows
  BY DEF OldRows, NewRows, Evaluation, InMemory

(* What stands before an attempt, in any phase of one. *)
LEMMA OldOrNewShows ==
    ASSUME TargetInv, phase \in Doing, NEW id, id \notin undelivered
    PROVE  Shows(transform, target, id, OldRows) \/ Shows(transform, target, id, NewRows)
  BY DEF TargetInv, Doing

LEMMA InitHolds == ASSUME Init PROVE IInv
<1>1. TypeInv
  BY InitType
<1>2. transform \in Transforms /\ base \in Bases
  BY <1>1 DEF TypeInv, TypeOK
<1>3. PICK rows : rows = Evaluation(base)
  OBVIOUS
<1>4. rows \in Seq(Outputs(transform)) /\ TellApart(transform, rows)
  BY <1>2, <1>3, EvaluationIs DEF Evaluation
<1>5. target = Upserted(NoRow, rows)
  BY <1>3 DEF Init
<1>6. \A id : Shows(transform, target, id, rows)
  <2>1. DOMAIN NoRow = {}
    BY DEF NoRow
  <2> QED BY <2>1, <1>2, <1>4, <1>5, FullDeliveryShows, NoRowAreDocuments
<1>7. DerivedInv /\ PlanInv /\ TargetInv
  BY <1>3, <1>6 DEF Init, DerivedInv, PlanInv, TargetInv, OldRows
<1> QED BY <1>1, <1>7 DEF IInv

LEMMA NextChangeHolds ==
    ASSUME DerivedInv, TargetInv, NextChange
    PROVE  DerivedInv' /\ PlanInv' /\ TargetInv'
<1>1. phase = "idle" /\ phase' = "maintain"
      /\ UNCHANGED <<transform, base, derived, target, undelivered>>
  BY DEF NextChange, store
<1>2. OldRows' = OldRows
  BY <1>1 DEF OldRows, Evaluation
<1> QED BY <1>1, <1>2 DEF DerivedInv, PlanInv, TargetInv

(* The Derived rows after an attempt are those after the change, whether it  *)
(* is the first or an earlier one has stored them.                           *)
LEMMA DerivedAfterIs ==
    ASSUME NEW old, NEW new, NEW rows, NEW ids,
           derived \in {[r \in Range(old) |-> 1], [r \in Range(new) |-> 1]},
           RowBag(rows) = [r \in Range(rows) |-> 1],
           Range(rows) = {r \in Range(new) : StandFor(ids, r)},
           \A r \in (Range(old) \ Range(new)) \cup (Range(new) \ Range(old)) : StandFor(ids, r)
    PROVE  DerivedAfter(ids, rows) = [r \in Range(new) |-> 1]
<1>1. PICK kept : kept = Drop(derived, Replaced(ids))
  OBVIOUS
<1>2. kept = [r \in {q \in DOMAIN derived : ~StandFor(ids, q)} |-> 1]
  BY <1>1 DEF Drop, Replaced
<1>3. {q \in DOMAIN derived : ~StandFor(ids, q)} = {q \in Range(new) : ~StandFor(ids, q)}
  OBVIOUS
<1>4. PICK more : more = [r \in Range(rows) |-> 1]
  OBVIOUS
<1>5. DerivedAfter(ids, rows) = kept (+) more
  BY <1>1, <1>4 DEF DerivedAfter
<1>6. DOMAIN kept \cup DOMAIN more = Range(new)
  BY <1>2, <1>3, <1>4
<1>7. ASSUME NEW r \in Range(new)
      PROVE  (IF r \in DOMAIN kept THEN kept[r] ELSE 0) + (IF r \in DOMAIN more THEN more[r] ELSE 0) = 1
  <2>1. CASE StandFor(ids, r)
    BY <2>1, <1>2, <1>3, <1>4
  <2>2. CASE ~StandFor(ids, r)
    BY <2>2, <1>2, <1>3, <1>4
  <2> QED BY <2>1, <2>2
<1>8. kept (+) more = [r \in Range(new) |-> 1]
  BY <1>6, <1>7 DEF (+)
<1> QED BY <1>5, <1>8

(* A change that cannot be analyzed changes nothing. *)
LEMMA UnanalyzedHolds ==
    ASSUME TypeInv, trusted, DerivedInv, TargetInv, AnalysisCoversChange, Maintain,
           Analysis.outcome = AnalysisFailed
    PROVE  DerivedInv' /\ PlanInv' /\ TargetInv'
<1>1. /\ phase = "maintain" /\ Fails({})
      /\ UNCHANGED <<transform, base, target, change, derived>>
  BY MaintainIs DEF Maintain
<1>2. /\ phase' \in {"maintain", "record"}
      /\ phase' = "maintain" => undelivered' = undelivered
      /\ phase' = "record" => undelivered' = undelivered \cup {}
  BY <1>1, FailsIs
<1>3. undelivered' = undelivered
  BY <1>2
<1>4. InMemory = base
  BY <1>1 DEF AnalysisCoversChange, CoversOn
<1>5. OldRows = NewRows
  BY <1>4 DEF OldRows, NewRows
<1>6. OldRows' = OldRows /\ NewRows' = NewRows
  BY <1>1, RowsStay
<1>7. derived = RowBag(OldRows)
  BY <1>1, <1>5 DEF DerivedInv
<1>8. DerivedInv'
  BY <1>1, <1>2, <1>5, <1>6, <1>7 DEF DerivedInv
<1>9. \A id : id \notin undelivered => Shows(transform, target, id, NewRows)
  BY <1>1, <1>5 DEF TargetInv
<1>10. TargetInv'
  BY <1>1, <1>2, <1>3, <1>6, <1>9 DEF TargetInv
<1> QED BY <1>2, <1>8, <1>10 DEF PlanInv

LEMMA MaintainHolds ==
    ASSUME TypeInv, trusted, DerivedInv, TargetInv,
           RecomputationIsExact, AnalysisCoversChange, Maintain,
           Analysis.outcome # AnalysisFailed
    PROVE  DerivedInv' /\ PlanInv' /\ TargetInv'
<1>1. PICK ids : ids = AffectedBy(Analysis.outcome)
  OBVIOUS
<1>2. PICK rows : rows = Recomputed(ids)
  OBVIOUS
<1>3. PICK gone : gone = Gone(ids, rows)
  OBVIOUS
<1>4. phase = "maintain" /\ UNCHANGED <<transform, base, target, change>>
  BY DEF Maintain
<1>covers. Analysis.outcome # AnalysisFailed /\ CoveredBy(ids, rows)
  BY <1>1, <1>2, <1>4 DEF AnalysisCoversChange, CoversOn
<1>5. /\ Analysis.outcome # AnalysisFailed
      /\ \A r \in (Range(OldRows) \ Range(NewRows)) \cup (Range(NewRows) \ Range(OldRows)) :
            StandFor(ids, r)
      /\ \A id \in gone : Identified(id)
      /\ {OutputIdentity(id) : id \in gone} \cap {OutputIdentity(r) : r \in Range(NewRows)} = {}
      /\ \A r \in Range(OldRows) : StandFor(ids, r) =>
            OutputIdentity(r) \in IdentitiesOf(rows) \cup {OutputIdentity(id) : id \in gone}
  BY <1>3, <1>covers DEF CoveredBy, Covers, OldRows, NewRows
<1>6. /\ rows # Failed
      /\ Range(rows) = {r \in Range(NewRows) : StandFor(ids, r)}
      /\ rows \in Seq(Outputs(transform))
      /\ \A i, j \in DOMAIN rows : rows[i] = rows[j] => i = j
  BY <1>1, <1>2, <1>4, <1>5, RecomputedIs DEF NewRows
<1>7. transform \in Transforms /\ base \in Bases /\ InMemory \in Bases
  BY <1>4, InMemoryIs DEF TypeInv, TypeOK, Doing
<1>8. \A r \in Range(rows) \cup gone : Identified(r)
  <2>1. ASSUME NEW r \in Range(rows) PROVE Identified(r)
    <3>1. r \in Outputs(transform)
      BY <1>6, <1>7, EvaluationIs DEF NewRows, Evaluation
    <3> QED BY <3>1, <1>7, OutputIsRow DEF Identified
  <2> QED BY <2>1, <1>5
<1>9. /\ derived' = DerivedAfter(ids, rows)
      /\ plan' = [upserts |-> rows, deletes |-> {OutputIdentity(id) : id \in gone}]
      /\ phase' = "upsert" /\ undelivered' = undelivered
  BY <1>1, <1>2, <1>3, <1>5, <1>6, <1>8, MaintainIs
<1>10. OldRows' = OldRows /\ NewRows' = NewRows
  BY <1>4, RowsStay
<1>11. /\ RowBag(OldRows) = [r \in Range(OldRows) |-> 1]
       /\ RowBag(NewRows) = [r \in Range(NewRows) |-> 1]
  BY <1>7, EvaluationBag DEF OldRows, NewRows, Evaluation
<1>12. DerivedInv'
  <2>1. RowBag(rows) = [r \in Range(rows) |-> 1]
    BY <1>6, RowBagIs
  <2>2. derived \in {[r \in Range(OldRows) |-> 1], [r \in Range(NewRows) |-> 1]}
    BY <1>4, <1>11 DEF DerivedInv
  <2>3. DerivedAfter(ids, rows) = [r \in Range(NewRows) |-> 1]
    <3>1. PICK old, new : old = OldRows /\ new = NewRows
      OBVIOUS
    <3>2. /\ derived \in {[r \in Range(old) |-> 1], [r \in Range(new) |-> 1]}
          /\ Range(rows) = {r \in Range(new) : StandFor(ids, r)}
          /\ \A r \in (Range(old) \ Range(new)) \cup (Range(new) \ Range(old)) : StandFor(ids, r)
      BY <3>1, <2>2, <1>5, <1>6
    <3>3. DerivedAfter(ids, rows) = [r \in Range(new) |-> 1]
      BY ONLY <3>2, <2>1, DerivedAfterIs
    <3> QED BY <3>1, <3>3
  <2>4. derived' = RowBag(NewRows')
    BY <1>9, <1>10, <1>11, <2>3
  <2> QED BY <1>9, <2>4 DEF DerivedInv
<1>13. PlanInv'
  <2>1. plan'.upserts = rows /\ plan'.deletes = {OutputIdentity(id) : id \in gone}
    BY <1>9
  <2>2. \A r : OutputIdentity(r)' = OutputIdentity(r)
    BY <1>4 DEF OutputIdentity
  <2>3. Planned' = IdentitiesOf(rows) \cup {OutputIdentity(id) : id \in gone}
    BY <2>1, <2>2 DEF Planned, IdentitiesOf
  <2>4. ASSUME NEW r \in (Range(OldRows) \ Range(NewRows)) \cup (Range(NewRows) \ Range(OldRows))
        PROVE  OutputIdentity(r) \in Planned'
    <3>1. StandFor(ids, r)
      BY <1>5
    <3>2. CASE r \in Range(OldRows)
      BY <3>1, <3>2, <1>5, <2>3
    <3>3. CASE r \in Range(NewRows)
      BY <3>1, <3>3, <1>6, <2>3 DEF IdentitiesOf
    <3> QED BY <3>2, <3>3
  <2>5. \A r \in Range(NewRows) : OutputIdentity(r) \notin plan'.deletes
    BY <1>5, <2>1
  <2>6. Range(plan'.upserts) \subseteq Range(NewRows)
    BY <1>6, <2>1
  <2> QED BY <1>10, <2>2, <2>4, <2>5, <2>6 DEF PlanInv
<1>14. TargetInv'
  BY <1>4, <1>9, <1>10 DEF TargetInv
<1> QED BY <1>12, <1>13, <1>14

LEMMA UpsertHolds ==
    ASSUME TypeInv, DerivedInv, PlanInv, TargetInv, Upsert
    PROVE  DerivedInv' /\ PlanInv' /\ TargetInv'
<1>1. /\ phase = "upsert" /\ phase' = "delete" /\ target' = Upserted(target, plan.upserts)
      /\ undelivered' = undelivered \ IdentitiesOf(plan.upserts)
      /\ UNCHANGED <<transform, base, derived, change, plan>>
  BY DEF Upsert, store
<1>2. OldRows' = OldRows /\ NewRows' = NewRows
  BY <1>1, RowsStay
<1>3. /\ transform \in Transforms /\ AreDocuments(transform, target)
      /\ plan.upserts \in Seq(Outputs(transform)) /\ TellApart(transform, plan.upserts)
  BY DEF TypeInv, TypeOK
<1>4. \A r : OutputIdentity(r)' = OutputIdentity(r)
  BY <1>1 DEF OutputIdentity
<1>5. IdentitiesOf(plan.upserts)' = IdentitiesOf(plan.upserts) /\ Planned' = Planned
  BY <1>1, <1>4 DEF IdentitiesOf, Planned
<1>6. PlanInv'
  BY <1>1, <1>2, <1>4, <1>5 DEF PlanInv
<1>7. ASSUME NEW id, id \notin undelivered'
      PROVE  /\ Shows(transform, target', id, OldRows) \/ Shows(transform, target', id, NewRows)
             /\ id \in IdentitiesOf(plan.upserts) => Shows(transform, target', id, NewRows)
  <2>1. CASE id \in IdentitiesOf(plan.upserts)
    <3>1. Range(plan.upserts) \subseteq Range(NewRows)
      BY <1>1 DEF PlanInv
    <3> QED BY <3>1, <2>1, <1>1, <1>3, UpsertShows
  <2>2. CASE id \notin IdentitiesOf(plan.upserts)
    <3>1. Shows(transform, target, id, OldRows) \/ Shows(transform, target, id, NewRows)
      BY <1>1, <1>7, <2>2, OldOrNewShows DEF Doing
    <3> QED BY <3>1, <2>2, <1>1, <1>3, UpsertShows
  <2> QED BY <2>1, <2>2
<1>8. TargetInv'
  BY <1>1, <1>2, <1>5, <1>7 DEF TargetInv
<1>9. DerivedInv'
  BY <1>1, <1>2 DEF DerivedInv
<1> QED BY <1>6, <1>8, <1>9

(* Outside its plan a change is no change. *)
LEMMA UnplannedShows ==
    ASSUME TypeInv, PlanInv, TargetInv, phase \in {"upsert", "delete"},
           NEW id, id \notin undelivered, id \notin Planned
    PROVE  Shows(transform, target, id, NewRows)
<1>1. AreDocuments(transform, target)
  BY DEF TypeInv
<1>2. \A r \in (Range(OldRows) \ Range(NewRows)) \cup (Range(NewRows) \ Range(OldRows)) :
        IdentityOf(transform, r) \in Planned
  BY DEF PlanInv, OutputIdentity
<1>3. Shows(transform, target, id, OldRows) \/ Shows(transform, target, id, NewRows)
  BY OldOrNewShows DEF Doing
<1> QED BY <1>1, <1>2, <1>3, UntouchedShows

LEMMA DeleteHolds ==
    ASSUME TypeInv, DerivedInv, PlanInv, TargetInv, Delete
    PROVE  DerivedInv' /\ PlanInv' /\ TargetInv'
<1>1. /\ phase = "delete" /\ phase' = "record" /\ target' = Deleted(target, plan.deletes)
      /\ undelivered' = undelivered \ plan.deletes
      /\ UNCHANGED <<transform, base, derived, change>>
  BY DEF Delete, store
<1>2. OldRows' = OldRows /\ NewRows' = NewRows
  BY <1>1, RowsStay
<1>3. ASSUME NEW id, id \notin undelivered'
      PROVE  Shows(transform, target', id, NewRows)
  <2>1. CASE id \in plan.deletes
    <3>1. \A r \in Range(NewRows) : IdentityOf(transform, r) # id
      BY <1>1, <2>1 DEF PlanInv, OutputIdentity
    <3> QED BY <3>1, <2>1, <1>1, DeleteShows
  <2>2. CASE id \notin plan.deletes
    <3>1. id \notin undelivered
      BY <1>1, <1>3, <2>2
    <3>2. CASE id \in IdentitiesOf(plan.upserts)
      <4>1. Shows(transform, target, id, NewRows)
        BY <3>1, <3>2, <1>1 DEF TargetInv
      <4> QED BY <4>1, <2>2, <1>1, DeleteShows
    <3>3. CASE id \notin IdentitiesOf(plan.upserts)
      <4>1. Shows(transform, target, id, NewRows)
        BY <3>1, <3>3, <2>2, <1>1, UnplannedShows DEF Planned
      <4> QED BY <4>1, <2>2, <1>1, DeleteShows
    <3> QED BY <3>2, <3>3
  <2> QED BY <2>1, <2>2
<1>4. TargetInv'
  BY <1>1, <1>2, <1>3 DEF TargetInv
<1>5. DerivedInv' /\ PlanInv'
  BY <1>1, <1>2 DEF DerivedInv, PlanInv
<1> QED BY <1>4, <1>5

LEMMA WriteFailsHolds ==
    ASSUME TypeInv, DerivedInv, PlanInv, TargetInv, WriteFails
    PROVE  DerivedInv' /\ PlanInv' /\ TargetInv'
<1>1. /\ phase \in {"upsert", "delete"} /\ Fails(Planned)
      /\ UNCHANGED <<transform, base, derived, change>>
  BY DEF WriteFails, store
<1>2. OldRows' = OldRows /\ NewRows' = NewRows
  BY <1>1, RowsStay
<1>3. /\ phase' \in {"maintain", "record"}
      /\ phase' = "maintain" => undelivered' = undelivered
      /\ phase' = "record" => undelivered' = undelivered \cup Planned
  BY <1>1, FailsIs
<1>4. PICK reached \in SUBSET Planned :
        target' = Partly(target, IF phase = "upsert" THEN Upserted(target, plan.upserts)
                                 ELSE Deleted(target, plan.deletes), reached)
  BY DEF WriteFails
<1>5. PICK after : after = IF phase = "upsert" THEN Upserted(target, plan.upserts)
                           ELSE Deleted(target, plan.deletes)
  OBVIOUS
<1>6. /\ transform \in Transforms /\ AreDocuments(transform, target)
      /\ plan.upserts \in Seq(Outputs(transform)) /\ TellApart(transform, plan.upserts)
  BY DEF TypeInv, TypeOK
<1>7. ASSUME NEW id, id \notin undelivered
      PROVE  /\ Shows(transform, target', id, OldRows) \/ Shows(transform, target', id, NewRows)
             /\ id \notin Planned => Shows(transform, target', id, NewRows)
  <2>1. Shows(transform, target, id, OldRows) \/ Shows(transform, target, id, NewRows)
    BY <1>1, <1>7, OldOrNewShows DEF Doing
  <2>2. id \notin Planned => Shows(transform, target, id, NewRows)
    BY <1>1, <1>7, UnplannedShows
  <2>3. Shows(transform, after, id, OldRows) \/ Shows(transform, after, id, NewRows)
    <3>1. CASE phase = "upsert" /\ id \in IdentitiesOf(plan.upserts)
      BY <3>1, <1>5, <1>6, UpsertShows DEF PlanInv
    <3>2. CASE phase = "upsert" /\ id \notin IdentitiesOf(plan.upserts)
      BY <3>2, <2>1, <1>5, <1>6, UpsertShows
    <3>3. CASE phase = "delete" /\ id \in plan.deletes
      <4>1. \A r \in Range(NewRows) : IdentityOf(transform, r) # id
        BY <3>3 DEF PlanInv, OutputIdentity
      <4> QED BY <4>1, <3>3, <1>5, DeleteShows
    <3>4. CASE phase = "delete" /\ id \notin plan.deletes
      BY <3>4, <2>1, <1>5, DeleteShows
    <3> QED BY <1>1, <3>1, <3>2, <3>3, <3>4
  <2>4. id \notin Planned => Shows(transform, after, id, NewRows)
    <3> SUFFICES ASSUME id \notin Planned PROVE Shows(transform, after, id, NewRows)
      OBVIOUS
    <3>1. id \notin IdentitiesOf(plan.upserts) /\ id \notin plan.deletes
      BY DEF Planned
    <3>2. CASE phase = "upsert"
      BY <3>1, <3>2, <2>2, <1>5, <1>6, UpsertShows
    <3>3. CASE phase = "delete"
      BY <3>1, <3>3, <2>2, <1>5, DeleteShows
    <3> QED BY <1>1, <3>2, <3>3
  <2>5. \/ \A all : Shows(transform, target', id, all) <=> Shows(transform, after, id, all)
        \/ \A all : Shows(transform, target', id, all) <=> Shows(transform, target, id, all)
    BY <1>4, <1>5, PartlyShows
  <2> QED BY <2>1, <2>2, <2>3, <2>4, <2>5
<1>8. TargetInv'
  <2>1. CASE phase' = "maintain"
    BY <2>1, <1>1, <1>2, <1>3, <1>7 DEF TargetInv
  <2>2. CASE phase' = "record"
    BY <2>2, <1>1, <1>2, <1>3, <1>7 DEF TargetInv
  <2> QED BY <1>3, <2>1, <2>2
<1>9. DerivedInv' /\ PlanInv'
  BY <1>1, <1>2, <1>3 DEF DerivedInv, PlanInv
<1> QED BY <1>8, <1>9

LEMMA RecordHolds ==
    ASSUME DerivedInv, TargetInv, Record
    PROVE  DerivedInv' /\ PlanInv' /\ TargetInv'
<1>1. /\ phase = "record" /\ phase' = "persist" /\ base' = InMemory
      /\ UNCHANGED <<transform, derived, target, undelivered>>
  BY DEF Record
<1>2. OldRows' = NewRows
  BY <1>1 DEF OldRows, NewRows, Evaluation
<1> QED BY <1>1, <1>2 DEF DerivedInv, PlanInv, TargetInv

LEMMA PersistHolds ==
    ASSUME DerivedInv, TargetInv, Persist
    PROVE  DerivedInv' /\ PlanInv' /\ TargetInv'
<1>1. /\ phase = "persist" /\ phase' = "idle"
      /\ UNCHANGED <<transform, base, derived, target, undelivered>>
  BY DEF Persist
<1>2. OldRows' = OldRows
  BY <1>1 DEF OldRows, Evaluation
<1> QED BY <1>1, <1>2 DEF DerivedInv, PlanInv, TargetInv

LEMMA CrashHolds ==
    ASSUME TypeInv, DerivedInv, TargetInv, Crash
    PROVE  DerivedInv' /\ PlanInv' /\ TargetInv'
<1>1. phase # "idle" /\ UNCHANGED <<transform, base, derived, target, undelivered>>
  BY DEF Crash, store
<1>2. OldRows' = OldRows
  BY <1>1 DEF OldRows, Evaluation
<1>3. CASE phase = "persist"
  <2>1. phase' = "idle"
    BY <1>3 DEF Crash
  <2> QED BY <1>1, <1>2, <1>3, <2>1 DEF DerivedInv, PlanInv, TargetInv
<1>4. CASE phase # "persist"
  <2>1. phase' = "maintain" /\ change' = change /\ phase \in Doing
    BY <1>1, <1>4 DEF Crash, TypeInv, TypeOK, Doing
  <2>2. NewRows' = NewRows
    BY <1>1, <2>1, RowsStay
  <2>3. DerivedInv'
    BY <1>1, <1>2, <2>1, <2>2 DEF DerivedInv, Doing
  <2>4. TargetInv'
    BY <1>1, <1>2, <2>1, <2>2, OldOrNewShows DEF TargetInv
  <2> QED BY <2>1, <2>3, <2>4 DEF PlanInv
<1> QED BY <1>3, <1>4

LEMMA RedeliverHolds ==
    ASSUME TypeInv, Redeliver
    PROVE  DerivedInv' /\ PlanInv' /\ TargetInv'
<1>1. PICK rows : rows = Evaluation(base)
  OBVIOUS
<1>2. PICK kept : kept = Deleted(target, DOMAIN target \ IdentitiesOf(rows))
  OBVIOUS
<1>3. /\ phase = "idle" /\ phase' = "idle" /\ transform' = transform /\ base' = base
      /\ derived' = RowBag(rows) /\ target' = Upserted(kept, rows)
  BY <1>1, <1>2 DEF Redeliver, Reconcile, DeliverAll
<1>4. transform \in Transforms /\ base \in Bases /\ AreDocuments(transform, target)
  BY DEF TypeInv, TypeOK
<1>5. rows \in Seq(Outputs(transform)) /\ TellApart(transform, rows)
  BY <1>1, <1>4, EvaluationIs DEF Evaluation
<1>6. AreDocuments(transform, kept)
  BY <1>2, <1>4, DeletedAreDocuments
<1>7. DOMAIN kept \subseteq IdentitiesOf(rows)
  BY <1>2 DEF Deleted
<1>8. \A id : Shows(transform, target', id, rows)
  BY <1>3, <1>4, <1>5, <1>6, <1>7, FullDeliveryShows
<1>9. OldRows' = rows
  BY <1>1, <1>3 DEF OldRows, Evaluation
<1> QED BY <1>3, <1>8, <1>9 DEF DerivedInv, PlanInv, TargetInv

LEMMA StepHolds ==
    ASSUME IInv, RecomputationIsExact, AnalysisCoversChange, [Next]_vars
    PROVE  IInv'
<1>1. TypeInv'
  BY TypeStep DEF IInv
<1>2. TypeInv /\ (trusted => DerivedInv /\ PlanInv /\ TargetInv)
  BY DEF IInv
<1>3. CASE Redeliver
  BY <1>1, <1>2, <1>3, RedeliverHolds DEF IInv
<1>4. CASE ~Redeliver
  <2> SUFFICES ASSUME trusted' PROVE DerivedInv' /\ PlanInv' /\ TargetInv'
    BY <1>1 DEF IInv
  <2>1. trusted
    BY <1>4 DEF Next, NextChange, Maintain, Upsert, Delete, WriteFails, Record, Persist, Crash, vars
  <2>2. DerivedInv /\ PlanInv /\ TargetInv
    BY <1>2, <2>1
  <2>3. CASE UNCHANGED vars
    <3>1. OldRows' = OldRows /\ NewRows' = NewRows
      BY <2>3, RowsStay DEF vars, store
    <3>2. UNCHANGED <<transform, target, derived, phase, plan, undelivered>>
      BY <2>3 DEF vars, store
    <3>3. \A r : OutputIdentity(r)' = OutputIdentity(r)
      BY <3>2 DEF OutputIdentity
    <3>4. IdentitiesOf(plan.upserts)' = IdentitiesOf(plan.upserts) /\ Planned' = Planned
      BY <3>2, <3>3 DEF IdentitiesOf, Planned
    <3>5. DerivedInv' /\ TargetInv'
      BY <2>2, <3>1, <3>2, <3>4 DEF DerivedInv, TargetInv
    <3>6. PlanInv'
      BY <2>2, <3>1, <3>2, <3>3, <3>4 DEF PlanInv
    <3> QED BY <3>5, <3>6
  <2> QED BY <1>2, <1>4, <2>1, <2>2, <2>3, NextChangeHolds, UnanalyzedHolds, MaintainHolds,
            UpsertHolds, DeleteHolds, WriteFailsHolds, RecordHolds, PersistHolds, CrashHolds DEF Next
<1> QED BY <1>3, <1>4

LEMMA InvariantHolds ==
    Spec /\ []AffectIsExact => []IInv
<1>1. Init => IInv
  BY InitHolds
<1>2. IInv /\ AffectIsExact /\ [Next]_vars => IInv'
  BY StepHolds DEF AffectIsExact
<1> QED BY <1>1, <1>2, PTL DEF Spec

-----------------------------------------------------------------------------
(* Between changes the Derived Dataset is what the Transform yields of the   *)
(* Bases, whatever failed, died or was retried, if Affect Analysis finds     *)
(* what a change does and recomputations are exact.                          *)
THEOREM DerivedFollowsBaseHolds ==
    Spec /\ []AffectIsExact => []DerivedFollowsBase
<1>1. IInv => DerivedFollowsBase
  BY DEF IInv, DerivedInv, DerivedFollowsBase, OldRows
<1> QED BY <1>1, InvariantHolds, PTL

(* And so are the documents, except those that a quarantine left behind.     *)
THEOREM TargetFollowsBaseHolds ==
    Spec /\ []AffectIsExact => []TargetFollowsBase
<1>1. ASSUME IInv PROVE TargetFollowsBase
  <2> SUFFICES ASSUME phase = "idle", trusted
               PROVE  AgreesWith(Upserted(NoRow, Evaluation(base)))
    BY DEF TargetFollowsBase
  <2>1. TypeInv /\ TargetInv
    BY <1>1 DEF IInv
  <2>2. transform \in Transforms /\ base \in Bases /\ AreDocuments(transform, target)
    BY <2>1 DEF TypeInv, TypeOK
  <2>3. PICK rows : rows = Evaluation(base)
    OBVIOUS
  <2>4. rows \in Seq(Outputs(transform)) /\ TellApart(transform, rows)
    BY <2>2, <2>3, EvaluationIs DEF Evaluation
  <2>5. PICK docs : docs = Upserted(NoRow, rows)
    OBVIOUS
  <2>6. DOMAIN docs = IdentitiesOf(rows) /\ \A r \in Range(rows) : docs[OutputIdentity(r)] = r
    <3>1. DOMAIN NoRow = {}
      BY DEF NoRow
    <3> QED BY <3>1, <2>2, <2>4, <2>5, UpsertedIs, NoRowAreDocuments
  <2>7. ASSUME NEW id \in (DOMAIN target \cup DOMAIN docs) \ undelivered
        PROVE  id \in DOMAIN target \cap DOMAIN docs /\ target[id] = docs[id]
    <3>1. Shows(transform, target, id, rows)
      BY <2>1, <2>3, <2>7 DEF TargetInv, OldRows
    <3>2. id \in DOMAIN target
      BY <3>1, <2>6, <2>7 DEF Shows, IdentitiesOf, OutputIdentity
    <3>3. target[id] \in Range(rows) /\ OutputIdentity(target[id]) = id
      BY <3>1, <3>2, <2>2 DEF Shows, AreDocuments, OutputIdentity
    <3> QED BY <3>2, <3>3, <2>6 DEF IdentitiesOf
  <2> QED BY <2>3, <2>5, <2>7 DEF AgreesWith
<1> QED BY <1>1, InvariantHolds, PTL

(* At no step of a change, an interrupted one included, does the Target show *)
(* a document that is a row neither before the change nor after it.          *)
THEOREM DocumentsOldOrNewHolds ==
    Spec /\ []AffectIsExact => []DocumentsOldOrNew
<1>1. ASSUME IInv PROVE DocumentsOldOrNew
  <2> SUFFICES ASSUME trusted, NEW id \in DOMAIN target \ undelivered
               PROVE  target[id] \in Range(OldRows) \cup
                                     IF phase = "idle" THEN {} ELSE Range(NewRows)
    BY DEF DocumentsOldOrNew, OldRows, NewRows
  <2>1. TypeInv /\ TargetInv
    BY <1>1 DEF IInv
  <2>2. CASE phase \in {"idle", "persist"}
    BY <2>1, <2>2 DEF TargetInv, Shows
  <2>3. CASE phase \in Doing
    BY <2>1, <2>3, OldOrNewShows DEF Shows, Doing
  <2> QED BY <2>1, <2>2, <2>3 DEF TypeInv, TypeOK, Doing
<1> QED BY <1>1, InvariantHolds, PTL
=============================================================================
