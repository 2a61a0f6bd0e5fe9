------------------------ MODULE IncrementalSyncProofs ------------------------
(***************************************************************************)
(* Invariance and refinement proofs for IncrementalSync, for every number  *)
(* of keys, Pipelines, changes, windows, attempts and crashes. The ones    *)
(* that depend on the order of changes assume a Source whose transactions  *)
(* commit in the order of their changes: sync_late_commit shows what       *)
(* happens when they do not.                                               *)
(***************************************************************************)
EXTENDS IncrementalSync, FiniteSetTheorems, SequenceTheorems, TLAPS

CommitsInOrder == OverlappingTransactions = FALSE

-----------------------------------------------------------------------------
(* The inductive invariant.                                                *)

LogOrdered ==
  /\ \A i, j \in DOMAIN log : i <= j => Scn(i) <= Scn(j)
  /\ \A i \in DOMAIN log : Scn(i) <= LastScn
  /\ LowWatermark <= LastScn

CommittedPrefix == \A i \in committed, j \in DOMAIN log : j <= i => j \in committed

(* Every row change below c has been applied, and later ones land above.   *)
GapFree(c) ==
  /\ c <= LastScn
  /\ \A j \in DOMAIN log : IsRow(j) /\ Scn(j) < c => j \in applied

AppliedInOrder ==
  \A i \in applied, j \in DOMAIN log : IsRow(i) /\ IsRow(j) /\ j < i => j \in applied

(* Row change j has to be applied before item i may be recorded.           *)
Owed(j, i) == IsRow(j) /\ IF IsRow(i) THEN j < i ELSE Scn(j) < Scn(i)

WindowComplete ==
  /\ window \cap applied = {}
  /\ \A i \in window, j \in DOMAIN log : Owed(j, i) => j \in applied \cup window

InjectedAreDdl == \A i \in injected : IsDdl(i)

RowsFollowBase ==
  /\ pc \in {"fetch", "drained", "item", "impact"} => rows = base
  /\ pc = "deliver" => \E i \in window : /\ IsNext(i)
                                         /\ log[i].kind \in {"upsert", "delete"}
                                         /\ rows = [base EXCEPT ![log[i].key] = Image(i)]
  /\ pc = "impact" => \E i \in window : IsNext(i) /\ IsDdl(i)

HandoffFromLog ==
  \A k \in Keys : handoff[k] = origin[k] \/ \E i \in committed : Touches(i, k)

OrderInv ==
  /\ LogOrdered
  /\ CommittedPrefix
  /\ GapFree(checkpoint) /\ GapFree(startCheckpoint) /\ GapFree(resumeFrom)
  /\ AppliedInOrder
  /\ WindowComplete
  /\ InjectedAreDdl

ReplayInv ==
  /\ RowsFollowBase
  /\ BaseIsReplay
  /\ HandoffFromLog

PauseInv ==
  /\ pc # "idle" => paused \subseteq skipped
  /\ pc = "deliver" => todo \cap skipped = {}

(* A Schema Change is recorded once all that it blocks is paused.          *)
ImpactInv ==
  /\ \A i \in applied : IsDdl(i) => log[i].blocks \subseteq paused
  /\ pc = "deliver" => \A i \in window : IsNext(i) => IsRow(i)
  /\ pc = "impact" => \A i \in window :
       IsNext(i) /\ IsDdl(i) => log[i].blocks \subseteq paused \cup todo

-----------------------------------------------------------------------------
(* Type correctness.                                                       *)

LEMMA InitTypeOK == Init => TypeOK
<1> SUFFICES ASSUME Init PROVE TypeOK
  OBVIOUS
<1> USE SourceAssumption, SyncAssumption
<1>1. log \in Seq(RowChange \cup SchemaChange)
  BY DEF Init, SourceInit, OverlapLogs, RowChange
<1>2. origin \in Versions /\ handoff \in Versions
  BY DEF Init, SourceInit, HandoffInit, Versions, Images
<1>3. checkpoint \in Nat
  BY DEF Init, HandoffCheckpoint
<1>4. rows \in Versions /\ target \in [Pipelines -> Versions]
  BY <1>2 DEF Init, NoCycle, Versions, Images
<1>5. attempts \in 0 .. MaxAttempts - 1 /\ crashes \in 0 .. MaxCrashes
  BY DEF Init, NoCycle
<1>6. /\ committed = DOMAIN log /\ quarantine = {} /\ base = handoff
      /\ applied = {} /\ paused = {}
  BY DEF Init, SourceInit
<1> QED
  BY <1>1, <1>2, <1>3, <1>4, <1>5, <1>6 DEF NoCycle, Init, TypeOK

(* What a step of the Source leaves well typed.                            *)
LEMMA SourceTypeOK ==
  ASSUME TypeOK, SourceStep
  PROVE  /\ origin' \in Versions /\ log' \in Seq(RowChange \cup SchemaChange)
         /\ committed' \subseteq DOMAIN log'
         /\ committed \subseteq committed'
<1> USE SourceAssumption DEF TypeOK
<1>0. LastScn \in Nat
  BY DEF LastScn, RowChange, SchemaChange
<1>1. CASE \E k \in Keys, kind \in Kinds : SourceDml(k, kind)
  <2>1. PICK k \in Keys, kind \in Kinds : SourceDml(k, kind)
    BY <1>1
  <2>2. PICK e \in RowChange : log' = Append(log, e)
    BY <1>0, <2>1 DEF SourceDml, RowChange
  <2> QED
    BY <2>1, <2>2 DEF SourceDml
<1>2. CASE \E i \in 1 .. MaxLog : SourceCommit(i)
  BY <1>2 DEF SourceCommit
<1>3. CASE \E blocks \in SUBSET Pipelines : SourceDdl(blocks)
  <2>1. PICK blocks \in SUBSET Pipelines : SourceDdl(blocks)
    BY <1>3
  <2>2. PICK e \in SchemaChange : log' = Append(log, e)
    BY <1>0, <2>1 DEF SourceDdl, SchemaChange
  <2> QED
    BY <2>1, <2>2 DEF SourceDdl
<1> QED
  BY <1>1, <1>2, <1>3 DEF SourceStep

LEMMA ItemStepTypeOK ==
  ASSUME TypeOK, NEW i \in window, ItemStep(i)
  PROVE  TypeOK'
<1> USE SourceAssumption, SyncAssumption DEF TypeOK
<1>0. /\ i \in committed /\ i \in Nat /\ Scn(i) \in Nat /\ Image(i) \in Images
      /\ IsRow(i) => log[i].key \in Keys
      /\ IsDdl(i) => log[i].blocks \subseteq Pipelines
  BY DEF Scn, Image, Images, IsRow, IsDdl, RowChange, SchemaChange, RowKinds
<1>1. CASE ApplyToRows(i)
  <2>1. IsRow(i)
    BY <1>1 DEF ApplyToRows, IsRow, RowKinds
  <2>2. rows' \in Versions
    BY <1>0, <1>1, <2>1 DEF ApplyToRows, Versions
  <2> QED
    BY <1>1, <2>2 DEF ApplyToRows, storeVars, sourceVars, windowVars
<1>2. CASE FailToApply(i)
  <2>1. rows' \in Versions
    BY <1>2 DEF FailToApply, EndCycle, Versions, Images
  <2>2. attempts' \in 0 .. MaxAttempts - 1
    BY <1>2 DEF FailToApply, EndCycle
  <2> QED
    BY <1>2, <2>1, <2>2 DEF FailToApply, EndCycle, sourceVars
<1>3. ASSUME NEW p \in Pipelines, Deliver(i, p) PROVE TypeOK'
  <2>1. target' \in [Pipelines -> Versions]
    BY <1>3 DEF Deliver, DeliverDocument, Versions
  <2>2. attempts' \in 0 .. MaxAttempts - 1
    BY <1>3 DEF Deliver, Visited
  <2> QED
    BY <1>3, <2>1, <2>2 DEF Deliver, Visited, storeVars, sourceVars, cycleVars, windowVars
<1>4. ASSUME NEW p \in Pipelines, DeliverFails(i, p) PROVE TypeOK'
  <2>1. target' \in [Pipelines -> Versions]
    BY <1>4 DEF DeliverFails, DeliverDocument, Versions
  <2>2. attempts' \in 0 .. MaxAttempts - 1 /\ todo' \subseteq Pipelines
    BY <1>4 DEF DeliverFails, RetryLeft, Visited
  <2>3. quarantine' \subseteq Pipelines \X committed
    BY <1>0, <1>4 DEF DeliverFails, Quarantine
  <2> QED
    BY <1>4, <2>1, <2>2, <2>3 DEF DeliverFails, sourceVars, cycleVars, windowVars
<1>5. CASE RecordRowProgress(i) \/ RecordDdlProgress(i)
  <2>1. /\ window' \subseteq committed /\ resumeFrom' \in Nat /\ drained' \in BOOLEAN
        /\ pc' \in {"fetch", "item"} /\ todo' = {} /\ attempts' = 0
    BY <1>0, <1>5 DEF RecordRowProgress, RecordDdlProgress, NextItem
  <2>2. base' \in Versions
    <3>1. CASE base' = rows
      BY <3>1
    <3>2. CASE base' = [base EXCEPT ![log[i].key] = rows[log[i].key]]
      BY <3>2 DEF Versions
    <3> QED
      BY <1>5, <3>1, <3>2 DEF RecordRowProgress, RecordDdlProgress
  <2>3. applied' \subseteq committed /\ checkpoint' \in Nat
    BY <1>0, <1>5 DEF RecordRowProgress, RecordDdlProgress
  <2>4. attempts' \in 0 .. MaxAttempts - 1 /\ pc' \in {"idle", "fetch", "drained", "item", "deliver", "impact"}
    BY <2>1
  <2>5. UNCHANGED <<origin, log, committed, handoff, paused, quarantine, target,
                   rows, skipped, startCheckpoint, injected, crashes>>
    BY <1>5 DEF RecordRowProgress, RecordDdlProgress, sourceVars, cycleVars
  <2> QED
    BY <2>1, <2>2, <2>3, <2>4, <2>5
<1>6. CASE ClassifyDdl(i)
  BY <1>0, <1>6 DEF ClassifyDdl, storeVars, sourceVars, cycleVars, windowVars
<1> QED
  BY <1>1, <1>2, <1>3, <1>4, <1>5, <1>6 DEF ItemStep

LEMMA NextTypeOK ==
  ASSUME TypeOK, [Next]_vars
  PROVE  TypeOK'
<1> USE SourceAssumption, SyncAssumption DEF TypeOK
<1>0. 0 \in 0 .. MaxAttempts - 1 /\ [k \in Keys |-> Absent] \in Versions
  BY DEF Versions, Images
<1>1. CASE SourceStep /\ UNCHANGED <<storeVars, target, pc, cycleVars, windowVars,
                                     itemVars, crashes>>
  <2>1. /\ origin' \in Versions /\ log' \in Seq(RowChange \cup SchemaChange)
        /\ committed' \subseteq DOMAIN log'
        /\ committed \subseteq committed'
    BY <1>1, SourceTypeOK
  <2>2. UNCHANGED <<handoff, base, checkpoint, applied, paused, quarantine, target, pc,
                    rows, skipped, startCheckpoint, injected, resumeFrom, drained, window,
                    todo, attempts, crashes>>
    BY <1>1 DEF storeVars, cycleVars, windowVars, itemVars
  <2>3. quarantine' \subseteq Pipelines \X committed'
    BY <2>1, <2>2
  <2> QED
    BY <2>1, <2>2, <2>3
<1>2. CASE StartCycle
  BY <1>2 DEF StartCycle, storeVars, sourceVars, itemVars
<1>3. CASE FetchWindow
  <2>1. window' \subseteq committed /\ pc' \in {"drained", "item"}
    BY <1>3 DEF FetchWindow, Fetchable, Unapplied, PendingDdl
  <2> QED
    BY <1>3, <2>1 DEF FetchWindow, storeVars, sourceVars, itemVars, cycleVars
<1>4. CASE CaughtUp
  <2>1. checkpoint' \in Nat
    BY <1>4 DEF CaughtUp
  <2> QED
    BY <1>0, <1>4, <2>1 DEF CaughtUp, EndCycle, sourceVars
<1>5. CASE \E i \in window : ItemStep(i)
  BY <1>5, ItemStepTypeOK
<1>6. ASSUME NEW p \in Pipelines, MarkSchemaImpact(p) PROVE TypeOK'
  BY <1>0, <1>6 DEF MarkSchemaImpact, StopDelivering, Visited, sourceVars, windowVars
<1>7. CASE Crash
  <2>1. crashes' \in 0 .. MaxCrashes
    BY <1>7 DEF Crash
  <2> QED
    BY <1>0, <1>7, <2>1 DEF Crash, EndCycle, sourceVars, storeVars
<1>8. CASE UNCHANGED vars
  BY <1>8 DEF vars, sourceVars, storeVars, cycleVars, windowVars, itemVars
<1> QED
  BY <1>1, <1>2, <1>3, <1>4, <1>5, <1>6, <1>7, <1>8 DEF Next, CycleStep

(* Every behaviour keeps the types of the Platform Store, the Target and   *)
(* the memory of a cycle; in particular recorded, injected, windowed and   *)
(* quarantined changes are committed ones, and Delivery attempts stay      *)
(* below the limit (incremental.rs, poison.rs).                            *)
THEOREM TypeCorrect == Spec => []TypeOK
<1>1. Init => TypeOK
  BY InitTypeOK
<1>2. TypeOK /\ [Next]_vars => TypeOK'
  BY NextTypeOK
<1> QED
  BY <1>1, <1>2, PTL DEF Spec

-----------------------------------------------------------------------------
(* The order of changes. First what the types say of an entry of the log.  *)

LEMMA Entries ==
  ASSUME TypeOK
  PROVE  /\ \A i \in DOMAIN log : /\ i \in Nat /\ Scn(i) \in Nat
                                  /\ IsRow(i) = ~IsDdl(i)
         /\ LastScn \in Nat
         /\ \A S \in SUBSET committed : IsFiniteSet(S) /\ Cardinality(S) \in Nat
<1>1. ASSUME NEW i \in DOMAIN log
      PROVE  i \in Nat /\ Scn(i) \in Nat /\ IsRow(i) = ~IsDdl(i)
  BY <1>1 DEF TypeOK, Scn, IsRow, IsDdl, RowChange, SchemaChange, RowKinds
<1>2. LastScn \in Nat
  BY SourceAssumption DEF TypeOK, LastScn, RowChange, SchemaChange
<1>3. DOMAIN log = 1 .. Len(log) /\ Len(log) \in Nat
  BY DEF TypeOK
<1>4. IsFiniteSet(1 .. Len(log))
  BY <1>3, FS_Interval
<1>5. ASSUME NEW S \in SUBSET committed PROVE IsFiniteSet(S) /\ Cardinality(S) \in Nat
  BY <1>3, <1>4, FS_Subset, FS_CardinalityType DEF TypeOK
<1> QED
  BY <1>1, <1>2, <1>5

(* A read that stops early has returned n items, a complete one all.       *)
LEMMA ShortRead ==
  ASSUME NEW S, IsFiniteSet(S), NEW T \in SUBSET S, NEW n \in Nat, FirstOf(T, S, n), T # S
  PROVE  Cardinality(T) = n
<1>1. Cardinality(T) < Cardinality(S)
  BY FS_Subset, FS_CardinalityType
<1> QED
  BY <1>1, FS_CardinalityType DEF FirstOf

(* Everything that has to be recorded before an item of the merged window  *)
(* is in the window too. A row change that the candidate read left out     *)
(* cannot be owed to a Schema Change: the candidates would then fill the   *)
(* window by themselves, and each comes before that Schema Change.         *)
LEMMA FetchedWindowComplete ==
  ASSUME TypeOK, OrderInv, FetchWindow
  PROVE  WindowComplete'
<1> USE DEF TypeOK
<1>0. PICK fetched, candidates :
        /\ fetched \in SUBSET Fetchable /\ candidates \in SUBSET Unapplied(fetched)
        /\ FirstOf(fetched, Fetchable, FetchLimit)
        /\ FirstOf(candidates, Unapplied(fetched), QueueCapacity)
        /\ window' \in SUBSET (candidates \cup PendingDdl)
        /\ FirstOf(window', candidates \cup PendingDdl, QueueCapacity)
  BY DEF FetchWindow, Cut
<1> DEFINE U == Unapplied(fetched)
           M == candidates \cup PendingDdl
<1>1. UNCHANGED <<log, applied, committed>>
  BY DEF FetchWindow, sourceVars, storeVars
<1>2. /\ fetched \subseteq committed /\ candidates \subseteq committed
      /\ M \subseteq committed /\ M \cap applied = {}
      /\ \A j \in fetched : IsRow(j) /\ Scn(j) >= resumeFrom
      /\ \A j \in PendingDdl : IsDdl(j)
  BY <1>0 DEF Fetchable, Unapplied, PendingDdl, OrderInv, InjectedAreDdl
<1>3. /\ IsFiniteSet(M) /\ IsFiniteSet(U) /\ IsFiniteSet(fetched) /\ IsFiniteSet(Fetchable)
      /\ IsFiniteSet(candidates) /\ IsFiniteSet(AppliedFromResume) /\ IsFiniteSet(window')
      /\ QueueCapacity \in Nat
  BY <1>0, <1>2, Entries, SyncAssumption DEF Unapplied, Fetchable, AppliedFromResume
<1>4. FetchLimit = QueueCapacity + Cardinality(AppliedFromResume) /\ FetchLimit \in Nat
  BY <1>3, FS_CardinalityType DEF FetchLimit
<1>5. SUFFICES ASSUME NEW i \in window', NEW j \in DOMAIN log, Owed(j, i), j \notin applied
               PROVE  j \in window'
  BY <1>0, <1>1, <1>2 DEF WindowComplete, Owed, IsRow, Scn
<1>6. /\ i \in M /\ i \in committed /\ i \in Nat /\ j \in Nat
      /\ Scn(i) \in Nat /\ Scn(j) \in Nat
  BY <1>0, <1>2, Entries
<1>7. IsRow(j) /\ Before(j, i) /\ j < i
  <2>1. IsRow(j) /\ (IF IsRow(i) THEN j < i ELSE Scn(j) < Scn(i))
    BY <1>5 DEF Owed
  <2>2. /\ i \in DOMAIN log
        /\ j <= i => Scn(j) <= Scn(i)
        /\ i <= j => Scn(i) <= Scn(j)
    BY <1>5, <1>6, Entries DEF OrderInv, LogOrdered
  <2>3. j < i
    BY <1>6, <2>1, <2>2
  <2> QED
    BY <1>6, <2>1, <2>2, <2>3 DEF Before, IsRow
<1>8. j \in Fetchable
  BY <1>5, <1>6, <1>7, Entries DEF OrderInv, CommittedPrefix, GapFree, Fetchable
<1>9. CASE j \in M
  BY <1>0, <1>7, <1>9 DEF FirstOf
<1>10. CASE j \notin M
  <2>1. i \notin candidates
    <3>1. i \in candidates => j \in fetched
      BY <1>0, <1>7, <1>8 DEF FirstOf, Unapplied
    <3> QED
      BY <1>0, <1>5, <1>7, <1>10, <3>1 DEF FirstOf, Unapplied
  <2>2. \A c \in candidates : Before(c, j)
    <3> SUFFICES ASSUME NEW c \in candidates PROVE Before(c, j)
      OBVIOUS
    <3>1. c \in fetched /\ c # j /\ IsRow(c) /\ c \in Nat /\ Scn(c) \in Nat
      BY <1>0, <1>2, <1>10, Entries DEF Unapplied
    <3>2. ~Before(j, c)
      BY <1>0, <1>5, <1>8, <1>10, <3>1 DEF FirstOf, Unapplied
    <3> QED
      BY <1>6, <1>7, <3>1, <3>2 DEF Before
  <2>3. Cardinality(candidates) = QueueCapacity
    <3>1. CASE candidates # U
      BY <1>0, <1>3, <3>1, ShortRead
    <3>2. CASE candidates = U
      <4>1. j \notin fetched
        BY <1>5, <1>10, <3>2 DEF Unapplied
      <4>2. Cardinality(fetched) = QueueCapacity + Cardinality(AppliedFromResume)
        BY <1>0, <1>3, <1>4, <1>8, <4>1, ShortRead
      <4>3. /\ fetched \subseteq candidates \cup AppliedFromResume
        BY <1>2, <3>2 DEF Unapplied, AppliedFromResume
      <4>4. Cardinality(fetched) <= Cardinality(candidates) + Cardinality(AppliedFromResume)
        <5>1. /\ IsFiniteSet(candidates \cup AppliedFromResume)
              /\ Cardinality(candidates \cup AppliedFromResume)
                   = Cardinality(candidates) + Cardinality(AppliedFromResume)
                     - Cardinality(candidates \cap AppliedFromResume)
          BY <1>3, FS_Union
        <5>2. Cardinality(fetched) <= Cardinality(candidates \cup AppliedFromResume)
          BY <4>3, <5>1, FS_Subset
        <5>3. /\ Cardinality(candidates \cap AppliedFromResume) \in Nat
              /\ Cardinality(candidates) \in Nat /\ Cardinality(AppliedFromResume) \in Nat
              /\ Cardinality(fetched) \in Nat
          BY <1>3, FS_Intersection, FS_CardinalityType
        <5> QED
          BY <5>1, <5>2, <5>3
      <4>5. Cardinality(candidates) <= QueueCapacity
        BY <1>0, <1>3, FS_CardinalityType DEF FirstOf
      <4> QED
        BY <1>3, <4>2, <4>4, <4>5, FS_CardinalityType
    <3> QED
      BY <3>1, <3>2
  <2>4. candidates \cup {i} \subseteq window'
    <3>1. ASSUME NEW c \in candidates PROVE Before(c, i)
      <4>1. Before(c, j) /\ c \in Nat /\ Scn(c) \in Nat /\ IsRow(c)
        BY <1>0, <1>2, <2>2, <3>1, Entries DEF Unapplied
      <4> QED
        BY <1>5, <1>6, <1>7, <4>1, Entries DEF Before, IsRow
    <3> QED
      BY <1>0, <1>5, <3>1 DEF FirstOf
  <2>5. Cardinality(candidates \cup {i}) = QueueCapacity + 1
    BY <1>3, <2>1, <2>3, FS_AddElement
  <2>6. QueueCapacity + 1 <= Cardinality(window')
    BY <1>3, <2>4, <2>5, FS_Subset
  <2>7. Cardinality(window') <= QueueCapacity
    BY <1>0, <1>3, FS_CardinalityType DEF FirstOf
  <2> QED
    BY <1>3, <2>6, <2>7, FS_CardinalityType
<1> QED
  BY <1>9, <1>10

(* When the loop reaches an item, all it owes has been recorded.           *)
LEMMA NextIsComplete ==
  ASSUME TypeOK, OrderInv, NEW i \in window, IsNext(i)
  PROVE  /\ GapFree(Scn(i))
         /\ i \in committed \ applied
         /\ \A j \in DOMAIN log : IsRow(i) /\ IsRow(j) /\ j < i => j \in applied
<1>1. i \in committed /\ i \notin applied /\ i \in DOMAIN log
  BY DEF TypeOK, OrderInv, WindowComplete
<1>2. ASSUME NEW j \in DOMAIN log, Owed(j, i) PROVE j \in applied
  <2>1. /\ i \in Nat /\ j \in Nat /\ Scn(i) \in Nat /\ Scn(j) \in Nat
        /\ IsRow(i) = ~IsDdl(i) /\ IsRow(j) = ~IsDdl(j)
    BY <1>1, <1>2, Entries
  <2>2. ~Before(i, j) /\ i # j
    BY <1>1, <1>2, <2>1 DEF Owed, Before, IsRow, OrderInv, LogOrdered
  <2> QED
    BY <1>2, <2>2 DEF OrderInv, WindowComplete, IsNext
<1>3. ASSUME NEW j \in DOMAIN log, IsRow(j), Scn(j) < Scn(i) PROVE j \in applied
  <2>1. i \in Nat /\ j \in Nat /\ Scn(i) \in Nat /\ Scn(j) \in Nat
    BY <1>1, Entries
  <2>2. j < i
    BY <1>1, <1>3, <2>1 DEF OrderInv, LogOrdered
  <2> QED
    BY <1>2, <1>3, <2>2 DEF Owed
<1> QED
  BY <1>1, <1>2, <1>3 DEF GapFree, Owed, OrderInv, LogOrdered

(* Recording a prefix further is all that happens to the order of things:  *)
(* a step that leaves the log, the applied changes and the window alone    *)
(* keeps OrderInv as long as its checkpoints are free of gaps.             *)
LEMMA OrderStutter ==
  ASSUME OrderInv, UNCHANGED <<log, committed, applied>>,
         window' = window \/ window' = {} \/ WindowComplete',
         injected' = injected \/ \A i \in injected' : IsDdl(i),
         GapFree(checkpoint'), GapFree(startCheckpoint'), GapFree(resumeFrom')
  PROVE  OrderInv'
<1>1. LogOrdered' /\ CommittedPrefix' /\ AppliedInOrder'
  BY DEF OrderInv, LogOrdered, LastScn, Scn, CommittedPrefix, AppliedInOrder, IsRow
<1>2. GapFree(checkpoint)' /\ GapFree(startCheckpoint)' /\ GapFree(resumeFrom)'
  BY DEF GapFree, LastScn, IsRow, Scn
<1>3. WindowComplete'
  BY DEF OrderInv, WindowComplete, Owed, IsRow, Scn
<1>4. InjectedAreDdl'
  BY DEF OrderInv, InjectedAreDdl, IsDdl
<1> QED
  BY <1>1, <1>2, <1>3, <1>4 DEF OrderInv

LEMMA OrderRecord ==
  ASSUME TypeOK, OrderInv, NEW i \in window, IsNext(i), NextItem(i),
         UNCHANGED <<log, committed, startCheckpoint, injected>>,
         applied' = applied \cup {i}, checkpoint' = Scn(i)
  PROVE  OrderInv'
<1>1. LogOrdered' /\ CommittedPrefix'
  BY DEF OrderInv, LogOrdered, LastScn, Scn, CommittedPrefix
<1>2. \A c : GapFree(c) => GapFree(c)'
  BY DEF GapFree, LastScn, IsRow, Scn
<1>3. /\ GapFree(Scn(i)) /\ Scn(i)' = Scn(i)
      /\ \A j \in DOMAIN log : IsRow(i) /\ IsRow(j) /\ j < i => j \in applied
  BY NextIsComplete DEF Scn
<1>4. GapFree(checkpoint)' /\ GapFree(startCheckpoint)' /\ GapFree(resumeFrom)'
  BY <1>2, <1>3 DEF OrderInv, NextItem, GapFree, LastScn, IsRow, Scn
<1>5. AppliedInOrder'
  BY <1>3 DEF OrderInv, AppliedInOrder, IsRow
<1>6. WindowComplete'
  BY DEF OrderInv, WindowComplete, NextItem, Owed, IsRow, Scn
<1>7. InjectedAreDdl'
  BY DEF OrderInv, InjectedAreDdl, IsDdl
<1> QED
  BY <1>1, <1>4, <1>5, <1>6, <1>7 DEF OrderInv

(* A step of the Source extends the log at its end, or commits the oldest  *)
(* open change.                                                            *)
LEMMA OrderSource ==
  ASSUME TypeOK, OrderInv, CommitsInOrder, SourceStep,
         UNCHANGED <<applied, checkpoint, startCheckpoint, resumeFrom, window, injected>>
  PROVE  OrderInv'
<1> USE DEF TypeOK
<1>0. DOMAIN log = 1 .. Len(log) /\ Len(log) \in Nat /\ LastScn \in Nat
  BY Entries
<1>1. CASE \E i \in 1 .. MaxLog : SourceCommit(i)
  <2>1. PICK i \in 1 .. MaxLog : SourceCommit(i)
    BY <1>1
  <2>2. CommittedPrefix'
    BY <1>0, <2>1 DEF SourceCommit, OrderInv, CommittedPrefix, CommitsInOrder
  <2>3. LogOrdered' /\ AppliedInOrder' /\ WindowComplete' /\ InjectedAreDdl'
    BY <2>1 DEF SourceCommit, OrderInv, LogOrdered, LastScn, Scn, AppliedInOrder, IsRow,
                WindowComplete, Owed, InjectedAreDdl, IsDdl
  <2>4. GapFree(checkpoint)' /\ GapFree(startCheckpoint)' /\ GapFree(resumeFrom)'
    BY <2>1 DEF SourceCommit, OrderInv, GapFree, LastScn, IsRow, Scn
  <2> QED
    BY <2>2, <2>3, <2>4 DEF OrderInv
<1>2. ASSUME NEW e \in RowChange \cup SchemaChange, log' = Append(log, e),
             e.scn \in {LastScn, LastScn + 1},
             \/ committed' = committed
             \/ committed = DOMAIN log /\ committed' = committed \cup {Len(log) + 1}
      PROVE  OrderInv'
  <2>0. PICK n \in Nat : n = Len(log) + 1
    BY <1>0
  <2>1. /\ DOMAIN log' = DOMAIN log \cup {n} /\ n \notin DOMAIN log
        /\ log'[n] = e /\ \A i \in DOMAIN log : log'[i] = log[i] /\ i < n
        /\ LastScn' = e.scn
    BY <1>0, <1>2, <2>0 DEF LastScn
  <2>2. e.scn \in Nat /\ LastScn <= e.scn
    BY <1>0, <1>2
  <2>3. \A i \in DOMAIN log : /\ Scn(i)' = Scn(i) /\ Scn(i) \in Nat /\ Scn(i) <= LastScn
                              /\ IsRow(i)' = IsRow(i) /\ IsDdl(i)' = IsDdl(i) /\ i \in Nat
    BY <2>1, Entries DEF Scn, IsRow, IsDdl, OrderInv, LogOrdered
  <2>4. Scn(n)' = e.scn
    BY <2>1 DEF Scn
  <2>5. LogOrdered'
    <3>1. ASSUME NEW i \in DOMAIN log', NEW j \in DOMAIN log', i <= j
          PROVE  Scn(i)' <= Scn(j)'
      BY <1>0, <2>1, <2>2, <2>3, <2>4, <3>1 DEF OrderInv, LogOrdered
    <3>2. \A i \in DOMAIN log' : Scn(i)' <= LastScn'
      BY <1>0, <2>1, <2>2, <2>3, <2>4
    <3>3. LowWatermark <= LastScn'
      BY <1>0, <2>1, <2>2, SourceAssumption DEF OrderInv, LogOrdered
    <3> QED
      BY <3>1, <3>2, <3>3 DEF LogOrdered
  <2>6. CommittedPrefix'
    BY <1>0, <1>2, <2>0, <2>1 DEF OrderInv, CommittedPrefix
  <2>7. ASSUME NEW c \in Nat, GapFree(c) PROVE GapFree(c)'
    BY <1>0, <2>1, <2>2, <2>3, <2>4, <2>7 DEF GapFree
  <2>8. GapFree(checkpoint)' /\ GapFree(startCheckpoint)' /\ GapFree(resumeFrom)'
    BY <2>7 DEF OrderInv, GapFree
  <2>9. AppliedInOrder' /\ InjectedAreDdl'
    BY <2>1, <2>3 DEF OrderInv, AppliedInOrder, InjectedAreDdl
  <2>10. WindowComplete'
    <3> SUFFICES ASSUME NEW i \in window, NEW j \in DOMAIN log', Owed(j, i)'
                 PROVE  j \in applied \cup window
      BY DEF OrderInv, WindowComplete
    <3>1. i \in DOMAIN log
      OBVIOUS
    <3>2. j # n
      BY <1>0, <2>1, <2>2, <2>3, <2>4, <3>1 DEF Owed
    <3>3. j \in DOMAIN log
      BY <2>1, <3>2
    <3>4. Owed(j, i)
      BY <2>3, <3>1, <3>3 DEF Owed
    <3> QED
      BY <3>3, <3>4 DEF OrderInv, WindowComplete
  <2> QED
    BY <2>5, <2>6, <2>8, <2>9, <2>10 DEF OrderInv
<1>3. CASE \E k \in Keys, kind \in Kinds : SourceDml(k, kind)
  <2>1. PICK k \in Keys, kind \in Kinds : SourceDml(k, kind)
    BY <1>3
  <2>2. PICK scn \in {LastScn, LastScn + 1} :
          log' = Append(log, [scn |-> scn, kind |-> kind, key |-> k])
    BY <2>1 DEF SourceDml
  <2> DEFINE e == [scn |-> scn, kind |-> kind, key |-> k]
  <2>3. e \in RowChange
    BY <1>0, SourceAssumption DEF RowChange
  <2> QED
    BY <1>2, <2>1, <2>2, <2>3 DEF SourceDml
<1>4. CASE \E blocks \in SUBSET Pipelines : SourceDdl(blocks)
  <2>1. PICK blocks \in SUBSET Pipelines : SourceDdl(blocks)
    BY <1>4
  <2>2. PICK scn \in {LastScn, LastScn + 1} :
          log' = Append(log, [scn |-> scn, kind |-> "ddl", blocks |-> blocks])
    BY <2>1 DEF SourceDdl
  <2> DEFINE e == [scn |-> scn, kind |-> "ddl", blocks |-> blocks]
  <2>3. e \in SchemaChange
    BY <1>0 DEF SchemaChange
  <2> QED
    BY <1>2, <2>1, <2>2, <2>3 DEF SourceDdl
<1> QED
  BY <1>1, <1>3, <1>4 DEF SourceStep

LEMMA OrderInit == Init => OrderInv
<1> SUFFICES ASSUME Init PROVE OrderInv
  OBVIOUS
<1>1. TypeOK
  BY InitTypeOK
<1>2. /\ log \in OverlapLogs /\ committed = DOMAIN log /\ applied = {} /\ window = {}
      /\ injected = {} /\ startCheckpoint = 0 /\ resumeFrom = 0
      /\ checkpoint = HandoffCheckpoint
  BY DEF Init, SourceInit, NoCycle
<1>3. \A i \in DOMAIN log : LowWatermark <= Scn(i) /\ Scn(i) \in Nat
  BY <1>2, SourceAssumption DEF OverlapLogs, Scn
<1>4. LogOrdered
  <2>1. \A i, j \in DOMAIN log : i <= j => Scn(i) <= Scn(j)
    BY <1>2, <1>3 DEF OverlapLogs, Scn
  <2>2. DOMAIN log = 1 .. Len(log) /\ Len(log) \in Nat /\ (log = << >> <=> Len(log) = 0)
    BY <1>1 DEF TypeOK
  <2>3. LastScn = IF log = << >> THEN LowWatermark ELSE Scn(Len(log))
    BY DEF LastScn, Scn
  <2>4. \A i \in DOMAIN log : Scn(i) <= LastScn
    BY <2>1, <2>2, <2>3
  <2>5. LowWatermark <= LastScn
    BY <1>3, <2>2, <2>3, SourceAssumption
  <2> QED
    BY <2>1, <2>4, <2>5 DEF LogOrdered
<1>5. \A c \in Nat : c <= LowWatermark => GapFree(c)
  BY <1>1, <1>3, <1>4, Entries, SourceAssumption DEF LogOrdered, GapFree
<1>6. GapFree(checkpoint) /\ GapFree(startCheckpoint) /\ GapFree(resumeFrom)
  BY <1>2, <1>5, SourceAssumption DEF HandoffCheckpoint
<1> QED
  BY <1>2, <1>4, <1>6
  DEF OrderInv, CommittedPrefix, AppliedInOrder, WindowComplete, InjectedAreDdl

LEMMA OrderNext ==
  ASSUME TypeOK, OrderInv, CommitsInOrder, [Next]_vars
  PROVE  OrderInv'
<1>0. /\ GapFree(checkpoint) /\ GapFree(startCheckpoint) /\ GapFree(resumeFrom)
      /\ GapFree(0)
  BY Entries DEF OrderInv, GapFree
<1>1. CASE SourceStep /\ UNCHANGED <<storeVars, target, pc, cycleVars, windowVars,
                                     itemVars, crashes>>
  BY <1>1, OrderSource DEF storeVars, cycleVars, windowVars
<1>2. CASE StartCycle
  BY <1>0, <1>2, OrderStutter DEF StartCycle, sourceVars, storeVars
<1>3. CASE FetchWindow
  <2>1. WindowComplete'
    BY <1>3, FetchedWindowComplete
  <2> QED
    BY <1>0, <1>3, <2>1, OrderStutter
    DEF FetchWindow, sourceVars, storeVars, cycleVars
<1>4. CASE CaughtUp
  <2>1. GapFree(checkpoint')
    BY <1>0, <1>4 DEF CaughtUp
  <2> QED
    BY <1>0, <1>4, <2>1, OrderStutter DEF CaughtUp, EndCycle, sourceVars
<1>5. ASSUME NEW i \in window, ItemStep(i) PROVE OrderInv'
  <2>1. CASE RecordRowProgress(i)
    BY <2>1, OrderRecord
    DEF RecordRowProgress, Delivered, sourceVars, cycleVars
  <2>2. CASE RecordDdlProgress(i)
    BY <2>2, OrderRecord DEF RecordDdlProgress, sourceVars, cycleVars
  <2>3. CASE ApplyToRows(i)
    BY <1>0, <2>3, OrderStutter DEF ApplyToRows, sourceVars, storeVars, windowVars
  <2>4. CASE FailToApply(i)
    BY <1>0, <2>4, OrderStutter DEF FailToApply, EndCycle, sourceVars
  <2>5. CASE ClassifyDdl(i)
    BY <1>0, <2>5, OrderStutter
    DEF ClassifyDdl, sourceVars, storeVars, cycleVars, windowVars
  <2>6. ASSUME NEW p \in Pipelines, Deliver(i, p) \/ DeliverFails(i, p) PROVE OrderInv'
    BY <1>0, <2>6, OrderStutter
    DEF Deliver, DeliverFails, sourceVars, storeVars, cycleVars, windowVars
  <2> QED
    BY <1>5, <2>1, <2>2, <2>3, <2>4, <2>5, <2>6 DEF ItemStep
<1>6. ASSUME NEW p \in Pipelines, MarkSchemaImpact(p) PROVE OrderInv'
  BY <1>0, <1>6, OrderStutter DEF MarkSchemaImpact, sourceVars, windowVars
<1>7. CASE Crash
  BY <1>0, <1>7, OrderStutter DEF Crash, EndCycle, sourceVars, storeVars
<1>8. CASE UNCHANGED vars
  BY <1>0, <1>8, OrderStutter DEF vars, sourceVars, storeVars, cycleVars, windowVars
<1> QED
  BY <1>1, <1>2, <1>3, <1>4, <1>5, <1>6, <1>7, <1>8 DEF Next, CycleStep

(* No cycle, crash, retry or full window leaves an unapplied row change    *)
(* below the checkpoint that the next cycle resumes from                   *)
(* (store.record_sync_row_progress, run_sync_engines_cycle_with_gateways). *)
THEOREM NoGapHolds ==
  ASSUME CommitsInOrder
  PROVE  Spec => []NoGap
<1>1. Init => TypeOK /\ OrderInv
  BY InitTypeOK, OrderInit
<1>2. TypeOK /\ OrderInv /\ [Next]_vars => TypeOK' /\ OrderInv'
  BY NextTypeOK, OrderNext
<1>3. TypeOK /\ OrderInv => NoGap
  BY DEF TypeOK, OrderInv, GapFree, NoGap
<1> QED
  BY <1>1, <1>2, <1>3, PTL DEF Spec

-----------------------------------------------------------------------------
(* The Base Dataset as a replay of the log.                                *)

LEMMA NextIsUnique ==
  ASSUME TypeOK, NEW i \in window, NEW j \in window, IsNext(i), IsNext(j)
  PROVE  i = j
<1>1. /\ i \in DOMAIN log /\ j \in DOMAIN log
  BY DEF TypeOK
<1>2. /\ i \in Nat /\ j \in Nat /\ Scn(i) \in Nat /\ Scn(j) \in Nat
      /\ IsRow(i) = ~IsDdl(i) /\ IsRow(j) = ~IsDdl(j)
  BY <1>1, Entries
<1>3. i # j => Before(i, j) /\ Before(j, i)
  BY DEF IsNext
<1> QED
  BY <1>2, <1>3 DEF Before, IsRow

(* A change that is recorded next is the last of the applied ones, so its  *)
(* image is the one a replay ends with.                                    *)
LEMMA ReplayOneMore ==
  ASSUME TypeOK, OrderInv, BaseIsReplay, NEW i \in window, IsNext(i), IsRow(i),
         UNCHANGED <<log, handoff>>, applied' = applied \cup {i},
         base' = [base EXCEPT ![log[i].key] = Image(i)]
  PROVE  BaseIsReplay'
<1>1. /\ i \in DOMAIN log /\ i \in Nat /\ i \notin applied /\ log[i].key \in Keys
      /\ applied \subseteq DOMAIN log
  BY NextIsComplete, Entries DEF TypeOK, IsRow, RowChange, SchemaChange, RowKinds
<1>2. \A j \in applied : IsRow(j) => j <= i
  BY <1>1, Entries DEF OrderInv, AppliedInOrder
<1> SUFFICES ASSUME NEW k \in Keys PROVE LatestImage(applied, handoff, k, base[k])'
  BY DEF BaseIsReplay
<1>3. LatestImage(applied, handoff, k, base[k])
  BY DEF BaseIsReplay
<1>4. \A j \in DOMAIN log : Touches(j, k)' = Touches(j, k) /\ Image(j)' = Image(j)
  BY DEF Touches, IsRow, Image
<1>5. CASE k = log[i].key
  <2>1. base'[k] = Image(i) /\ Touches(i, k)
    BY <1>1, <1>5 DEF TypeOK, Versions, Touches
  <2> QED
    BY <1>1, <1>2, <1>4, <2>1 DEF LatestImage, Touches
<1>6. CASE k # log[i].key
  <2>1. base'[k] = base[k] /\ ~Touches(i, k)
    BY <1>6 DEF TypeOK, Versions, Touches
  <2> QED
    BY <1>1, <1>3, <1>4, <2>1 DEF LatestImage
<1> QED
  BY <1>5, <1>6

LEMMA SourceExtends ==
  ASSUME TypeOK, SourceStep
  PROVE  /\ \A i \in DOMAIN log : i \in DOMAIN log' /\ log'[i] = log[i]
         /\ origin' = origin /\ committed \subseteq committed'
<1> USE DEF TypeOK
<1>1. ASSUME NEW e, log' = Append(log, e)
      PROVE  \A i \in DOMAIN log : i \in DOMAIN log' /\ log'[i] = log[i]
  BY <1>1
<1> QED
  BY <1>1, SourceTypeOK DEF SourceStep, SourceDml, SourceCommit, SourceDdl

LEMMA ReplayInit == Init => ReplayInv
<1> SUFFICES ASSUME Init PROVE ReplayInv
  OBVIOUS
<1>1. RowsFollowBase /\ BaseIsReplay
  BY DEF Init, NoCycle, RowsFollowBase, BaseIsReplay, LatestImage
<1>2. HandoffFromLog
  BY DEF Init, SourceInit, HandoffInit, HandoffFromLog
<1> QED
  BY <1>1, <1>2 DEF ReplayInv

LEMMA ReplayNext ==
  ASSUME TypeOK, OrderInv, ReplayInv, [Next]_vars
  PROVE  ReplayInv'
<1> USE DEF ReplayInv
<1>1. CASE SourceStep /\ UNCHANGED <<storeVars, target, pc, cycleVars, windowVars,
                                     itemVars, crashes>>
  <2>1. /\ \A i \in DOMAIN log : /\ Touches(i, log[i].key)' = Touches(i, log[i].key)
                                 /\ log'[i] = log[i]
        /\ origin' = origin /\ committed \subseteq committed' /\ committed \subseteq DOMAIN log
        /\ applied \subseteq DOMAIN log /\ window \subseteq DOMAIN log
    BY <1>1, SourceExtends DEF TypeOK, Touches, IsRow
  <2>2. UNCHANGED <<handoff, base, applied, pc, rows, window>>
    BY <1>1 DEF storeVars, cycleVars, windowVars
  <2>3. \A i, j \in DOMAIN log : Before(i, j)' = Before(i, j)
    BY <2>1 DEF Before, Scn, IsRow, IsDdl
  <2>4. RowsFollowBase'
    BY <2>1, <2>2, <2>3 DEF RowsFollowBase, IsNext, IsDdl, Image
  <2>5. BaseIsReplay'
    BY <2>1, <2>2 DEF BaseIsReplay, LatestImage, Touches, IsRow, Image
  <2>6. HandoffFromLog'
    BY <2>1, <2>2 DEF HandoffFromLog, Touches, IsRow
  <2> QED
    BY <2>4, <2>5, <2>6
<1>2. ASSUME UNCHANGED <<origin, log, committed, handoff, applied>>, base' = base,
             RowsFollowBase'
      PROVE  ReplayInv'
  BY <1>2 DEF BaseIsReplay, LatestImage, HandoffFromLog, Touches, IsRow, Image
<1>3. CASE StartCycle
  BY <1>2, <1>3 DEF StartCycle, storeVars, sourceVars, RowsFollowBase
<1>4. CASE FetchWindow
  BY <1>2, <1>4 DEF FetchWindow, storeVars, sourceVars, cycleVars, RowsFollowBase
<1>5. CASE CaughtUp
  BY <1>2, <1>5 DEF CaughtUp, EndCycle, sourceVars, RowsFollowBase
<1>6. ASSUME NEW i \in window, ItemStep(i) PROVE ReplayInv'
  <2>1. CASE ApplyToRows(i)
    <3>1. /\ rows = base /\ rows' = [base EXCEPT ![log[i].key] = Image(i)] /\ pc' = "deliver"
          /\ IsNext(i) /\ log[i].kind \in {"upsert", "delete"}
      BY <2>1 DEF ApplyToRows, RowsFollowBase
    <3>2. UNCHANGED <<origin, log, committed, handoff, applied, base, window>>
      BY <2>1 DEF ApplyToRows, storeVars, sourceVars, windowVars
    <3>3. IsNext(i)' /\ Image(i)' = Image(i)
      BY <3>1, <3>2 DEF IsNext, Before, Scn, IsRow, IsDdl, Image
    <3>4. RowsFollowBase'
      BY <3>1, <3>2, <3>3 DEF RowsFollowBase
    <3> QED
      BY <1>2, <3>2, <3>4
  <2>2. CASE FailToApply(i)
    <3>1. rows = base /\ base' = rows /\ pc' = "idle"
      BY <2>2 DEF FailToApply, EndCycle, RowsFollowBase
    <3> QED
      BY <1>2, <2>2, <3>1 DEF FailToApply, sourceVars, RowsFollowBase
  <2>3. ASSUME NEW p \in Pipelines, Deliver(i, p) \/ DeliverFails(i, p) PROVE ReplayInv'
    <3>1. UNCHANGED <<origin, log, committed, handoff, applied, base, pc, rows, window>>
      BY <2>3 DEF Deliver, DeliverFails, storeVars, sourceVars, cycleVars, windowVars
    <3>2. RowsFollowBase'
      BY <3>1 DEF RowsFollowBase, IsNext, Before, Scn, IsRow, IsDdl, Image
    <3> QED
      BY <1>2, <3>1, <3>2
  <2>4. CASE RecordRowProgress(i)
    <3>1. /\ IsNext(i) /\ NextItem(i) /\ applied' = applied \cup {i} /\ pc = "deliver"
          /\ base' = [base EXCEPT ![log[i].key] = rows[log[i].key]]
          /\ UNCHANGED <<origin, log, committed, handoff, rows>>
      BY <2>4 DEF RecordRowProgress, Delivered, sourceVars, cycleVars
    <3>2. /\ log[i].kind \in {"upsert", "delete"}
          /\ rows = [base EXCEPT ![log[i].key] = Image(i)]
      BY <3>1, NextIsUnique DEF RowsFollowBase
    <3>3. IsRow(i) /\ log[i].key \in Keys
      BY <3>2 DEF TypeOK, IsRow, RowKinds, RowChange, SchemaChange
    <3>4. base' = rows
      BY <3>1, <3>2, <3>3 DEF TypeOK, Versions
    <3>5. BaseIsReplay'
      BY <3>1, <3>2, <3>3, <3>4, ReplayOneMore
    <3>6. RowsFollowBase'
      BY <3>1, <3>4 DEF NextItem, RowsFollowBase
    <3> QED
      BY <3>1, <3>5, <3>6 DEF HandoffFromLog, Touches, IsRow
  <2>5. CASE ClassifyDdl(i)
    <3>1. UNCHANGED <<origin, log, committed, handoff, applied, base, rows, window>>
      BY <2>5 DEF ClassifyDdl, storeVars, sourceVars, cycleVars, windowVars
    <3>2. RowsFollowBase'
      BY <2>5, <3>1 DEF ClassifyDdl, RowsFollowBase, IsNext, Before, Scn, IsRow, IsDdl
    <3> QED
      BY <1>2, <3>1, <3>2
  <2>6. CASE RecordDdlProgress(i)
    <3>1. /\ IsNext(i) /\ NextItem(i) /\ applied' = applied \cup {i} /\ pc = "impact"
          /\ base' = rows /\ UNCHANGED <<origin, log, committed, handoff, rows>>
      BY <2>6 DEF RecordDdlProgress, sourceVars, cycleVars
    <3>2. rows = base /\ IsDdl(i)
      BY <3>1, NextIsUnique DEF RowsFollowBase
    <3>3. ~IsRow(i)
      BY <3>2, Entries DEF TypeOK
    <3>4. BaseIsReplay'
      BY <3>1, <3>2, <3>3 DEF BaseIsReplay, LatestImage, Touches, IsRow, Image
    <3>5. RowsFollowBase'
      BY <3>1, <3>2 DEF NextItem, RowsFollowBase
    <3> QED
      BY <3>1, <3>4, <3>5 DEF HandoffFromLog, Touches, IsRow
  <2> QED
    BY <1>6, <2>1, <2>2, <2>3, <2>4, <2>5, <2>6 DEF ItemStep
<1>7. ASSUME NEW p \in Pipelines, MarkSchemaImpact(p) PROVE ReplayInv'
  <2>1. UNCHANGED <<origin, log, committed, handoff, applied, base, pc, rows, window>>
    BY <1>7 DEF MarkSchemaImpact, sourceVars, windowVars
  <2>2. RowsFollowBase'
    BY <2>1 DEF RowsFollowBase, IsNext, Before, Scn, IsRow, IsDdl, Image
  <2> QED
    BY <1>2, <2>1, <2>2
<1>8. CASE Crash
  BY <1>2, <1>8 DEF Crash, EndCycle, sourceVars, storeVars, RowsFollowBase
<1>9. CASE UNCHANGED vars
  <2>1. UNCHANGED <<origin, log, committed, handoff, applied, base, pc, rows, window>>
    BY <1>9 DEF vars, sourceVars, storeVars, cycleVars, windowVars
  <2>2. RowsFollowBase'
    BY <2>1 DEF RowsFollowBase, IsNext, Before, Scn, IsRow, IsDdl, Image
  <2> QED
    BY <1>2, <2>1, <2>2
<1> QED
  BY <1>1, <1>3, <1>4, <1>5, <1>6, <1>7, <1>8, <1>9 DEF Next, CycleStep

LEMMA Inductive ==
  ASSUME CommitsInOrder
  PROVE  Spec => [](TypeOK /\ OrderInv /\ ReplayInv)
<1>1. Init => TypeOK /\ OrderInv /\ ReplayInv
  BY InitTypeOK, OrderInit, ReplayInit
<1>2. TypeOK /\ OrderInv /\ ReplayInv /\ [Next]_vars => (TypeOK /\ OrderInv /\ ReplayInv)'
  BY NextTypeOK, OrderNext, ReplayNext
<1> QED
  BY <1>1, <1>2, PTL DEF Spec

(* The durable Base Dataset is at every moment the hand-off image with the *)
(* recorded changes replayed in log order, because the touched row, the    *)
(* change id and the checkpoint are written together and never out of      *)
(* order (store.record_sync_row_progress).                                 *)
THEOREM BaseIsReplayHolds ==
  ASSUME CommitsInOrder
  PROVE  Spec => []BaseIsReplay
<1>1. Spec => [](TypeOK /\ OrderInv /\ ReplayInv)
  BY Inductive
<1>2. TypeOK /\ OrderInv /\ ReplayInv => BaseIsReplay
  BY DEF ReplayInv
<1> QED
  BY <1>1, <1>2, PTL

LEMMA ReplayReachesSource ==
  ASSUME TypeOK, ReplayInv
  PROVE  DrainedMeansEqual
<1> SUFFICES ASSUME \A i \in committed : IsRow(i) => i \in applied, NEW k \in Keys
             PROVE  LatestImage(committed, origin, k, base[k])
  BY DEF DrainedMeansEqual
<1>1. LatestImage(applied, handoff, k, base[k])
  BY DEF ReplayInv, BaseIsReplay
<1>2. \A i : Touches(i, k) => (i \in applied <=> i \in committed)
  BY DEF TypeOK, Touches
<1>3. CASE \E i \in applied : Touches(i, k)
  BY <1>1, <1>2, <1>3 DEF LatestImage
<1>4. CASE \A i \in applied : ~Touches(i, k)
  <2>1. \A i \in committed : ~Touches(i, k)
    BY <1>2, <1>4
  <2>2. base[k] = handoff[k] /\ handoff[k] = origin[k]
    BY <1>1, <1>4, <2>1 DEF LatestImage, ReplayInv, HandoffFromLog
  <2> QED
    BY <2>1, <2>2 DEF LatestImage
<1> QED
  BY <1>3, <1>4

(* The cutover is sound: however the rows of the Initial Load were spread  *)
(* over the overlap, once Incremental Capture has recorded every committed *)
(* row change the Base Dataset equals the Source table (cutover.rs).       *)
THEOREM DrainedMeansEqualHolds ==
  ASSUME CommitsInOrder
  PROVE  Spec => []DrainedMeansEqual
<1>1. Spec => [](TypeOK /\ OrderInv /\ ReplayInv)
  BY Inductive
<1>2. TypeOK /\ OrderInv /\ ReplayInv => DrainedMeansEqual
  BY ReplayReachesSource
<1> QED
  BY <1>1, <1>2, PTL

-----------------------------------------------------------------------------
(* Refinement.                                                             *)

LEMMA RefinementInit == Init => Abstract!Init
BY DEF Init, Abstract!Init, HandoffInit, Abstract!HandoffInit, SourceInit,
       Abstract!SourceInit, OverlapLogs, Abstract!OverlapLogs, LatestImage,
       Abstract!LatestImage, Touches, Abstract!Touches, IsRow, Abstract!IsRow, Image,
       Abstract!Image, RowKinds, Abstract!RowKinds

LEMMA RefinementStep ==
  ASSUME TypeOK, OrderInv, ReplayInv, [Next]_vars
  PROVE  [Abstract!Next]_Abstract!applyVars
<1> USE DEF Abstract!applyVars, ReplayInv
<1>1. CASE SourceStep /\ UNCHANGED <<storeVars, target, pc, cycleVars, windowVars,
                                     itemVars, crashes>>
  <2>1. UNCHANGED <<handoff, base, applied>>
    BY <1>1 DEF storeVars
  <2>2. Abstract!SourceStep
    <3>1. LastScn = Abstract!LastScn
      BY DEF LastScn, Abstract!LastScn
    <3>2. \A k : RowLocked(k) = Abstract!RowLocked(k)
      BY DEF RowLocked, Abstract!RowLocked, Touches, Abstract!Touches, IsRow,
             Abstract!IsRow, RowKinds, Abstract!RowKinds
    <3>3. \A k : RowExists(k) = Abstract!RowExists(k)
      BY DEF RowExists, Abstract!RowExists, LatestImage, Abstract!LatestImage, Touches,
             Abstract!Touches, IsRow, Abstract!IsRow, Image, Abstract!Image, RowKinds,
             Abstract!RowKinds
    <3>4. \A k, kind : SourceDml(k, kind) => Abstract!SourceDml(k, kind)
      BY <3>1, <3>2, <3>3 DEF SourceDml, Abstract!SourceDml
    <3>5. \A i : SourceCommit(i) => Abstract!SourceCommit(i)
      BY DEF SourceCommit, Abstract!SourceCommit
    <3>6. ASSUME NEW blocks, SourceDdl(blocks) PROVE Abstract!SourceDdl(blocks)
      <4>1. Abstract!Cardinality({i \in DOMAIN log : Abstract!IsDdl(i)}) < MaxDdl
        BY <3>6 DEF SourceDdl, IsDdl, Abstract!IsDdl, Cardinality, Abstract!Cardinality
      <4>2. \E scn \in {Abstract!LastScn, Abstract!LastScn + 1} :
              log' = Append(log, [scn |-> scn, kind |-> "ddl", blocks |-> blocks])
        BY <3>1, <3>6 DEF SourceDdl
      <4>3. /\ Len(log) < MaxLog /\ committed = DOMAIN log
            /\ committed' = committed \cup {Len(log) + 1} /\ UNCHANGED origin
        BY <3>6 DEF SourceDdl
      <4> QED
        BY <4>1, <4>2, <4>3 DEF Abstract!SourceDdl
    <3> QED
      BY <1>1, <3>4, <3>5, <3>6
      DEF SourceStep, Abstract!SourceStep, Pipelines, Abstract!Pipelines
  <2> QED
    BY <2>1, <2>2 DEF Abstract!Next
<1>2. ASSUME NEW i \in window, RecordRowProgress(i) PROVE Abstract!Next
  <2>1. IsNext(i) /\ pc = "deliver"
    BY <1>2 DEF RecordRowProgress, Delivered
  <2>2. /\ log[i].kind \in {"upsert", "delete"}
        /\ rows = [base EXCEPT ![log[i].key] = Image(i)]
    BY <2>1, NextIsUnique DEF RowsFollowBase
  <2>3. IsRow(i) /\ log[i].key \in Keys
    BY <2>2 DEF TypeOK, IsRow, RowKinds, RowChange, SchemaChange
  <2>4. /\ i \in committed \ applied
        /\ \A j \in committed : IsRow(j) /\ j < i => j \in applied
    BY <2>1, <2>3, NextIsComplete DEF TypeOK
  <2>5. base' = [base EXCEPT ![log[i].key] = Image(i)]
    BY <1>2, <2>2, <2>3 DEF RecordRowProgress, TypeOK, Versions
  <2>6. applied' = applied \cup {i} /\ UNCHANGED <<origin, log, committed, handoff>>
    BY <1>2 DEF RecordRowProgress, sourceVars
  <2>7. Abstract!Apply(i)
    BY <2>3, <2>4, <2>5, <2>6
    DEF Abstract!Apply, IsRow, Abstract!IsRow, RowKinds, Abstract!RowKinds, Image,
        Abstract!Image
  <2> QED
    BY <2>4, <2>7 DEF Abstract!Next
<1>3. ASSUME NEW i \in window, RecordDdlProgress(i) PROVE Abstract!Next
  <2>1. IsNext(i) /\ pc = "impact"
    BY <1>3 DEF RecordDdlProgress
  <2>2. rows = base /\ IsDdl(i) /\ i \in committed \ applied
    BY <2>1, NextIsUnique, NextIsComplete DEF RowsFollowBase
  <2>3. Abstract!AcknowledgeDdl(i)
    BY <1>3, <2>2
    DEF RecordDdlProgress, Abstract!AcknowledgeDdl, sourceVars, IsDdl, Abstract!IsDdl
  <2> QED
    BY <2>2, <2>3 DEF Abstract!Next
<1>4. ASSUME NEW i \in window, FailToApply(i) PROVE UNCHANGED Abstract!applyVars
  BY <1>4 DEF FailToApply, RowsFollowBase, sourceVars
<1>5. ASSUME NEW i \in window, ItemStep(i)
      PROVE  Abstract!Next \/ UNCHANGED Abstract!applyVars
  <2>1. CASE ApplyToRows(i) \/ ClassifyDdl(i)
    BY <2>1 DEF ApplyToRows, ClassifyDdl, sourceVars, storeVars
  <2>2. ASSUME NEW p \in Pipelines, Deliver(i, p) \/ DeliverFails(i, p)
        PROVE  UNCHANGED Abstract!applyVars
    BY <2>2 DEF Deliver, DeliverFails, sourceVars, storeVars
  <2> QED
    BY <1>2, <1>3, <1>4, <1>5, <2>1, <2>2 DEF ItemStep
<1>6. CASE StartCycle \/ FetchWindow \/ CaughtUp \/ Crash
  BY <1>6 DEF StartCycle, FetchWindow, CaughtUp, Crash, sourceVars, storeVars
<1>7. ASSUME NEW p \in Pipelines, MarkSchemaImpact(p)
      PROVE  UNCHANGED Abstract!applyVars
  BY <1>7 DEF MarkSchemaImpact, sourceVars
<1>8. CASE UNCHANGED vars
  BY <1>8 DEF vars, sourceVars, storeVars
<1> QED
  BY <1>1, <1>5, <1>6, <1>7, <1>8 DEF Next, CycleStep

(* Whatever its windows, retries, pauses and crashes do, the sync engine   *)
(* applies each committed row change to the Base Dataset once, and only    *)
(* after every earlier committed row change of the table (ADR-0004).       *)
THEOREM ImplementsOrderedApplyHolds ==
  ASSUME CommitsInOrder
  PROVE  Spec => ImplementsOrderedApply
<1>1. Init => Abstract!Init
  BY RefinementInit
<1>2. TypeOK /\ OrderInv /\ ReplayInv /\ [Next]_vars => [Abstract!Next]_Abstract!applyVars
  BY RefinementStep
<1>3. Spec => [](TypeOK /\ OrderInv /\ ReplayInv)
  BY Inductive
<1> QED
  BY <1>1, <1>2, <1>3, PTL DEF Spec, Abstract!Spec, ImplementsOrderedApply

-----------------------------------------------------------------------------
(* Pausing.                                                                *)

LEMMA PauseNext ==
  ASSUME PauseInv, [Next]_vars
  PROVE  /\ PauseInv'
         /\ [\A p \in paused : target'[p] = target[p]]_vars
<1> USE DEF PauseInv
<1>1. CASE SourceStep /\ UNCHANGED <<storeVars, target, pc, cycleVars, windowVars,
                                     itemVars, crashes>>
  BY <1>1 DEF storeVars, cycleVars, itemVars
<1>2. CASE StartCycle \/ FetchWindow \/ CaughtUp \/ Crash
  BY <1>2 DEF StartCycle, FetchWindow, CaughtUp, Crash, EndCycle, storeVars, cycleVars
<1>3. ASSUME NEW i \in window, ItemStep(i)
      PROVE  PauseInv' /\ \A p \in paused : target'[p] = target[p]
  <2>1. CASE ApplyToRows(i) \/ FailToApply(i) \/ ClassifyDdl(i)
    BY <2>1 DEF ApplyToRows, FailToApply, ClassifyDdl, EndCycle, storeVars, cycleVars
  <2>2. CASE RecordRowProgress(i) \/ RecordDdlProgress(i)
    BY <2>2 DEF RecordRowProgress, Delivered, RecordDdlProgress, NextItem, cycleVars
  <2>3. ASSUME NEW q \in Pipelines, Deliver(i, q) \/ DeliverFails(i, q)
        PROVE  PauseInv' /\ \A p \in paused : target'[p] = target[p]
    <3>1. pc = "deliver" /\ q \in todo /\ q \notin paused
      BY <2>3 DEF Deliver, DeliverFails, IsNextPipeline
    <3>2. \A p \in paused : target'[p] = target[p]
      <4>1. CASE DeliverDocument(i, q)
        BY <3>1, <4>1 DEF DeliverDocument
      <4> QED
        BY <2>3, <4>1 DEF Deliver, DeliverFails
    <3>3. UNCHANGED <<paused, pc, skipped>> /\ todo' \subseteq todo
      BY <2>3 DEF Deliver, DeliverFails, Visited, storeVars, cycleVars
    <3> QED
      BY <3>2, <3>3
  <2> QED
    BY <1>3, <2>1, <2>2, <2>3 DEF ItemStep
<1>4. ASSUME NEW q \in Pipelines, MarkSchemaImpact(q)
      PROVE  PauseInv' /\ target' = target
  BY <1>4 DEF MarkSchemaImpact, StopDelivering
<1>5. CASE UNCHANGED vars
  BY <1>5 DEF vars, storeVars, cycleVars, itemVars
<1> QED
  BY <1>1, <1>2, <1>3, <1>4, <1>5 DEF Next, CycleStep

(* A step that leaves the log's entries, the window and what is recorded   *)
(* alone, and takes no Pipeline out of the paused and the pending ones.    *)
LEMMA ImpactKept ==
  ASSUME TypeOK, ImpactInv,
         \A i \in committed : log'[i] = log[i],
         applied' = applied, paused \subseteq paused',
         \/ UNCHANGED <<pc, window>> /\ paused \cup todo \subseteq paused' \cup todo'
         \/ pc' \notin {"deliver", "impact"}
  PROVE  ImpactInv'
<1>1. /\ applied \subseteq committed /\ window \subseteq committed
      /\ \A i \in committed : /\ IsRow(i)' = IsRow(i) /\ IsDdl(i)' = IsDdl(i)
                             /\ Scn(i)' = Scn(i)
  BY DEF TypeOK, IsRow, IsDdl, Scn
<1>2. \A i \in applied' : IsDdl(i)' => log'[i].blocks \subseteq paused'
  BY <1>1 DEF ImpactInv
<1>3. CASE UNCHANGED <<pc, window>> /\ paused \cup todo \subseteq paused' \cup todo'
  <2>1. \A i, j \in window : Before(i, j)' = Before(i, j)
    BY <1>1 DEF Before
  <2>2. \A i \in window : IsNext(i)' = IsNext(i)
    BY <1>3, <2>1 DEF IsNext
  <2> QED
    BY <1>1, <1>2, <1>3, <2>2 DEF ImpactInv
<1>4. CASE pc' \notin {"deliver", "impact"}
  BY <1>2, <1>4 DEF ImpactInv
<1> QED
  BY <1>3, <1>4

LEMMA ImpactNext ==
  ASSUME TypeOK, ImpactInv, [Next]_vars
  PROVE  ImpactInv'
<1>1. CASE SourceStep /\ UNCHANGED <<storeVars, target, pc, cycleVars, windowVars,
                                     itemVars, crashes>>
  <2>1. \A i \in committed : log'[i] = log[i]
    BY <1>1, SourceExtends DEF TypeOK
  <2> QED
    BY <1>1, <2>1, ImpactKept DEF storeVars, windowVars, itemVars
<1>2. CASE StartCycle \/ FetchWindow \/ CaughtUp \/ Crash
  BY <1>2, ImpactKept DEF StartCycle, FetchWindow, CaughtUp, Crash, EndCycle, storeVars, sourceVars
<1>3. ASSUME NEW i \in window, ItemStep(i)
      PROVE  ImpactInv'
  <2>1. CASE ApplyToRows(i)
    <3>1. IsRow(i) /\ \A j \in window : IsNext(j) => j = i
      BY <2>1, NextIsUnique DEF ApplyToRows, IsRow, RowKinds
    <3>2. \A j \in window : IsNext(j)' = IsNext(j) /\ IsRow(j)' = IsRow(j) /\ IsDdl(j)' = IsDdl(j)
      BY <2>1 DEF ApplyToRows, windowVars, sourceVars, IsNext, Before, IsRow, IsDdl, Scn
    <3> QED
      BY <2>1, <3>1, <3>2
      DEF ApplyToRows, windowVars, sourceVars, storeVars, ImpactInv, IsDdl
  <2>2. CASE ClassifyDdl(i)
    <3>1. \A j \in window : IsNext(j) => j = i
      BY <2>2, NextIsUnique DEF ClassifyDdl
    <3>2. \A j \in window : IsNext(j)' = IsNext(j) /\ IsRow(j)' = IsRow(j) /\ IsDdl(j)' = IsDdl(j)
      BY <2>2 DEF ClassifyDdl, windowVars, sourceVars, IsNext, Before, IsRow, IsDdl, Scn
    <3> QED
      BY <2>2, <3>1, <3>2
      DEF ClassifyDdl, windowVars, sourceVars, storeVars, ImpactInv, IsDdl
  <2>3. CASE FailToApply(i)
    BY <2>3, ImpactKept DEF FailToApply, EndCycle, sourceVars
  <2>4. ASSUME NEW p \in Pipelines, Deliver(i, p) \/ DeliverFails(i, p)
        PROVE  ImpactInv'
    <3>1. pc = "deliver" /\ UNCHANGED <<sourceVars, pc, applied, paused, window>>
      BY <2>4 DEF Deliver, DeliverFails, storeVars, windowVars
    <3>2. \A j \in window : IsNext(j)' = IsNext(j) /\ IsRow(j)' = IsRow(j)
      BY <3>1 DEF sourceVars, IsNext, Before, IsRow, IsDdl, Scn
    <3> QED
      BY <3>1, <3>2 DEF ImpactInv, sourceVars, IsDdl
  <2>5. CASE RecordRowProgress(i)
    <3>1. IsRow(i) /\ ~IsDdl(i)
      BY <2>5, Entries DEF RecordRowProgress, Delivered, ImpactInv, TypeOK
    <3> QED
      BY <2>5, <3>1 DEF RecordRowProgress, NextItem, sourceVars, ImpactInv, IsDdl
  <2>6. CASE RecordDdlProgress(i)
    BY <2>6 DEF RecordDdlProgress, NextItem, sourceVars, ImpactInv, IsDdl
  <2> QED
    BY <1>3, <2>1, <2>2, <2>3, <2>4, <2>5, <2>6 DEF ItemStep
<1>4. ASSUME NEW q \in Pipelines, MarkSchemaImpact(q)
      PROVE  ImpactInv'
  BY <1>4, ImpactKept DEF MarkSchemaImpact, Visited, sourceVars, windowVars
<1>5. CASE UNCHANGED vars
  BY <1>5, ImpactKept DEF vars, sourceVars, storeVars, windowVars, itemVars
<1> QED
  BY <1>1, <1>2, <1>3, <1>4, <1>5 DEF Next, CycleStep

(* A Pipeline that a Schema Change has paused receives no document, also   *)
(* not from the cycle that read it as running: mark_schema_impact pauses   *)
(* it in the Platform Store and in that cycle's list (schema_impact.rs);   *)
(* and a Schema Change is recorded only once all that it blocks is paused, *)
(* whatever cycles died between two of the pauses.                         *)
THEOREM NoDeliveryWhilePausedHolds == Spec => NoDeliveryWhilePaused
<1> DEFINE Quiet == \A p \in Pipelines : target'[p] # target[p] =>
                      /\ p \notin paused
                      /\ \A i \in applied : IsDdl(i) => p \notin log[i].blocks
<1>1. Init => PauseInv /\ ImpactInv
  BY DEF Init, NoCycle, PauseInv, ImpactInv
<1>2. TypeOK /\ PauseInv /\ ImpactInv /\ [Next]_vars => PauseInv' /\ ImpactInv' /\ [Quiet]_vars
  <2> SUFFICES ASSUME TypeOK, PauseInv, ImpactInv, [Next]_vars
               PROVE  PauseInv' /\ ImpactInv' /\ [Quiet]_vars
    OBVIOUS
  <2>1. PauseInv' /\ [\A p \in paused : target'[p] = target[p]]_vars
    BY PauseNext
  <2>2. ASSUME ~UNCHANGED vars PROVE Quiet
    BY <2>1, <2>2 DEF ImpactInv
  <2> QED
    BY <2>1, <2>2, ImpactNext
<1>3. Spec => []TypeOK
  BY TypeCorrect
<1> QED
  BY <1>1, <1>2, <1>3, PTL DEF Spec, NoDeliveryWhilePaused

-----------------------------------------------------------------------------
(* The Target.                                                             *)

(* The three ways in which a document may relate to its Base row.          *)
IsBaseRow(p, k) == target[p][k] = base[k]

IsOneAhead(p, k) ==
  \E i \in committed : /\ IsEarliestUnapplied(i)
                       /\ Touches(i, k)
                       /\ target[p][k] = Image(i)

IsSetAside(p, k) ==
  \E i \in applied : /\ <<p, i>> \in quarantine
                     /\ Touches(i, k)
                     /\ \A j \in applied : Touches(j, k) => j <= i

Follows(p, k) == IsBaseRow(p, k) \/ IsOneAhead(p, k) \/ IsSetAside(p, k)

(* Pipeline p has been Delivered change i, or given up on it.              *)
Settled(p, i) == target[p][log[i].key] = Image(i) \/ <<p, i>> \in quarantine

(* What a cycle skips is what is paused, and it has settled the change it  *)
(* is at with every other Pipeline it no longer has to visit.              *)
TargetInv ==
  /\ \A p \in Pipelines \ paused, k \in Keys : Follows(p, k)
  /\ pc # "idle" => skipped = paused
  /\ pc = "deliver" =>
       \A i \in window, p \in Pipelines \ (paused \cup todo) : IsNext(i) => Settled(p, i)

(* The change at hand is the next one to be applied.                       *)
LEMMA NextIsEarliest ==
  ASSUME TypeOK, OrderInv, NEW i \in window, IsNext(i), IsRow(i)
  PROVE  /\ IsEarliestUnapplied(i) /\ i \in committed /\ log[i].key \in Keys
         /\ \A j \in applied : IsRow(j) => j <= i
<1>1. /\ i \in committed \ applied /\ log[i].key \in Keys
      /\ \A j \in DOMAIN log : IsRow(j) /\ j < i => j \in applied
  BY NextIsComplete DEF TypeOK, IsRow, RowChange, SchemaChange, RowKinds
<1>2. committed \subseteq DOMAIN log /\ applied \subseteq DOMAIN log /\ \A j \in DOMAIN log : j \in Nat
  BY Entries DEF TypeOK
<1>3. \A j \in applied : IsRow(j) => j <= i
  BY <1>1, <1>2 DEF OrderInv, AppliedInOrder
<1> QED
  BY <1>1, <1>2, <1>3 DEF IsEarliestUnapplied

(* There is one earliest change, so a document that is one change ahead is *)
(* ahead by the change at hand.                                            *)
LEMMA EarliestIsUnique ==
  ASSUME TypeOK, NEW i \in committed, NEW j \in committed,
         IsEarliestUnapplied(i), IsEarliestUnapplied(j)
  PROVE  i = j
<1>1. i \in Nat /\ j \in Nat
  BY Entries DEF TypeOK
<1> QED
  BY <1>1 DEF IsEarliestUnapplied

(* Neither a new change nor a commit comes before the earliest one.        *)
LEMMA SourceKeepsFollowing ==
  ASSUME TypeOK, OrderInv, SourceStep, UNCHANGED <<base, applied, quarantine, target>>,
         NEW p, NEW k, Follows(p, k)
  PROVE  Follows(p, k)'
<1>1. /\ \A i \in DOMAIN log : i \in DOMAIN log' /\ log'[i] = log[i]
      /\ committed \subseteq committed' /\ committed' \subseteq DOMAIN log'
      /\ committed \subseteq DOMAIN log /\ applied \subseteq committed
  BY SourceExtends, SourceTypeOK DEF TypeOK
<1>2. \A i \in DOMAIN log : /\ Touches(i, k)' = Touches(i, k) /\ Image(i)' = Image(i)
                            /\ IsRow(i)' = IsRow(i)
  BY <1>1 DEF Touches, IsRow, Image
<1>3. ASSUME NEW i \in committed, IsEarliestUnapplied(i) PROVE IsEarliestUnapplied(i)'
  <2>1. ASSUME NEW j \in committed' PROVE j \in committed \/ i <= j
    <3>1. i \in DOMAIN log /\ j \in DOMAIN log' /\ i \in Nat /\ j \in Nat /\ i <= Len(log)
      BY <1>1, SourceTypeOK DEF TypeOK
    <3>2. j \in DOMAIN log \/ j > Len(log)
      <4>1. DOMAIN log = 1 .. Len(log) /\ Len(log) \in Nat /\ DOMAIN log' = 1 .. Len(log')
        BY SourceTypeOK DEF TypeOK
      <4> QED
        BY <3>1, <4>1
    <3>3. j \in DOMAIN log /\ j <= i => j \in committed
      BY DEF OrderInv, CommittedPrefix
    <3> QED
      BY <3>1, <3>2, <3>3 DEF TypeOK
  <2> QED
    BY <1>1, <1>2, <1>3, <2>1 DEF IsEarliestUnapplied
<1>4. CASE IsBaseRow(p, k)
  BY <1>4 DEF IsBaseRow, Follows
<1>5. CASE IsOneAhead(p, k)
  BY <1>1, <1>2, <1>3, <1>5 DEF IsOneAhead, Follows
<1>6. CASE IsSetAside(p, k)
  BY <1>1, <1>2, <1>6 DEF IsSetAside, Follows
<1> QED
  BY <1>4, <1>5, <1>6 DEF Follows

(* Whatever a Delivery attempt does to other documents, and whatever is    *)
(* quarantined, a document that is left alone goes on following its row.   *)
LEMMA UntouchedKeepsFollowing ==
  ASSUME UNCHANGED <<log, committed, applied, base>>, quarantine \subseteq quarantine',
         NEW p, NEW k, target'[p][k] = target[p][k], Follows(p, k)
  PROVE  Follows(p, k)'
<1>1. CASE IsBaseRow(p, k)
  BY <1>1 DEF IsBaseRow, Follows
<1>2. CASE IsOneAhead(p, k)
  BY <1>2 DEF IsOneAhead, Follows, IsEarliestUnapplied, Touches, IsRow, Image
<1>3. CASE IsSetAside(p, k)
  BY <1>3 DEF IsSetAside, Follows, Touches, IsRow
<1> QED
  BY <1>1, <1>2, <1>3 DEF Follows

LEMMA DeliveryKeepsFollowing ==
  ASSUME TypeOK, OrderInv, RowsFollowBase, TargetInv, NEW i \in window, NEW p \in Pipelines,
         pc = "deliver", IsNext(i), IsNextPipeline(p),
         DeliverDocument(i, p) \/ target' = target,
         UNCHANGED <<log, committed, applied, base, paused, skipped, pc, window>>,
         quarantine \subseteq quarantine',
         todo' = todo \/ (todo' = todo \ {p} /\ Settled(p, i)')
  PROVE  TargetInv'
<1>1. /\ IsRow(i) /\ rows[log[i].key] = Image(i) /\ log[i].key \in Keys
      /\ IsEarliestUnapplied(i) /\ i \in committed
  <2>1. /\ log[i].kind \in {"upsert", "delete"}
        /\ rows = [base EXCEPT ![log[i].key] = Image(i)]
    BY NextIsUnique DEF RowsFollowBase
  <2>2. IsRow(i)
    BY <2>1 DEF IsRow, RowKinds
  <2>3. log[i].key \in Keys /\ IsEarliestUnapplied(i) /\ i \in committed
    BY <2>2, NextIsEarliest
  <2> QED
    BY <2>1, <2>2, <2>3 DEF TypeOK, Versions
<1>2. \A j \in window : /\ IsNext(j)' = IsNext(j) /\ Image(j)' = Image(j)
                        /\ log'[j] = log[j]
  BY DEF IsNext, Before, Scn, IsRow, IsDdl, Image
<1>3. \A q \in Pipelines, k \in Keys :
        \/ target'[q][k] = target[q][k]
        \/ q = p /\ k = log[i].key /\ target'[q][k] = Image(i)
  BY <1>1 DEF DeliverDocument, TypeOK, Versions
<1>4. ASSUME NEW q \in Pipelines \ paused, NEW k \in Keys PROVE Follows(q, k)'
  <2>1. CASE target'[q][k] = target[q][k]
    BY <2>1, UntouchedKeepsFollowing DEF TargetInv
  <2>2. CASE k = log[i].key /\ target'[q][k] = Image(i)
    <3>1. IsEarliestUnapplied(i)' /\ Touches(i, k)' /\ i \in committed' /\ Image(i)' = Image(i)
      BY <1>1, <2>2 DEF IsEarliestUnapplied, Touches, IsRow, Image
    <3> QED
      BY <2>2, <3>1 DEF Follows, IsOneAhead
  <2> QED
    BY <1>3, <2>1, <2>2
<1>5. ASSUME NEW j \in window, NEW q \in Pipelines \ (paused \cup todo'), IsNext(j)
      PROVE  Settled(q, j)'
  <2>1. j = i
    BY <1>5, NextIsUnique
  <2>2. CASE q \in todo
    BY <2>1, <2>2
  <2>3. CASE q \notin todo
    <3>1. Settled(q, i) /\ q # p
      BY <2>1, <2>3, <1>5 DEF TargetInv, IsNextPipeline
    <3>2. target'[q][log[i].key] = target[q][log[i].key]
      BY <1>1, <1>3, <3>1
    <3> QED
      BY <1>2, <2>1, <3>1, <3>2 DEF Settled
  <2> QED
    BY <2>2, <2>3
<1> QED
  BY <1>2, <1>4, <1>5 DEF TargetInv

(* Recording a change turns the documents that are ahead by it into copies *)
(* of the Base row, and those that gave it up into documents set aside.    *)
LEMMA RecordKeepsFollowing ==
  ASSUME TypeOK, OrderInv, RowsFollowBase, TargetInv, NEW i \in window, RecordRowProgress(i)
  PROVE  TargetInv'
<1>1. /\ pc = "deliver" /\ IsNext(i) /\ todo = {} /\ applied' = applied \cup {i}
      /\ UNCHANGED <<log, committed, paused, quarantine, target, skipped>>
      /\ base' = [base EXCEPT ![log[i].key] = rows[log[i].key]]
      /\ pc' # "deliver"
  BY DEF RecordRowProgress, Delivered, NextItem, sourceVars, cycleVars
<1>2. log[i].kind \in {"upsert", "delete"} /\ rows = [base EXCEPT ![log[i].key] = Image(i)]
  BY <1>1, NextIsUnique DEF RowsFollowBase
<1>3. /\ IsRow(i) /\ IsEarliestUnapplied(i) /\ i \in committed /\ log[i].key \in Keys
      /\ \A j \in applied : IsRow(j) => j <= i
  BY <1>1, <1>2, NextIsEarliest DEF IsRow, RowKinds
<1>4. \A k \in Keys : base'[k] = IF k = log[i].key THEN Image(i) ELSE base[k]
  BY <1>1, <1>2, <1>3 DEF TypeOK, Versions
<1>5. \A j, k : Touches(j, k)' = Touches(j, k)
  BY <1>1 DEF Touches, IsRow
<1>6. ASSUME NEW p \in Pipelines \ paused, NEW k \in Keys PROVE Follows(p, k)'
  <2>1. CASE k = log[i].key
    <3>1. Settled(p, i) /\ Touches(i, k)
      BY <1>1, <1>3, <2>1 DEF TargetInv, Touches
    <3>2. CASE target[p][k] = Image(i)
      BY <1>1, <1>4, <2>1, <3>2 DEF Follows, IsBaseRow
    <3>3. CASE <<p, i>> \in quarantine
      <4>1. i \in Nat
        BY <1>3, Entries DEF TypeOK
      <4>2. \A j \in applied' : Touches(j, k)' => j <= i
        BY <1>1, <1>3, <1>5, <4>1 DEF Touches
      <4> QED
        BY <1>1, <1>5, <3>1, <3>3, <4>2 DEF Follows, IsSetAside
    <3> QED
      BY <2>1, <3>1, <3>2, <3>3 DEF Settled
  <2>2. CASE k # log[i].key
    <3>1. ~Touches(i, k) /\ base'[k] = base[k] /\ target'[p][k] = target[p][k]
      BY <1>1, <1>4, <2>2 DEF Touches
    <3>2. ~IsOneAhead(p, k)
      BY <1>3, <3>1, EarliestIsUnique DEF IsOneAhead
    <3>3. CASE IsBaseRow(p, k)
      BY <3>1, <3>3 DEF Follows, IsBaseRow
    <3>4. CASE IsSetAside(p, k)
      BY <1>1, <1>5, <3>1, <3>4 DEF Follows, IsSetAside
    <3> QED
      BY <3>2, <3>3, <3>4, <1>6 DEF TargetInv, Follows
  <2> QED
    BY <2>1, <2>2
<1>7. pc # "idle"
  BY <1>1
<1> QED
  BY <1>1, <1>6, <1>7 DEF TargetInv

(* A step that touches neither documents nor the Base Dataset, and does    *)
(* not stand in the middle of a Delivery.                                  *)
LEMMA FollowingStutter ==
  ASSUME UNCHANGED <<log, committed, applied, base, quarantine, target>>,
         paused \subseteq paused', TargetInv,
         pc' # "idle" => skipped' = paused', pc' # "deliver"
  PROVE  TargetInv'
<1>1. ASSUME NEW p \in Pipelines \ paused', NEW k \in Keys PROVE Follows(p, k)'
  <2>1. Follows(p, k) /\ target'[p][k] = target[p][k]
    BY DEF TargetInv
  <2> QED
    BY <2>1, UntouchedKeepsFollowing
<1> QED
  BY <1>1 DEF TargetInv

LEMMA TargetInit == Init => TargetInv
<1> SUFFICES ASSUME Init PROVE TargetInv
  OBVIOUS
<1>1. /\ pc = "idle" /\ base = handoff /\ target = [p \in Pipelines |-> handoff]
  BY DEF Init, NoCycle
<1> QED
  BY <1>1 DEF TargetInv, Follows, IsBaseRow

LEMMA TargetNext ==
  ASSUME TypeOK, OrderInv, ReplayInv, TargetInv, [Next]_vars
  PROVE  TargetInv'
<1>0. RowsFollowBase
  BY DEF ReplayInv
<1>1. CASE SourceStep /\ UNCHANGED <<storeVars, target, pc, cycleVars, windowVars,
                                     itemVars, crashes>>
  <2>1. UNCHANGED <<base, applied, quarantine, target, paused, skipped, pc, window, todo>>
    BY <1>1 DEF storeVars, cycleVars, windowVars, itemVars
  <2>2. \A i \in window : i \in DOMAIN log /\ log'[i] = log[i]
    BY <1>1, SourceExtends DEF TypeOK
  <2>3. \A i \in window : IsNext(i)' = IsNext(i) /\ Image(i)' = Image(i)
    BY <2>1, <2>2 DEF IsNext, Before, Scn, IsRow, IsDdl, Image
  <2>4. \A p \in Pipelines \ paused, k \in Keys : Follows(p, k)'
    BY <1>1, <2>1, SourceKeepsFollowing DEF TargetInv
  <2> QED
    BY <2>1, <2>2, <2>3, <2>4 DEF TargetInv, Settled
<1>2. CASE StartCycle \/ FetchWindow \/ CaughtUp \/ Crash
  <2>1. /\ UNCHANGED <<log, committed, applied, base, quarantine, target, paused>>
        /\ pc' # "deliver" /\ (pc' # "idle" => skipped' = paused')
    BY <1>2 DEF StartCycle, FetchWindow, CaughtUp, Crash, EndCycle, storeVars, sourceVars,
                cycleVars, TargetInv
  <2> QED
    BY <2>1, FollowingStutter
<1>3. ASSUME NEW i \in window, ItemStep(i) PROVE TargetInv'
  <2>1. CASE ApplyToRows(i)
    <3>1. /\ UNCHANGED <<log, committed, applied, base, quarantine, target, paused, skipped, window>>
          /\ pc = "item" /\ todo' = Pipelines \ skipped
      BY <2>1 DEF ApplyToRows, sourceVars, storeVars, windowVars
    <3>2. \A p \in Pipelines \ paused, k \in Keys : Follows(p, k)'
      BY <3>1, UntouchedKeepsFollowing DEF TargetInv
    <3> QED
      BY <3>1, <3>2 DEF TargetInv
  <2>2. CASE FailToApply(i)
    <3>1. /\ UNCHANGED <<log, committed, applied, quarantine, target, paused>>
          /\ base' = base /\ pc' = "idle"
      BY <1>0, <2>2 DEF FailToApply, EndCycle, RowsFollowBase, sourceVars
    <3> QED
      BY <3>1, FollowingStutter
  <2>3. ASSUME NEW p \in Pipelines, Deliver(i, p) PROVE TargetInv'
    <3>1. /\ pc = "deliver" /\ IsNext(i) /\ IsNextPipeline(p) /\ DeliverDocument(i, p)
          /\ todo' = todo \ {p}
          /\ UNCHANGED <<log, committed, applied, base, paused, skipped, pc, window, quarantine, rows>>
      BY <2>3 DEF Deliver, Visited, sourceVars, storeVars, cycleVars, windowVars
    <3>2. log[i].kind \in {"upsert", "delete"} /\ rows = [base EXCEPT ![log[i].key] = Image(i)]
      BY <1>0, <3>1, NextIsUnique DEF RowsFollowBase
    <3>3. log[i].key \in Keys /\ Image(i)' = Image(i)
      BY <3>1, <3>2, NextIsEarliest DEF IsRow, RowKinds, Image
    <3>4. target'[p][log[i].key] = Image(i)
      BY <3>1, <3>2, <3>3 DEF DeliverDocument, TypeOK, Versions
    <3> QED
      BY <1>0, <3>1, <3>3, <3>4, DeliveryKeepsFollowing DEF Settled
  <2>4. ASSUME NEW p \in Pipelines, DeliverFails(i, p) PROVE TargetInv'
    <3>1. /\ pc = "deliver" /\ IsNext(i) /\ IsNextPipeline(p)
          /\ DeliverDocument(i, p) \/ target' = target
          /\ UNCHANGED <<log, committed, applied, base, paused, skipped, pc, window>>
      BY <2>4 DEF DeliverFails, sourceVars, cycleVars, windowVars
    <3>2. /\ quarantine \subseteq quarantine'
          /\ todo' = todo \/ (todo' = todo \ {p} /\ <<p, i>> \in quarantine')
      BY <2>4 DEF DeliverFails, Quarantine, Visited
    <3> QED
      BY <1>0, <3>1, <3>2, DeliveryKeepsFollowing DEF Settled
  <2>5. CASE RecordRowProgress(i)
    BY <1>0, <2>5, RecordKeepsFollowing
  <2>6. CASE ClassifyDdl(i)
    <3>1. /\ UNCHANGED <<log, committed, applied, base, quarantine, target, paused, skipped>>
          /\ pc = "item" /\ pc' = "impact"
      BY <2>6 DEF ClassifyDdl, sourceVars, storeVars, cycleVars
    <3> QED
      BY <3>1, FollowingStutter DEF TargetInv
  <2>7. CASE RecordDdlProgress(i)
    <3>1. /\ UNCHANGED <<log, committed, quarantine, target, paused, skipped>>
          /\ pc = "impact" /\ pc' # "deliver" /\ applied' = applied \cup {i} /\ base' = rows
          /\ IsNext(i)
      BY <2>7 DEF RecordDdlProgress, NextItem, sourceVars, cycleVars
    <3>2. rows = base /\ ~IsRow(i)
      BY <1>0, <3>1, NextIsUnique, Entries DEF RowsFollowBase, TypeOK
    <3>3. ASSUME NEW p \in Pipelines \ paused, NEW k \in Keys PROVE Follows(p, k)'
      <4>1. /\ \A j : Touches(j, k)' = Touches(j, k) /\ Image(j)' = Image(j) /\ IsRow(j)' = IsRow(j)
            /\ ~Touches(i, k)
        BY <3>1, <3>2 DEF Touches, IsRow, Image
      <4>2. CASE IsBaseRow(p, k)
        BY <3>1, <3>2, <4>2 DEF Follows, IsBaseRow
      <4>3. CASE IsOneAhead(p, k)
        BY <3>1, <3>2, <4>1, <4>3 DEF Follows, IsOneAhead, IsEarliestUnapplied, Touches
      <4>4. CASE IsSetAside(p, k)
        BY <3>1, <3>2, <4>1, <4>4 DEF Follows, IsSetAside
      <4> QED
        BY <3>3, <4>2, <4>3, <4>4 DEF TargetInv, Follows
    <3> QED
      BY <3>1, <3>3 DEF TargetInv
  <2> QED
    BY <1>3, <2>1, <2>2, <2>3, <2>4, <2>5, <2>6, <2>7 DEF ItemStep
<1>4. ASSUME NEW p \in Pipelines, MarkSchemaImpact(p) PROVE TargetInv'
  <2>1. /\ UNCHANGED <<log, committed, applied, base, quarantine, target, pc>>
        /\ pc = "impact" /\ paused' = paused \cup {p} /\ skipped' = skipped \cup {p}
    BY <1>4 DEF MarkSchemaImpact, StopDelivering, sourceVars
  <2> QED
    BY <2>1, FollowingStutter DEF TargetInv
<1>5. CASE UNCHANGED vars
  <2>1. UNCHANGED <<log, committed, applied, base, quarantine, target, paused, skipped, pc, window, todo>>
    BY <1>5 DEF vars, sourceVars, storeVars, cycleVars, windowVars, itemVars
  <2>2. \A p \in Pipelines \ paused, k \in Keys : Follows(p, k)'
    BY <2>1, UntouchedKeepsFollowing DEF TargetInv
  <2> QED
    BY <2>1, <2>2 DEF TargetInv, Settled, IsNext, Before, Scn, IsRow, IsDdl, Image
<1> QED
  BY <1>1, <1>2, <1>3, <1>4, <1>5 DEF Next, CycleStep

(* A Target is at most one change ahead of the Base Dataset, and differs   *)
(* otherwise only in rows whose last change was quarantined: a crash, a    *)
(* failed attempt that reached the Target and a Delivery made again leave  *)
(* nothing else behind (run_sync_engines_cycle_with_gateways Delivers      *)
(* before record_sync_row_progress; poison.rs).                            *)
THEOREM TargetFollowsBaseHolds ==
  ASSUME CommitsInOrder
  PROVE  Spec => []TargetFollowsBase
<1>1. Spec => [](TypeOK /\ OrderInv /\ ReplayInv)
  BY Inductive
<1>2. Init => TargetInv
  BY TargetInit
<1>3. TypeOK /\ OrderInv /\ ReplayInv /\ TargetInv /\ [Next]_vars => TargetInv'
  BY TargetNext
<1>4. TargetInv => TargetFollowsBase
  BY DEF TargetInv, TargetFollowsBase, Follows, IsBaseRow, IsOneAhead, IsSetAside
<1> QED
  BY <1>1, <1>2, <1>3, <1>4, PTL DEF Spec

(* The image a document changes to is that of the change at hand, which is *)
(* not recorded yet.                                                       *)
LEMMA DeliversUnrecorded ==
  ASSUME TypeOK, OrderInv, ReplayInv, [Next]_vars,
         NEW p \in Pipelines, NEW k \in Keys, target'[p][k] # target[p][k]
  PROVE  target'[p][k] \notin applied
<1>1. PICK i \in window, q \in Pipelines : DeliverDocument(i, q) /\ pc = "deliver" /\ IsNext(i)
  <2>1. target' # target
    OBVIOUS
  <2>2. \E i \in window, q \in Pipelines : Deliver(i, q) \/ DeliverFails(i, q)
    BY <2>1 DEF Next, CycleStep, ItemStep, StartCycle, FetchWindow, CaughtUp, ApplyToRows,
                FailToApply, RecordRowProgress, ClassifyDdl, RecordDdlProgress,
                MarkSchemaImpact, Crash, vars
  <2> QED
    BY <2>1, <2>2 DEF Deliver, DeliverFails
<1>2. log[i].kind \in {"upsert", "delete"} /\ rows = [base EXCEPT ![log[i].key] = Image(i)]
  BY <1>1, NextIsUnique DEF ReplayInv, RowsFollowBase
<1>3. log[i].key \in Keys /\ i \notin applied
  BY <1>1, <1>2, NextIsEarliest, NextIsComplete DEF IsRow, RowKinds
<1>4. target'[p][k] = Image(i)
  BY <1>1, <1>2, <1>3 DEF DeliverDocument, TypeOK, Versions
<1>5. Absent \notin applied
  BY Entries, SourceAssumption DEF TypeOK
<1> QED
  BY <1>3, <1>4, <1>5 DEF Image

(* No document is ever given an image that the Base Dataset has recorded   *)
(* and perhaps moved past, whatever is retried or read again (inclusive    *)
(* resume with change ids, incremental.rs).                                *)
THEOREM NoRedeliveryOfRecordedHolds ==
  ASSUME CommitsInOrder
  PROVE  Spec => NoRedeliveryOfRecorded
<1>1. Spec => [](TypeOK /\ OrderInv /\ ReplayInv)
  BY Inductive
<1>2. TypeOK /\ OrderInv /\ ReplayInv /\ [Next]_vars =>
        [\A p \in Pipelines, k \in Keys :
           target'[p][k] # target[p][k] => target'[p][k] \notin applied]_vars
  BY DeliversUnrecorded
<1> QED
  BY <1>1, <1>2, PTL DEF Spec, NoRedeliveryOfRecorded

=============================================================================
