----------------------- MODULE PipelineLifecycleProofs -----------------------
(***************************************************************************)
(* Theorems of PipelineLifecycle, for any Source rows, Pipelines, bounds   *)
(* and verbs the theorem's assumption allows.                              *)
(***************************************************************************)
EXTENDS PipelineLifecycle, TLAPS

LEMMA InitTyped == ASSUME LifecycleAssumption, Init PROVE TypeOK
<1>1. /\ NoRows \in Rows /\ [k \in Keys |-> 0] \in Rows
      /\ NoPipes \in [Pipelines -> Stored] /\ [p \in Pipelines |-> 0] \in [Pipelines -> Nat]
  BY DEF Rows, Images, NoRows, NoPipes, NoPipe, Stored
<1>2. log = << >> /\ log \in Seq([key : Keys, image : Images])
  BY DEF Init
<1>3. base \in [status : {"none", "loading", "ready"}, rows : Rows, position : Nat]
  BY <1>1 DEF Init
<1>4. pipe \in [Pipelines -> Stored]
  BY DEF Init, Stored, NoPipe
<1>5. derived \in [Pipelines -> Rows]
  BY <1>1 DEF Init
<1>6. NoRows \in Documents /\ [k \in Keys |-> Document(0, 1)] \in Documents
  BY DEF NoRows, Documents, Document, LifecycleAssumption
<1>7. target \in [Pipelines -> Documents]
  BY <1>6 DEF Init
<1> QED
  BY <1>1, <1>2, <1>3, <1>4, <1>5, <1>7 DEF Init, TypeOK, NoCycle, NoVerb, LifecycleAssumption

LEMMA DocumentTyped ==
  ASSUME NEW image \in Images, NEW rev \in Nat
  PROVE  Document(image, rev) \in (Nat \X Nat) \cup {Absent}
BY DEF Document, Images

LEMMA EntryTyped ==
  ASSUME NEW S, NEW s \in Seq(S), NEW i \in 1 .. Len(s) PROVE s[i] \in S
OBVIOUS

LEMMA StoredFields ==
  ASSUME NEW f \in [Pipelines -> Stored], NEW p \in Pipelines, NEW b \in BOOLEAN
  PROVE  /\ [f EXCEPT ![p].paused = b] \in [Pipelines -> Stored]
         /\ [f EXCEPT ![p].delivered = b] \in [Pipelines -> Stored]
<1>1. f[p] \in Stored
  OBVIOUS
<1>2. [f[p] EXCEPT !.paused = b] \in Stored /\ [f[p] EXCEPT !.delivered = b] \in Stored
  BY <1>1 DEF Stored
<1> QED
  BY <1>2

LEMMA FieldsKept ==
  ASSUME NEW f \in [Pipelines -> Stored], NEW p \in Pipelines, NEW q \in Pipelines,
         NEW b \in BOOLEAN
  PROVE  /\ [f EXCEPT ![p].paused = b][q].rev = f[q].rev
         /\ [f EXCEPT ![p].delivered = b][q].rev = f[q].rev
         /\ [f EXCEPT ![p].delivered = b][q].paused = f[q].paused
         /\ [f EXCEPT ![p].paused = b][q].paused = IF q = p THEN b ELSE f[q].paused
<1>1. f[p] \in Stored
  OBVIOUS
<1> QED
  BY <1>1 DEF Stored

LEMMA EndCycleTyped ==
  ASSUME EndCycle
  PROVE  /\ listed' \in [Pipelines -> Stored] /\ rows' \in Rows /\ position' \in Nat
         /\ todo' \in SUBSET Pipelines /\ cpc' = "idle"
BY DEF EndCycle, NoPipes, NoPipe, Stored, NoRows, Rows, Images

LEMMA EndVerbTyped ==
  ASSUME EndVerb
  PROVE  /\ existing' \in [Pipelines -> Stored] /\ wanted' \in [Pipelines -> Nat]
         /\ {catchUp', revised', starts'} \subseteq SUBSET Pipelines
         /\ snapshot' \in Rows /\ vpc' = "none"
BY DEF EndVerb, NoPipes, NoPipe, Stored, NoRows, Rows, Images

(* One step per action.                                                    *)
LEMMA TypeStep ==
  ASSUME LifecycleAssumption, TypeOK, [Next]_vars PROVE TypeOK'
<1> USE DEF TypeOK
<1>1. CASE UNCHANGED vars
  BY <1>1 DEF vars, cycleVars, verbVars
<1>2. CASE SourceChange
  <2>1. log' \in Seq([key : Keys, image : Images])
    BY <1>2 DEF SourceChange, Images
  <2> QED
    BY <1>2, <2>1 DEF SourceChange, cycleVars, verbVars
<1>3. CASE CycleStart
  BY <1>3 DEF CycleStart, verbVars
<1>4. CASE CycleReadBase
  <2>1. CASE base.status = "ready"
    BY <1>4, <2>1 DEF CycleReadBase, verbVars
  <2>2. CASE base.status # "ready"
    BY <1>4, <2>2, EndCycleTyped DEF CycleReadBase, verbVars
  <2> QED
    BY <2>1, <2>2
<1>5. CASE CycleApply
  <2>1. Change \in [key : Keys, image : Images]
    <3>1. position + 1 \in 1 .. Len(log)
      BY <1>5 DEF CycleApply
    <3>2. \A i \in 1 .. Len(log) : log[i] \in [key : Keys, image : Images]
      BY EntryTyped
    <3> QED
      BY <3>1, <3>2 DEF Change
  <2>2. rows' \in Rows
    BY <1>5, <2>1 DEF CycleApply, Rows
  <2>3. todo' \in SUBSET Pipelines
    BY <1>5 DEF CycleApply, Running, Declared
  <2> QED
    BY <1>5, <2>2, <2>3 DEF CycleApply, verbVars
<1>6. ASSUME NEW p \in Pipelines, CycleMaintain(p) PROVE TypeOK'
  <2>1. derived[p] \in [Keys -> Images] /\ (Change.key \in Keys => rows[Change.key] \in Images)
    BY DEF Rows
  <2>2. Maintained(p) \in Rows
    BY <2>1 DEF Maintained, Rows
  <2>3. derived' \in [Pipelines -> Rows]
    BY <1>6, <2>2 DEF CycleMaintain
  <2> QED
    BY <1>6, <2>3 DEF CycleMaintain, verbVars
<1>7. ASSUME NEW p \in Pipelines, CycleDeliver(p) PROVE TypeOK'
  <2>0. target[p] \in [Keys -> (Nat \X Nat) \cup {Absent}]
    BY DEF Documents
  <2>1. Change.key \in Keys =>
          Document(rows[Change.key], listed[p].rev) \in (Nat \X Nat) \cup {Absent}
    BY DocumentTyped DEF Rows, Stored
  <2>2. [target[p] EXCEPT ![Change.key] = Document(rows[Change.key], listed[p].rev)]
          \in Documents
    BY <2>0, <2>1 DEF Documents
  <2>3. target' \in [Pipelines -> Documents]
    BY <1>7, <2>2 DEF CycleDeliver
  <2> QED
    BY <1>7, <2>3 DEF CycleDeliver, verbVars
<1>8. ASSUME NEW p \in Pipelines, CycleProgress(p) PROVE TypeOK'
  <2>1. CASE pipe[p].rev = 0
    BY <1>8, <2>1, EndCycleTyped DEF CycleProgress, verbVars
  <2>2. CASE pipe[p].rev # 0
    <3>1. pipe' \in [Pipelines -> Stored]
      <4>1. pipe' = pipe \/ pipe' = [pipe EXCEPT ![p].delivered = TRUE]
        BY <1>8, <2>2 DEF CycleProgress
      <4>2. [pipe EXCEPT ![p].delivered = TRUE] \in [Pipelines -> Stored]
        BY <1>8, StoredFields
      <4> QED
        BY <4>1, <4>2
    <3> QED
      BY <1>8, <2>2, <3>1 DEF CycleProgress, verbVars
  <2> QED
    BY <2>1, <2>2
<1>9. CASE CycleRecord
  <2>1. RecordedRows \in Rows
    BY DEF RecordedRows, Rows
  <2> QED
    BY <1>9, <2>1 DEF CycleRecord, verbVars
<1>10. CASE CycleLag
  <2>1. CASE Declared(listed) \subseteq Declared(pipe)
    BY <1>10, <2>1 DEF CycleLag, verbVars
  <2>2. CASE ~(Declared(listed) \subseteq Declared(pipe))
    BY <1>10, <2>2, EndCycleTyped DEF CycleLag, verbVars
  <2> QED
    BY <2>1, <2>2
<1>11. CASE CycleCaughtUp
  <2>1. base' \in [status : {"none", "loading", "ready"}, rows : Rows, position : Nat]
    BY <1>11 DEF CycleCaughtUp
  <2> QED
    BY <1>11, <2>1, EndCycleTyped DEF CycleCaughtUp, verbVars
<1>12. CASE CycleCrash
  BY <1>12, EndCycleTyped DEF CycleCrash, verbVars, LifecycleAssumption
<1>13. ASSUME NEW verb, VerbStarts(verb) PROVE verbs' \in 0 .. MaxVerbs
  BY <1>13 DEF VerbStarts, LifecycleAssumption
<1>14. ASSUME NEW p \in Pipelines, Pause(p) PROVE TypeOK'
  <2>1. pipe' \in [Pipelines -> Stored]
    BY <1>14, StoredFields DEF Pause
  <2> QED
    BY <1>13, <1>14, <2>1 DEF Pause, cycleVars, verbVars
<1>15. ASSUME NEW p \in Pipelines, Resume(p) PROVE TypeOK'
  <2>1. pipe' \in [Pipelines -> Stored]
    BY <1>15, StoredFields DEF Resume
  <2>2. \A q \in Pipelines : pipe[q].rev \in Nat
    BY DEF Stored
  <2>3. wanted' \in [Pipelines -> Nat]
    BY <1>15, <2>2 DEF Resume
  <2> QED
    BY <1>13, <1>15, <2>1, <2>3 DEF Resume, cycleVars
<1>16. NoBase \in [status : {"none", "loading", "ready"}, rows : Rows, position : Nat]
  BY DEF NoBase, NoRows, Rows, Images
<1>17. ASSUME NEW p \in Pipelines, Remove(p) PROVE TypeOK'
  <2>1. pipe' \in [Pipelines -> Stored]
    BY <1>17 DEF Remove, Stored, NoPipe
  <2>2. derived' \in [Pipelines -> Rows]
    BY <1>17 DEF Remove, NoRows, Rows, Images
  <2>3. base' \in [status : {"none", "loading", "ready"}, rows : Rows, position : Nat]
    BY <1>16, <1>17 DEF Remove, Pruned
  <2> QED
    BY <1>13, <1>17, <2>1, <2>2, <2>3 DEF Remove, cycleVars, verbVars
<1>18. CASE ApplyStart
  <2>1. wanted' \in [Pipelines -> Nat] /\ revised' \in SUBSET Pipelines
    BY <1>18 DEF ApplyStart, Declared, LifecycleAssumption
  <2> QED
    BY <1>13, <1>18, <2>1 DEF ApplyStart, cycleVars
<1>19. ASSUME NEW p \in Pipelines, PauseOld(p) PROVE TypeOK'
  <2>1. pipe' \in [Pipelines -> Stored]
    BY <1>19, StoredFields DEF PauseOld
  <2> QED
    BY <1>19, <2>1 DEF PauseOld, cycleVars, verbVars
<1>20. CASE ReplacePipelines
  <2>1. \A p \in Pipelines : Replaced(p) \in Stored
    BY DEF Replaced, Stored, NoPipe
  <2>2. pipe' \in [Pipelines -> Stored]
    BY <1>20, <2>1 DEF ReplacePipelines
  <2>3. derived' \in [Pipelines -> Rows]
    BY <1>20 DEF ReplacePipelines, NoRows, Rows, Images
  <2> QED
    BY <1>20, <2>2, <2>3 DEF ReplacePipelines, cycleVars
<1>21. CASE SyncBase
  <2>1. base' \in [status : {"none", "loading", "ready"}, rows : Rows, position : Nat]
    <3>1. CASE Declared(pipe) = {} \/ base.status = "ready"
      BY <1>16, <1>21, <3>1 DEF SyncBase, Pruned
    <3>2. CASE ~(Declared(pipe) = {} \/ base.status = "ready")
      <4> DEFINE W == IF base.status = "loading" THEN base.position ELSE Len(log)
      <4>1. PICK table \in Tables(W), S \in SUBSET Keys :
              base' = [status   |-> IF S = Keys THEN "ready" ELSE "loading",
                       rows     |-> [k \in Keys |-> IF k \in S THEN table[k] ELSE Absent],
                       position |-> W]
        BY <1>21, <3>2 DEF SyncBase
      <4>2. [k \in Keys |-> IF k \in S THEN table[k] ELSE Absent] \in Rows
        BY <4>1 DEF Tables, Rows, Images
      <4>3. W \in Nat
        OBVIOUS
      <4> HIDE DEF W
      <4> QED
        BY <4>1, <4>2, <4>3
    <3> QED
      BY <3>1, <3>2
  <2> QED
    BY <1>21, <2>1 DEF SyncBase, cycleVars
<1>22. ASSUME NEW p \in Pipelines, DeliverRead(p) PROVE TypeOK'
  <2>1. CASE base.status = "none"
    BY <1>22, <2>1, EndVerbTyped DEF DeliverRead, cycleVars
  <2>2. CASE base.status # "none"
    BY <1>22, <2>2 DEF DeliverRead, cycleVars
  <2> QED
    BY <2>1, <2>2
<1>23. ASSUME NEW p \in Pipelines, ReplaceDerived(p) PROVE TypeOK'
  BY <1>23 DEF ReplaceDerived, cycleVars
<1>24. ASSUME NEW p \in Pipelines, UpsertAll(p) PROVE TypeOK'
  <2>1. \A k \in Keys : /\ Document(snapshot[k], wanted[p]) \in (Nat \X Nat) \cup {Absent}
                        /\ target[p][k] \in (Nat \X Nat) \cup {Absent}
    BY DocumentTyped DEF Rows, Documents
  <2>2. target' \in [Pipelines -> Documents]
    BY <1>24, <2>1 DEF UpsertAll, Documents
  <2> QED
    BY <1>24, <2>2 DEF UpsertAll, cycleVars
<1>25. ASSUME NEW p \in Pipelines, ReconcileDeletes(p) PROVE TypeOK'
  <2>1. \A k \in Keys : target[p][k] \in (Nat \X Nat) \cup {Absent}
    BY DEF Documents
  <2>2. target' \in [Pipelines -> Documents]
    BY <1>25, <2>1 DEF ReconcileDeletes, Documents
  <2> QED
    BY <1>25, <2>2 DEF ReconcileDeletes, cycleVars
<1>26. ASSUME NEW p \in Pipelines, RecordDelivered(p) PROVE TypeOK'
  <2>1. pipe' \in [Pipelines -> Stored]
    BY <1>26, StoredFields DEF RecordDelivered
  <2>2. NoRows \in Rows
    BY DEF NoRows, Rows, Images
  <2>3. catchUp' \in SUBSET Pipelines /\ starts' \in SUBSET Pipelines
    BY <1>26 DEF RecordDelivered
  <2> QED
    BY <1>26, <2>1, <2>2, <2>3 DEF RecordDelivered, cycleVars
<1>27. ASSUME NEW p \in Pipelines, UnpauseRevised(p) PROVE TypeOK'
  <2>1. pipe' \in [Pipelines -> Stored]
    BY <1>27, StoredFields DEF UnpauseRevised
  <2> QED
    BY <1>27, <2>1 DEF UnpauseRevised, cycleVars
<1>28. CASE VerbEnds \/ VerbStops
  BY <1>28, EndVerbTyped DEF VerbEnds, VerbStops, cycleVars
<1> QED
  BY <1>1, <1>2, <1>3, <1>4, <1>5, <1>6, <1>7, <1>8, <1>9, <1>10, <1>11, <1>12, <1>14, <1>15,
     <1>17, <1>18, <1>19, <1>20, <1>21, <1>22, <1>23, <1>24, <1>25, <1>26, <1>27, <1>28
     DEF Next, Cycle, Operator, VerbStep, Delivery

(* The verbs and the cycles keep to the states declared, whatever order    *)
(* they run in (PipelineLifecycle's variables and their stores).           *)
THEOREM TypeCorrect == ASSUME LifecycleAssumption PROVE Spec => []TypeOK
<1>1. Init => TypeOK
  BY InitTyped
<1>2. TypeOK /\ [Next]_vars => TypeOK'
  BY TypeStep
<1> QED
  BY <1>1, <1>2, PTL DEF Spec

-----------------------------------------------------------------------------
(* A cycle works on the Base Dataset it read: nothing prunes it meanwhile. *)
(* Either verbs wait for the cycle, or none removes a Pipeline, and then   *)
(* apply keeps the Base Dataset, since it keeps every Pipeline.            *)

NoOverlap == ~Interleaved => (cpc = "idle" \/ vpc = "none")

(* Without removals, a Pipeline that was declared stays declared.          *)
PipelinesStay ==
  "remove" \notin Verbs =>
    /\ base.status # "none" => Declared(pipe) # {}
    /\ vpc = "replace" => \A p \in Declared(pipe) : wanted[p] # 0

CycleOnBase ==
  /\ base.status # "none" => base.position <= Len(log)
  /\ cpc \notin {"idle", "read"} => base.status = "ready" /\ base.position = position
  /\ cpc \in {"deliver", "write", "progress"} =>
       position < Len(log) /\ rows = [base.rows EXCEPT ![Change.key] = Change.image]
  /\ cpc \in {"item", "lag"} => rows = base.rows

BaseInv == NoOverlap /\ PipelinesStay /\ CycleOnBase /\ BaseIsPrefix

(* Base and Pipelines correspond, except between the two transactions in   *)
(* which apply replaces the Pipelines and prunes the Base Dataset.         *)
ReferenceInv ==
  vpc # "base" => ((base.status = "none") <=> (Declared(pipe) = {}))

(* What a cycle listed is still so, and what a verb is to Deliver may be   *)
(* Delivered.                                                              *)
CycleList ==
  /\ cpc = "idle" => todo = {}
  /\ cpc # "idle" =>
       /\ \A p \in Pipelines : /\ listed[p].rev = pipe[p].rev
                                /\ listed[p].paused = pipe[p].paused
       /\ todo \subseteq Running(listed)

VerbList ==
  /\ vpc = "none" => catchUp = {} /\ revised = {} /\ starts = {}
  /\ vpc = "replace" =>
       \A p \in revised : wanted[p] \notin {0, existing[p].rev} /\ existing[p].rev # 0
  /\ vpc \notin {"none", "replace"} =>
       /\ \A p \in catchUp : pipe[p].rev # 0 /\ (~pipe[p].paused \/ p \in revised)
       /\ starts \subseteq Running(pipe)

ReceiveInv == NoOverlap /\ CycleList /\ VerbList

(* A cycle that runs does not change what is declared and paused.          *)
LEMMA CycleKeepsPipelines ==
  ASSUME TypeOK, Cycle \/ CycleCrash
  PROVE  \A q \in Pipelines : pipe'[q].rev = pipe[q].rev /\ pipe'[q].paused = pipe[q].paused
<1>1. ASSUME NEW p \in Pipelines, CycleProgress(p)
      PROVE  pipe' = pipe \/ pipe' = [pipe EXCEPT ![p].delivered = TRUE]
  BY <1>1 DEF CycleProgress
<1>2. pipe' = pipe \/ \E p \in Pipelines : pipe' = [pipe EXCEPT ![p].delivered = TRUE]
  BY <1>1 DEF Cycle, CycleCrash, CycleStart, CycleReadBase, CycleApply, CycleMaintain,
              CycleDeliver, CycleRecord, CycleLag, CycleCaughtUp
<1>3. CASE pipe' = pipe
  BY <1>3
<1>4. CASE \E p \in Pipelines : pipe' = [pipe EXCEPT ![p].delivered = TRUE]
  BY <1>4, FieldsKept DEF TypeOK
<1> QED
  BY <1>2, <1>3, <1>4

LEMMA VerbWithoutCycle ==
  ASSUME VerbStep \/ VerbStops
  PROVE  vpc # "none" /\ UNCHANGED <<log, cpc, listed, rows, position, todo>>
BY DEF VerbStep, VerbStops, PauseOld, ReplacePipelines, SyncBase, VerbEnds, Delivery,
       DeliverRead, ReplaceDerived, UpsertAll, ReconcileDeletes, RecordDelivered, UnpauseRevised, cycleVars

LEMMA OperatorWithoutCycle ==
  ASSUME Operator
  PROVE  /\ vpc = "none" /\ (Interleaved \/ cpc = "idle")
         /\ UNCHANGED <<log, cpc, listed, rows, position, todo>>
BY DEF Operator, Pause, Resume, Remove, ApplyStart, VerbStarts, cycleVars

LEMMA CycleWithoutVerb ==
  ASSUME Cycle \/ CycleCrash
  PROVE  UNCHANGED <<log, verbVars>> /\ (cpc # "idle" \/ Interleaved \/ vpc = "none")
BY DEF Cycle, CycleCrash, CycleStart, CycleReadBase, CycleApply, CycleMaintain, CycleDeliver,
       CycleProgress, CycleRecord, CycleLag, CycleCaughtUp

LEMMA NoOverlapStep == ASSUME NoOverlap, [Next]_vars PROVE NoOverlap'
<1>1. CASE UNCHANGED vars
  BY <1>1 DEF vars, cycleVars, verbVars, NoOverlap
<1>2. CASE SourceChange
  BY <1>2 DEF SourceChange, cycleVars, verbVars, NoOverlap
<1>3. CASE Cycle \/ CycleCrash
  BY <1>3, CycleWithoutVerb DEF verbVars, NoOverlap
<1>4. CASE Operator
  BY <1>4, OperatorWithoutCycle DEF NoOverlap
<1>5. CASE VerbStep \/ VerbStops
  BY <1>5, VerbWithoutCycle DEF NoOverlap
<1> QED
  BY <1>1, <1>2, <1>3, <1>4, <1>5 DEF Next


LEMMA ReplacedRevision ==
  ASSUME TypeOK, ReplacePipelines, NEW p \in Pipelines PROVE pipe'[p].rev = wanted[p]
<1>1. pipe'[p] = Replaced(p)
  BY DEF ReplacePipelines
<1>2. Replaced(p).rev = wanted[p]
  BY DEF Replaced, NoPipe
<1> QED
  BY <1>1, <1>2

(* Only a removal and apply's replacement change what is declared.         *)
LEMMA DeclaredStep ==
  ASSUME TypeOK, [Next]_vars, ~ReplacePipelines, \A p \in Pipelines : ~Remove(p)
  PROVE  Declared(pipe') = Declared(pipe)
<1> SUFFICES ASSUME NEW q \in Pipelines PROVE pipe'[q].rev = pipe[q].rev
  BY DEF Declared
<1>1. CASE Cycle \/ CycleCrash
  BY <1>1, CycleKeepsPipelines
<1>2. ASSUME ~(Cycle \/ CycleCrash)
      PROVE  \/ pipe' = pipe
             \/ \E p \in Pipelines, b \in BOOLEAN : \/ pipe' = [pipe EXCEPT ![p].paused = b]
                                                    \/ pipe' = [pipe EXCEPT ![p].delivered = b]
  BY <1>2 DEF Next, SourceChange, Operator, Pause, Resume, ApplyStart, VerbStep, VerbStops,
              PauseOld, Delivery, SyncBase, VerbEnds, DeliverRead, ReplaceDerived, UpsertAll,
              ReconcileDeletes, RecordDelivered, UnpauseRevised, vars
<1>3. CASE \E p \in Pipelines, b \in BOOLEAN : \/ pipe' = [pipe EXCEPT ![p].paused = b]
                                               \/ pipe' = [pipe EXCEPT ![p].delivered = b]
  <2>1. PICK p \in Pipelines, b \in BOOLEAN : \/ pipe' = [pipe EXCEPT ![p].paused = b]
                                              \/ pipe' = [pipe EXCEPT ![p].delivered = b]
    BY <1>3
  <2>2. pipe \in [Pipelines -> Stored]
    BY DEF TypeOK
  <2>3. /\ [pipe EXCEPT ![p].paused = b][q].rev = pipe[q].rev
        /\ [pipe EXCEPT ![p].delivered = b][q].rev = pipe[q].rev
    BY <2>2, FieldsKept
  <2> QED
    BY <2>1, <2>3
<1> QED
  BY <1>1, <1>2, <1>3

LEMMA BaseStep ==
  ASSUME [Next]_vars, ~Cycle, ~SyncBase, \A p \in Pipelines : ~Remove(p) PROVE base' = base
BY DEF Next, SourceChange, CycleCrash, Operator, Pause, Resume, ApplyStart, VerbStep, VerbStops,
       PauseOld, ReplacePipelines, Delivery, VerbEnds, DeliverRead, ReplaceDerived, UpsertAll,
       ReconcileDeletes, RecordDelivered, UnpauseRevised, vars

LEMMA CycleKeepsBaseStatus ==
  ASSUME TypeOK, CycleOnBase, Cycle PROVE base'.status = base.status
<1>1. CASE CycleRecord
  BY <1>1 DEF CycleRecord, CycleOnBase
<1>2. CASE CycleCaughtUp
  BY <1>2 DEF CycleCaughtUp, CycleOnBase, TypeOK
<1>3. CASE ~(CycleRecord \/ CycleCaughtUp)
  BY <1>3 DEF Cycle, CycleStart, CycleReadBase, CycleApply, CycleMaintain, CycleDeliver,
              CycleProgress, CycleLag
<1> QED
  BY <1>1, <1>2, <1>3

LEMMA PipelinesStayStep ==
  ASSUME TypeOK, PipelinesStay, CycleOnBase, [Next]_vars PROVE PipelinesStay'
<1> SUFFICES ASSUME "remove" \notin Verbs
             PROVE  /\ base'.status # "none" => Declared(pipe') # {}
                    /\ vpc' = "replace" => \A p \in Declared(pipe') : wanted'[p] # 0
  BY DEF PipelinesStay
<1>1. \A p \in Pipelines : ~Remove(p)
  BY DEF Remove, VerbStarts
<1>2. ASSUME Declared(pipe') = Declared(pipe), base'.status = base.status
      PROVE  base'.status # "none" => Declared(pipe') # {}
  BY <1>2 DEF PipelinesStay
<1>3. ASSUME Declared(pipe') = Declared(pipe), UNCHANGED <<vpc, wanted>> \/ vpc' # "replace"
      PROVE  vpc' = "replace" => \A p \in Declared(pipe') : wanted'[p] # 0
  BY <1>3 DEF PipelinesStay
<1>4. CASE ReplacePipelines
  <2>1. vpc = "replace" /\ vpc' = "base" /\ base' = base
    BY <1>4 DEF ReplacePipelines
  <2>2. Declared(pipe) \subseteq Declared(pipe')
    BY <1>4, <2>1, ReplacedRevision DEF PipelinesStay, Declared
  <2> QED
    BY <2>1, <2>2 DEF PipelinesStay
<1>5. CASE SyncBase
  <2>1. Declared(pipe') = Declared(pipe) /\ vpc' = "next"
    BY <1>5 DEF SyncBase
  <2>2. Declared(pipe) = {} => base'.status = "none"
    BY <1>5 DEF SyncBase, Pruned, NoBase
  <2> QED
    BY <2>1, <2>2
<1>6. CASE ApplyStart
  <2>1. pipe' = pipe /\ base' = base
    BY <1>6 DEF ApplyStart
  <2>2. \A p \in Declared(pipe) : wanted'[p] # 0
    BY <1>6 DEF ApplyStart, Documented, Declared, TypeOK, Stored
  <2> QED
    BY <2>1, <2>2 DEF PipelinesStay
<1>7. CASE ~(ReplacePipelines \/ SyncBase \/ ApplyStart)
  <2>1. Declared(pipe') = Declared(pipe)
    BY <1>1, <1>7, DeclaredStep
  <2>2. base'.status = base.status
    BY <1>1, <1>7, BaseStep, CycleKeepsBaseStatus
  <2>3. UNCHANGED <<vpc, wanted>> \/ vpc' # "replace"
    BY <1>1, <1>7, CycleWithoutVerb
       DEF Next, SourceChange, Operator, Pause, Resume, VerbStep, VerbStops, PauseOld, Delivery,
           VerbEnds, DeliverRead, ReplaceDerived, UpsertAll, ReconcileDeletes, RecordDelivered,
           UnpauseRevised, EndVerb, vars, verbVars
  <2> QED
    BY <1>2, <1>3, <2>1, <2>2, <2>3
<1> QED
  BY <1>4, <1>5, <1>6, <1>7


(* One more change of the log is one more change of the table.             *)
LEMMA NextChange ==
  ASSUME TypeOK, NEW n \in Nat, n < Len(log), NEW table \in Rows, IsTableAfter(n, table)
  PROVE  IsTableAfter(n + 1, [table EXCEPT ![log[n + 1].key] = log[n + 1].image])
<1> DEFINE c == log[n + 1]
           t == [table EXCEPT ![c.key] = c.image]
<1>1. SUFFICES ASSUME NEW k \in Keys PROVE IsImageAfter(n + 1, k, t[k])
  BY DEF IsTableAfter
<1>2. IsImageAfter(n, k, table[k])
  BY DEF IsTableAfter
<1>3. CASE c.key = k
  <2>1. t[k] = c.image
    BY <1>3 DEF Rows
  <2> QED
    BY <1>3, <2>1 DEF IsImageAfter
<1>4. CASE c.key # k
  <2>1. t[k] = table[k]
    BY <1>4 DEF Rows
  <2>2. \A i \in 1 .. n + 1 : log[i].key = k => i \in 1 .. n
    BY <1>4
  <2>3. 1 .. n \subseteq 1 .. n + 1
    OBVIOUS
  <2> QED
    BY <1>2, <2>1, <2>2, <2>3 DEF IsImageAfter
<1> QED
  BY <1>3, <1>4

(* A change of the Source is later than those a table counts.              *)
LEMMA EarlierTable ==
  ASSUME NEW log1, NEW log2, NEW n \in Nat, NEW e,
         log1 \in Seq([key : Keys, image : Images]), n <= Len(log1), log2 = Append(log1, e)
  PROVE  /\ Len(log2) = Len(log1) + 1
         /\ \A i \in 1 .. n : log2[i] = log1[i]
         /\ n < Len(log1) => log2[n + 1] = log1[n + 1]
OBVIOUS

LEMMA SourceChangeKeeps ==
  ASSUME TypeOK, CycleOnBase, BaseIsPrefix, SourceChange PROVE CycleOnBase' /\ BaseIsPrefix'
<1>1. PICK e \in [key : Keys, image : Images] : log' = Append(log, e)
  BY DEF SourceChange, Images, TypeOK
<1>2. UNCHANGED <<base, cpc, rows, position>>
  BY DEF SourceChange, cycleVars
<1>3. \A n \in Nat : n <= Len(log) =>
        /\ Len(log') = Len(log) + 1
        /\ \A i \in 1 .. n : log'[i] = log[i]
        /\ n < Len(log) => log'[n + 1] = log[n + 1]
  BY <1>1, EarlierTable DEF TypeOK
<1>4. Len(log) \in Nat /\ Len(log') = Len(log) + 1 /\ position \in Nat /\ base.position \in Nat
  BY <1>1 DEF TypeOK
<1>5. position < Len(log) => Change' = Change
  BY <1>2, <1>3, <1>4 DEF Change
<1>6. CycleOnBase'
  BY <1>2, <1>4, <1>5 DEF CycleOnBase
<1>7. ASSUME base.status = "ready" PROVE IsTableAfter(base.position, base.rows)'
  <2>1. base.position <= Len(log) /\ IsTableAfter(base.position, base.rows)
    BY <1>7 DEF CycleOnBase, BaseIsPrefix
  <2>2. \A i \in 1 .. base.position : log'[i] = log[i]
    BY <1>3, <1>4, <2>1
  <2> QED
    BY <1>2, <2>1, <2>2 DEF IsTableAfter, IsImageAfter
<1> QED
  BY <1>2, <1>6, <1>7 DEF BaseIsPrefix

LEMMA CycleAdvancesBase ==
  ASSUME TypeOK, CycleOnBase, BaseIsPrefix, Cycle \/ CycleCrash
  PROVE  CycleOnBase' /\ BaseIsPrefix'
<1>0. UNCHANGED log /\ log' = log
  BY CycleWithoutVerb
<1>1. ASSUME base' = base PROVE BaseIsPrefix'
  BY <1>0, <1>1 DEF BaseIsPrefix, IsTableAfter, IsImageAfter
<1>2. ASSUME base' = base, cpc' \in {"idle", "read"} PROVE CycleOnBase'
  BY <1>0, <1>2 DEF CycleOnBase
<1>3. CASE CycleStart \/ CycleCrash
  BY <1>1, <1>2, <1>3 DEF CycleStart, CycleCrash, EndCycle
<1>4. CASE CycleReadBase
  <2>1. CASE base.status = "ready"
    BY <1>0, <1>1, <1>4, <2>1 DEF CycleReadBase, CycleOnBase
  <2>2. CASE base.status # "ready"
    BY <1>1, <1>2, <1>4, <2>2 DEF CycleReadBase, EndCycle
  <2> QED
    BY <2>1, <2>2
<1>5. CASE CycleApply
  BY <1>0, <1>1, <1>5 DEF CycleApply, CycleOnBase, Change
<1>6. ASSUME NEW p \in Pipelines, CycleMaintain(p) \/ CycleDeliver(p) \/ CycleProgress(p)
      PROVE  CycleOnBase' /\ BaseIsPrefix'
  <2>1. base' = base /\ cpc \in {"deliver", "write", "progress"}
    BY <1>6 DEF CycleMaintain, CycleDeliver, CycleProgress
  <2>2. \/ cpc' = "idle"
        \/ cpc' \in {"deliver", "write", "progress"} /\ UNCHANGED <<rows, position>>
    BY <1>6 DEF CycleMaintain, CycleDeliver, CycleProgress, EndCycle
  <2> QED
    BY <1>0, <1>1, <1>2, <2>1, <2>2 DEF CycleOnBase, Change
<1>7. CASE CycleRecord
  <2>1. /\ base.status = "ready" /\ base.position = position /\ position < Len(log)
        /\ rows = [base.rows EXCEPT ![Change.key] = Change.image]
    BY <1>7 DEF CycleRecord, CycleOnBase
  <2>2. RecordedRows = rows
    BY <2>1 DEF RecordedRows, TypeOK, Rows
  <2>3. IsTableAfter(position + 1, rows)
    BY <2>1, NextChange DEF BaseIsPrefix, TypeOK, Change
  <2>4. base' = [status |-> "ready", rows |-> rows, position |-> position + 1]
    BY <1>7, <2>2 DEF CycleRecord
  <2>5. BaseIsPrefix'
    BY <1>0, <2>3, <2>4 DEF BaseIsPrefix, IsTableAfter, IsImageAfter
  <2>6. CycleOnBase'
    BY <1>0, <1>7, <2>1, <2>4 DEF CycleRecord, CycleOnBase, TypeOK
  <2> QED
    BY <2>5, <2>6
<1>8. CASE CycleLag
  <2>1. base' = base /\ cpc = "lag"
    BY <1>8 DEF CycleLag
  <2>2. cpc' = "idle" \/ (cpc' = "item" /\ UNCHANGED <<rows, position>>)
    <3>1. EndCycle \/ (cpc' = "item" /\ UNCHANGED <<rows, position>>)
      BY <1>8 DEF CycleLag
    <3> QED
      BY <3>1 DEF EndCycle
  <2> QED
    BY <1>0, <1>1, <1>2, <2>1, <2>2 DEF CycleOnBase
<1>9. CASE CycleCaughtUp
  <2>1. base.status = "ready" /\ base.position = position
    BY <1>9 DEF CycleCaughtUp, CycleOnBase
  <2>2. base' = base /\ cpc' = "idle"
    BY <1>9, <2>1 DEF CycleCaughtUp, EndCycle, TypeOK
  <2> QED
    BY <1>1, <1>2, <2>2
<1> QED
  BY <1>3, <1>4, <1>5, <1>6, <1>7, <1>8, <1>9 DEF Cycle


(* The Base Dataset a cycle works on is not pruned or loaded meanwhile.    *)
LEMMA LoadKeepsCycle ==
  ASSUME TypeOK, BaseInv, ~Interleaved \/ "remove" \notin Verbs, SyncBase
  PROVE  CycleOnBase' /\ BaseIsPrefix'
<1>1. UNCHANGED <<log, pipe, cpc, rows, position>> /\ vpc = "base"
  BY DEF SyncBase, cycleVars
<1>2. CASE base.status = "ready"
  <2>1. base' = base \/ (base' = NoBase /\ cpc = "idle")
    <3>1. base' = Pruned(pipe)
      BY <1>2 DEF SyncBase
    <3>2. base' = base \/ (base' = NoBase /\ Declared(pipe) = {})
      BY <3>1 DEF Pruned
    <3>3. Declared(pipe) = {} => cpc = "idle"
      BY <1>1, <1>2 DEF BaseInv, NoOverlap, PipelinesStay
    <3> QED
      BY <3>2, <3>3
  <2>2. CASE base' = base
    BY <1>1, <2>2 DEF BaseInv, CycleOnBase, BaseIsPrefix, IsTableAfter, IsImageAfter, Change
  <2>3. CASE base' = NoBase /\ cpc = "idle"
    BY <1>1, <2>3 DEF CycleOnBase, BaseIsPrefix, NoBase
  <2> QED
    BY <2>1, <2>2, <2>3
<1>3. CASE base.status # "ready"
  <2>1. cpc' \in {"idle", "read"}
    BY <1>1, <1>3 DEF BaseInv, CycleOnBase, TypeOK
  <2>2. CASE Declared(pipe) = {}
    BY <1>1, <1>3, <2>1, <2>2 DEF SyncBase, Pruned, NoBase, CycleOnBase, BaseIsPrefix
  <2>3. CASE Declared(pipe) # {}
    <3> DEFINE W == IF base.status = "loading" THEN base.position ELSE Len(log)
    <3>1. PICK table \in Tables(W), S \in SUBSET Keys :
            base' = [status   |-> IF S = Keys THEN "ready" ELSE "loading",
                     rows     |-> [k \in Keys |-> IF k \in S THEN table[k] ELSE Absent],
                     position |-> W]
      BY <1>3, <2>3 DEF SyncBase
    <3>2. W \in Nat /\ W <= Len(log)
      BY DEF BaseInv, CycleOnBase, TypeOK
    <3>3. IsTableAfter(W, table) /\ table \in [Keys -> {Absent} \cup 0 .. Len(log)]
      BY <3>1 DEF Tables
    <3> HIDE DEF W
    <3>4. base'.status = "ready" => base'.rows = table
      BY <3>1, <3>3
    <3>5. BaseIsPrefix'
      BY <1>1, <3>1, <3>3, <3>4 DEF BaseIsPrefix, IsTableAfter, IsImageAfter
    <3>6. CycleOnBase'
      BY <1>1, <2>1, <3>1, <3>2 DEF CycleOnBase
    <3> QED
      BY <3>5, <3>6
  <2> QED
    BY <2>2, <2>3
<1> QED
  BY <1>2, <1>3

LEMMA BaseInvStep ==
  ASSUME TypeOK, BaseInv, ~Interleaved \/ "remove" \notin Verbs, [Next]_vars
  PROVE  BaseInv'
<1>1. NoOverlap' /\ PipelinesStay'
  BY NoOverlapStep, PipelinesStayStep DEF BaseInv
<1>2. CASE SourceChange
  BY <1>1, <1>2, SourceChangeKeeps DEF BaseInv
<1>3. CASE Cycle \/ CycleCrash
  BY <1>1, <1>3, CycleAdvancesBase DEF BaseInv
<1>4. CASE SyncBase
  BY <1>1, <1>4, LoadKeepsCycle DEF BaseInv
<1>5. ASSUME NEW p \in Pipelines, Remove(p) PROVE CycleOnBase' /\ BaseIsPrefix'
  <2>1. cpc = "idle" /\ UNCHANGED <<log, cpc, rows, position>>
    BY <1>5 DEF Remove, VerbStarts, cycleVars
  <2>2. base' = NoBase \/ base' = base
    BY <1>5 DEF Remove, Pruned
  <2> QED
    BY <2>1, <2>2 DEF BaseInv, CycleOnBase, BaseIsPrefix, NoBase, IsTableAfter, IsImageAfter
<1>6. CASE ~(SourceChange \/ Cycle \/ CycleCrash \/ SyncBase \/ \E p \in Pipelines : Remove(p))
  <2>1. base' = base
    BY <1>6, BaseStep
  <2>2. UNCHANGED <<log, cpc, rows, position>>
    BY <1>6, OperatorWithoutCycle, VerbWithoutCycle DEF Next, vars, cycleVars
  <2>3. CycleOnBase' /\ BaseIsPrefix'
    BY <2>1, <2>2 DEF BaseInv, CycleOnBase, BaseIsPrefix, IsTableAfter, IsImageAfter, Change
  <2> QED
    BY <1>1, <2>3 DEF BaseInv
<1> QED
  BY <1>1, <1>2, <1>3, <1>4, <1>5, <1>6 DEF BaseInv

LEMMA BaseInvInit == ASSUME LifecycleAssumption, Init PROVE BaseInv
<1>1. cpc = "idle" /\ vpc = "none" /\ log = << >>
  BY DEF Init, NoCycle, NoVerb
<1>2. base.position = 0 /\ (base.status # "none" => Initial # {})
  BY DEF Init
<1>3. Initial # {} => Declared(pipe) # {}
  BY DEF Init, Declared, LifecycleAssumption
<1>4. base.status = "ready" => \A k \in Keys : base.rows[k] = 0
  BY DEF Init
<1>5. BaseIsPrefix
  BY <1>2, <1>4 DEF BaseIsPrefix, IsTableAfter, IsImageAfter
<1> QED
  BY <1>1, <1>2, <1>3, <1>5 DEF BaseInv, NoOverlap, PipelinesStay, CycleOnBase

(* The Base Dataset is the table after the changes its position counts,    *)
(* under any interleaving of verbs, stopped verbs and crashed cycles, as   *)
(* long as no Pipeline is removed while a cycle may run                    *)
(* (record_sync_row_progress, sync_base_datasets_for_pipelines).           *)
THEOREM BaseIsPrefixHolds ==
  ASSUME LifecycleAssumption, ~Interleaved \/ "remove" \notin Verbs
  PROVE  Spec => []BaseIsPrefix
<1>1. Init => TypeOK /\ BaseInv
  BY InitTyped, BaseInvInit
<1>2. TypeOK /\ BaseInv /\ [Next]_vars => (TypeOK /\ BaseInv)'
  BY TypeStep, BaseInvStep
<1>3. BaseInv => BaseIsPrefix
  BY DEF BaseInv
<1> QED
  BY <1>1, <1>2, <1>3, PTL DEF Spec


-----------------------------------------------------------------------------

LEMMA ReferenceStep ==
  ASSUME TypeOK, ~Interleaved, "base" \notin Stops, BaseInv, ReferenceInv, [Next]_vars
  PROVE  ReferenceInv'
<1>1. CASE ReplacePipelines \/ ApplyStart
  BY <1>1 DEF ReplacePipelines, ApplyStart, VerbStarts, ReferenceInv, Declared
<1>2. CASE SyncBase
  <2>1. pipe' = pipe
    BY <1>2 DEF SyncBase
  <2>2. CASE Declared(pipe) = {}
    BY <1>2, <2>1, <2>2 DEF SyncBase, Pruned, NoBase, ReferenceInv
  <2>3. CASE Declared(pipe) # {} /\ base.status = "ready"
    BY <1>2, <2>1, <2>3 DEF SyncBase, Pruned, ReferenceInv
  <2>4. CASE Declared(pipe) # {} /\ base.status # "ready"
    <3>1. base'.status \in {"ready", "loading"}
      BY <1>2, <2>4 DEF SyncBase
    <3> QED
      BY <2>1, <2>4, <3>1 DEF ReferenceInv
  <2> QED
    BY <2>2, <2>3, <2>4
<1>3. ASSUME NEW p \in Pipelines, Remove(p) PROVE ReferenceInv'
  <2>1. vpc = "none" /\ vpc' = "none" /\ base' = Pruned(pipe')
    BY <1>3 DEF Remove, VerbStarts, verbVars
  <2>2. Declared(pipe) # {}
    BY <1>3 DEF Remove, Declared
  <2>3. base.status # "none"
    BY <2>1, <2>2 DEF ReferenceInv
  <2> QED
    BY <2>1, <2>3 DEF ReferenceInv, Pruned, NoBase
<1>4. CASE ~(ReplacePipelines \/ ApplyStart \/ SyncBase \/ \E p \in Pipelines : Remove(p))
  <2>1. Declared(pipe') = Declared(pipe)
    BY <1>4, DeclaredStep
  <2>2. base'.status = base.status
    BY <1>4, BaseStep, CycleKeepsBaseStatus DEF BaseInv
  <2>3. vpc' # "base" => vpc # "base"
    BY <1>4, CycleWithoutVerb, OperatorWithoutCycle
       DEF Next, SourceChange, VerbStep, VerbStops, PauseOld, Delivery, VerbEnds, DeliverRead,
           ReplaceDerived, UpsertAll, ReconcileDeletes, RecordDelivered, UnpauseRevised, vars,
           verbVars
  <2> QED
    BY <2>1, <2>2, <2>3 DEF ReferenceInv
<1> QED
  BY <1>1, <1>2, <1>3, <1>4

LEMMA ReferenceInit == ASSUME LifecycleAssumption, Init PROVE ReferenceInv
<1>1. base.status = "none" <=> Initial = {}
  BY DEF Init
<1>2. Declared(pipe) = Initial
  BY DEF Init, NoPipe, Declared, LifecycleAssumption
<1> QED
  BY <1>1, <1>2 DEF ReferenceInv

(* Between verbs the Base Dataset is stored exactly when some Pipeline     *)
(* refers to its table, if verbs wait for cycles and none stops between    *)
(* replacing the Pipelines and loading or pruning the Base Dataset         *)
(* (delete_base_datasets_not_in, sync_base_datasets_for_pipelines).        *)
THEOREM BaseIffReferencedHolds ==
  ASSUME LifecycleAssumption, ~Interleaved, "base" \notin Stops
  PROVE  Spec => []BaseIffReferenced
<1>1. Init => TypeOK /\ BaseInv /\ ReferenceInv
  BY InitTyped, BaseInvInit, ReferenceInit
<1>2. TypeOK /\ BaseInv /\ ReferenceInv /\ [Next]_vars => (TypeOK /\ BaseInv /\ ReferenceInv)'
  BY TypeStep, BaseInvStep, ReferenceStep
<1>3. ReferenceInv => BaseIffReferenced
  BY DEF ReferenceInv, BaseIffReferenced
<1> QED
  BY <1>1, <1>2, <1>3, PTL DEF Spec


-----------------------------------------------------------------------------

LEMMA CycleListStep ==
  ASSUME TypeOK, ~Interleaved, NoOverlap, CycleList, [Next]_vars PROVE CycleList'
<1>1. CASE CycleStart
  BY <1>1 DEF CycleStart, CycleList, NoOverlap
<1>2. CASE CycleApply
  BY <1>2 DEF CycleApply, CycleList
<1>3. ASSUME Cycle \/ CycleCrash, ~CycleStart, ~CycleApply
      PROVE  /\ cpc # "idle"
             /\ \/ cpc' = "idle" /\ todo' = {}
                \/ cpc' # "idle" /\ listed' = listed /\ todo' \subseteq todo
  <2>1. ASSUME NEW p \in Pipelines, CycleProgress(p)
        PROVE  /\ cpc # "idle"
               /\ EndCycle \/ (cpc' # "idle" /\ listed' = listed /\ todo' \subseteq todo)
    BY <2>1 DEF CycleProgress
  <2>2. /\ cpc # "idle"
        /\ EndCycle \/ (cpc' # "idle" /\ listed' = listed /\ todo' \subseteq todo)
    BY <1>3, <2>1 DEF Cycle, CycleCrash, CycleReadBase, CycleMaintain, CycleDeliver,
                      CycleRecord, CycleLag, CycleCaughtUp
  <2> QED
    BY <2>2 DEF EndCycle
<1>4. CASE (Cycle \/ CycleCrash) /\ ~CycleStart /\ ~CycleApply
  BY <1>3, <1>4, CycleKeepsPipelines DEF CycleList
<1>5. CASE UNCHANGED vars \/ SourceChange
  BY <1>5 DEF vars, SourceChange, cycleVars, CycleList
<1>6. CASE Operator \/ VerbStep \/ VerbStops
  BY <1>6, OperatorWithoutCycle, VerbWithoutCycle DEF CycleList, NoOverlap
<1> QED
  BY <1>1, <1>2, <1>4, <1>5, <1>6 DEF Next

(* A verb changes a Pipeline only until its Delivery, or unpauses it.      *)
LEMMA VerbListStep ==
  ASSUME TypeOK, ~Interleaved, NoOverlap, VerbList, [Next]_vars PROVE VerbList'
<1>1. CASE UNCHANGED vars \/ SourceChange
  BY <1>1 DEF vars, SourceChange, verbVars, VerbList
<1>2. CASE Cycle \/ CycleCrash
  <2>1. vpc = "none" /\ UNCHANGED verbVars
    BY <1>2, CycleWithoutVerb DEF NoOverlap
  <2> QED
    BY <2>1 DEF verbVars, VerbList
<1>3. ASSUME NEW p \in Pipelines, Pause(p) \/ Remove(p) PROVE VerbList'
  BY <1>3 DEF Pause, Remove, VerbStarts, verbVars, VerbList
<1>4. ASSUME NEW p \in Pipelines, Resume(p) PROVE VerbList'
  <2>1. /\ vpc = "none" /\ pipe[p].rev # 0 /\ pipe' = [pipe EXCEPT ![p].paused = FALSE]
        /\ vpc' = "next" /\ catchUp' = {p} /\ UNCHANGED <<revised, starts>>
    BY <1>4 DEF Resume, VerbStarts
  <2>2. pipe'[p].rev # 0 /\ ~pipe'[p].paused
    BY <2>1, FieldsKept DEF TypeOK
  <2> QED
    BY <2>1, <2>2 DEF VerbList
<1>5. CASE ApplyStart
  BY <1>5 DEF ApplyStart, Declared, VerbList
<1>6. ASSUME NEW p \in Pipelines, PauseOld(p) PROVE VerbList'
  BY <1>6 DEF PauseOld, verbVars, VerbList
<1>7. CASE ReplacePipelines
  <2>1. /\ vpc = "replace" /\ vpc' = "base" /\ catchUp' = revised /\ revised' = revised
        /\ starts' = {p \in Pipelines : NeedsStart(p)}
        /\ pipe' = [p \in Pipelines |-> Replaced(p)]
    BY <1>7 DEF ReplacePipelines
  <2>2. \A p \in revised : p \in Pipelines /\ wanted[p] # 0
    BY <2>1 DEF VerbList, TypeOK
  <2>3. \A p \in catchUp' : pipe'[p].rev # 0 /\ p \in revised'
    BY <1>7, <2>1, <2>2, ReplacedRevision
  <2>4. ASSUME NEW p \in starts' PROVE p \in Running(pipe')
    <3>1. p \in Pipelines /\ pipe'[p] = Replaced(p) /\ wanted[p] # 0 /\ NeedsStart(p)
      BY <2>1 DEF NeedsStart
    <3>2. existing[p].rev = 0 => p \notin revised
      BY <2>1 DEF VerbList
    <3>3. ~Replaced(p).paused
      BY <3>1, <3>2 DEF Replaced, NeedsStart
    <3> QED
      BY <1>7, <3>1, <3>3, ReplacedRevision DEF Running, Declared
  <2> QED
    BY <2>1, <2>3, <2>4 DEF VerbList
<1>8. CASE SyncBase
  BY <1>8 DEF SyncBase, VerbList
<1>9. ASSUME NEW p \in Pipelines, DeliverRead(p) PROVE VerbList'
  <2>1. EndVerb \/ (vpc' \in {"derive", "upsert"} /\ UNCHANGED <<catchUp, revised, starts>>)
    BY <1>9 DEF DeliverRead
  <2>2. vpc = "next" /\ pipe' = pipe
    BY <1>9 DEF DeliverRead
  <2> QED
    BY <2>1, <2>2 DEF VerbList, EndVerb
<1>10. ASSUME NEW p \in Pipelines, ReplaceDerived(p) \/ UpsertAll(p) \/ ReconcileDeletes(p)
       PROVE  VerbList'
  BY <1>10 DEF ReplaceDerived, UpsertAll, ReconcileDeletes, VerbList
<1>11. ASSUME NEW p \in Pipelines, RecordDelivered(p) PROVE VerbList'
  <2>1. /\ vpc = "delivered" /\ vpc' = "next" /\ revised' = revised
        /\ pipe' = [pipe EXCEPT ![p].delivered = TRUE]
        /\ catchUp' \subseteq catchUp /\ starts' \subseteq starts
    BY <1>11 DEF RecordDelivered
  <2>2. \A q \in Pipelines : pipe'[q].rev = pipe[q].rev /\ pipe'[q].paused = pipe[q].paused
    BY <2>1, FieldsKept DEF TypeOK
  <2> QED
    BY <2>1, <2>2 DEF VerbList, Running, Declared, TypeOK
<1>12. ASSUME NEW p \in Pipelines, UnpauseRevised(p) PROVE VerbList'
  <2>1. /\ vpc = "next" /\ vpc' = "next" /\ catchUp = {} /\ UNCHANGED <<catchUp, starts>>
        /\ pipe' = [pipe EXCEPT ![p].paused = FALSE]
    BY <1>12 DEF UnpauseRevised
  <2>2. \A q \in Pipelines : pipe'[q].rev = pipe[q].rev /\ (pipe'[q].paused => pipe[q].paused)
    BY <2>1, FieldsKept DEF TypeOK
  <2> QED
    BY <2>1, <2>2 DEF VerbList, Running, Declared, TypeOK
<1>13. CASE VerbEnds \/ VerbStops
  BY <1>13 DEF VerbEnds, VerbStops, EndVerb, VerbList
<1> QED
  BY <1>1, <1>2, <1>3, <1>4, <1>5, <1>6, <1>7, <1>8, <1>9, <1>10, <1>11, <1>12, <1>13
     DEF Next, Operator, VerbStep, Delivery

(* Who writes documents: a cycle, to what it listed as running, and a      *)
(* verb, to what it is to Deliver.                                         *)
LEMMA ReceiverAllowed ==
  ASSUME TypeOK, ReceiveInv, [Next]_vars,
         NEW p \in Pipelines, target'[p] # target[p]
  PROVE  pipe[p].rev # 0 /\ (~pipe[p].paused \/ p \in revised)
<1>1. \/ \E q \in Pipelines : CycleDeliver(q)
      \/ \E q \in Pipelines : UpsertAll(q) \/ ReconcileDeletes(q)
  BY DEF Next, SourceChange, Cycle, CycleCrash, CycleStart, CycleReadBase, CycleApply,
         CycleMaintain, CycleProgress, CycleRecord, CycleLag, CycleCaughtUp, Operator, Pause,
         Resume, Remove, ApplyStart, VerbStep, VerbStops, PauseOld, ReplacePipelines, SyncBase,
         VerbEnds, Delivery, DeliverRead, ReplaceDerived, RecordDelivered, UnpauseRevised, vars
<1>2. ASSUME NEW q \in Pipelines, CycleDeliver(q) PROVE p = q /\ q \in todo /\ cpc # "idle"
  BY <1>2 DEF CycleDeliver, IsNextPipeline, TypeOK
<1>3. ASSUME NEW q \in Pipelines, CycleDeliver(q)
      PROVE  pipe[p].rev # 0 /\ ~pipe[p].paused
  BY <1>2, <1>3 DEF ReceiveInv, CycleList, Running, Declared
<1>4. ASSUME NEW q \in Pipelines, UpsertAll(q) \/ ReconcileDeletes(q)
      PROVE  pipe[p].rev # 0 /\ (~pipe[p].paused \/ p \in revised)
  <2>1. p = q /\ IsDelivering(q) /\ vpc \in {"upsert", "reconcile"}
    BY <1>4 DEF UpsertAll, ReconcileDeletes, TypeOK
  <2>2. p \in catchUp \/ p \in starts
    BY <2>1 DEF IsDelivering, IsNextPipeline
  <2> QED
    BY <2>1, <2>2 DEF ReceiveInv, VerbList, Running, Declared
<1> QED
  BY <1>1, <1>3, <1>4

(* Documents change only for a declared Pipeline that is not paused or     *)
(* that apply is rebuilding, if verbs wait for cycles (the paused filter   *)
(* of sync_deployment_incremental, ignore_paused of the revision path).    *)
THEOREM OnlyRunningPipelinesReceiveHolds ==
  ASSUME LifecycleAssumption, ~Interleaved
  PROVE  Spec => OnlyRunningPipelinesReceive
<1>1. Init => TypeOK /\ ReceiveInv
  BY InitTyped DEF Init, NoCycle, NoVerb, ReceiveInv, NoOverlap, CycleList, VerbList
<1>2. TypeOK /\ ReceiveInv /\ [Next]_vars => (TypeOK /\ ReceiveInv)'
  BY TypeStep, NoOverlapStep, CycleListStep, VerbListStep DEF ReceiveInv
<1>3. TypeOK /\ ReceiveInv /\ [Next]_vars =>
        [\A p \in Pipelines : target'[p] # target[p] =>
           pipe[p].rev # 0 /\ (~pipe[p].paused \/ p \in revised)]_vars
  BY ReceiverAllowed
<1> QED
  BY <1>1, <1>2, <1>3, PTL DEF Spec, OnlyRunningPipelinesReceive


-----------------------------------------------------------------------------
(* Documents and Derived rows. What a verb has still to Deliver is exempt; *)
(* every other Pipeline that runs, or is revised and waits to be unpaused, *)
(* is up to the Base Dataset or one change ahead of it.                    *)

Owed == catchUp \cup starts

RowIsCurrent(p, k) ==
  \/ derived[p][k] \in {Absent, base.rows[k]}
  \/ /\ base.position < Len(log) /\ log[base.position + 1].key = k
     /\ derived[p][k] = log[base.position + 1].image

IsCurrent(p) ==
  /\ \A k \in Keys : DocumentIsCurrent(p, k)
  /\ p \in Transforms => \A k \in Keys : RowIsCurrent(p, k)

OthersAreCurrent ==
  /\ \A p \in Declared(pipe) \ Owed : pipe[p].delivered
  /\ \A p \in Running(pipe) \ Owed : IsCurrent(p)
  /\ vpc \notin {"none", "replace"} => \A p \in revised \ Owed : IsCurrent(p)

(* Apply goes on with the Pipelines as it read them.                       *)
ApplyKnows ==
  vpc = "replace" =>
    /\ catchUp = {} /\ starts = {}
    /\ \A p \in Pipelines : existing[p].rev = pipe[p].rev
    /\ \A p \in Pipelines \ revised : existing[p] = pipe[p]
    /\ revised = {p \in Declared(pipe) : wanted[p] \notin {0, pipe[p].rev}}
    /\ \A p \in Pipelines \ Declared(pipe) : wanted[p] # 0 => target[p] = NoRows

(* What a verb is to Deliver, and how far it has come.                     *)
DeliveryInv ==
  vpc \notin {"none", "replace"} =>
    /\ \A p \in Pipelines : wanted[p] = pipe[p].rev
    /\ catchUp \cap starts = {} /\ revised \cap starts = {} /\ revised \subseteq Declared(pipe)
    /\ \A p \in starts : target[p] = NoRows \/ (vpc = "delivered" /\ IsDelivering(p))
    /\ vpc = "base" /\ base.status = "none" => Declared(pipe) \subseteq starts
    /\ vpc \notin {"base", "next"} =>
         /\ snapshot = base.rows
         /\ \A p \in Pipelines : IsDelivering(p) =>
              /\ vpc # "derive" /\ p \in Transforms => derived[p] = base.rows
              /\ vpc = "reconcile" =>
                   \A k \in Keys : snapshot[k] # Absent =>
                     target[p][k] = Document(snapshot[k], wanted[p])
              /\ vpc = "delivered" =>
                   \A k \in Keys : target[p][k] = Document(base.rows[k], wanted[p])

(* What a cycle has Delivered of the change it applies.                    *)
HasRow(p) == p \in Transforms => derived[p][Change.key] = Change.image

HasDocument(p) == target[p][Change.key] = Document(Change.image, pipe[p].rev)

CycleDelivers ==
  cpc \in {"deliver", "write", "progress"} =>
    \A p \in Running(listed) :
      /\ p \notin todo \/ (cpc = "progress" /\ IsNextPipeline(p, todo)) => HasRow(p) /\ HasDocument(p)
      /\ cpc = "write" /\ IsNextPipeline(p, todo) => HasRow(p)

FollowInv ==
  /\ base.status # "loading"
  /\ OthersAreCurrent /\ ApplyKnows /\ DeliveryInv /\ CycleDelivers

LEMMA NextIsUnique ==
  ASSUME NEW S, NEW p \in Pipelines, NEW q \in Pipelines, IsNextPipeline(p, S), IsNextPipeline(q, S)
  PROVE  p = q
<1>1. p <= q /\ q <= p
  BY DEF IsNextPipeline
<1>2. p \in Nat /\ q \in Nat
  BY DEF Pipelines
<1> QED
  BY <1>1, <1>2

LEMMA DeliveringIsUnique ==
  ASSUME NEW p \in Pipelines, NEW q \in Pipelines, IsDelivering(p), IsDelivering(q)
  PROVE  p = q
<1>1. CASE catchUp = {}
  BY <1>1, NextIsUnique DEF IsDelivering, IsNextPipeline
<1>2. CASE catchUp # {}
  BY <1>2, NextIsUnique DEF IsDelivering
<1> QED
  BY <1>1, <1>2

LEMMA FollowInit == ASSUME LifecycleAssumption, Init PROVE FollowInv
<1>1. /\ vpc = "none" /\ cpc = "idle" /\ catchUp = {} /\ starts = {} /\ revised = {}
      /\ base.status # "loading"
  BY DEF Init, NoCycle, NoVerb
<1>2. ASSUME NEW p \in Declared(pipe) PROVE pipe[p].delivered /\ IsCurrent(p)
  <2>1. p \in Initial /\ p \in Pipelines
    BY DEF Init, Declared, NoPipe
  <2>2. pipe[p].delivered /\ pipe[p].rev = 1
    BY <2>1 DEF Init
  <2>3. \A k \in Keys : base.rows[k] = 0
    BY <2>1 DEF Init
  <2>4. \A k \in Keys : target[p][k] = Document(0, 1)
    BY <2>1 DEF Init
  <2>5. p \in Transforms => \A k \in Keys : derived[p][k] = 0
    BY <2>1 DEF Init
  <2> QED
    BY <2>2, <2>3, <2>4, <2>5 DEF IsCurrent, DocumentIsCurrent, RowIsCurrent
<1>3. OthersAreCurrent
  BY <1>1, <1>2 DEF OthersAreCurrent, Running
<1> QED
  BY <1>1, <1>3 DEF FollowInv, ApplyKnows, DeliveryInv, CycleDelivers

(* Whoever is current stays so while nothing of it changes, or while only  *)
(* the Source does.                                                        *)
LEMMA CurrentStays ==
  ASSUME TypeOK, NEW p, log' = log \/ \E e : log' = Append(log, e),
         base' = base, target'[p] = target[p], derived'[p] = derived[p],
         pipe'[p].rev = pipe[p].rev, IsCurrent(p)
  PROVE  IsCurrent(p)'
<1> DEFINE n == base.position + 1
<1>1. base.position < Len(log) => base'.position < Len(log') /\ log'[base'.position + 1] = log[base.position + 1]
  <2>1. base.position \in Nat /\ log \in Seq([key : Keys, image : Images])
    BY DEF TypeOK
  <2>2. CASE log' = log
    BY <2>2
  <2>3. CASE \E e : log' = Append(log, e)
    <3>1. PICK e : log' = Append(log, e)
      BY <2>3
    <3>2. base.position < Len(log) => base.position < Len(log') /\ log'[base.position + 1] = log[base.position + 1]
      BY <2>1, <3>1
    <3> QED
      BY <3>2
  <2> QED
    BY <2>2, <2>3
<1>2. ASSUME NEW k \in Keys, DocumentIsCurrent(p, k) PROVE DocumentIsCurrent(p, k)'
  BY <1>1, <1>2 DEF DocumentIsCurrent
<1>3. ASSUME NEW k \in Keys, RowIsCurrent(p, k) PROVE RowIsCurrent(p, k)'
  BY <1>1, <1>3 DEF RowIsCurrent
<1> QED
  BY <1>2, <1>3 DEF IsCurrent

-----------------------------------------------------------------------------
(* A cycle keeps the documents and Derived rows current.                   *)

LEMMA CycleAlone ==
  ASSUME ~Interleaved, ReceiveInv, FollowInv, Cycle \/ CycleCrash
  PROVE  /\ vpc = "none" /\ Owed = {} /\ revised = {} /\ UNCHANGED <<log, verbVars>>
         /\ ApplyKnows' /\ DeliveryInv'
<1>1. vpc = "none" /\ UNCHANGED <<log, verbVars>>
  BY CycleWithoutVerb DEF ReceiveInv, NoOverlap
<1>2. Owed = {} /\ revised = {}
  BY <1>1 DEF ReceiveInv, VerbList, Owed
<1> QED
  BY <1>1, <1>2 DEF verbVars, ApplyKnows, DeliveryInv

(* A step of a cycle that touches neither Target nor Derived Datasets.     *)
LEMMA CycleQuiet ==
  ASSUME ~Interleaved, TypeOK, ReceiveInv, FollowInv, Cycle \/ CycleCrash,
         UNCHANGED <<base, pipe, derived, target>>
  PROVE  OthersAreCurrent' /\ base'.status # "loading"
<1>1. /\ vpc' = "none" /\ Owed' = {} /\ Owed = {} /\ log' = log
  BY CycleAlone DEF verbVars, Owed
<1>2. ASSUME NEW p \in Running(pipe) PROVE IsCurrent(p)'
  <2>1. IsCurrent(p)
    BY <1>1 DEF FollowInv, OthersAreCurrent
  <2> QED
    BY <1>1, <2>1, CurrentStays
<1> QED
  BY <1>1, <1>2 DEF FollowInv, OthersAreCurrent

LEMMA ApplyFollows ==
  ASSUME ~Interleaved, TypeOK, ReceiveInv, FollowInv, CycleApply PROVE FollowInv'
<1>1. UNCHANGED <<base, pipe, derived, target>> /\ todo' = Running(listed) /\ listed' = listed /\ cpc' = "deliver"
  BY DEF CycleApply
<1>2. Cycle
  BY DEF Cycle
<1>3. CycleDelivers'
  BY <1>1 DEF CycleDelivers
<1> QED
  BY <1>1, <1>2, <1>3, CycleAlone, CycleQuiet DEF FollowInv

(* What holds of the change a cycle is Delivering.                         *)
LEMMA ChangeFacts ==
  ASSUME TypeOK, BaseInv, cpc \in {"deliver", "write", "progress"}
  PROVE  /\ Change.key \in Keys /\ Change.image \in Images
         /\ base.status = "ready" /\ base.position = position /\ position < Len(log)
         /\ rows = [base.rows EXCEPT ![Change.key] = Change.image]
         /\ rows[Change.key] = Change.image /\ Change = log[base.position + 1]
<1>1. /\ base.status = "ready" /\ base.position = position /\ position < Len(log)
      /\ rows = [base.rows EXCEPT ![Change.key] = Change.image]
  BY DEF BaseInv, CycleOnBase
<1>2. Change \in [key : Keys, image : Images]
  <2>1. position + 1 \in 1 .. Len(log)
    BY <1>1 DEF TypeOK
  <2> QED
    BY <2>1, EntryTyped DEF Change, TypeOK
<1>3. base.rows \in [Keys -> Images]
  BY DEF TypeOK, Rows
<1> QED
  BY <1>1, <1>2, <1>3 DEF Change

(* The Pipelines a cycle has still to Deliver to are declared and run.     *)
LEMMA TodoRuns ==
  ASSUME TypeOK, ReceiveInv, cpc # "idle"
  PROVE  /\ \A p \in todo : p \in Running(pipe) /\ p \in Pipelines
         /\ Running(listed) = Running(pipe)
         /\ \A p \in Pipelines : listed[p].rev = pipe[p].rev
BY DEF ReceiveInv, CycleList, Running, Declared, TypeOK

LEMMA MaintainFollows ==
  ASSUME ~Interleaved, TypeOK, BaseInv, ReceiveInv, FollowInv, NEW p \in Pipelines, CycleMaintain(p)
  PROVE  FollowInv'
<1>1. /\ cpc = "deliver" /\ p \in Transforms /\ IsNextPipeline(p, todo) /\ p \in todo
      /\ UNCHANGED <<log, base, pipe, target, listed, rows, position, todo>>
  BY DEF CycleMaintain, IsNextPipeline
<1>2. Cycle
  BY DEF Cycle
<1>3. p \in Running(pipe) /\ Running(listed) = Running(pipe) /\ pipe[p].rev # 0
  BY <1>1, TodoRuns DEF Running, Declared
<1>4. cpc' = "write" /\ derived' = [derived EXCEPT ![p] = Maintained(p)]
  BY <1>3 DEF CycleMaintain
<1>5. /\ Change' = Change /\ Change.key \in Keys /\ rows[Change.key] = Change.image
      /\ base.position < Len(log) /\ Change = log[base.position + 1]
  BY <1>1, ChangeFacts DEF Change
<1>6. /\ derived'[p] = [derived[p] EXCEPT ![Change.key] = Change.image]
      /\ derived[p] \in [Keys -> Images] /\ \A q \in Pipelines : q # p => derived'[q] = derived[q]
  BY <1>4, <1>5 DEF Maintained, TypeOK, Rows
<1>7. \A q \in Running(pipe) : IsCurrent(q)
  BY <1>2, CycleAlone DEF FollowInv, OthersAreCurrent
<1>8. ASSUME NEW q \in Running(pipe) PROVE IsCurrent(q)'
  <2>1. CASE q # p
    <3>1. q \in Pipelines
      BY DEF Running, Declared
    <3> QED
      BY <1>1, <1>6, <1>7, <2>1, <3>1, CurrentStays
  <2>2. CASE q = p
    <3>1. \A k \in Keys : DocumentIsCurrent(p, k)'
      BY <1>1, <1>3, <1>7 DEF IsCurrent, DocumentIsCurrent
    <3>2. ASSUME NEW k \in Keys PROVE RowIsCurrent(p, k)'
      <4>1. CASE k = Change.key
        BY <1>1, <1>5, <1>6, <4>1 DEF RowIsCurrent
      <4>2. CASE k # Change.key
        <5>1. derived'[p][k] = derived[p][k]
          BY <1>6, <4>2
        <5>2. RowIsCurrent(p, k)
          BY <1>1, <1>3, <1>7 DEF IsCurrent
        <5> QED
          BY <1>1, <5>1, <5>2 DEF RowIsCurrent
      <4> QED
        BY <4>1, <4>2
    <3> QED
      BY <2>2, <3>1, <3>2 DEF IsCurrent
  <2> QED
    BY <2>1, <2>2
<1>9. OthersAreCurrent' /\ base'.status # "loading"
  <2>1. Owed' = {} /\ Owed = {} /\ vpc' = "none"
    BY <1>2, CycleAlone DEF verbVars, Owed
  <2> QED
    BY <1>1, <1>8, <2>1 DEF FollowInv, OthersAreCurrent
<1>10. CycleDelivers'
  <2>1. HasRow(p)'
    BY <1>1, <1>5, <1>6 DEF HasRow
  <2>2. ASSUME NEW q \in Running(listed), q \notin todo PROVE HasRow(q)' /\ HasDocument(q)'
    <3>1. q \in Pipelines /\ q # p /\ HasRow(q) /\ HasDocument(q)
      BY <1>1, <2>2 DEF FollowInv, CycleDelivers, Running, Declared
    <3> QED
      BY <1>1, <1>5, <1>6, <3>1 DEF HasRow, HasDocument
  <2>3. ASSUME NEW q \in Running(listed), IsNextPipeline(q, todo) PROVE q = p
    BY <1>1, <2>3, NextIsUnique DEF Running, Declared
  <2> QED
    BY <1>1, <1>4, <2>1, <2>2, <2>3 DEF CycleDelivers
<1> QED
  BY <1>2, <1>9, <1>10, CycleAlone DEF FollowInv

LEMMA DeliverFollows ==
  ASSUME ~Interleaved, TypeOK, BaseInv, ReceiveInv, FollowInv, NEW p \in Pipelines, CycleDeliver(p)
  PROVE  FollowInv'
<1>1. /\ cpc = (IF p \in Transforms THEN "write" ELSE "deliver") /\ cpc' = "progress"
      /\ IsNextPipeline(p, todo) /\ p \in todo
      /\ target' = [target EXCEPT ![p][Change.key] = Document(rows[Change.key], listed[p].rev)]
      /\ UNCHANGED <<log, base, pipe, derived, listed, rows, position, todo>>
  BY DEF CycleDeliver, IsNextPipeline
<1>2. Cycle /\ cpc \in {"deliver", "write", "progress"}
  BY <1>1 DEF Cycle
<1>3. p \in Running(pipe) /\ Running(listed) = Running(pipe) /\ listed[p].rev = pipe[p].rev
  BY <1>1, <1>2, TodoRuns
<1>4. /\ Change' = Change /\ Change.key \in Keys /\ rows[Change.key] = Change.image
      /\ base.position < Len(log) /\ Change = log[base.position + 1]
  BY <1>1, <1>2, ChangeFacts DEF Change
<1>5. /\ target[p] \in [Keys -> (Nat \X Nat) \cup {Absent}]
      /\ target'[p] = [target[p] EXCEPT ![Change.key] = Document(Change.image, pipe[p].rev)]
      /\ \A q \in Pipelines : q # p => target'[q] = target[q]
  BY <1>1, <1>3, <1>4 DEF TypeOK, Documents
<1>6. \A q \in Running(pipe) : IsCurrent(q)
  BY <1>2, CycleAlone DEF FollowInv, OthersAreCurrent
<1>7. ASSUME NEW q \in Running(pipe) PROVE IsCurrent(q)'
  <2>1. CASE q # p
    <3>1. q \in Pipelines
      BY DEF Running, Declared
    <3> QED
      BY <1>1, <1>5, <1>6, <2>1, <3>1, CurrentStays
  <2>2. CASE q = p
    <3>1. p \in Transforms => \A k \in Keys : RowIsCurrent(p, k)'
      BY <1>1, <1>3, <1>6 DEF IsCurrent, RowIsCurrent
    <3>2. ASSUME NEW k \in Keys PROVE DocumentIsCurrent(p, k)'
      <4>1. CASE k = Change.key
        BY <1>1, <1>4, <1>5, <4>1 DEF DocumentIsCurrent
      <4>2. CASE k # Change.key
        <5>1. target'[p][k] = target[p][k]
          BY <1>5, <4>2
        <5>2. DocumentIsCurrent(p, k)
          BY <1>3, <1>6 DEF IsCurrent
        <5> QED
          BY <1>1, <5>1, <5>2 DEF DocumentIsCurrent
      <4> QED
        BY <4>1, <4>2
    <3> QED
      BY <2>2, <3>1, <3>2 DEF IsCurrent
  <2> QED
    BY <2>1, <2>2
<1>8. OthersAreCurrent' /\ base'.status # "loading"
  <2>1. Owed' = {} /\ Owed = {} /\ vpc' = "none"
    BY <1>2, CycleAlone DEF verbVars, Owed
  <2> QED
    BY <1>1, <1>7, <2>1 DEF FollowInv, OthersAreCurrent
<1>9. CycleDelivers'
  <2>1. HasDocument(p)'
    BY <1>1, <1>4, <1>5 DEF HasDocument
  <2>2. HasRow(p)'
    <3>1. HasRow(p)
      BY <1>1, <1>3 DEF FollowInv, CycleDelivers, HasRow
    <3> QED
      BY <1>1, <1>4, <3>1 DEF HasRow
  <2>3. ASSUME NEW q \in Running(listed), q \notin todo PROVE HasRow(q)' /\ HasDocument(q)'
    <3>1. q \in Pipelines /\ q # p /\ HasRow(q) /\ HasDocument(q)
      BY <1>1, <1>2, <2>3 DEF FollowInv, CycleDelivers, Running, Declared
    <3> QED
      BY <1>1, <1>4, <1>5, <3>1 DEF HasRow, HasDocument
  <2>4. ASSUME NEW q \in Running(listed), IsNextPipeline(q, todo) PROVE q = p
    BY <1>1, <2>4, NextIsUnique DEF Running, Declared
  <2> QED
    BY <1>1, <2>1, <2>2, <2>3, <2>4 DEF CycleDelivers
<1> QED
  BY <1>2, <1>8, <1>9, CycleAlone DEF FollowInv

LEMMA ProgressFollows ==
  ASSUME ~Interleaved, TypeOK, BaseInv, ReceiveInv, FollowInv, NEW p \in Pipelines, CycleProgress(p)
  PROVE  FollowInv'
<1>1. /\ cpc = "progress" /\ IsNextPipeline(p, todo) /\ p \in todo
      /\ UNCHANGED <<log, base, derived, target>>
  BY DEF CycleProgress, IsNextPipeline
<1>2. Cycle
  BY DEF Cycle
<1>3. p \in Running(pipe) /\ Running(listed) = Running(pipe) /\ pipe[p].rev # 0
  BY <1>1, TodoRuns DEF Running, Declared
<1>4. /\ pipe' = [pipe EXCEPT ![p].delivered = TRUE] \/ pipe' = pipe
      /\ todo' = todo \ {p} /\ cpc' = "deliver" /\ UNCHANGED <<listed, rows, position>>
  BY <1>3 DEF CycleProgress
<1>5. /\ \A q \in Pipelines : pipe'[q].rev = pipe[q].rev /\ pipe'[q].paused = pipe[q].paused
      /\ \A q \in Pipelines : pipe[q].delivered => pipe'[q].delivered
  <2>1. pipe \in [Pipelines -> Stored]
    BY DEF TypeOK
  <2>2. \A q \in Pipelines : pipe[q].delivered => pipe'[q].delivered
    BY <1>4, <2>1 DEF Stored
  <2> QED
    BY <1>2, <2>2, CycleKeepsPipelines
<1>6. Declared(pipe') = Declared(pipe) /\ Running(pipe') = Running(pipe)
  BY <1>5 DEF Running, Declared
<1>7. Owed' = {} /\ Owed = {} /\ vpc' = "none"
  BY <1>2, CycleAlone DEF verbVars, Owed
<1>8. ASSUME NEW q \in Running(pipe) PROVE IsCurrent(q)'
  <2>1. q \in Pipelines /\ IsCurrent(q)
    BY <1>7 DEF FollowInv, OthersAreCurrent, Running, Declared
  <2> QED
    BY <1>1, <1>5, <2>1, CurrentStays
<1>9. OthersAreCurrent' /\ base'.status # "loading"
  <2>1. \A q \in Declared(pipe) : q \in Pipelines /\ pipe[q].delivered
    BY <1>7 DEF FollowInv, OthersAreCurrent, Declared
  <2> QED
    BY <1>1, <1>5, <1>6, <1>7, <1>8, <2>1 DEF FollowInv, OthersAreCurrent
<1>10. CycleDelivers'
  <2>1. ASSUME NEW q \in Running(listed), q \notin todo' PROVE HasRow(q)' /\ HasDocument(q)'
    <3>1. q \in Pipelines /\ HasRow(q) /\ HasDocument(q)
      BY <1>1, <1>4, <2>1 DEF FollowInv, CycleDelivers, Running, Declared
    <3>2. Change' = Change /\ pipe'[q].rev = pipe[q].rev
      BY <1>1, <1>4, <1>5, <3>1 DEF Change
    <3> QED
      BY <1>1, <3>1, <3>2 DEF HasRow, HasDocument
  <2> QED
    BY <1>4, <2>1 DEF CycleDelivers
<1> QED
  BY <1>2, <1>9, <1>10, CycleAlone DEF FollowInv

(* Recording the change makes what was one ahead up to date.               *)
LEMMA RecordFollows ==
  ASSUME ~Interleaved, TypeOK, BaseInv, ReceiveInv, FollowInv, CycleRecord
  PROVE  FollowInv'
<1>1. /\ cpc = "deliver" /\ todo = {} /\ cpc' = "lag"
      /\ base' = [status |-> "ready", rows |-> RecordedRows, position |-> position + 1]
      /\ UNCHANGED <<log, pipe, derived, target>>
  BY DEF CycleRecord
<1>2. Cycle
  BY DEF Cycle
<1>3. /\ Change.key \in Keys /\ rows[Change.key] = Change.image
      /\ base.position < Len(log) /\ Change = log[base.position + 1]
  BY <1>1, ChangeFacts
<1>4. base'.rows = [base.rows EXCEPT ![Change.key] = Change.image] /\ base.rows \in [Keys -> Images]
  BY <1>1, <1>3 DEF RecordedRows, TypeOK, Rows
<1>5. /\ base'.rows[Change.key] = Change.image
      /\ \A k \in Keys : k # Change.key => base'.rows[k] = base.rows[k]
  BY <1>3, <1>4
<1>6. Running(listed) = Running(pipe) /\ Owed' = {} /\ Owed = {} /\ vpc' = "none"
  BY <1>1, <1>2, TodoRuns, CycleAlone DEF verbVars, Owed
<1>7. ASSUME NEW q \in Running(pipe) PROVE IsCurrent(q)'
  <2>1. IsCurrent(q) /\ HasRow(q) /\ HasDocument(q)
    BY <1>1, <1>6 DEF FollowInv, OthersAreCurrent, CycleDelivers
  <2>2. ASSUME NEW k \in Keys PROVE DocumentIsCurrent(q, k)'
    <3>1. target[q][k] = Document(base'.rows[k], pipe[q].rev)
      <4>1. CASE k = Change.key
        BY <1>5, <2>1, <4>1 DEF HasDocument
      <4>2. CASE k # Change.key
        BY <1>3, <1>5, <2>1, <4>2 DEF IsCurrent, DocumentIsCurrent
      <4> QED
        BY <4>1, <4>2
    <3> QED
      BY <1>1, <3>1 DEF DocumentIsCurrent
  <2>3. ASSUME NEW k \in Keys, q \in Transforms PROVE RowIsCurrent(q, k)'
    <3>1. derived[q][k] \in {Absent, base'.rows[k]}
      <4>1. CASE k = Change.key
        BY <1>5, <2>1, <2>3, <4>1 DEF HasRow
      <4>2. CASE k # Change.key
        BY <1>3, <1>5, <2>1, <2>3, <4>2 DEF IsCurrent, RowIsCurrent
      <4> QED
        BY <4>1, <4>2
    <3> QED
      BY <1>1, <3>1 DEF RowIsCurrent
  <2> QED
    BY <2>2, <2>3 DEF IsCurrent
<1>8. OthersAreCurrent' /\ base'.status # "loading" /\ CycleDelivers'
  BY <1>1, <1>6, <1>7 DEF FollowInv, OthersAreCurrent, CycleDelivers
<1> QED
  BY <1>2, <1>8, CycleAlone DEF FollowInv

LEMMA CycleFollows ==
  ASSUME ~Interleaved, TypeOK, BaseInv, ReceiveInv, FollowInv, Cycle \/ CycleCrash
  PROVE  FollowInv'
<1>1. CASE CycleApply
  BY <1>1, ApplyFollows
<1>2. CASE \E p \in Pipelines : CycleMaintain(p) \/ CycleDeliver(p) \/ CycleProgress(p)
  BY <1>2, MaintainFollows, DeliverFollows, ProgressFollows
<1>3. CASE CycleRecord
  BY <1>3, RecordFollows
<1>4. CASE CycleStart \/ CycleReadBase \/ CycleLag \/ CycleCaughtUp \/ CycleCrash
  <2>1. base' = base
    BY <1>4 DEF CycleStart, CycleReadBase, CycleLag, CycleCaughtUp, CycleCrash, BaseInv,
                CycleOnBase, TypeOK
  <2>2. UNCHANGED <<pipe, derived, target>> /\ cpc' \notin {"deliver", "write", "progress"}
    BY <1>4 DEF CycleStart, CycleReadBase, CycleLag, CycleCaughtUp, CycleCrash, EndCycle
  <2>3. CycleDelivers'
    BY <2>2 DEF CycleDelivers
  <2> QED
    BY <1>4, <2>1, <2>2, <2>3, CycleQuiet, CycleAlone DEF FollowInv
<1> QED
  BY <1>1, <1>2, <1>3, <1>4 DEF Cycle

-----------------------------------------------------------------------------
(* Source and Operator keep them current.                                  *)

LEMMA SourceFollows ==
  ASSUME TypeOK, BaseInv, FollowInv, SourceChange PROVE FollowInv'
<1>1. PICK e : log' = Append(log, e)
  BY DEF SourceChange
<1>2. UNCHANGED <<base, pipe, derived, target, cpc, listed, rows, position, todo, vpc, existing,
                  wanted, catchUp, revised, starts, snapshot>>
  BY DEF SourceChange, cycleVars, verbVars
<1>3. ASSUME NEW p, IsCurrent(p) PROVE IsCurrent(p)'
  BY <1>1, <1>2, <1>3, CurrentStays
<1>4. OthersAreCurrent'
  BY <1>2, <1>3 DEF FollowInv, OthersAreCurrent, Owed, Running, Declared
<1>5. ApplyKnows' /\ base'.status # "loading"
  BY <1>2 DEF FollowInv, ApplyKnows, Declared
<1>6. DeliveryInv'
  BY <1>2 DEF FollowInv, DeliveryInv, Declared, IsDelivering, IsNextPipeline
<1>7. CycleDelivers'
  <2>1. ASSUME cpc \in {"deliver", "write", "progress"} PROVE Change' = Change
    <3>1. position < Len(log) /\ position \in Nat /\ log \in Seq([key : Keys, image : Images])
      BY <2>1 DEF BaseInv, CycleOnBase, TypeOK
    <3> QED
      BY <1>1, <1>2, <3>1 DEF Change
  <2> QED
    BY <1>2, <2>1 DEF FollowInv, CycleDelivers, HasRow, HasDocument, IsNextPipeline, Running, Declared
<1> QED
  BY <1>4, <1>5, <1>6, <1>7 DEF FollowInv

(* No cycle is on its way while a verb is.                                 *)
LEMMA VerbAlone ==
  ASSUME ~Interleaved, ReceiveInv, Operator \/ VerbStep \/ VerbStops
  PROVE  CycleDelivers' /\ log' = log
<1>1. cpc' = "idle" /\ log' = log
  BY OperatorWithoutCycle, VerbWithoutCycle DEF ReceiveInv, NoOverlap
<1> QED
  BY <1>1 DEF CycleDelivers

LEMMA PauseFollows ==
  ASSUME ~Interleaved, TypeOK, ReceiveInv, FollowInv, NEW p \in Pipelines, Pause(p)
  PROVE  FollowInv'
<1>1. /\ vpc = "none" /\ vpc' = "none" /\ UNCHANGED <<base, derived, target, catchUp, starts>>
      /\ pipe' = [pipe EXCEPT ![p].paused = TRUE]
  BY DEF Pause, VerbStarts, verbVars
<1>2. Owed = {} /\ Owed' = {}
  BY <1>1 DEF ReceiveInv, VerbList, Owed
<1>3. \A q \in Pipelines : /\ pipe'[q].rev = pipe[q].rev /\ pipe'[q].delivered = pipe[q].delivered
                           /\ pipe[q].paused => pipe'[q].paused
  BY <1>1, FieldsKept DEF TypeOK, Stored
<1>4. Declared(pipe') = Declared(pipe) /\ Running(pipe') \subseteq Running(pipe)
  BY <1>3 DEF Running, Declared
<1>5. CycleDelivers' /\ log' = log
  BY VerbAlone DEF Operator
<1>6. ASSUME NEW q \in Running(pipe') PROVE IsCurrent(q)'
  <2>1. q \in Pipelines /\ IsCurrent(q)
    BY <1>2, <1>4 DEF FollowInv, OthersAreCurrent, Running, Declared
  <2> QED
    BY <1>1, <1>3, <1>5, <2>1, CurrentStays
<1>7. OthersAreCurrent'
  BY <1>1, <1>2, <1>3, <1>4, <1>6 DEF FollowInv, OthersAreCurrent, Declared
<1> QED
  BY <1>1, <1>5, <1>7 DEF FollowInv, ApplyKnows, DeliveryInv

LEMMA ResumeFollows ==
  ASSUME ~Interleaved, TypeOK, ReceiveInv, FollowInv, NEW p \in Pipelines, Resume(p)
  PROVE  FollowInv'
<1>1. /\ vpc = "none" /\ vpc' = "next" /\ UNCHANGED <<base, derived, target, revised, starts>>
      /\ pipe' = [pipe EXCEPT ![p].paused = FALSE] /\ catchUp' = {p}
      /\ wanted' = [q \in Pipelines |-> pipe[q].rev]
  BY DEF Resume, VerbStarts
<1>2. Owed = {} /\ Owed' = {p} /\ revised' = {} /\ starts' = {}
  BY <1>1 DEF ReceiveInv, VerbList, Owed
<1>3. \A q \in Pipelines : /\ pipe'[q].rev = pipe[q].rev /\ pipe'[q].delivered = pipe[q].delivered
                           /\ q # p => pipe'[q].paused = pipe[q].paused
  <2>1. pipe \in [Pipelines -> Stored]
    BY DEF TypeOK
  <2>2. \A q \in Pipelines : pipe'[q].rev = pipe[q].rev /\ pipe'[q].delivered = pipe[q].delivered
    BY <1>1, <2>1 DEF Stored
  <2>3. \A q \in Pipelines : q # p => pipe'[q] = pipe[q]
    BY <1>1, <2>1
  <2> QED
    BY <2>2, <2>3
<1>4. Declared(pipe') = Declared(pipe) /\ Running(pipe') \ {p} \subseteq Running(pipe)
  BY <1>3 DEF Running, Declared
<1>5. CycleDelivers' /\ log' = log
  BY VerbAlone DEF Operator
<1>6. ASSUME NEW q \in Running(pipe') \ {p} PROVE IsCurrent(q)'
  <2>1. q \in Pipelines /\ IsCurrent(q)
    BY <1>2, <1>4 DEF FollowInv, OthersAreCurrent, Running, Declared
  <2> QED
    BY <1>1, <1>3, <1>5, <2>1, CurrentStays
<1>7. OthersAreCurrent'
  BY <1>1, <1>2, <1>3, <1>4, <1>6 DEF FollowInv, OthersAreCurrent, Declared
<1>8. DeliveryInv'
  BY <1>1, <1>2, <1>3 DEF DeliveryInv
<1> QED
  BY <1>1, <1>5, <1>7, <1>8 DEF FollowInv, ApplyKnows

LEMMA RemoveFollows ==
  ASSUME ~Interleaved, TypeOK, ReceiveInv, FollowInv, NEW p \in Pipelines, Remove(p)
  PROVE  FollowInv'
<1>1. /\ vpc = "none" /\ vpc' = "none" /\ UNCHANGED <<target, catchUp, starts>>
      /\ pipe' = [pipe EXCEPT ![p] = NoPipe] /\ derived' = [derived EXCEPT ![p] = NoRows]
      /\ base' = Pruned(pipe')
  BY DEF Remove, VerbStarts, verbVars
<1>2. Owed = {} /\ Owed' = {}
  BY <1>1 DEF ReceiveInv, VerbList, Owed
<1>3. pipe'[p].rev = 0 /\ \A q \in Pipelines : q # p => pipe'[q] = pipe[q] /\ derived'[q] = derived[q]
  BY <1>1 DEF TypeOK, NoPipe
<1>4. /\ Declared(pipe') \subseteq Declared(pipe) \ {p} /\ Running(pipe') \subseteq Running(pipe) \ {p}
      /\ Running(pipe') \subseteq Declared(pipe')
  BY <1>3 DEF Running, Declared
<1>5. CycleDelivers' /\ log' = log
  BY VerbAlone DEF Operator
<1>6. ASSUME NEW q \in Running(pipe') PROVE IsCurrent(q)'
  <2>1. q \in Pipelines /\ q # p /\ IsCurrent(q)
    BY <1>2, <1>4 DEF FollowInv, OthersAreCurrent, Running, Declared
  <2>2. base' = base
    BY <1>1, <1>4 DEF Pruned
  <2> QED
    BY <1>1, <1>3, <1>5, <2>1, <2>2, CurrentStays
<1>7. ASSUME NEW q \in Declared(pipe') PROVE pipe'[q].delivered
  BY <1>2, <1>3, <1>4 DEF FollowInv, OthersAreCurrent, Declared
<1>8. OthersAreCurrent' /\ base'.status # "loading"
  BY <1>1, <1>2, <1>6, <1>7 DEF FollowInv, OthersAreCurrent, Pruned, NoBase
<1> QED
  BY <1>1, <1>5, <1>8 DEF FollowInv, ApplyKnows, DeliveryInv

(* A Pipeline that apply adds has no documents.                            *)
LEMMA ApplyStartFollows ==
  ASSUME ~Interleaved, ~Redeclares, TypeOK, ReceiveInv, FollowInv, ApplyStart
  PROVE  FollowInv'
<1>1. /\ vpc = "none" /\ vpc' = "replace" /\ existing' = pipe
      /\ UNCHANGED <<base, pipe, derived, target, catchUp, starts>>
  BY DEF ApplyStart, VerbStarts
<1>2. PICK doc \in [Pipelines -> 0 .. MaxRevision] :
        /\ \A p \in Pipelines : Documented(doc, p)
        /\ wanted' = doc
        /\ revised' = {p \in Declared(pipe) : doc[p] \notin {0, pipe[p].rev}}
  BY DEF ApplyStart
<1>3. catchUp = {} /\ starts = {} /\ Owed = {} /\ Owed' = {}
  BY <1>1 DEF ReceiveInv, VerbList, Owed
<1>4. CycleDelivers' /\ log' = log
  BY VerbAlone DEF Operator
<1>5. ASSUME NEW p \in Running(pipe) PROVE IsCurrent(p)'
  BY <1>1, <1>3, <1>4, CurrentStays DEF FollowInv, OthersAreCurrent
<1>6. OthersAreCurrent'
  BY <1>1, <1>3, <1>5 DEF FollowInv, OthersAreCurrent
<1>7. ASSUME NEW p \in Pipelines \ Declared(pipe), wanted'[p] # 0 PROVE target[p] = NoRows
  <2>1. pipe[p].rev = 0 /\ doc[p] # 0 /\ Documented(doc, p)
    BY <1>2, <1>7 DEF Declared
  <2> QED
    BY <2>1 DEF Documented
<1>8. ApplyKnows'
  <2>1. NoRows' = NoRows
    BY DEF NoRows
  <2> QED
    BY <1>1, <1>2, <1>3, <1>7, <2>1 DEF ApplyKnows
<1> QED
  BY <1>1, <1>4, <1>6, <1>8 DEF FollowInv, DeliveryInv

-----------------------------------------------------------------------------
(* The verbs keep current what they have not still to Deliver.             *)

LEMMA PauseOldFollows ==
  ASSUME ~Interleaved, TypeOK, ReceiveInv, FollowInv, NEW p \in Pipelines, PauseOld(p)
  PROVE  FollowInv'
<1>1. /\ vpc = "replace" /\ vpc' = "replace" /\ p \in revised
      /\ UNCHANGED <<base, derived, target, existing, wanted, catchUp, starts, revised>>
      /\ pipe' = [pipe EXCEPT ![p].paused = TRUE]
  BY DEF PauseOld, verbVars, IsNextPipeline, StillRunning
<1>2. Owed = {} /\ Owed' = {}
  BY <1>1 DEF FollowInv, ApplyKnows, Owed
<1>3. \A q \in Pipelines : /\ pipe'[q].rev = pipe[q].rev /\ pipe'[q].delivered = pipe[q].delivered
                           /\ pipe[q].paused => pipe'[q].paused
                           /\ q \notin revised => pipe'[q] = pipe[q]
  <2>1. pipe \in [Pipelines -> Stored]
    BY DEF TypeOK
  <2>2. \A q \in Pipelines : /\ pipe'[q].rev = pipe[q].rev /\ pipe'[q].delivered = pipe[q].delivered
                             /\ pipe[q].paused => pipe'[q].paused
    BY <1>1, <2>1 DEF Stored
  <2>3. \A q \in Pipelines : q \notin revised => pipe'[q] = pipe[q]
    BY <1>1, <2>1
  <2> QED
    BY <2>2, <2>3
<1>4. Declared(pipe') = Declared(pipe) /\ Running(pipe') \subseteq Running(pipe)
  BY <1>3 DEF Running, Declared
<1>5. CycleDelivers' /\ log' = log
  BY VerbAlone DEF VerbStep
<1>6. ASSUME NEW q \in Running(pipe') PROVE IsCurrent(q)'
  <2>1. q \in Pipelines /\ IsCurrent(q)
    BY <1>2, <1>4 DEF FollowInv, OthersAreCurrent, Running, Declared
  <2> QED
    BY <1>1, <1>3, <1>5, <2>1, CurrentStays
<1>7. OthersAreCurrent'
  BY <1>1, <1>2, <1>3, <1>4, <1>6 DEF FollowInv, OthersAreCurrent, Declared
<1>8. ApplyKnows'
  <2>1. /\ \A q \in Pipelines : existing[q].rev = pipe'[q].rev
        /\ \A q \in Pipelines \ revised : existing[q] = pipe'[q]
    BY <1>1, <1>3 DEF FollowInv, ApplyKnows
  <2>2. revised = {q \in Declared(pipe') : wanted[q] \notin {0, pipe'[q].rev}}
    <3>1. revised = {q \in Declared(pipe) : wanted[q] \notin {0, pipe[q].rev}}
      BY <1>1 DEF FollowInv, ApplyKnows
    <3> QED
      BY <1>3, <3>1 DEF Declared
  <2>3. \A q \in Pipelines \ Declared(pipe') : wanted[q] # 0 => target[q] = NoRows
    BY <1>1, <1>4 DEF FollowInv, ApplyKnows
  <2>4. NoRows' = NoRows
    BY DEF NoRows
  <2> QED
    BY <1>1, <2>1, <2>2, <2>3, <2>4 DEF FollowInv, ApplyKnows
<1> QED
  BY <1>1, <1>5, <1>7, <1>8 DEF FollowInv, DeliveryInv

(* A Pipeline that apply neither revises nor adds is stored as it was; of  *)
(* its Derived Dataset no row is left.                                     *)
LEMMA ReplaceFollows ==
  ASSUME ~Interleaved, TypeOK, ReferenceInv, ReceiveInv, FollowInv, ReplacePipelines
  PROVE  FollowInv'
<1>1. /\ vpc = "replace" /\ vpc' = "base" /\ UNCHANGED <<base, target, existing, wanted, revised>>
      /\ pipe' = [p \in Pipelines |-> Replaced(p)]
      /\ derived' = [p \in Pipelines |-> NoRows]
      /\ catchUp' = revised /\ starts' = {p \in Pipelines : NeedsStart(p)}
  BY DEF ReplacePipelines
<1>2. /\ \A p \in Pipelines : existing[p].rev = pipe[p].rev
      /\ \A p \in Pipelines \ revised : existing[p] = pipe[p]
      /\ revised = {p \in Declared(pipe) : wanted[p] \notin {0, pipe[p].rev}}
      /\ \A p \in Pipelines \ Declared(pipe) : wanted[p] # 0 => target[p] = NoRows
      /\ Owed = {} /\ Owed' = revised \cup starts'
  BY <1>1 DEF FollowInv, ApplyKnows, Owed
<1>3. \A p \in Pipelines : pipe'[p].rev = wanted[p]
  BY ReplacedRevision
<1>4. CycleDelivers' /\ log' = log
  BY VerbAlone DEF VerbStep
<1>5. ASSUME NEW p \in Declared(pipe') \ Owed'
      PROVE  p \in Pipelines /\ pipe'[p] = pipe[p] /\ p \in Declared(pipe)
  <2>1. p \in Pipelines /\ wanted[p] # 0 /\ p \notin revised /\ ~NeedsStart(p)
    BY <1>1, <1>2, <1>3, <1>5 DEF Declared
  <2>2. existing[p] = pipe[p] /\ existing[p].rev # 0
    BY <1>2, <2>1 DEF NeedsStart
  <2>3. existing[p].rev = wanted[p]
    BY <1>2, <2>1, <2>2 DEF Declared
  <2>4. pipe'[p] = Replaced(p)
    BY <1>1, <2>1
  <2> QED
    BY <2>1, <2>2, <2>3, <2>4 DEF Replaced, Declared
<1>6. ASSUME NEW p \in Running(pipe') \ Owed' PROVE IsCurrent(p)'
  <2>1. p \in Pipelines /\ pipe'[p] = pipe[p] /\ p \in Running(pipe)
    BY <1>5 DEF Running
  <2>2. IsCurrent(p)
    BY <1>2, <2>1 DEF FollowInv, OthersAreCurrent
  <2>3. \A k \in Keys : DocumentIsCurrent(p, k)'
    BY <1>1, <1>4, <2>1, <2>2 DEF IsCurrent, DocumentIsCurrent
  <2>4. \A k \in Keys : RowIsCurrent(p, k)'
    BY <1>1, <2>1 DEF RowIsCurrent, NoRows
  <2> QED
    BY <2>3, <2>4 DEF IsCurrent
<1>7. OthersAreCurrent'
  <2>1. \A p \in Declared(pipe') \ Owed' : pipe'[p].delivered
    BY <1>2, <1>5 DEF FollowInv, OthersAreCurrent
  <2> QED
    BY <1>1, <1>2, <1>6, <2>1 DEF OthersAreCurrent
<1>8. ASSUME NEW p \in Pipelines, NeedsStart(p)
      PROVE  p \notin revised /\ target[p] = NoRows
  <2>1. p \notin revised
    BY <1>2, <1>8 DEF NeedsStart, Declared
  <2>2. CASE pipe[p].rev = 0
    BY <1>2, <1>8, <2>1, <2>2 DEF NeedsStart, Declared
  <2>3. CASE pipe[p].rev # 0
    <3>1. existing[p] = pipe[p] /\ ~pipe[p].delivered /\ p \in Declared(pipe)
      BY <1>2, <1>8, <2>1, <2>3 DEF NeedsStart, Declared
    <3> QED
      BY <1>2, <3>1 DEF FollowInv, OthersAreCurrent
  <2> QED
    BY <2>1, <2>2, <2>3
<1>9. DeliveryInv'
  <2>1. revised \subseteq Declared(pipe')
    BY <1>2, <1>3 DEF Declared
  <2>2. base.status = "none" => Declared(pipe') \subseteq starts'
    <3> SUFFICES ASSUME base.status = "none", NEW p \in Declared(pipe') PROVE p \in starts'
      OBVIOUS
    <3>1. Declared(pipe) = {}
      BY <1>1 DEF ReferenceInv
    <3>2. p \in Pipelines /\ wanted[p] # 0 /\ existing[p].rev = 0
      BY <1>2, <1>3, <3>1 DEF Declared
    <3> QED
      BY <1>1, <3>2 DEF NeedsStart
  <2>3. NoRows' = NoRows
    BY DEF NoRows
  <2> QED
    BY <1>1, <1>3, <1>8, <2>1, <2>2, <2>3 DEF DeliveryInv
<1> QED
  BY <1>1, <1>4, <1>7, <1>9 DEF FollowInv, ApplyKnows

(* A Base Dataset that is loaded now has no Pipeline but those to start.   *)
LEMMA SyncBaseFollows ==
  ASSUME ~Interleaved, ~LoadPauses, TypeOK, ReceiveInv, FollowInv, SyncBase PROVE FollowInv'
<1>1. /\ vpc = "base" /\ vpc' = "next"
      /\ UNCHANGED <<pipe, derived, target, wanted, catchUp, revised, starts>>
  BY DEF SyncBase
<1>2. CycleDelivers' /\ log' = log
  BY VerbAlone DEF VerbStep
<1>3. Owed' = Owed /\ revised \subseteq Declared(pipe)
  BY <1>1 DEF FollowInv, DeliveryInv, Owed
<1>4. DeliveryInv'
  <2>1. NoRows' = NoRows
    BY DEF NoRows
  <2> QED
    BY <1>1, <2>1 DEF FollowInv, DeliveryInv
<1>5. /\ base'.status # "loading"
      /\ \/ base' = base
         \/ Declared(pipe) \subseteq Owed
  <2>1. CASE Declared(pipe) = {} \/ base.status = "ready"
    BY <2>1 DEF SyncBase, Pruned, NoBase, FollowInv
  <2>2. CASE ~(Declared(pipe) = {} \/ base.status = "ready")
    <3>1. base.status = "none"
      BY <2>2 DEF TypeOK, FollowInv
    <3>2. Declared(pipe) \subseteq Owed
      BY <1>1, <3>1 DEF FollowInv, DeliveryInv, Owed
    <3>3. base'.status = "ready"
      BY <2>2 DEF SyncBase
    <3> QED
      BY <3>2, <3>3
  <2> QED
    BY <2>1, <2>2
<1>6. CASE base' = base
  <2>1. \A p : IsCurrent(p) => IsCurrent(p)'
    BY <1>1, <1>2, <1>6, CurrentStays
  <2> QED
    BY <1>1, <1>2, <1>3, <1>4, <1>5, <2>1 DEF FollowInv, OthersAreCurrent, ApplyKnows
<1>7. CASE Declared(pipe) \subseteq Owed
  <2>1. OthersAreCurrent'
    BY <1>1, <1>3, <1>7 DEF OthersAreCurrent, Running
  <2> QED
    BY <1>1, <1>2, <1>4, <1>5, <2>1 DEF FollowInv, ApplyKnows
<1> QED
  BY <1>5, <1>6, <1>7

(* A step of a verb that writes at most the Target and Derived Dataset of  *)
(* p, which it is Delivering: the others stay current.                     *)
LEMMA DeliveryKeepsOthers ==
  ASSUME ~Interleaved, TypeOK, ReceiveInv, FollowInv, VerbStep,
         NEW p \in Pipelines, IsDelivering(p), vpc \notin {"none", "replace"}, vpc' # "none",
         UNCHANGED <<base, pipe, catchUp, revised, starts>>,
         \A q \in Pipelines : q # p => target'[q] = target[q] /\ derived'[q] = derived[q]
  PROVE  OthersAreCurrent' /\ CycleDelivers'
<1>1. CycleDelivers' /\ log' = log
  BY VerbAlone
<1>2. p \in Owed /\ Owed' = Owed
  BY DEF IsDelivering, IsNextPipeline, Owed
<1>3. ASSUME NEW q \in Pipelines \ Owed, IsCurrent(q) PROVE IsCurrent(q)'
  BY <1>1, <1>2, <1>3, CurrentStays
<1>4. Running(pipe) \subseteq Pipelines /\ revised \subseteq Pipelines
  BY DEF Running, Declared, TypeOK
<1> QED
  BY <1>1, <1>2, <1>3, <1>4 DEF FollowInv, OthersAreCurrent

LEMMA DeliverReadFollows ==
  ASSUME ~Interleaved, TypeOK, ReferenceInv, ReceiveInv, FollowInv,
         NEW p \in Pipelines, DeliverRead(p)
  PROVE  FollowInv'
<1>1. /\ vpc = "next" /\ IsDelivering(p) /\ UNCHANGED <<log, base, pipe, derived, target>>
  BY DEF DeliverRead
<1>2. pipe[p].rev # 0
  BY <1>1 DEF IsDelivering, IsNextPipeline, ReceiveInv, VerbList, Running, Declared
<1>3. base.status # "none"
  BY <1>1, <1>2 DEF ReferenceInv, Declared
<1>4. /\ snapshot' = base.rows
      /\ vpc' = IF p \in Transforms THEN "derive" ELSE "upsert"
      /\ UNCHANGED <<existing, wanted, catchUp, revised, starts>>
  BY <1>3 DEF DeliverRead
<1>5. VerbStep
  BY DEF VerbStep, Delivery
<1>6. OthersAreCurrent' /\ CycleDelivers'
  BY <1>1, <1>4, <1>5, DeliveryKeepsOthers
<1>7. \A q \in Pipelines : IsDelivering(q)' => q = p
  BY <1>1, <1>4, DeliveringIsUnique DEF IsDelivering, IsNextPipeline
<1>8. DeliveryInv'
  <2>1. NoRows' = NoRows
    BY DEF NoRows
  <2> QED
    BY <1>1, <1>4, <1>7, <2>1 DEF FollowInv, DeliveryInv
<1> QED
  BY <1>1, <1>4, <1>6, <1>8 DEF FollowInv, ApplyKnows

LEMMA ReplaceDerivedFollows ==
  ASSUME ~Interleaved, TypeOK, ReceiveInv, FollowInv, NEW p \in Pipelines, ReplaceDerived(p)
  PROVE  FollowInv'
<1>1. /\ vpc = "derive" /\ vpc' = "upsert" /\ IsDelivering(p)
      /\ derived' = [derived EXCEPT ![p] = snapshot]
      /\ UNCHANGED <<log, base, pipe, target, existing, wanted, catchUp, revised, starts, snapshot>>
  BY DEF ReplaceDerived
<1>2. derived'[p] = snapshot /\ \A q \in Pipelines : q # p => derived'[q] = derived[q]
  BY <1>1 DEF TypeOK
<1>3. VerbStep
  BY DEF VerbStep, Delivery
<1>4. OthersAreCurrent' /\ CycleDelivers'
  BY <1>1, <1>2, <1>3, DeliveryKeepsOthers
<1>5. \A q \in Pipelines : IsDelivering(q)' => q = p
  BY <1>1, DeliveringIsUnique DEF IsDelivering, IsNextPipeline
<1>6. DeliveryInv'
  <2>1. NoRows' = NoRows
    BY DEF NoRows
  <2> QED
    BY <1>1, <1>2, <1>5, <2>1 DEF FollowInv, DeliveryInv
<1> QED
  BY <1>1, <1>4, <1>6 DEF FollowInv, ApplyKnows

(* A first Delivery finds no document; a later one reconciles deletes.     *)
LEMMA UpsertFollows ==
  ASSUME ~Interleaved, TypeOK, ReceiveInv, FollowInv, NEW p \in Pipelines, UpsertAll(p)
  PROVE  FollowInv'
<1>1. /\ vpc = "upsert" /\ vpc' = (IF catchUp # {} THEN "reconcile" ELSE "delivered")
      /\ IsDelivering(p)
      /\ target' = [target EXCEPT ![p] =
                      [k \in Keys |-> IF snapshot[k] = Absent THEN @[k]
                                      ELSE Document(snapshot[k], wanted[p])]]
      /\ UNCHANGED <<log, base, pipe, derived, existing, wanted, catchUp, revised, starts, snapshot>>
  BY DEF UpsertAll
<1>2. /\ \A k \in Keys : target'[p][k] = IF snapshot[k] = Absent THEN target[p][k]
                                         ELSE Document(snapshot[k], wanted[p])
      /\ \A q \in Pipelines : q # p => target'[q] = target[q]
  BY <1>1 DEF TypeOK
<1>3. VerbStep
  BY DEF VerbStep, Delivery
<1>4. OthersAreCurrent' /\ CycleDelivers'
  BY <1>1, <1>2, <1>3, DeliveryKeepsOthers
<1>5. \A q \in Pipelines : IsDelivering(q)' <=> IsDelivering(q)
  BY <1>1 DEF IsDelivering, IsNextPipeline
<1>6. /\ \A q \in Pipelines : IsDelivering(q) => q = p
      /\ snapshot = base.rows /\ catchUp \cap starts = {} /\ NoRows' = NoRows
      /\ \A q \in starts : q \in Pipelines /\ target[q] = NoRows
      /\ p \in Transforms => derived[p] = base.rows
  BY <1>1, DeliveringIsUnique DEF FollowInv, DeliveryInv, TypeOK, NoRows
<1>7. \A q \in starts : target'[q] = NoRows \/ (vpc' = "delivered" /\ IsDelivering(q)')
  <2>1. catchUp # {} => p \notin starts
    BY <1>1, <1>6 DEF IsDelivering, IsNextPipeline
  <2> QED
    BY <1>1, <1>2, <1>5, <1>6, <2>1
<1>8. vpc' = "reconcile" => \A k \in Keys : snapshot[k] # Absent =>
                              target'[p][k] = Document(snapshot[k], wanted[p])
  BY <1>2
<1>9. vpc' = "delivered" => \A k \in Keys : target'[p][k] = Document(base.rows[k], wanted[p])
  <2> SUFFICES ASSUME catchUp = {}, NEW k \in Keys
               PROVE  target'[p][k] = Document(base.rows[k], wanted[p])
    BY <1>1
  <2>1. target[p][k] = Absent
    BY <1>1, <1>6 DEF IsDelivering, IsNextPipeline, NoRows
  <2> QED
    BY <1>2, <1>6, <2>1 DEF Document
<1>10. DeliveryInv'
  BY <1>1, <1>5, <1>6, <1>7, <1>8, <1>9 DEF FollowInv, DeliveryInv
<1> QED
  BY <1>1, <1>4, <1>10 DEF FollowInv, ApplyKnows

LEMMA ReconcileFollows ==
  ASSUME ~Interleaved, TypeOK, ReceiveInv, FollowInv, NEW p \in Pipelines, ReconcileDeletes(p)
  PROVE  FollowInv'
<1>1. /\ vpc = "reconcile" /\ vpc' = "delivered" /\ IsDelivering(p)
      /\ target' = [target EXCEPT ![p] = [k \in Keys |-> IF Stale(k) THEN Absent ELSE @[k]]]
      /\ UNCHANGED <<log, base, pipe, derived, existing, wanted, catchUp, revised, starts, snapshot>>
  BY DEF ReconcileDeletes
<1>2. /\ \A k \in Keys : target'[p][k] = IF snapshot[k] = Absent THEN Absent ELSE target[p][k]
      /\ \A q \in Pipelines : q # p => target'[q] = target[q]
  BY <1>1 DEF TypeOK, Stale
<1>3. VerbStep
  BY DEF VerbStep, Delivery
<1>4. OthersAreCurrent' /\ CycleDelivers'
  BY <1>1, <1>2, <1>3, DeliveryKeepsOthers
<1>5. \A q \in Pipelines : IsDelivering(q)' <=> IsDelivering(q)
  BY <1>1 DEF IsDelivering, IsNextPipeline
<1>6. /\ \A q \in Pipelines : IsDelivering(q) => q = p
      /\ snapshot = base.rows /\ NoRows' = NoRows
      /\ \A q \in starts : q \in Pipelines /\ target[q] = NoRows
      /\ p \in Transforms => derived[p] = base.rows
      /\ \A k \in Keys : snapshot[k] # Absent => target[p][k] = Document(snapshot[k], wanted[p])
  BY <1>1, DeliveringIsUnique DEF FollowInv, DeliveryInv, TypeOK, NoRows
<1>7. \A q \in starts : target'[q] = NoRows \/ IsDelivering(q)'
  BY <1>1, <1>2, <1>5, <1>6
<1>8. \A k \in Keys : target'[p][k] = Document(base.rows[k], wanted[p])
  BY <1>2, <1>6 DEF Document
<1>9. DeliveryInv'
  BY <1>1, <1>5, <1>6, <1>7, <1>8 DEF FollowInv, DeliveryInv
<1> QED
  BY <1>1, <1>4, <1>9 DEF FollowInv, ApplyKnows

(* What has been Delivered completely is current.                          *)
LEMMA DeliveredFollows ==
  ASSUME ~Interleaved, TypeOK, ReceiveInv, FollowInv, NEW p \in Pipelines, RecordDelivered(p)
  PROVE  FollowInv'
<1>1. /\ vpc = "delivered" /\ vpc' = "next" /\ IsDelivering(p)
      /\ pipe' = [pipe EXCEPT ![p].delivered = TRUE]
      /\ UNCHANGED <<log, base, derived, target, wanted, revised>>
  BY DEF RecordDelivered
<1>2. /\ catchUp' \subseteq catchUp /\ starts' \subseteq starts
      /\ Owed \ {p} \subseteq Owed'
      /\ p \in starts => p \notin starts'
  <2>1. CASE catchUp = {}
    BY <2>1 DEF RecordDelivered, Owed
  <2>2. CASE catchUp # {}
    <3>1. p \notin starts
      BY <1>1, <2>2 DEF IsDelivering, IsNextPipeline, FollowInv, DeliveryInv
    <3> QED
      BY <2>2, <3>1 DEF RecordDelivered, Owed
  <2> QED
    BY <2>1, <2>2
<1>3. \A q \in Pipelines : /\ pipe'[q].rev = pipe[q].rev /\ pipe'[q].paused = pipe[q].paused
                           /\ q # p => pipe'[q] = pipe[q]
  <2>1. pipe \in [Pipelines -> Stored]
    BY DEF TypeOK
  <2>2. \A q \in Pipelines : pipe'[q].rev = pipe[q].rev /\ pipe'[q].paused = pipe[q].paused
    BY <1>1, <2>1 DEF Stored
  <2>3. \A q \in Pipelines : q # p => pipe'[q] = pipe[q]
    BY <1>1, <2>1
  <2> QED
    BY <2>2, <2>3
<1>4. pipe'[p].delivered
  BY <1>1 DEF TypeOK, Stored
<1>5. Declared(pipe') = Declared(pipe) /\ Running(pipe') = Running(pipe)
  BY <1>3 DEF Running, Declared
<1>6. CycleDelivers' /\ log' = log
  BY VerbAlone DEF VerbStep, Delivery
<1>7. IsCurrent(p)
  <2>1. /\ \A k \in Keys : target[p][k] = Document(base.rows[k], pipe[p].rev)
        /\ p \in Transforms => derived[p] = base.rows
    BY <1>1 DEF FollowInv, DeliveryInv
  <2> QED
    BY <2>1 DEF IsCurrent, DocumentIsCurrent, RowIsCurrent
<1>8. ASSUME NEW q \in Pipelines, IsCurrent(q) PROVE IsCurrent(q)'
  BY <1>1, <1>3, <1>6, <1>8, CurrentStays
<1>9. OthersAreCurrent'
  <2>1. \A q \in Declared(pipe) \ Owed' : pipe'[q].delivered
    BY <1>2, <1>3, <1>4 DEF FollowInv, OthersAreCurrent, Declared
  <2>2. \A q \in Running(pipe) \ Owed' : IsCurrent(q)'
    BY <1>2, <1>7, <1>8 DEF FollowInv, OthersAreCurrent, Running, Declared
  <2>3. \A q \in revised \ Owed' : IsCurrent(q)'
    BY <1>1, <1>2, <1>7, <1>8 DEF FollowInv, OthersAreCurrent, TypeOK
  <2> QED
    BY <1>1, <1>5, <2>1, <2>2, <2>3 DEF OthersAreCurrent
<1>10. DeliveryInv'
  <2>1. /\ \A q \in Pipelines : wanted[q] = pipe[q].rev
        /\ catchUp \cap starts = {} /\ revised \cap starts = {} /\ revised \subseteq Declared(pipe)
        /\ \A q \in starts : target[q] = NoRows \/ IsDelivering(q)
    BY <1>1 DEF FollowInv, DeliveryInv
  <2>2. \A q \in starts' : target[q] = NoRows
    BY <1>1, <1>2, <2>1, DeliveringIsUnique DEF TypeOK
  <2>3. NoRows' = NoRows
    BY DEF NoRows
  <2> QED
    BY <1>1, <1>2, <1>3, <1>5, <2>1, <2>2, <2>3 DEF DeliveryInv
<1> QED
  BY <1>1, <1>6, <1>9, <1>10 DEF FollowInv, ApplyKnows

(* A revised Pipeline is unpaused when it has been Delivered again.        *)
LEMMA UnpauseFollows ==
  ASSUME ~Interleaved, TypeOK, ReceiveInv, FollowInv, NEW p \in Pipelines, UnpauseRevised(p)
  PROVE  FollowInv'
<1>1. /\ vpc = "next" /\ vpc' = "next" /\ catchUp = {} /\ p \in revised
      /\ pipe' = [pipe EXCEPT ![p].paused = FALSE] /\ revised' = revised \ {p}
      /\ UNCHANGED <<log, base, derived, target, wanted, catchUp, starts>>
  BY DEF UnpauseRevised, IsNextPipeline
<1>2. Owed' = Owed /\ p \notin Owed
  BY <1>1 DEF FollowInv, DeliveryInv, Owed
<1>3. \A q \in Pipelines : /\ pipe'[q].rev = pipe[q].rev /\ pipe'[q].delivered = pipe[q].delivered
                           /\ q # p => pipe'[q] = pipe[q]
  <2>1. pipe \in [Pipelines -> Stored]
    BY DEF TypeOK
  <2>2. \A q \in Pipelines : pipe'[q].rev = pipe[q].rev /\ pipe'[q].delivered = pipe[q].delivered
    BY <1>1, <2>1 DEF Stored
  <2>3. \A q \in Pipelines : q # p => pipe'[q] = pipe[q]
    BY <1>1, <2>1
  <2> QED
    BY <2>2, <2>3
<1>4. Declared(pipe') = Declared(pipe) /\ Running(pipe') \subseteq Running(pipe) \cup {p}
  BY <1>3 DEF Running, Declared
<1>5. CycleDelivers' /\ log' = log
  BY VerbAlone DEF VerbStep, Delivery
<1>6. ASSUME NEW q \in Pipelines, IsCurrent(q) PROVE IsCurrent(q)'
  BY <1>1, <1>3, <1>5, <1>6, CurrentStays
<1>7. OthersAreCurrent'
  <2>1. \A q \in Declared(pipe) \ Owed : pipe'[q].delivered
    BY <1>3 DEF FollowInv, OthersAreCurrent, Declared
  <2>2. \A q \in revised \ Owed : IsCurrent(q)'
    BY <1>1, <1>6 DEF FollowInv, OthersAreCurrent, TypeOK
  <2>3. \A q \in Running(pipe') \ Owed : IsCurrent(q)'
    BY <1>1, <1>2, <1>4, <1>6, <2>2 DEF FollowInv, OthersAreCurrent, Running, Declared
  <2> QED
    BY <1>1, <1>2, <1>4, <2>1, <2>2, <2>3 DEF OthersAreCurrent
<1>8. DeliveryInv'
  <2>1. NoRows' = NoRows
    BY DEF NoRows
  <2> QED
    BY <1>1, <1>3, <1>4, <2>1 DEF FollowInv, DeliveryInv
<1> QED
  BY <1>1, <1>5, <1>7, <1>8 DEF FollowInv, ApplyKnows

(* A verb that ends, or that is stopped before it replaces the Pipelines,  *)
(* has nothing left to Deliver.                                            *)
LEMMA EndFollows ==
  ASSUME ~Interleaved, Stops \subseteq {"replace"}, TypeOK, ReceiveInv, FollowInv,
         VerbEnds \/ VerbStops
  PROVE  FollowInv'
<1>1. vpc' = "none" /\ EndVerb /\ UNCHANGED <<log, base, pipe, derived, target>>
  BY DEF VerbEnds, VerbStops, EndVerb
<1>2. Owed = {} /\ Owed' = {}
  BY <1>1 DEF VerbEnds, VerbStops, EndVerb, FollowInv, ApplyKnows, Owed
<1>3. CycleDelivers'
  BY VerbAlone DEF VerbStep
<1>4. ASSUME NEW q, IsCurrent(q) PROVE IsCurrent(q)'
  BY <1>1, <1>4, CurrentStays
<1>5. OthersAreCurrent'
  BY <1>1, <1>2, <1>4 DEF FollowInv, OthersAreCurrent
<1> QED
  BY <1>1, <1>3, <1>5 DEF FollowInv, ApplyKnows, DeliveryInv

LEMMA FollowStep ==
  ASSUME ~Interleaved, ~LoadPauses, ~Redeclares, Stops \subseteq {"replace"},
         TypeOK, BaseInv, ReferenceInv, ReceiveInv, FollowInv, [Next]_vars
  PROVE  FollowInv'
<1>1. CASE UNCHANGED vars
  <2>1. UNCHANGED <<log, base, pipe, derived, target, cpc, listed, rows, position, todo, vpc,
                    existing, wanted, catchUp, revised, starts, snapshot>>
    BY <1>1 DEF vars, cycleVars, verbVars
  <2>2. ASSUME NEW p, IsCurrent(p) PROVE IsCurrent(p)'
    BY <2>1, <2>2, CurrentStays
  <2>3. OthersAreCurrent' /\ ApplyKnows' /\ base'.status # "loading"
    BY <2>1, <2>2 DEF FollowInv, OthersAreCurrent, ApplyKnows, Owed, Running, Declared
  <2>4. DeliveryInv'
    BY <2>1 DEF FollowInv, DeliveryInv, Declared, IsDelivering, IsNextPipeline
  <2>5. CycleDelivers'
    BY <2>1 DEF FollowInv, CycleDelivers, HasRow, HasDocument, Change, IsNextPipeline, Running,
                Declared
  <2> QED
    BY <2>3, <2>4, <2>5 DEF FollowInv
<1>2. CASE SourceChange
  BY <1>2, SourceFollows
<1>3. CASE Cycle \/ CycleCrash
  BY <1>3, CycleFollows
<1>4. CASE Operator
  BY <1>4, PauseFollows, ResumeFollows, RemoveFollows, ApplyStartFollows DEF Operator
<1>5. CASE VerbStep
  <2>1. CASE \E p \in Pipelines : PauseOld(p)
    BY <2>1, PauseOldFollows
  <2>2. CASE \E p \in Pipelines : Delivery(p)
    BY <2>2, DeliverReadFollows, ReplaceDerivedFollows, UpsertFollows, ReconcileFollows,
       DeliveredFollows, UnpauseFollows DEF Delivery
  <2>3. CASE ReplacePipelines \/ SyncBase \/ VerbEnds
    BY <2>3, ReplaceFollows, SyncBaseFollows, EndFollows
  <2> QED
    BY <1>5, <2>1, <2>2, <2>3 DEF VerbStep
<1>6. CASE VerbStops
  BY <1>6, EndFollows
<1> QED
  BY <1>1, <1>2, <1>3, <1>4, <1>5, <1>6 DEF Next

IInv == TypeOK /\ BaseInv /\ ReferenceInv /\ ReceiveInv /\ FollowInv

LEMMA IInvHolds ==
  ASSUME LifecycleAssumption, ~Interleaved, ~LoadPauses, ~Redeclares, Stops \subseteq {"replace"}
  PROVE  Spec => []IInv
<1>1. Init => IInv
  <2> SUFFICES ASSUME Init PROVE IInv
    OBVIOUS
  <2>1. ReferenceInv
    BY ReferenceInit
  <2>2. ReceiveInv
    BY DEF Init, NoCycle, NoVerb, ReceiveInv, NoOverlap, CycleList, VerbList
  <2> QED
    BY <2>1, <2>2, InitTyped, BaseInvInit, FollowInit DEF IInv
<1>2. IInv /\ [Next]_vars => IInv'
  <2> SUFFICES ASSUME IInv, [Next]_vars PROVE IInv'
    OBVIOUS
  <2>1. TypeOK' /\ BaseInv' /\ FollowInv'
    BY TypeStep, BaseInvStep, FollowStep DEF IInv
  <2>2. ReferenceInv'
    BY ReferenceStep DEF IInv
  <2>3. ReceiveInv'
    BY NoOverlapStep, CycleListStep, VerbListStep DEF IInv, ReceiveInv
  <2> QED
    BY <2>1, <2>2, <2>3 DEF IInv
<1> QED
  BY <1>1, <1>2, PTL DEF Spec

(* Between verbs nothing is left to Deliver.                               *)
LEMMA InForceIsCurrent ==
  ASSUME IInv, vpc = "none", NEW p \in Pipelines, InForce(p) PROVE IsCurrent(p)
<1>1. Owed = {}
  BY DEF IInv, ReceiveInv, VerbList, Owed
<1>2. p \in Running(pipe)
  BY DEF InForce, Running, Declared
<1> QED
  BY <1>1, <1>2 DEF IInv, FollowInv, OthersAreCurrent

(* Between verbs the documents of every Pipeline in force are the Base     *)
(* Dataset's rows under its revision, or one change ahead, whatever verbs, *)
(* cycles and crashes of cycles came before, if verbs wait for cycles, no  *)
(* Pipeline is declared over documents of an earlier one, and an apply     *)
(* that stops has not replaced the Pipelines yet (resume_pipeline,         *)
(* deliver_pipelines_with_options, the revision path).                     *)
THEOREM RunningPipelinesFollowBaseHolds ==
  ASSUME LifecycleAssumption, ~Interleaved, ~LoadPauses, ~Redeclares, Stops \subseteq {"replace"}
  PROVE  Spec => []RunningPipelinesFollowBase
<1>1. IInv => RunningPipelinesFollowBase
  BY InForceIsCurrent DEF RunningPipelinesFollowBase, IsCurrent
<1> QED
  BY <1>1, IInvHolds, PTL

-----------------------------------------------------------------------------
(* Derived rows alone need less: apply drops them, so that only a resumed  *)
(* Pipeline has outdated ones, until they are replaced.                    *)

RowsAreCurrent(p) == p \in Transforms => \A k \in Keys : RowIsCurrent(p, k)

Resuming(p) == vpc \in {"next", "derive"} /\ catchUp = {p}

(* Without its Pipeline or its Base Dataset a Derived Dataset is empty.    *)
EmptyWithout ==
  \A p \in Pipelines : pipe[p].rev = 0 \/ base.status = "none" => derived[p] = NoRows

UpToDate ==
  /\ \A p \in Running(pipe) : Resuming(p) \/ RowsAreCurrent(p)
  /\ vpc \notin {"none", "replace"} => \A p \in revised : Resuming(p) \/ RowsAreCurrent(p)

ReadIsBase == vpc = "derive" => base.status # "none" /\ snapshot = base.rows

(* A load that goes on adds rows to those it has, of one watermark.        *)
LoadedAreImages ==
  base.status = "loading" =>
    \A k \in Keys : base.rows[k] # Absent => IsImageAfter(base.position, k, base.rows[k])

CycleMaintains ==
  cpc \in {"deliver", "write", "progress"} =>
    \A p \in Running(listed) :
      p \notin todo \/ (cpc # "deliver" /\ IsNextPipeline(p, todo)) => HasRow(p)

DerivedInv == EmptyWithout /\ UpToDate /\ ReadIsBase /\ LoadedAreImages /\ CycleMaintains

LEMMA DerivedInit == ASSUME LifecycleAssumption, Init PROVE DerivedInv
<1>1. vpc = "none" /\ cpc = "idle" /\ base.status # "loading"
  BY DEF Init, NoCycle, NoVerb
<1>2. EmptyWithout
  <2> SUFFICES ASSUME NEW p \in Pipelines, pipe[p].rev = 0 \/ base.status = "none"
               PROVE  derived[p] = NoRows
    BY DEF EmptyWithout
  <2>1. p \notin Initial
    BY DEF Init
  <2> QED
    BY <2>1 DEF Init
<1>3. ASSUME NEW p \in Running(pipe) PROVE RowsAreCurrent(p)
  <2>1. p \in Initial /\ p \in Pipelines
    BY DEF Init, Running, Declared, NoPipe
  <2>2. \A k \in Keys : base.rows[k] = 0
    BY <2>1 DEF Init
  <2>3. p \in Transforms => \A k \in Keys : derived[p][k] = 0
    BY <2>1 DEF Init
  <2> QED
    BY <2>2, <2>3 DEF RowsAreCurrent, RowIsCurrent
<1> QED
  BY <1>1, <1>2, <1>3 DEF DerivedInv, UpToDate, ReadIsBase, LoadedAreImages, CycleMaintains

LEMMA NextChangeStays ==
  ASSUME TypeOK, log' = log \/ \E e : log' = Append(log, e), base' = base, base.position < Len(log)
  PROVE  base'.position < Len(log') /\ log'[base'.position + 1] = log[base.position + 1]
<1>1. base.position \in Nat /\ log \in Seq([key : Keys, image : Images])
  BY DEF TypeOK
<1>2. CASE log' = log
  BY <1>2
<1>3. CASE \E e : log' = Append(log, e)
  <2>1. PICK e : log' = Append(log, e)
    BY <1>3
  <2> QED
    BY <1>1, <2>1
<1> QED
  BY <1>2, <1>3

LEMMA RowsStay ==
  ASSUME TypeOK, NEW p, log' = log \/ \E e : log' = Append(log, e),
         base' = base, derived'[p] = derived[p], RowsAreCurrent(p)
  PROVE  RowsAreCurrent(p)'
<1>1. base.position < Len(log) => base'.position < Len(log') /\ log'[base'.position + 1] = log[base.position + 1]
  BY NextChangeStays
<1>2. ASSUME NEW k \in Keys, RowIsCurrent(p, k) PROVE RowIsCurrent(p, k)'
  BY <1>1, <1>2 DEF RowIsCurrent
<1> QED
  BY <1>2 DEF RowsAreCurrent

LEMMA EmptyIsCurrent ==
  ASSUME NEW p, derived'[p] = NoRows PROVE RowsAreCurrent(p)'
BY DEF RowsAreCurrent, RowIsCurrent, NoRows

(* Row k has one image after n changes.                                    *)
LEMMA ImageIsUnique ==
  ASSUME NEW n \in Nat, NEW k, NEW v, NEW w, IsImageAfter(n, k, v), IsImageAfter(n, k, w)
  PROVE  v = w
<1>1. CASE \A i \in 1 .. n : log[i].key # k
  BY <1>1 DEF IsImageAfter
<1>2. CASE \E i \in 1 .. n : log[i].key = k
  <2>1. PICK i \in 1 .. n : /\ log[i].key = k /\ log[i].image = v
                            /\ \A j \in 1 .. n : log[j].key = k => j <= i
    BY <1>2 DEF IsImageAfter
  <2>2. PICK i2 \in 1 .. n : /\ log[i2].key = k /\ log[i2].image = w
                             /\ \A j \in 1 .. n : log[j].key = k => j <= i2
    BY <1>2 DEF IsImageAfter
  <2>3. i <= i2 /\ i2 <= i
    BY <2>1, <2>2
  <2> QED
    BY <2>1, <2>2, <2>3
<1> QED
  BY <1>1, <1>2

(* A step that leaves log, Base and Derived Datasets alone, and no cycle   *)
(* in the middle of a change.                                              *)
LEMMA RowsQuiet ==
  ASSUME TypeOK, DerivedInv, UNCHANGED <<log, base, derived>>, cpc' \notin {"deliver", "write", "progress"},
         \A q \in Pipelines : pipe'[q].rev = pipe[q].rev,
         \A q \in Running(pipe') : Resuming(q)' \/ RowsAreCurrent(q),
         vpc' \notin {"none", "replace"} => \A q \in revised' : Resuming(q)' \/ RowsAreCurrent(q),
         ReadIsBase'
  PROVE  DerivedInv'
<1>1. \A q : RowsAreCurrent(q) => RowsAreCurrent(q)'
  BY RowsStay
<1>2. UpToDate'
  BY <1>1 DEF UpToDate
<1>3. EmptyWithout'
  <2>1. NoRows' = NoRows
    BY DEF NoRows
  <2> QED
    BY <2>1 DEF DerivedInv, EmptyWithout
<1>4. LoadedAreImages'
  BY DEF DerivedInv, LoadedAreImages, IsImageAfter
<1> QED
  BY <1>2, <1>3, <1>4 DEF DerivedInv, CycleMaintains

LEMMA SourceKeepsRows ==
  ASSUME TypeOK, BaseInv, DerivedInv, SourceChange PROVE DerivedInv'
<1>1. PICK e : log' = Append(log, e)
  BY DEF SourceChange
<1>2. UNCHANGED <<base, pipe, derived, cpc, listed, position, todo, vpc, catchUp, revised, snapshot>>
  BY DEF SourceChange, cycleVars, verbVars
<1>3. ASSUME NEW p, RowsAreCurrent(p) PROVE RowsAreCurrent(p)'
  BY <1>1, <1>2, <1>3, RowsStay
<1>4. UpToDate'
  BY <1>2, <1>3 DEF DerivedInv, UpToDate, Running, Declared, Resuming
<1>5. EmptyWithout' /\ ReadIsBase'
  <2>1. NoRows' = NoRows
    BY DEF NoRows
  <2> QED
    BY <1>2, <2>1 DEF DerivedInv, EmptyWithout, ReadIsBase
<1>6. LoadedAreImages'
  <2> SUFFICES ASSUME base.status = "loading", NEW k \in Keys, base.rows[k] # Absent
               PROVE  IsImageAfter(base.position, k, base.rows[k])'
    BY <1>2 DEF LoadedAreImages
  <2>1. IsImageAfter(base.position, k, base.rows[k])
    BY DEF DerivedInv, LoadedAreImages
  <2>2. base.position \in Nat /\ base.position <= Len(log) /\ log \in Seq([key : Keys, image : Images])
    BY DEF BaseInv, CycleOnBase, TypeOK
  <2>3. \A i \in 1 .. base.position : log'[i] = log[i]
    BY <1>1, <2>2
  <2> QED
    BY <1>2, <2>1, <2>3 DEF IsImageAfter
<1>7. CycleMaintains'
  <2>1. ASSUME cpc \in {"deliver", "write", "progress"} PROVE Change' = Change
    <3>1. position < Len(log) /\ position \in Nat /\ log \in Seq([key : Keys, image : Images])
      BY <2>1 DEF BaseInv, CycleOnBase, TypeOK
    <3> QED
      BY <1>1, <1>2, <3>1 DEF Change
  <2> QED
    BY <1>2, <2>1 DEF DerivedInv, CycleMaintains, HasRow, IsNextPipeline, Running, Declared
<1> QED
  BY <1>4, <1>5, <1>6, <1>7 DEF DerivedInv

(* While a cycle runs no verb does, and every Pipeline that runs is        *)
(* current.                                                                *)
LEMMA CycleRows ==
  ASSUME ~Interleaved, TypeOK, ReceiveInv, DerivedInv, Cycle \/ CycleCrash
  PROVE  /\ vpc' = "none" /\ log' = log /\ ReadIsBase'
         /\ Running(pipe') = Running(pipe)
         /\ \A q \in Pipelines : pipe'[q].rev = pipe[q].rev
         /\ \A q \in Running(pipe) : q \in Pipelines /\ RowsAreCurrent(q)
<1>1. vpc = "none" /\ vpc' = "none" /\ log' = log
  BY CycleWithoutVerb DEF ReceiveInv, NoOverlap, verbVars
<1>2. \A q \in Pipelines : pipe'[q].rev = pipe[q].rev /\ pipe'[q].paused = pipe[q].paused
  BY CycleKeepsPipelines
<1>3. Running(pipe') = Running(pipe) /\ Running(pipe) \subseteq Pipelines
  BY <1>2 DEF Running, Declared
<1> QED
  BY <1>1, <1>2, <1>3 DEF DerivedInv, UpToDate, Resuming, ReadIsBase

LEMMA MaintainKeepsRows ==
  ASSUME ~Interleaved, TypeOK, BaseInv, ReceiveInv, DerivedInv, NEW p \in Pipelines, CycleMaintain(p)
  PROVE  DerivedInv'
<1>1. /\ cpc = "deliver" /\ p \in Transforms /\ IsNextPipeline(p, todo) /\ p \in todo
      /\ UNCHANGED <<log, base, pipe, listed, rows, position, todo>>
  BY DEF CycleMaintain, IsNextPipeline
<1>2. Cycle
  BY DEF Cycle
<1>3. p \in Running(pipe) /\ Running(listed) = Running(pipe) /\ pipe[p].rev # 0
  BY <1>1, TodoRuns DEF Running, Declared
<1>4. cpc' = "write" /\ derived' = [derived EXCEPT ![p] = Maintained(p)]
  BY <1>3 DEF CycleMaintain
<1>5. /\ Change' = Change /\ Change.key \in Keys /\ rows[Change.key] = Change.image
      /\ base.position < Len(log) /\ Change = log[base.position + 1] /\ base.status = "ready"
  BY <1>1, ChangeFacts DEF Change
<1>6. /\ derived'[p] = [derived[p] EXCEPT ![Change.key] = Change.image]
      /\ derived[p] \in [Keys -> Images] /\ \A q \in Pipelines : q # p => derived'[q] = derived[q]
  BY <1>4, <1>5 DEF Maintained, TypeOK, Rows
<1>7. RowsAreCurrent(p)'
  <2>1. ASSUME NEW k \in Keys PROVE RowIsCurrent(p, k)'
    <3>1. CASE k = Change.key
      BY <1>1, <1>5, <1>6, <3>1 DEF RowIsCurrent
    <3>2. CASE k # Change.key
      <4>1. derived'[p][k] = derived[p][k] /\ RowIsCurrent(p, k)
        BY <1>1, <1>2, <1>3, <1>6, <3>2, CycleRows DEF RowsAreCurrent
      <4> QED
        BY <1>1, <4>1 DEF RowIsCurrent
    <3> QED
      BY <3>1, <3>2
  <2> QED
    BY <2>1 DEF RowsAreCurrent
<1>8. UpToDate'
  <2>1. ASSUME NEW q \in Running(pipe), q # p PROVE RowsAreCurrent(q)'
    <3>1. q \in Pipelines /\ RowsAreCurrent(q)
      BY <1>2, CycleRows
    <3> QED
      BY <1>1, <1>6, <2>1, <3>1, RowsStay
  <2> QED
    BY <1>1, <1>2, <1>7, <2>1, CycleRows DEF UpToDate
<1>9. EmptyWithout' /\ LoadedAreImages'
  <2>1. NoRows' = NoRows
    BY DEF NoRows
  <2> QED
    BY <1>1, <1>3, <1>5, <1>6, <2>1 DEF DerivedInv, EmptyWithout, LoadedAreImages
<1>10. CycleMaintains'
  <2>1. HasRow(p)'
    BY <1>1, <1>5, <1>6 DEF HasRow
  <2>2. ASSUME NEW q \in Running(listed), q \notin todo PROVE HasRow(q)'
    <3>1. q \in Pipelines /\ q # p /\ HasRow(q)
      BY <1>1, <2>2 DEF DerivedInv, CycleMaintains, Running, Declared
    <3> QED
      BY <1>1, <1>5, <1>6, <3>1 DEF HasRow
  <2>3. ASSUME NEW q \in Running(listed), IsNextPipeline(q, todo) PROVE q = p
    BY <1>1, <2>3, NextIsUnique DEF Running, Declared
  <2> QED
    BY <1>1, <1>4, <2>1, <2>2, <2>3 DEF CycleMaintains
<1> QED
  BY <1>2, <1>8, <1>9, <1>10, CycleRows DEF DerivedInv

(* The documents of a Pipeline come after its row.                         *)
LEMMA DeliverKeepsRows ==
  ASSUME ~Interleaved, TypeOK, BaseInv, ReceiveInv, DerivedInv, NEW p \in Pipelines,
         CycleDeliver(p) \/ CycleProgress(p)
  PROVE  DerivedInv'
<1>1. /\ IsNextPipeline(p, todo) /\ p \in todo /\ UNCHANGED <<log, base, derived>>
      /\ cpc = "deliver" => p \notin Transforms
      /\ cpc \in {"deliver", "write", "progress"}
  BY DEF CycleDeliver, CycleProgress, IsNextPipeline
<1>2. Cycle
  BY DEF Cycle
<1>3. p \in Running(pipe) /\ Running(listed) = Running(pipe) /\ pipe[p].rev # 0
  BY <1>1, TodoRuns DEF Running, Declared
<1>4. /\ UNCHANGED <<listed, position>> /\ Change' = Change
      /\ \/ cpc' = "progress" /\ todo' = todo
         \/ cpc = "progress" /\ cpc' = "deliver" /\ todo' = todo \ {p}
  BY <1>3 DEF CycleDeliver, CycleProgress, Change
<1>5. base.status = "ready"
  BY <1>1, ChangeFacts
<1>6. UpToDate'
  <2>1. ASSUME NEW q \in Running(pipe) PROVE RowsAreCurrent(q)'
    <3>1. RowsAreCurrent(q)
      BY <1>2, CycleRows
    <3> QED
      BY <1>1, <3>1, RowsStay
  <2> QED
    BY <1>2, <2>1, CycleRows DEF UpToDate
<1>7. EmptyWithout' /\ LoadedAreImages'
  <2>1. NoRows' = NoRows
    BY DEF NoRows
  <2> QED
    BY <1>1, <1>2, <1>5, <2>1, CycleRows DEF DerivedInv, EmptyWithout, LoadedAreImages
<1>8. CycleMaintains'
  <2>1. HasRow(p)
    BY <1>1, <1>3 DEF DerivedInv, CycleMaintains, HasRow
  <2>2. ASSUME NEW q \in Running(listed), q \notin todo PROVE HasRow(q)
    BY <1>1, <2>2 DEF DerivedInv, CycleMaintains
  <2>3. ASSUME NEW q \in Running(listed), IsNextPipeline(q, todo) PROVE q = p
    BY <1>1, <2>3, NextIsUnique DEF Running, Declared
  <2>4. \A q : HasRow(q) => HasRow(q)'
    BY <1>1, <1>4 DEF HasRow
  <2> QED
    BY <1>4, <2>1, <2>2, <2>3, <2>4 DEF CycleMaintains
<1> QED
  BY <1>2, <1>6, <1>7, <1>8, CycleRows DEF DerivedInv

LEMMA RecordKeepsRows ==
  ASSUME ~Interleaved, TypeOK, BaseInv, ReceiveInv, DerivedInv, CycleRecord PROVE DerivedInv'
<1>1. /\ cpc = "deliver" /\ todo = {} /\ cpc' = "lag"
      /\ base' = [status |-> "ready", rows |-> RecordedRows, position |-> position + 1]
      /\ UNCHANGED <<log, pipe, derived>>
  BY DEF CycleRecord
<1>2. Cycle
  BY DEF Cycle
<1>3. /\ Change.key \in Keys /\ rows[Change.key] = Change.image /\ base.status = "ready"
      /\ base.position < Len(log) /\ Change = log[base.position + 1]
  BY <1>1, ChangeFacts
<1>4. base'.rows = [base.rows EXCEPT ![Change.key] = Change.image] /\ base.rows \in [Keys -> Images]
  BY <1>1, <1>3 DEF RecordedRows, TypeOK, Rows
<1>5. /\ base'.rows[Change.key] = Change.image
      /\ \A k \in Keys : k # Change.key => base'.rows[k] = base.rows[k]
  BY <1>3, <1>4
<1>6. Running(listed) = Running(pipe)
  BY <1>1, TodoRuns
<1>7. ASSUME NEW q \in Running(pipe) PROVE RowsAreCurrent(q)'
  <2>1. RowsAreCurrent(q) /\ HasRow(q)
    BY <1>1, <1>2, <1>6, CycleRows DEF DerivedInv, CycleMaintains
  <2>2. ASSUME NEW k \in Keys, q \in Transforms PROVE derived[q][k] \in {Absent, base'.rows[k]}
    <3>1. CASE k = Change.key
      BY <1>5, <2>1, <2>2, <3>1 DEF HasRow
    <3>2. CASE k # Change.key
      BY <1>3, <1>5, <2>1, <2>2, <3>2 DEF RowsAreCurrent, RowIsCurrent
    <3> QED
      BY <3>1, <3>2
  <2> QED
    BY <1>1, <2>2 DEF RowsAreCurrent, RowIsCurrent
<1>8. EmptyWithout' /\ LoadedAreImages' /\ CycleMaintains'
  <2>1. NoRows' = NoRows
    BY DEF NoRows
  <2> QED
    BY <1>1, <1>3, <2>1 DEF DerivedInv, EmptyWithout, LoadedAreImages, CycleMaintains
<1> QED
  BY <1>1, <1>2, <1>7, <1>8, CycleRows DEF DerivedInv, UpToDate

LEMMA CycleKeepsRows ==
  ASSUME ~Interleaved, TypeOK, BaseInv, ReceiveInv, DerivedInv, Cycle \/ CycleCrash
  PROVE  DerivedInv'
<1>1. CASE CycleApply
  <2>1. /\ UNCHANGED <<log, base, pipe, derived>> /\ todo' = Running(listed) /\ listed' = listed
        /\ cpc' = "deliver"
    BY <1>1 DEF CycleApply
  <2>2. CycleMaintains'
    BY <2>1 DEF CycleMaintains
  <2>3. \A q : RowsAreCurrent(q) => RowsAreCurrent(q)'
    BY <2>1, RowsStay
  <2>4. UpToDate'
    BY <2>1, <2>3, CycleRows DEF UpToDate
  <2>5. EmptyWithout' /\ LoadedAreImages'
    <3>1. NoRows' = NoRows
      BY DEF NoRows
    <3> QED
      BY <2>1, <3>1 DEF DerivedInv, EmptyWithout, LoadedAreImages, IsImageAfter
  <2> QED
    BY <2>2, <2>4, <2>5, CycleRows DEF DerivedInv
<1>2. CASE \E p \in Pipelines : CycleMaintain(p) \/ CycleDeliver(p) \/ CycleProgress(p)
  BY <1>2, MaintainKeepsRows, DeliverKeepsRows
<1>3. CASE CycleRecord
  BY <1>3, RecordKeepsRows
<1>4. CASE CycleStart \/ CycleReadBase \/ CycleLag \/ CycleCaughtUp \/ CycleCrash
  <2>1. base' = base
    BY <1>4 DEF CycleStart, CycleReadBase, CycleLag, CycleCaughtUp, CycleCrash, BaseInv,
                CycleOnBase, TypeOK
  <2>2. derived' = derived /\ cpc' \notin {"deliver", "write", "progress"}
    BY <1>4 DEF CycleStart, CycleReadBase, CycleLag, CycleCaughtUp, CycleCrash, EndCycle
  <2> QED
    BY <1>4, <2>1, <2>2, CycleRows, RowsQuiet
<1> QED
  BY <1>1, <1>2, <1>3, <1>4 DEF Cycle

-----------------------------------------------------------------------------
(* The verbs and the rows.                                                 *)

LEMMA VerbRows ==
  ASSUME ~Interleaved, TypeOK, ReceiveInv, Operator \/ VerbStep \/ VerbStops
  PROVE  cpc' = "idle" /\ log' = log /\ CycleMaintains'
<1>1. cpc' = "idle" /\ log' = log
  BY OperatorWithoutCycle, VerbWithoutCycle DEF ReceiveInv, NoOverlap
<1> QED
  BY <1>1 DEF CycleMaintains

LEMMA OperatorKeepsRows ==
  ASSUME ~Interleaved, TypeOK, ReceiveInv, DerivedInv, Operator PROVE DerivedInv'
<1>1. vpc = "none" /\ cpc' = "idle" /\ log' = log /\ CycleMaintains'
  BY VerbRows, OperatorWithoutCycle
<1>2. ASSUME NEW q \in Running(pipe) PROVE q \in Pipelines /\ RowsAreCurrent(q)
  BY <1>1 DEF DerivedInv, UpToDate, Resuming, Running, Declared
<1>3. ASSUME NEW p \in Pipelines, Pause(p) PROVE DerivedInv'
  <2>1. UNCHANGED <<log, base, derived, vpc>> /\ pipe' = [pipe EXCEPT ![p].paused = TRUE]
    BY <1>1, <1>3 DEF Pause, verbVars
  <2>2. \A q \in Pipelines : pipe'[q].rev = pipe[q].rev /\ (pipe[q].paused => pipe'[q].paused)
    BY <2>1, FieldsKept DEF TypeOK, Stored
  <2>3. Running(pipe') \subseteq Running(pipe)
    BY <2>2 DEF Running, Declared
  <2>4. ReadIsBase'
    BY <1>1, <2>1 DEF ReadIsBase
  <2> QED
    BY <1>1, <1>2, <2>1, <2>2, <2>3, <2>4, RowsQuiet
<1>4. ASSUME NEW p \in Pipelines, Resume(p) PROVE DerivedInv'
  <2>1. /\ UNCHANGED <<log, base, derived, revised>> /\ pipe' = [pipe EXCEPT ![p].paused = FALSE]
        /\ vpc' = "next" /\ catchUp' = {p}
    BY <1>1, <1>4 DEF Resume
  <2>2. pipe \in [Pipelines -> Stored]
    BY DEF TypeOK
  <2>3. \A q \in Pipelines : pipe'[q].rev = pipe[q].rev
    BY <2>1, <2>2 DEF Stored
  <2>4. \A q \in Pipelines : q # p => pipe'[q] = pipe[q]
    BY <2>1, <2>2
  <2>5. ASSUME NEW q \in Running(pipe') PROVE Resuming(q)' \/ RowsAreCurrent(q)
    <3>1. CASE q = p
      BY <2>1, <3>1 DEF Resuming
    <3>2. CASE q # p
      BY <1>2, <2>4, <3>2 DEF Running, Declared
    <3> QED
      BY <3>1, <3>2
  <2>6. revised' = {} /\ ReadIsBase'
    BY <1>1, <2>1 DEF ReceiveInv, VerbList, ReadIsBase
  <2> QED
    BY <1>1, <2>1, <2>3, <2>5, <2>6, RowsQuiet
<1>5. ASSUME NEW p \in Pipelines, Remove(p) PROVE DerivedInv'
  <2>1. /\ pipe' = [pipe EXCEPT ![p] = NoPipe] /\ derived' = [derived EXCEPT ![p] = NoRows]
        /\ base' = Pruned(pipe') /\ vpc' = "none"
    BY <1>1, <1>5 DEF Remove, VerbStarts, verbVars
  <2>2. /\ pipe'[p].rev = 0 /\ derived'[p] = NoRows
        /\ \A q \in Pipelines : q # p => pipe'[q] = pipe[q] /\ derived'[q] = derived[q]
    BY <2>1 DEF TypeOK, NoPipe
  <2>3. NoRows' = NoRows
    BY DEF NoRows
  <2>4. EmptyWithout'
    <3> SUFFICES ASSUME NEW q \in Pipelines, q # p, pipe'[q].rev = 0 \/ base'.status = "none"
                 PROVE  derived[q] = NoRows
      BY <2>2, <2>3 DEF EmptyWithout
    <3>1. CASE pipe'[q].rev = 0
      BY <2>2, <3>1 DEF DerivedInv, EmptyWithout
    <3>2. CASE pipe'[q].rev # 0
      <4>1. base' = base
        BY <2>1, <3>2 DEF Pruned, Declared
      <4> QED
        BY <3>2, <4>1 DEF DerivedInv, EmptyWithout
    <3> QED
      BY <3>1, <3>2
  <2>5. ASSUME NEW q \in Running(pipe') PROVE RowsAreCurrent(q)'
    <3>1. q \in Pipelines /\ q # p /\ RowsAreCurrent(q)
      BY <1>2, <2>2, <2>5 DEF Running, Declared
    <3>2. base' = base
      BY <2>1, <2>5 DEF Pruned, Running
    <3> QED
      BY <1>1, <2>2, <3>1, <3>2, RowsStay
  <2>6. LoadedAreImages'
    BY <1>1, <2>1 DEF Pruned, NoBase, DerivedInv, LoadedAreImages, IsImageAfter
  <2> QED
    BY <1>1, <2>1, <2>4, <2>5, <2>6 DEF DerivedInv, UpToDate, ReadIsBase
<1>6. ASSUME ApplyStart PROVE DerivedInv'
  <2>1. UNCHANGED <<log, base, derived, pipe>> /\ vpc' = "replace"
    BY <1>1, <1>6 DEF ApplyStart
  <2>2. ReadIsBase'
    BY <2>1 DEF ReadIsBase
  <2> QED
    BY <1>1, <1>2, <2>1, <2>2, RowsQuiet
<1> QED
  BY <1>3, <1>4, <1>5, <1>6 DEF Operator

LEMMA ReplaceKeepsRows ==
  ASSUME ~Interleaved, TypeOK, ReceiveInv, DerivedInv, ReplacePipelines PROVE DerivedInv'
<1>1. log' = log /\ CycleMaintains'
  BY VerbRows DEF VerbStep
<1>2. /\ vpc' = "base" /\ base' = base /\ derived' = [p \in Pipelines |-> NoRows]
      /\ revised' = revised
  BY DEF ReplacePipelines
<1>3. \A p \in Pipelines : derived'[p] = NoRows /\ RowsAreCurrent(p)'
  BY <1>2, EmptyIsCurrent
<1>4. UpToDate'
  BY <1>2, <1>3 DEF UpToDate, Running, Declared, TypeOK
<1>5. NoRows' = NoRows
  BY DEF NoRows
<1> QED
  BY <1>1, <1>2, <1>3, <1>4, <1>5
  DEF DerivedInv, EmptyWithout, ReadIsBase, LoadedAreImages, IsImageAfter

(* A load finds no Derived rows, or only rows of its own watermark.        *)
LEMMA SyncBaseKeepsRows ==
  ASSUME ~Interleaved, LifecycleAssumption, TypeOK, ReceiveInv, DerivedInv, SyncBase
  PROVE  DerivedInv'
<1>1. log' = log /\ CycleMaintains'
  BY VerbRows DEF VerbStep
<1>2. vpc = "base" /\ vpc' = "next" /\ UNCHANGED <<pipe, derived, revised>>
  BY DEF SyncBase
<1>3. /\ \A p \in Running(pipe) : p \in Pipelines /\ RowsAreCurrent(p)
      /\ \A p \in revised : p \in Pipelines /\ RowsAreCurrent(p)
  BY <1>2 DEF DerivedInv, UpToDate, Resuming, Running, Declared, TypeOK
<1>4. NoRows' = NoRows
  BY DEF NoRows
<1>5. CASE Declared(pipe) = {} \/ base.status = "ready"
  <2>1. base' = Pruned(pipe)
    BY <1>5 DEF SyncBase
  <2>2. CASE Declared(pipe) = {}
    <3>1. \A p \in Pipelines : derived'[p] = NoRows /\ RowsAreCurrent(p)'
      BY <1>2, <2>2, EmptyIsCurrent DEF Declared, DerivedInv, EmptyWithout
    <3>2. base'.status = "none"
      BY <2>1, <2>2 DEF Pruned, NoBase
    <3>3. UpToDate'
      BY <1>2, <1>3, <3>1 DEF UpToDate
    <3> QED
      BY <1>1, <1>2, <1>4, <3>1, <3>2, <3>3 DEF DerivedInv, EmptyWithout, ReadIsBase, LoadedAreImages
  <2>3. CASE Declared(pipe) # {}
    <3>1. base' = base
      BY <2>1, <2>3 DEF Pruned
    <3>2. \A p : RowsAreCurrent(p) => RowsAreCurrent(p)'
      BY <1>1, <1>2, <3>1, RowsStay
    <3>3. UpToDate'
      BY <1>2, <1>3, <3>2 DEF UpToDate
    <3> QED
      BY <1>1, <1>2, <1>4, <3>1, <3>3
      DEF DerivedInv, EmptyWithout, ReadIsBase, LoadedAreImages, IsImageAfter
  <2> QED
    BY <2>2, <2>3
<1>6. CASE ~(Declared(pipe) = {} \/ base.status = "ready")
  <2> DEFINE watermark == IF base.status = "loading" THEN base.position ELSE Len(log)
  <2>1. PICK table \in Tables(watermark), S \in SUBSET Keys :
               /\ \A k \in Keys : base.rows[k] # Absent => k \in S
               /\ base' = [status   |-> IF S = Keys THEN "ready" ELSE "loading",
                           rows     |-> [k \in Keys |-> IF k \in S THEN table[k] ELSE Absent],
                           position |-> watermark]
    BY <1>6 DEF SyncBase
  <2>2. \A k \in Keys : IsImageAfter(watermark, k, table[k])
    BY <2>1 DEF Tables, IsTableAfter
  <2>3. /\ base'.status \in {"ready", "loading"} /\ base'.position = watermark
        /\ \A k \in Keys : base'.rows[k] = IF k \in S THEN table[k] ELSE Absent
    BY <2>1
  <2>4. LoadedAreImages'
    <3>1. \A k \in Keys : base'.rows[k] # Absent => IsImageAfter(base'.position, k, base'.rows[k])
      BY <2>2, <2>3
    <3> QED
      BY <1>1, <3>1 DEF LoadedAreImages, IsImageAfter
  <2>5. EmptyWithout' /\ ReadIsBase'
    BY <1>2, <1>4, <2>3 DEF DerivedInv, EmptyWithout, ReadIsBase
  <2>6. ASSUME NEW p \in Pipelines, RowsAreCurrent(p) PROVE RowsAreCurrent(p)'
    <3>1. CASE base.status = "none"
      BY <1>2, <3>1, EmptyIsCurrent DEF DerivedInv, EmptyWithout
    <3>2. CASE base.status = "loading"
      <4>1. ASSUME NEW k \in Keys, base.rows[k] # Absent PROVE base'.rows[k] = base.rows[k]
        <5>1. k \in S /\ base'.rows[k] = table[k] /\ base.position \in Nat
          BY <2>1, <2>3, <4>1 DEF TypeOK
        <5>2. IsImageAfter(base.position, k, base.rows[k]) /\ IsImageAfter(base.position, k, table[k])
          BY <2>2, <3>2, <4>1 DEF DerivedInv, LoadedAreImages
        <5>3. base.rows[k] = table[k]
          BY <5>1, <5>2, ImageIsUnique
        <5> QED
          BY <5>1, <5>3
      <4>2. base'.position = base.position
        BY <2>3, <3>2
      <4>3. ASSUME NEW k \in Keys, RowIsCurrent(p, k) PROVE RowIsCurrent(p, k)'
        <5>1. derived[p][k] = base.rows[k] /\ base.rows[k] # Absent => derived[p][k] = base'.rows[k]
          BY <4>1
        <5> QED
          BY <1>1, <1>2, <4>2, <4>3, <5>1 DEF RowIsCurrent
      <4> QED
        BY <2>6, <4>3 DEF RowsAreCurrent
    <3> QED
      BY <1>6, <3>1, <3>2 DEF TypeOK
  <2>7. UpToDate'
    BY <1>2, <1>3, <2>6 DEF UpToDate
  <2> QED
    BY <1>1, <2>4, <2>5, <2>7 DEF DerivedInv
<1> QED
  BY <1>5, <1>6

LEMMA DeliverReadKeepsRows ==
  ASSUME ~Interleaved, TypeOK, ReceiveInv, DerivedInv, NEW p \in Pipelines, DeliverRead(p)
  PROVE  DerivedInv'
<1>1. cpc' = "idle"
  BY VerbRows DEF VerbStep, Delivery
<1>2. vpc = "next" /\ IsDelivering(p) /\ UNCHANGED <<log, base, pipe, derived>>
  BY DEF DeliverRead
<1>3. CASE base.status = "none"
  <2>1. vpc' = "none"
    BY <1>3 DEF DeliverRead, EndVerb
  <2>2. \A q \in Pipelines : derived'[q] = NoRows
    BY <1>2, <1>3 DEF DerivedInv, EmptyWithout
  <2>3. \A q \in Running(pipe') : RowsAreCurrent(q)
    BY <1>2, <2>2 DEF Running, Declared, RowsAreCurrent, RowIsCurrent, NoRows
  <2>4. ReadIsBase'
    BY <2>1 DEF ReadIsBase
  <2> QED
    BY <1>1, <1>2, <2>1, <2>3, <2>4, RowsQuiet
<1>4. CASE base.status # "none"
  <2>1. /\ snapshot' = base.rows /\ UNCHANGED <<catchUp, revised>>
        /\ vpc' = IF p \in Transforms THEN "derive" ELSE "upsert"
    BY <1>4 DEF DeliverRead
  <2>2. ASSUME NEW q \in Pipelines, Resuming(q) PROVE Resuming(q)' \/ RowsAreCurrent(q)
    <3>1. catchUp = {q} /\ q = p
      BY <1>2, <2>2 DEF Resuming, IsDelivering, IsNextPipeline
    <3> QED
      BY <2>1, <3>1 DEF Resuming, RowsAreCurrent
  <2>3. /\ \A q \in Running(pipe') : Resuming(q)' \/ RowsAreCurrent(q)
        /\ \A q \in revised' : Resuming(q)' \/ RowsAreCurrent(q)
    BY <1>2, <2>1, <2>2 DEF DerivedInv, UpToDate, Running, Declared, TypeOK
  <2>4. ReadIsBase'
    BY <1>2, <1>4, <2>1 DEF ReadIsBase
  <2> QED
    BY <1>1, <1>2, <2>3, <2>4, RowsQuiet
<1> QED
  BY <1>3, <1>4

LEMMA ReplaceDerivedKeepsRows ==
  ASSUME ~Interleaved, TypeOK, ReceiveInv, DerivedInv, NEW p \in Pipelines, ReplaceDerived(p)
  PROVE  DerivedInv'
<1>1. CycleMaintains'
  BY VerbRows DEF VerbStep, Delivery
<1>2. /\ vpc = "derive" /\ vpc' = "upsert" /\ IsDelivering(p)
      /\ derived' = [derived EXCEPT ![p] = snapshot]
      /\ UNCHANGED <<log, base, pipe, revised>>
  BY DEF ReplaceDerived
<1>3. base.status # "none" /\ snapshot = base.rows
  BY <1>2 DEF DerivedInv, ReadIsBase
<1>4. derived'[p] = base.rows /\ \A q \in Pipelines : q # p => derived'[q] = derived[q]
  BY <1>2, <1>3 DEF TypeOK
<1>5. pipe[p].rev # 0
  BY <1>2 DEF IsDelivering, IsNextPipeline, ReceiveInv, VerbList, Running, Declared
<1>6. RowsAreCurrent(p)'
  BY <1>2, <1>4 DEF RowsAreCurrent, RowIsCurrent
<1>7. ASSUME NEW q \in Pipelines, q # p, Resuming(q) \/ RowsAreCurrent(q) PROVE RowsAreCurrent(q)'
  <2>1. ~Resuming(q)
    BY <1>2, <1>7 DEF Resuming, IsDelivering, IsNextPipeline
  <2> QED
    BY <1>2, <1>4, <1>7, <2>1, RowsStay
<1>8. UpToDate'
  BY <1>2, <1>6, <1>7 DEF DerivedInv, UpToDate, Running, Declared, TypeOK
<1>9. EmptyWithout' /\ LoadedAreImages'
  <2>1. NoRows' = NoRows
    BY DEF NoRows
  <2> QED
    BY <1>2, <1>3, <1>4, <1>5, <2>1 DEF DerivedInv, EmptyWithout, LoadedAreImages, IsImageAfter
<1> QED
  BY <1>1, <1>2, <1>8, <1>9 DEF DerivedInv, ReadIsBase

(* All other steps of a verb leave Base and Derived Datasets alone.        *)
LEMMA VerbKeepsRows ==
  ASSUME ~Interleaved, Stops \cap {"next", "derive"} = {}, TypeOK, ReceiveInv, DerivedInv,
         \/ VerbEnds \/ VerbStops
         \/ \E p \in Pipelines : \/ PauseOld(p) \/ UpsertAll(p) \/ ReconcileDeletes(p)
                                 \/ RecordDelivered(p) \/ UnpauseRevised(p)
  PROVE  DerivedInv'
<1>1. cpc' = "idle" /\ UNCHANGED <<log, base, derived>>
  <2>1. VerbStep \/ VerbStops
    BY DEF VerbStep, Delivery
  <2> QED
    BY <2>1, VerbRows DEF VerbEnds, VerbStops, PauseOld, UpsertAll, ReconcileDeletes,
       RecordDelivered, UnpauseRevised
<1>2. pipe \in [Pipelines -> Stored] /\ Running(pipe) \subseteq Pipelines /\ revised \subseteq Pipelines
  BY DEF TypeOK, Running, Declared
<1>3. CASE VerbEnds \/ VerbStops
  <2>1. /\ vpc' = "none" /\ pipe' = pipe
        /\ vpc \in {"next", "derive"} => catchUp = {}
    BY <1>3 DEF VerbEnds, VerbStops, EndVerb
  <2>2. \A q \in Running(pipe') : RowsAreCurrent(q)
    BY <2>1 DEF DerivedInv, UpToDate, Resuming
  <2>3. ReadIsBase'
    BY <2>1 DEF ReadIsBase
  <2> QED
    BY <1>1, <2>1, <2>2, <2>3, RowsQuiet
<1>4. ASSUME NEW p \in Pipelines, PauseOld(p) PROVE DerivedInv'
  <2>1. vpc = "replace" /\ vpc' = "replace" /\ pipe' = [pipe EXCEPT ![p].paused = TRUE]
    BY <1>4 DEF PauseOld, verbVars
  <2>2. \A q \in Pipelines : pipe'[q].rev = pipe[q].rev /\ (pipe[q].paused => pipe'[q].paused)
    BY <1>2, <2>1, FieldsKept DEF Stored
  <2>3. Running(pipe') \subseteq Running(pipe)
    BY <2>2 DEF Running, Declared
  <2>4. \A q \in Running(pipe) : RowsAreCurrent(q)
    BY <2>1 DEF DerivedInv, UpToDate, Resuming
  <2>5. ReadIsBase'
    BY <2>1 DEF ReadIsBase
  <2> QED
    BY <1>1, <2>1, <2>2, <2>3, <2>4, <2>5, RowsQuiet
<1>5. ASSUME NEW p \in Pipelines, UpsertAll(p) \/ ReconcileDeletes(p) \/ RecordDelivered(p)
      PROVE  DerivedInv'
  <2>1. /\ vpc \in {"upsert", "reconcile", "delivered"} /\ revised' = revised
        /\ vpc' \in {"reconcile", "delivered", "next"}
        /\ pipe' = pipe \/ pipe' = [pipe EXCEPT ![p].delivered = TRUE]
    BY <1>5 DEF UpsertAll, ReconcileDeletes, RecordDelivered
  <2>2. \A q \in Pipelines : pipe'[q].rev = pipe[q].rev /\ pipe'[q].paused = pipe[q].paused
    <3>1. CASE pipe' = pipe
      BY <3>1
    <3>2. CASE pipe' = [pipe EXCEPT ![p].delivered = TRUE]
      BY <1>2, <3>2, FieldsKept
    <3> QED
      BY <2>1, <3>1, <3>2
  <2>3. Running(pipe') = Running(pipe)
    BY <2>2 DEF Running, Declared
  <2>4. /\ \A q \in Running(pipe) : RowsAreCurrent(q)
        /\ \A q \in revised : RowsAreCurrent(q)
    BY <2>1 DEF DerivedInv, UpToDate, Resuming
  <2>5. ReadIsBase'
    BY <2>1 DEF ReadIsBase
  <2> QED
    BY <1>1, <2>1, <2>2, <2>3, <2>4, <2>5, RowsQuiet
<1>6. ASSUME NEW p \in Pipelines, UnpauseRevised(p) PROVE DerivedInv'
  <2>1. /\ vpc = "next" /\ vpc' = "next" /\ catchUp = {} /\ p \in revised
        /\ pipe' = [pipe EXCEPT ![p].paused = FALSE] /\ revised' = revised \ {p}
    BY <1>6 DEF UnpauseRevised, IsNextPipeline
  <2>2. \A q \in Pipelines : pipe'[q].rev = pipe[q].rev
    BY <1>2, <2>1, FieldsKept
  <2>3. \A q \in Pipelines : q # p => pipe'[q] = pipe[q]
    BY <1>2, <2>1
  <2>4. /\ \A q \in Running(pipe) : RowsAreCurrent(q)
        /\ \A q \in revised : RowsAreCurrent(q)
    BY <2>1 DEF DerivedInv, UpToDate, Resuming
  <2>5. \A q \in Running(pipe') : RowsAreCurrent(q)
    BY <2>1, <2>3, <2>4 DEF Running, Declared
  <2>6. ReadIsBase'
    BY <2>1 DEF ReadIsBase
  <2> QED
    BY <1>1, <2>1, <2>2, <2>4, <2>5, <2>6, RowsQuiet
<1> QED
  BY <1>3, <1>4, <1>5, <1>6

LEMMA DerivedStep ==
  ASSUME LifecycleAssumption, ~Interleaved, Stops \cap {"next", "derive"} = {},
         TypeOK, BaseInv, ReceiveInv, DerivedInv, [Next]_vars
  PROVE  DerivedInv'
<1>1. CASE UNCHANGED vars
  <2>1. UNCHANGED <<log, base, pipe, derived, cpc, listed, position, todo, vpc, catchUp, revised,
                    snapshot>>
    BY <1>1 DEF vars, cycleVars, verbVars
  <2>2. \A p : RowsAreCurrent(p) => RowsAreCurrent(p)'
    BY <2>1, RowsStay
  <2>3. UpToDate'
    BY <2>1, <2>2 DEF DerivedInv, UpToDate, Running, Declared, Resuming
  <2>4. NoRows' = NoRows
    BY DEF NoRows
  <2>5. EmptyWithout' /\ ReadIsBase' /\ LoadedAreImages'
    BY <2>1, <2>4 DEF DerivedInv, EmptyWithout, ReadIsBase, LoadedAreImages, IsImageAfter
  <2>6. CycleMaintains'
    BY <2>1 DEF DerivedInv, CycleMaintains, HasRow, Change, IsNextPipeline, Running, Declared
  <2> QED
    BY <2>3, <2>5, <2>6 DEF DerivedInv
<1>2. CASE SourceChange
  BY <1>2, SourceKeepsRows
<1>3. CASE Cycle \/ CycleCrash
  BY <1>3, CycleKeepsRows
<1>4. CASE Operator
  BY <1>4, OperatorKeepsRows
<1>5. CASE VerbStep
  <2>1. CASE \E p \in Pipelines : PauseOld(p)
    BY <2>1, VerbKeepsRows
  <2>2. CASE \E p \in Pipelines : Delivery(p)
    BY <2>2, DeliverReadKeepsRows, ReplaceDerivedKeepsRows, VerbKeepsRows DEF Delivery
  <2>3. CASE ReplacePipelines \/ SyncBase \/ VerbEnds
    BY <2>3, ReplaceKeepsRows, SyncBaseKeepsRows, VerbKeepsRows
  <2> QED
    BY <1>5, <2>1, <2>2, <2>3 DEF VerbStep
<1>6. CASE VerbStops
  BY <1>6, VerbKeepsRows
<1> QED
  BY <1>1, <1>2, <1>3, <1>4, <1>5, <1>6 DEF Next

(* Between verbs no row of a Derived Dataset in force is outdated, if      *)
(* verbs wait for cycles and none stops before the Derived rows of a       *)
(* Delivery are replaced. An apply that pauses its Initial Load or stops   *)
(* elsewhere, and documents of an earlier Pipeline, do no harm here        *)
(* (replace_derived_dataset, the maintenance of a cycle,                   *)
(* replace_pipelines_for_deployment).                                      *)
THEOREM DerivedRowsAreCurrentHolds ==
  ASSUME LifecycleAssumption, ~Interleaved, Stops \cap {"next", "derive"} = {}
  PROVE  Spec => []DerivedRowsAreCurrent
<1> DEFINE Inv == TypeOK /\ BaseInv /\ ReceiveInv /\ DerivedInv
<1>1. Init => Inv
  <2> SUFFICES ASSUME Init PROVE Inv
    OBVIOUS
  <2>1. ReceiveInv
    BY DEF Init, NoCycle, NoVerb, ReceiveInv, NoOverlap, CycleList, VerbList
  <2> QED
    BY <2>1, InitTyped, BaseInvInit, DerivedInit
<1>2. Inv /\ [Next]_vars => Inv'
  <2> SUFFICES ASSUME Inv, [Next]_vars PROVE Inv'
    OBVIOUS
  <2>1. TypeOK' /\ BaseInv' /\ DerivedInv'
    BY TypeStep, BaseInvStep, DerivedStep
  <2>2. ReceiveInv'
    BY NoOverlapStep, CycleListStep, VerbListStep DEF ReceiveInv
  <2> QED
    BY <2>1, <2>2
<1>3. Inv => DerivedRowsAreCurrent
  <2> SUFFICES ASSUME Inv, vpc = "none", NEW p \in Transforms, InForce(p)
               PROVE  \A k \in Keys : RowIsCurrent(p, k)
    BY DEF DerivedRowsAreCurrent, RowIsCurrent
  <2>1. p \in Running(pipe)
    BY DEF LifecycleAssumption, InForce, Running, Declared
  <2> QED
    BY <2>1 DEF DerivedInv, UpToDate, Resuming, RowsAreCurrent
<1> QED
  BY <1>1, <1>2, <1>3, PTL DEF Spec

=============================================================================
