-------------------------- MODULE VerifyRepairProofs --------------------------
(***************************************************************************)
(* Invariance theorems of VerifyRepair, for any number of rows, processes, *)
(* changes, checks, faults and damage.                                     *)
(***************************************************************************)
EXTENDS VerifyRepair, FiniteSetTheorems, WellFoundedInduction, TLAPS

(* A nonempty set of change numbers has a greatest and a least one.        *)
LEMMA MaxOfBounded ==
  ASSUME NEW n \in Nat, NEW S \in SUBSET (1 .. n), S # {}
  PROVE  Max(S) \in S /\ \A x \in S : Max(S) >= x
<1> DEFINE T == {n - x : x \in S}
           R == OpToRel(<, Nat)
<1>1. T \subseteq Nat /\ T # {}
  <2>1. \A x \in S : x \in 1 .. n
    OBVIOUS
  <2>2. \A x \in S : n - x \in Nat
    BY <2>1
  <2> QED
    BY <2>2
<1>2. PICK t \in T : \A y \in T : ~ (<<y, t>> \in R)
  <2> HIDE DEF T, R
  <2>1. IsWellFoundedOn(R, Nat)
    BY NatLessThanWellFounded DEF R
  <2> QED
    BY <1>1, <2>1, WFMin
<1>3. \A y \in T : ~(y < t)
  <2> TAKE y \in T
  <2>1. <<y, t>> \notin R
    BY <1>2
  <2>2. t \in Nat /\ y \in Nat
    BY <1>1
  <2> HIDE DEF T
  <2>3. y < t => <<y, t>> \in R
    BY <2>2 DEF OpToRel
  <2> QED
    BY <2>1, <2>3
<1>4. PICK m \in S : t = n - m
  OBVIOUS
<1>5. \A x \in S : m >= x
  <2> TAKE x \in S
  <2>1. m \in 1 .. n /\ x \in 1 .. n
    OBVIOUS
  <2>2. n - x \in T
    OBVIOUS
  <2>3. ~(n - x < n - m)
    BY <1>3, <1>4, <2>2
  <2> QED
    BY <2>1, <2>3
<1> QED
  BY <1>5 DEF Max

LEMMA MinOfBounded ==
  ASSUME NEW n \in Nat, NEW S \in SUBSET (1 .. n), S # {}
  PROVE  Min(S) \in S /\ \A x \in S : Min(S) <= x
<1> DEFINE R == OpToRel(<, Nat)
<1>1. PICK m \in S : \A y \in S : ~ (<<y, m>> \in R)
  <2> HIDE DEF R
  <2>1. IsWellFoundedOn(R, Nat)
    BY NatLessThanWellFounded DEF R
  <2>2. S \subseteq Nat
    OBVIOUS
  <2> QED
    BY <2>1, <2>2, WFMin
<1>2. \A x \in S : m <= x
  <2> TAKE x \in S
  <2>1. m \in Nat /\ x \in Nat
    OBVIOUS
  <2>2. x < m => <<x, m>> \in R
    BY <2>1 DEF OpToRel
  <2>3. ~ (<<x, m>> \in R)
    BY <1>1
  <2> HIDE DEF R
  <2> QED
    BY <2>1, <2>2, <2>3
<1> QED
  BY <1>2 DEF Min

-----------------------------------------------------------------------------
(* Types, and what makes them inductive: a cycle that is at a change is at *)
(* one of the log.                                                         *)
AtChange(c) == cycle[c].pc \in {"deliver", "record"}

TypeInv ==
  /\ TypeOK
  /\ checks \in Nat /\ damage \in Nat /\ crashes \in Nat /\ losses \in Nat
  /\ \A c \in Cycles : AtChange(c) => cycle[c].item \in 1 .. Len(log)

CycleStates == [pc : {"idle", "fetch", "deliver", "record"}, from : Nat, item : Nat]

LEMMA AdvanceEffect ==
  ASSUME cycle \in [Cycles -> CycleStates], NEW c \in Cycles,
         NEW pc \in {"idle", "fetch", "deliver", "record"}, NEW from \in Nat, NEW item \in Nat,
         Advance(c, pc, from, item)
  PROVE  /\ cycle' \in [Cycles -> CycleStates]
         /\ cycle'[c].pc = pc /\ cycle'[c].from = from /\ cycle'[c].item = item
         /\ \A d \in Cycles : d # c => cycle'[d] = cycle[d]
BY DEF Advance, CycleStates

Entry == [key : Keys, image : Nat \cup {Absent}]

LEMMA EntryType ==
  ASSUME TypeOK, NEW i \in 1 .. Len(log) PROVE log[i] \in Entry
<1>1. log \in Seq(Entry)
  BY DEF TypeOK, Entry
<1> QED
  BY <1>1

LEMMA TableAfterType ==
  ASSUME TypeOK, NEW n \in 0 .. Len(log)
  PROVE  TableAfter(n) \in Tables
<1> SUFFICES ASSUME NEW k \in Keys PROVE TableAfter(n)[k] \in Images
  BY DEF TableAfter, Tables
<1> DEFINE touching == {i \in 1 .. n : log[i].key = k}
<1>1. TableAfter(n)[k] = IF touching = {} THEN 0 ELSE log[Max(touching)].image
  BY DEF TableAfter
<1>2. CASE touching = {}
  BY <1>1, <1>2 DEF Images
<1>3. CASE touching # {}
  <2>1. n \in Nat /\ touching \in SUBSET (1 .. n)
    BY DEF TypeOK
  <2>2. Max(touching) \in touching
    <3> HIDE DEF touching
    <3> QED
      BY <1>3, <2>1, MaxOfBounded
  <2>3. Max(touching) \in 1 .. Len(log)
    BY <2>1, <2>2
  <2>4. log[Max(touching)] \in Entry
    BY <2>3, EntryType
  <2> QED
    BY <1>1, <1>3, <2>4 DEF Images, Entry
<1> QED
  BY <1>2, <1>3

LEMMA InitTypes == RepairAssumption /\ Init => TypeInv
BY DEF RepairAssumption, Init, TypeInv, TypeOK, Tables, Images, AllRows, NoRows, IdleCycle,
       IdleCheck, Checks, AtChange

LEMMA ReadTypes ==
  ASSUME TypeInv
  PROVE  /\ log \in Seq([key : Keys, image : Nat \cup {Absent}]) /\ Len(log) \in Nat
         /\ base.rows \in Tables /\ base.checkpoint \in Nat
         /\ cycle \in [Cycles -> CycleStates] /\ applied \subseteq 1 .. Len(log)
         /\ target \in Tables /\ Source \in Tables
<1>1. Len(log) \in 0 .. Len(log)
  BY DEF TypeInv, TypeOK
<1>2. Source \in Tables
  BY <1>1, TableAfterType DEF Source, TypeInv
<1> QED
  BY <1>2 DEF TypeInv, TypeOK, CycleStates

LEMMA TypesStep ==
  ASSUME RepairAssumption, TypeInv, [Next]_vars
  PROVE  TypeInv'
<1> DEFINE Log     == log \in Seq(Entry)
           Base    == base \in [rows : Tables, checkpoint : Nat,
                                alignment : {"unknown", "partial", "aligned"}]
           Records == applied \subseteq 1 .. Len(log)
           Locks   == lock \in Cycles \cup {Nobody}
           Moves   == /\ cycle \in [Cycles -> CycleStates]
                      /\ \A c \in Cycles : AtChange(c) => cycle[c].item \in 1 .. Len(log)
           Aligns  == align \in Checks({"idle", "sample", "read", "write"})
           Drifts  == drift \in Checks({"idle", "expect", "list", "upsert"})
           Counts  == /\ checks \in 0 .. MaxChecks /\ damage \in 0 .. MaxDamage
                      /\ crashes \in Nat /\ losses \in Nat /\ crashes + losses \in 0 .. MaxFaults
           Typed   == /\ Log /\ Base /\ Records /\ target \in Tables /\ Locks /\ Moves
                      /\ Aligns /\ Drifts /\ edited \subseteq Keys /\ Counts
<1>1. Typed
  BY DEF TypeInv, TypeOK, CycleStates, Entry
<1>2. SUFFICES Typed'
  <2>1. checks' \in Nat /\ damage' \in Nat
    BY DEF RepairAssumption
  <2>2. TypeOK'
    BY DEF TypeOK, CycleStates, Entry
  <2> QED
    BY <2>1, <2>2 DEF TypeInv
<1>3. Source \in Tables /\ Len(log) \in Nat /\ MaxDamage \in Nat /\ MaxChecks \in Nat
      /\ MaxFaults \in Nat /\ damage \in Nat
  BY ReadTypes DEF RepairAssumption, TypeInv
<1>4. ASSUME NEW i \in 1 .. Len(log)
      PROVE  log[i] \in Entry /\ log[i].key \in Keys /\ log[i].image \in Images
  <2>1. log[i] \in Entry
    BY EntryType DEF TypeInv
  <2> QED
    BY <2>1 DEF Entry, Images
<1>5. IdleCheck \in Checks({"idle"}) /\ NoRows \in Tables
  BY DEF IdleCheck, Checks, NoRows, Tables, Images
<1>6. CASE UNCHANGED vars
  BY <1>1, <1>6 DEF vars, bounds, AtChange
<1>7. CASE SourceChange
  <2>1. PICK e \in Entry : log' = Append(log, e)
    BY <1>3, <1>7 DEF SourceChange, Entry
  <2>2. Log' /\ Len(log') = Len(log) + 1
    BY <1>1, <2>1
  <2> QED
    BY <1>1, <1>3, <1>7, <2>2 DEF SourceChange, bounds, AtChange
<1>8. CASE DamageRow
  <2>1. Base'
    <3>1. PICK k \in Keys, image \in {Damaged, Absent} : base' = [base EXCEPT !.rows[k] = image]
      BY <1>8 DEF DamageRow
    <3>2. [base.rows EXCEPT ![k] = image] \in Tables
      BY <1>1 DEF Tables, Images
    <3> QED
      BY <1>1, <3>1, <3>2
  <2> QED
    BY <1>1, <1>3, <1>8, <2>1 DEF DamageRow, AtChange
<1>9. CASE DamageDocument
  <2>1. target' \in Tables
    BY <1>1, <1>9 DEF DamageDocument, Tables, Images
  <2> QED
    BY <1>1, <1>3, <1>9, <2>1 DEF DamageDocument, AtChange
<1>10. ASSUME NEW c \in Cycles, NEW pc \in {"idle", "fetch", "deliver", "record"}, NEW from \in Nat,
              NEW item \in Nat, Advance(c, pc, from, item), log' = log,
              pc \in {"deliver", "record"} => item \in 1 .. Len(log)
       PROVE  Moves'
  <2>1. /\ cycle' \in [Cycles -> CycleStates]
        /\ cycle'[c].pc = pc /\ cycle'[c].from = from /\ cycle'[c].item = item
        /\ \A d \in Cycles : d # c => cycle'[d] = cycle[d]
    <3>1. cycle \in [Cycles -> CycleStates]
      BY <1>1
    <3> HIDE DEF Typed, Moves
    <3> QED
      BY <1>10, <3>1, AdvanceEffect
  <2> QED
    BY <1>1, <1>10, <2>1 DEF AtChange
<1>11. ASSUME NEW c \in Cycles, CycleStart(c) PROVE Typed'
  <2>1. Moves'
    BY <1>1, <1>10, <1>11 DEF CycleStart
  <2> QED
    BY <1>1, <1>11, <2>1 DEF CycleStart, bounds
<1>12. ASSUME NEW c \in Cycles, cycle[c].pc # "idle"
       PROVE  cycle[c].from \in Nat /\ cycle[c].item \in Nat
  BY <1>1 DEF CycleStates
<1>13. ASSUME NEW c \in Cycles, CycleFetch(c) PROVE Typed'
  <2>1. Min(Pending(c)) \in 1 .. Len(log)
    <3>1. Pending(c) \in SUBSET (1 .. Len(log)) /\ Pending(c) # {}
      BY <1>13 DEF Pending, CycleFetch
    <3> QED
      BY <1>3, <3>1, MinOfBounded
  <2>2. Moves'
    <3>1. Advance(c, "deliver", cycle[c].from, Min(Pending(c))) /\ log' = log
      BY <1>13 DEF CycleFetch
    <3>2. cycle[c].from \in Nat /\ Min(Pending(c)) \in Nat
      BY <1>3, <1>12, <1>13, <2>1 DEF CycleFetch
    <3> QED
      BY <1>10, <2>1, <3>1, <3>2
  <2> QED
    BY <1>1, <1>13, <2>2 DEF CycleFetch, bounds
<1>14. ASSUME NEW c \in Cycles, CycleDeliver(c) PROVE Typed'
  <2>1. cycle[c].item \in 1 .. Len(log)
    BY <1>1, <1>14 DEF CycleDeliver, AtChange
  <2>2. Moves'
    BY <1>10, <1>12, <1>14, <2>1 DEF CycleDeliver
  <2>3. target' \in Tables
    BY <1>1, <1>4, <1>14, <2>1 DEF CycleDeliver, Change, Tables
  <2> QED
    BY <1>1, <1>14, <2>2, <2>3 DEF CycleDeliver, bounds
<1>15. ASSUME NEW c \in Cycles, CycleRecord(c) PROVE Typed'
  <2>1. cycle[c].item \in 1 .. Len(log)
    BY <1>1, <1>15 DEF CycleRecord, AtChange
  <2>2. Moves'
    <3>1. Advance(c, "fetch", cycle[c].item, 0) /\ log' = log
      BY <1>15 DEF CycleRecord
    <3>2. cycle[c].item \in Nat /\ 0 \in Nat
      BY <2>1
    <3> HIDE DEF Moves
    <3> QED
      BY <1>10, <3>1, <3>2
  <2>3. Base'
    <3>1. [base.rows EXCEPT ![Change(c).key] = Change(c).image] \in Tables
      BY <1>1, <1>4, <2>1 DEF Change, Tables
    <3>2. base' = [base EXCEPT !.rows = [base.rows EXCEPT ![Change(c).key] = Change(c).image],
                               !.checkpoint = cycle[c].item]
      BY <1>1, <1>15 DEF CycleRecord
    <3>3. cycle[c].item \in Nat
      BY <2>1
    <3> QED
      BY <1>1, <3>1, <3>2, <3>3
  <2> QED
    BY <1>1, <1>15, <2>1, <2>2, <2>3 DEF CycleRecord, bounds
<1>16. ASSUME NEW c \in Cycles, CycleEnd(c) PROVE Typed'
  <2>1. Moves' /\ cycle[c].from \in Nat
    BY <1>10, <1>12, <1>16 DEF CycleEnd
  <2> QED
    BY <1>1, <1>16, <2>1 DEF CycleEnd, Released, bounds
<1>17. ASSUME NEW c \in Cycles, CycleCrash(c) PROVE Typed'
  <2>1. Moves'
    BY <1>10, <1>17 DEF CycleCrash
  <2> QED
    BY <1>1, <1>3, <1>17, <2>1 DEF CycleCrash, Released
<1>18. ASSUME NEW c \in Cycles, LoseLock(c) PROVE Typed'
  BY <1>1, <1>3, <1>18 DEF LoseLock, AtChange
<1>19. CASE AlignList
  <2>1. Aligns'
    BY <1>1, <1>3, <1>5, <1>19 DEF AlignList, Checks, IdleCheck, RepairAssumption
  <2> QED
    BY <1>1, <1>3, <1>19, <2>1 DEF AlignList, CheckStarts, AtChange
<1>20. CASE AlignSample
  <2>1. Aligns'
    BY <1>1, <1>3, <1>20 DEF AlignSample, Checks
  <2> QED
    BY <1>1, <1>20, <2>1 DEF AlignSample, AtChange, bounds
<1>21. CASE AlignRead
  <2>1. Aligns'
    BY <1>1, <1>21 DEF AlignRead, Checks
  <2> QED
    BY <1>1, <1>21, <2>1 DEF AlignRead, AtChange, bounds
<1>22. CASE AlignWrite
  <2>1. Repaired(align.sample, align.rows, align.max) \in Tables
    BY <1>1 DEF Repaired, Checks, Tables, Images
  <2>2. Base' /\ edited' \subseteq Keys
    BY <1>1, <1>22, <2>1 DEF AlignWrite, Checks, Stored, PersistedStatus
  <2>3. Aligns'
    BY <1>5, <1>22 DEF AlignWrite, Checks
  <2> QED
    BY <1>1, <1>22, <2>2, <2>3 DEF AlignWrite, AtChange, bounds
<1>23. CASE DriftStart
  <2>1. Drifts'
    BY <1>1, <1>3, <1>5, <1>23 DEF DriftStart, Checks, IdleCheck, RepairAssumption
  <2> QED
    BY <1>1, <1>3, <1>23, <2>1 DEF DriftStart, CheckStarts, AtChange
<1>24. CASE DriftExpect \/ DriftList
  <2>1. Drifts'
    BY <1>1, <1>24 DEF DriftExpect, DriftList, Checks
  <2> QED
    BY <1>1, <1>24, <2>1 DEF DriftExpect, DriftList, AtChange, bounds
<1>25. CASE DriftUpsert
  <2>1. target' \in Tables
    BY <1>1, <1>25 DEF DriftUpsert, Checks, Tables
  <2>2. Drifts'
    BY <1>5, <1>25 DEF DriftUpsert, Checks
  <2> QED
    BY <1>1, <1>25, <2>1, <2>2 DEF DriftUpsert, AtChange, bounds
<1> QED
  BY <1>6, <1>7, <1>8, <1>9, <1>11, <1>13, <1>14, <1>15, <1>16, <1>17, <1>18, <1>19, <1>20,
     <1>21, <1>22, <1>23, <1>24, <1>25 DEF Next, CycleStep, CheckStep

(* Types, the phases of cycles and checks, and the bounds.                 *)
THEOREM TypeCorrect == ASSUME RepairAssumption PROVE Spec => []TypeOK
<1>1. Init => TypeInv
  BY InitTypes
<1>2. TypeInv /\ [Next]_vars => TypeInv'
  BY TypesStep
<1>3. TypeInv => TypeOK
  BY DEF TypeInv
<1> QED
  BY <1>1, <1>2, <1>3, PTL DEF Spec

-----------------------------------------------------------------------------
(* Steps that do not concern an invariant.                                 *)

(* The log only grows.                                                     *)
LEMMA LogGrows ==
  ASSUME TypeInv, [Next]_vars
  PROVE  Len(log) \in Nat /\ Len(log') \in Nat /\ Len(log) <= Len(log')
         /\ \A i \in 1 .. Len(log) : log'[i] = log[i]
<1>1. CASE SourceChange
  <2>1. PICK e : log' = Append(log, e)
    BY <1>1 DEF SourceChange
  <2> QED
    BY <2>1 DEF TypeInv, TypeOK
<1>2. CASE ~SourceChange
  <2>1. log' = log
    BY <1>2 DEF vars, Next, DamageRow, DamageDocument, CycleStep, CycleStart, CycleFetch,
       CycleDeliver, CycleRecord, CycleEnd, CycleCrash, LoseLock, AlignList, DriftStart, CheckStep,
       AlignSample, AlignRead, AlignWrite, DriftExpect, DriftList, DriftUpsert
  <2> QED
    BY <2>1 DEF TypeInv, TypeOK
<1> QED
  BY <1>1, <1>2

(* What the table was after some changes does not change any more.         *)
LEMMA PastIsFixed ==
  ASSUME TypeInv, [Next]_vars, NEW n \in 0 .. Len(log), NEW k \in Keys
  PROVE  n \in 0 .. Len(log') /\ TableAfter(n)'[k] = TableAfter(n)[k]
<1> DEFINE touching == {i \in 1 .. n : log[i].key = k}
<1>1. TableAfter(n)[k] = IF touching = {} THEN 0 ELSE log[Max(touching)].image
  BY DEF TableAfter
<1>2. TableAfter(n)'[k] = IF touching' = {} THEN 0 ELSE log'[Max(touching')].image
  BY DEF TableAfter
<1>3. Len(log) \in Nat /\ Len(log') \in Nat /\ Len(log) <= Len(log')
      /\ \A i \in 1 .. n : log'[i] = log[i]
  <2>1. n \in Nat /\ 1 .. n \subseteq 1 .. Len(log)
    BY LogGrows
  <2> QED
    BY <2>1, LogGrows
<1>4. touching' = touching
  BY <1>3
<1>5. touching # {} => log'[Max(touching)] = log[Max(touching)]
  <2>1. touching \in SUBSET (1 .. n) /\ n \in Nat
    BY <1>3
  <2>2. ASSUME touching # {} PROVE Max(touching) \in 1 .. n
    <3> HIDE DEF touching
    <3> QED
      BY <2>1, <2>2, MaxOfBounded
  <2> QED
    BY <1>3, <2>2
<1> HIDE DEF touching
<1> QED
  BY <1>1, <1>2, <1>3, <1>4, <1>5

(* Only a cycle moves its place, and only cycles and repairs write.        *)
OtherStep ==
  \/ SourceChange \/ DamageRow \/ DamageDocument \/ AlignList \/ DriftStart \/ CheckStep
  \/ UNCHANGED vars
Quiet == OtherStep /\ UNCHANGED <<applied, lock, cycle>>

LEMMA OnlyCycles ==
  ASSUME [Next]_vars
  PROVE  \/ Quiet
         \/ \E c \in Cycles : CycleStep(c) \/ CycleCrash(c) \/ LoseLock(c)
BY DEF Quiet, OtherStep, vars, bounds, Next, SourceChange, DamageRow, DamageDocument, AlignList, DriftStart,
       CheckStep, AlignSample, AlignRead, AlignWrite, DriftExpect, DriftList, DriftUpsert

-----------------------------------------------------------------------------
(* While no session has lost the lock, a cycle that runs has it, what was  *)
(* recorded is a prefix of the log, the cycle is at the first change after *)
(* it, and no checkpoint, stored or about to be, lies beyond it. So no     *)
(* change is recorded over a newer one.                                    *)
LockInv == losses = 0 => \A c \in Cycles : Running(c) => lock = c

PrefixInv ==
  losses = 0 => \E n \in 0 .. Len(log) :
    /\ applied = 1 .. n /\ base.checkpoint <= n
    /\ align.pc # "idle" => align.checkpoint <= n
    /\ \A c \in Cycles : /\ Running(c) => cycle[c].from <= n
                         /\ AtChange(c) => cycle[c].item = n + 1

LEMMA LockInit == RepairAssumption /\ Init => LockInv /\ PrefixInv
<1> SUFFICES ASSUME RepairAssumption, Init PROVE LockInv /\ PrefixInv
  OBVIOUS
<1>1. LockInv /\ \A c \in Cycles : ~Running(c) /\ ~AtChange(c)
  BY DEF Init, LockInv, Running, IdleCycle, AtChange
<1>2. PrefixInv
  <2>1. 0 \in 0 .. Len(log) /\ applied = 1 .. 0
    BY DEF Init
  <2> QED
    BY <1>1, <2>1 DEF Init, PrefixInv, IdleCheck
<1> QED
  BY <1>1, <1>2

LEMMA LossesStay ==
  ASSUME TypeInv, [Next]_vars, losses' = 0 PROVE losses = 0 /\ \A c \in Cycles : ~LoseLock(c)
<1>1. losses \in Nat
  BY DEF TypeInv
<1>2. losses' = losses \/ losses' = losses + 1
  BY DEF vars, bounds, Next, SourceChange, DamageRow, DamageDocument, CycleStep, CycleStart, CycleFetch,
        CycleDeliver, CycleRecord, CycleEnd, CycleCrash, LoseLock, AlignList, DriftStart, CheckStep,
        AlignSample, AlignRead, AlignWrite, DriftExpect, DriftList, DriftUpsert
<1>3. (\E c \in Cycles : LoseLock(c)) => losses' = losses + 1
  BY DEF LoseLock
<1> QED
  BY <1>1, <1>2, <1>3

LEMMA LockStep ==
  ASSUME RepairAssumption, TypeInv, LockInv, [Next]_vars
  PROVE  LockInv'
<1> SUFFICES ASSUME losses' = 0, NEW d \in Cycles, Running(d)' PROVE lock' = d
  BY DEF LockInv
<1>1. losses = 0 /\ \A c \in Cycles : ~LoseLock(c)
  BY LossesStay
<1>2. cycle \in [Cycles -> CycleStates] /\ Nobody \notin Cycles
  BY ReadTypes DEF RepairAssumption
<1>3. Running(d) => lock = d
  BY <1>1 DEF LockInv
<1>4. CASE Quiet
  BY <1>3, <1>4 DEF Quiet, Running
<1>5. ASSUME NEW c \in Cycles, CycleStart(c) PROVE lock' = d
  BY <1>2, <1>3, <1>5 DEF CycleStart, MayEnter, Advance, Running
<1>6. ASSUME NEW c \in Cycles, CycleFetch(c) \/ CycleDeliver(c) \/ CycleRecord(c)
      PROVE  lock' = d
  <2>1. lock' = lock /\ Running(c) /\ \A e \in Cycles : e # c => cycle'[e] = cycle[e]
    BY <1>2, <1>6 DEF CycleFetch, CycleDeliver, CycleRecord, Advance, Running
  <2> QED
    BY <1>1, <1>3, <2>1 DEF Running
<1>7. ASSUME NEW c \in Cycles, CycleEnd(c) \/ CycleCrash(c) PROVE lock' = d
  <2>1. /\ lock' = Released(c) /\ Running(c) /\ cycle'[c].pc = "idle"
        /\ \A e \in Cycles : e # c => cycle'[e] = cycle[e]
    BY <1>2, <1>7 DEF CycleEnd, CycleCrash, Advance, Running
  <2>2. d # c /\ Running(d)
    BY <2>1 DEF Running
  <2> QED
    BY <1>3, <2>1, <2>2 DEF Released
<1> QED
  BY <1>1, <1>4, <1>5, <1>6, <1>7, OnlyCycles DEF CycleStep

(* The first change that is not recorded is the one a cycle fetches.       *)
LEMMA FetchIsNext ==
  ASSUME NEW c \in Cycles, NEW n \in 0 .. Len(log), Len(log) \in Nat, applied = 1 .. n,
         cycle[c].from \in Nat, cycle[c].from <= n, Pending(c) # {}
  PROVE  Min(Pending(c)) = n + 1
<1>1. Pending(c) \in SUBSET (1 .. Len(log))
  BY DEF Pending
<1>2. Min(Pending(c)) \in Pending(c) /\ \A i \in Pending(c) : Min(Pending(c)) <= i
  BY <1>1, MinOfBounded
<1>3. Min(Pending(c)) \in 1 .. Len(log) /\ Min(Pending(c)) \notin 1 .. n
  BY <1>2 DEF Pending
<1>4. n + 1 \in Pending(c)
  BY <1>3 DEF Pending
<1> QED
  BY <1>2, <1>3, <1>4

LEMMA PrefixStep ==
  ASSUME RepairAssumption, TypeInv, LockInv, PrefixInv, [Next]_vars
  PROVE  PrefixInv'
<1> DEFINE Within(n) ==
      /\ applied = 1 .. n /\ base.checkpoint <= n
      /\ align.pc # "idle" => align.checkpoint <= n
      /\ \A c \in Cycles : /\ Running(c) => cycle[c].from <= n
                           /\ AtChange(c) => cycle[c].item = n + 1
<1> SUFFICES ASSUME losses' = 0 PROVE \E n \in 0 .. Len(log') : Within(n)'
  BY DEF PrefixInv
<1>1. losses = 0 /\ \A c \in Cycles : ~LoseLock(c)
  BY LossesStay
<1>2. PICK n \in 0 .. Len(log) : Within(n)
  BY <1>1 DEF PrefixInv
<1>3. n \in Nat /\ n \in 0 .. Len(log') /\ Len(log) \in Nat
  <2>1. Len(log) \in Nat /\ n \in Nat
    BY ReadTypes
  <2>2. n \in 0 .. Len(log')
    BY <2>1, LogGrows
  <2> QED
    BY <2>1, <2>2
<1>4. cycle \in [Cycles -> CycleStates] /\ base.checkpoint \in Nat
      /\ \A c \in Cycles : cycle[c].from \in Nat
  BY ReadTypes DEF CycleStates
<1>5. \A c, d \in Cycles : Running(c) /\ Running(d) => c = d
  BY <1>1 DEF LockInv
<1>6. CASE Quiet
  <2>1. \/ base'.checkpoint = base.checkpoint
        \/ align.pc # "idle" /\ base'.checkpoint = align.checkpoint
    <3>1. CASE DamageRow
      BY <3>1 DEF DamageRow, TypeInv, TypeOK
    <3>2. CASE AlignWrite
      BY <3>2 DEF AlignWrite, Stored
    <3>3. CASE ~(DamageRow \/ AlignWrite)
      <4>1. base' = base
        BY <1>6, <3>3 DEF Quiet, OtherStep, vars, SourceChange, DamageDocument, AlignList,
           DriftStart, CheckStep, AlignSample, AlignRead, DriftExpect, DriftList, DriftUpsert
      <4> QED
        BY <4>1
    <3> QED
      BY <3>1, <3>2, <3>3
  <2>2. align'.pc # "idle" => \/ align.pc # "idle" /\ align'.checkpoint = align.checkpoint
                              \/ align'.checkpoint = base.checkpoint
    <3>1. align \in Checks({"idle", "sample", "read", "write"})
      BY DEF TypeInv, TypeOK
    <3>2. CASE AlignList
      BY <3>2 DEF AlignList, IdleCheck
    <3>3. CASE AlignSample \/ AlignRead \/ AlignWrite
      <4>1. CASE AlignSample
        BY <3>1, <4>1 DEF AlignSample, Checks
      <4>2. CASE AlignRead
        BY <3>1, <4>2 DEF AlignRead, Checks
      <4>3. CASE AlignWrite
        BY <4>3 DEF AlignWrite, IdleCheck
      <4> QED
        BY <3>3, <4>1, <4>2, <4>3
    <3>4. CASE ~(AlignList \/ AlignSample \/ AlignRead \/ AlignWrite)
      <4>1. align' = align
        BY <1>6, <3>4 DEF Quiet, OtherStep, vars, SourceChange, DamageRow, DamageDocument,
           DriftStart, CheckStep, DriftExpect, DriftList, DriftUpsert
      <4> QED
        BY <4>1
    <3> QED
      BY <3>2, <3>3, <3>4
  <2> QED
    BY <1>2, <1>3, <1>6, <2>1, <2>2 DEF Quiet, Running, AtChange
<1>7. ASSUME NEW c \in Cycles, CycleStart(c) PROVE Within(n)'
  <2>1. /\ applied' = applied /\ base' = base /\ align' = align
        /\ cycle'[c].pc = "fetch" /\ cycle'[c].from = base.checkpoint
        /\ \A d \in Cycles : d # c => cycle'[d] = cycle[d]
    BY <1>4, <1>7, AdvanceEffect DEF CycleStart, Advance
  <2> QED
    BY <1>2, <2>1 DEF Running, AtChange
<1>8. ASSUME NEW c \in Cycles, CycleFetch(c) PROVE Within(n)'
  <2>1. Running(c) /\ Pending(c) # {} /\ cycle[c].from <= n
    BY <1>2, <1>8 DEF CycleFetch, Running
  <2>2. Min(Pending(c)) = n + 1
    BY <1>2, <1>3, <1>4, <2>1, FetchIsNext
  <2>3. /\ applied' = applied /\ base' = base /\ align' = align
        /\ cycle'[c].from = cycle[c].from /\ cycle'[c].item = n + 1
        /\ \A d \in Cycles : d # c => cycle'[d] = cycle[d]
    BY <1>4, <1>8, <2>2 DEF CycleFetch, Advance
  <2> QED
    BY <1>2, <2>1, <2>3 DEF Running, AtChange
<1>9. ASSUME NEW c \in Cycles, CycleDeliver(c) PROVE Within(n)'
  <2>1. /\ applied' = applied /\ base' = base /\ align' = align
        /\ cycle'[c].from = cycle[c].from /\ cycle'[c].item = cycle[c].item
        /\ \A d \in Cycles : d # c => cycle'[d] = cycle[d]
    BY <1>4, <1>9 DEF CycleDeliver, Advance
  <2>2. AtChange(c) /\ Running(c)
    BY <1>9 DEF CycleDeliver, AtChange, Running
  <2> QED
    BY <1>2, <2>1, <2>2 DEF Running, AtChange
<1>10. ASSUME NEW c \in Cycles, CycleRecord(c) PROVE n + 1 \in 0 .. Len(log') /\ Within(n + 1)'
  <2>1. AtChange(c) /\ Running(c)
    BY <1>10 DEF CycleRecord, AtChange, Running
  <2>2. cycle[c].item = n + 1 /\ n + 1 \in 1 .. Len(log) /\ log' = log
    BY <1>2, <1>10, <2>1 DEF TypeInv, CycleRecord
  <2>3. /\ applied' = 1 .. n + 1 /\ base'.checkpoint = n + 1 /\ align' = align
        /\ cycle'[c].pc = "fetch" /\ cycle'[c].from = n + 1
        /\ \A d \in Cycles : d # c => cycle'[d] = cycle[d]
    <3>1. base'.checkpoint = cycle[c].item
      <4>1. base \in [rows : Tables, checkpoint : Nat,
                      alignment : {"unknown", "partial", "aligned"}]
        BY DEF TypeInv, TypeOK
      <4> QED
        BY <1>10, <4>1 DEF CycleRecord
    <3>2. (1 .. n) \cup {n + 1} = 1 .. n + 1
      BY <1>3
    <3>3. applied' = 1 .. n + 1
      BY <1>2, <1>10, <2>2, <3>2 DEF CycleRecord
    <3> QED
      BY <1>4, <1>10, <2>2, <3>1, <3>3 DEF CycleRecord, Advance
  <2>4. \A d \in Cycles : d # c => ~Running(d) /\ ~Running(d)' /\ ~AtChange(d)'
    BY <1>5, <2>1, <2>3 DEF Running, AtChange
  <2>5. align.pc # "idle" => align.checkpoint <= n + 1
    <3>1. align.pc # "idle" => align.checkpoint <= n /\ align.checkpoint \in Nat
      BY <1>2 DEF TypeInv, TypeOK, Checks
    <3> QED
      BY <1>3, <3>1
  <2> QED
    BY <1>3, <2>2, <2>3, <2>4, <2>5 DEF AtChange
<1>11. ASSUME NEW c \in Cycles, CycleEnd(c) \/ CycleCrash(c) PROVE Within(n)'
  <2>1. Running(c)
    BY <1>11 DEF CycleEnd, CycleCrash, Running
  <2>2. /\ applied' = applied /\ align' = align /\ cycle'[c].pc = "idle"
        /\ \A d \in Cycles : d # c => cycle'[d] = cycle[d]
    BY <1>4, <1>11 DEF CycleEnd, CycleCrash, Advance
  <2>3. base'.checkpoint \in {base.checkpoint, cycle[c].from}
    <3>1. base \in [rows : Tables, checkpoint : Nat,
                    alignment : {"unknown", "partial", "aligned"}]
      BY DEF TypeInv, TypeOK
    <3> QED
      BY <1>11, <3>1 DEF CycleEnd, CycleCrash
  <2> QED
    BY <1>2, <2>1, <2>2, <2>3 DEF Running, AtChange
<1> QED
  BY <1>1, <1>3, <1>6, <1>7, <1>8, <1>9, <1>10, <1>11, OnlyCycles DEF CycleStep

-----------------------------------------------------------------------------
(* The sample of an Alignment is the table at some moment since it began.  *)
AlignInv ==
  /\ align.pc # "idle" => align.since \in 0 .. Len(log)
  /\ align.pc \in {"read", "write"} => \A k \in Keys : AtOrAfter(align.sample, k, align.since)

LEMMA AtOrAfterStays ==
  ASSUME TypeInv, [Next]_vars, NEW k \in Keys, NEW n \in Nat, NEW rows, AtOrAfter(rows, k, n)
  PROVE  \E m \in n .. Len(log') : rows[k] = TableAfter(m)'[k]
<1>1. PICK m \in n .. Len(log) : rows[k] = TableAfter(m)[k]
  BY DEF AtOrAfter
<1>2. m \in 0 .. Len(log)
  BY LogGrows
<1>3. m \in n .. Len(log') /\ TableAfter(m)'[k] = TableAfter(m)[k]
  BY <1>2, LogGrows, PastIsFixed
<1> QED
  BY <1>1, <1>3

(* The Source at this moment is as late as can be.                         *)
LEMMA SourceIsLatest ==
  ASSUME TypeInv, NEW n \in 0 .. Len(log), NEW k \in Keys PROVE AtOrAfter(Source, k, n)
<1>1. Len(log) \in n .. Len(log)
  BY ReadTypes
<1> QED
  BY <1>1 DEF AtOrAfter, Source

(* The pieces of the code that an Alignment, and only one, goes through.   *)
LEMMA AlignMoves ==
  ASSUME TypeInv, [Next]_vars
  PROVE  AlignList \/ AlignSample \/ AlignRead \/ AlignWrite \/ align' = align
BY DEF vars, Next, SourceChange, DamageRow, DamageDocument, CycleStep, CycleStart, CycleFetch,
       CycleDeliver, CycleRecord, CycleEnd, CycleCrash, LoseLock, DriftStart, CheckStep, DriftExpect,
       DriftList, DriftUpsert

LEMMA AlignStep ==
  ASSUME TypeInv, AlignInv, [Next]_vars PROVE AlignInv'
<1>1. align \in Checks({"idle", "sample", "read", "write"})
  BY DEF TypeInv, TypeOK
<1>2. CASE AlignList
  BY <1>2, LogGrows DEF AlignList, AlignInv, IdleCheck
<1>3. CASE AlignSample
  <2>1. align'.pc = "read" /\ align'.since = align.since /\ align'.sample = Source /\ log' = log
    BY <1>1, <1>3 DEF AlignSample, Checks
  <2>2. align.since \in 0 .. Len(log)
    BY <1>3 DEF AlignInv, AlignSample
  <2>3. ASSUME NEW k \in Keys PROVE AtOrAfter(align.sample, k, align.since)'
    <3>1. \E m \in align.since .. Len(log') : Source[k] = TableAfter(m)'[k]
      BY <2>2, SourceIsLatest, AtOrAfterStays
    <3> QED
      BY <2>1, <3>1 DEF AtOrAfter
  <2> QED
    BY <2>1, <2>2, <2>3 DEF AlignInv
<1>4. CASE AlignRead
  <2>1. /\ align'.pc = "write" /\ align.pc = "read" /\ align'.since = align.since
        /\ align'.sample = align.sample /\ log' = log
    BY <1>1, <1>4 DEF AlignRead, Checks
  <2>2. ASSUME NEW k \in Keys PROVE AtOrAfter(align.sample, k, align.since)'
    <3>1. align.since \in Nat /\ AtOrAfter(align.sample, k, align.since)
      BY <2>1, LogGrows DEF AlignInv
    <3>2. \E m \in align.since .. Len(log') : align.sample[k] = TableAfter(m)'[k]
      BY <3>1, AtOrAfterStays
    <3> QED
      BY <2>1, <3>2 DEF AtOrAfter
  <2> QED
    BY <2>1, <2>2 DEF AlignInv
<1>5. CASE AlignWrite
  BY <1>5 DEF AlignWrite, AlignInv, IdleCheck
<1>6. CASE align' = align
  <2>1. align'.pc # "idle" => align'.since \in 0 .. Len(log')
    BY <1>6, LogGrows DEF AlignInv
  <2>2. ASSUME NEW k \in Keys, align'.pc \in {"read", "write"}
        PROVE  AtOrAfter(align.sample, k, align.since)'
    <3>1. align.since \in Nat /\ AtOrAfter(align.sample, k, align.since)
      BY <1>6, <2>2, LogGrows DEF AlignInv
    <3>2. \E m \in align.since .. Len(log') : align.sample[k] = TableAfter(m)'[k]
      BY <3>1, AtOrAfterStays
    <3> QED
      BY <1>6, <3>2 DEF AtOrAfter
  <2> QED
    BY <2>1, <2>2 DEF AlignInv
<1> QED
  BY <1>2, <1>3, <1>4, <1>5, <1>6, AlignMoves

(* A sample that was not truncated has every row of the table in its window. *)
LEMMA WholeWindow ==
  ASSUME NumKeys \in Nat, NEW rows, NEW max \in Nat, ~Truncated(rows, max), NEW k \in Present(rows)
  PROVE  k \in Window(rows, max)
<1> DEFINE below == {j \in Present(rows) : j < k}
<1>1. IsFiniteSet(Present(rows))
  <2>1. IsFiniteSet(Keys)
    BY FS_Interval DEF Keys
  <2>2. Present(rows) \in SUBSET Keys
    BY DEF Present
  <2> QED
    BY <2>1, <2>2, FS_Subset
<1>2. below \in SUBSET Present(rows) /\ k \notin below
  BY DEF Present, Keys
<1>3. /\ Cardinality(below) \in Nat /\ Cardinality(Present(rows)) \in Nat
      /\ Cardinality(below) <= Cardinality(Present(rows))
      /\ Cardinality(below) # Cardinality(Present(rows))
  <2> HIDE DEF below
  <2> QED
    BY <1>1, <1>2, FS_Subset, FS_CardinalityType
<1>4. Cardinality(Present(rows)) <= max
  BY <1>3 DEF Truncated
<1> QED
  BY <1>3, <1>4 DEF Window

(* What an Alignment stores: sampled rows, or those it read before.        *)
LEMMA RepairedRow ==
  ASSUME NumKeys \in Nat, NEW sample, NEW rows, NEW max \in Nat, NEW k \in Keys
  PROVE  \/ Repaired(sample, rows, max)[k] = sample[k]
         \/ /\ Truncated(sample, max) /\ k \notin Window(sample, max)
            /\ Repaired(sample, rows, max)[k] = rows[k]
<1>1. CASE k \in Window(sample, max)
  BY <1>1 DEF Repaired
<1>2. CASE k \notin Window(sample, max) /\ Truncated(sample, max)
  BY <1>2 DEF Repaired
<1>3. CASE k \notin Window(sample, max) /\ ~Truncated(sample, max)
  <2>1. sample[k] = Absent
    BY <1>3, WholeWindow DEF Present
  <2> QED
    BY <1>3, <2>1 DEF Repaired
<1> QED
  BY <1>1, <1>2, <1>3

(* Whatever cycles do meanwhile, what an Alignment leaves in the window it *)
(* has read, and everywhere if it read the whole table, is as new as its   *)
(* start (align_one_base).                                                 *)
THEOREM AlignmentRestoresHolds == ASSUME RepairAssumption PROVE Spec => AlignmentRestores
<1> DEFINE Restores ==
      (align.pc = "write" /\ align'.pc = "idle") =>
        \A k \in Keys : (k \in Window(align.sample, align.max) \/ base'.alignment = "aligned") =>
                          AtOrAfter(base'.rows, k, align.since)
<1>1. Init => TypeInv /\ AlignInv
  BY InitTypes DEF Init, IdleCheck, AlignInv
<1>2. TypeInv /\ AlignInv /\ [Next]_vars => TypeInv' /\ AlignInv'
  BY TypesStep, AlignStep
<1>3. TypeInv /\ AlignInv /\ [Next]_vars => [Restores]_vars
  <2> SUFFICES ASSUME TypeInv, AlignInv, [Next]_vars, align.pc = "write", align'.pc = "idle",
                      NEW k \in Keys,
                      k \in Window(align.sample, align.max) \/ base'.alignment = "aligned"
               PROVE  AtOrAfter(base'.rows, k, align.since)
    OBVIOUS
  <2>1. AlignWrite
    BY AlignMoves DEF AlignList, AlignSample, AlignRead, CheckStarts, NoCheckRuns
  <2>2. align.max \in Nat /\ NumKeys \in Nat
    BY DEF TypeInv, TypeOK, Checks, RepairAssumption
  <2>3. /\ base'.rows = Repaired(align.sample, align.rows, align.max)
        /\ base'.alignment = "aligned" => ~Truncated(align.sample, align.max)
    BY <2>1 DEF AlignWrite, PersistedStatus
  <2>4. base'.rows[k] = align.sample[k]
    BY <2>2, <2>3, RepairedRow
  <2>5. AtOrAfter(align.sample, k, align.since)
    BY DEF AlignInv
  <2> QED
    BY <2>4, <2>5 DEF AtOrAfter
<1> QED
  BY <1>1, <1>2, <1>3, PTL DEF Spec, AlignmentRestores

-----------------------------------------------------------------------------
(* From here on no check runs while a cycle does.                          *)
CheckInv ==
  /\ align.pc = "idle" \/ drift.pc = "idle"
  /\ ~NoCheckRuns => \A c \in Cycles : ~Running(c)

LEMMA CheckStepInv ==
  ASSUME RepairAssumption, ~Interleaved, TypeInv, CheckInv, [Next]_vars PROVE CheckInv'
<1>1. cycle \in [Cycles -> CycleStates]
  BY ReadTypes
<1>2. CASE Quiet
  <2>1. cycle' = cycle
    BY <1>2 DEF Quiet
  <2>2. CASE AlignList \/ DriftStart
    BY <2>1, <2>2 DEF AlignList, DriftStart, CheckStarts, CheckInv, NoCheckRuns, Running, IdleCheck
  <2>3. CASE CheckStep
    BY <2>1, <2>3 DEF CheckStep, AlignSample, AlignRead, AlignWrite, DriftExpect, DriftList,
       DriftUpsert, CheckInv, NoCheckRuns, Running, IdleCheck
  <2>4. CASE align' = align /\ drift' = drift
    BY <2>1, <2>4 DEF CheckInv, NoCheckRuns, Running
  <2> QED
    BY <1>2, <2>2, <2>3, <2>4 DEF Quiet, OtherStep, SourceChange, DamageRow, DamageDocument, vars
<1>3. ASSUME NEW c \in Cycles, CycleStart(c) PROVE CheckInv'
  BY <1>3 DEF CycleStart, CheckInv, NoCheckRuns
<1>4. ASSUME NEW c \in Cycles,
             CycleFetch(c) \/ CycleDeliver(c) \/ CycleRecord(c) \/ CycleEnd(c) \/ CycleCrash(c)
      PROVE  CheckInv'
  <2>1. Running(c) /\ align' = align /\ drift' = drift
    BY <1>4 DEF Running, CycleFetch, CycleDeliver, CycleRecord, CycleEnd, CycleCrash
  <2> QED
    BY <2>1 DEF CheckInv, NoCheckRuns
<1>5. ASSUME NEW c \in Cycles, LoseLock(c) PROVE CheckInv'
  BY <1>5 DEF LoseLock, CheckInv, NoCheckRuns, Running
<1> QED
  BY <1>2, <1>3, <1>4, <1>5, OnlyCycles DEF CycleStep

(* Three steps write rows, each at a place of its own.                     *)
LEMMA RowsMove ==
  ASSUME TypeInv, [Next]_vars
  PROVE  \/ DamageRow \/ AlignWrite \/ \E c \in Cycles : CycleRecord(c)
         \/ base'.rows = base.rows
<1>1. base \in [rows : Tables, checkpoint : Nat, alignment : {"unknown", "partial", "aligned"}]
  BY DEF TypeInv, TypeOK
<1>2. ASSUME NEW c \in Cycles, CycleEnd(c) PROVE base'.rows = base.rows
  BY <1>1, <1>2 DEF CycleEnd
<1>3. CASE SourceChange \/ DamageDocument \/ AlignList \/ DriftStart \/ UNCHANGED vars
  BY <1>3 DEF SourceChange, DamageDocument, AlignList, DriftStart, vars
<1>4. CASE CheckStep
  BY <1>4 DEF CheckStep, AlignSample, AlignRead, DriftExpect, DriftList, DriftUpsert
<1>5. ASSUME NEW c \in Cycles,
             CycleStart(c) \/ CycleFetch(c) \/ CycleDeliver(c) \/ CycleCrash(c) \/ LoseLock(c)
      PROVE  base'.rows = base.rows
  BY <1>5 DEF CycleStart, CycleFetch, CycleDeliver, CycleCrash, LoseLock
<1> QED
  BY <1>2, <1>3, <1>4, <1>5 DEF Next, CycleStep

(* What CycleRecord does to the rows.                                      *)
LEMMA RecordRows ==
  ASSUME TypeInv, NEW c \in Cycles, CycleRecord(c)
  PROVE  /\ cycle[c].item \in 1 .. Len(log) /\ Change(c) = log[cycle[c].item]
         /\ Change(c).key \in Keys
         /\ base'.rows[Change(c).key] = Change(c).image
         /\ \A k \in Keys : k # Change(c).key => base'.rows[k] = base.rows[k]
<1>1. cycle[c].item \in 1 .. Len(log)
  BY DEF TypeInv, AtChange, CycleRecord
<1>2. log[cycle[c].item] \in Entry
  BY <1>1, EntryType DEF TypeInv
<1>3. base.rows \in Tables
  BY ReadTypes
<1>4. base'.rows = [base.rows EXCEPT ![Change(c).key] = Change(c).image]
  <2>1. base \in [rows : Tables, checkpoint : Nat, alignment : {"unknown", "partial", "aligned"}]
    BY DEF TypeInv, TypeOK
  <2> QED
    BY <2>1 DEF CycleRecord
<1> QED
  BY <1>1, <1>2, <1>3, <1>4 DEF Change, Entry, Tables

LEMMA LastRecordedType ==
  ASSUME TypeInv, NEW k \in Keys PROVE LastRecorded(k) \in 0 .. Len(log)
<1> DEFINE recorded == {i \in applied : log[i].key = k}
<1>1. recorded \in SUBSET (1 .. Len(log)) /\ Len(log) \in Nat
  BY ReadTypes
<1>2. recorded # {} => Max(recorded) \in recorded
  <2> HIDE DEF recorded
  <2> QED
    BY <1>1, MaxOfBounded
<1>3. LastRecorded(k) = IF recorded = {} THEN 0 ELSE Max(recorded)
  BY DEF LastRecorded
<1>4. CASE recorded = {}
  BY <1>1, <1>3, <1>4
<1>5. CASE recorded # {}
  <2>1. Max(recorded) \in 1 .. Len(log)
    BY <1>1, <1>2, <1>5
  <2>2. LastRecorded(k) = Max(recorded)
    BY <1>3, <1>5
  <2> QED
    BY <1>1, <2>1, <2>2
<1> QED
  BY <1>4, <1>5

LEMMA RecordedStays ==
  ASSUME TypeInv, [Next]_vars, applied' = applied, NEW k \in Keys
  PROVE  LastRecorded(k)' = LastRecorded(k)
<1> DEFINE recorded == {i \in applied : log[i].key = k}
<1>1. recorded' = recorded
  BY LogGrows, ReadTypes
<1>2. LastRecorded(k) = IF recorded = {} THEN 0 ELSE Max(recorded)
  BY DEF LastRecorded
<1>3. LastRecorded(k)' = IF recorded' = {} THEN 0 ELSE Max(recorded')
  BY DEF LastRecorded
<1> HIDE DEF recorded
<1> QED
  BY <1>1, <1>2, <1>3

(* The row that a recorded change leaves is that of the table after it.    *)
LEMMA TableAfterChange ==
  ASSUME TypeInv, NEW i \in 1 .. Len(log)
  PROVE  TableAfter(i)[log[i].key] = log[i].image
<1> DEFINE touching == {j \in 1 .. i : log[j].key = log[i].key}
<1>1. log[i].key \in Keys
  <2>1. log[i] \in Entry
    BY EntryType DEF TypeInv
  <2> QED
    BY <2>1 DEF Entry
<1>2. touching \in SUBSET (1 .. i) /\ i \in touching /\ i \in Nat
  BY ReadTypes
<1>3. Max(touching) = i
  <2>1. Max(touching) \in touching /\ \A x \in touching : Max(touching) >= x
    <3> HIDE DEF touching
    <3> QED
      BY <1>2, MaxOfBounded
  <2>2. Max(touching) \in 1 .. i /\ Max(touching) >= i
    BY <1>2, <2>1
  <2> QED
    BY <1>2, <2>2
<1>4. TableAfter(i)[log[i].key] = IF touching = {} THEN 0 ELSE log[Max(touching)].image
  BY <1>1 DEF TableAfter
<1> HIDE DEF touching
<1> QED
  BY <1>2, <1>3, <1>4

(* Recording the next change makes it the last one of its row, and of no   *)
(* other.                                                                  *)
LEMMA RecordIsLast ==
  ASSUME TypeInv, NEW n \in Nat, n + 1 \in 1 .. Len(log), applied = 1 .. n,
         applied' = 1 .. n + 1, log' = log, NEW k \in Keys
  PROVE  LastRecorded(k)' = IF log[n + 1].key = k THEN n + 1 ELSE LastRecorded(k)
<1> DEFINE before == {i \in applied : log[i].key = k}
           after  == {i \in 1 .. n + 1 : log[i].key = k}
<1>1. LastRecorded(k) = IF before = {} THEN 0 ELSE Max(before)
  BY DEF LastRecorded
<1>2. LastRecorded(k)' = IF after = {} THEN 0 ELSE Max(after)
  BY DEF LastRecorded
<1>3. CASE log[n + 1].key = k
  <2>1. n + 1 \in Nat /\ n + 1 \in after /\ after \in SUBSET (1 .. n + 1)
    BY <1>3
  <2>2. Max(after) \in after /\ Max(after) >= n + 1
    <3> HIDE DEF after
    <3> QED
      BY <2>1, MaxOfBounded
  <2>3. Max(after) = n + 1
    BY <2>1, <2>2
  <2> HIDE DEF after
  <2> QED
    BY <1>2, <1>3, <2>1, <2>3
<1>4. CASE log[n + 1].key # k
  <2>1. after = before
    <3>1. \A i : i \in 1 .. n + 1 <=> (i \in 1 .. n \/ i = n + 1)
      OBVIOUS
    <3> QED
      BY <1>4, <3>1
  <2> HIDE DEF after, before
  <2> QED
    BY <1>1, <1>2, <1>4, <2>1
<1> QED
  BY <1>3, <1>4

(* While nothing has been damaged and no lock lost: rows keep what was     *)
(* recorded; an Alignment began no earlier than that; and the rows it read *)
(* are still the rows when it writes.                                      *)
KeepInv ==
  (damage = 0 /\ losses = 0) =>
    /\ \A k \in Keys : AtOrAfter(base.rows, k, LastRecorded(k))
    /\ align.pc # "idle" => \A k \in Keys : LastRecorded(k) <= align.since
    /\ align.pc = "write" => align.rows = base.rows

LEMMA KeepInit == RepairAssumption /\ Init => KeepInv
<1> SUFFICES ASSUME RepairAssumption, Init, NEW k \in Keys
             PROVE  AtOrAfter(base.rows, k, LastRecorded(k))
  BY DEF Init, KeepInv, IdleCheck
<1>1. LastRecorded(k) = 0 /\ Len(log) = 0
  BY DEF Init, LastRecorded
<1>2. base.rows[k] = 0 /\ TableAfter(0)[k] = 0
  BY DEF Init, AllRows, TableAfter
<1> QED
  BY <1>1, <1>2 DEF AtOrAfter

LEMMA DamageStays ==
  ASSUME TypeInv, [Next]_vars
  PROVE  damage' \in Nat /\ damage <= damage' /\ (damage' = damage => ~DamageRow /\ ~DamageDocument)
<1>1. damage \in Nat
  BY DEF TypeInv
<1>2. damage' = damage \/ damage' = damage + 1
  BY DEF vars, bounds, Next, SourceChange, DamageRow, DamageDocument, CycleStep, CycleStart,
     CycleFetch, CycleDeliver, CycleRecord, CycleEnd, CycleCrash, LoseLock, AlignList, DriftStart,
     CheckStep, AlignSample, AlignRead, AlignWrite, DriftExpect, DriftList, DriftUpsert
<1>3. DamageRow \/ DamageDocument => damage' = damage + 1
  BY DEF DamageRow, DamageDocument
<1> QED
  BY <1>1, <1>2, <1>3

LEMMA KeepRecord ==
  ASSUME RepairAssumption, TypeInv, LockInv, PrefixInv, CheckInv, KeepInv, [Next]_vars,
         damage = 0, losses = 0, NEW c \in Cycles, CycleRecord(c)
  PROVE  KeepInv'
<1>1. PICK n \in 0 .. Len(log) : applied = 1 .. n /\ cycle[c].item = n + 1
  BY DEF PrefixInv, AtChange, CycleRecord
<1>2. n \in Nat /\ n + 1 \in 1 .. Len(log) /\ log' = log /\ Change(c) = log[n + 1]
  <2>1. cycle[c].item \in 1 .. Len(log) /\ Change(c) = log[cycle[c].item]
    BY RecordRows
  <2>2. log' = log
    BY DEF CycleRecord
  <2>3. n \in Nat
    BY ReadTypes
  <2> QED
    BY <1>1, <2>1, <2>2, <2>3
<1>3. applied' = 1 .. n + 1
  <2>1. applied' = (1 .. n) \cup {n + 1}
    BY <1>1 DEF CycleRecord
  <2> QED
    BY <1>2, <2>1
<1>4. align'.pc = "idle"
  BY DEF CycleRecord, CheckInv, NoCheckRuns, Running
<1>5. ASSUME NEW k \in Keys PROVE AtOrAfter(base.rows, k, LastRecorded(k))'
  <2>1. CASE log[n + 1].key = k
    <3>1. LastRecorded(k)' = n + 1
      BY <1>1, <1>2, <1>3, <2>1, RecordIsLast
    <3>2. base'.rows[k] = TableAfter(n + 1)[k]
      BY <1>2, <2>1, RecordRows, TableAfterChange
    <3>3. n + 1 \in 0 .. Len(log) /\ n + 1 \in (n + 1) .. Len(log')
      BY <1>2
    <3>4. TableAfter(n + 1)'[k] = TableAfter(n + 1)[k]
      BY <3>3, PastIsFixed
    <3> QED
      BY <3>1, <3>2, <3>3, <3>4 DEF AtOrAfter
  <2>2. CASE log[n + 1].key # k
    <3>1. LastRecorded(k)' = LastRecorded(k) /\ LastRecorded(k) \in Nat
      BY <1>1, <1>2, <1>3, <2>2, RecordIsLast, LastRecordedType
    <3>2. base'.rows[k] = base.rows[k]
      BY <1>2, <2>2, RecordRows
    <3>3. \E m \in LastRecorded(k) .. Len(log') : base.rows[k] = TableAfter(m)'[k]
      BY <3>1, AtOrAfterStays DEF KeepInv
    <3> QED
      BY <3>1, <3>2, <3>3 DEF AtOrAfter
  <2> QED
    BY <2>1, <2>2
<1> QED
  BY <1>4, <1>5 DEF KeepInv

LEMMA KeepAlign ==
  ASSUME RepairAssumption, TypeInv, AlignInv, KeepInv, [Next]_vars, damage = 0, losses = 0, AlignWrite
  PROVE  KeepInv'
<1>1. applied' = applied /\ align'.pc = "idle" /\ align.pc = "write"
  BY DEF AlignWrite, IdleCheck
<1>2. ASSUME NEW k \in Keys PROVE AtOrAfter(base.rows, k, LastRecorded(k))'
  <2>1. LastRecorded(k)' = LastRecorded(k) /\ LastRecorded(k) \in Nat
    BY <1>1, RecordedStays, LastRecordedType
  <2>2. base'.rows[k] = align.sample[k] \/ base'.rows[k] = base.rows[k]
    <3>1. base'.rows = Repaired(align.sample, align.rows, align.max)
      BY DEF AlignWrite
    <3>2. align.max \in Nat /\ NumKeys \in Nat /\ align.rows = base.rows
      BY <1>1 DEF TypeInv, TypeOK, Checks, RepairAssumption, KeepInv
    <3> QED
      BY <3>1, <3>2, RepairedRow
  <2>3. AtOrAfter(align.sample, k, LastRecorded(k))
    <3>1. PICK m \in align.since .. Len(log) : align.sample[k] = TableAfter(m)[k]
      BY <1>1 DEF AlignInv, AtOrAfter
    <3>2. LastRecorded(k) <= align.since /\ align.since \in Nat
      BY <1>1 DEF KeepInv, AlignInv
    <3>3. m \in LastRecorded(k) .. Len(log)
      BY <2>1, <3>2
    <3> QED
      BY <3>1, <3>3 DEF AtOrAfter
  <2>4. AtOrAfter(base.rows, k, LastRecorded(k))
    BY DEF KeepInv
  <2>5. PICK row \in {align.sample, base.rows} : base'.rows[k] = row[k]
    BY <2>2
  <2>6. \E m \in LastRecorded(k) .. Len(log') : row[k] = TableAfter(m)'[k]
    BY <2>1, <2>3, <2>4, AtOrAfterStays
  <2> QED
    BY <2>1, <2>5, <2>6 DEF AtOrAfter
<1> QED
  BY <1>1, <1>2 DEF KeepInv

LEMMA KeepStep ==
  ASSUME RepairAssumption, ~Interleaved, TypeInv, LockInv, PrefixInv, CheckInv, AlignInv, KeepInv,
         [Next]_vars
  PROVE  KeepInv'
<1> SUFFICES ASSUME damage' = 0, losses' = 0 PROVE KeepInv'
  BY DEF KeepInv
<1>1. damage = 0 /\ losses = 0 /\ ~DamageRow
  <2>1. damage \in Nat
    BY DEF TypeInv
  <2> QED
    BY <2>1, DamageStays, LossesStay
<1>2. CASE \E c \in Cycles : CycleRecord(c)
  BY <1>1, <1>2, KeepRecord
<1>3. CASE AlignWrite
  BY <1>1, <1>3, KeepAlign
<1>4. CASE ~AlignWrite /\ \A c \in Cycles : ~CycleRecord(c)
  <2>1. base'.rows = base.rows
    BY <1>1, <1>4, RowsMove
  <2>2. applied' = applied
    BY <1>4 DEF vars, Next, SourceChange, DamageRow, DamageDocument, CycleStep, CycleStart,
       CycleFetch, CycleDeliver, CycleEnd, CycleCrash, LoseLock, AlignList, DriftStart,
       CheckStep, AlignSample, AlignRead, DriftExpect, DriftList, DriftUpsert
  <2>3. ASSUME NEW k \in Keys
        PROVE  LastRecorded(k)' = LastRecorded(k) /\ LastRecorded(k) \in 0 .. Len(log)
    BY <2>2, RecordedStays, LastRecordedType
  <2>4. ASSUME NEW k \in Keys PROVE AtOrAfter(base.rows, k, LastRecorded(k))'
    <3>1. \E m \in LastRecorded(k) .. Len(log') : base.rows[k] = TableAfter(m)'[k]
      BY <1>1, <2>3, AtOrAfterStays DEF KeepInv
    <3> QED
      BY <2>1, <2>3, <3>1 DEF AtOrAfter
  <2>5. align \in Checks({"idle", "sample", "read", "write"})
    BY DEF TypeInv, TypeOK
  <2>6. /\ align'.pc # "idle" => \A k \in Keys : LastRecorded(k)' <= align'.since
        /\ align'.pc = "write" => align'.rows = base'.rows
    <3>1. CASE AlignList
      <4>1. align'.pc = "sample" /\ align'.since = Len(log)
        BY <3>1 DEF AlignList, IdleCheck
      <4>2. \A k \in Keys : LastRecorded(k) <= Len(log)
        BY <2>3
      <4> QED
        BY <2>3, <4>1, <4>2
    <3>2. CASE AlignSample
      <4>1. align'.pc = "read" /\ align'.since = align.since /\ align.pc = "sample"
        BY <2>5, <3>2 DEF AlignSample, Checks
      <4> QED
        BY <1>1, <2>3, <4>1 DEF KeepInv
    <3>3. CASE AlignRead
      <4>1. align'.rows = base.rows /\ align'.since = align.since /\ align.pc = "read"
        BY <2>5, <3>3 DEF AlignRead, Checks
      <4> QED
        BY <1>1, <2>1, <2>3, <4>1 DEF KeepInv
    <3>4. CASE align' = align
      BY <1>1, <2>1, <2>3, <3>4 DEF KeepInv
    <3> QED
      BY <1>4, <3>1, <3>2, <3>3, <3>4, AlignMoves
  <2> QED
    BY <2>4, <2>6 DEF KeepInv
<1> QED
  BY <1>2, <1>3, <1>4

(* With checks and cycles apart and the lock kept, no Base row is older    *)
(* than a change of it that has been recorded: over every crash, every     *)
(* inclusive resume and every Alignment (record_sync_row_progress,         *)
(* align_one_base).                                                        *)
THEOREM BaseKeepsRecordedHolds ==
  ASSUME RepairAssumption, ~Interleaved PROVE Spec => []BaseKeepsRecorded
<1> DEFINE Inv == TypeInv /\ LockInv /\ PrefixInv /\ CheckInv /\ AlignInv /\ KeepInv
<1>1. Init => Inv
  <2>1. Init => CheckInv /\ AlignInv
    BY DEF Init, IdleCheck, AlignInv, CheckInv, NoCheckRuns
  <2> QED
    BY <2>1, InitTypes, LockInit, KeepInit
<1>2. Inv /\ [Next]_vars => Inv'
  BY TypesStep, LockStep, PrefixStep, CheckStepInv, AlignStep, KeepStep
<1>3. Inv => BaseKeepsRecorded
  BY DEF KeepInv, BaseKeepsRecorded
<1> QED
  BY <1>1, <1>2, <1>3, PTL DEF Spec

-----------------------------------------------------------------------------
(* What a Drift Check has read is still so while nobody damages anything.  *)
DriftInv ==
  drift.pc # "idle" =>
    /\ drift.since <= damage
    /\ (drift.pc \in {"list", "upsert"} /\ drift.since = damage) => drift.rows = base.rows
    /\ (drift.pc = "upsert" /\ drift.since = damage) => drift.sample = target

LEMMA DriftMoves ==
  ASSUME TypeInv, [Next]_vars
  PROVE  DriftStart \/ DriftExpect \/ DriftList \/ DriftUpsert \/ drift' = drift
BY DEF vars, Next, SourceChange, DamageRow, DamageDocument, CycleStep, CycleStart, CycleFetch,
       CycleDeliver, CycleRecord, CycleEnd, CycleCrash, LoseLock, AlignList, CheckStep, AlignSample,
       AlignRead, AlignWrite

(* While a Drift Check is under way only damage and its own end write.     *)
LEMMA DriftAlone ==
  ASSUME TypeInv, CheckInv, [Next]_vars, drift.pc # "idle"
  PROVE  /\ DamageRow \/ base'.rows = base.rows
         /\ DamageDocument \/ DriftUpsert \/ target' = target
<1>1. \A c \in Cycles : ~CycleRecord(c) /\ ~CycleDeliver(c)
  BY DEF CheckInv, NoCheckRuns, Running, CycleRecord, CycleDeliver
<1>2. ~AlignWrite
  BY DEF CheckInv, AlignWrite
<1>3. DamageDocument \/ DriftUpsert \/ target' = target
  BY <1>1, <1>2 DEF vars, Next, SourceChange, DamageRow, CycleStep, CycleStart, CycleFetch,
     CycleRecord, CycleEnd, CycleCrash, LoseLock, AlignList, DriftStart, CheckStep, AlignSample,
     AlignRead, AlignWrite, DriftExpect, DriftList
<1> QED
  BY <1>1, <1>2, <1>3, RowsMove

LEMMA DriftStep ==
  ASSUME RepairAssumption, ~Interleaved, TypeInv, CheckInv, DriftInv, [Next]_vars PROVE DriftInv'
<1>1. drift \in Checks({"idle", "expect", "list", "upsert"}) /\ damage \in Nat
      /\ damage' \in Nat /\ damage <= damage'
  BY DamageStays DEF TypeInv, TypeOK
<1>2. CASE DriftStart
  BY <1>1, <1>2 DEF DriftStart, DriftInv, IdleCheck
<1>3. CASE DriftExpect
  <2>1. /\ drift.pc = "expect" /\ drift'.pc = "list" /\ drift'.since = drift.since
        /\ drift'.rows = base.rows /\ base' = base /\ damage' = damage
    BY <1>1, <1>3 DEF DriftExpect, Checks, bounds
  <2> QED
    BY <2>1 DEF DriftInv
<1>4. CASE DriftList
  <2>1. /\ drift.pc = "list" /\ drift'.pc = "upsert" /\ drift'.since = drift.since
        /\ drift'.rows = drift.rows /\ drift'.sample = target /\ base' = base
        /\ target' = target /\ damage' = damage
    BY <1>1, <1>4 DEF DriftList, Checks, bounds
  <2> QED
    BY <2>1 DEF DriftInv
<1>5. CASE DriftUpsert
  BY <1>5 DEF DriftUpsert, DriftInv, IdleCheck
<1>6. CASE drift' = drift /\ ~DriftUpsert
  <2> SUFFICES ASSUME drift.pc # "idle" PROVE DriftInv'
    BY <1>6 DEF DriftInv
  <2>1. drift.since <= damage /\ drift.since \in Nat
    BY <1>1 DEF DriftInv, Checks
  <2>2. CASE damage' = damage
    <3>1. base'.rows = base.rows /\ target' = target
      BY <1>6, <2>2, DamageStays, DriftAlone
    <3> QED
      BY <1>6, <2>2, <3>1 DEF DriftInv
  <2>3. CASE damage' # damage
    <3>1. drift.since <= damage' /\ drift.since # damage'
      BY <1>1, <2>1, <2>3
    <3> QED
      BY <1>6, <3>1 DEF DriftInv
  <2> QED
    BY <2>2, <2>3
<1> QED
  BY <1>2, <1>3, <1>4, <1>5, <1>6, DriftMoves

(* Unless somebody writes meanwhile, what a Drift Check leaves in its      *)
(* window is what the Base Dataset has, missing documents included         *)
(* (drift_one_pipeline).                                                   *)
THEOREM DriftRestoresHolds ==
  ASSUME RepairAssumption, ~Interleaved PROVE Spec => DriftRestores
<1> DEFINE Restores ==
      (drift.pc = "upsert" /\ drift'.pc = "idle" /\ drift.since = damage) =>
        \A k \in Window(base.rows, drift.max) : target'[k] = base.rows[k]
           Inv == TypeInv /\ CheckInv /\ DriftInv
<1>1. Init => Inv
  <2>1. Init => CheckInv /\ DriftInv
    BY DEF Init, IdleCheck, CheckInv, NoCheckRuns, DriftInv
  <2> QED
    BY <2>1, InitTypes
<1>2. Inv /\ [Next]_vars => Inv'
  BY TypesStep, CheckStepInv, DriftStep
<1>3. Inv /\ [Next]_vars => [Restores]_vars
  <2> SUFFICES ASSUME Inv, [Next]_vars, drift.pc = "upsert", drift'.pc = "idle",
                      drift.since = damage, NEW k \in Window(base.rows, drift.max)
               PROVE  target'[k] = base.rows[k]
    OBVIOUS
  <2>1. DriftUpsert
    BY DriftMoves DEF DriftStart, DriftExpect, DriftList, CheckStarts, NoCheckRuns
  <2>2. drift.rows = base.rows /\ drift.sample = target
    BY DEF DriftInv
  <2>3. k \in Keys
    BY DEF Window, Present
  <2>4. target'[k] = IF base.rows[k] # target[k] THEN base.rows[k] ELSE target[k]
    BY <2>1, <2>2, <2>3 DEF DriftUpsert, Mismatched
  <2> QED
    BY <2>4
<1> QED
  BY <1>1, <1>2, <1>3, PTL DEF Spec, DriftRestores

-----------------------------------------------------------------------------
(* Documents follow their rows because the cycle that records a change has *)
(* Delivered it, or somebody has written the document since; and because a *)
(* Drift Check repairs from rows that are still the rows.                  *)
FollowInv ==
  losses = 0 =>
    /\ DocumentsFollow
    /\ \A c \in Cycles : cycle[c].pc = "record" =>
         \/ target[Change(c).key] = Change(c).image
         \/ Change(c).key \in edited
    /\ drift.pc \in {"list", "upsert"} => \A k \in Keys \ edited : drift.rows[k] = base.rows[k]

(* Row k and its document are together, or its next change is under way.   *)
Follows(k) ==
  \/ target[k] = base.rows[k]
  \/ \E i \in (1 .. Len(log)) \ applied : log[i].key = k /\ target[k] = log[i].image

LEMMA FollowsStays ==
  ASSUME TypeInv, [Next]_vars, NEW k \in Keys, Follows(k), applied' = applied,
         target'[k] = target[k], base'.rows[k] = base.rows[k]
  PROVE  Follows(k)'
<1>1. CASE target[k] = base.rows[k]
  BY <1>1 DEF Follows
<1>2. CASE target[k] # base.rows[k]
  <2>1. PICK i \in (1 .. Len(log)) \ applied : log[i].key = k /\ target[k] = log[i].image
    BY <1>2 DEF Follows
  <2>2. i \in (1 .. Len(log')) \ applied' /\ log'[i] = log[i]
    BY LogGrows
  <2> QED
    BY <2>1, <2>2 DEF Follows
<1> QED
  BY <1>1, <1>2

(* A step of the Source, of damage, or of a check.                         *)
LEMMA FollowQuiet ==
  ASSUME RepairAssumption, TypeInv, CheckInv, FollowInv, [Next]_vars, losses = 0, Quiet
  PROVE  FollowInv'
<1>1. applied' = applied /\ cycle' = cycle
  BY DEF Quiet
<1>2. DocumentsFollow <=> \A k \in Keys \ edited : Follows(k)
  BY DEF DocumentsFollow, Follows
<1>3. /\ drift \in Checks({"idle", "expect", "list", "upsert"})
      /\ target \in Tables /\ base.rows \in Tables
      /\ base \in [rows : Tables, checkpoint : Nat, alignment : {"unknown", "partial", "aligned"}]
  BY DEF TypeInv, TypeOK
<1>4. SUFFICES /\ \A k \in Keys \ edited' : Follows(k)'
               /\ \A c \in Cycles : cycle[c].pc = "record" =>
                    \/ target'[Change(c).key] = Change(c).image
                    \/ Change(c).key \in edited'
               /\ drift'.pc \in {"list", "upsert"} =>
                    \A k \in Keys \ edited' : drift'.rows[k] = base'.rows[k]
  <2>1. ASSUME NEW c \in Cycles, cycle[c].pc = "record" PROVE Change(c)' = Change(c)
    <3>1. cycle[c].item \in 1 .. Len(log)
      BY <2>1 DEF TypeInv, AtChange
    <3> QED
      BY <1>1, <3>1, LogGrows DEF Change
  <2> QED
    BY <1>1, <2>1 DEF FollowInv, DocumentsFollow, Follows
<1>5. ASSUME edited \subseteq edited',
             \A k \in Keys \ edited' : target'[k] = target[k] /\ base'.rows[k] = base.rows[k],
             \A c \in Cycles : cycle[c].pc = "record" =>
               target'[Change(c).key] = target[Change(c).key] \/ Change(c).key \in edited'
      PROVE  /\ \A k \in Keys \ edited' : Follows(k)'
             /\ \A c \in Cycles : cycle[c].pc = "record" =>
                  \/ target'[Change(c).key] = Change(c).image
                  \/ Change(c).key \in edited'
             /\ (drift' = drift /\ drift'.pc \in {"list", "upsert"}) =>
                  \A k \in Keys \ edited' : drift'.rows[k] = base'.rows[k]
  BY <1>1, <1>2, <1>5, FollowsStays DEF FollowInv
<1>6. ASSUME NEW c \in Cycles, cycle[c].pc = "record" PROVE Change(c).key \in Keys
  <2>1. cycle[c].item \in 1 .. Len(log)
    BY <1>6 DEF TypeInv, AtChange
  <2>2. log[cycle[c].item] \in Entry
    BY <2>1, EntryType DEF TypeInv
  <2> QED
    BY <2>2 DEF Change, Entry
<1>7. CASE DamageRow
  <2>1. PICK k \in Keys, image \in {Damaged, Absent} :
          base' = [base EXCEPT !.rows[k] = image] /\ edited' = edited \cup {k}
    BY <1>7 DEF DamageRow
  <2>2. base'.rows = [base.rows EXCEPT ![k] = image]
    BY <1>3, <2>1
  <2>3. \A j \in Keys \ edited' : base'.rows[j] = base.rows[j]
    BY <1>3, <2>1, <2>2 DEF Tables
  <2>4. target' = target /\ drift' = drift
    BY <1>7 DEF DamageRow
  <2> QED
    BY <1>5, <2>1, <2>3, <2>4
<1>8. CASE DamageDocument
  <2>1. PICK k \in Keys, image \in {Damaged, Absent} :
          target' = [target EXCEPT ![k] = image] /\ edited' = edited \cup {k}
    BY <1>8 DEF DamageDocument
  <2>2. \A j \in Keys \ edited' : target'[j] = target[j]
    BY <1>3, <2>1 DEF Tables
  <2>3. base' = base /\ drift' = drift
    BY <1>8 DEF DamageDocument
  <2> QED
    BY <1>5, <1>6, <2>1, <2>2, <2>3
<1>9. CASE AlignWrite
  <2>1. /\ target' = target /\ drift' = drift /\ edited \subseteq edited'
        /\ \A k \in Keys \ edited' : base'.rows[k] = base.rows[k]
    BY <1>9 DEF AlignWrite
  <2> QED
    BY <1>5, <2>1
<1>10. CASE DriftUpsert
  <2>1. /\ drift.pc = "upsert" /\ drift'.pc = "idle" /\ base' = base
        /\ edited' = {k \in edited : target'[k] # base.rows[k]}
        /\ \A k \in Keys : target'[k] \in {drift.rows[k], target[k]}
    BY <1>10 DEF DriftUpsert, IdleCheck
  <2>2. \A c \in Cycles : cycle[c].pc # "record"
    BY <2>1 DEF CheckInv, NoCheckRuns, Running
  <2>3. ASSUME NEW k \in Keys \ edited' PROVE Follows(k)'
    <3>1. CASE target'[k] = base.rows[k]
      BY <2>1, <3>1 DEF Follows
    <3>2. CASE target'[k] # base.rows[k]
      <4>1. k \notin edited
        BY <2>1, <3>2
      <4>2. drift.rows[k] = base.rows[k] /\ Follows(k)
        BY <1>2, <2>1, <4>1 DEF FollowInv
      <4> QED
        BY <1>1, <2>1, <3>2, <4>2, FollowsStays
    <3> QED
      BY <3>1, <3>2
  <2> QED
    BY <2>1, <2>2, <2>3
<1>11. CASE SourceChange \/ AlignList \/ AlignSample \/ AlignRead \/ UNCHANGED vars
  <2>1. target' = target /\ base' = base /\ edited' = edited /\ drift' = drift
    BY <1>11 DEF SourceChange, AlignList, AlignSample, AlignRead, vars
  <2> QED
    BY <1>5, <2>1
<1>12. CASE DriftStart \/ DriftExpect \/ DriftList
  <2>1. target' = target /\ base' = base /\ edited' = edited
    BY <1>12 DEF DriftStart, DriftExpect, DriftList
  <2>2. \/ drift'.pc \notin {"list", "upsert"} \/ drift'.rows = base.rows
        \/ drift.pc = "list" /\ drift'.rows = drift.rows
    BY <1>3, <1>12 DEF DriftStart, DriftExpect, DriftList, IdleCheck, Checks
  <2> QED
    BY <1>5, <2>1, <2>2 DEF FollowInv
<1> QED
  BY <1>7, <1>8, <1>9, <1>10, <1>11, <1>12 DEF Quiet, OtherStep, CheckStep

(* A step of a cycle that has the lock.                                    *)
LEMMA FollowCycle ==
  ASSUME RepairAssumption, TypeInv, LockInv, PrefixInv, CheckInv, FollowInv, [Next]_vars, losses = 0,
         NEW c \in Cycles, CycleStep(c) \/ CycleCrash(c)
  PROVE  FollowInv'
<1>1. cycle \in [Cycles -> CycleStates] /\ target \in Tables /\ base.rows \in Tables
  BY ReadTypes
<1>2. log' = log /\ drift' = drift /\ \A d \in Cycles : d # c => cycle'[d] = cycle[d]
  BY <1>1 DEF CycleStep, CycleStart, CycleFetch, CycleDeliver, CycleRecord, CycleEnd, CycleCrash,
     Advance
<1>3. DocumentsFollow <=> \A k \in Keys \ edited : Follows(k)
  BY DEF DocumentsFollow, Follows
<1>4. ASSUME Running(c)
      PROVE  drift.pc = "idle" /\ \A d \in Cycles : d # c => cycle[d].pc # "record"
  BY <1>4 DEF CheckInv, NoCheckRuns, LockInv, Running
<1>5. CASE \/ CycleStart(c) \/ CycleFetch(c) \/ CycleEnd(c) \/ CycleCrash(c)
  <2>1. /\ applied' = applied /\ target' = target /\ edited' = edited
        /\ cycle'[c].pc # "record" /\ base'.rows = base.rows
    <3>1. base \in [rows : Tables, checkpoint : Nat, alignment : {"unknown", "partial", "aligned"}]
      BY DEF TypeInv, TypeOK
    <3> QED
      BY <1>1, <1>5, <3>1 DEF CycleStart, CycleFetch, CycleEnd, CycleCrash, Advance
  <2>2. \A k \in Keys \ edited' : Follows(k)'
    BY <1>3, <2>1, FollowsStays DEF FollowInv
  <2>3. \A d \in Cycles : cycle'[d].pc = "record" =>
          \/ target'[Change(d)'.key] = Change(d)'.image \/ Change(d)'.key \in edited'
    <3>1. \A d \in Cycles : cycle'[d].pc = "record" => cycle[d].pc = "record" /\ Change(d)' = Change(d)
      BY <1>2, <2>1 DEF Change
    <3> QED
      BY <2>1, <3>1 DEF FollowInv
  <2> QED
    BY <1>2, <2>1, <2>2, <2>3 DEF FollowInv, DocumentsFollow, Follows
<1>6. CASE CycleDeliver(c)
  <2>1. Running(c) /\ AtChange(c)
    BY <1>6 DEF CycleDeliver, Running, AtChange
  <2>2. /\ applied' = applied /\ base' = base /\ edited' = edited
        /\ target' = [target EXCEPT ![Change(c).key] = Change(c).image]
        /\ cycle'[c].item = cycle[c].item
    BY <1>1, <1>6 DEF CycleDeliver, Advance
  <2>3. cycle[c].item \in 1 .. Len(log) /\ cycle[c].item \notin applied
    <3>1. PICK n \in 0 .. Len(log) : applied = 1 .. n /\ cycle[c].item = n + 1
      BY <2>1 DEF PrefixInv
    <3> QED
      BY <2>1, <3>1 DEF TypeInv
  <2>4. log[cycle[c].item].key \in Keys
    <3>1. log[cycle[c].item] \in Entry
      BY <2>3, EntryType DEF TypeInv
    <3> QED
      BY <3>1 DEF Entry
  <2>5. Change(c)' = Change(c) /\ Change(c) = log[cycle[c].item]
    BY <1>2, <2>2 DEF Change
  <2>6. target'[Change(c).key] = Change(c).image
    BY <1>1, <2>2, <2>4, <2>5 DEF Tables
  <2>7. ASSUME NEW k \in Keys \ edited' PROVE Follows(k)'
    <3>1. CASE k = Change(c).key
      BY <1>2, <2>2, <2>3, <2>5, <2>6, <3>1 DEF Follows
    <3>2. CASE k # Change(c).key
      <4>1. target'[k] = target[k]
        BY <1>1, <2>2, <3>2 DEF Tables
      <4>2. Follows(k)
        BY <1>3, <2>2 DEF FollowInv
      <4> QED
        BY <2>2, <4>1, <4>2, FollowsStays
    <3> QED
      BY <3>1, <3>2
  <2>8. \A d \in Cycles : cycle'[d].pc = "record" => d = c
    BY <1>2, <1>4, <2>1
  <2> QED
    BY <1>2, <1>4, <2>1, <2>5, <2>6, <2>7, <2>8 DEF FollowInv, DocumentsFollow, Follows
<1>7. CASE CycleRecord(c)
  <2>1. Running(c) /\ cycle[c].pc = "record"
    BY <1>7 DEF CycleRecord, Running
  <2>2. /\ applied' = applied \cup {cycle[c].item} /\ target' = target
        /\ edited' = {k \in edited : k # Change(c).key \/ target[k] # Change(c).image}
        /\ cycle'[c].pc = "fetch"
    BY <1>1, <1>7 DEF CycleRecord, Advance
  <2>3. /\ Change(c) = log[cycle[c].item] /\ Change(c).key \in Keys
        /\ base'.rows[Change(c).key] = Change(c).image
        /\ \A k \in Keys : k # Change(c).key => base'.rows[k] = base.rows[k]
    BY <1>7, RecordRows
  <2>4. ASSUME NEW k \in Keys \ edited' PROVE Follows(k)'
    <3>1. CASE k = Change(c).key
      <4>1. target[k] = Change(c).image
        BY <2>1, <2>2, <3>1 DEF FollowInv
      <4> QED
        BY <2>2, <2>3, <3>1, <4>1 DEF Follows
    <3>2. CASE k # Change(c).key
      <4>1. Follows(k)
        BY <1>3, <2>2, <3>2 DEF FollowInv
      <4>2. CASE target[k] = base.rows[k]
        BY <2>2, <2>3, <3>2, <4>2 DEF Follows
      <4>3. CASE target[k] # base.rows[k]
        <5>1. PICK i \in (1 .. Len(log)) \ applied : log[i].key = k /\ target[k] = log[i].image
          BY <4>1, <4>3 DEF Follows
        <5>2. i # cycle[c].item
          BY <2>3, <3>2, <5>1
        <5> QED
          BY <1>2, <2>2, <5>1, <5>2 DEF Follows
      <4> QED
        BY <4>2, <4>3
    <3> QED
      BY <3>1, <3>2
  <2>5. \A d \in Cycles : cycle'[d].pc # "record"
    BY <1>2, <1>4, <2>1, <2>2
  <2> QED
    BY <1>2, <1>4, <2>1, <2>4, <2>5 DEF FollowInv, DocumentsFollow, Follows
<1> QED
  BY <1>5, <1>6, <1>7 DEF CycleStep

(* With checks and cycles apart and the lock kept, a document that nobody  *)
(* else wrote differs from its Base row only while the change that made it *)
(* so is yet to be recorded (run_incremental_sync_cycle Delivers before it *)
(* records).                                                               *)
THEOREM DocumentsFollowHolds ==
  ASSUME RepairAssumption, ~Interleaved PROVE Spec => []DocumentsFollow
<1> DEFINE Inv == TypeInv /\ LockInv /\ PrefixInv /\ CheckInv /\ FollowInv
<1>1. Init => Inv
  <2>1. Init => CheckInv
    BY DEF Init, IdleCheck, CheckInv, NoCheckRuns
  <2>2. Init => FollowInv
    BY DEF Init, IdleCheck, IdleCycle, FollowInv, DocumentsFollow
  <2> QED
    BY <2>1, <2>2, InitTypes, LockInit
<1>2. Inv /\ [Next]_vars => Inv'
  <2> SUFFICES ASSUME Inv, [Next]_vars, losses' = 0 PROVE FollowInv'
    BY TypesStep, LockStep, PrefixStep, CheckStepInv DEF FollowInv
  <2>1. losses = 0 /\ \A c \in Cycles : ~LoseLock(c)
    BY LossesStay
  <2>2. CASE Quiet
    BY <2>1, <2>2, FollowQuiet
  <2>3. ASSUME NEW c \in Cycles, CycleStep(c) \/ CycleCrash(c) PROVE FollowInv'
    BY <2>1, <2>3, FollowCycle
  <2> QED
    BY <2>1, <2>2, <2>3, OnlyCycles
<1>3. Inv => DocumentsFollow
  BY DEF FollowInv, DocumentsFollow
<1> QED
  BY <1>1, <1>2, <1>3, PTL DEF Spec

=============================================================================
