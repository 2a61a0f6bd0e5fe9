---------------------------- MODULE VerifyRepair ----------------------------
(***************************************************************************)
(* Source Alignment Check and Drift Check of one Base Dataset and the      *)
(* Target of one Direct Pipeline, against the cycles of Incremental Sync.  *)
(* A cycle holds an advisory lock of the Platform Store; the two checks    *)
(* hold none. Each of them reads one thing after the other, decides in     *)
(* memory, and writes back: Alignment all Base rows with the Sync fields   *)
(* it listed, Drift Check the documents that differ. A row is the number   *)
(* of the change that made it (0 from Initial Load) or Absent.             *)
(***************************************************************************)
EXTENDS Naturals, Sequences, FiniteSets, FiniteSetsExt

CONSTANTS
  NumKeys,       \* Source Primary Key values, in their order
  Absent,        \* no row, no document
  Damaged,       \* a row or a document that somebody else wrote
  Cycles,        \* processes that run cycles (continuous run, one-shot sync)
  Budgets,       \* values of --max-rows
  Interleaved,   \* may a check run while a cycle runs
  MaxChanges,    \* bound: changes of the Source
  MaxChecks,     \* bound: checks started
  MaxDamage,     \* bound: rows and documents damaged
  MaxFaults      \* bound: cycles that crash or lose their lock

Keys == 1 .. NumKeys
Nobody == "nobody"

ASSUME RepairAssumption ==
  /\ NumKeys \in Nat /\ Budgets \subseteq Nat \ {0}
  /\ Absent \notin Nat /\ Damaged \notin Nat /\ Absent # Damaged
  /\ Nobody \notin Cycles /\ Interleaved \in BOOLEAN
  /\ {MaxChanges, MaxChecks, MaxDamage, MaxFaults} \subseteq Nat

VARIABLES
  log,       \* changes of the Source table: key and image
  base,      \* rows, checkpoint, and what source_alignment says
  applied,   \* change ids recorded
  target,    \* the Target's documents
  lock,      \* the session that holds the advisory lock
  cycle,     \* of every cycle: what it does next, its resume position, its change
  align,     \* the memory of a Source Alignment Check
  drift,     \* the memory of a Drift Check
  edited,    \* documents made to differ by others than Delivery
  checks, damage, crashes, losses

bounds == <<checks, damage, crashes, losses>>
vars   == <<log, base, applied, target, lock, cycle, align, drift, edited, bounds>>

Images    == Nat \cup {Absent, Damaged}
Tables    == [Keys -> Images]
NoRows    == [k \in Keys |-> Absent]
AllRows   == [k \in Keys |-> 0]
IdleCycle == [pc |-> "idle", from |-> 0, item |-> 0]
IdleCheck == [pc |-> "idle", max |-> 0, checkpoint |-> 0, since |-> 0,
              sample |-> NoRows, rows |-> NoRows]
Running(c) == cycle[c].pc # "idle"

Checks(states) ==
  [pc : states, max : Nat, checkpoint : Nat, since : Nat, sample : Tables, rows : Tables]

TypeOK ==
  /\ log \in Seq([key : Keys, image : Nat \cup {Absent}])
  /\ base \in [rows : Tables, checkpoint : Nat, alignment : {"unknown", "partial", "aligned"}]
  /\ applied \subseteq 1 .. Len(log)
  /\ target \in Tables
  /\ lock \in Cycles \cup {Nobody}
  /\ cycle \in [Cycles -> [pc : {"idle", "fetch", "deliver", "record"}, from : Nat, item : Nat]]
  /\ align \in Checks({"idle", "sample", "read", "write"})
  /\ drift \in Checks({"idle", "expect", "list", "upsert"})
  /\ edited \subseteq Keys
  /\ checks \in 0 .. MaxChecks /\ damage \in 0 .. MaxDamage
  /\ crashes + losses \in 0 .. MaxFaults

(* The table after the first n changes.                                    *)
TableAfter(n) ==
  [k \in Keys |->
     LET touching == {i \in 1 .. n : log[i].key = k}
     IN  IF touching = {} THEN 0 ELSE log[Max(touching)].image]

Source == TableAfter(Len(log))

Init ==
  /\ log = << >>
  /\ base = [rows |-> AllRows, checkpoint |-> 0, alignment |-> "unknown"]
  /\ applied = {} /\ target = AllRows
  /\ lock = Nobody /\ cycle = [c \in Cycles |-> IdleCycle]
  /\ align = IdleCheck /\ drift = IdleCheck
  /\ edited = {} /\ checks = 0 /\ damage = 0 /\ crashes = 0 /\ losses = 0

SourceChange ==
  /\ Len(log) < MaxChanges
  /\ \E k \in Keys, image \in {Len(log) + 1, Absent} :
       /\ image = Absent => Source[k] # Absent
       /\ log' = Append(log, [key |-> k, image |-> image])
  /\ UNCHANGED <<base, applied, target, lock, cycle, align, drift, edited, bounds>>

(* A row of the Base Dataset is spoilt or lost without a change: what an   *)
(* Alignment Check is for.                                                 *)
DamageRow ==
  /\ damage < MaxDamage /\ damage' = damage + 1
  /\ \E k \in Keys, image \in {Damaged, Absent} :
       base' = [base EXCEPT !.rows[k] = image] /\ edited' = edited \cup {k}
  /\ UNCHANGED <<log, applied, target, lock, cycle, align, drift, checks, crashes, losses>>

(* Somebody edits or deletes a document in the Target.                     *)
DamageDocument ==
  /\ damage < MaxDamage /\ damage' = damage + 1
  /\ \E k \in Keys, image \in {Damaged, Absent} :
       target' = [target EXCEPT ![k] = image] /\ edited' = edited \cup {k}
  /\ UNCHANGED <<log, base, applied, lock, cycle, align, drift, checks, crashes, losses>>

-----------------------------------------------------------------------------
(* Cycles. The image of a change is the whole row.                         *)

NoCheckRuns == align.pc = "idle" /\ drift.pc = "idle"
Advance(c, pc, from, item) ==
  cycle' = [cycle EXCEPT ![c] = [pc |-> pc, from |-> from, item |-> item]]

FaultyMayEnter == TRUE

(* pg_advisory_lock blocks until no session holds the lock.                *)
MayEnter == lock = Nobody

CycleStart(c) ==
  /\ ~Running(c) /\ MayEnter
  /\ Interleaved \/ NoCheckRuns
  /\ lock' = c
  /\ Advance(c, "fetch", base.checkpoint, 0)
  /\ UNCHANGED <<log, base, applied, target, align, drift, edited, bounds>>

FaultyPending(c) == {i \in 1 .. Len(log) : i >= cycle[c].from}

(* The inclusive resume, without the change ids already recorded.          *)
Pending(c) == {i \in 1 .. Len(log) : i >= cycle[c].from} \ applied

CycleFetch(c) ==
  /\ cycle[c].pc = "fetch" /\ Pending(c) # {}
  /\ Advance(c, "deliver", cycle[c].from, Min(Pending(c)))
  /\ UNCHANGED <<log, base, applied, target, lock, align, drift, edited, bounds>>

Change(c) == log[cycle[c].item]

CycleDeliver(c) ==
  /\ cycle[c].pc = "deliver"
  /\ target' = [target EXCEPT ![Change(c).key] = Change(c).image]
  /\ Advance(c, "record", cycle[c].from, cycle[c].item)
  /\ UNCHANGED <<log, base, applied, lock, align, drift, edited, bounds>>

(* Row, checkpoint and change id in one transaction.                       *)
CycleRecord(c) ==
  /\ cycle[c].pc = "record"
  /\ base' = [base EXCEPT !.rows[Change(c).key] = Change(c).image,
                          !.checkpoint = cycle[c].item]
  /\ applied' = applied \cup {cycle[c].item}
  /\ edited' = {k \in edited : k # Change(c).key \/ target[k] # Change(c).image}
  /\ Advance(c, "fetch", cycle[c].item, 0)
  /\ UNCHANGED <<log, target, lock, align, drift, bounds>>

Released(c) == IF lock = c THEN Nobody ELSE lock

(* Caught up: the Sync fields are stored without touching rows.            *)
CycleEnd(c) ==
  /\ cycle[c].pc = "fetch" /\ Pending(c) = {}
  /\ base' = [base EXCEPT !.checkpoint = cycle[c].from]
  /\ Advance(c, "idle", 0, 0) /\ lock' = Released(c)
  /\ UNCHANGED <<log, applied, target, align, drift, edited, bounds>>

(* The session ends with the process, and the lock with the session.       *)
CycleCrash(c) ==
  /\ Running(c) /\ crashes + losses < MaxFaults /\ crashes' = crashes + 1
  /\ Advance(c, "idle", 0, 0) /\ lock' = Released(c)
  /\ UNCHANGED <<log, base, applied, target, align, drift, edited, checks, damage, losses>>

(* The store loses the session, and the cycle does not notice: its other   *)
(* statements use other connections of the pool.                           *)
LoseLock(c) ==
  /\ lock = c /\ crashes + losses < MaxFaults /\ losses' = losses + 1
  /\ lock' = Nobody
  /\ UNCHANGED <<log, base, applied, target, cycle, align, drift, edited, checks, damage, crashes>>

-----------------------------------------------------------------------------
(* Source Alignment Check.                                                 *)

CheckStarts ==
  /\ NoCheckRuns /\ checks < MaxChecks /\ checks' = checks + 1
  /\ Interleaved \/ \A c \in Cycles : ~Running(c)

Present(table) == {k \in Keys : table[k] # Absent}

(* The first max rows by key.                                              *)
Window(table, max) ==
  {k \in Present(table) : Cardinality({j \in Present(table) : j < k}) < max}

Truncated(table, max) == Cardinality(Present(table)) > max

(* list_base_datasets: the Sync fields to be written back are of now.      *)
AlignList ==
  /\ CheckStarts
  /\ \E max \in Budgets :
       align' = [IdleCheck EXCEPT !.pc = "sample", !.max = max,
                                  !.checkpoint = base.checkpoint, !.since = Len(log)]
  /\ UNCHANGED <<log, base, applied, target, lock, cycle, drift, edited, damage, crashes, losses>>

AlignSample ==
  /\ align.pc = "sample"
  /\ align' = [align EXCEPT !.pc = "read", !.sample = Source]
  /\ UNCHANGED <<log, base, applied, target, lock, cycle, drift, edited, bounds>>

AlignRead ==
  /\ align.pc = "read"
  /\ align' = [align EXCEPT !.pc = "write", !.rows = base.rows]
  /\ UNCHANGED <<log, base, applied, target, lock, cycle, drift, edited, bounds>>

FaultyRepaired(sample, rows, max) ==
  [k \in Keys |-> IF k \in Window(sample, max) THEN sample[k] ELSE rows[k]]

(* The sampled rows win; rows outside the sample are kept when it was      *)
(* truncated, and dropped when it was the whole table.                     *)
Repaired(sample, rows, max) ==
  [k \in Keys |-> IF k \in Window(sample, max) THEN sample[k]
                  ELSE IF Truncated(sample, max) THEN rows[k] ELSE Absent]

FaultyStored(checkpoint) == Len(log)

FaultyPersistedStatus(truncated, sample, rows) ==
  IF sample # rows THEN "misaligned" ELSE IF truncated THEN "partial" ELSE "aligned"

(* A repaired mismatch is reported, and not stored.                        *)
PersistedStatus(truncated, sample, rows) == IF truncated THEN "partial" ELSE "aligned"

(* The checkpoint goes back as it was listed.                              *)
Stored(checkpoint) == checkpoint

(* One transaction replaces all rows. Nothing is Delivered.                *)
AlignWrite ==
  LET repaired == Repaired(align.sample, align.rows, align.max)
  IN  /\ align.pc = "write"
      /\ base' = [rows       |-> repaired,
                  checkpoint |-> Stored(align.checkpoint),
                  alignment  |-> PersistedStatus(Truncated(align.sample, align.max),
                                                 align.sample, align.rows)]
      /\ edited' = edited \cup {k \in Keys : repaired[k] # base.rows[k]}
      /\ align' = IdleCheck
      /\ UNCHANGED <<log, applied, target, lock, cycle, drift, bounds>>

-----------------------------------------------------------------------------
(* Drift Check. A paused Pipeline is checked like any other.               *)

(* Refused while the alignment of the Base Dataset is unknown.             *)
DriftStart ==
  /\ CheckStarts /\ base.alignment # "unknown"
  /\ \E max \in Budgets : drift' = [IdleCheck EXCEPT !.pc = "expect", !.max = max, !.since = damage]
  /\ UNCHANGED <<log, base, applied, target, lock, cycle, align, edited, damage, crashes, losses>>

DriftExpect ==
  /\ drift.pc = "expect"
  /\ drift' = [drift EXCEPT !.pc = "list", !.rows = base.rows]
  /\ UNCHANGED <<log, base, applied, target, lock, cycle, align, edited, bounds>>

DriftList ==
  /\ drift.pc = "list"
  /\ drift' = [drift EXCEPT !.pc = "upsert", !.sample = target]
  /\ UNCHANGED <<log, base, applied, target, lock, cycle, align, edited, bounds>>

FaultyMismatched(expected, documents, max) ==
  {k \in Window(expected, max) : documents[k] \notin {expected[k], Absent}}

(* Expected identities whose document is missing or differs; documents     *)
(* that nothing expects are not looked at.                                 *)
Mismatched(expected, documents, max) ==
  {k \in Window(expected, max) : expected[k] # documents[k]}

(* The outcome recorded afterwards changes nothing else.                   *)
DriftUpsert ==
  LET repairs == Mismatched(drift.rows, drift.sample, drift.max)
  IN  /\ drift.pc = "upsert"
      /\ target' = [k \in Keys |-> IF k \in repairs THEN drift.rows[k] ELSE target[k]]
      /\ edited' = {k \in edited : target'[k] # base.rows[k]}
      /\ drift' = IdleCheck
      /\ UNCHANGED <<log, base, applied, lock, cycle, align, bounds>>

-----------------------------------------------------------------------------

CycleStep(c) ==
  CycleStart(c) \/ CycleFetch(c) \/ CycleDeliver(c) \/ CycleRecord(c) \/ CycleEnd(c)

CheckStep == AlignSample \/ AlignRead \/ AlignWrite \/ DriftExpect \/ DriftList \/ DriftUpsert

Next ==
  \/ SourceChange \/ DamageRow \/ DamageDocument
  \/ \E c \in Cycles : CycleStep(c) \/ CycleCrash(c) \/ LoseLock(c)
  \/ AlignList \/ DriftStart \/ CheckStep

Spec == Init /\ [][Next]_vars

(* Cycles follow one another and a check that was started goes on; nobody  *)
(* has to start one.                                                       *)
FairSpec == Spec /\ WF_vars(\E c \in Cycles : CycleStep(c)) /\ WF_vars(CheckStep)

-----------------------------------------------------------------------------

(* Row k is that of the Source after some moment from n changes on.        *)
AtOrAfter(rows, k, n) == \E m \in n .. Len(log) : rows[k] = TableAfter(m)[k]

(* The last recorded change of row k, or 0.                                *)
LastRecorded(k) ==
  LET recorded == {i \in applied : log[i].key = k}
  IN  IF recorded = {} THEN 0 ELSE Max(recorded)

(* As long as the lock is not lost, no Base row is older than a change of  *)
(* it that has been recorded, since no cycle will apply that change again  *)
(* (record_sync_row_progress, the change-id dedupe;                        *)
(* record_source_alignment_progress rewrites all rows).                    *)
BaseKeepsRecorded ==
  (damage = 0 /\ losses = 0) => \A k \in Keys : AtOrAfter(base.rows, k, LastRecorded(k))

(* What an Alignment leaves in a window it has read is no older than the   *)
(* moment it started, whatever the row was before; a complete one leaves   *)
(* no row that the Source does not have (align_one_base).                  *)
AlignmentRestores ==
  [][(align.pc = "write" /\ align'.pc = "idle") =>
       \A k \in Keys :
         (k \in Window(align.sample, align.max) \/ base'.alignment = "aligned") =>
           AtOrAfter(base'.rows, k, align.since)]_vars

(* Under the same lock a document differs from its Base row only while the *)
(* change that will bring the two together is being recorded or retried,   *)
(* or if somebody other than Delivery wrote one of the two (Delivery       *)
(* before the durable checkpoint, the change-id dedupe).                   *)
DocumentsFollow ==
  losses = 0 => \A k \in Keys \ edited :
    \/ target[k] = base.rows[k]
    \/ \E i \in (1 .. Len(log)) \ applied : log[i].key = k /\ target[k] = log[i].image

(* Unless somebody writes to the Target meanwhile, a Drift Check leaves    *)
(* the documents of its window as the Base Dataset has them, missing ones  *)
(* and those of an earlier Alignment included (collect_mismatched_repairs). *)
DriftRestores ==
  [][(drift.pc = "upsert" /\ drift'.pc = "idle" /\ drift.since = damage) =>
       \A k \in Window(base.rows, drift.max) : target'[k] = base.rows[k]]_vars

(* Every change of the Source is recorded, although cycles crash and an    *)
(* Alignment writes back an older checkpoint (the inclusive resume, the    *)
(* lock that ends with its session).                                       *)
EveryChangeRecorded ==
  \A i \in 1 .. MaxChanges : (i <= Len(log)) ~> (i \in applied)

=============================================================================
