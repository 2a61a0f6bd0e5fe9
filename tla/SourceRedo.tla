----------------------------- MODULE SourceRedo -----------------------------
(***************************************************************************)
(* One Source table as Incremental Capture sees it: a redo log of row      *)
(* changes and injected Schema Changes, in capture order, of which only    *)
(* the committed part can be fetched (LogMiner runs COMMITTED_DATA_ONLY).  *)
(* The query orders by SCN, commit timestamp, RS_ID and SSN; the timestamp *)
(* is left out, so that changes of one SCN come in the order they are made.*)
(*                                                                         *)
(* A row image is named by the index of the change that wrote it, 0 for    *)
(* the image a row had before the log begins and Absent for no row, so     *)
(* two stores agree on a row exactly when they hold the same name.         *)
(***************************************************************************)
EXTENDS Naturals, Sequences, FiniteSets

CONSTANTS
  Keys,          \* Source Primary Key values
  Absent,        \* the image of a row that does not exist
  NumPipelines,  \* Pipelines of the Deployment, in the order the store lists them
  Kinds,         \* the kinds of row change this Source makes
  LowWatermark,  \* the capture position established before Initial Load
  MaxLog,        \* bound: entries of the log
  MaxOverlap,    \* bound: entries already in the log when Initial Load completes
  MaxDdl,        \* bound: Schema Changes
  OverlappingTransactions  \* may a transaction commit before an earlier writer does

RowKinds == {"upsert", "delete", "unappliable"}

ASSUME SourceAssumption ==
  /\ Absent \notin Nat
  /\ NumPipelines \in Nat
  /\ Kinds \subseteq RowKinds
  /\ LowWatermark \in Nat
  /\ MaxLog \in Nat
  /\ MaxOverlap \in Nat
  /\ MaxDdl \in Nat
  /\ OverlappingTransactions \in BOOLEAN

Pipelines == 1 .. NumPipelines
Images == Nat \cup {Absent}

RowChange    == [scn : Nat, kind : RowKinds, key : Keys]
SchemaChange == [scn : Nat, kind : {"ddl"}, blocks : SUBSET Pipelines]

VARIABLES
  origin,     \* image of every row before the log begins
  log,        \* the redo log, in capture order (SCN, then RS_ID and SSN)
  committed   \* indexes of the log that a fetch returns

sourceVars == <<origin, log, committed>>

IsRow(i) == log[i].kind \in RowKinds
IsDdl(i) == log[i].kind = "ddl"
Scn(i)   == log[i].scn

Touches(i, k) == IsRow(i) /\ log[i].key = k

(* Absent after a DELETE, otherwise the image the change carries. *)
Image(i) == IF log[i].kind = "delete" THEN Absent ELSE i

(* v is the image of row k once the changes S have been applied, in log    *)
(* order, to the images start.                                             *)
LatestImage(S, start, k, v) ==
  \/ /\ \A i \in S : ~Touches(i, k)
     /\ v = start[k]
  \/ \E i \in S : /\ Touches(i, k)
                  /\ v = Image(i)
                  /\ \A j \in S : Touches(j, k) => j <= i

LastScn == IF log = << >> THEN LowWatermark ELSE log[Len(log)].scn

OverlapLogs ==
  LET Entry == [scn : LowWatermark .. LowWatermark + MaxOverlap,
                kind : Kinds \ {"unappliable"}, key : Keys]
  IN  {l \in UNION {[1 .. n -> Entry] : n \in 0 .. MaxOverlap} :
         \A i, j \in DOMAIN l : i < j => l[i].scn <= l[j].scn}

SourceInit ==
  /\ origin \in [Keys -> {0, Absent}]
  /\ log \in OverlapLogs
  /\ \A i \in DOMAIN log : log[i].kind = "delete" =>
       ~LatestImage(1 .. i - 1, origin, log[i].key, Absent)
  /\ committed = DOMAIN log

-----------------------------------------------------------------------------
(* Source transactions. Each writes one row and holds its lock until it    *)
(* commits; statements of one SCN are siblings.                            *)

RowLocked(k) == \E i \in DOMAIN log \ committed : Touches(i, k)
RowExists(k) == ~LatestImage(DOMAIN log, origin, k, Absent)

SourceDml(k, kind) ==
  /\ Len(log) < MaxLog
  /\ ~RowLocked(k)
  /\ kind = "delete" => RowExists(k)
  /\ \E scn \in {LastScn, LastScn + 1} :
       log' = Append(log, [scn |-> scn, kind |-> kind, key |-> k])
  /\ UNCHANGED <<origin, committed>>

(* A transaction becomes visible to LogMiner when it commits, at the SCN   *)
(* its change was made at.                                                 *)
SourceCommit(i) ==
  /\ i \in DOMAIN log \ committed
  /\ OverlappingTransactions \/ \A j \in 1 .. i - 1 : j \in committed
  /\ committed' = committed \cup {i}
  /\ UNCHANGED <<origin, log>>

(* DDL takes the table exclusively and commits at once; blocks is the set  *)
(* of Pipelines whose dependencies classify it as blocking.                *)
SourceDdl(blocks) ==
  /\ Len(log) < MaxLog
  /\ committed = DOMAIN log
  /\ Cardinality({i \in DOMAIN log : IsDdl(i)}) < MaxDdl
  /\ \E scn \in {LastScn, LastScn + 1} :
       log' = Append(log, [scn |-> scn, kind |-> "ddl", blocks |-> blocks])
  /\ committed' = committed \cup {Len(log) + 1}
  /\ UNCHANGED origin

SourceStep ==
  \/ \E k \in Keys, kind \in Kinds : SourceDml(k, kind)
  \/ \E i \in 1 .. MaxLog : SourceCommit(i)
  \/ \E blocks \in SUBSET Pipelines : SourceDdl(blocks)

=============================================================================
