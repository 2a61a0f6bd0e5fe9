----------------------------- MODULE InitialLoad -----------------------------
(***************************************************************************)
(* The chunked, pausable Initial Load of one table by `migraloop apply`,   *)
(* over a Source that keeps changing. A run establishes the low-watermark, *)
(* reads the table page by page in primary key order (OFFSET, FETCH), and  *)
(* appends each page with its metadata in one transaction. It stops at a   *)
(* paused Pipeline, after a number of chunks, or by a crash; the next run  *)
(* goes on at the stored row count with the stored watermark. What it      *)
(* leaves behind is where IncrementalSync begins.                          *)
(***************************************************************************)
EXTENDS SourceRedo

CONSTANTS
  None,             \* no watermark established
  ChunkSize,        \* rows of a page
  PauseAfterChunks, \* chunks after which a run pauses itself
  MaxStops,         \* bound: crashes and Operator pauses
  RowsMoveBehind,   \* may rows appear or disappear among those already read
  OpenAtWatermark   \* may a transaction older than the checkpoint be open

ASSUME LoadAssumption ==
  /\ Keys \subseteq Nat
  /\ None \notin Nat
  /\ ChunkSize \in Nat \ {0}
  /\ PauseAfterChunks \in Nat \ {0}
  /\ MaxStops \in Nat
  /\ RowsMoveBehind \in BOOLEAN
  /\ OpenAtWatermark \in BOOLEAN

VARIABLES
  (* the Platform Store *)
  status,      \* base_datasets.status, "none" while there is no Base Dataset
  baseRows,    \* base_rows
  rowCount,    \* base_datasets.row_count
  watermark,   \* base_datasets.capture_low_watermark
  paused,      \* is a Pipeline that reads the table paused
  (* the memory of the running apply *)
  pc,          \* what the run does next
  offset,      \* rows loaded
  established, \* watermark of this run
  chunk,       \* the page read and not yet stored
  exhausted,   \* was it the last page
  chunks,      \* pages stored by this run
  stops

storeVars == <<status, baseRows, rowCount, watermark>>
runVars   == <<offset, established, chunk, exhausted, chunks>>
vars == <<sourceVars, storeVars, paused, pc, runVars, stops>>

BaseRow == [ordinal : Nat, key : Keys, image : Nat]
PageRow == [place : Nat, key : Keys, image : Nat]

TypeOK ==
  /\ origin \in [Keys -> Images] /\ log \in Seq(RowChange) /\ committed \subseteq DOMAIN log
  /\ status \in {"none", "in_progress", "paused", "complete"}
  /\ baseRows \subseteq BaseRow /\ chunk \subseteq PageRow
  /\ rowCount \in Nat /\ offset \in Nat
  /\ watermark \in Nat \cup {None} /\ established \in Nat \cup {None}
  /\ paused \in BOOLEAN /\ exhausted \in BOOLEAN
  /\ pc \in {"idle", "check", "watermark", "read", "append", "pause"}
  /\ chunks \in 0 .. PauseAfterChunks
  /\ stops \in 0 .. MaxStops

-----------------------------------------------------------------------------
(* The Source table as a query sees it.                                    *)

ImageOf(S, k) == CHOOSE v \in {Absent} \cup 0 .. Len(log) : LatestImage(S, origin, k, v)

Live == {k \in Keys : ~LatestImage(committed, origin, k, Absent)}

Rank(k) == Cardinality({j \in Live : j < k})

FaultyPage(n) ==
  {[place |-> Rank(k) - n, key |-> k, image |-> ImageOf(committed, k)] :
     k \in {j \in Live : Rank(j) + 1 >= n /\ Rank(j) < n + ChunkSize}}

(* ORDER BY the primary key OFFSET n ROWS FETCH NEXT ChunkSize ROWS.       *)
Page(n) ==
  {[place |-> Rank(k) - n, key |-> k, image |-> ImageOf(committed, k)] :
     k \in {j \in Live : Rank(j) >= n /\ Rank(j) < n + ChunkSize}}

FaultyIsLastPage(n) == Cardinality(Live) <= n + ChunkSize + 1

(* One row more than the page is fetched to see whether there is one.      *)
IsLastPage(n) == Cardinality(Live) <= n + ChunkSize

Behind == {r.key : r \in baseRows} \cup {r.key : r \in chunk}

(* Changes that add or remove a row among those already read.              *)
MovesBehind(k) ==
  /\ \E j \in Behind : k <= j
  /\ ~(k \in Live <=> k \in Live')

(* The Source's SCN never falls below one that was read as a watermark.    *)
LowestNextScn ==
  IF established # None THEN established
  ELSE IF watermark # None THEN watermark ELSE 0

-----------------------------------------------------------------------------
FaultyCheckpoint(wm) == wm + 1

(* Cutover: the checkpoint handed to Incremental Capture.                  *)
Checkpoint(wm) == IF wm = 0 THEN 0 ELSE wm - 1

Init ==
  /\ origin \in [Keys -> {0, Absent}] /\ log = << >> /\ committed = {}
  /\ status = "none" /\ baseRows = {} /\ rowCount = 0 /\ watermark = None
  /\ paused = FALSE
  /\ pc = "idle" /\ offset = 0 /\ established = None
  /\ chunk = {} /\ exhausted = FALSE /\ chunks = 0
  /\ stops = 0

EndRun ==
  /\ pc' = "idle" /\ offset' = 0 /\ established' = None
  /\ chunk' = {} /\ exhausted' = FALSE /\ chunks' = 0

FaultyResumeWatermark == None

ResumeWatermark == watermark

FaultyResumeOffset == IF status = "paused" THEN 0 ELSE rowCount

ResumeOffset == rowCount

(* `migraloop apply`: a Base Dataset that is complete is not reloaded.     *)
StartRun ==
  /\ pc = "idle" /\ status # "complete"
  /\ pc' = "check"
  /\ offset' = ResumeOffset
  /\ established' = ResumeWatermark
  /\ UNCHANGED <<sourceVars, storeVars, paused, chunk, exhausted, chunks, stops>>

(* Between chunks the run looks for a durable pause.                       *)
CheckPause ==
  /\ pc = "check"
  /\ pc' = IF paused THEN "pause" ELSE "watermark"
  /\ UNCHANGED <<sourceVars, storeVars, paused, runVars, stops>>

(* CURRENT_SCN before the first page; later pages and runs reuse it.       *)
EstablishWatermark ==
  /\ pc = "watermark"
  /\ IF established # None
       THEN UNCHANGED established
       ELSE \E wm \in {LastScn, LastScn + 1} :
              /\ OpenAtWatermark
                   \/ \A i \in DOMAIN log \ committed : Scn(i) >= Checkpoint(wm)
              /\ established' = wm
  /\ pc' = "read"
  /\ UNCHANGED <<sourceVars, storeVars, paused, offset, chunk, exhausted, chunks, stops>>

FaultyReadOffset == chunks * ChunkSize

ReadOffset == offset

ReadPage ==
  /\ pc = "read"
  /\ chunk' = Page(ReadOffset)
  /\ exhausted' = IsLastPage(ReadOffset)
  /\ pc' = "append"
  /\ UNCHANGED <<sourceVars, storeVars, paused, offset, established, chunks, stops>>

NewRows ==
  {[ordinal |-> offset + r.place, key |-> r.key, image |-> r.image] : r \in chunk}

FaultyStoredRows == NewRows

(* Rows already stored stay; an ordinal that is taken fails the insert.    *)
StoredRows == baseRows \cup NewRows

OrdinalTaken == \E r \in baseRows, s \in NewRows : r.ordinal = s.ordinal

(* One transaction: the rows of the page, row count, watermark and status. *)
AppendChunk ==
  /\ pc = "append"
  /\ ~OrdinalTaken
  /\ baseRows' = StoredRows
  /\ rowCount' = offset + Cardinality(chunk)
  /\ watermark' = established
  /\ status' = IF exhausted THEN "complete" ELSE "in_progress"
  /\ IF exhausted
       THEN EndRun
       ELSE /\ pc' = IF chunks + 1 >= PauseAfterChunks THEN "pause" ELSE "check"
            /\ offset' = rowCount'
            /\ chunk' = {}
            /\ chunks' = chunks + 1
            /\ UNCHANGED <<established, exhausted>>
  /\ UNCHANGED <<sourceVars, paused, stops>>

(* The durable pause, without rows of its own. *)
PersistPause ==
  /\ pc = "pause"
  /\ status' = "paused"
  /\ rowCount' = offset
  /\ watermark' = established
  /\ EndRun
  /\ UNCHANGED <<sourceVars, baseRows, paused, stops>>

(* The process dies or an error ends the run. *)
Crash ==
  /\ pc # "idle"
  /\ stops < MaxStops
  /\ stops' = stops + 1
  /\ EndRun
  /\ UNCHANGED <<sourceVars, storeVars, paused>>

(* `migraloop pause` and `migraloop resume` of a Pipeline on this table.   *)
OperatorPause ==
  /\ ~paused
  /\ stops < MaxStops
  /\ stops' = stops + 1
  /\ paused' = TRUE
  /\ UNCHANGED <<sourceVars, storeVars, pc, runVars>>

OperatorResume ==
  /\ paused
  /\ paused' = FALSE
  /\ UNCHANGED <<sourceVars, storeVars, pc, runVars, stops>>

SourceMoves ==
  /\ \/ \E k \in Keys, kind \in Kinds : SourceDml(k, kind) /\ LastScn' >= LowestNextScn
     \/ \E i \in 1 .. MaxLog :
          /\ SourceCommit(i)
          /\ RowsMoveBehind \/ ~MovesBehind(log[i].key)
  /\ UNCHANGED <<storeVars, paused, pc, runVars, stops>>

RunStep ==
  \/ CheckPause \/ EstablishWatermark \/ ReadPage \/ AppendChunk \/ PersistPause

Next ==
  \/ StartRun \/ RunStep \/ Crash
  \/ OperatorPause \/ OperatorResume
  \/ SourceMoves

Spec == Init /\ [][Next]_vars

-----------------------------------------------------------------------------
(* Properties.                                                             *)

RowsOf(k) == {r \in baseRows : r.key = k}

LoadedImage(k) == IF RowsOf(k) = {} THEN Absent ELSE (CHOOSE r \in RowsOf(k) : TRUE).image

Overlap == {i \in DOMAIN log : Scn(i) >= Checkpoint(watermark)}

(* What IncrementalSync assumes of the hand-off (its HandoffInit): the     *)
(* loaded image of a row is the one it had when the overlap window began,  *)
(* or one written by a change that Incremental Capture will replay. It is  *)
(* what makes reading the table page by page, over pauses, crashes and     *)
(* resumed runs, as good as a snapshot (ADR-0004).                         *)
HandoffAsAssumed ==
  status = "complete" => \A k \in Keys :
    \/ LatestImage(DOMAIN log \ Overlap, origin, k, LoadedImage(k))
    \/ \E i \in Overlap : Touches(i, k) /\ LoadedImage(k) = Image(i)

(* A Source Primary Key has one row in the Base Dataset: Incremental       *)
(* Capture replaces the first row that matches an identity and never looks *)
(* for a second (upsert_base_row_by_identity_in_tx).                       *)
OneRowPerKey ==
  \A r, s \in baseRows : r.key = s.key => r = s

(* The ordinals of the stored rows are dense up to the stored row count,   *)
(* from which a resumed run takes both its OFFSET and its first ordinal:   *)
(* otherwise it skips rows, or collides with stored ordinals and can never *)
(* append again.                                                           *)
ResumesWhereItStopped ==
  /\ {r.ordinal : r \in baseRows} = 0 .. rowCount - 1
  /\ Cardinality(baseRows) = rowCount

(* A pause, a crash or a resumed run never gives up stored rows, nor moves *)
(* the watermark that the rows stored so far rely on.                      *)
ProgressIsKept ==
  [][/\ baseRows \subseteq baseRows'
     /\ rowCount' >= rowCount
     /\ baseRows # {} => watermark' = watermark]_vars

(* ADR-0004, "Missing changes during cutover are unacceptable": a row that *)
(* no replayed change touches is in the completed Base Dataset as the      *)
(* Source has it.                                                          *)
NoRowMissed ==
  (status = "complete" /\ committed = DOMAIN log) => \A k \in Keys :
    (\A i \in Overlap : ~Touches(i, k)) => LatestImage(committed, origin, k, LoadedImage(k))

=============================================================================
