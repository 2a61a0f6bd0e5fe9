-------------------------- MODULE InitialLoadProofs --------------------------
(***************************************************************************)
(* Invariance theorems of InitialLoad, for any finite table, page size,    *)
(* pauses, crashes and changes of the Source.                              *)
(***************************************************************************)
EXTENDS InitialLoad, FiniteSetTheorems, WellFoundedInduction, TLAPS

(* A run works from the stored row count, and once rows are stored from    *)
(* the stored watermark.                                                   *)
LoadInv ==
  /\ log \in Seq(RowChange)
  /\ rowCount \in Nat /\ offset \in Nat /\ IsFiniteSet(chunk)
  /\ pc # "idle" => offset = rowCount
  /\ baseRows # {} => watermark # None
  /\ pc # "idle" /\ baseRows # {} => established = watermark
  /\ pc \in {"read", "append"} => established # None

LEMMA PageIsFinite ==
  ASSUME IsFiniteSet(Keys), NEW n PROVE IsFiniteSet(Page(n))
<1> DEFINE Ranked == {j \in Live : Rank(j) >= n /\ Rank(j) < n + ChunkSize}
           Row(k) == [place |-> Rank(k) - n, key |-> k, image |-> ImageOf(committed, k)]
           F == [k \in Ranked |-> Row(k)]
<1>1. IsFiniteSet(Ranked)
  <2>1. Ranked \in SUBSET Keys
    BY DEF Live
  <2> QED
    BY <2>1, FS_Subset
<1>2. Page(n) = {Row(k) : k \in Ranked}
  BY DEF Page
<1>3. F \in Surjection(Ranked, {Row(k) : k \in Ranked})
  <2> HIDE DEF Row, Ranked
  <2> QED
    BY DEF Surjection
<1> QED
  BY <1>1, <1>2, <1>3, FS_Surjection

LEMMA LastScnIsNat ==
  ASSUME SourceAssumption, log \in Seq(RowChange) PROVE LastScn \in Nat
<1>1. CASE log = << >>
  BY <1>1 DEF LastScn, SourceAssumption
<1>2. CASE log # << >>
  <2>1. log[Len(log)] \in RowChange
    BY <1>2
  <2> QED
    BY <1>2, <2>1 DEF LastScn, RowChange
<1> QED
  BY <1>1, <1>2

LEMMA LoadInvInit == ASSUME Init PROVE LoadInv
BY FS_EmptySet DEF Init, LoadInv

LEMMA LoadInvStep ==
  ASSUME SourceAssumption, LoadAssumption, IsFiniteSet(Keys), LoadInv, [Next]_vars
  PROVE  LoadInv'
<1> USE DEF LoadInv
<1>1. CASE UNCHANGED vars
  BY <1>1 DEF vars, sourceVars, storeVars, runVars
<1>2. CASE StartRun
  BY <1>2 DEF StartRun, ResumeOffset, ResumeWatermark, sourceVars, storeVars
<1>3. CASE CheckPause
  BY <1>3 DEF CheckPause, sourceVars, storeVars, runVars
<1>4. CASE EstablishWatermark
  <2>1. established' # None /\ (established # None => established' = established)
    BY <1>4, LastScnIsNat DEF EstablishWatermark, LoadAssumption
  <2> QED
    BY <1>4, <2>1 DEF EstablishWatermark, sourceVars, storeVars
<1>5. CASE ReadPage
  BY <1>5, PageIsFinite DEF ReadPage, sourceVars, storeVars
<1>6. CASE AppendChunk
  <2>1. /\ pc = "append" /\ established # None /\ log' = log
        /\ watermark' = established /\ rowCount' = offset + Cardinality(chunk)
    BY <1>6 DEF AppendChunk, sourceVars
  <2>2. rowCount' \in Nat
    BY <2>1, FS_CardinalityType
  <2>3. CASE exhausted
    <3>1. pc' = "idle" /\ offset' = 0 /\ chunk' = {}
      BY <1>6, <2>3 DEF AppendChunk, EndRun
    <3> QED
      BY <2>1, <2>2, <3>1, FS_EmptySet
  <2>4. CASE ~exhausted
    BY <1>6, <2>1, <2>2, <2>4, FS_EmptySet DEF AppendChunk
  <2> QED
    BY <2>3, <2>4
<1>7. CASE PersistPause
  BY <1>7, FS_EmptySet DEF PersistPause, EndRun, sourceVars
<1>8. CASE Crash
  BY <1>8, FS_EmptySet DEF Crash, EndRun, sourceVars, storeVars
<1>9. CASE OperatorPause \/ OperatorResume
  BY <1>9 DEF OperatorPause, OperatorResume, sourceVars, storeVars, runVars
<1>10. CASE SourceMoves
  <2>1. log' \in Seq(RowChange)
    <3>1. ASSUME NEW k \in Keys, NEW kind \in Kinds, SourceDml(k, kind)
          PROVE  log' \in Seq(RowChange)
      <4>1. PICK e \in RowChange : log' = Append(log, e)
        BY <3>1, LastScnIsNat DEF SourceDml, RowChange, SourceAssumption
      <4> QED
        BY <4>1
    <3>2. ASSUME NEW i, SourceCommit(i) PROVE log' \in Seq(RowChange)
      BY <3>2 DEF SourceCommit
    <3> QED
      BY <1>10, <3>1, <3>2 DEF SourceMoves
  <2> QED
    BY <1>10, <2>1 DEF SourceMoves, storeVars, runVars
<1> QED
  BY <1>1, <1>2, <1>3, <1>4, <1>5, <1>6, <1>7, <1>8, <1>9, <1>10 DEF Next, RunStep

LEMMA ProgressStep ==
  ASSUME IsFiniteSet(Keys), LoadInv, [Next]_vars
  PROVE  /\ baseRows \subseteq baseRows'
         /\ rowCount' >= rowCount
         /\ baseRows # {} => watermark' = watermark
<1>1. CASE AppendChunk
  <2>1. Cardinality(chunk) \in Nat
    BY FS_CardinalityType DEF LoadInv
  <2>2. rowCount' = rowCount + Cardinality(chunk)
    BY <1>1 DEF AppendChunk, LoadInv
  <2> QED
    BY <1>1, <2>1, <2>2 DEF AppendChunk, StoredRows, LoadInv
<1>2. CASE PersistPause
  BY <1>2 DEF PersistPause, LoadInv
<1>3. CASE ~(AppendChunk \/ PersistPause)
  <2>1. UNCHANGED storeVars
    BY <1>3 DEF Next, StartRun, RunStep, CheckPause, EstablishWatermark, ReadPage, Crash,
                OperatorPause, OperatorResume, SourceMoves, vars
  <2> QED
    BY <2>1 DEF storeVars, LoadInv
<1> QED
  BY <1>1, <1>2, <1>3

(* No pause, crash or resumed run gives up stored rows, or moves the       *)
(* watermark the stored rows rely on (append_initial_load_chunk,           *)
(* persist_initial_load_pause).                                            *)
THEOREM ProgressIsKeptHolds ==
  ASSUME SourceAssumption, LoadAssumption, IsFiniteSet(Keys)
  PROVE  Spec => ProgressIsKept
<1>1. Init => LoadInv
  BY LoadInvInit
<1>2. LoadInv /\ [Next]_vars => LoadInv'
  BY LoadInvStep
<1>3. LoadInv /\ [Next]_vars =>
        [/\ baseRows \subseteq baseRows'
         /\ rowCount' >= rowCount
         /\ baseRows # {} => watermark' = watermark]_vars
  BY ProgressStep
<1> QED
  BY <1>1, <1>2, <1>3, PTL DEF Spec, ProgressIsKept

-----------------------------------------------------------------------------
(* The Source table as a query sees it.                                    *)

(* A nonempty set of log indexes has a greatest one.                       *)
LEMMA GreatestIndex ==
  ASSUME NEW n \in Nat, NEW S \in SUBSET (1 .. n), S # {}
  PROVE  \E m \in S : \A x \in S : x <= m
<1> DEFINE T == {n - x : x \in S}
           R == OpToRel(<, Nat)
<1>1. T \subseteq Nat /\ T # {}
  <2>1. \A x \in S : n - x \in Nat
    <3> TAKE x \in S
    <3>1. x \in 1 .. n
      OBVIOUS
    <3> QED
      BY <3>1
  <2> QED
    BY <2>1
<1>2. PICK t \in T : \A y \in T : ~(<<y, t>> \in R)
  <2> HIDE DEF T, R
  <2>1. IsWellFoundedOn(R, Nat)
    BY NatLessThanWellFounded DEF R
  <2> QED
    BY <1>1, <2>1, WFMin
<1>3. PICK m \in S : t = n - m
  OBVIOUS
<1>4. ASSUME NEW x \in S PROVE x <= m
  <2>1. x \in 1 .. n /\ m \in 1 .. n /\ n - x \in T
    OBVIOUS
  <2>2. n - x \in Nat /\ n - m \in Nat
    BY <2>1
  <2>3. ~(<<n - x, n - m>> \in R)
    BY <1>2, <1>3, <2>1
  <2>4. n - x < n - m => <<n - x, n - m>> \in R
    BY <2>2 DEF OpToRel
  <2> HIDE DEF R, T
  <2> QED
    BY <2>1, <2>3, <2>4
<1> QED
  BY <1>4

(* Every row has an image after any set of changes.                        *)
LEMMA ImageOfIsLatest ==
  ASSUME log \in Seq(RowChange), origin \in [Keys -> {0, Absent}],
         NEW S \in SUBSET DOMAIN log, NEW k \in Keys
  PROVE  /\ LatestImage(S, origin, k, ImageOf(S, k))
         /\ ImageOf(S, k) \in {Absent} \cup 0 .. Len(log)
<1> DEFINE T == {i \in S : Touches(i, k)}
<1>1. DOMAIN log = 1 .. Len(log) /\ Len(log) \in Nat
  OBVIOUS
<1>2. \E v \in {Absent} \cup 0 .. Len(log) : LatestImage(S, origin, k, v)
  <2>1. CASE T = {}
    <3>1. origin[k] \in {Absent} \cup 0 .. Len(log)
      BY <1>1
    <3> QED
      BY <2>1, <3>1 DEF LatestImage
  <2>2. CASE T # {}
    <3>1. T \in SUBSET (1 .. Len(log))
      BY <1>1
    <3>2. PICK m \in T : \A x \in T : x <= m
      <4> HIDE DEF T
      <4> QED
        BY <1>1, <2>2, <3>1, GreatestIndex
    <3>3. Image(m) \in {Absent} \cup 0 .. Len(log)
      BY <1>1 DEF Image
    <3> QED
      BY <3>2, <3>3 DEF LatestImage
  <2> QED
    BY <2>1, <2>2
<1> QED
  BY <1>2 DEF ImageOf

LEMMA LiveHasImage ==
  ASSUME log \in Seq(RowChange), origin \in [Keys -> {0, Absent}], SourceAssumption,
         committed \subseteq DOMAIN log, NEW k \in Live
  PROVE  ImageOf(committed, k) \in Nat
<1>1. k \in Keys /\ ~LatestImage(committed, origin, k, Absent)
  BY DEF Live
<1>2. LatestImage(committed, origin, k, ImageOf(committed, k))
      /\ ImageOf(committed, k) \in {Absent} \cup 0 .. Len(log)
  BY <1>1, ImageOfIsLatest
<1> QED
  BY <1>1, <1>2

LEMMA FewerElements ==
  ASSUME NEW B, IsFiniteSet(B), NEW A \in SUBSET B, A # B
  PROVE  /\ IsFiniteSet(A) /\ Cardinality(A) \in Nat /\ Cardinality(B) \in Nat
         /\ Cardinality(A) < Cardinality(B)
<1>1. IsFiniteSet(A) /\ Cardinality(A) <= Cardinality(B) /\ Cardinality(A) # Cardinality(B)
  BY FS_Subset
<1>2. Cardinality(A) \in Nat /\ Cardinality(B) \in Nat
  BY <1>1, FS_CardinalityType
<1> QED
  BY <1>1, <1>2

LEMMA LiveIsFinite ==
  ASSUME IsFiniteSet(Keys), LoadAssumption
  PROVE  /\ Live \subseteq Keys /\ Live \subseteq Nat
         /\ IsFiniteSet(Live) /\ Cardinality(Live) \in Nat
<1>1. Live \in SUBSET Keys /\ Live \subseteq Nat
  BY DEF Live, LoadAssumption
<1> QED
  BY <1>1, FS_Subset, FS_CardinalityType

(* Ranks count the rows of the table in primary key order, without a gap.  *)
LEMMA RankBound ==
  ASSUME IsFiniteSet(Keys), LoadAssumption, NEW k \in Live
  PROVE  /\ Rank(k) \in Nat /\ Rank(k) < Cardinality(Live)
         /\ IsFiniteSet({j \in Live : j < k})
<1> DEFINE B == {j \in Live : j < k}
<1>1. B \in SUBSET Live /\ k \notin B
  BY LiveIsFinite
<1>2. Rank(k) = Cardinality(B)
  BY DEF Rank
<1> HIDE DEF B
<1>3. B # Live
  BY <1>1
<1>4. IsFiniteSet(B) /\ Cardinality(B) \in Nat /\ Cardinality(B) < Cardinality(Live)
  BY <1>1, <1>3, LiveIsFinite, FewerElements
<1> QED
  BY <1>2, <1>4 DEF B

LEMMA RankOrder ==
  ASSUME IsFiniteSet(Keys), LoadAssumption, NEW j \in Live, NEW k \in Live, j < k
  PROVE  Rank(j) < Rank(k)
<1> DEFINE A == {i \in Live : i < j}
           B == {i \in Live : i < k}
<1>1. j \in Nat /\ k \in Nat /\ \A i \in Live : i \in Nat
  BY LiveIsFinite
<1>2. A \in SUBSET B
  <2>1. \A i \in Live : i < j => i < k
    <3> TAKE i \in Live
    <3>1. i \in Nat
      BY <1>1
    <3> QED
      BY <1>1, <3>1
  <2> QED
    BY <2>1
<1>3. j \in B /\ j \notin A
  <2>1. ~(j < j)
    BY <1>1
  <2> QED
    BY <2>1
<1>4. Rank(j) = Cardinality(A) /\ Rank(k) = Cardinality(B)
  BY DEF Rank
<1>5. IsFiniteSet(B)
  BY RankBound
<1> HIDE DEF A, B
<1> QED
  BY <1>2, <1>3, <1>4, <1>5, FewerElements

LEMMA RankIsInjective ==
  ASSUME IsFiniteSet(Keys), LoadAssumption, NEW j \in Live, NEW k \in Live, Rank(j) = Rank(k)
  PROVE  j = k
<1>1. j \in Nat /\ k \in Nat /\ Rank(j) \in Nat
  BY LiveIsFinite, RankBound
<1>2. ~(j < k)
  BY <1>1, RankOrder
<1>3. ~(k < j)
  BY <1>1, RankOrder
<1> QED
  BY <1>1, <1>2, <1>3

LEMMA RanksAreDense ==
  ASSUME IsFiniteSet(Keys), LoadAssumption, NEW r \in 0 .. Cardinality(Live) - 1
  PROVE  \E k \in Live : Rank(k) = r
<1> DEFINE T == 0 .. Cardinality(Live) - 1
           F == [k \in Live |-> Rank(k)]
<1>1. IsFiniteSet(Live) /\ Cardinality(Live) \in Nat
  BY LiveIsFinite
<1>2. \A k \in Live : Rank(k) \in T
  <2> TAKE k \in Live
  <2>1. Rank(k) \in Nat /\ Rank(k) < Cardinality(Live)
    BY RankBound
  <2> QED
    BY <1>1, <2>1
<1>3. IsFiniteSet(T) /\ Cardinality(T) = Cardinality(Live)
  <2>1. 0 \in Int /\ Cardinality(Live) - 1 \in Int
    BY <1>1
  <2>2. IsFiniteSet(T) /\ Cardinality(T) =
          IF 0 > Cardinality(Live) - 1 THEN 0 ELSE (Cardinality(Live) - 1) - 0 + 1
    BY <2>1, FS_Interval
  <2> HIDE DEF T
  <2> QED
    BY <1>1, <2>2
<1> HIDE DEF T
<1>4. F \in [Live -> T]
  BY <1>2
<1>5. \A j, k \in Live : F[j] = F[k] => j = k
  BY RankIsInjective
<1>6. F \in Injection(Live, T)
  BY <1>4, <1>5 DEF Injection, IsInjective
<1>7. F \in Surjection(Live, T)
  <2> HIDE DEF F
  <2> QED
    BY <1>3, <1>6, FS_Injection
<1>8. r \in T
  BY DEF T
<1> QED
  BY <1>7, <1>8 DEF Surjection

-----------------------------------------------------------------------------
(* Types.                                                                  *)

TypeInv ==
  /\ TypeOK /\ LoadInv
  /\ origin \in [Keys -> {0, Absent}]
  /\ IsFiniteSet(baseRows)
  /\ pc # "pause" => chunks < PauseAfterChunks

(* What a row of a page is, and which rows a page has.                     *)
LEMMA PageMember ==
  ASSUME SourceAssumption, LoadAssumption, IsFiniteSet(Keys), log \in Seq(RowChange),
         origin \in [Keys -> {0, Absent}], committed \subseteq DOMAIN log,
         NEW n \in Nat, NEW r \in Page(n)
  PROVE  /\ r.key \in Live /\ r.place \in Nat /\ r.place < ChunkSize
         /\ Rank(r.key) = n + r.place
         /\ r.image = ImageOf(committed, r.key)
         /\ r = [place |-> r.place, key |-> r.key, image |-> r.image]
         /\ r \in PageRow
<1>1. PICK k \in Live :
        /\ Rank(k) >= n /\ Rank(k) < n + ChunkSize
        /\ r = [place |-> Rank(k) - n, key |-> k, image |-> ImageOf(committed, k)]
  BY DEF Page
<1>2. Rank(k) \in Nat /\ k \in Keys /\ ImageOf(committed, k) \in Nat /\ ChunkSize \in Nat
  BY RankBound, LiveIsFinite, LiveHasImage DEF LoadAssumption
<1>3. Rank(k) - n \in Nat /\ Rank(k) - n < ChunkSize /\ Rank(k) = n + (Rank(k) - n)
  BY <1>1, <1>2
<1>4. r.key = k /\ r.place = Rank(k) - n /\ r.image = ImageOf(committed, k)
  BY <1>1
<1> QED
  BY <1>1, <1>2, <1>3, <1>4 DEF PageRow

LEMMA PageHas ==
  ASSUME NEW n, NEW k \in Live, Rank(k) >= n, Rank(k) < n + ChunkSize
  PROVE  \E r \in Page(n) : r.key = k /\ r.place = Rank(k) - n
<1> DEFINE r == [place |-> Rank(k) - n, key |-> k, image |-> ImageOf(committed, k)]
<1>1. r \in Page(n)
  BY DEF Page
<1>2. r.key = k /\ r.place = Rank(k) - n
  OBVIOUS
<1> QED
  BY <1>1, <1>2

LEMMA NewRowsType ==
  ASSUME LoadAssumption, offset \in Nat, chunk \subseteq PageRow
  PROVE  NewRows \subseteq BaseRow
<1> SUFFICES ASSUME NEW r \in chunk
             PROVE  [ordinal |-> offset + r.place, key |-> r.key, image |-> r.image] \in BaseRow
  BY DEF NewRows
<1>1. r.place \in Nat /\ r.key \in Keys /\ r.image \in Nat
  BY DEF PageRow
<1> QED
  BY <1>1 DEF BaseRow

LEMMA NewRowsFinite ==
  ASSUME IsFiniteSet(chunk) PROVE IsFiniteSet(NewRows) /\ Cardinality(NewRows) <= Cardinality(chunk)
<1> DEFINE F == [r \in chunk |-> [ordinal |-> offset + r.place, key |-> r.key, image |-> r.image]]
<1>1. F \in Surjection(chunk, NewRows)
  BY DEF Surjection, NewRows
<1> HIDE DEF F
<1> QED
  BY <1>1, FS_Surjection

(* A change of the Source appends a row change, or makes one visible.      *)
LEMMA SourceTypes ==
  ASSUME SourceAssumption, log \in Seq(RowChange), committed \subseteq DOMAIN log,
         SourceMoves
  PROVE  /\ log' \in Seq(RowChange) /\ committed' \subseteq DOMAIN log'
         /\ origin' = origin
         /\ \/ /\ committed' = committed
               /\ \E e \in RowChange :
                    log' = Append(log, e) /\ e.scn >= LastScn /\ LastScn' = e.scn
                    /\ LastScn' >= LowestNextScn
            \/ /\ log' = log
               /\ \E i \in DOMAIN log \ committed :
                    committed' = committed \cup {i} /\ (RowsMoveBehind \/ ~MovesBehind(log[i].key))
<1>1. LastScn \in Nat
  BY LastScnIsNat
<1>2. CASE \E k \in Keys, kind \in Kinds : SourceDml(k, kind) /\ LastScn' >= LowestNextScn
  <2>1. PICK k \in Keys, kind \in Kinds : SourceDml(k, kind) /\ LastScn' >= LowestNextScn
    BY <1>2
  <2>2. PICK scn \in {LastScn, LastScn + 1} :
          log' = Append(log, [scn |-> scn, kind |-> kind, key |-> k])
    BY <2>1 DEF SourceDml
  <2> DEFINE e == [scn |-> scn, kind |-> kind, key |-> k]
  <2>3. scn \in Nat /\ scn >= LastScn /\ e.scn = scn
    BY <1>1
  <2>4. e \in RowChange
    BY <2>3 DEF RowChange, SourceAssumption
  <2>5. log' = Append(log, e)
    BY <2>2
  <2> HIDE DEF e
  <2>6. /\ log' \in Seq(RowChange) /\ Len(log') = Len(log) + 1 /\ log'[Len(log')] = e
        /\ DOMAIN log \subseteq DOMAIN log' /\ log' # << >>
    BY <2>4, <2>5
  <2>7. LastScn' = e.scn
    BY <2>6 DEF LastScn
  <2>8. committed' = committed /\ origin' = origin
    BY <2>1 DEF SourceDml
  <2> QED
    BY <2>1, <2>3, <2>4, <2>5, <2>6, <2>7, <2>8
<1>3. CASE \E i \in 1 .. MaxLog : SourceCommit(i) /\ (RowsMoveBehind \/ ~MovesBehind(log[i].key))
  <2>1. PICK i \in 1 .. MaxLog : SourceCommit(i) /\ (RowsMoveBehind \/ ~MovesBehind(log[i].key))
    BY <1>3
  <2>2. /\ i \in DOMAIN log \ committed /\ committed' = committed \cup {i}
        /\ log' = log /\ origin' = origin
    BY <2>1 DEF SourceCommit
  <2> QED
    BY <2>1, <2>2
<1> QED
  BY <1>2, <1>3 DEF SourceMoves

LEMMA NoChunks ==
  ASSUME LoadAssumption
  PROVE  /\ 0 \in 0 .. PauseAfterChunks /\ 0 < PauseAfterChunks
         /\ 0 \in 0 .. MaxStops
<1>1. PauseAfterChunks \in Nat /\ PauseAfterChunks # 0 /\ MaxStops \in Nat
  BY DEF LoadAssumption
<1> QED
  BY <1>1

LEMMA TypeInit == ASSUME SourceAssumption, LoadAssumption, Init PROVE TypeInv
<1>1. log = << >> /\ << >> \in Seq(RowChange)
  BY DEF Init
<1>2. LoadInv
  BY LoadInvInit
<1>3. IsFiniteSet(baseRows)
  BY FS_EmptySet DEF Init
<1>4. origin \in [Keys -> Images]
  BY DEF Init, Images
<1> QED
  BY <1>1, <1>2, <1>3, <1>4, NoChunks DEF Init, TypeInv, TypeOK

LEMMA TypeNext ==
  ASSUME SourceAssumption, LoadAssumption, IsFiniteSet(Keys), TypeInv, [Next]_vars
  PROVE  TypeInv'
<1>0. LoadInv'
  BY LoadInvStep DEF TypeInv
<1> USE DEF TypeInv, TypeOK
<1>1. CASE UNCHANGED vars
  BY <1>0, <1>1 DEF vars, sourceVars, storeVars, runVars
<1>2. CASE StartRun
  BY <1>0, <1>2 DEF StartRun, ResumeOffset, ResumeWatermark, sourceVars, storeVars
<1>3. CASE CheckPause
  BY <1>0, <1>3 DEF CheckPause, sourceVars, storeVars, runVars
<1>4. CASE EstablishWatermark
  <2>1. established' \in Nat \cup {None}
    BY <1>4, LastScnIsNat DEF EstablishWatermark
  <2> QED
    BY <1>0, <1>4, <2>1 DEF EstablishWatermark, sourceVars, storeVars
<1>5. CASE ReadPage
  <2>1. chunk' \subseteq PageRow
    BY <1>5, PageMember DEF ReadPage, ReadOffset
  <2>2. exhausted' \in BOOLEAN
    BY <1>5 DEF ReadPage, IsLastPage
  <2> QED
    BY <1>0, <1>5, <2>1, <2>2 DEF ReadPage, sourceVars, storeVars
<1>6. CASE AppendChunk
  <2>1. baseRows' \subseteq BaseRow /\ IsFiniteSet(baseRows')
    <3>1. NewRows \subseteq BaseRow /\ IsFiniteSet(NewRows)
      BY NewRowsType, NewRowsFinite DEF LoadInv
    <3>2. baseRows' = baseRows \cup NewRows
      BY <1>6 DEF AppendChunk, StoredRows
    <3> QED
      BY <3>1, <3>2, FS_Union
  <2>2. rowCount' \in Nat /\ offset' \in Nat
    BY <1>0 DEF LoadInv
  <2>3. /\ watermark' = established /\ status' \in {"in_progress", "complete"}
        /\ UNCHANGED <<origin, log, committed, paused, stops>>
    BY <1>6 DEF AppendChunk, sourceVars
  <2>4. CASE exhausted
    BY <1>0, <1>6, <2>1, <2>2, <2>3, <2>4, NoChunks DEF AppendChunk, EndRun
  <2>5. CASE ~exhausted
    <3>1. chunks < PauseAfterChunks /\ chunks' = chunks + 1 /\ PauseAfterChunks \in Nat
      BY <1>6, <2>5 DEF AppendChunk, LoadAssumption
    <3>2. chunks' \in 0 .. PauseAfterChunks
      BY <3>1
    <3>3. pc' \in {"pause", "check"} /\ (pc' = "check" => chunks' < PauseAfterChunks)
      BY <1>6, <2>5, <3>1 DEF AppendChunk
    <3>4. chunk' = {} /\ established' = established /\ exhausted' = exhausted
      BY <1>6, <2>5 DEF AppendChunk
    <3> QED
      BY <1>0, <2>1, <2>2, <2>3, <3>2, <3>3, <3>4
  <2> QED
    BY <2>4, <2>5
<1>7. CASE PersistPause
  BY <1>0, <1>7, NoChunks DEF PersistPause, EndRun, sourceVars
<1>8. CASE Crash
  <2>1. stops' \in 0 .. MaxStops
    BY <1>8 DEF Crash, LoadAssumption
  <2> QED
    BY <1>0, <1>8, <2>1, NoChunks DEF Crash, EndRun, sourceVars, storeVars
<1>9. CASE OperatorPause
  <2>1. stops' \in 0 .. MaxStops
    BY <1>9 DEF OperatorPause, LoadAssumption
  <2> QED
    BY <1>0, <1>9, <2>1 DEF OperatorPause, sourceVars, storeVars, runVars
<1>10. CASE OperatorResume
  BY <1>0, <1>10 DEF OperatorResume, sourceVars, storeVars, runVars
<1>11. CASE SourceMoves
  <2>1. /\ log' \in Seq(RowChange) /\ committed' \subseteq DOMAIN log' /\ origin' = origin
    BY <1>11, SourceTypes
  <2> QED
    BY <1>0, <1>11, <2>1 DEF SourceMoves, storeVars, runVars
<1> QED
  BY <1>1, <1>2, <1>3, <1>4, <1>5, <1>6, <1>7, <1>8, <1>9, <1>10, <1>11 DEF Next, RunStep

(* Every variable keeps its type, whatever stops a run and resumes it.     *)
THEOREM TypeCorrect ==
  ASSUME SourceAssumption, LoadAssumption, IsFiniteSet(Keys)
  PROVE  Spec => []TypeOK
<1>1. Init => TypeInv
  BY TypeInit
<1>2. TypeInv /\ [Next]_vars => TypeInv'
  BY TypeNext
<1>3. TypeInv => TypeOK
  BY DEF TypeInv
<1> QED
  BY <1>1, <1>2, <1>3, PTL DEF Spec

-----------------------------------------------------------------------------
(* Places and ordinals.                                                    *)

(* The rows of a page are numbered from 0.                                 *)
ChunkIsDense ==
  /\ {r.place : r \in chunk} = 0 .. Cardinality(chunk) - 1
  /\ \A r, s \in chunk : r.place = s.place => r = s

RowsInv == ResumesWhereItStopped /\ ChunkIsDense

(* A page takes consecutive rows: its places count up from 0, and no row   *)
(* and no place occurs twice.                                              *)
LEMMA PageIsDense ==
  ASSUME SourceAssumption, LoadAssumption, IsFiniteSet(Keys), log \in Seq(RowChange),
         origin \in [Keys -> {0, Absent}], committed \subseteq DOMAIN log, NEW n \in Nat
  PROVE  /\ IsFiniteSet(Page(n))
         /\ {r.place : r \in Page(n)} = 0 .. Cardinality(Page(n)) - 1
         /\ \A r, s \in Page(n) : r.place = s.place => r = s
         /\ \A r, s \in Page(n) : r.key = s.key => r = s
<1> DEFINE L == Cardinality(Live)
           P == Page(n)
           F == [r \in P |-> r.place]
<1>1. L \in Nat /\ ChunkSize \in Nat
  BY LiveIsFinite DEF LoadAssumption
<1> HIDE DEF L
<1>2. PICK m \in Nat : \A p \in Nat : p < m <=> p < ChunkSize /\ n + p < L
  <2>1. CASE L < n
    BY <1>1, <2>1
  <2>2. CASE L >= n /\ L - n < ChunkSize
    <3>1. L - n \in Nat
      BY <1>1, <2>2
    <3>2. \A p \in Nat : p < L - n <=> p < ChunkSize /\ n + p < L
      BY <1>1, <2>2
    <3> QED
      BY <3>1, <3>2
  <2>3. CASE L >= n /\ L - n >= ChunkSize
    <3>1. \A p \in Nat : p < ChunkSize <=> p < ChunkSize /\ n + p < L
      BY <1>1, <2>3
    <3> QED
      BY <1>1, <3>1
  <2> QED
    BY <1>1, <2>1, <2>2, <2>3
<1>3. \A r \in P : /\ r.key \in Live /\ r.place \in Nat /\ r.place < ChunkSize
                  /\ Rank(r.key) = n + r.place /\ r.image = ImageOf(committed, r.key)
                  /\ r = [place |-> r.place, key |-> r.key, image |-> r.image]
  BY PageMember
<1>4. \A r \in P : r.place \in 0 .. m - 1
  <2> TAKE r \in P
  <2>1. Rank(r.key) < L
    BY <1>3, RankBound DEF L
  <2>2. r.place < m
    BY <1>2, <1>3, <2>1
  <2> QED
    BY <1>3, <2>2
<1>5. \A p \in 0 .. m - 1 : \E r \in P : r.place = p
  <2> TAKE p \in 0 .. m - 1
  <2>1. p \in Nat /\ p < ChunkSize /\ n + p < L
    BY <1>2
  <2>2. n + p \in 0 .. L - 1
    BY <1>1, <2>1
  <2>3. PICK k \in Live : Rank(k) = n + p
    BY <2>2, RanksAreDense DEF L
  <2>4. Rank(k) >= n /\ Rank(k) < n + ChunkSize /\ Rank(k) - n = p
    BY <1>1, <2>1, <2>3
  <2> QED
    BY <2>4, PageHas
<1>6. \A r, s \in P : r.place = s.place => r = s
  <2> SUFFICES ASSUME NEW r \in P, NEW s \in P, r.place = s.place PROVE r = s
    OBVIOUS
  <2>1. Rank(r.key) = Rank(s.key)
    BY <1>3
  <2>2. r.key = s.key
    BY <1>3, <2>1, RankIsInjective
  <2> QED
    BY <1>3, <2>2
<1>7. \A r, s \in P : r.key = s.key => r = s
  <2> SUFFICES ASSUME NEW r \in P, NEW s \in P, r.key = s.key PROVE r.place = s.place
    BY <1>6
  <2>1. n + r.place = n + s.place
    BY <1>3
  <2> QED
    BY <1>3, <2>1
<1>8. IsFiniteSet(P)
  BY PageIsFinite
<1> HIDE DEF P
<1>9. Cardinality(P) = m
  <2>1. F \in Surjection(P, 0 .. m - 1)
    BY <1>4, <1>5 DEF Surjection
  <2>2. F \in Injection(P, 0 .. m - 1)
    BY <1>4, <1>6 DEF Injection, IsInjective
  <2> HIDE DEF F
  <2>3. Cardinality(0 .. m - 1) = Cardinality(P)
    BY <1>8, <2>1, <2>2, FS_Surjection
  <2>4. Cardinality(0 .. m - 1) = m
    BY FS_Interval
  <2> QED
    BY <2>3, <2>4
<1>10. {r.place : r \in P} = 0 .. m - 1
  BY <1>4, <1>5
<1> QED
  BY <1>6, <1>7, <1>8, <1>9, <1>10 DEF P

(* The rows of a page take the ordinals after the stored ones.             *)
LEMMA AppendedOrdinals ==
  ASSUME LoadAssumption, TypeInv, RowsInv, pc = "append"
  PROVE  /\ {r.ordinal : r \in StoredRows} = 0 .. (rowCount + Cardinality(chunk)) - 1
         /\ Cardinality(StoredRows) = rowCount + Cardinality(chunk)
         /\ ~OrdinalTaken
<1> DEFINE c == Cardinality(chunk)
           G(r) == [ordinal |-> offset + r.place, key |-> r.key, image |-> r.image]
           F == [r \in chunk |-> G(r)]
<1>1. /\ rowCount \in Nat /\ offset = rowCount /\ IsFiniteSet(chunk) /\ IsFiniteSet(baseRows)
      /\ chunk \subseteq PageRow /\ baseRows \subseteq BaseRow
  BY DEF TypeInv, TypeOK, LoadInv
<1>2. c \in Nat
  BY <1>1, FS_CardinalityType
<1>3. \A r \in chunk : r.place \in 0 .. c - 1 /\ r.place \in Nat
  BY <1>1 DEF RowsInv, ChunkIsDense, PageRow
<1>4. \A p \in 0 .. c - 1 : \E r \in chunk : r.place = p
  BY DEF RowsInv, ChunkIsDense
<1>5. \A r \in baseRows : r.ordinal \in 0 .. rowCount - 1
  BY DEF RowsInv, ResumesWhereItStopped
<1>6. \A o \in 0 .. rowCount - 1 : \E r \in baseRows : r.ordinal = o
  BY DEF RowsInv, ResumesWhereItStopped
<1> HIDE DEF c
<1>7. \A s \in NewRows : s.ordinal \in rowCount .. (rowCount + c) - 1
  <2> SUFFICES ASSUME NEW r \in chunk PROVE G(r).ordinal \in rowCount .. (rowCount + c) - 1
    BY DEF NewRows
  <2>1. r.place \in Nat /\ r.place < c
    BY <1>2, <1>3
  <2>2. G(r).ordinal = rowCount + r.place
    BY <1>1
  <2> HIDE DEF G
  <2> QED
    BY <1>1, <1>2, <2>1, <2>2
<1>8. \A o \in rowCount .. (rowCount + c) - 1 : \E s \in NewRows : s.ordinal = o
  <2> TAKE o \in rowCount .. (rowCount + c) - 1
  <2>1. o - rowCount \in 0 .. c - 1 /\ rowCount + (o - rowCount) = o
    BY <1>1, <1>2
  <2>2. PICK r \in chunk : r.place = o - rowCount
    BY <1>4, <2>1
  <2>3. G(r) \in NewRows /\ G(r).ordinal = o
    BY <1>1, <2>1, <2>2 DEF NewRows
  <2> QED
    BY <2>3
<1>9. {r.ordinal : r \in StoredRows} = 0 .. (rowCount + c) - 1
  <2>1. \A r \in StoredRows : r.ordinal \in 0 .. (rowCount + c) - 1
    <3> TAKE r \in StoredRows
    <3>1. CASE r \in baseRows
      BY <1>1, <1>2, <1>5, <3>1
    <3>2. CASE r \in NewRows
      BY <1>1, <1>2, <1>7, <3>2
    <3> QED
      BY <3>1, <3>2 DEF StoredRows
  <2>2. \A o \in 0 .. (rowCount + c) - 1 : \E r \in StoredRows : r.ordinal = o
    <3> TAKE o \in 0 .. (rowCount + c) - 1
    <3>1. o \in 0 .. rowCount - 1 \/ o \in rowCount .. (rowCount + c) - 1
      BY <1>1, <1>2
    <3> QED
      BY <1>6, <1>8, <3>1 DEF StoredRows
  <2> QED
    BY <2>1, <2>2
<1>10. Cardinality(NewRows) = c
  <2>1. F \in Surjection(chunk, NewRows)
    BY DEF Surjection, NewRows
  <2>2. \A r, s \in chunk : G(r) = G(s) => r = s
    <3> SUFFICES ASSUME NEW r \in chunk, NEW s \in chunk, G(r) = G(s) PROVE r = s
      OBVIOUS
    <3>1. offset + r.place = offset + s.place
      OBVIOUS
    <3>2. r.place = s.place
      BY <1>1, <1>3, <3>1
    <3> QED
      BY <3>2 DEF RowsInv, ChunkIsDense
  <2>3. F \in Injection(chunk, NewRows)
    BY <2>1, <2>2 DEF Injection, IsInjective, Surjection
  <2> HIDE DEF F
  <2> QED
    BY <1>1, <2>1, <2>3, FS_Surjection DEF c
<1>11. ~OrdinalTaken /\ baseRows \cap NewRows = {}
  <2>1. ASSUME NEW r \in baseRows, NEW s \in NewRows, r.ordinal = s.ordinal PROVE FALSE
    <3>1. r.ordinal \in 0 .. rowCount - 1 /\ r.ordinal \in rowCount .. (rowCount + c) - 1
      BY <1>5, <1>7, <2>1
    <3> QED
      BY <1>1, <1>2, <3>1
  <2> QED
    BY <2>1 DEF OrdinalTaken
<1>12. Cardinality(StoredRows) = rowCount + c
  <2>1. Cardinality(baseRows) = rowCount /\ Cardinality(baseRows \cap NewRows) = 0
    BY <1>11, FS_EmptySet DEF RowsInv, ResumesWhereItStopped
  <2>2. IsFiniteSet(NewRows)
    BY <1>1, NewRowsFinite
  <2>3. Cardinality(StoredRows) = rowCount + c - 0
    BY <1>1, <1>10, <2>1, <2>2, FS_Union DEF StoredRows
  <2> QED
    BY <1>1, <1>2, <2>3
<1> QED
  BY <1>9, <1>11, <1>12 DEF c

LEMMA NoRowsAreDense ==
  /\ \A r, s \in {} : r.place = s.place => r = s
  /\ {r.place : r \in {}} = 0 .. Cardinality({}) - 1
  /\ {r.ordinal : r \in {}} = 0 .. 0 - 1 /\ Cardinality({}) = 0
<1>1. Cardinality({}) = 0
  BY FS_EmptySet
<1>2. 0 .. 0 - 1 = {}
  OBVIOUS
<1> QED
  BY <1>1, <1>2

LEMMA RowsInit == ASSUME Init PROVE RowsInv
<1>1. baseRows = {} /\ rowCount = 0 /\ chunk = {}
  BY DEF Init
<1> QED
  BY <1>1, NoRowsAreDense DEF RowsInv, ResumesWhereItStopped, ChunkIsDense

LEMMA RowsNext ==
  ASSUME SourceAssumption, LoadAssumption, IsFiniteSet(Keys), TypeInv, RowsInv, [Next]_vars
  PROVE  RowsInv'
<1>1. CASE ReadPage
  <2>1. chunk' = Page(offset) /\ offset \in Nat /\ UNCHANGED <<baseRows, rowCount>>
    BY <1>1 DEF ReadPage, ReadOffset, TypeInv, LoadInv, storeVars
  <2>2. /\ {r.place : r \in Page(offset)} = 0 .. Cardinality(Page(offset)) - 1
        /\ \A r, s \in Page(offset) : r.place = s.place => r = s
    BY <2>1, PageIsDense DEF TypeInv, TypeOK
  <2> QED
    BY <2>1, <2>2 DEF RowsInv, ResumesWhereItStopped, ChunkIsDense
<1>2. CASE AppendChunk
  <2>1. pc = "append" /\ baseRows' = StoredRows /\ rowCount' = rowCount + Cardinality(chunk)
    BY <1>2 DEF AppendChunk, TypeInv, LoadInv
  <2>2. chunk' = {}
    BY <1>2 DEF AppendChunk, EndRun
  <2>3. ResumesWhereItStopped'
    BY <2>1, AppendedOrdinals DEF ResumesWhereItStopped
  <2>4. ChunkIsDense'
    BY <2>2, NoRowsAreDense DEF ChunkIsDense
  <2> QED
    BY <2>3, <2>4 DEF RowsInv
<1>3. CASE PersistPause \/ Crash
  <2>1. baseRows' = baseRows /\ rowCount' = rowCount /\ chunk' = {}
    BY <1>3 DEF PersistPause, Crash, EndRun, storeVars, TypeInv, LoadInv
  <2> QED
    BY <2>1, NoRowsAreDense DEF RowsInv, ResumesWhereItStopped, ChunkIsDense
<1>4. CASE ~(ReadPage \/ AppendChunk \/ PersistPause \/ Crash)
  <2>1. baseRows' = baseRows /\ rowCount' = rowCount /\ chunk' = chunk
    BY <1>4 DEF Next, StartRun, RunStep, CheckPause, EstablishWatermark, OperatorPause,
                OperatorResume, SourceMoves, vars, storeVars, runVars
  <2> QED
    BY <2>1 DEF RowsInv, ResumesWhereItStopped, ChunkIsDense
<1> QED
  BY <1>1, <1>2, <1>3, <1>4

(* However often the load is stopped, the stored ordinals have no gap and  *)
(* end at the stored row count, where the next run goes on with both its   *)
(* OFFSET and its ordinals (append_initial_load_chunk).                    *)
THEOREM ResumesWhereItStoppedHolds ==
  ASSUME SourceAssumption, LoadAssumption, IsFiniteSet(Keys)
  PROVE  Spec => []ResumesWhereItStopped
<1>1. Init => TypeInv /\ RowsInv
  BY TypeInit, RowsInit
<1>2. TypeInv /\ RowsInv /\ [Next]_vars => TypeInv' /\ RowsInv'
  BY TypeNext, RowsNext
<1>3. RowsInv => ResumesWhereItStopped
  BY DEF RowsInv
<1> QED
  BY <1>1, <1>2, <1>3, PTL DEF Spec

(* No page ever meets an ordinal that is taken, which would fail its       *)
(* insert, and that of every later run (append_initial_load_chunk).        *)
THEOREM AppendsAreFreeHolds ==
  ASSUME SourceAssumption, LoadAssumption, IsFiniteSet(Keys)
  PROVE  Spec => [](pc = "append" => ~OrdinalTaken)
<1>1. Init => TypeInv /\ RowsInv
  BY TypeInit, RowsInit
<1>2. TypeInv /\ RowsInv /\ [Next]_vars => TypeInv' /\ RowsInv'
  BY TypeNext, RowsNext
<1>3. TypeInv /\ RowsInv => (pc = "append" => ~OrdinalTaken)
  BY AppendedOrdinals
<1> QED
  BY <1>1, <1>2, <1>3, PTL DEF Spec

-----------------------------------------------------------------------------
(* While no row appears or disappears among those already read, these are  *)
(* the first rows of the table in primary key order, each read once.       *)

StoredKeys == {r.key : r \in baseRows}
ReadKeys   == {r.key : r \in chunk}

IsBeginning(K) ==
  /\ K \subseteq Live
  /\ \A j \in Live, k \in K : j <= k => j \in K

BehindInv ==
  /\ OneRowPerKey
  /\ \A r, s \in chunk : r.key = s.key => r = s
  /\ StoredKeys \cap ReadKeys = {}
  /\ IsBeginning(StoredKeys)
  /\ IsBeginning(StoredKeys \cup ReadKeys)

(* A new entry leaves the log's others and what they say as they were.     *)
LEMMA EntriesStay ==
  ASSUME log \in Seq(RowChange), NEW e \in RowChange, log' = Append(log, e)
  PROVE  /\ DOMAIN log' = DOMAIN log \cup {Len(log) + 1} /\ Len(log) + 1 \notin DOMAIN log
         /\ log'[Len(log) + 1] = e
         /\ \A i \in DOMAIN log : /\ log'[i] = log[i] /\ Scn(i)' = Scn(i) /\ Image(i)' = Image(i)
                                 /\ \A k : Touches(i, k)' <=> Touches(i, k)
<1>1. /\ DOMAIN log' = DOMAIN log \cup {Len(log) + 1} /\ Len(log) + 1 \notin DOMAIN log
      /\ log'[Len(log) + 1] = e /\ \A i \in DOMAIN log : log'[i] = log[i]
  OBVIOUS
<1> QED
  BY <1>1 DEF Scn, Image, Touches, IsRow

LEMMA LiveAfterDml ==
  ASSUME log \in Seq(RowChange), committed \subseteq DOMAIN log,
         NEW e \in RowChange, log' = Append(log, e), UNCHANGED <<origin, committed>>
  PROVE  Live' = Live
<1>1. \A i \in committed : Image(i)' = Image(i) /\ \A k : Touches(i, k)' <=> Touches(i, k)
  BY EntriesStay
<1>2. ASSUME NEW k PROVE LatestImage(committed, origin, k, Absent)' <=> LatestImage(committed, origin, k, Absent)
  BY <1>1 DEF LatestImage
<1> QED
  BY <1>2 DEF Live

LEMMA LiveAfterCommit ==
  ASSUME NEW i \in DOMAIN log \ committed, committed' = committed \cup {i},
         UNCHANGED <<origin, log>>, NEW k, k # log[i].key
  PROVE  k \in Live' <=> k \in Live
<1>1. ~Touches(i, k)
  BY DEF Touches
<1>2. \A j : Image(j)' = Image(j) /\ (Touches(j, k)' <=> Touches(j, k))
  BY DEF Image, Touches, IsRow
<1>3. LatestImage(committed, origin, k, Absent)' <=> LatestImage(committed, origin, k, Absent)
  BY <1>1, <1>2 DEF LatestImage
<1> QED
  BY <1>3 DEF Live

LEMMA BeginningStays ==
  ASSUME SourceAssumption, LoadAssumption, TypeInv, RowsMoveBehind = FALSE, SourceMoves,
         NEW K, K \subseteq Behind, IsBeginning(K)
  PROVE  /\ K \subseteq Live'
         /\ \A j \in Live', k \in K : j <= k => j \in K
<1>1. CASE /\ committed' = committed
           /\ \E e \in RowChange : log' = Append(log, e)
  <2>1. Live' = Live
    BY <1>1, SourceTypes, LiveAfterDml DEF TypeInv, TypeOK
  <2> QED
    BY <2>1 DEF IsBeginning
<1>2. CASE /\ log' = log
           /\ \E i \in DOMAIN log \ committed :
                committed' = committed \cup {i} /\ (RowsMoveBehind \/ ~MovesBehind(log[i].key))
  <2>1. PICK i \in DOMAIN log \ committed :
          committed' = committed \cup {i} /\ ~MovesBehind(log[i].key)
    BY <1>2
  <2> DEFINE x == log[i].key
  <2>2. \A k : k # x => (k \in Live' <=> k \in Live)
    BY <1>2, <2>1, SourceTypes, LiveAfterCommit DEF TypeInv, TypeOK
  <2>3. \A k \in K : x <= k => (x \in Live <=> x \in Live')
    BY <2>1 DEF MovesBehind
  <2> HIDE DEF x
  <2>4. ASSUME NEW k \in K PROVE k \in Live'
    <3>1. k \in Live /\ k \in Nat
      BY LiveIsFinite DEF IsBeginning, Live, LoadAssumption
    <3>2. k <= k
      BY <3>1
    <3> QED
      BY <2>2, <2>3, <3>1, <3>2
  <2>5. ASSUME NEW j \in Live', NEW k \in K, j <= k PROVE j \in K
    BY <2>2, <2>3, <2>5 DEF IsBeginning
  <2> QED
    BY <2>4, <2>5
<1> QED
  BY <1>1, <1>2, SourceTypes DEF TypeInv, TypeOK

LEMMA BeginningByRank ==
  ASSUME LoadAssumption, IsFiniteSet(Keys), NEW m \in Nat
  PROVE  IsBeginning({k \in Live : Rank(k) < m})
<1> SUFFICES ASSUME NEW j \in Live, NEW k \in Live, Rank(k) < m, j <= k
             PROVE  Rank(j) < m
  BY DEF IsBeginning
<1>1. j \in Nat /\ k \in Nat /\ Rank(j) \in Nat /\ Rank(k) \in Nat
  BY LiveIsFinite, RankBound
<1>2. CASE j < k
  <2>1. Rank(j) < Rank(k)
    BY <1>2, RankOrder
  <2> QED
    BY <1>1, <2>1
<1>3. CASE j = k
  BY <1>3
<1> QED
  BY <1>1, <1>2, <1>3

(* The stored rows are those of the first ranks, up to the row count.      *)
LEMMA StoredAreFirst ==
  ASSUME LoadAssumption, IsFiniteSet(Keys), TypeInv, RowsInv, BehindInv
  PROVE  StoredKeys = {k \in Live : Rank(k) < rowCount}
<1> DEFINE F == [r \in baseRows |-> r.key]
<1>1. F \in Surjection(baseRows, StoredKeys)
  BY DEF Surjection, StoredKeys
<1>2. F \in Injection(baseRows, StoredKeys)
  BY <1>1 DEF Injection, IsInjective, Surjection, BehindInv, OneRowPerKey
<1> HIDE DEF F
<1>3. IsFiniteSet(StoredKeys) /\ Cardinality(StoredKeys) = rowCount /\ rowCount \in Nat
  BY <1>1, <1>2, FS_Surjection DEF TypeInv, TypeOK, RowsInv, ResumesWhereItStopped
<1>4. StoredKeys \subseteq Live /\ \A j \in Live, k \in StoredKeys : j <= k => j \in StoredKeys
  BY DEF BehindInv, IsBeginning
<1>5. ASSUME NEW k \in StoredKeys PROVE Rank(k) < rowCount
  <2> DEFINE A == {j \in Live : j < k}
  <2>1. k \in Nat /\ \A j \in Live : j \in Nat
    BY <1>4, LiveIsFinite
  <2>2. \A j \in Live : j < k => j <= k
    BY <2>1
  <2>3. A \in SUBSET StoredKeys
    BY <1>4, <2>2
  <2>4. k \notin A
    <3>1. ~(k < k)
      BY <2>1
    <3> QED
      BY <3>1
  <2>5. Rank(k) = Cardinality(A)
    BY DEF Rank
  <2> HIDE DEF A
  <2> QED
    BY <1>3, <2>3, <2>4, <2>5, FewerElements
<1>6. ASSUME NEW k \in Live, k \notin StoredKeys PROVE ~(Rank(k) < rowCount)
  <2> DEFINE A == {j \in Live : j < k}
  <2>1. StoredKeys \in SUBSET A
    <3> SUFFICES ASSUME NEW b \in StoredKeys PROVE b < k
      BY <1>4
    <3>1. b \in Nat /\ k \in Nat
      BY <1>4, LiveIsFinite
    <3>2. ~(k <= b)
      BY <1>4, <1>6
    <3> QED
      BY <3>1, <3>2
  <2>2. IsFiniteSet(A)
    BY RankBound
  <2>3. Rank(k) = Cardinality(A) /\ Rank(k) \in Nat
    BY RankBound DEF Rank
  <2> HIDE DEF A
  <2>4. Cardinality(StoredKeys) <= Cardinality(A)
    BY <2>1, <2>2, FS_Subset
  <2> QED
    BY <1>3, <2>3, <2>4
<1> QED
  BY <1>4, <1>5, <1>6

(* A page goes on where the stored rows end.                               *)
LEMMA PageIsNext ==
  ASSUME SourceAssumption, LoadAssumption, IsFiniteSet(Keys), TypeInv, RowsInv, BehindInv
  PROVE  LET C == {r.key : r \in Page(rowCount)} IN
         /\ StoredKeys \cap C = {}
         /\ StoredKeys \cup C = {k \in Live : Rank(k) < rowCount + ChunkSize}
<1> DEFINE C == {r.key : r \in Page(rowCount)}
<1>1. rowCount \in Nat /\ ChunkSize \in Nat
  BY DEF TypeInv, TypeOK, LoadAssumption
<1>2. C = {k \in Live : Rank(k) >= rowCount /\ Rank(k) < rowCount + ChunkSize}
  <2>1. \A r \in Page(rowCount) :
          r.key \in Live /\ Rank(r.key) >= rowCount /\ Rank(r.key) < rowCount + ChunkSize
    BY <1>1, PageMember DEF TypeInv, TypeOK
  <2>2. \A k \in Live : Rank(k) >= rowCount /\ Rank(k) < rowCount + ChunkSize =>
          \E r \in Page(rowCount) : r.key = k
    BY PageHas
  <2> QED
    BY <2>1, <2>2
<1>3. StoredKeys = {k \in Live : Rank(k) < rowCount}
  BY StoredAreFirst
<1>4. \A k \in Live : /\ ~(Rank(k) >= rowCount /\ Rank(k) < rowCount)
                     /\ (Rank(k) < rowCount \/ (Rank(k) >= rowCount /\ Rank(k) < rowCount + ChunkSize))
                          <=> Rank(k) < rowCount + ChunkSize
  <2> TAKE k \in Live
  <2>1. Rank(k) \in Nat
    BY RankBound
  <2> QED
    BY <1>1, <2>1
<1> HIDE DEF C
<1>5. StoredKeys \cap C = {}
  BY <1>2, <1>3, <1>4
<1>6. StoredKeys \cup C = {k \in Live : Rank(k) < rowCount + ChunkSize}
  <2>1. ASSUME NEW k \in StoredKeys \cup C PROVE k \in Live /\ Rank(k) < rowCount + ChunkSize
    <3>1. CASE k \in StoredKeys
      <4>1. k \in Live /\ Rank(k) < rowCount
        BY <1>3, <3>1
      <4>2. Rank(k) \in Nat
        BY <4>1, RankBound
      <4> QED
        BY <1>1, <4>1, <4>2
    <3>2. CASE k \in C
      BY <1>2, <3>2
    <3> QED
      BY <2>1, <3>1, <3>2
  <2>2. ASSUME NEW k \in Live, Rank(k) < rowCount + ChunkSize PROVE k \in StoredKeys \cup C
    BY <1>2, <1>3, <1>4, <2>2
  <2> QED
    BY <2>1, <2>2
<1> QED
  BY <1>5, <1>6 DEF C

LEMMA LiveStays == ASSUME UNCHANGED sourceVars PROVE Live' = Live
BY DEF sourceVars, Live, LatestImage, Touches, IsRow, Image

LEMMA BehindInit == ASSUME Init PROVE BehindInv
<1>1. baseRows = {} /\ chunk = {}
  BY DEF Init
<1> QED
  BY <1>1 DEF BehindInv, OneRowPerKey, StoredKeys, ReadKeys, IsBeginning

LEMMA AppendedKeys ==
  ASSUME BehindInv
  PROVE  /\ {r.key : r \in StoredRows} = StoredKeys \cup ReadKeys
         /\ \A r, s \in StoredRows : r.key = s.key => r = s
<1> DEFINE G(r) == [ordinal |-> offset + r.place, key |-> r.key, image |-> r.image]
<1>1. \A s \in NewRows : \E r \in chunk : s = G(r) /\ s.key = r.key
  BY DEF NewRows
<1>2. \A r \in chunk : G(r) \in NewRows /\ G(r).key = r.key
  BY DEF NewRows
<1> HIDE DEF G
<1>3. {r.key : r \in NewRows} = ReadKeys
  BY <1>1, <1>2 DEF ReadKeys
<1>4. {r.key : r \in StoredRows} = StoredKeys \cup ReadKeys
  BY <1>3 DEF StoredRows, StoredKeys
<1>5. ASSUME NEW r \in StoredRows, NEW s \in StoredRows, r.key = s.key PROVE r = s
  <2>1. CASE r \in baseRows /\ s \in baseRows
    BY <1>5, <2>1 DEF BehindInv, OneRowPerKey
  <2>2. CASE r \in NewRows /\ s \in NewRows
    BY <1>1, <1>5, <2>2 DEF BehindInv
  <2>3. ASSUME NEW x \in baseRows, NEW y \in NewRows, x.key = y.key PROVE FALSE
    <3>1. x.key \in StoredKeys /\ y.key \in ReadKeys
      BY <1>3 DEF StoredKeys
    <3> QED
      BY <2>3, <3>1 DEF BehindInv
  <2> QED
    BY <1>5, <2>1, <2>2, <2>3 DEF StoredRows
<1> QED
  BY <1>4, <1>5

LEMMA BehindNext ==
  ASSUME SourceAssumption, LoadAssumption, IsFiniteSet(Keys), RowsMoveBehind = FALSE,
         TypeInv, RowsInv, BehindInv, [Next]_vars
  PROVE  BehindInv'
<1>1. CASE ReadPage
  <2>1. chunk' = Page(rowCount) /\ rowCount \in Nat /\ baseRows' = baseRows /\ Live' = Live
    BY <1>1, LiveStays DEF ReadPage, ReadOffset, TypeInv, LoadInv, storeVars
  <2>2. /\ StoredKeys \cap ReadKeys' = {}
        /\ StoredKeys \cup ReadKeys' = {k \in Live : Rank(k) < rowCount + ChunkSize}
    BY <2>1, PageIsNext DEF ReadKeys
  <2>3. rowCount + ChunkSize \in Nat
    BY <2>1 DEF LoadAssumption
  <2>4. IsBeginning(StoredKeys \cup ReadKeys')
    BY <2>2, <2>3, BeginningByRank
  <2>5. \A r, s \in Page(rowCount) : r.key = s.key => r = s
    BY <2>1, PageIsDense DEF TypeInv, TypeOK
  <2>6. StoredKeys' = StoredKeys
    BY <2>1 DEF StoredKeys
  <2> QED
    BY <2>1, <2>2, <2>4, <2>5, <2>6 DEF BehindInv, OneRowPerKey, IsBeginning
<1>2. CASE AppendChunk
  <2>1. baseRows' = StoredRows /\ Live' = Live
    BY <1>2, LiveStays DEF AppendChunk
  <2>2. chunk' = {}
    BY <1>2 DEF AppendChunk, EndRun
  <2>3. StoredKeys' = StoredKeys \cup ReadKeys /\ ReadKeys' = {}
    BY <2>1, <2>2, AppendedKeys DEF StoredKeys, ReadKeys
  <2>4. OneRowPerKey'
    BY <2>1, AppendedKeys DEF OneRowPerKey
  <2> QED
    BY <2>1, <2>2, <2>3, <2>4 DEF BehindInv, IsBeginning
<1>3. CASE PersistPause \/ Crash
  <2>1. baseRows' = baseRows /\ chunk' = {} /\ Live' = Live
    BY <1>3, LiveStays DEF PersistPause, Crash, EndRun, storeVars
  <2>2. StoredKeys' = StoredKeys /\ ReadKeys' = {}
    BY <2>1 DEF StoredKeys, ReadKeys
  <2> QED
    BY <2>1, <2>2 DEF BehindInv, OneRowPerKey, IsBeginning
<1>4. CASE SourceMoves
  <2>1. baseRows' = baseRows /\ chunk' = chunk
    BY <1>4 DEF SourceMoves, storeVars, runVars
  <2>2. StoredKeys' = StoredKeys /\ ReadKeys' = ReadKeys
    BY <2>1 DEF StoredKeys, ReadKeys
  <2>3. Behind = StoredKeys \cup ReadKeys
    BY DEF Behind, StoredKeys, ReadKeys
  <2> DEFINE S == StoredKeys
             B == StoredKeys \cup ReadKeys
  <2>4. S \subseteq Behind /\ IsBeginning(S) /\ B \subseteq Behind /\ IsBeginning(B)
    BY <2>3 DEF BehindInv
  <2>5. S \subseteq Live' /\ \A j \in Live', k \in S : j <= k => j \in S
    BY <1>4, <2>4, BeginningStays
  <2>6. B \subseteq Live' /\ \A j \in Live', k \in B : j <= k => j \in B
    BY <1>4, <2>4, BeginningStays
  <2> QED
    BY <2>1, <2>2, <2>5, <2>6 DEF BehindInv, OneRowPerKey, IsBeginning
<1>5. CASE ~(ReadPage \/ AppendChunk \/ PersistPause \/ Crash \/ SourceMoves)
  <2>1. baseRows' = baseRows /\ chunk' = chunk /\ UNCHANGED sourceVars
    BY <1>5 DEF Next, StartRun, RunStep, CheckPause, EstablishWatermark, OperatorPause,
                OperatorResume, vars, storeVars, runVars
  <2>2. Live' = Live
    BY <2>1, LiveStays
  <2>3. StoredKeys' = StoredKeys /\ ReadKeys' = ReadKeys
    BY <2>1 DEF StoredKeys, ReadKeys
  <2> QED
    BY <2>1, <2>2, <2>3 DEF BehindInv, OneRowPerKey, IsBeginning
<1> QED
  BY <1>1, <1>2, <1>3, <1>4, <1>5

(* Reading by OFFSET, over pauses, crashes and resumed runs, never stores  *)
(* a row twice as long as no row appears or disappears among those already *)
(* read (the run load_row_removed shows what happens otherwise).           *)
THEOREM OneRowPerKeyHolds ==
  ASSUME SourceAssumption, LoadAssumption, IsFiniteSet(Keys), RowsMoveBehind = FALSE
  PROVE  Spec => []OneRowPerKey
<1>1. Init => TypeInv /\ RowsInv /\ BehindInv
  BY TypeInit, RowsInit, BehindInit
<1>2. TypeInv /\ RowsInv /\ BehindInv /\ [Next]_vars => TypeInv' /\ RowsInv' /\ BehindInv'
  BY TypeNext, RowsNext, BehindNext
<1>3. BehindInv => OneRowPerKey
  BY DEF BehindInv
<1> QED
  BY <1>1, <1>2, <1>3, PTL DEF Spec

-----------------------------------------------------------------------------
(* The window Incremental Capture replays, and the images a row may have   *)
(* been loaded with.                                                       *)

Replayed(w) == {i \in DOMAIN log : Scn(i) >= Checkpoint(w)}

IsSound(w, k, v) ==
  \/ LatestImage(DOMAIN log \ Replayed(w), origin, k, v)
  \/ \E i \in Replayed(w) : Touches(i, k) /\ v = Image(i)

WatermarkKept ==
  /\ pc = "idle" => established = None
  /\ pc # "idle" /\ watermark # None => established = watermark
  /\ chunk # {} => pc = "append"
  /\ status = "complete" => pc = "idle" /\ watermark # None

WindowHolds(w) == DOMAIN log \ committed \subseteq Replayed(w)

RowsAreSound(w) == \A r \in baseRows : IsSound(w, r.key, r.image)

ChunkIsSound(w) == \A r \in chunk : IsSound(w, r.key, r.image)

GoneIsSound(w, K) == \A k \in Keys \ K : IsSound(w, k, Absent)

HandoffInv ==
  /\ WatermarkKept
  /\ \A w \in {established, watermark} \ {None} : WindowHolds(w)
  /\ RowsAreSound(watermark) /\ ChunkIsSound(established)
  /\ pc = "append" /\ exhausted => GoneIsSound(established, StoredKeys \cup ReadKeys)
  /\ status = "complete" => GoneIsSound(watermark, StoredKeys)

(* What the table shows now is sound for a window that holds every change  *)
(* that is still open.                                                     *)
LEMMA VisibleIsSound ==
  ASSUME committed \subseteq DOMAIN log, NEW w, DOMAIN log \ committed \subseteq Replayed(w),
         NEW k, NEW v, LatestImage(committed, origin, k, v)
  PROVE  IsSound(w, k, v)
<1>1. DOMAIN log \ Replayed(w) \subseteq committed
  OBVIOUS
<1>2. CASE (\A i \in committed : ~Touches(i, k)) /\ v = origin[k]
  BY <1>1, <1>2 DEF IsSound, LatestImage
<1>3. CASE \E i \in committed : /\ Touches(i, k) /\ v = Image(i)
                               /\ \A j \in committed : Touches(j, k) => j <= i
  <2>1. PICK i \in committed : /\ Touches(i, k) /\ v = Image(i)
                              /\ \A j \in committed : Touches(j, k) => j <= i
    BY <1>3
  <2>2. CASE i \in Replayed(w)
    BY <2>1, <2>2 DEF IsSound
  <2>3. CASE i \notin Replayed(w)
    <3>1. i \in DOMAIN log \ Replayed(w)
      BY <2>3
    <3> QED
      BY <1>1, <2>1, <3>1 DEF IsSound, LatestImage
  <2> QED
    BY <2>2, <2>3
<1> QED
  BY <1>2, <1>3 DEF LatestImage

(* The Source never writes below a watermark that was read from it.        *)
LEMMA WatermarksAreLow ==
  ASSUME LoadAssumption, TypeInv, HandoffInv, NEW w \in {established, watermark} \ {None}
  PROVE  w \in Nat /\ LowestNextScn = w /\ Checkpoint(w) <= w /\ Checkpoint(w) \in Nat
<1>1. w \in Nat
  BY DEF TypeInv, TypeOK
<1>2. LowestNextScn = w
  BY DEF LowestNextScn, HandoffInv, WatermarkKept
<1>3. Checkpoint(w) <= w /\ Checkpoint(w) \in Nat
  BY <1>1 DEF Checkpoint
<1> QED
  BY <1>1, <1>2, <1>3

LEMMA WindowAfterDml ==
  ASSUME log \in Seq(RowChange), NEW e \in RowChange, log' = Append(log, e),
         UNCHANGED origin, NEW w \in Nat, e.scn >= Checkpoint(w)
  PROVE  /\ Replayed(w)' = Replayed(w) \cup {Len(log) + 1}
         /\ DOMAIN log' \ Replayed(w)' = DOMAIN log \ Replayed(w)
         /\ \A k, v : IsSound(w, k, v) => IsSound(w, k, v)'
<1>0. PICK m : m = Len(log) + 1
  OBVIOUS
<1>1. /\ DOMAIN log' = DOMAIN log \cup {m} /\ m \notin DOMAIN log /\ log'[m] = e
      /\ \A i \in DOMAIN log : /\ Scn(i)' = Scn(i) /\ Image(i)' = Image(i)
                              /\ \A k : Touches(i, k)' <=> Touches(i, k)
  BY <1>0, EntriesStay
<1>2. Scn(m)' = e.scn
  BY <1>1 DEF Scn
<1>3. Replayed(w)' = {i \in DOMAIN log' : Scn(i)' >= Checkpoint(w)}
  BY DEF Replayed, Checkpoint
<1>4. Replayed(w)' = Replayed(w) \cup {m}
  BY <1>1, <1>2, <1>3 DEF Replayed
<1>5. DOMAIN log' \ Replayed(w)' = DOMAIN log \ Replayed(w)
  BY <1>1, <1>4
<1>6. ASSUME NEW k, NEW v, IsSound(w, k, v) PROVE IsSound(w, k, v)'
  <2> DEFINE S == DOMAIN log \ Replayed(w)
  <2>1. CASE LatestImage(S, origin, k, v)
    <3>1. LatestImage(S, origin, k, v)'
      <4>1. S' = S
        BY <1>5
      <4>2. S \subseteq DOMAIN log
        OBVIOUS
      <4> HIDE DEF S
      <4> QED
        BY <1>1, <2>1, <4>1, <4>2 DEF LatestImage
    <3> QED
      BY <3>1 DEF IsSound
  <2>2. CASE \E i \in Replayed(w) : Touches(i, k) /\ v = Image(i)
    <3>1. PICK i \in Replayed(w) : Touches(i, k) /\ v = Image(i)
      BY <2>2
    <3>2. i \in DOMAIN log
      BY DEF Replayed
    <3>3. i \in Replayed(w)' /\ Touches(i, k)' /\ v = Image(i)'
      BY <1>1, <1>4, <3>1, <3>2
    <3> QED
      BY <3>3 DEF IsSound
  <2> QED
    BY <1>6, <2>1, <2>2 DEF IsSound
<1> QED
  BY <1>0, <1>4, <1>5, <1>6

LEMMA WindowAfterCommit ==
  ASSUME UNCHANGED <<origin, log>>, NEW w
  PROVE  /\ Replayed(w)' = Replayed(w)
         /\ \A k, v : IsSound(w, k, v) => IsSound(w, k, v)'
BY DEF Replayed, Checkpoint, Scn, IsSound, LatestImage, Touches, IsRow, Image

(* A window that holds every open change goes on to do so, and what is     *)
(* sound for it stays sound.                                               *)
LEMMA WindowStays ==
  ASSUME SourceAssumption, LoadAssumption, TypeInv, HandoffInv,
         SourceMoves \/ UNCHANGED sourceVars, NEW w \in {established, watermark} \ {None}
  PROVE  /\ DOMAIN log' \ committed' \subseteq Replayed(w)'
         /\ \A k, v : IsSound(w, k, v) => IsSound(w, k, v)'
<1>1. DOMAIN log \ committed \subseteq Replayed(w)
  BY DEF HandoffInv, WindowHolds
<1>2. CASE UNCHANGED sourceVars
  BY <1>1, <1>2, WindowAfterCommit DEF sourceVars
<1>3. CASE SourceMoves
  <2>1. CASE /\ committed' = committed
             /\ \E e \in RowChange :
                  log' = Append(log, e) /\ e.scn >= LastScn /\ LastScn' = e.scn
                  /\ LastScn' >= LowestNextScn
    <3>1. PICK e \in RowChange : log' = Append(log, e) /\ e.scn >= LowestNextScn
      BY <2>1
    <3>2. e.scn \in Nat
      BY DEF RowChange
    <3>3. w \in Nat /\ e.scn >= Checkpoint(w)
      BY <3>1, <3>2, WatermarksAreLow
    <3>4. origin' = origin /\ log \in Seq(RowChange)
      BY <1>3, SourceTypes DEF TypeInv, TypeOK
    <3>5. /\ Replayed(w)' = Replayed(w) \cup {Len(log) + 1}
          /\ DOMAIN log' \ Replayed(w)' = DOMAIN log \ Replayed(w)
          /\ \A k, v : IsSound(w, k, v) => IsSound(w, k, v)'
      BY <3>1, <3>3, <3>4, WindowAfterDml
    <3> QED
      BY <1>1, <2>1, <3>5
  <2>2. CASE /\ log' = log
             /\ \E i \in DOMAIN log \ committed :
                  committed' = committed \cup {i} /\ (RowsMoveBehind \/ ~MovesBehind(log[i].key))
    <3>1. origin' = origin
      BY <1>3, SourceTypes DEF TypeInv, TypeOK
    <3> QED
      BY <1>1, <2>2, <3>1, WindowAfterCommit
  <2> QED
    BY <1>3, <2>1, <2>2, SourceTypes DEF TypeInv, TypeOK
<1> QED
  BY <1>2, <1>3

(* The same of the watermark a step leaves, when it was one before.        *)
LEMMA SoundnessStays ==
  ASSUME SourceAssumption, LoadAssumption, TypeInv, HandoffInv,
         SourceMoves \/ UNCHANGED sourceVars, NEW w \in {established, watermark} \ {None}
  PROVE  /\ WindowHolds(w)'
         /\ RowsAreSound(w) /\ baseRows' = baseRows => RowsAreSound(w)'
         /\ ChunkIsSound(w) /\ chunk' = chunk => ChunkIsSound(w)'
         /\ \A K : GoneIsSound(w, K) => GoneIsSound(w, K)'
BY WindowStays DEF WindowHolds, RowsAreSound, ChunkIsSound, GoneIsSound

LEMMA HandoffInit == ASSUME Init PROVE HandoffInv
BY DEF Init, HandoffInv, WatermarkKept, WindowHolds, RowsAreSound, ChunkIsSound

LEMMA RowsStaySound ==
  ASSUME SourceAssumption, LoadAssumption, TypeInv, HandoffInv,
         SourceMoves \/ UNCHANGED sourceVars, UNCHANGED <<baseRows, watermark>>
  PROVE  RowsAreSound(watermark)'
<1>1. CASE watermark = None
  BY <1>1 DEF TypeInv, LoadInv, RowsAreSound
<1>2. CASE watermark # None
  <2>1. PICK w : w = watermark
    OBVIOUS
  <2>2. RowsAreSound(w)'
    BY <1>2, <2>1, SoundnessStays DEF HandoffInv
  <2> QED
    BY <2>1, <2>2
<1> QED
  BY <1>1, <1>2

LEMMA WindowsStay ==
  ASSUME SourceAssumption, LoadAssumption, TypeInv, HandoffInv,
         SourceMoves \/ UNCHANGED sourceVars,
         {established', watermark'} \subseteq {established, watermark, None}
  PROVE  (\A w \in {established, watermark} \ {None} : WindowHolds(w))'
<1>1. ASSUME NEW w \in {established', watermark'} \ {None} PROVE WindowHolds(w)'
  <2>1. w \in {established, watermark} \ {None}
    OBVIOUS
  <2> QED
    BY <2>1, SoundnessStays
<1> QED
  BY <1>1

(* A step that moves only the Source, or only the run's place.             *)
LEMMA HandoffQuiet ==
  ASSUME SourceAssumption, LoadAssumption, TypeInv, HandoffInv,
         SourceMoves \/ UNCHANGED sourceVars,
         UNCHANGED <<storeVars, established, chunk, exhausted>>,
         pc' = pc \/ (pc = "check" /\ pc' \in {"pause", "watermark"})
  PROVE  HandoffInv'
<1>1. UNCHANGED <<status, baseRows, watermark>>
  BY DEF storeVars
<1>2. WatermarkKept'
  <2>1. pc' = "idle" <=> pc = "idle"
    OBVIOUS
  <2>2. chunk # {} => pc' = "append"
    BY DEF HandoffInv, WatermarkKept
  <2> QED
    BY <1>1, <2>1, <2>2 DEF HandoffInv, WatermarkKept
<1>3. StoredKeys' = StoredKeys /\ ReadKeys' = ReadKeys
  BY <1>1 DEF StoredKeys, ReadKeys
<1>4. (\A w \in {established, watermark} \ {None} : WindowHolds(w))'
  BY <1>1, WindowsStay
<1>5. RowsAreSound(watermark)'
  BY <1>1, RowsStaySound
<1>6. ChunkIsSound(established)'
  <2>1. CASE chunk = {}
    BY <2>1 DEF ChunkIsSound
  <2>2. CASE chunk # {}
    <3>1. PICK w : w = established
      OBVIOUS
    <3>2. w \in {established, watermark} \ {None}
      BY <2>2, <3>1 DEF HandoffInv, WatermarkKept, TypeInv, LoadInv
    <3>3. ChunkIsSound(w)'
      BY <3>1, <3>2, SoundnessStays DEF HandoffInv
    <3> QED
      BY <3>1, <3>3
  <2> QED
    BY <2>1, <2>2
<1>7. (pc = "append" /\ exhausted => GoneIsSound(established, StoredKeys \cup ReadKeys))'
  <2> SUFFICES ASSUME pc = "append", exhausted
               PROVE  GoneIsSound(established, StoredKeys \cup ReadKeys)'
    OBVIOUS
  <2>1. PICK w, K : w = established /\ K = StoredKeys \cup ReadKeys
    OBVIOUS
  <2>2. w \in {established, watermark} \ {None}
    BY <2>1 DEF TypeInv, LoadInv
  <2>3. GoneIsSound(w, K)'
    BY <2>1, <2>2, SoundnessStays DEF HandoffInv
  <2> QED
    BY <1>3, <2>1, <2>3
<1>8. (status = "complete" => GoneIsSound(watermark, StoredKeys))'
  <2> SUFFICES ASSUME status = "complete" PROVE GoneIsSound(watermark, StoredKeys)'
    BY <1>1
  <2>1. PICK w, K : w = watermark /\ K = StoredKeys
    OBVIOUS
  <2>2. w \in {established, watermark} \ {None}
    BY <2>1 DEF HandoffInv, WatermarkKept
  <2>3. GoneIsSound(w, K)'
    BY <2>1, <2>2, SoundnessStays DEF HandoffInv
  <2> QED
    BY <1>1, <1>3, <2>1, <2>3
<1> QED
  BY <1>2, <1>4, <1>5, <1>6, <1>7, <1>8 DEF HandoffInv

(* A run that ends or begins: nothing is read and not yet stored.          *)
LEMMA HandoffNoChunk ==
  ASSUME SourceAssumption, LoadAssumption, TypeInv, HandoffInv,
         UNCHANGED sourceVars, UNCHANGED <<status, baseRows, watermark>>, chunk' = {},
         pc' # "append", WatermarkKept', established' \in {watermark, None}
  PROVE  HandoffInv'
<1>1. StoredKeys' = StoredKeys
  BY DEF StoredKeys
<1>2. (\A w \in {established, watermark} \ {None} : WindowHolds(w))'
  BY WindowsStay
<1>3. RowsAreSound(watermark)' /\ ChunkIsSound(established)'
  BY RowsStaySound DEF ChunkIsSound
<1>4. (status = "complete" => GoneIsSound(watermark, StoredKeys))'
  <2> SUFFICES ASSUME status = "complete" PROVE GoneIsSound(watermark, StoredKeys)'
    OBVIOUS
  <2>1. PICK w, K : w = watermark /\ K = StoredKeys
    OBVIOUS
  <2>2. w \in {established, watermark} \ {None}
    BY <2>1 DEF HandoffInv, WatermarkKept
  <2>3. GoneIsSound(w, K)'
    BY <2>1, <2>2, SoundnessStays DEF HandoffInv
  <2> QED
    BY <1>1, <2>1, <2>3
<1> QED
  BY <1>2, <1>3, <1>4 DEF HandoffInv

(* The watermark is read below every change that is open at that moment.   *)
LEMMA HandoffEstablish ==
  ASSUME SourceAssumption, LoadAssumption, TypeInv, HandoffInv, OpenAtWatermark = FALSE,
         EstablishWatermark
  PROVE  HandoffInv'
<1>1. /\ pc = "watermark" /\ pc' = "read"
      /\ UNCHANGED <<origin, log, committed, status, baseRows, watermark, chunk, exhausted>>
  BY DEF EstablishWatermark, sourceVars, storeVars
<1>2. chunk' = {} /\ status' # "complete"
  BY <1>1 DEF HandoffInv, WatermarkKept
<1>3. UNCHANGED sourceVars
  BY <1>1 DEF sourceVars
<1>4. RowsAreSound(watermark)'
  BY <1>1, <1>3, RowsStaySound
<1>5. ChunkIsSound(established)'
  BY <1>2 DEF ChunkIsSound
<1>6. watermark' # None => established' = watermark'
  BY <1>1 DEF EstablishWatermark, HandoffInv, WatermarkKept
<1>7. (\A w \in {established, watermark} \ {None} : WindowHolds(w))'
  <2>1. CASE established # None
    BY <1>1, <1>3, <2>1, WindowsStay DEF EstablishWatermark
  <2>2. CASE established = None
    <3>1. watermark = None
      BY <1>1, <2>2 DEF HandoffInv, WatermarkKept
    <3>2. PICK wm \in {LastScn, LastScn + 1} :
            /\ \A i \in DOMAIN log \ committed : Scn(i) >= Checkpoint(wm)
            /\ established' = wm
      BY <2>2 DEF EstablishWatermark
    <3>3. DOMAIN log \ committed \subseteq Replayed(wm)
      BY <3>2 DEF Replayed
    <3>4. Replayed(wm)' = Replayed(wm)
      BY <1>1, WindowAfterCommit
    <3>5. WindowHolds(wm)'
      BY <1>1, <3>3, <3>4 DEF WindowHolds
    <3>6. ASSUME NEW w \in {established', watermark'} \ {None} PROVE WindowHolds(w)'
      <4>1. w = wm
        BY <1>1, <3>1, <3>2
      <4> QED
        BY <3>5, <4>1
    <3> QED
      BY <3>6
  <2> QED
    BY <2>1, <2>2
<1> QED
  BY <1>1, <1>2, <1>4, <1>5, <1>6, <1>7 DEF HandoffInv, WatermarkKept

(* A page shows what the table holds now, and the last page that no other  *)
(* row is left.                                                            *)
LEMMA HandoffRead ==
  ASSUME SourceAssumption, LoadAssumption, IsFiniteSet(Keys), TypeInv, RowsInv, BehindInv,
         HandoffInv, ReadPage
  PROVE  HandoffInv'
<1>1. /\ pc = "read" /\ pc' = "append" /\ UNCHANGED sourceVars
      /\ UNCHANGED <<status, baseRows, watermark, established>>
      /\ chunk' = Page(rowCount) /\ (exhausted' <=> IsLastPage(rowCount))
      /\ rowCount \in Nat /\ established # None
  BY DEF ReadPage, ReadOffset, storeVars, TypeInv, TypeOK, LoadInv
<1>2. PICK w : w = established
  OBVIOUS
<1>3. w \in {established, watermark} \ {None} /\ DOMAIN log \ committed \subseteq Replayed(w)
  BY <1>1, <1>2 DEF HandoffInv, WindowHolds
<1>4. ASSUME NEW k, NEW v, LatestImage(committed, origin, k, v) PROVE IsSound(w, k, v)'
  BY <1>1, <1>3, <1>4, VisibleIsSound, WindowStays DEF TypeInv, TypeOK
<1>5. ChunkIsSound(w)'
  <2>1. ASSUME NEW r \in Page(rowCount) PROVE IsSound(w, r.key, r.image)'
    <3>1. r.key \in Keys /\ r.image = ImageOf(committed, r.key)
      BY <1>1, PageMember DEF TypeInv, TypeOK, Live
    <3>2. LatestImage(committed, origin, r.key, r.image)
      BY <3>1, ImageOfIsLatest DEF TypeInv, TypeOK
    <3> QED
      BY <1>4, <3>2
  <2> QED
    BY <1>1, <2>1 DEF ChunkIsSound
<1>6. exhausted' => GoneIsSound(w, StoredKeys \cup ReadKeys)'
  <2> SUFFICES ASSUME exhausted', NEW k \in Keys, k \notin StoredKeys' \cup ReadKeys'
               PROVE  IsSound(w, k, Absent)'
    BY DEF GoneIsSound
  <2>1. StoredKeys' \cup ReadKeys' = {j \in Live : Rank(j) < rowCount + ChunkSize}
    BY <1>1, PageIsNext DEF StoredKeys, ReadKeys
  <2>2. Cardinality(Live) <= rowCount + ChunkSize /\ Cardinality(Live) \in Nat /\ ChunkSize \in Nat
    BY <1>1, LiveIsFinite DEF IsLastPage, LoadAssumption
  <2>3. k \notin Live
    <3> SUFFICES ASSUME k \in Live PROVE FALSE
      OBVIOUS
    <3>1. Rank(k) \in Nat /\ Rank(k) < Cardinality(Live)
      BY RankBound
    <3>2. Rank(k) < rowCount + ChunkSize
      BY <1>1, <2>2, <3>1
    <3> QED
      BY <2>1, <3>2
  <2> QED
    BY <1>4, <2>3 DEF Live
<1>7. RowsAreSound(watermark)'
  BY <1>1, RowsStaySound
<1>8. (\A u \in {established, watermark} \ {None} : WindowHolds(u))'
  BY <1>1, WindowsStay
<1>9. ChunkIsSound(established)' /\ (exhausted' => GoneIsSound(established, StoredKeys \cup ReadKeys)')
  BY <1>1, <1>2, <1>5, <1>6
<1>10. WatermarkKept' /\ status' # "complete"
  BY <1>1 DEF HandoffInv, WatermarkKept
<1> QED
  BY <1>7, <1>8, <1>9, <1>10 DEF HandoffInv

(* The page joins the stored rows under the watermark it was read with.    *)
LEMMA HandoffAppend ==
  ASSUME SourceAssumption, LoadAssumption, TypeInv, BehindInv, HandoffInv, AppendChunk
  PROVE  HandoffInv'
<1>1. /\ pc = "append" /\ established # None /\ UNCHANGED sourceVars
      /\ baseRows' = StoredRows /\ watermark' = established /\ chunk' = {}
      /\ status' = (IF exhausted THEN "complete" ELSE "in_progress")
      /\ IF exhausted THEN pc' = "idle" /\ established' = None
                      ELSE pc' \in {"pause", "check"} /\ established' = established
  BY DEF AppendChunk, EndRun, TypeInv, LoadInv
<1>2. PICK w : w = established
  OBVIOUS
<1>3. w \in {established, watermark} \ {None} /\ w # None
  BY <1>1, <1>2
<1>4. RowsAreSound(w)'
  <2>1. \A r \in baseRows : IsSound(w, r.key, r.image)
    BY <1>1, <1>2 DEF HandoffInv, RowsAreSound, TypeInv, LoadInv
  <2>2. \A r \in NewRows : IsSound(w, r.key, r.image)
    BY <1>2 DEF HandoffInv, ChunkIsSound, NewRows
  <2>3. \A r \in StoredRows : IsSound(w, r.key, r.image)'
    BY <1>1, <1>3, <2>1, <2>2, WindowStays DEF StoredRows
  <2> QED
    BY <1>1, <2>3 DEF RowsAreSound
<1>5. WindowHolds(w)'
  BY <1>1, <1>3, SoundnessStays
<1>6. exhausted => GoneIsSound(w, StoredKeys)'
  <2> SUFFICES ASSUME exhausted PROVE GoneIsSound(w, StoredKeys)'
    OBVIOUS
  <2>1. PICK K : K = StoredKeys \cup ReadKeys
    OBVIOUS
  <2>2. StoredKeys' = K
    BY <1>1, <2>1, AppendedKeys DEF StoredKeys
  <2>3. GoneIsSound(w, K)'
    BY <1>1, <1>2, <1>3, <2>1, SoundnessStays DEF HandoffInv
  <2> QED
    BY <2>2, <2>3
<1>7. (\A u \in {established, watermark} \ {None} : WindowHolds(u))'
  <2>1. ASSUME NEW u \in {established', watermark'} \ {None} PROVE WindowHolds(u)'
    <3>1. u = w
      BY <1>1, <1>2
    <3> QED
      BY <1>5, <3>1
  <2> QED
    BY <2>1
<1>8. RowsAreSound(watermark)' /\ (exhausted => GoneIsSound(watermark, StoredKeys)')
  BY <1>1, <1>2, <1>4, <1>6
<1>9. ChunkIsSound(established)'
  BY <1>1 DEF ChunkIsSound
<1>10. WatermarkKept' /\ pc' # "append" /\ (status' = "complete" => exhausted)
  BY <1>1, <1>2, <1>3 DEF WatermarkKept
<1> QED
  BY <1>7, <1>8, <1>9, <1>10 DEF HandoffInv

(* The durable pause stores the watermark of the run, which is that of the *)
(* stored rows where there are any.                                        *)
LEMMA HandoffPause ==
  ASSUME SourceAssumption, LoadAssumption, TypeInv, HandoffInv, PersistPause
  PROVE  HandoffInv'
<1>1. /\ pc = "pause" /\ UNCHANGED sourceVars /\ baseRows' = baseRows
      /\ watermark' = established /\ status' = "paused"
      /\ pc' = "idle" /\ established' = None /\ chunk' = {}
  BY DEF PersistPause, EndRun
<1>2. RowsAreSound(watermark)'
  <2>1. CASE baseRows = {}
    BY <1>1, <2>1 DEF RowsAreSound
  <2>2. CASE baseRows # {}
    <3>1. watermark' = watermark
      BY <1>1, <2>2 DEF TypeInv, LoadInv
    <3> QED
      BY <1>1, <3>1, RowsStaySound
  <2> QED
    BY <2>1, <2>2
<1>3. (\A w \in {established, watermark} \ {None} : WindowHolds(w))'
  BY <1>1, WindowsStay
<1>4. ChunkIsSound(established)' /\ WatermarkKept'
  BY <1>1 DEF ChunkIsSound, WatermarkKept
<1> QED
  BY <1>1, <1>2, <1>3, <1>4 DEF HandoffInv

LEMMA HandoffNext ==
  ASSUME SourceAssumption, LoadAssumption, IsFiniteSet(Keys), OpenAtWatermark = FALSE,
         TypeInv, RowsInv, BehindInv, HandoffInv, [Next]_vars
  PROVE  HandoffInv'
<1>1. CASE StartRun
  <2>1. /\ pc = "idle" /\ pc' = "check" /\ status # "complete" /\ established' = watermark
        /\ UNCHANGED <<status, baseRows, watermark, chunk>> /\ UNCHANGED sourceVars
    BY <1>1 DEF StartRun, ResumeWatermark, storeVars
  <2>2. chunk = {}
    BY <2>1 DEF HandoffInv, WatermarkKept
  <2>3. WatermarkKept'
    BY <2>1, <2>2 DEF WatermarkKept
  <2> QED
    BY <2>1, <2>2, <2>3, HandoffNoChunk
<1>2. CASE EstablishWatermark
  BY <1>2, HandoffEstablish
<1>3. CASE ReadPage
  BY <1>3, HandoffRead
<1>4. CASE AppendChunk
  BY <1>4, HandoffAppend
<1>5. CASE PersistPause
  BY <1>5, HandoffPause
<1>6. CASE Crash
  <2>1. /\ pc # "idle" /\ pc' = "idle" /\ established' = None /\ chunk' = {}
        /\ UNCHANGED <<status, baseRows, watermark>> /\ UNCHANGED sourceVars
    BY <1>6 DEF Crash, EndRun, storeVars
  <2>2. WatermarkKept'
    BY <2>1 DEF HandoffInv, WatermarkKept
  <2> QED
    BY <2>1, <2>2, HandoffNoChunk
<1>7. CASE CheckPause \/ OperatorPause \/ OperatorResume \/ SourceMoves \/ UNCHANGED vars
  <2>1. /\ SourceMoves \/ UNCHANGED sourceVars
        /\ UNCHANGED <<storeVars, established, chunk, exhausted>>
        /\ pc' = pc \/ (pc = "check" /\ pc' \in {"pause", "watermark"})
    BY <1>7 DEF CheckPause, OperatorPause, OperatorResume, SourceMoves, vars, runVars
  <2> QED
    BY <2>1, HandoffQuiet
<1> QED
  BY <1>1, <1>2, <1>3, <1>4, <1>5, <1>6, <1>7 DEF Next, RunStep

(* What a completed load holds of a row is sound for its watermark.        *)
LEMMA LoadedIsSound ==
  ASSUME HandoffInv, status = "complete", NEW k \in Keys
  PROVE  IsSound(watermark, k, LoadedImage(k))
<1>1. CASE RowsOf(k) = {}
  <2>1. k \notin StoredKeys /\ LoadedImage(k) = Absent
    BY <1>1 DEF RowsOf, StoredKeys, LoadedImage
  <2> QED
    BY <2>1 DEF HandoffInv, GoneIsSound
<1>2. CASE RowsOf(k) # {}
  <2>1. PICK r \in RowsOf(k) : r = CHOOSE s \in RowsOf(k) : TRUE
    BY <1>2
  <2>2. r \in baseRows /\ r.key = k /\ LoadedImage(k) = r.image
    BY <1>2, <2>1 DEF RowsOf, LoadedImage
  <2> QED
    BY <2>2 DEF HandoffInv, RowsAreSound
<1> QED
  BY <1>1, <1>2

LEMMA HandoffImplies ==
  ASSUME HandoffInv PROVE HandoffAsAssumed /\ NoRowMissed
<1>1. Overlap = Replayed(watermark)
  BY DEF Overlap, Replayed
<1>2. HandoffAsAssumed
  BY <1>1, LoadedIsSound DEF HandoffAsAssumed, IsSound
<1>3. ASSUME status = "complete", committed = DOMAIN log, NEW k \in Keys,
             \A i \in Overlap : ~Touches(i, k)
      PROVE  LatestImage(committed, origin, k, LoadedImage(k))
  <2>1. LatestImage(DOMAIN log \ Overlap, origin, k, LoadedImage(k))
    BY <1>1, <1>3, LoadedIsSound DEF IsSound
  <2>2. \A i \in DOMAIN log : Touches(i, k) => i \in DOMAIN log \ Overlap
    BY <1>3
  <2> QED
    BY <1>3, <2>1, <2>2 DEF LatestImage
<1> QED
  BY <1>2, <1>3 DEF NoRowMissed

LEMMA HandoffAlways ==
  ASSUME SourceAssumption, LoadAssumption, IsFiniteSet(Keys), RowsMoveBehind = FALSE,
         OpenAtWatermark = FALSE
  PROVE  Spec => []HandoffInv
<1>1. Init => TypeInv /\ RowsInv /\ BehindInv /\ HandoffInv
  BY TypeInit, RowsInit, BehindInit, HandoffInit
<1>2. TypeInv /\ RowsInv /\ BehindInv /\ HandoffInv /\ [Next]_vars
        => TypeInv' /\ RowsInv' /\ BehindInv' /\ HandoffInv'
  BY TypeNext, RowsNext, BehindNext, HandoffNext
<1> QED
  BY <1>1, <1>2, PTL DEF Spec

(* What Incremental Capture is handed is what IncrementalSync starts from: *)
(* each row as it was when the replayed window began, or as a change of    *)
(* the window wrote it, over any pauses, crashes and resumed runs.         *)
THEOREM HandoffAsAssumedHolds ==
  ASSUME SourceAssumption, LoadAssumption, IsFiniteSet(Keys), RowsMoveBehind = FALSE,
         OpenAtWatermark = FALSE
  PROVE  Spec => []HandoffAsAssumed
<1>1. HandoffInv => HandoffAsAssumed
  BY HandoffImplies
<1> QED
  BY <1>1, HandoffAlways, PTL

(* With the two assumptions the runs load_row_removed and the README name  *)
(* the cutover loses no row that the replay would not bring.               *)
THEOREM NoRowMissedHolds ==
  ASSUME SourceAssumption, LoadAssumption, IsFiniteSet(Keys), RowsMoveBehind = FALSE,
         OpenAtWatermark = FALSE
  PROVE  Spec => []NoRowMissed
<1>1. HandoffInv => NoRowMissed
  BY HandoffImplies
<1> QED
  BY <1>1, HandoffAlways, PTL

=============================================================================
