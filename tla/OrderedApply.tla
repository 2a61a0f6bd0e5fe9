---------------------------- MODULE OrderedApply ----------------------------
(***************************************************************************)
(* What Incremental Capture promises of one Base Dataset, whatever its     *)
(* windows, retries, crashes and checkpoints do (ADR-0004, ADR-0029): each *)
(* committed row change takes effect once, and not before every earlier    *)
(* committed row change of the table has.                                  *)
(***************************************************************************)
EXTENDS SourceRedo

VARIABLES
  handoff,  \* the Base Dataset at the end of Initial Load
  base,     \* durable Base Dataset
  applied   \* changes recorded as applied

applyVars == <<origin, log, committed, handoff, base, applied>>

(* Initial Load read each row at some moment after the low-watermark. *)
HandoffInit ==
  handoff \in {h \in [Keys -> {Absent} \cup 0 .. MaxOverlap] :
                 \A k \in Keys :
                   \/ h[k] = origin[k]
                   \/ \E i \in DOMAIN log : Touches(i, k) /\ h[k] = Image(i)}

Init ==
  /\ SourceInit
  /\ HandoffInit
  /\ base = handoff
  /\ applied = {}

Apply(i) ==
  /\ i \in committed \ applied
  /\ IsRow(i)
  /\ \A j \in committed : IsRow(j) /\ j < i => j \in applied
  /\ base' = [base EXCEPT ![log[i].key] = Image(i)]
  /\ applied' = applied \cup {i}
  /\ UNCHANGED <<origin, log, committed, handoff>>

AcknowledgeDdl(i) ==
  /\ i \in committed \ applied
  /\ IsDdl(i)
  /\ applied' = applied \cup {i}
  /\ UNCHANGED <<origin, log, committed, handoff, base>>

Next ==
  \/ SourceStep /\ UNCHANGED <<handoff, base, applied>>
  \/ \E i \in committed : Apply(i) \/ AcknowledgeDdl(i)

Spec == Init /\ [][Next]_applyVars

=============================================================================
