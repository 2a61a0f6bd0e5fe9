-------------------------------- MODULE MCLab --------------------------------
(* Two instances in one: the processes of the Lab, whose Scenarios only     *)
(* pass, fail or break off, or the product path of one Scenario.            *)
EXTENDS LabRun, LabScenarios

CONSTANT MaxDisturbances  \* bound: crashes, faults and Operator commands together

Symmetry == Permutations(Runners)

NoScript == scenario = "none" /\ fault = None /\ step = 0 /\ product = None /\ verdict = "none"
IsIdle(p) ==
  /\ p.verb = "status" /\ p.at = "ended" /\ p.then = "ended"
  /\ ~p.autoRemove /\ p.verdict = "none" /\ ~p.removed
NoRun ==
  /\ lock = NoFile /\ proc \in [Runners -> {p \in Processes : IsIdle(p)}] /\ fixture = TRUE /\ app = TRUE
  /\ namespace = [s \in Scenarios |-> {}]
  /\ crashes = 0 /\ faults = 0 /\ operator = 0
  /\ raced = FALSE /\ upped = FALSE /\ stranded = FALSE /\ revived = {}

MCInit == (Init /\ NoScript) \/ (NoRun /\ ScriptInit)
MCNext ==
  \/ /\ scenario = "none" /\ Next /\ UNCHANGED scripted
     /\ crashes' + faults' + operator' <= MaxDisturbances
  \/ scenario # "none" /\ ScriptNext /\ UNCHANGED vars
MCSpec == MCInit /\ [][MCNext]_<<vars, scripted>>
=============================================================================
