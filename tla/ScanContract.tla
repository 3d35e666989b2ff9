---------------------------- MODULE ScanContract ----------------------------
(***************************************************************************)
(* What a client that polls a running job (its stats and the hosts of the  *)
(* engagement it has written) may rely on: the phases go one way, counters *)
(* and rows only grow and agree with each other, a completed job accounts  *)
(* for every host, and a failed one shows what had been committed before.  *)
(***************************************************************************)
EXTENDS Naturals, FiniteSets

CONSTANT Hosts

VARIABLES
  phase,     \* stats["phase"]
  ports,     \* stats["ports_scanned"]
  scanned,   \* stats["hosts_scanned"]
  errors,    \* stats["errors"]
  analyzed,  \* stats["hosts_analyzed"]
  hosts      \* the hosts the job has committed

counters == <<ports, scanned, errors, analyzed, hosts>>
vars == <<phase, counters>>

Init ==
  /\ phase = "preparing"
  /\ <<ports, scanned, errors, analyzed>> = <<0, 0, 0, 0>>
  /\ hosts = {}

\* The counters move on together with the rows they count.
Grow ==
  /\ ports' >= ports /\ scanned' >= scanned /\ errors' >= errors
  /\ hosts \subseteq hosts' /\ hosts' \subseteq Hosts
  /\ analyzed' = Cardinality(hosts')
  /\ analyzed' + errors' <= scanned' /\ scanned' <= Cardinality(Hosts)

Start == phase = "preparing" /\ phase' = "scanning" /\ UNCHANGED counters

Report ==
  /\ phase \in {"scanning", "analyzing"}
  /\ phase' \in {phase, "analyzing"}
  /\ Grow

Complete ==
  /\ phase \in {"scanning", "analyzing"}
  /\ phase' = "completed"
  /\ Grow
  /\ analyzed' + errors' = Cardinality(Hosts)

Fail ==
  /\ phase \in {"preparing", "scanning", "analyzing"}
  /\ phase' = "failed"
  /\ UNCHANGED counters

Spec == Init /\ [][Start \/ Report \/ Complete \/ Fail]_vars
=============================================================================
