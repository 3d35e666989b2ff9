---------------------------- MODULE JobContract -----------------------------
(***************************************************************************)
(* What a reader of the database may rely on about scan jobs: a job goes   *)
(* pending, running and then completed or failed, once, and each move      *)
(* appears together with its row of the audit log.                         *)
(***************************************************************************)
EXTENDS Sequences

CONSTANT Jobs

VARIABLES
  status,  \* the committed status of each job ("absent" before the insert)
  audit    \* the committed audit rows of each job, oldest first

Terminal == {"completed", "failed"}
Status == {"absent", "pending", "running"} \cup Terminal
Rows == {"submitted", "started"} \cup Terminal

Init ==
  /\ status = [j \in Jobs |-> "absent"]
  /\ audit = [j \in Jobs |-> <<>>]

\* A committed transaction moves one job and appends one audit row.
Move(j, from, to, row) ==
  /\ status[j] = from
  /\ status' = [status EXCEPT ![j] = to]
  /\ audit' = [audit EXCEPT ![j] = Append(@, row)]

Submit(j) == Move(j, "absent", "pending", "submitted")
Start(j) == Move(j, "pending", "running", "started")
Finish(j, outcome) == Move(j, "running", outcome, outcome)

Next ==
  \E j \in Jobs :
    \/ Submit(j)
    \/ Start(j)
    \/ \E outcome \in Terminal : Finish(j, outcome)

vars == <<status, audit>>

Spec == Init /\ [][Next]_vars
=============================================================================
