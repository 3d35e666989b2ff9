---------------------------- MODULE JobLifecycle ----------------------------
(***************************************************************************)
(* The life of scan jobs between the HTTP handlers of                      *)
(* app/api/routers/jobs.py, the ScanRunner and the database.               *)
(*                                                                         *)
(* A run is one attempt to execute a job: an HTTP request POST             *)
(* /jobs/{id}/run with the runner it starts (inline or as a background     *)
(* task), or a caller of ScanRunner.run_job that made no claim.  The scan  *)
(* itself is one step here; module ScanRunner opens it up.  Commits and    *)
(* reads may fail and the process may be restarted at any point, MaxFaults *)
(* times in all.                                                           *)
(***************************************************************************)
EXTENDS Naturals, Sequences

CONSTANTS
  Jobs,       \* the scan jobs
  Requests,   \* POST /jobs/{id}/run requests
  Direct,     \* calls of ScanRunner.run_job without a claim
  Target,     \* the job of each run
  MaxFaults,  \* bound on the faults of a behaviour
  FaultKinds  \* the faults that may happen: subset of "commit", "read", "crash"

Runs == Requests \cup Direct

\* A caller that makes no claim has its job to itself.
ASSUME RunsAssumption ==
  /\ Target \in [Runs -> Jobs]
  /\ Requests \cap Direct = {}
  /\ \A d \in Direct, r \in Requests : Target[d] # Target[r]
  /\ MaxFaults \in Nat

VARIABLES
  status,  \* the committed status of each job ("absent" before the insert)
  audit,   \* the committed audit rows of each job, oldest first
  pc,      \* where each run is
  faults   \* faults so far

db == <<status, audit>>
vars == <<db, pc, faults>>

Terminal == {"completed", "failed"}

\* A run that will still do something, and one whose UPDATE is uncommitted and
\* so holds the lock of the job's row.
Active == {"claiming", "claimed", "called", "starting", "started", "scanning",
           "completing", "failing", "finished"}
Ended == {"refused", "returned", "raised", "lost"}
Locked(j) == \E r \in Runs : pc[r] = "claiming" /\ Target[r] = j

Init ==
  /\ status = [j \in Jobs |-> "absent"]
  /\ audit = [j \in Jobs |-> <<>>]
  /\ pc = [r \in Runs |-> "idle"]
  /\ faults = 0

Go(r, from, to) == pc[r] = from /\ pc' = [pc EXCEPT ![r] = to]

\* One committed transaction on the job of a run: its status and an audit row.
Commit(j, to, row) ==
  /\ status' = [status EXCEPT ![j] = to]
  /\ audit' = [audit EXCEPT ![j] = Append(@, row)]

\* plan_job commits a pending job with its job_submitted row.
Submit(j) ==
  /\ status[j] = "absent"
  /\ Commit(j, "pending", "submitted")
  /\ UNCHANGED <<pc, faults>>

\* Mutants of Claim: the status is read without the lock the UPDATE takes, or
\* the WHERE clause leaves the status out.
ClaimWithoutLock(r) ==
  /\ r \in Requests
  /\ status[Target[r]] = "pending"
  /\ Go(r, "idle", "claiming")
  /\ UNCHANGED <<db, faults>>

ClaimAnyStatus(r) ==
  /\ r \in Requests
  /\ ~ Locked(Target[r])
  /\ status[Target[r]] # "absent"
  /\ Go(r, "idle", "claiming")
  /\ UNCHANGED <<db, faults>>

\* _claim_job: UPDATE ... WHERE status = 'pending' RETURNING finds the row.
\* A row another transaction has updated makes the statement wait.
Claim(r) ==
  /\ r \in Requests
  /\ ~ Locked(Target[r])
  /\ status[Target[r]] = "pending"
  /\ Go(r, "idle", "claiming")
  /\ UNCHANGED <<db, faults>>

\* _claim_job: the UPDATE finds no pending row, the reply is 404 or 409.
RefuseClaim(r) ==
  /\ r \in Requests
  /\ ~ Locked(Target[r])
  /\ status[Target[r]] # "pending"
  /\ Go(r, "idle", "refused")
  /\ UNCHANGED <<db, faults>>

\* _claim_job commits the running status with the job_started row.
CommitClaim(r) ==
  /\ Go(r, "claiming", "claimed")
  /\ Commit(Target[r], "running", "started")
  /\ UNCHANGED faults

\* The job is refreshed and published, then the handler or the background task
\* calls ScanRunner.run_job.
CallRunner(r) ==
  /\ Go(r, "claimed", "called")
  /\ UNCHANGED <<db, faults>>

\* A caller without a claim calls run_job; nobody else runs the job then.
CallDirectly(r) ==
  /\ r \in Direct
  /\ \A s \in Runs : Target[s] = Target[r] => pc[s] \notin Active
  /\ Go(r, "idle", "called")
  /\ UNCHANGED <<db, faults>>

\* Mutant of Begin: only a pending job may be run.
BeginPendingOnly(r) ==
  /\ \/ status[Target[r]] = "pending" /\ Go(r, "called", "starting")
     \/ status[Target[r]] # "pending" /\ Go(r, "called", "raised")
  /\ UNCHANGED <<db, faults>>

\* run_job reads the job: it goes on with a running one, starts a pending one
\* and raises ValueError for any other.
Begin(r) ==
  /\ \/ status[Target[r]] = "running" /\ Go(r, "called", "scanning")
     \/ status[Target[r]] = "pending" /\ Go(r, "called", "starting")
     \/ status[Target[r]] \notin {"running", "pending"} /\ Go(r, "called", "raised")
  /\ UNCHANGED <<db, faults>>

\* run_job commits the running status of a job nobody claimed.
CommitStart(r) ==
  /\ Go(r, "starting", "started")
  /\ Commit(Target[r], "running", "started")
  /\ UNCHANGED faults

EnterScan(r) ==
  /\ Go(r, "started", "scanning")
  /\ UNCHANGED <<db, faults>>

\* The body of the try block ends: the completed status is set in memory, or an
\* exception (inactive engagement, bad ports, an analysis or database error)
\* leads to the except block, which rolls back and sets the failed status.
ScanEnds(r) ==
  /\ Go(r, "scanning", "completing") \/ Go(r, "scanning", "failing")
  /\ UNCHANGED <<db, faults>>

\* After the try block: the completed status and its job_finished row.
CommitCompleted(r) ==
  /\ Go(r, "completing", "finished")
  /\ Commit(Target[r], "completed", "completed")
  /\ UNCHANGED faults

\* Mutants of CommitFailed: a status the table does not know, or a job_finished
\* row with the verdict of a completed job.
CommitFailedAsError(r) ==
  /\ Go(r, "failing", "raised")
  /\ Commit(Target[r], "error", "failed")
  /\ UNCHANGED faults

CommitFailedAsCompleted(r) ==
  /\ Go(r, "failing", "raised")
  /\ Commit(Target[r], "failed", "completed")
  /\ UNCHANGED faults

\* In the except block: the failed status and its row, then the exception again.
CommitFailed(r) ==
  /\ Go(r, "failing", "raised")
  /\ Commit(Target[r], "failed", "failed")
  /\ UNCHANGED faults

Return(r) ==
  /\ Go(r, "finished", "returned")
  /\ UNCHANGED <<db, faults>>

Fault(kind) ==
  /\ kind \in FaultKinds
  /\ faults < MaxFaults
  /\ faults' = faults + 1
  /\ UNCHANGED db

\* A commit raises and its transaction is rolled back.  The exception leaves
\* the handler or the runner: each of these commits is outside the try block.
CommitFails(r) ==
  /\ Fault("commit")
  /\ \E from \in {"claiming", "starting", "completing", "failing"} : Go(r, from, "raised")

\* A read outside the try block raises: the refresh after a commit, or the get
\* run_job begins with.
ReadFails(r) ==
  /\ Fault("read")
  /\ \E from \in {"claimed", "called", "started", "finished"} : Go(r, from, "raised")

\* The process dies and starts again: open transactions are rolled back and the
\* start-up code looks at no job.
Crash ==
  /\ Fault("crash")
  /\ pc' = [r \in Runs |-> IF pc[r] \in Active THEN "lost" ELSE pc[r]]
  /\ \E r \in Runs : pc[r] \in Active

\* The steps of a run that nothing but the run itself must take.
Advance(r) ==
  \/ CommitClaim(r)
  \/ CallRunner(r)
  \/ Begin(r)
  \/ CommitStart(r)
  \/ EnterScan(r)
  \/ ScanEnds(r)
  \/ CommitCompleted(r)
  \/ CommitFailed(r)
  \/ Return(r)

Next ==
  \/ \E j \in Jobs : Submit(j)
  \/ \E r \in Runs :
       \/ Claim(r)
       \/ RefuseClaim(r)
       \/ CallDirectly(r)
       \/ Advance(r)
       \/ CommitFails(r)
       \/ ReadFails(r)
  \/ Crash

Spec == Init /\ [][Next]_vars

\* asyncio runs every task that is ready, and the database answers or raises.
FairSpec == Spec /\ \A r \in Runs : WF_vars(Advance(r))

-----------------------------------------------------------------------------

Contract == INSTANCE JobContract

TypeOK ==
  /\ status \in [Jobs -> Contract!Status]
  /\ audit \in [Jobs -> Seq(Contract!Rows)]
  /\ pc \in [Runs -> {"idle"} \cup Active \cup Ended]
  /\ faults \in 0 .. MaxFaults

\* However many requests race for a job, whatever fails and whenever the
\* process restarts, at most one run of the job is ever under way.
AtMostOneRun ==
  \A r, s \in Runs :
    pc[r] \in Active /\ pc[s] \in Active /\ Target[r] = Target[s] => r = s

\* The audit log tells the job's history exactly: in order, without a gap or a
\* repetition, and never ahead of or behind the committed status.
History(s) ==
  LET submitted == Append(<<>>, "submitted")
      started == Append(submitted, "started")
  IN  CASE s = "absent"  -> <<>>
        [] s = "pending" -> submitted
        [] s = "running" -> started
        [] s \in Terminal -> Append(started, s)

AuditMatchesStatus == \A j \in Jobs : audit[j] = History(status[j])

\* As long as nothing has failed, a running job has a run that works on it.
RunningHasRun ==
  faults = 0 =>
    \A j \in Jobs : status[j] = "running" =>
      \E r \in Runs : Target[r] = j /\ pc[r] \in Active

\* What a run has read of its job stays true until its next commit, although it
\* holds no lock while it scans: its last commit finds the job still running.
RunSeesStatus ==
  \A r \in Runs :
    /\ pc[r] \in {"claiming", "starting"} => status[Target[r]] = "pending"
    /\ pc[r] \in {"claimed", "started", "scanning", "completing", "failing"} =>
         status[Target[r]] = "running"
    /\ pc[r] = "finished" => status[Target[r]] = "completed"

\* The database moves as the contract says: every step of every run maps to
\* one committed move or to none.
ContractKept == Contract!Spec

\* A running job is completed or failed in the end, whatever else is requested
\* meanwhile, as long as no commit and no read fails and nothing restarts.
JobsFinishUnlessFault ==
  \A j \in Jobs : status[j] = "running" ~> status[j] \in Terminal \/ faults > 0

\* runner.py:1: the runner "drives a ScanJob to completion".
RunningJobsFinish ==
  \A j \in Jobs : status[j] = "running" ~> status[j] \in Terminal
=============================================================================
