------------------------- MODULE JobLifecycleProofs -------------------------
(***************************************************************************)
(* Proofs about JobLifecycle for any number of jobs, requests and faults.  *)
(***************************************************************************)
EXTENDS JobLifecycle, TLAPS

\* A run past "called" that came through a request found its job running, and
\* only a caller without a claim starts a pending job.
ClaimedRuns ==
  \A r \in Requests :
    /\ pc[r] = "called" => status[Target[r]] = "running"
    /\ pc[r] \notin {"starting", "started"}

IInv == TypeOK /\ AtMostOneRun /\ RunSeesStatus /\ ClaimedRuns

USE DEF Active, Ended, Terminal, db, Go, Commit, Fault,
        Contract!Status, Contract!Rows, Contract!Terminal

\* Before the first request no job exists and no run is under way.
LEMMA InitIInv == Init => IInv
  BY RunsAssumption
     DEF Init, IInv, TypeOK, AtMostOneRun, RunSeesStatus, ClaimedRuns, Runs

\* Every step of a handler or a run writes statuses, rows and places it knows.
LEMMA NextTypeOK == TypeOK /\ [Next]_vars => TypeOK'
<1> SUFFICES ASSUME TypeOK, [Next]_vars PROVE TypeOK'
  OBVIOUS
<1> USE RunsAssumption DEF TypeOK
<1>1. ASSUME NEW j \in Jobs, Submit(j) PROVE TypeOK'
  BY <1>1 DEF Submit
<1>2. ASSUME NEW r \in Runs,
             Claim(r) \/ RefuseClaim(r) \/ CallDirectly(r) PROVE TypeOK'
  BY <1>2 DEF Claim, RefuseClaim, CallDirectly
<1>3. ASSUME NEW r \in Runs, Advance(r) PROVE TypeOK'
  <2>1. CASE CommitClaim(r)
    BY <2>1 DEF CommitClaim
  <2>2. CASE CommitStart(r)
    BY <2>2 DEF CommitStart
  <2>3. CASE CommitCompleted(r)
    BY <2>3 DEF CommitCompleted
  <2>4. CASE CommitFailed(r)
    BY <2>4 DEF CommitFailed
  <2>5. CASE CallRunner(r) \/ Begin(r) \/ EnterScan(r) \/ ScanEnds(r) \/ Return(r)
    BY <2>5 DEF CallRunner, Begin, EnterScan, ScanEnds, Return
  <2> QED
    BY <1>3, <2>1, <2>2, <2>3, <2>4, <2>5 DEF Advance
<1>4. ASSUME NEW r \in Runs, CommitFails(r) \/ ReadFails(r) PROVE TypeOK'
  BY SMTT(30), <1>4 DEF CommitFails, ReadFails
<1>5. CASE Crash
  BY <1>5 DEF Crash
<1>6. CASE UNCHANGED vars
  BY <1>6 DEF vars
<1> QED
  BY <1>1, <1>2, <1>3, <1>4, <1>5, <1>6 DEF Next

\* The runs of a job exclude one another.  A claim needs a pending job, whose
\* row no other run has updated; every other active run of a request has its
\* job running or completed, so none can be under way.
LEMMA NextIInv == IInv /\ [Next]_vars => IInv'
<1> SUFFICES ASSUME IInv, [Next]_vars PROVE IInv'
  OBVIOUS
<1>0. TypeOK'
  BY NextTypeOK DEF IInv
<1> USE RunsAssumption DEF IInv, TypeOK
<1>1. ASSUME NEW j \in Jobs, Submit(j) PROVE IInv'
  BY <1>0, <1>1 DEF Submit, AtMostOneRun, RunSeesStatus, ClaimedRuns, Runs
<1>2. ASSUME NEW r \in Runs, Claim(r) PROVE IInv'
  <2>1. ASSUME NEW s \in Runs, Target[s] = Target[r] PROVE pc[s] \notin Active
    BY <1>2, <2>1 DEF Claim, Locked, RunSeesStatus, ClaimedRuns, Runs
  <2> QED
    BY <1>0, <1>2, <2>1 DEF Claim, AtMostOneRun, RunSeesStatus, ClaimedRuns, Runs
<1>3. ASSUME NEW r \in Runs, RefuseClaim(r) PROVE IInv'
  BY <1>0, <1>3 DEF RefuseClaim, AtMostOneRun, RunSeesStatus, ClaimedRuns, Runs
<1>4. ASSUME NEW r \in Runs, CallDirectly(r) PROVE IInv'
  BY <1>0, <1>4 DEF CallDirectly, AtMostOneRun, RunSeesStatus, ClaimedRuns, Runs
<1>5. ASSUME NEW r \in Runs, Advance(r) PROVE IInv'
  <2> USE DEF AtMostOneRun, RunSeesStatus, ClaimedRuns, Runs
  <2>1. CASE CommitClaim(r)
    BY <1>0, <2>1 DEF CommitClaim
  <2>2. CASE CallRunner(r)
    BY <1>0, <2>2 DEF CallRunner
  <2>3. CASE Begin(r)
    BY <1>0, <2>3 DEF Begin
  <2>4. CASE CommitStart(r)
    BY <1>0, <2>4 DEF CommitStart
  <2>5. CASE EnterScan(r)
    BY <1>0, <2>5 DEF EnterScan
  <2>6. CASE ScanEnds(r)
    BY <1>0, <2>6 DEF ScanEnds
  <2>7. CASE CommitCompleted(r)
    BY <1>0, <2>7 DEF CommitCompleted
  <2>8. CASE CommitFailed(r)
    BY <1>0, <2>8 DEF CommitFailed
  <2>9. CASE Return(r)
    BY <1>0, <2>9 DEF Return
  <2> QED
    BY <1>5, <2>1, <2>2, <2>3, <2>4, <2>5, <2>6, <2>7, <2>8, <2>9 DEF Advance
<1>6. ASSUME NEW r \in Runs, CommitFails(r) \/ ReadFails(r) PROVE IInv'
  <2>1. pc' = [pc EXCEPT ![r] = "raised"] /\ UNCHANGED db
    BY <1>6 DEF CommitFails, ReadFails
  <2> QED
    BY <1>0, <2>1 DEF AtMostOneRun, RunSeesStatus, ClaimedRuns, Runs
<1>7. CASE Crash
  <2>1. \A r \in Runs : pc'[r] \in {"idle"} \cup Ended
    BY <1>7 DEF Crash
  <2> QED
    BY <1>0, <1>7, <2>1 DEF AtMostOneRun, RunSeesStatus, ClaimedRuns, Runs
<1>8. CASE UNCHANGED vars
  BY <1>0, <1>8 DEF vars, AtMostOneRun, RunSeesStatus, ClaimedRuns
<1> QED
  BY <1>1, <1>2, <1>3, <1>4, <1>5, <1>6, <1>7, <1>8 DEF Next

\* The inductive invariant holds of every behaviour, with any number of jobs,
\* requests and faults.
THEOREM LifecycleInv == Spec => []IInv
  BY InitIInv, NextIInv, PTL DEF Spec

\* Statuses, audit rows and program counters keep their types: no handler writes
\* a status or an audit action the tables do not know.
THEOREM TypeSafe == Spec => []TypeOK
  BY LifecycleInv, PTL DEF IInv

\* No two runs of one job are ever under way at once, whatever the number of
\* requests and faults.
THEOREM OneRunSafe == Spec => []AtMostOneRun
  BY LifecycleInv, PTL DEF IInv

\* A run's belief about the status of its job stays true while it scans.
THEOREM SeesStatusSafe == Spec => []RunSeesStatus
  BY LifecycleInv, PTL DEF IInv

\* Without faults a running job always has the run that will finish it: a run
\* leaves Active only by moving its job on, or when its job is not running.
THEOREM RunningHasRunSafe == Spec => []RunningHasRun
<1>1. Init => RunningHasRun
  BY DEF Init, RunningHasRun
<1>2. IInv /\ RunningHasRun /\ [Next]_vars => RunningHasRun'
  <2> SUFFICES ASSUME IInv, RunningHasRun, [Next]_vars,
                      faults' = 0, NEW k \in Jobs, status'[k] = "running"
               PROVE  \E r \in Runs : Target[r] = k /\ pc'[r] \in Active
    BY DEF RunningHasRun
  <2> USE RunsAssumption DEF IInv, TypeOK
  <2>1. CASE \E j \in Jobs : Submit(j)
    BY <2>1 DEF Submit, RunningHasRun
  <2>2. ASSUME NEW r \in Runs,
               Claim(r) \/ RefuseClaim(r) \/ CallDirectly(r)
        PROVE  \E s \in Runs : Target[s] = k /\ pc'[s] \in Active
    <3>1. faults = 0 /\ status[k] = "running"
      BY <2>2 DEF Claim, RefuseClaim, CallDirectly
    <3>2. PICK q \in Runs : Target[q] = k /\ pc[q] \in Active
      BY <3>1 DEF RunningHasRun
    <3>3. pc'[q] \in Active
      BY <2>2, <3>2 DEF Claim, RefuseClaim, CallDirectly
    <3> QED
      BY <3>2, <3>3
  <2>3. ASSUME NEW r \in Runs, Advance(r)
        PROVE  \E s \in Runs : Target[s] = k /\ pc'[s] \in Active
    <3>1. CASE CommitClaim(r) \/ CommitStart(r)
      <4>1. pc'[r] \in Active /\ \A s \in Runs : s # r => pc'[s] = pc[s]
        BY <3>1 DEF CommitClaim, CommitStart
      <4>2. Target[r] # k => status[k] = "running" /\ faults = 0
        BY <3>1 DEF CommitClaim, CommitStart
      <4>3. CASE Target[r] = k
        BY <4>1, <4>3
      <4>4. CASE Target[r] # k
        <5>1. PICK q \in Runs : Target[q] = k /\ pc[q] \in Active
          BY <4>2, <4>4 DEF RunningHasRun
        <5>2. pc'[q] \in Active
          BY <4>1, <4>4, <5>1
        <5> QED
          BY <5>1, <5>2
      <4> QED
        BY <4>3, <4>4
    <3>2. CASE CommitCompleted(r) \/ CommitFailed(r)
      <4>1. Target[r] # k /\ status[k] = "running" /\ faults = 0
        BY <3>2 DEF CommitCompleted, CommitFailed
      <4>2. \A s \in Runs : s # r => pc'[s] = pc[s]
        BY <3>2 DEF CommitCompleted, CommitFailed
      <4>3. PICK q \in Runs : Target[q] = k /\ pc[q] \in Active
        BY <4>1 DEF RunningHasRun
      <4>4. pc'[q] \in Active
        BY <4>1, <4>2, <4>3
      <4> QED
        BY <4>3, <4>4
    <3>3. CASE CallRunner(r) \/ Begin(r) \/ EnterScan(r) \/ ScanEnds(r) \/ Return(r)
      <4>1. status[k] = "running" /\ faults = 0
        BY <3>3 DEF CallRunner, Begin, EnterScan, ScanEnds, Return
      <4>2. PICK q \in Runs : Target[q] = k /\ pc[q] \in Active
        BY <4>1 DEF RunningHasRun
      <4>3. pc'[q] \in Active
        BY <3>3, <4>1, <4>2
           DEF CallRunner, Begin, EnterScan, ScanEnds, Return, RunSeesStatus
      <4> QED
        BY <4>2, <4>3
    <3> QED
      BY <2>3, <3>1, <3>2, <3>3 DEF Advance
  <2>4. ASSUME NEW r \in Runs, CommitFails(r) \/ ReadFails(r) PROVE FALSE
    BY <2>4 DEF CommitFails, ReadFails
  <2>5. CASE Crash
    BY <2>5 DEF Crash
  <2>6. CASE UNCHANGED vars
    BY <2>6 DEF vars, RunningHasRun
  <2> QED
    BY <2>1, <2>2, <2>3, <2>4, <2>5, <2>6 DEF Next
<1> QED
  BY <1>1, <1>2, LifecycleInv, PTL DEF Spec

-----------------------------------------------------------------------------
(***************************************************************************)
(* The lifecycle implements the contract.                                  *)
(***************************************************************************)

\* A committed step of a run is one move of the contract, any other is none.
LEMMA StepKeepsContract ==
  ASSUME IInv, [Next]_vars
  PROVE  [Contract!Next]_Contract!vars
<1> USE RunsAssumption
        DEF IInv, TypeOK, RunSeesStatus, Contract!Next, Contract!Submit, Contract!Start,
            Contract!Finish, Contract!Move, Contract!vars
<1>1. ASSUME NEW j \in Jobs, Submit(j) PROVE Contract!Next
  BY <1>1 DEF Submit
<1>2. ASSUME NEW r \in Runs, CommitClaim(r) \/ CommitStart(r) PROVE Contract!Next
  <2>1. Contract!Start(Target[r])
    BY <1>2 DEF CommitClaim, CommitStart
  <2> QED
    BY <2>1
<1>3. ASSUME NEW r \in Runs, CommitCompleted(r) PROVE Contract!Next
  <2>1. Contract!Finish(Target[r], "completed")
    BY <1>3 DEF CommitCompleted
  <2> QED
    BY <2>1
<1>4. ASSUME NEW r \in Runs, CommitFailed(r) PROVE Contract!Next
  <2>1. Contract!Finish(Target[r], "failed")
    BY <1>4 DEF CommitFailed
  <2> QED
    BY <2>1
<1>5. ASSUME NEW r \in Runs,
             \/ Claim(r) \/ RefuseClaim(r) \/ CallDirectly(r) \/ CallRunner(r)
             \/ Begin(r) \/ EnterScan(r) \/ ScanEnds(r) \/ Return(r)
             \/ CommitFails(r) \/ ReadFails(r)
      PROVE  UNCHANGED Contract!vars
  BY <1>5 DEF Claim, RefuseClaim, CallDirectly, CallRunner, Begin, EnterScan,
              ScanEnds, Return, CommitFails, ReadFails
<1>6. Crash \/ UNCHANGED vars => UNCHANGED Contract!vars
  BY DEF Crash, vars
<1> QED
  BY <1>1, <1>2, <1>3, <1>4, <1>5, <1>6 DEF Next, Advance

\* Seen through the database, every behaviour of the handlers, the runners and
\* the faults is a behaviour of the contract.
THEOREM LifecycleImplementsContract == Spec => ContractKept
<1>1. Init => Contract!Init
  BY DEF Init, Contract!Init
<1> QED
  BY <1>1, StepKeepsContract, LifecycleInv, PTL DEF Spec, ContractKept, Contract!Spec

\* One move of the contract extends the history of one job.
LEMMA MoveKeepsAudit ==
  ASSUME TypeOK, AuditMatchesStatus, [Contract!Next]_Contract!vars
  PROVE  AuditMatchesStatus'
<1> USE DEF AuditMatchesStatus, TypeOK
<1>1. ASSUME NEW j \in Jobs, Contract!Submit(j) PROVE AuditMatchesStatus'
  BY <1>1 DEF Contract!Submit, Contract!Move, History
<1>2. ASSUME NEW j \in Jobs, Contract!Start(j) PROVE AuditMatchesStatus'
  BY <1>2 DEF Contract!Start, Contract!Move, History
<1>3. ASSUME NEW j \in Jobs, NEW o \in Terminal, Contract!Finish(j, o)
      PROVE  AuditMatchesStatus'
  BY <1>3 DEF Contract!Finish, Contract!Move, History
<1>4. CASE UNCHANGED Contract!vars
  BY <1>4 DEF Contract!vars
<1> QED
  BY <1>1, <1>2, <1>3, <1>4 DEF Contract!Next

\* The audit rows of a job are its history, in order and without gaps, in every
\* reachable state.
THEOREM AuditSafe == Spec => []AuditMatchesStatus
<1>1. Init => AuditMatchesStatus
  BY DEF Init, AuditMatchesStatus, History
<1>2. IInv /\ AuditMatchesStatus /\ [Next]_vars => AuditMatchesStatus'
  BY StepKeepsContract, MoveKeepsAudit DEF IInv
<1> QED
  BY <1>1, <1>2, LifecycleInv, PTL DEF Spec
=============================================================================
