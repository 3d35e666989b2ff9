----------------------------- MODULE ScanRunner -----------------------------
(***************************************************************************)
(* The inside of ScanRunner.run_job (app/scan/runner.py) with the part of  *)
(* TcpConnectScanner.scan_host it drives: one task per host, one coroutine *)
(* per port, a bounded event queue, and the coordinator that takes the     *)
(* events, persists hosts, keeps the progress counters and commits.        *)
(*                                                                         *)
(* asyncio runs one coroutine at a time and switches only at an await, so  *)
(* the code between two awaits is one action.  The database is seen as its *)
(* committed content (stored) and the rows of the open transaction (rows). *)
(***************************************************************************)
EXTENDS Naturals, Sequences, FiniteSets

CONSTANTS
  Hosts,      \* the addresses expand_targets returns
  Ports,      \* the ports resolve_ports returns
  BadPorts,   \* the ports whose connect may raise what _scan_port does not catch
  HostLimit,  \* host_concurrency
  QueueSize   \* maxsize of the event queue

ASSUME ScanAssumption ==
  /\ IsFiniteSet(Hosts) /\ Hosts # {}
  /\ IsFiniteSet(Ports) /\ BadPorts \subseteq Ports
  /\ HostLimit \in Nat \ {0} /\ QueueSize \in Nat \ {0}

VARIABLES
  runner,    \* where run_job is
  inScope,   \* the hosts the guard loaded by this run authorizes
  task,      \* the scan task of each host
  outcome,   \* the event each task reports at its end: "host" or "error"
  probe,     \* the coroutine of each host and port
  events,    \* the event queue: pairs of a kind and a host
  current,   \* the host the coordinator is analyzing
  finished,  \* hosts_finished
  counts,    \* ScanProgress._host_port_counts
  progress,  \* the counters of ScanProgress
  rows,      \* the host rows the open transaction sees
  stored     \* the committed counters and host rows

scanVars == <<task, outcome, probe>>
dbVars == <<rows, stored>>
vars == <<runner, inScope, scanVars, events, current, finished, counts, progress, dbVars>>

NumHosts == Cardinality(Hosts)
NumPorts == Cardinality(Ports)
InFlight == {"probing", "reporting"}

Fresh == [phase |-> "preparing", ports_scanned |-> 0, hosts_scanned |-> 0,
          hosts_analyzed |-> 0, errors |-> 0]

Init ==
  /\ runner = "preparing"
  /\ inScope = {}
  /\ task = [h \in Hosts |-> "none"]
  /\ outcome = [h \in Hosts |-> "none"]
  /\ probe = [h \in Hosts |-> [p \in Ports |-> "none"]]
  /\ events = <<>>
  /\ current = {}
  /\ finished = 0
  /\ counts = [h \in Hosts |-> 0]
  /\ progress = Fresh
  /\ rows = {}
  /\ stored = [stats |-> Fresh, hosts |-> {}]

-----------------------------------------------------------------------------
(* The scan tasks and their port coroutines.                               *)

\* Mutants of StartHost: the scanner does not ask the gate, or the task does
\* not wait for the semaphore.
StartHostWithoutGate(h) ==
  /\ task[h] = "created"
  /\ Cardinality({g \in Hosts : task[g] = "scanning"}) < HostLimit
  /\ task' = [task EXCEPT ![h] = "scanning"]
  /\ probe' = [probe EXCEPT ![h] = [p \in Ports |-> "probing"]]
  /\ UNCHANGED <<outcome, runner, inScope, events, current, finished, counts, progress, dbVars>>

StartHostAtOnce(h) ==
  /\ task[h] = "created"
  /\ IF h \in inScope
     THEN /\ task' = [task EXCEPT ![h] = "scanning"]
          /\ probe' = [probe EXCEPT ![h] = [p \in Ports |-> "probing"]]
          /\ UNCHANGED outcome
     ELSE /\ task' = [task EXCEPT ![h] = "reporting"]
          /\ outcome' = [outcome EXCEPT ![h] = "error"]
          /\ UNCHANGED probe
  /\ UNCHANGED <<runner, inScope, events, current, finished, counts, progress, dbVars>>

\* A task enters the host semaphore and the gate decides: the host is refused
\* before any socket, or a coroutine starts for every port.
StartHost(h) ==
  /\ task[h] = "created"
  /\ Cardinality({g \in Hosts : task[g] = "scanning"}) < HostLimit
  /\ IF h \in inScope
     THEN /\ task' = [task EXCEPT ![h] = "scanning"]
          /\ probe' = [probe EXCEPT ![h] = [p \in Ports |-> "probing"]]
          /\ UNCHANGED outcome
     ELSE /\ task' = [task EXCEPT ![h] = "reporting"]
          /\ outcome' = [outcome EXCEPT ![h] = "error"]
          /\ UNCHANGED probe
  /\ UNCHANGED <<runner, inScope, events, current, finished, counts, progress, dbVars>>

\* _scan_port returns a state for the port.
Probe(h, p) ==
  /\ probe[h][p] = "probing"
  /\ probe' = [probe EXCEPT ![h][p] = "reporting"]
  /\ UNCHANGED <<runner, inScope, task, outcome, events, current, finished, counts, progress, dbVars>>

\* _scan_port raises.  gather passes the first exception on and the task leaves
\* the semaphore; the other coroutines of the host are not cancelled.
ProbeRaises(h, p) ==
  /\ probe[h][p] = "probing"
  /\ p \in BadPorts
  /\ probe' = [probe EXCEPT ![h][p] = "raised"]
  /\ IF task[h] = "scanning"
     THEN /\ task' = [task EXCEPT ![h] = "reporting"]
          /\ outcome' = [outcome EXCEPT ![h] = "error"]
     ELSE UNCHANGED <<task, outcome>>
  /\ UNCHANGED <<runner, inScope, events, current, finished, counts, progress, dbVars>>

\* The port's event is put as soon as the queue has room.
PutPort(h, p) ==
  /\ probe[h][p] = "reporting"
  /\ Len(events) < QueueSize
  /\ events' = Append(events, <<"port", h>>)
  /\ probe' = [probe EXCEPT ![h][p] = "done"]
  /\ UNCHANGED <<runner, inScope, task, outcome, current, finished, counts, progress, dbVars>>

\* Mutant of HostScanned: the first coroutine to return ends the wait.
HostScannedEarly(h) ==
  /\ task[h] = "scanning"
  /\ \E p \in Ports : probe[h][p] = "done"
  /\ task' = [task EXCEPT ![h] = "reporting"]
  /\ outcome' = [outcome EXCEPT ![h] = "host"]
  /\ UNCHANGED <<runner, inScope, probe, events, current, finished, counts, progress, dbVars>>

\* gather returns when every coroutine has, and the task leaves the semaphore.
HostScanned(h) ==
  /\ task[h] = "scanning"
  /\ \A p \in Ports : probe[h][p] = "done"
  /\ task' = [task EXCEPT ![h] = "reporting"]
  /\ outcome' = [outcome EXCEPT ![h] = "host"]
  /\ UNCHANGED <<runner, inScope, probe, events, current, finished, counts, progress, dbVars>>

PutHost(h) ==
  /\ task[h] = "reporting"
  /\ Len(events) < QueueSize
  /\ events' = Append(events, <<outcome[h], h>>)
  /\ task' = [task EXCEPT ![h] = "done"]
  /\ UNCHANGED <<runner, inScope, outcome, probe, current, finished, counts, progress, dbVars>>

-----------------------------------------------------------------------------
(* The coordinator.                                                        *)

\* The guard, the ports and the addresses are read, the first counters are
\* committed, and every task is created.
Prepare(scope) ==
  /\ runner = "preparing"
  /\ runner' = "scanning"
  /\ inScope' = scope
  /\ progress' = [progress EXCEPT !.phase = "scanning"]
  /\ stored' = [stored EXCEPT !.stats = progress']
  /\ task' = [h \in Hosts |-> "created"]
  /\ UNCHANGED <<outcome, probe, events, current, finished, counts, rows>>

\* The tail of an iteration: the counters and the open rows are committed when
\* half a second has passed, a service was found or the last host is finished.
EmitProgress(p, hosts) ==
  /\ progress' = p
  /\ rows' = hosts
  /\ \/ stored' = [stats |-> p, hosts |-> hosts]
     \/ finished' < NumHosts /\ UNCHANGED stored

Take(kind) ==
  /\ runner = "scanning"
  /\ finished < NumHosts
  /\ events # <<>>
  /\ Head(events)[1] = kind
  /\ events' = Tail(events)
  /\ UNCHANGED <<inScope, scanVars>>

\* record_port: a host counts as scanned with its last port, and the phase
\* moves on with the last port of all hosts.
RecordPort(h) ==
  LET whole == counts[h] + 1 = NumPorts
      all == progress.ports_scanned + 1 = NumHosts * NumPorts
  IN  [progress EXCEPT
         !.ports_scanned = @ + 1,
         !.hosts_scanned = @ + (IF whole THEN 1 ELSE 0),
         !.phase = IF all THEN "analyzing" ELSE @]

TakePort ==
  /\ Take("port")
  /\ LET h == Head(events)[2]
     IN  /\ counts' = [counts EXCEPT ![h] = @ + 1]
         /\ UNCHANGED <<finished, runner, current>>
         /\ EmitProgress(RecordPort(h), rows)

\* Mutant of TakeError: the host is not counted as finished.
TakeErrorUnfinished ==
  /\ Take("error")
  /\ UNCHANGED <<finished, counts, runner, current>>
  /\ EmitProgress([progress EXCEPT !.hosts_scanned = @ + 1, !.errors = @ + 1], rows)

\* record_scan_error: the host counts as scanned and as an error.
TakeError ==
  /\ Take("error")
  /\ finished' = finished + 1
  /\ UNCHANGED <<counts, runner, current>>
  /\ EmitProgress([progress EXCEPT !.hosts_scanned = @ + 1, !.errors = @ + 1], rows)

\* A scanned host is fingerprinted and enriched while the tasks go on.
TakeHost ==
  /\ Take("host")
  /\ finished' = finished + 1
  /\ current' = {Head(events)[2]}
  /\ runner' = "analyzing"
  /\ UNCHANGED <<counts, progress, dbVars>>

\* Its rows are upserted, then it is recorded.
Persist ==
  /\ runner = "analyzing"
  /\ current' = {}
  /\ runner' = "scanning"
  /\ UNCHANGED <<inScope, scanVars, events, finished, counts>>
  /\ EmitProgress([progress EXCEPT !.hosts_analyzed = @ + 1], rows \cup current)

\* Preparing, analyzing, persisting or committing raises.  Inside the loop the
\* tasks are cancelled next, before it there are none.
Raise ==
  /\ runner \in {"preparing", "scanning", "analyzing"}
  /\ runner' = IF runner = "preparing" THEN "failing" ELSE "cancelling"
  /\ current' = {}
  /\ UNCHANGED <<inScope, scanVars, events, finished, counts, progress, dbVars>>

\* Mutant of CancelTasks: the tasks are left to themselves.
CancelTasksForgotten ==
  /\ runner = "cancelling"
  /\ runner' = "failing"
  /\ UNCHANGED <<inScope, scanVars, events, current, finished, counts, progress, dbVars>>

\* Every task that is not done is cancelled, and with it the gather it waits in.
\* A coroutine whose task has left its gather is out of reach.
CancelTasks ==
  /\ runner = "cancelling"
  /\ task' = [h \in Hosts |-> IF task[h] = "done" THEN "done" ELSE "cancelled"]
  /\ probe' = [h \in Hosts |->
       [p \in Ports |->
          IF task[h] = "scanning" /\ probe[h][p] \in InFlight
          THEN "cancelled" ELSE probe[h][p]]]
  /\ runner' = "failing"
  /\ UNCHANGED <<inScope, outcome, events, current, finished, counts, progress, dbVars>>

\* Mutants of FailJob: the failure is committed with the counters in memory, or
\* in the place of the counters.
FailJobFromMemory ==
  /\ runner = "failing"
  /\ rows' = stored.hosts
  /\ stored' = [stored EXCEPT !.stats = [progress EXCEPT !.phase = "failed"]]
  /\ runner' = "failed"
  /\ UNCHANGED <<inScope, scanVars, events, current, finished, counts, progress>>

FailJobAfresh ==
  /\ runner = "failing"
  /\ rows' = stored.hosts
  /\ stored' = [stored EXCEPT !.stats = [Fresh EXCEPT !.phase = "failed"]]
  /\ runner' = "failed"
  /\ UNCHANGED <<inScope, scanVars, events, current, finished, counts, progress>>

\* The except block rolls back, reads the job again and commits the failure on
\* top of the counters it finds there.
FailJob ==
  /\ runner = "failing"
  /\ rows' = stored.hosts
  /\ stored' = [stored EXCEPT !.stats.phase = "failed"]
  /\ runner' = "failed"
  /\ UNCHANGED <<inScope, scanVars, events, current, finished, counts, progress>>

\* After the last host the tasks are joined.  A run in which the ports did not
\* add up enters the analyzing phase here, and says so if it has counted at all.
JoinTasks ==
  /\ runner = "scanning"
  /\ finished = NumHosts
  /\ \A h \in Hosts : task[h] = "done"
  /\ progress' = [progress EXCEPT !.phase = "analyzing"]
  /\ IF /\ progress.phase # "analyzing"
        /\ progress.ports_scanned + progress.errors > 0
     THEN stored' = [stats |-> progress', hosts |-> rows]
     ELSE UNCHANGED stored
  /\ runner' = "completing"
  /\ UNCHANGED <<inScope, scanVars, events, current, finished, counts, rows>>

\* The completed status is committed with the final counters.
CompleteJob ==
  /\ runner = "completing"
  /\ progress' = [progress EXCEPT !.phase = "completed"]
  /\ stored' = [stats |-> progress', hosts |-> rows]
  /\ runner' = "completed"
  /\ UNCHANGED <<inScope, scanVars, events, current, finished, counts, rows>>

-----------------------------------------------------------------------------

Scan(h) ==
  \/ StartHost(h)
  \/ \E p \in Ports : Probe(h, p) \/ ProbeRaises(h, p) \/ PutPort(h, p)
  \/ HostScanned(h)
  \/ PutHost(h)

Coordinate ==
  \/ \E scope \in SUBSET Hosts : Prepare(scope)
  \/ TakePort \/ TakeError \/ TakeHost
  \/ Persist
  \/ CancelTasks
  \/ FailJob
  \/ JoinTasks
  \/ CompleteJob

Next == (\E h \in Hosts : Scan(h)) \/ Coordinate \/ Raise

Spec == Init /\ [][Next]_vars

\* The event loop runs some coroutine as long as one can go on: sockets have
\* timeouts and the database answers or raises.  Nothing is said of which one.
FairSpec == Spec /\ WF_vars((\E h \in Hosts : Scan(h)) \/ Coordinate)

-----------------------------------------------------------------------------

Phases == {"preparing", "scanning", "analyzing", "completed", "failed"}
Stats == [phase: Phases, ports_scanned: Nat, hosts_scanned: Nat,
          hosts_analyzed: Nat, errors: Nat]

\* The counters a client reads never disagree with the rows it can query: the
\* committed hosts_analyzed is the number of committed hosts, at every commit,
\* after a rollback, and in a failed job.
StoredStatsMatchRows == stored.stats.hosts_analyzed = Cardinality(stored.hosts)

\* The coroutines of a host one of whose ports has raised are on their own.
Raised(h) == \E p \in Ports : probe[h][p] = "raised"

\* A completed job accounts for every host: in scope and scanned to the last
\* port, with its rows committed, or an error, and the counters say which.
CompletedIsComplete ==
  runner = "completed" =>
    /\ stored.hosts = {h \in inScope : ~ Raised(h)}
    /\ stored.stats.hosts_scanned = NumHosts
    /\ stored.stats.errors = NumHosts - Cardinality(stored.hosts)
    /\ stored.stats.ports_scanned >= Cardinality(stored.hosts) * NumPorts

\* A host gets rows only if the gate let it through and every port of it was
\* probed to the end (scanner.py:122-148, runner.py:126-163), also in a job that
\* fails later and keeps what it has committed.
RowsAreScanned ==
  \A h \in rows \cup stored.hosts :
    h \in inScope /\ \A p \in Ports : probe[h][p] = "done"

\* Once the job says that it analyzes its results or has ended, no connection
\* is open any more and no coroutine of the scan is left behind, but for those
\* of a host whose gather a raising port has ended.
ScanOverWhenSaid ==
  (progress.phase \in {"analyzing", "completed"} \/ runner \in {"failing", "failed"}) =>
    \A h \in Hosts : Raised(h) \/ \A p \in Ports : probe[h][p] \notin InFlight

\* The semaphore of the tasks bounds the hosts that are really probed, although
\* the port coroutines are not the tasks that hold it: no host is probed after
\* its task has left, unless one of its ports raised.
HostsBounded ==
  Cardinality({h \in Hosts : ~ Raised(h) /\ \E p \in Ports : probe[h][p] \in InFlight})
    <= HostLimit

\* The queue, the semaphore and the cancellation never leave the coordinator
\* and the tasks waiting on one another: every run ends.
RunEnds == <>(runner \in {"completed", "failed"})

Contract == INSTANCE ScanContract WITH
  phase <- stored.stats.phase,
  ports <- stored.stats.ports_scanned,
  scanned <- stored.stats.hosts_scanned,
  errors <- stored.stats.errors,
  analyzed <- stored.stats.hosts_analyzed,
  hosts <- stored.hosts

\* Commits, rollbacks and the failure on top of them implement ScanContract: a
\* client never sees a counter or a phase go back, nor a failed job take the
\* results it has shown away (runner.py:118-207, progress.py:42-100).
ContractKept == Contract!Spec
=============================================================================
