-------------------------- MODULE ScanRunnerProofs --------------------------
(***************************************************************************)
(* Proofs about ScanRunner for any hosts, ports, queue size and number of  *)
(* hosts scanned at a time.                                                *)
(***************************************************************************)
EXTENDS ScanRunner, SequenceTheorems, FiniteSetTheorems, TLAPS

\* The variables keep their types.
Shapes ==
  /\ inScope \subseteq Hosts /\ current \subseteq Hosts /\ rows \subseteq Hosts
  /\ task \in [Hosts -> {"none", "created", "scanning", "reporting", "done", "cancelled"}]
  /\ outcome \in [Hosts -> {"none", "host", "error"}]
  /\ probe \in [Hosts -> [Ports ->
       {"none", "probing", "reporting", "done", "raised", "cancelled"}]]
  /\ events \in Seq({"port", "host", "error"} \X Hosts)
  /\ progress \in Stats
  /\ stored \in [stats: Stats, hosts: SUBSET Hosts]

\* Before the tasks are created there is nothing to take or to store.
Unprepared ==
  runner = "preparing" =>
    /\ \A h \in Hosts : task[h] = "none" /\ \A p \in Ports : probe[h][p] = "none"
    /\ events = <<>> /\ rows = {} /\ current = {}

\* A task has an outcome from the moment it has one to report, and a host whose
\* ports are probed, or were to the last one, was let through.
Outcomes ==
  \A h \in Hosts :
    /\ task[h] \in {"none", "created", "scanning"} => outcome[h] = "none"
    /\ task[h] = "reporting" => outcome[h] # "none"
    /\ task[h] = "scanning" => h \in inScope
    /\ outcome[h] = "host" => h \in inScope /\ \A p \in Ports : probe[h][p] = "done"

\* The event in which a task reports its outcome: none but the task of the host
\* puts it, once, and it is taken before the host has rows.
Report(i) == events[i][1] # "port"

Reports ==
  /\ \A i \in 1 .. Len(events) : Report(i) =>
       /\ task[events[i][2]] = "done" /\ outcome[events[i][2]] = events[i][1]
       /\ events[i][2] \notin rows \cup current
  /\ \A i, j \in 1 .. Len(events) :
       i < j /\ Report(i) /\ Report(j) => events[i][2] # events[j][2]

\* The host that is analyzed has been taken, and is not among the rows yet.
Analyzed ==
  /\ \A h \in rows \cup current : task[h] = "done" /\ outcome[h] = "host"
  /\ current \cap rows = {}
  /\ runner = "analyzing" => \E h \in Hosts : current = {h}

\* Until the failure is committed the counter in memory agrees with the rows of
\* the transaction, which has all that is committed.
Accounts ==
  /\ stored.hosts \subseteq rows
  /\ runner # "failed" => progress.hosts_analyzed = Cardinality(rows)
  /\ StoredStatsMatchRows

\* Coroutines in flight belong to tasks that hold the semaphore, except after an
\* exception.
Held ==
  /\ Cardinality({h \in Hosts : task[h] = "scanning"}) <= HostLimit
  /\ \A h \in Hosts :
       (\E p \in Ports : probe[h][p] \in InFlight) => task[h] = "scanning" \/ Raised(h)

IInv == Shapes /\ Unprepared /\ Outcomes /\ Reports /\ Analyzed /\ Accounts /\ Held

Kinds == {"port", "host", "error"}

\* Before the run there is nothing at all.
LEMMA InitIInv == Init => IInv
<1> SUFFICES ASSUME Init PROVE IInv
  OBVIOUS
<1> USE DEF Init, Fresh, Stats, Phases
<1>1. Shapes
  BY EmptySeq DEF Shapes
<1>2. Unprepared /\ Outcomes /\ Analyzed
  BY DEF Unprepared, Outcomes, Analyzed
<1>3. Reports
  <2>1. Len(events) = 0
    BY EmptySeq
  <2> QED
    BY <2>1 DEF Reports
<1>4. Accounts
  BY FS_EmptySet DEF Accounts, StoredStatsMatchRows
<1>5. Held
  <2> DEFINE S == {h \in Hosts : task[h] = "scanning"}
  <2>1. S = {}
    OBVIOUS
  <2>2. Cardinality(S) <= HostLimit
    <3> HIDE DEF S, Init
    <3>1. Cardinality(S) = 0
      BY <2>1, FS_EmptySet
    <3> QED
      BY <3>1, ScanAssumption
  <2>3. \A h \in Hosts, p \in Ports : probe[h][p] \notin InFlight
    BY DEF InFlight
  <2> QED
    BY <2>2, <2>3 DEF Held
<1> QED
  BY <1>1, <1>2, <1>3, <1>4, <1>5 DEF IInv

-----------------------------------------------------------------------------
(* The tasks and their coroutines.                                         *)

\* If no task enters the semaphore its bound is kept.
LEMMA FewerScanning ==
  ASSUME Cardinality({g \in Hosts : task[g] = "scanning"}) <= HostLimit,
         \A g \in Hosts : task'[g] = "scanning" => task[g] = "scanning"
  PROVE  Cardinality({g \in Hosts : task'[g] = "scanning"}) <= HostLimit
<1> DEFINE S == {g \in Hosts : task[g] = "scanning"}
           T == {g \in Hosts : task'[g] = "scanning"}
<1>1. S \in SUBSET Hosts /\ T \in SUBSET S /\ Cardinality(S) <= HostLimit
  OBVIOUS
<1> HIDE DEF S, T
<1>2. IsFiniteSet(S)
  BY <1>1, FS_Subset, ScanAssumption
<1>3. IsFiniteSet(T) /\ Cardinality(T) <= Cardinality(S)
  BY <1>1, <1>2, FS_Subset
<1>4. Cardinality(S) \in Nat /\ Cardinality(T) \in Nat
  BY <1>2, <1>3, FS_CardinalityType
<1>5. Cardinality(T) <= HostLimit
  BY <1>1, <1>3, <1>4, ScanAssumption
<1> QED
  BY <1>5 DEF T

\* A task starts while the semaphore has room.
LEMMA StartIInv ==
  ASSUME IInv, NEW h \in Hosts, StartHost(h)
  PROVE  IInv'
<1> USE DEF IInv
<1>1. /\ task[h] = "created"
      /\ Cardinality({g \in Hosts : task[g] = "scanning"}) < HostLimit
      /\ UNCHANGED <<runner, inScope, events, current, progress, rows, stored>>
      /\ \/ /\ h \in inScope /\ task' = [task EXCEPT ![h] = "scanning"]
            /\ probe' = [probe EXCEPT ![h] = [p \in Ports |-> "probing"]]
            /\ outcome' = outcome
         \/ /\ task' = [task EXCEPT ![h] = "reporting"]
            /\ outcome' = [outcome EXCEPT ![h] = "error"]
            /\ probe' = probe
  BY DEF StartHost, dbVars
<1>2. Shapes'
  <2>1. /\ task' \in [Hosts -> {"none", "created", "scanning", "reporting", "done", "cancelled"}]
        /\ outcome' \in [Hosts -> {"none", "host", "error"}]
    BY <1>1 DEF Shapes
  <2>2. [p \in Ports |-> "probing"] \in
          [Ports -> {"none", "probing", "reporting", "done", "raised", "cancelled"}]
    OBVIOUS
  <2>3. probe' \in [Hosts -> [Ports ->
          {"none", "probing", "reporting", "done", "raised", "cancelled"}]]
    BY <1>1, <2>2 DEF Shapes
  <2> QED
    BY <1>1, <2>1, <2>3 DEF Shapes
<1>3. Unprepared'
  BY <1>1 DEF Unprepared
<1>4. Outcomes'
  BY <1>1 DEF Outcomes, Shapes
<1>5. \A g \in Hosts : task[g] = "done" => task'[g] = "done" /\ outcome'[g] = outcome[g]
  BY <1>1 DEF Shapes
<1>6. \A i \in 1 .. Len(events) : events[i][2] \in Hosts
  BY ElementOfSeq DEF Shapes
<1>7. Reports' /\ Analyzed' /\ Accounts'
  BY <1>1, <1>5, <1>6 DEF Reports, Report, Analyzed, Accounts, StoredStatsMatchRows, Shapes
<1>8. Held'
  <2> DEFINE S == {g \in Hosts : task[g] = "scanning"}
             T == {g \in Hosts : task'[g] = "scanning"}
  <2>1. S \in SUBSET Hosts /\ Cardinality(S) < HostLimit
    BY <1>1
  <2>2. T = S \/ T = S \cup {h}
    BY <1>1 DEF Shapes
  <2>3. Cardinality(T) <= HostLimit
    <3> HIDE DEF S, T
    <3>1. IsFiniteSet(S)
      BY <2>1, FS_Subset, ScanAssumption
    <3>2. Cardinality(S) \in Nat
      BY <3>1, FS_CardinalityType
    <3>3. Cardinality(S \cup {h}) \in {Cardinality(S), Cardinality(S) + 1}
      BY <3>1, FS_AddElement
    <3> QED
      BY <2>1, <2>2, <3>2, <3>3, ScanAssumption
  <2>4. \A g \in Hosts : (\E p \in Ports : probe'[g][p] \in InFlight) =>
          task'[g] = "scanning" \/ Raised(g)'
    BY <1>1 DEF Held, Shapes, Raised, InFlight
  <2> QED
    BY <2>3, <2>4 DEF Held
<1> QED
  BY <1>2, <1>3, <1>4, <1>7, <1>8

\* What a step of a port's coroutine needs to keep.
LEMMA PortIInv ==
  ASSUME IInv, NEW h \in Hosts, NEW p \in Ports, Probe(h, p) \/ ProbeRaises(h, p)
  PROVE  IInv'
<1> USE DEF IInv
<1>1. /\ probe[h][p] = "probing"
      /\ UNCHANGED <<runner, inScope, events, current, progress, rows, stored>>
      /\ \/ probe' = [probe EXCEPT ![h][p] = "reporting"] /\ UNCHANGED <<task, outcome>>
         \/ /\ probe' = [probe EXCEPT ![h][p] = "raised"]
            /\ \/ UNCHANGED <<task, outcome>>
               \/ /\ task[h] = "scanning"
                  /\ task' = [task EXCEPT ![h] = "reporting"]
                  /\ outcome' = [outcome EXCEPT ![h] = "error"]
  BY DEF Probe, ProbeRaises, dbVars
<1>2. outcome[h] # "host"
  BY <1>1 DEF Outcomes
<1>3. Shapes'
  <2>1. /\ task' \in [Hosts -> {"none", "created", "scanning", "reporting", "done", "cancelled"}]
        /\ outcome' \in [Hosts -> {"none", "host", "error"}]
    BY <1>1 DEF Shapes
  <2>2. \E x \in {"reporting", "raised"} : probe' = [probe EXCEPT ![h][p] = x]
    BY <1>1
  <2>3. probe' \in [Hosts -> [Ports ->
          {"none", "probing", "reporting", "done", "raised", "cancelled"}]]
    BY <2>2 DEF Shapes
  <2> QED
    BY <1>1, <2>1, <2>3 DEF Shapes
<1>4. Unprepared'
  BY <1>1 DEF Unprepared
<1>5. Outcomes'
  BY <1>1, <1>2 DEF Outcomes, Shapes
<1>6. \A g \in Hosts : task[g] = "done" => task'[g] = "done" /\ outcome'[g] = outcome[g]
  BY <1>1 DEF Shapes
<1>7. \A i \in 1 .. Len(events) : events[i][2] \in Hosts
  BY ElementOfSeq DEF Shapes
<1>8. Reports' /\ Analyzed' /\ Accounts'
  <2>1. Reports'
    BY <1>1, <1>6, <1>7 DEF Reports, Report
  <2>2. Analyzed' /\ Accounts'
    BY <1>1, <1>6 DEF Analyzed, Accounts, StoredStatsMatchRows, Shapes
  <2> QED
    BY <2>1, <2>2
<1>9. Held'
  <2>1. \A g \in Hosts : task'[g] = "scanning" => task[g] = "scanning"
    BY <1>1 DEF Shapes
  <2>2. Cardinality({g \in Hosts : task'[g] = "scanning"}) <= HostLimit
    BY <2>1, FewerScanning DEF Held
  <2>3. \A g \in Hosts : (\E q \in Ports : probe'[g][q] \in InFlight) =>
          task'[g] = "scanning" \/ Raised(g)'
    BY <1>1 DEF Held, Shapes, Raised, InFlight
  <2> QED
    BY <2>2, <2>3 DEF Held
<1> QED
  BY <1>3, <1>4, <1>5, <1>8, <1>9

\* gather has returned: every coroutine of the host is done.
LEMMA ScannedIInv ==
  ASSUME IInv, NEW h \in Hosts, HostScanned(h)
  PROVE  IInv'
<1> USE DEF IInv
<1>1. /\ task[h] = "scanning" /\ \A p \in Ports : probe[h][p] = "done"
      /\ task' = [task EXCEPT ![h] = "reporting"]
      /\ outcome' = [outcome EXCEPT ![h] = "host"]
      /\ UNCHANGED <<runner, inScope, probe, events, current, progress, rows, stored>>
  BY DEF HostScanned, dbVars
<1>2. Shapes' /\ Unprepared'
  BY <1>1 DEF Shapes, Unprepared
<1>3. h \in inScope
  BY <1>1 DEF Outcomes
<1>4. Outcomes'
  BY <1>1, <1>3 DEF Outcomes, Shapes
<1>5. \A g \in Hosts : task[g] = "done" => task'[g] = "done" /\ outcome'[g] = outcome[g]
  BY <1>1 DEF Shapes
<1>6. \A i \in 1 .. Len(events) : events[i][2] \in Hosts
  BY ElementOfSeq DEF Shapes
<1>7. Reports'
  BY <1>1, <1>5, <1>6 DEF Reports, Report
<1>8. Analyzed' /\ Accounts'
  BY <1>1, <1>5 DEF Analyzed, Accounts, StoredStatsMatchRows, Shapes
<1>9. Held'
  <2>1. \A g \in Hosts : task'[g] = "scanning" => task[g] = "scanning"
    BY <1>1 DEF Shapes
  <2>2. Cardinality({g \in Hosts : task'[g] = "scanning"}) <= HostLimit
    BY <2>1, FewerScanning DEF Held
  <2>3. \A g \in Hosts : (\E q \in Ports : probe'[g][q] \in InFlight) =>
          task'[g] = "scanning" \/ Raised(g)'
    BY <1>1 DEF Held, Shapes, Raised, InFlight
  <2> QED
    BY <2>2, <2>3 DEF Held
<1> QED
  BY <1>2, <1>4, <1>7, <1>8, <1>9

\* A port's event reports nothing about its host.
LEMMA PutPortIInv ==
  ASSUME IInv, NEW h \in Hosts, NEW p \in Ports, PutPort(h, p)
  PROVE  IInv'
<1> USE DEF IInv
<1>1. /\ probe[h][p] = "reporting"
      /\ events' = Append(events, <<"port", h>>)
      /\ probe' = [probe EXCEPT ![h][p] = "done"]
      /\ UNCHANGED <<runner, inScope, task, outcome, current, progress, rows, stored>>
  BY DEF PutPort, dbVars
<1>2. /\ events' \in Seq(Kinds \X Hosts) /\ Len(events') = Len(events) + 1
      /\ Len(events) \in Nat
      /\ \A i \in 1 .. Len(events) : events'[i] = events[i]
      /\ events'[Len(events) + 1] = <<"port", h>>
  <2>1. <<"port", h>> \in Kinds \X Hosts /\ events \in Seq(Kinds \X Hosts)
    BY DEF Kinds, Shapes
  <2> QED
    BY <1>1, <2>1, AppendProperties, LenProperties
<1>3. Shapes'
  <2>1. probe' \in [Hosts -> [Ports ->
          {"none", "probing", "reporting", "done", "raised", "cancelled"}]]
    BY <1>1 DEF Shapes
  <2> QED
    BY <1>1, <1>2, <2>1 DEF Shapes, Kinds
<1>4. runner # "preparing"
  BY <1>1 DEF Unprepared
<1>5. Outcomes'
  BY <1>1 DEF Outcomes, Shapes
<1>6. Reports'
  <2>1. \A i \in 1 .. Len(events') : events'[i][1] # "port" =>
          i \in 1 .. Len(events) /\ events'[i] = events[i]
    BY <1>2
  <2> QED
    BY <1>1, <2>1 DEF Reports, Report
<1>7. Analyzed' /\ Accounts'
  BY <1>1 DEF Analyzed, Accounts, StoredStatsMatchRows, Shapes
<1>8. Held'
  BY <1>1 DEF Held, Shapes, Raised, InFlight
<1> QED
  BY <1>1, <1>3, <1>4, <1>5, <1>6, <1>7, <1>8 DEF Unprepared

\* The task's own event is the only report of its host.
LEMMA PutHostIInv ==
  ASSUME IInv, NEW h \in Hosts, PutHost(h)
  PROVE  IInv'
<1> USE DEF IInv
<1>1. /\ task[h] = "reporting"
      /\ events' = Append(events, <<outcome[h], h>>)
      /\ task' = [task EXCEPT ![h] = "done"]
      /\ UNCHANGED <<runner, inScope, outcome, probe, current, progress, rows, stored>>
  BY DEF PutHost, dbVars
<1>2. /\ events' \in Seq(Kinds \X Hosts) /\ Len(events') = Len(events) + 1
      /\ Len(events) \in Nat
      /\ \A i \in 1 .. Len(events) : events'[i] = events[i] /\ events[i][2] \in Hosts
      /\ events'[Len(events) + 1] = <<outcome[h], h>>
  <2>1. <<outcome[h], h>> \in Kinds \X Hosts /\ events \in Seq(Kinds \X Hosts)
    BY <1>1 DEF Kinds, Shapes, Outcomes
  <2> QED
    BY <1>1, <2>1, AppendProperties, LenProperties, ElementOfSeq
<1>3. Shapes'
  BY <1>1, <1>2 DEF Shapes, Kinds
<1>4. runner # "preparing"
  BY <1>1 DEF Unprepared
<1>5. Outcomes'
  BY <1>1 DEF Outcomes, Shapes
<1>6. h \notin rows \cup current
  BY <1>1 DEF Analyzed
<1>7. Reports'
  <2> SUFFICES
        /\ \A i \in 1 .. Len(events') : Report(i)' =>
             /\ task'[events'[i][2]] = "done" /\ outcome[events'[i][2]] = events'[i][1]
             /\ events'[i][2] \notin rows \cup current
        /\ \A i, j \in 1 .. Len(events') :
             i < j /\ Report(i)' /\ Report(j)' => events'[i][2] # events'[j][2]
    BY <1>1 DEF Reports
  <2>1. ASSUME NEW i \in 1 .. Len(events), Report(i)'
        PROVE  /\ task'[events'[i][2]] = "done" /\ outcome[events'[i][2]] = events'[i][1]
               /\ events'[i][2] \notin rows \cup current
               /\ events'[i][2] # h
    BY <1>1, <1>2, <2>1 DEF Reports, Report, Shapes
  <2>2. task'[h] = "done" /\ \A i \in 1 .. Len(events') : i \in 1 .. Len(events) \/ i = Len(events) + 1
    BY <1>1, <1>2 DEF Shapes
  <2>3. ASSUME NEW i \in 1 .. Len(events'), NEW j \in 1 .. Len(events'),
               i < j, Report(i)', Report(j)'
        PROVE  events'[i][2] # events'[j][2]
    <3>1. i \in 1 .. Len(events)
      BY <1>2, <2>3
    <3>2. CASE j \in 1 .. Len(events)
      BY <1>2, <2>3, <3>1, <3>2 DEF Reports, Report
    <3>3. CASE j = Len(events) + 1
      BY <1>2, <2>1, <2>3, <3>1, <3>3
    <3> QED
      BY <2>2, <3>2, <3>3
  <2> QED
    BY <1>2, <1>6, <2>1, <2>2, <2>3
<1>8. Analyzed' /\ Accounts'
  BY <1>1 DEF Analyzed, Accounts, StoredStatsMatchRows, Shapes
<1>9. Held'
  <2>1. \A g \in Hosts : task'[g] = "scanning" <=> task[g] = "scanning"
    BY <1>1 DEF Shapes
  <2>2. Cardinality({g \in Hosts : task'[g] = "scanning"}) <= HostLimit
    BY <2>1, FewerScanning DEF Held
  <2> QED
    BY <1>1, <2>1, <2>2 DEF Held, Raised
<1> QED
  BY <1>1, <1>3, <1>4, <1>5, <1>7, <1>8, <1>9 DEF Unprepared

-----------------------------------------------------------------------------
(* The coordinator.                                                        *)

\* The counters of a step are counters again.
LEMMA PortRecorded ==
  ASSUME NEW s \in Stats, NEW x \in Nat, NEW ph \in Phases
  PROVE  LET t == [s EXCEPT !.ports_scanned = @ + 1, !.hosts_scanned = @ + x, !.phase = ph]
         IN  /\ t \in Stats /\ t.phase = ph
             /\ t.ports_scanned = s.ports_scanned + 1 /\ t.hosts_scanned = s.hosts_scanned + x
             /\ t.errors = s.errors /\ t.hosts_analyzed = s.hosts_analyzed
<1> HIDE DEF Phases
<1>1. \A a, b \in Nat :
        LET t == [s EXCEPT !.ports_scanned = a, !.hosts_scanned = b, !.phase = ph]
        IN  /\ t \in Stats /\ t.phase = ph /\ t.ports_scanned = a /\ t.hosts_scanned = b
            /\ t.errors = s.errors /\ t.hosts_analyzed = s.hosts_analyzed
  BY DEF Stats
<1>2. s.ports_scanned + 1 \in Nat /\ s.hosts_scanned + x \in Nat
  BY DEF Stats
<1> QED
  BY ZenonT(60), <1>1, <1>2

LEMMA ErrorRecorded ==
  ASSUME NEW s \in Stats
  PROVE  LET t == [s EXCEPT !.hosts_scanned = @ + 1, !.errors = @ + 1]
         IN  /\ t \in Stats /\ t.phase = s.phase /\ t.ports_scanned = s.ports_scanned
             /\ t.hosts_scanned = s.hosts_scanned + 1 /\ t.errors = s.errors + 1
             /\ t.hosts_analyzed = s.hosts_analyzed
<1> HIDE DEF Phases
<1>1. \A a, b \in Nat :
        LET t == [s EXCEPT !.hosts_scanned = a, !.errors = b]
        IN  /\ t \in Stats /\ t.phase = s.phase /\ t.ports_scanned = s.ports_scanned
            /\ t.hosts_scanned = a /\ t.errors = b /\ t.hosts_analyzed = s.hosts_analyzed
  BY DEF Stats
<1>2. s.hosts_scanned + 1 \in Nat /\ s.errors + 1 \in Nat
  BY DEF Stats
<1> QED
  BY <1>1, <1>2

LEMMA HostRecorded ==
  ASSUME NEW s \in Stats
  PROVE  LET t == [s EXCEPT !.hosts_analyzed = @ + 1]
         IN  /\ t \in Stats /\ t.hosts_analyzed = s.hosts_analyzed + 1
             /\ t.phase = s.phase /\ t.ports_scanned = s.ports_scanned
             /\ t.hosts_scanned = s.hosts_scanned /\ t.errors = s.errors
<1> HIDE DEF Phases
<1> QED
  BY DEF Stats

LEMMA PhaseEntered ==
  ASSUME NEW s \in Stats, NEW ph \in Phases
  PROVE  LET t == [s EXCEPT !.phase = ph]
         IN  /\ t \in Stats /\ t.phase = ph
             /\ t.ports_scanned = s.ports_scanned /\ t.hosts_scanned = s.hosts_scanned
             /\ t.errors = s.errors /\ t.hosts_analyzed = s.hosts_analyzed
<1> HIDE DEF Phases
<1> QED
  BY DEF Stats

\* Whatever is committed at the end of an iteration, counters agree with rows.
LEMMA EmitKeepsAccounts ==
  ASSUME IInv, NEW p \in Stats, NEW hosts \in SUBSET Hosts,
         rows \subseteq hosts, p.hosts_analyzed = Cardinality(hosts),
         EmitProgress(p, hosts)
  PROVE  /\ progress' \in Stats /\ rows' = hosts
         /\ stored' \in [stats: Stats, hosts: SUBSET Hosts]
         /\ Accounts'
<1> USE DEF IInv
<1>1. progress' = p /\ rows' = hosts /\ stored' \in {[stats |-> p, hosts |-> hosts], stored}
  BY DEF EmitProgress
<1>2. stored' \in [stats: Stats, hosts: SUBSET Hosts]
  BY <1>1 DEF Shapes
<1>3. Accounts'
  BY <1>1 DEF Accounts, StoredStatsMatchRows
<1> QED
  BY <1>1, <1>2, <1>3

\* The event that is taken leaves the others as they are.
LEMMA TakeFacts ==
  ASSUME IInv, NEW kind, Take(kind)
  PROVE  /\ runner = "scanning" /\ Head(events) = events[1] /\ events[1][1] = kind
         /\ events[1][2] \in Hosts
         /\ events' \in Seq(Kinds \X Hosts) /\ Len(events) \in Nat \ {0}
         /\ Len(events') = Len(events) - 1
         /\ \A i \in 1 .. Len(events') : events'[i] = events[i + 1] /\ i + 1 \in 1 .. Len(events)
         /\ UNCHANGED <<inScope, task, outcome, probe>>
         /\ Unprepared' \/ runner' # runner
<1> USE DEF IInv
<1>1. /\ runner = "scanning" /\ events # <<>> /\ Head(events)[1] = kind
      /\ events' = Tail(events)
      /\ UNCHANGED <<inScope, task, outcome, probe>>
  BY DEF Take, scanVars
<1>2. events \in Seq(Kinds \X Hosts)
  BY DEF Shapes, Kinds
<1>3. /\ Len(events) \in Nat \ {0} /\ Head(events) = events[1] /\ events' \in Seq(Kinds \X Hosts)
      /\ Len(events') = Len(events) - 1
      /\ \A i \in 1 .. Len(events') : events'[i] = events[i + 1]
  BY <1>1, <1>2, EmptySeq, HeadTailProperties
<1>4. events[1] \in Kinds \X Hosts
  BY <1>2, <1>3, ElementOfSeq
<1>5. \A i \in 1 .. Len(events') : i + 1 \in 1 .. Len(events)
  BY <1>3
<1>6. Unprepared' \/ runner' # runner
  BY <1>1 DEF Unprepared
<1> QED
  BY <1>1, <1>3, <1>4, <1>5, <1>6

\* Taking an event that brings no rows.
LEMMA TakeCountIInv == IInv /\ (TakePort \/ TakeError) => IInv'
<1> SUFFICES ASSUME IInv, TakePort \/ TakeError PROVE IInv'
  OBVIOUS
<1> USE DEF IInv
<1>1. /\ \E kind \in Kinds : Take(kind)
      /\ UNCHANGED <<runner, current>>
      /\ \/ \E h \in Hosts : EmitProgress(RecordPort(h), rows)
         \/ EmitProgress([progress EXCEPT !.hosts_scanned = @ + 1, !.errors = @ + 1], rows)
  <2>1. CASE TakePort
    <3>1. Take("port")
      BY <2>1 DEF TakePort
    <3>2. Head(events)[2] \in Hosts
      BY <3>1, TakeFacts
    <3> QED
      BY <2>1, <3>1, <3>2 DEF TakePort, Kinds
  <2>2. CASE TakeError
    BY <2>2 DEF TakeError, Kinds
  <2> QED
    BY <2>1, <2>2
<1>2. PICK kind \in Kinds : Take(kind)
  BY <1>1
<1>3. /\ runner = "scanning" /\ UNCHANGED <<inScope, task, outcome, probe>>
      /\ events' \in Seq(Kinds \X Hosts) /\ Len(events) \in Nat \ {0}
      /\ Len(events') = Len(events) - 1
      /\ \A i \in 1 .. Len(events') : events'[i] = events[i + 1] /\ i + 1 \in 1 .. Len(events)
      /\ Unprepared'
  BY <1>1, <1>2, TakeFacts
<1>4. progress' \in Stats /\ UNCHANGED rows /\ Accounts'
      /\ stored' \in [stats: Stats, hosts: SUBSET Hosts]
  <2>1. \A h \in Hosts : RecordPort(h) \in Stats /\ RecordPort(h).hosts_analyzed = progress.hosts_analyzed
    <3> TAKE h \in Hosts
    <3> DEFINE whole == IF counts[h] + 1 = NumPorts THEN 1 ELSE 0
               ph == IF progress.ports_scanned + 1 = NumHosts * NumPorts
                     THEN "analyzing" ELSE progress.phase
               t == [progress EXCEPT !.ports_scanned = @ + 1, !.hosts_scanned = @ + whole,
                                     !.phase = ph]
    <3>1. progress \in Stats /\ whole \in Nat /\ ph \in Phases
      BY DEF Shapes, Stats, Phases
    <3>2. RecordPort(h) = t
      BY DEF RecordPort
    <3> HIDE DEF whole, ph
    <3>3. t \in Stats /\ t.hosts_analyzed = progress.hosts_analyzed
      <4>1. \A s \in Stats, x \in Nat, y \in Phases :
            LET u == [s EXCEPT !.ports_scanned = @ + 1, !.hosts_scanned = @ + x, !.phase = y]
            IN  u \in Stats /\ u.hosts_analyzed = s.hosts_analyzed
        BY PortRecorded
      <4> QED
        BY <3>1, <4>1
    <3> HIDE DEF t
    <3> QED
      BY <3>2, <3>3
  <2>2. LET p == [progress EXCEPT !.hosts_scanned = @ + 1, !.errors = @ + 1]
        IN  p \in Stats /\ p.hosts_analyzed = progress.hosts_analyzed
    <3>1. progress \in Stats
      BY DEF Shapes
    <3> QED
      BY <3>1, ErrorRecorded
  <2>3. rows \in SUBSET Hosts /\ progress.hosts_analyzed = Cardinality(rows)
    BY <1>3 DEF Shapes, Accounts
  <2> QED
    BY <1>1, <2>1, <2>2, <2>3, EmitKeepsAccounts
<1>5. Shapes'
  BY <1>1, <1>3, <1>4 DEF Shapes, Kinds
<1>6. Reports'
  BY SMTT(30), <1>1, <1>3, <1>4 DEF Reports, Report
<1>7. Outcomes' /\ Analyzed' /\ Held'
  BY <1>1, <1>3, <1>4 DEF Outcomes, Analyzed, Held, Raised
<1> QED
  BY <1>3, <1>4, <1>5, <1>6, <1>7

\* The host whose report is taken has no rows and no other report.
LEMMA TakeHostIInv == IInv /\ TakeHost => IInv'
<1> SUFFICES ASSUME IInv, TakeHost PROVE IInv'
  OBVIOUS
<1> USE DEF IInv
<1>1. /\ Take("host") /\ current' = {Head(events)[2]} /\ runner' = "analyzing"
      /\ UNCHANGED <<progress, rows, stored>>
  BY DEF TakeHost, dbVars
<1>2. /\ runner = "scanning" /\ UNCHANGED <<inScope, task, outcome, probe>>
      /\ Head(events) = events[1] /\ events[1][1] = "host" /\ events[1][2] \in Hosts
      /\ events' \in Seq(Kinds \X Hosts) /\ Len(events) \in Nat \ {0}
      /\ Len(events') = Len(events) - 1
      /\ \A i \in 1 .. Len(events') : events'[i] = events[i + 1] /\ i + 1 \in 1 .. Len(events)
  BY <1>1, TakeFacts
<1> DEFINE h == events[1][2]
<1>3. current' = {h} /\ h \in Hosts /\ h \notin rows /\ task[h] = "done" /\ outcome[h] = "host"
  BY <1>1, <1>2 DEF Reports, Report
<1>4. \A i \in 1 .. Len(events') : Report(i)' => events'[i][2] # h
  BY <1>2 DEF Reports, Report
<1> HIDE DEF h
<1>5. Shapes'
  BY <1>1, <1>2, <1>3 DEF Shapes, Kinds
<1>6. Reports'
  <2>1. \A i \in 1 .. Len(events') : Report(i)' =>
          /\ task[events'[i][2]] = "done" /\ outcome[events'[i][2]] = events'[i][1]
          /\ events'[i][2] \notin rows
    <3> SUFFICES ASSUME NEW i \in 1 .. Len(events'), Report(i)'
                 PROVE  /\ task[events'[i][2]] = "done" /\ outcome[events'[i][2]] = events'[i][1]
                        /\ events'[i][2] \notin rows
      OBVIOUS
    <3>1. i + 1 \in 1 .. Len(events) /\ events'[i] = events[i + 1]
      BY <1>2
    <3> QED
      BY <3>1 DEF Reports, Report
  <2>2. \A i, j \in 1 .. Len(events') :
          i < j /\ Report(i)' /\ Report(j)' => events'[i][2] # events'[j][2]
    BY SMTT(30), <1>2 DEF Reports, Report
  <2> QED
    BY <1>1, <1>2, <1>3, <1>4, <2>1, <2>2 DEF Reports
<1>7. Analyzed'
  BY <1>1, <1>2, <1>3 DEF Analyzed
<1>8. Accounts'
  BY <1>1, <1>2 DEF Accounts, StoredStatsMatchRows
<1>9. Outcomes' /\ Held' /\ Unprepared'
  BY <1>1, <1>2 DEF Outcomes, Held, Raised, Unprepared
<1> QED
  BY <1>5, <1>6, <1>7, <1>8, <1>9

\* Its rows make one more, and it is counted as one more.
LEMMA PersistIInv == IInv /\ Persist => IInv'
<1> SUFFICES ASSUME IInv, Persist PROVE IInv'
  OBVIOUS
<1> USE DEF IInv
<1> DEFINE p == [progress EXCEPT !.hosts_analyzed = @ + 1]
<1>1. /\ runner = "analyzing" /\ runner' = "scanning" /\ current' = {}
      /\ UNCHANGED <<inScope, task, outcome, probe, events>>
      /\ EmitProgress(p, rows \cup current)
  BY DEF Persist, scanVars
<1>2. PICK h \in Hosts : current = {h} /\ h \notin rows
  BY <1>1 DEF Analyzed
<1>3. p \in Stats /\ p.hosts_analyzed = Cardinality(rows) + 1
  <2>1. progress \in Stats /\ progress.hosts_analyzed = Cardinality(rows)
    BY <1>1 DEF Shapes, Accounts
  <2>2. p \in Stats /\ p.hosts_analyzed = progress.hosts_analyzed + 1
    BY <2>1, HostRecorded
  <2> QED
    BY <2>1, <2>2
<1>4. Cardinality(rows \cup current) = Cardinality(rows) + 1
  BY <1>2, FS_AddElement, FS_Subset, ScanAssumption DEF Shapes
<1>5. rows \cup current \in SUBSET Hosts
  BY DEF Shapes
<1> HIDE DEF p
<1>6. /\ progress' \in Stats /\ rows' = rows \cup current
      /\ stored' \in [stats: Stats, hosts: SUBSET Hosts]
      /\ Accounts'
  BY <1>1, <1>3, <1>4, <1>5, EmitKeepsAccounts
<1>7. Shapes'
  BY <1>1, <1>5, <1>6 DEF Shapes
<1>8. Reports' /\ Analyzed'
  BY <1>1, <1>6 DEF Reports, Report, Analyzed
<1>9. Outcomes' /\ Held' /\ Unprepared'
  BY <1>1, <1>6 DEF Outcomes, Held, Raised, Unprepared
<1> QED
  BY <1>6, <1>7, <1>8, <1>9

\* The tasks are created when there are no events and no rows.
LEMMA PrepareIInv ==
  ASSUME IInv, NEW scope \in SUBSET Hosts, Prepare(scope)
  PROVE  IInv'
<1> USE DEF IInv
<1> DEFINE p == [progress EXCEPT !.phase = "scanning"]
<1>1. /\ runner = "preparing" /\ runner' = "scanning" /\ inScope' = scope
      /\ progress' = p /\ stored' = [stored EXCEPT !.stats = p]
      /\ task' = [h \in Hosts |-> "created"]
      /\ UNCHANGED <<outcome, probe, events, current, rows>>
  BY DEF Prepare
<1>2. /\ \A h \in Hosts : task[h] = "none" /\ \A q \in Ports : probe[h][q] = "none"
      /\ events = <<>> /\ rows = {} /\ current = {} /\ Len(events) = 0
  BY <1>1, EmptySeq DEF Unprepared
<1>3. p \in Stats /\ p.hosts_analyzed = progress.hosts_analyzed
  <2>1. progress \in Stats /\ "scanning" \in Phases
    BY DEF Shapes, Phases
  <2> QED
    BY <2>1, PhaseEntered
<1> HIDE DEF p
<1>4. Shapes'
  BY <1>1, <1>3 DEF Shapes
<1>5. Outcomes' /\ Reports'
  BY <1>1, <1>2 DEF Outcomes, Reports
<1>6. Analyzed'
  BY <1>1, <1>2 DEF Analyzed
<1>7. Accounts'
  <2>1. stored'.hosts = stored.hosts /\ stored'.stats = p
    BY <1>1 DEF Shapes
  <2> QED
    BY <1>1, <1>2, <1>3, <2>1 DEF Accounts, StoredStatsMatchRows
<1>8. Held'
  <2>1. \A h \in Hosts : task'[h] = "scanning" => task[h] = "scanning"
    BY <1>1
  <2>2. Cardinality({h \in Hosts : task'[h] = "scanning"}) <= HostLimit
    BY <2>1, FewerScanning DEF Held
  <2> QED
    BY <1>1, <1>2, <2>2 DEF Held, InFlight
<1> QED
  BY <1>1, <1>4, <1>5, <1>6, <1>7, <1>8 DEF Unprepared

\* Cancelling ends what is in flight under a task that holds the semaphore.
LEMMA CancelIInv == IInv /\ CancelTasks => IInv'
<1> SUFFICES ASSUME IInv, CancelTasks PROVE IInv'
  OBVIOUS
<1> USE DEF IInv
<1>1. /\ runner = "cancelling" /\ runner' = "failing"
      /\ task' = [h \in Hosts |-> IF task[h] = "done" THEN "done" ELSE "cancelled"]
      /\ probe' = [h \in Hosts |->
           [p \in Ports |->
              IF task[h] = "scanning" /\ probe[h][p] \in InFlight
              THEN "cancelled" ELSE probe[h][p]]]
      /\ UNCHANGED <<inScope, outcome, events, current, progress, rows, stored>>
  BY DEF CancelTasks, dbVars
<1>2. Shapes' /\ Outcomes'
  BY <1>1 DEF Shapes, Outcomes, InFlight
<1>3. \A h \in Hosts : task[h] = "done" => task'[h] = "done"
  BY <1>1
<1>4. \A i \in 1 .. Len(events) : events[i][2] \in Hosts
  BY ElementOfSeq DEF Shapes
<1>5. Reports'
  BY <1>1, <1>3, <1>4 DEF Reports, Report
<1>6. Analyzed' /\ Accounts'
  BY <1>1, <1>3 DEF Analyzed, Accounts, StoredStatsMatchRows, Shapes
<1>7. Held'
  <2>1. \A h \in Hosts : task'[h] = "scanning" => task[h] = "scanning"
    BY <1>1
  <2>2. Cardinality({h \in Hosts : task'[h] = "scanning"}) <= HostLimit
    BY <2>1, FewerScanning DEF Held
  <2>3. ASSUME NEW h \in Hosts, NEW p \in Ports, probe'[h][p] \in InFlight PROVE Raised(h)'
    <3>1. probe[h][p] \in InFlight /\ task[h] # "scanning"
      BY <1>1, <2>3 DEF InFlight
    <3>2. PICK q \in Ports : probe[h][q] = "raised"
      BY <3>1 DEF Held, Raised
    <3>3. probe'[h][q] = "raised"
      BY <1>1, <3>1, <3>2
    <3> QED
      BY <3>3 DEF Raised
  <2> QED
    BY <2>2, <2>3 DEF Held
<1> QED
  BY <1>1, <1>2, <1>5, <1>6, <1>7 DEF Unprepared

\* The failure takes the rows back to what is committed, and its counters are
\* those that were committed with them.
LEMMA FailIInv == IInv /\ FailJob => IInv'
<1> SUFFICES ASSUME IInv, FailJob PROVE IInv'
  OBVIOUS
<1> USE DEF IInv
<1>1. /\ runner = "failing" /\ runner' = "failed" /\ rows' = stored.hosts
      /\ stored' = [stored EXCEPT !.stats.phase = "failed"]
      /\ UNCHANGED <<inScope, task, outcome, probe, events, current, progress>>
  BY DEF FailJob, scanVars
<1>2. stored.stats \in Stats /\ "failed" \in Phases
  BY DEF Shapes, Phases
<1>3. stored' \in [stats: Stats, hosts: SUBSET Hosts]
      /\ stored'.hosts = stored.hosts
      /\ stored'.stats.hosts_analyzed = stored.stats.hosts_analyzed
  <2> DEFINE t == [stored.stats EXCEPT !.phase = "failed"]
  <2>1. t \in Stats /\ t.hosts_analyzed = stored.stats.hosts_analyzed
    BY <1>2, PhaseEntered
  <2>2. stored' = [stored EXCEPT !.stats = t]
    BY <1>1
  <2> HIDE DEF t
  <2> QED
    BY <2>1, <2>2 DEF Shapes
<1>4. Shapes'
  BY <1>1, <1>3 DEF Shapes
<1>5. Reports' /\ Analyzed'
  BY <1>1 DEF Reports, Report, Analyzed, Accounts
<1>6. Accounts'
  BY <1>1, <1>3 DEF Accounts, StoredStatsMatchRows
<1>7. Outcomes' /\ Held' /\ Unprepared'
  BY <1>1 DEF Outcomes, Held, Raised, Unprepared
<1> QED
  BY <1>4, <1>5, <1>6, <1>7

\* Joining the tasks and completing the job commit counters with their rows.
LEMMA FinishIInv == IInv /\ (JoinTasks \/ CompleteJob) => IInv'
<1> SUFFICES ASSUME IInv, JoinTasks \/ CompleteJob PROVE IInv'
  OBVIOUS
<1> USE DEF IInv
<1>1. /\ runner \in {"scanning", "completing"} /\ runner' \in {"completing", "completed"}
      /\ \E ph \in Phases : progress' = [progress EXCEPT !.phase = ph]
      /\ stored' \in {[stats |-> progress', hosts |-> rows], stored}
      /\ UNCHANGED <<inScope, task, outcome, probe, events, current, rows>>
  BY DEF JoinTasks, CompleteJob, scanVars, Phases
<1>2. progress' \in Stats /\ progress'.hosts_analyzed = progress.hosts_analyzed
  <2>1. progress \in Stats
    BY DEF Shapes
  <2> QED
    BY <1>1, <2>1, PhaseEntered
<1>3. /\ stored' \in [stats: Stats, hosts: SUBSET Hosts]
      /\ stored'.hosts \subseteq rows
      /\ stored'.stats.hosts_analyzed = Cardinality(stored'.hosts)
  <2>1. rows \in SUBSET Hosts /\ progress.hosts_analyzed = Cardinality(rows)
    BY <1>1 DEF Shapes, Accounts
  <2>2. CASE stored' = stored
    BY <2>2 DEF Shapes, Accounts, StoredStatsMatchRows
  <2>3. CASE stored' = [stats |-> progress', hosts |-> rows]
    BY <1>2, <2>1, <2>3
  <2> QED
    BY <1>1, <2>2, <2>3
<1>4. Shapes' /\ Accounts'
  BY <1>1, <1>2, <1>3 DEF Shapes, Accounts, StoredStatsMatchRows
<1>5. Reports' /\ Analyzed'
  BY <1>1 DEF Reports, Report, Analyzed
<1>6. Outcomes' /\ Held' /\ Unprepared'
  BY <1>1 DEF Outcomes, Held, Raised, Unprepared
<1> QED
  BY <1>4, <1>5, <1>6

\* An exception drops the host that was analyzed and nothing else.
LEMMA RaiseIInv == IInv /\ Raise => IInv'
<1> SUFFICES ASSUME IInv, Raise PROVE IInv'
  OBVIOUS
<1>1. /\ runner' \in {"failing", "cancelling"} /\ current' = {} /\ runner # "failed"
      /\ UNCHANGED <<inScope, task, outcome, probe, events, progress, rows, stored>>
  BY DEF Raise, scanVars, dbVars
<1> QED
  BY <1>1 DEF IInv, Shapes, Unprepared, Outcomes, Reports, Report, Analyzed, Accounts,
              StoredStatsMatchRows, Held, Raised

-----------------------------------------------------------------------------

\* Every step of the tasks and of the coordinator preserves the invariant.
LEMMA NextIInv == IInv /\ [Next]_vars => IInv'
<1> SUFFICES ASSUME IInv, [Next]_vars PROVE IInv'
  OBVIOUS
<1>1. ASSUME NEW h \in Hosts, Scan(h) PROVE IInv'
  BY <1>1, StartIInv, PortIInv, PutPortIInv, ScannedIInv, PutHostIInv DEF Scan
<1>2. CASE Coordinate
  BY <1>2, PrepareIInv, TakeCountIInv, TakeHostIInv, PersistIInv, CancelIInv, FailIInv,
     FinishIInv DEF Coordinate
<1>3. CASE Raise
  BY <1>3, RaiseIInv
<1>4. CASE UNCHANGED vars
  BY <1>4 DEF vars, scanVars, dbVars, IInv, Shapes, Unprepared, Outcomes, Reports, Report,
              Analyzed, Accounts, StoredStatsMatchRows, Held, Raised
<1> QED
  BY <1>1, <1>2, <1>3, <1>4 DEF Next

\* The committed counter of analyzed hosts is the number of committed hosts, at
\* every commit, after a rollback and in a failed job.
THEOREM StatsMatchRows == Spec => []StoredStatsMatchRows
<1>1. IInv => StoredStatsMatchRows
  BY DEF IInv, Accounts
<1> QED
  BY InitIInv, NextIInv, <1>1, PTL DEF Spec

\* No host has rows that the gate did not let through and the scanner did not
\* probe to the last port.
THEOREM OnlyScannedHaveRows == Spec => []RowsAreScanned
<1>1. IInv => RowsAreScanned
  BY DEF IInv, Accounts, Analyzed, Outcomes, Shapes, RowsAreScanned
<1> QED
  BY InitIInv, NextIInv, <1>1, PTL DEF Spec

\* No more hosts than the semaphore has permits are probed at a time, but for
\* those whose gather an exception has ended.
THEOREM SemaphoreBoundsHosts == Spec => []HostsBounded
<1>1. ASSUME IInv PROVE HostsBounded
  <2> DEFINE S == {h \in Hosts : task[h] = "scanning"}
             T == {h \in Hosts : ~ Raised(h) /\ \E p \in Ports : probe[h][p] \in InFlight}
  <2>1. S \in SUBSET Hosts /\ T \in SUBSET S /\ Cardinality(S) <= HostLimit
    BY <1>1 DEF IInv, Held
  <2>2. Cardinality(T) <= HostLimit
    <3> HIDE DEF S, T
    <3>1. IsFiniteSet(S)
      BY <2>1, FS_Subset, ScanAssumption
    <3>2. IsFiniteSet(T) /\ Cardinality(T) <= Cardinality(S)
      BY <2>1, <3>1, FS_Subset
    <3>3. Cardinality(S) \in Nat /\ Cardinality(T) \in Nat
      BY <3>1, <3>2, FS_CardinalityType
    <3> QED
      BY <2>1, <3>2, <3>3, ScanAssumption
  <2> QED
    BY <2>2 DEF HostsBounded
<1> QED
  BY InitIInv, NextIInv, <1>1, PTL DEF Spec
-----------------------------------------------------------------------------
(***************************************************************************)
(* The ledger: what the counters count.                                    *)
(***************************************************************************)

DonePorts(h) == {p \in Ports : probe[h][p] = "done"}

\* Where a value stands in a sequence.
Places(x, q) == {i \in 1 .. Len(q) : q[i] = x}
PortEvents(h) == Places(<<"port", h>>, events)

\* The port events that have been taken, numbered for each host.
Counted == {c \in Hosts \X (1 .. NumPorts) : c[2] <= counts[c[1]]}

\* The hosts whose last port has been counted: none if there are no ports.
Whole == {h \in Hosts : counts[h] = NumPorts /\ Ports # {}}

\* The hosts whose report has been taken, and those of them that were errors.
Waiting(h) == \E i \in 1 .. Len(events) : Report(i) /\ events[i][2] = h
Taken == {h \in Hosts : task[h] = "done" /\ ~ Waiting(h)}
Erred == {h \in Taken : outcome[h] = "error"}

\* Every port that is done has been counted or has its event in the queue.
PortsCounted ==
  /\ counts \in [Hosts -> Nat]
  /\ \A h \in Hosts : counts[h] + Cardinality(PortEvents(h)) = Cardinality(DonePorts(h))

\* The counters of the progress and the coordinator.
Tallies ==
  /\ progress.ports_scanned = Cardinality(Counted)
  /\ progress.errors = Cardinality(Erred)
  /\ progress.hosts_scanned = Cardinality(Whole) + progress.errors
  /\ finished = Cardinality(Taken)

\* The report of a scanned host is behind the events of its ports.
ReportsLast ==
  \A h \in Hosts : task[h] = "done" /\ outcome[h] = "host" =>
    \A i \in PortEvents(h) : \E j \in 1 .. Len(events) : i < j /\ events[j] = <<"host", h>>

\* No port is probed before the gate has let its host through, and a host is an
\* error because it was refused or because a port of it has raised.
Causes ==
  \A h \in Hosts :
    /\ task[h] \in {"none", "created"} \/ h \notin inScope => \A p \in Ports : probe[h][p] = "none"
    /\ task[h] = "done" => outcome[h] # "none"
    /\ outcome[h] = "error" => h \notin inScope \/ Raised(h)

\* Where the run is says what has been taken, what is left of the tasks and
\* what the phase says.
Progressing == {"preparing", "scanning", "analyzing", "completing", "completed"}

Stages ==
  /\ runner \in Progressing =>
       \A h \in Taken : outcome[h] = "host" => h \in rows \cup current
  /\ runner # "analyzing" => current = {}
  /\ runner \in {"failing", "failed"} =>
       \A h \in Hosts : task[h] \in {"none", "done", "cancelled"}
  /\ runner \in {"completing", "completed"} => finished = NumHosts
  /\ runner = "completed" => stored = [stats |-> progress, hosts |-> rows]

\* The phase moves on when every port has been probed or every task is done.
Over ==
  progress.phase \in {"analyzing", "completed"} =>
    \/ \A h \in Hosts : task[h] = "done"
    \/ \A h \in Hosts, p \in Ports : probe[h][p] = "done"

\* What is committed is behind what is in memory.
Behind ==
  /\ stored.stats.ports_scanned <= progress.ports_scanned
  /\ stored.stats.hosts_scanned <= progress.hosts_scanned
  /\ stored.stats.errors <= progress.errors
  /\ runner = "preparing" => progress = Fresh /\ stored = [stats |-> Fresh, hosts |-> {}]
  /\ runner \in {"scanning", "analyzing", "cancelling"} =>
       /\ progress.phase \in {"scanning", "analyzing"}
       /\ stored.stats.phase \in {"scanning", progress.phase}
  /\ runner = "completing" =>
       progress.phase = "analyzing" /\ stored.stats.phase \in {"scanning", "analyzing"}
  /\ runner = "failing" => stored.stats.phase \in {"preparing", "scanning", "analyzing"}

Ledger == PortsCounted /\ Tallies /\ ReportsLast /\ Causes /\ Stages /\ Over /\ Behind

-----------------------------------------------------------------------------

\* A value is in as many places as before, and where it is appended in one more.
LEMMA PlacesAppend ==
  ASSUME NEW S, NEW q \in Seq(S), NEW e \in S, NEW x
  PROVE  /\ IsFiniteSet(Places(x, q)) /\ Cardinality(Places(x, q)) \in Nat
         /\ Cardinality(Places(x, Append(q, e)))
              = Cardinality(Places(x, q)) + (IF e = x THEN 1 ELSE 0)
<1>1. Len(q) \in Nat /\ IsFiniteSet(1 .. Len(q))
  BY LenProperties, FS_Interval
<1>2. IsFiniteSet(Places(x, q))
  <2>1. Places(x, q) \in SUBSET (1 .. Len(q))
    BY DEF Places
  <2> QED
    BY <1>1, <2>1, FS_Subset
<1>3. Cardinality(Places(x, q)) \in Nat
  BY <1>2, FS_CardinalityType
<1>4. /\ Len(Append(q, e)) = Len(q) + 1 /\ Append(q, e)[Len(q) + 1] = e
      /\ \A i \in 1 .. Len(q) : Append(q, e)[i] = q[i]
  BY AppendProperties
<1>5. Places(x, Append(q, e)) = Places(x, q) \cup (IF e = x THEN {Len(q) + 1} ELSE {})
  <2>1. 1 .. Len(q) + 1 = (1 .. Len(q)) \cup {Len(q) + 1}
    BY <1>1
  <2> QED
    BY <1>4, <2>1 DEF Places
<1>6. Len(q) + 1 \notin Places(x, q)
  BY <1>1 DEF Places
<1>7. CASE e = x
  <2>1. Cardinality(Places(x, q) \cup {Len(q) + 1}) = Cardinality(Places(x, q)) + 1
    BY <1>2, <1>6, FS_AddElement
  <2> QED
    BY <1>2, <1>3, <1>5, <1>7, <2>1
<1>8. CASE e # x
  <2>1. Places(x, Append(q, e)) = Places(x, q)
    BY <1>5, <1>8
  <2> QED
    BY <1>2, <1>3, <1>8, <2>1
<1> QED
  BY <1>7, <1>8

\* Without the head of the sequence a value is in one place less if it was there.
LEMMA PlacesTail ==
  ASSUME NEW S, NEW q \in Seq(S), q # <<>>, NEW x
  PROVE  /\ Cardinality(Places(x, Tail(q))) \in Nat
         /\ Cardinality(Places(x, q))
              = Cardinality(Places(x, Tail(q))) + (IF q[1] = x THEN 1 ELSE 0)
<1>1. /\ Len(q) \in Nat \ {0} /\ Tail(q) \in Seq(S) /\ Len(Tail(q)) = Len(q) - 1
      /\ \A i \in 1 .. Len(Tail(q)) : Tail(q)[i] = q[i + 1]
  BY EmptySeq, HeadTailProperties
<1> DEFINE P == Places(x, Tail(q))
           R == Places(x, q) \ {1}
           f == [i \in P |-> i + 1]
<1>2. IsFiniteSet(P) /\ Cardinality(P) \in Nat
  <2>1. IsFiniteSet(1 .. Len(Tail(q))) /\ P \in SUBSET (1 .. Len(Tail(q)))
    BY <1>1, FS_Interval DEF Places
  <2> HIDE DEF P
  <2>2. IsFiniteSet(P)
    BY <2>1, FS_Subset
  <2> QED
    BY <2>2, FS_CardinalityType
<1>3. f \in Bijection(P, R)
  <2>1. \A i \in P : i \in Nat /\ i + 1 \in R
    BY <1>1 DEF Places
  <2>2. \A j \in R : j - 1 \in P /\ (j - 1) + 1 = j
    BY <1>1 DEF Places
  <2> HIDE DEF P, R
  <2>3. f \in [P -> R]
    BY <2>1
  <2>4. \A i, j \in P : f[i] = f[j] => i = j
    BY <2>1
  <2>5. \A j \in R : f[j - 1] = j
    BY <2>2
  <2> HIDE DEF f
  <2> QED
    BY <2>2, <2>3, <2>4, <2>5 DEF Bijection, Injection, IsInjective, Surjection
<1>4. IsFiniteSet(R) /\ Cardinality(R) = Cardinality(P)
  <2> HIDE DEF P, R, f
  <2>1. ExistsBijection(P, R)
    BY <1>3 DEF ExistsBijection
  <2> QED
    BY <1>2, <2>1, FS_Bijection
<1>5. CASE q[1] = x
  <2>1. Places(x, q) = R \cup {1} /\ 1 \notin R
    BY <1>1, <1>5 DEF Places
  <2> HIDE DEF P, R
  <2>2. Cardinality(R \cup {1}) = Cardinality(R) + 1
    BY <1>4, <2>1, FS_AddElement
  <2> QED
    BY <1>2, <1>4, <1>5, <2>1, <2>2 DEF P
<1>6. CASE q[1] # x
  <2>1. Places(x, q) = R
    BY <1>6 DEF Places
  <2> HIDE DEF P, R
  <2> QED
    BY <1>2, <1>4, <1>6, <2>1 DEF P
<1> QED
  BY <1>5, <1>6

\* No host has more ports counted than done, or done than there are.
LEMMA CountBound ==
  ASSUME IInv, PortsCounted, NEW h \in Hosts
  PROVE  /\ NumPorts \in Nat /\ counts[h] \in 0 .. NumPorts
         /\ Cardinality(PortEvents(h)) \in Nat /\ Cardinality(DonePorts(h)) \in Nat
         /\ IsFiniteSet(DonePorts(h))
         /\ Cardinality(PortEvents(h)) > 0 => counts[h] < NumPorts
         /\ counts[h] = NumPorts => \A p \in Ports : probe[h][p] = "done"
         /\ (\A p \in Ports : probe[h][p] = "done") /\ PortEvents(h) = {} => counts[h] = NumPorts
<1>1. DonePorts(h) \in SUBSET Ports
  BY DEF DonePorts
<1>2. /\ IsFiniteSet(DonePorts(h)) /\ Cardinality(DonePorts(h)) <= Cardinality(Ports)
      /\ Cardinality(DonePorts(h)) = Cardinality(Ports) => DonePorts(h) = Ports
  BY <1>1, FS_Subset, ScanAssumption
<1>3. NumPorts \in Nat /\ Cardinality(DonePorts(h)) \in Nat
  BY <1>2, FS_CardinalityType, ScanAssumption DEF NumPorts
<1>4. Cardinality(PortEvents(h)) \in Nat
  <2>1. events \in Seq(Kinds \X Hosts)
    BY DEF IInv, Shapes, Kinds
  <2>2. Len(events) \in Nat /\ IsFiniteSet(1 .. Len(events))
    BY <2>1, LenProperties, FS_Interval
  <2>3. PortEvents(h) \in SUBSET (1 .. Len(events))
    BY DEF PortEvents, Places
  <2>4. IsFiniteSet(PortEvents(h))
    BY <2>2, <2>3, FS_Subset
  <2> QED
    BY <2>4, FS_CardinalityType
<1>5. counts[h] \in Nat /\ counts[h] + Cardinality(PortEvents(h)) = Cardinality(DonePorts(h))
  BY DEF PortsCounted
<1>6. ASSUME counts[h] = NumPorts, NEW p \in Ports PROVE probe[h][p] = "done"
  <2>1. Cardinality(DonePorts(h)) = Cardinality(Ports)
    BY <1>2, <1>3, <1>4, <1>5, <1>6 DEF NumPorts
  <2>2. p \in DonePorts(h)
    BY <1>2, <2>1
  <2> QED
    BY <2>2 DEF DonePorts
<1>7. ASSUME \A p \in Ports : probe[h][p] = "done", PortEvents(h) = {}
      PROVE  counts[h] = NumPorts
  <2>1. DonePorts(h) = Ports
    BY <1>7 DEF DonePorts
  <2>2. Cardinality(PortEvents(h)) = 0
    BY <1>7, FS_EmptySet
  <2> QED
    BY <1>5, <2>1, <2>2 DEF NumPorts
<1>8. counts[h] \in 0 .. NumPorts /\ (Cardinality(PortEvents(h)) > 0 => counts[h] < NumPorts)
  BY <1>2, <1>3, <1>4, <1>5 DEF NumPorts
<1> QED
  BY <1>2, <1>3, <1>4, <1>6, <1>7, <1>8

\* A port that is done puts its event, and the event counts it when it is taken.
LEMMA PortsCountedKept == IInv /\ IInv' /\ Ledger /\ Next => PortsCounted'
<1> SUFFICES ASSUME IInv, IInv', Ledger, Next PROVE PortsCounted'
  OBVIOUS
<1> USE DEF IInv, Ledger
<1>1. events \in Seq(Kinds \X Hosts)
  BY DEF Shapes, Kinds
<1>2. ASSUME UNCHANGED <<counts, events>>,
             \A h \in Hosts, p \in Ports : probe'[h][p] = "done" <=> probe[h][p] = "done"
      PROVE  PortsCounted'
  <2>1. \A h \in Hosts : DonePorts(h)' = DonePorts(h) /\ PortEvents(h)' = PortEvents(h)
    BY <1>2 DEF DonePorts, PortEvents, Places
  <2> QED
    BY <1>2, <2>1 DEF PortsCounted
<1>3. ASSUME NEW h \in Hosts, StartHost(h) PROVE PortsCounted'
  <2>1. /\ UNCHANGED <<counts, events>> /\ task[h] = "created"
        /\ probe' = probe \/ probe' = [probe EXCEPT ![h] = [p \in Ports |-> "probing"]]
    BY <1>3 DEF StartHost
  <2>2. \A p \in Ports : probe[h][p] = "none"
    BY <2>1 DEF Causes
  <2>3. \A g \in Hosts, p \in Ports : probe'[g][p] = "done" <=> probe[g][p] = "done"
    BY <2>1, <2>2 DEF Shapes
  <2> QED
    BY <1>2, <2>1, <2>3
<1>4. ASSUME NEW h \in Hosts, NEW p \in Ports, Probe(h, p) \/ ProbeRaises(h, p)
      PROVE  PortsCounted'
  <2>1. /\ UNCHANGED <<counts, events>> /\ probe[h][p] = "probing"
        /\ \E x \in {"reporting", "raised"} : probe' = [probe EXCEPT ![h][p] = x]
    BY <1>4 DEF Probe, ProbeRaises
  <2>2. \A g \in Hosts, q \in Ports : probe'[g][q] = "done" <=> probe[g][q] = "done"
    BY <2>1 DEF Shapes
  <2> QED
    BY <1>2, <2>1, <2>2
<1>5. ASSUME NEW h \in Hosts, NEW p \in Ports, PutPort(h, p) PROVE PortsCounted'
  <2>1. /\ counts' = counts /\ probe[h][p] = "reporting"
        /\ events' = Append(events, <<"port", h>>)
        /\ probe' = [probe EXCEPT ![h][p] = "done"]
    BY <1>5 DEF PutPort
  <2>2. SUFFICES ASSUME NEW g \in Hosts
                 PROVE  counts[g] + Cardinality(PortEvents(g)') = Cardinality(DonePorts(g)')
    BY <2>1 DEF PortsCounted
  <2>3. <<"port", h>> \in Kinds \X Hosts
    BY DEF Kinds
  <2>4. /\ Cardinality(PortEvents(g)) \in Nat
        /\ Cardinality(PortEvents(g)') = Cardinality(PortEvents(g))
             + (IF <<"port", h>> = <<"port", g>> THEN 1 ELSE 0)
    BY <1>1, <2>1, <2>3, PlacesAppend DEF PortEvents
  <2>5. IsFiniteSet(DonePorts(g)) /\ Cardinality(DonePorts(g)) \in Nat
    BY CountBound
  <2>6. counts[g] \in Nat /\ counts[g] + Cardinality(PortEvents(g)) = Cardinality(DonePorts(g))
    BY DEF PortsCounted
  <2>7. CASE g = h
    <3>1. DonePorts(g)' = DonePorts(g) \cup {p} /\ p \notin DonePorts(g)
      BY <2>1, <2>7 DEF DonePorts, Shapes
    <3>2. Cardinality(DonePorts(g) \cup {p}) = Cardinality(DonePorts(g)) + 1
      BY <2>5, <3>1, FS_AddElement
    <3> QED
      BY <2>4, <2>5, <2>6, <2>7, <3>1, <3>2
  <2>8. CASE g # h
    <3>1. DonePorts(g)' = DonePorts(g)
      BY <2>1, <2>8 DEF DonePorts, Shapes
    <3> QED
      BY <2>4, <2>6, <2>8, <3>1
  <2> QED
    BY <2>7, <2>8
<1>6. ASSUME NEW h \in Hosts, HostScanned(h) PROVE PortsCounted'
  BY <1>2, <1>6 DEF HostScanned
<1>7. ASSUME NEW h \in Hosts, PutHost(h) PROVE PortsCounted'
  <2>1. /\ UNCHANGED <<counts, probe>> /\ events' = Append(events, <<outcome[h], h>>)
        /\ task[h] = "reporting"
    BY <1>7 DEF PutHost
  <2>2. outcome[h] \in {"host", "error"}
    BY <2>1 DEF Outcomes, Shapes
  <2>3. <<outcome[h], h>> \in Kinds \X Hosts
    BY <2>2 DEF Kinds
  <2>4. ASSUME NEW g \in Hosts
        PROVE  Cardinality(PortEvents(g)') = Cardinality(PortEvents(g)) /\ DonePorts(g)' = DonePorts(g)
    <3>1. <<outcome[h], h>> # <<"port", g>>
      BY <2>2
    <3>2. /\ Cardinality(PortEvents(g)) \in Nat
          /\ Cardinality(PortEvents(g)') = Cardinality(PortEvents(g))
               + (IF <<outcome[h], h>> = <<"port", g>> THEN 1 ELSE 0)
      BY <1>1, <2>1, <2>3, PlacesAppend DEF PortEvents
    <3> QED
      BY <2>1, <3>1, <3>2 DEF DonePorts
  <2> QED
    BY <2>1, <2>4 DEF PortsCounted
<1>8. ASSUME NEW kind \in Kinds, Take(kind),
             kind = "port" => counts' = [counts EXCEPT ![Head(events)[2]] = @ + 1],
             kind # "port" => counts' = counts
      PROVE  PortsCounted'
  <2>1. /\ Head(events) = events[1] /\ events[1][1] = kind /\ events[1][2] \in Hosts
        /\ UNCHANGED probe
    BY <1>8, TakeFacts
  <2>2. events # <<>> /\ events' = Tail(events) /\ events[1] \in Kinds \X Hosts
    <3>1. events # <<>> /\ events' = Tail(events)
      BY <1>8 DEF Take
    <3> QED
      BY <1>1, <2>1, <3>1, HeadTailProperties
  <2>3. ASSUME NEW g \in Hosts
        PROVE  counts'[g] \in Nat /\ counts'[g] + Cardinality(PortEvents(g)') = Cardinality(DonePorts(g)')
    <3>1. /\ Cardinality(PortEvents(g)') \in Nat
          /\ Cardinality(PortEvents(g)) = Cardinality(PortEvents(g)')
               + (IF events[1] = <<"port", g>> THEN 1 ELSE 0)
      BY <1>1, <2>2, PlacesTail DEF PortEvents
    <3>2. counts[g] \in Nat /\ counts[g] + Cardinality(PortEvents(g)) = Cardinality(DonePorts(g))
      BY DEF PortsCounted
    <3>3. DonePorts(g)' = DonePorts(g)
      BY <2>1 DEF DonePorts
    <3>4. events[1] = <<"port", g>> <=> kind = "port" /\ g = events[1][2]
      BY <2>1, <2>2
    <3>5. counts'[g] = counts[g] + (IF events[1] = <<"port", g>> THEN 1 ELSE 0)
      BY <1>8, <2>1, <3>2, <3>4 DEF PortsCounted
    <3> QED
      BY <3>1, <3>2, <3>3, <3>5
  <2>4. counts' \in [Hosts -> Nat]
    BY <1>8, <2>1 DEF PortsCounted
  <2> QED
    BY <2>3, <2>4 DEF PortsCounted
<1>9. CASE CancelTasks
  <2>1. /\ UNCHANGED <<counts, events>>
        /\ \A h \in Hosts, p \in Ports : probe'[h][p] = "done" <=> probe[h][p] = "done"
    BY <1>9 DEF CancelTasks, InFlight
  <2> QED
    BY <1>2, <2>1
<1>10. CASE \/ \E scope \in SUBSET Hosts : Prepare(scope)
            \/ Persist \/ FailJob \/ JoinTasks \/ CompleteJob \/ Raise
  <2>1. UNCHANGED <<counts, events, probe>>
    BY <1>10 DEF Prepare, Persist, FailJob, JoinTasks, CompleteJob, Raise, scanVars
  <2> QED
    BY <1>2, <2>1
<1>11. CASE TakePort \/ TakeError \/ TakeHost
  <2>1. "port" \in Kinds /\ "error" \in Kinds /\ "host" \in Kinds
    BY DEF Kinds
  <2> QED
    BY <1>8, <1>11, <2>1 DEF TakePort, TakeError, TakeHost
<1> QED
  BY <1>3, <1>4, <1>5, <1>6, <1>7, <1>9, <1>10, <1>11 DEF Next, Scan, Coordinate

-----------------------------------------------------------------------------

\* What is put behind the queue waits, and so does what was there.
LEMMA WaitingPut ==
  ASSUME IInv, NEW e \in Kinds \X Hosts, events' = Append(events, e), NEW h
  PROVE  Waiting(h)' <=> Waiting(h) \/ (e[1] # "port" /\ e[2] = h)
<1>1. events \in Seq(Kinds \X Hosts)
  BY DEF IInv, Shapes, Kinds
<1>2. /\ Len(events) \in Nat /\ Len(events') = Len(events) + 1
      /\ events'[Len(events) + 1] = e
      /\ \A i \in 1 .. Len(events) : events'[i] = events[i]
  BY <1>1, AppendProperties, LenProperties
<1>3. \A i : i \in 1 .. Len(events') <=> i \in 1 .. Len(events) \/ i = Len(events) + 1
  BY <1>2
<1> QED
  BY <1>2, <1>3 DEF Waiting, Report

\* A report waits until it is taken, and no other report of its host does.
LEMMA WaitingTaken ==
  ASSUME IInv, NEW kind, Take(kind)
  PROVE  /\ \A h : Waiting(h) <=> Waiting(h)' \/ (kind # "port" /\ h = events[1][2])
         /\ \A h : kind # "port" /\ h = events[1][2] =>
              ~ Waiting(h)' /\ task[h] = "done" /\ outcome[h] = kind
<1>1. /\ events[1][1] = kind /\ Len(events) \in Nat \ {0}
      /\ Len(events') = Len(events) - 1
      /\ \A i \in 1 .. Len(events') : events'[i] = events[i + 1] /\ i + 1 \in 1 .. Len(events)
  BY TakeFacts
<1>2. \A i \in 1 .. Len(events) :
        i = 1 \/ (i - 1 \in 1 .. Len(events') /\ events'[i - 1] = events[i])
  <2>1. \A i \in 1 .. Len(events) : i = 1 \/ (i - 1 \in 1 .. Len(events') /\ (i - 1) + 1 = i)
    BY <1>1
  <2> QED
    BY <1>1, <2>1
<1>3. 1 \in 1 .. Len(events)
  BY <1>1
<1>4. ASSUME NEW h PROVE Waiting(h) <=> Waiting(h)' \/ (kind # "port" /\ h = events[1][2])
  <2>1. Waiting(h) => Waiting(h)' \/ (kind # "port" /\ h = events[1][2])
    BY <1>1, <1>2 DEF Waiting, Report
  <2>2. Waiting(h)' => Waiting(h)
    BY <1>1 DEF Waiting, Report
  <2>3. kind # "port" /\ h = events[1][2] => Waiting(h)
    BY <1>1, <1>3 DEF Waiting, Report
  <2> QED
    BY <2>1, <2>2, <2>3
<1>5. ASSUME NEW h, kind # "port", h = events[1][2]
      PROVE  ~ Waiting(h)' /\ task[h] = "done" /\ outcome[h] = kind
  <2>1. task[h] = "done" /\ outcome[h] = kind
    BY <1>1, <1>3, <1>5 DEF IInv, Reports, Report
  <2>2. ASSUME NEW i \in 1 .. Len(events'), Report(i)' PROVE events'[i][2] # h
    <3>1. i + 1 \in 1 .. Len(events) /\ events'[i] = events[i + 1] /\ 1 < i + 1
      BY <1>1
    <3> QED
      BY <1>1, <1>3, <1>5, <2>2, <3>1 DEF IInv, Reports, Report
  <2> QED
    BY <2>1, <2>2 DEF Waiting
<1> QED
  BY <1>4, <1>5

\* A report that is taken adds its host to those taken, and to the errors.
LEMMA TakenGrows ==
  ASSUME IInv, NEW kind \in {"error", "host"}, Take(kind)
  PROVE  /\ UNCHANGED <<task, outcome>>
         /\ \E h \in Hosts \ Taken :
              /\ h = Head(events)[2] /\ task[h] = "done" /\ outcome[h] = kind
              /\ Taken' = Taken \cup {h}
              /\ Erred' = IF kind = "error" THEN Erred \cup {h} ELSE Erred
<1>1. PICK h \in Hosts : h = events[1][2]
  BY TakeFacts
<1>2. UNCHANGED <<task, outcome>> /\ Head(events)[2] = h
  BY <1>1, TakeFacts
<1>3. /\ \A g : Waiting(g) <=> Waiting(g)' \/ g = h
      /\ ~ Waiting(h)' /\ task[h] = "done" /\ outcome[h] = kind
  BY <1>1, WaitingTaken
<1>4. h \notin Taken /\ Taken' = Taken \cup {h}
  BY <1>2, <1>3 DEF Taken
<1>5. Erred' = IF kind = "error" THEN Erred \cup {h} ELSE Erred
  BY <1>2, <1>3, <1>4 DEF Erred
<1> QED
  BY <1>2, <1>3, <1>4, <1>5

\* No other step changes who has been taken.
LEMMA TakenKept ==
  ASSUME IInv, Next, ~ TakeError, ~ TakeHost
  PROVE  Taken' = Taken /\ Erred' = Erred
<1> USE DEF IInv
<1>1. ASSUME \A h \in Hosts : Waiting(h)' <=> Waiting(h),
             \A h \in Hosts : task'[h] = "done" <=> task[h] = "done",
             \A h \in Hosts : task[h] = "done" => outcome'[h] = outcome[h]
      PROVE  Taken' = Taken /\ Erred' = Erred
  BY <1>1 DEF Taken, Erred
<1>2. ASSUME UNCHANGED events PROVE \A h \in Hosts : Waiting(h)' <=> Waiting(h)
  BY <1>2 DEF Waiting, Report
<1>3. ASSUME NEW h \in Hosts, StartHost(h) \/ HostScanned(h) \/ \E p \in Ports : Probe(h, p) \/ ProbeRaises(h, p)
      PROVE  Taken' = Taken /\ Erred' = Erred
  <2>1. /\ events' = events
        /\ \/ UNCHANGED <<task, outcome>>
           \/ /\ task[h] \in {"created", "scanning"}
              /\ \E t \in {"scanning", "reporting"} : task' = [task EXCEPT ![h] = t]
              /\ \E o \in {outcome[h], "error", "host"} : outcome' = [outcome EXCEPT ![h] = o]
    BY <1>3 DEF StartHost, HostScanned, Probe, ProbeRaises, Shapes
  <2>2. /\ \A g \in Hosts : task'[g] = "done" <=> task[g] = "done"
        /\ \A g \in Hosts : task[g] = "done" => outcome'[g] = outcome[g]
    BY <2>1 DEF Shapes
  <2> QED
    BY <1>1, <1>2, <2>1, <2>2
<1>4. ASSUME NEW h \in Hosts, NEW p \in Ports, PutPort(h, p)
      PROVE  Taken' = Taken /\ Erred' = Erred
  <2>1. UNCHANGED <<task, outcome>> /\ events' = Append(events, <<"port", h>>)
        /\ <<"port", h>> \in Kinds \X Hosts
    BY <1>4 DEF PutPort, Kinds
  <2>2. \A g \in Hosts : Waiting(g)' <=> Waiting(g)
    BY <2>1, WaitingPut
  <2> QED
    BY <1>1, <2>1, <2>2
<1>5. ASSUME NEW h \in Hosts, PutHost(h)
      PROVE  Taken' = Taken /\ Erred' = Erred
  <2>1. /\ task[h] = "reporting" /\ task' = [task EXCEPT ![h] = "done"] /\ outcome' = outcome
        /\ events' = Append(events, <<outcome[h], h>>)
    BY <1>5 DEF PutHost
  <2>2. outcome[h] \in {"host", "error"} /\ <<outcome[h], h>> \in Kinds \X Hosts
    BY <2>1 DEF Outcomes, Shapes, Kinds
  <2>3. \A g \in Hosts : Waiting(g)' <=> Waiting(g) \/ g = h
    BY <2>1, <2>2, WaitingPut
  <2> QED
    BY <2>1, <2>3 DEF Taken, Erred, Shapes
<1>6. CASE \E scope \in SUBSET Hosts : Prepare(scope)
  <2>1. /\ UNCHANGED <<events, outcome>>
        /\ \A h \in Hosts : task[h] # "done" /\ task'[h] # "done"
    BY <1>6 DEF Prepare, Unprepared
  <2> QED
    BY <1>1, <1>2, <2>1
<1>7. CASE TakePort
  <2>1. Take("port") /\ UNCHANGED <<task, outcome>>
    BY <1>7, TakeFacts DEF TakePort
  <2>2. \A h \in Hosts : Waiting(h)' <=> Waiting(h)
    BY <2>1, WaitingTaken
  <2> QED
    BY <1>1, <2>1, <2>2
<1>8. CASE CancelTasks
  <2>1. /\ UNCHANGED <<events, outcome>>
        /\ \A h \in Hosts : task'[h] = "done" <=> task[h] = "done"
    BY <1>8 DEF CancelTasks
  <2> QED
    BY <1>1, <1>2, <2>1
<1>9. CASE Persist \/ FailJob \/ JoinTasks \/ CompleteJob \/ Raise
  <2>1. UNCHANGED <<events, task, outcome>>
    BY <1>9 DEF Persist, FailJob, JoinTasks, CompleteJob, Raise, scanVars
  <2> QED
    BY <1>1, <1>2, <2>1
<1> QED
  BY <1>3, <1>4, <1>5, <1>6, <1>7, <1>8, <1>9 DEF Next, Scan, Coordinate

\* A port in flight or done has had its host let through, and an error has a
\* cause that stays.
LEMMA CausesKept == IInv /\ Ledger /\ Next => Causes'
<1> SUFFICES ASSUME IInv, Ledger, Next PROVE Causes'
  OBVIOUS
<1> USE DEF IInv, Ledger
<1>1. ASSUME NEW h \in Hosts, StartHost(h) PROVE Causes'
  <2>1. /\ task[h] = "created" /\ inScope' = inScope
        /\ \/ /\ h \in inScope /\ task' = [task EXCEPT ![h] = "scanning"]
              /\ probe' = [probe EXCEPT ![h] = [p \in Ports |-> "probing"]]
              /\ outcome' = outcome
           \/ /\ h \notin inScope /\ task' = [task EXCEPT ![h] = "reporting"]
              /\ outcome' = [outcome EXCEPT ![h] = "error"]
              /\ probe' = probe
    BY <1>1 DEF StartHost
  <2>2. \A g \in Hosts \ {h} : probe'[g] = probe[g] /\ task'[g] = task[g] /\ outcome'[g] = outcome[g]
    BY <2>1 DEF Shapes
  <2>3. /\ task'[h] \in {"scanning", "reporting"}
        /\ h \notin inScope => probe'[h] = probe[h]
        /\ h \in inScope => outcome'[h] = "none"
    BY <2>1 DEF Outcomes, Shapes
  <2> QED
    BY <2>1, <2>2, <2>3 DEF Causes, Raised
<1>2. ASSUME NEW h \in Hosts, NEW p \in Ports, Probe(h, p) \/ ProbeRaises(h, p) \/ PutPort(h, p)
      PROVE  Causes'
  <2>1. /\ probe[h][p] \in InFlight /\ inScope' = inScope
        /\ \E x \in {"reporting", "raised", "done"} : probe' = [probe EXCEPT ![h][p] = x]
        /\ \/ UNCHANGED <<task, outcome>>
           \/ /\ task[h] = "scanning" /\ task' = [task EXCEPT ![h] = "reporting"]
              /\ outcome' = [outcome EXCEPT ![h] = "error"] /\ probe' = [probe EXCEPT ![h][p] = "raised"]
    BY <1>2 DEF Probe, ProbeRaises, PutPort, InFlight
  <2>2. h \in inScope /\ task[h] \notin {"none", "created"}
    BY <2>1 DEF Causes, InFlight
  <2>3. \A g \in Hosts : Raised(g) => Raised(g)'
    BY <2>1 DEF Raised, Shapes, InFlight
  <2>4. task' # task => Raised(h)'
    BY <2>1 DEF Raised, Shapes
  <2>5. \A g \in Hosts \ {h} : probe'[g] = probe[g] /\ task'[g] = task[g] /\ outcome'[g] = outcome[g]
    BY <2>1 DEF Shapes
  <2>6. /\ task'[h] \notin {"none", "created"} /\ (task'[h] = "done" => outcome'[h] # "none")
        /\ outcome'[h] = "error" => outcome[h] = "error" \/ task' # task
    BY <2>1, <2>2 DEF Causes, Shapes
  <2> QED
    BY <2>1, <2>2, <2>3, <2>4, <2>5, <2>6 DEF Causes
<1>3. ASSUME NEW h \in Hosts, HostScanned(h) \/ PutHost(h) PROVE Causes'
  BY SMTT(30), <1>3 DEF HostScanned, PutHost, Causes, Outcomes, Shapes, Raised
<1>4. ASSUME NEW scope \in SUBSET Hosts, Prepare(scope) PROVE Causes'
  BY <1>4 DEF Prepare, Causes, Outcomes, Unprepared, Raised
<1>5. CASE CancelTasks
  BY <1>5 DEF CancelTasks, Causes, Raised, InFlight
<1>6. CASE \/ TakePort \/ TakeError \/ TakeHost \/ Persist \/ FailJob \/ JoinTasks
           \/ CompleteJob \/ Raise
  <2>1. UNCHANGED <<inScope, task, outcome, probe>>
    BY <1>6 DEF TakePort, TakeError, TakeHost, Take, Persist, FailJob, JoinTasks, CompleteJob,
                Raise, scanVars
  <2> QED
    BY <2>1 DEF Causes, Raised
<1> QED
  BY <1>1, <1>2, <1>3, <1>4, <1>5, <1>6 DEF Next, Scan, Coordinate

\* The queue keeps the order: a host's ports are counted before its report.
LEMMA ReportsLastKept == IInv /\ Ledger /\ Next => ReportsLast'
<1> SUFFICES ASSUME IInv, Ledger, Next PROVE ReportsLast'
  OBVIOUS
<1> USE DEF IInv, Ledger
<1>1. events \in Seq(Kinds \X Hosts)
  BY DEF Shapes, Kinds
<1>2. ASSUME UNCHANGED events,
             \A h \in Hosts : task'[h] = "done" => task[h] = "done" /\ outcome'[h] = outcome[h]
      PROVE  ReportsLast'
  BY <1>2 DEF ReportsLast, PortEvents, Places
<1>3. ASSUME NEW e \in Kinds \X Hosts, events' = Append(events, e)
      PROVE  /\ Len(events) \in Nat /\ Len(events') = Len(events) + 1
             /\ events'[Len(events) + 1] = e
             /\ \A i \in 1 .. Len(events) : events'[i] = events[i]
             /\ \A i \in 1 .. Len(events') : i \in 1 .. Len(events) \/ i = Len(events) + 1
  <2>1. /\ Len(events) \in Nat /\ Len(events') = Len(events) + 1
        /\ events'[Len(events) + 1] = e
        /\ \A i \in 1 .. Len(events) : events'[i] = events[i]
    BY <1>1, <1>3, AppendProperties, LenProperties
  <2> QED
    BY <2>1
<1>4. ASSUME NEW h \in Hosts,
             StartHost(h) \/ HostScanned(h) \/ \E p \in Ports : Probe(h, p) \/ ProbeRaises(h, p)
      PROVE  ReportsLast'
  <2>1. /\ events' = events
        /\ \/ UNCHANGED <<task, outcome>>
           \/ /\ \E t \in {"scanning", "reporting"} : task' = [task EXCEPT ![h] = t]
              /\ \E o \in {outcome[h], "error", "host"} : outcome' = [outcome EXCEPT ![h] = o]
    BY <1>4 DEF StartHost, HostScanned, Probe, ProbeRaises, Shapes
  <2>2. \A g \in Hosts : task'[g] = "done" => task[g] = "done" /\ outcome'[g] = outcome[g]
    BY <2>1 DEF Shapes
  <2> QED
    BY <1>2, <2>1, <2>2
<1>5. ASSUME NEW h \in Hosts, NEW p \in Ports, PutPort(h, p) PROVE ReportsLast'
  <2>1. /\ probe[h][p] = "reporting" /\ UNCHANGED <<task, outcome>>
        /\ events' = Append(events, <<"port", h>>) /\ <<"port", h>> \in Kinds \X Hosts
    BY <1>5 DEF PutPort, Kinds
  <2>2. outcome[h] # "host"
    BY <2>1 DEF Outcomes
  <2> SUFFICES ASSUME NEW g \in Hosts, task[g] = "done", outcome[g] = "host",
                      NEW i \in 1 .. Len(events'), events'[i] = <<"port", g>>
               PROVE  \E j \in 1 .. Len(events') : i < j /\ events'[j] = <<"host", g>>
    BY <2>1 DEF ReportsLast, PortEvents, Places
  <2>3. i \in 1 .. Len(events) /\ events[i] = <<"port", g>>
    BY <1>3, <2>1, <2>2
  <2>4. PICK j \in 1 .. Len(events) : i < j /\ events[j] = <<"host", g>>
    BY <2>3 DEF ReportsLast, PortEvents, Places
  <2>5. j \in 1 .. Len(events') /\ events'[j] = events[j]
    BY <1>3, <2>1
  <2> QED
    BY <2>4, <2>5
<1>6. ASSUME NEW h \in Hosts, PutHost(h) PROVE ReportsLast'
  <2>1. /\ task[h] = "reporting" /\ task' = [task EXCEPT ![h] = "done"] /\ outcome' = outcome
        /\ events' = Append(events, <<outcome[h], h>>)
    BY <1>6 DEF PutHost
  <2>2. outcome[h] \in {"host", "error"} /\ <<outcome[h], h>> \in Kinds \X Hosts
    BY <2>1 DEF Outcomes, Shapes, Kinds
  <2> SUFFICES ASSUME NEW g \in Hosts, task'[g] = "done", outcome[g] = "host",
                      NEW i \in 1 .. Len(events'), events'[i] = <<"port", g>>
               PROVE  \E j \in 1 .. Len(events') : i < j /\ events'[j] = <<"host", g>>
    BY <2>1 DEF ReportsLast, PortEvents, Places
  <2>3. <<outcome[h], h>> # <<"port", g>>
    BY <2>2
  <2>4. i \in 1 .. Len(events) /\ events[i] = <<"port", g>>
    BY <1>3, <2>1, <2>2, <2>3
  <2>5. CASE g = h
    <3>1. Len(events) + 1 \in 1 .. Len(events') /\ i < Len(events) + 1
      BY <1>3, <2>1, <2>2, <2>4
    <3>2. events'[Len(events) + 1] = <<"host", g>>
      BY <1>3, <2>1, <2>2, <2>5
    <3> QED
      BY <3>1, <3>2
  <2>6. CASE g # h
    <3>1. task[g] = "done"
      BY <2>1, <2>6 DEF Shapes
    <3>2. PICK j \in 1 .. Len(events) : i < j /\ events[j] = <<"host", g>>
      BY <2>4, <3>1 DEF ReportsLast, PortEvents, Places
    <3>3. j \in 1 .. Len(events') /\ events'[j] = events[j]
      BY <1>3, <2>1, <2>2
    <3> QED
      BY <3>2, <3>3
  <2> QED
    BY <2>5, <2>6
<1>7. ASSUME NEW kind, Take(kind) PROVE ReportsLast'
  <2>1. /\ UNCHANGED <<task, outcome>> /\ Len(events) \in Nat \ {0}
        /\ Len(events') = Len(events) - 1
        /\ \A i \in 1 .. Len(events') : events'[i] = events[i + 1] /\ i + 1 \in 1 .. Len(events)
    BY <1>7, TakeFacts
  <2> SUFFICES ASSUME NEW g \in Hosts, task[g] = "done", outcome[g] = "host",
                      NEW i \in 1 .. Len(events'), events'[i] = <<"port", g>>
               PROVE  \E j \in 1 .. Len(events') : i < j /\ events'[j] = <<"host", g>>
    BY <2>1 DEF ReportsLast, PortEvents, Places
  <2>2. PICK j \in 1 .. Len(events) : i + 1 < j /\ events[j] = <<"host", g>>
    BY <2>1 DEF ReportsLast, PortEvents, Places
  <2>3. j - 1 \in 1 .. Len(events') /\ i < j - 1 /\ (j - 1) + 1 = j
    BY <2>1, <2>2
  <2> QED
    BY <2>1, <2>2, <2>3
<1>8. CASE \/ \E scope \in SUBSET Hosts : Prepare(scope)
           \/ CancelTasks \/ Persist \/ FailJob \/ JoinTasks \/ CompleteJob \/ Raise
  <2>1. /\ UNCHANGED <<events, outcome>>
        /\ \A h \in Hosts : task'[h] = "done" => task[h] = "done"
    BY <1>8 DEF Prepare, CancelTasks, Persist, FailJob, JoinTasks, CompleteJob, Raise, scanVars
  <2> QED
    BY <1>2, <2>1
<1> QED
  BY <1>4, <1>5, <1>6, <1>7, <1>8 DEF Next, Scan, Coordinate, TakePort, TakeError, TakeHost

-----------------------------------------------------------------------------

\* A port event adds to the ports of its host and of the job.
LEMMA PortTaken ==
  ASSUME IInv, TakePort
  PROVE  \E h \in Hosts :
           /\ events[1] = <<"port", h>> /\ counts' = [counts EXCEPT ![h] = @ + 1]
           /\ UNCHANGED <<finished, runner, current, rows>>
           /\ progress' \in Stats
           /\ progress'.ports_scanned = progress.ports_scanned + 1
           /\ progress'.hosts_scanned =
                progress.hosts_scanned + (IF counts[h] + 1 = NumPorts THEN 1 ELSE 0)
           /\ progress'.errors = progress.errors
           /\ progress'.phase = IF progress.ports_scanned + 1 = NumHosts * NumPorts
                                THEN "analyzing" ELSE progress.phase
<1> USE DEF IInv
<1>1. Take("port")
  BY DEF TakePort
<1>2. PICK h \in Hosts : h = Head(events)[2] /\ Head(events) = events[1] /\ events[1] = <<"port", h>>
  <2>1. /\ Head(events) = events[1] /\ events[1][1] = "port" /\ events[1][2] \in Hosts
        /\ Len(events) \in Nat \ {0}
    BY <1>1, TakeFacts
  <2>2. events \in Seq(Kinds \X Hosts)
    BY DEF Shapes, Kinds
  <2>3. events[1] \in Kinds \X Hosts
    BY <2>1, <2>2, ElementOfSeq
  <2> QED
    BY <2>1, <2>3
<1> DEFINE x == IF counts[h] + 1 = NumPorts THEN 1 ELSE 0
           ph == IF progress.ports_scanned + 1 = NumHosts * NumPorts
                 THEN "analyzing" ELSE progress.phase
           next(s, y, z) == [s EXCEPT !.ports_scanned = @ + 1, !.hosts_scanned = @ + y, !.phase = z]
           t == next(progress, x, ph)
<1>3. /\ progress' = t /\ counts' = [counts EXCEPT ![h] = @ + 1]
      /\ UNCHANGED <<finished, runner, current, rows>>
  BY <1>2 DEF TakePort, EmitProgress, RecordPort
<1>4. progress \in Stats /\ x \in Nat /\ ph \in Phases
  BY DEF Shapes, Stats, Phases
<1> HIDE DEF x, ph
<1>5. /\ t \in Stats /\ t.phase = ph
      /\ t.ports_scanned = progress.ports_scanned + 1 /\ t.hosts_scanned = progress.hosts_scanned + x
      /\ t.errors = progress.errors
  <2>1. \A s \in Stats, y \in Nat, z \in Phases :
          /\ next(s, y, z) \in Stats /\ next(s, y, z).phase = z
          /\ next(s, y, z).ports_scanned = s.ports_scanned + 1
          /\ next(s, y, z).hosts_scanned = s.hosts_scanned + y
          /\ next(s, y, z).errors = s.errors
    BY PortRecorded
  <2> HIDE DEF next
  <2> QED
    BY <1>4, <2>1
<1> HIDE DEF t
<1> QED
  BY <1>2, <1>3, <1>5 DEF x, ph

\* An error event adds a host to those scanned and to the errors.
LEMMA ErrorTaken ==
  ASSUME IInv, TakeError
  PROVE  /\ UNCHANGED <<counts, runner, current, rows>> /\ finished' = finished + 1
         /\ progress' \in Stats /\ progress'.phase = progress.phase
         /\ progress'.ports_scanned = progress.ports_scanned
         /\ progress'.hosts_scanned = progress.hosts_scanned + 1
         /\ progress'.errors = progress.errors + 1
<1> DEFINE t == [progress EXCEPT !.hosts_scanned = @ + 1, !.errors = @ + 1]
<1>1. /\ progress' = t /\ finished' = finished + 1
      /\ UNCHANGED <<counts, runner, current, rows>>
  BY DEF TakeError, EmitProgress
<1>2. progress \in Stats
  BY DEF IInv, Shapes
<1>3. /\ t \in Stats /\ t.phase = progress.phase
      /\ t.ports_scanned = progress.ports_scanned /\ t.hosts_scanned = progress.hosts_scanned + 1
      /\ t.errors = progress.errors + 1
  BY <1>2, ErrorRecorded
<1> HIDE DEF t
<1> QED
  BY <1>1, <1>3

\* The other steps count neither ports nor errors.
LEMMA NothingTaken ==
  ASSUME IInv, Next, ~ TakePort, ~ TakeError
  PROVE  /\ counts' = counts /\ (TakeHost \/ finished' = finished)
         /\ progress' \in Stats
         /\ progress'.ports_scanned = progress.ports_scanned
         /\ progress'.hosts_scanned = progress.hosts_scanned
         /\ progress'.errors = progress.errors
<1>1. progress \in Stats
  BY DEF IInv, Shapes
<1>2. CASE UNCHANGED <<progress, counts>> /\ (TakeHost \/ finished' = finished)
  BY <1>1, <1>2
<1>3. ASSUME NEW ph \in Phases, progress' = [progress EXCEPT !.phase = ph],
             UNCHANGED <<counts, finished>>
      PROVE  /\ counts' = counts /\ finished' = finished
             /\ progress' \in Stats
             /\ progress'.ports_scanned = progress.ports_scanned
             /\ progress'.hosts_scanned = progress.hosts_scanned
             /\ progress'.errors = progress.errors
  BY <1>1, <1>3, PhaseEntered
<1>4. CASE (\E scope \in SUBSET Hosts : Prepare(scope)) \/ JoinTasks \/ CompleteJob
  <2>1. /\ \E ph \in Phases : progress' = [progress EXCEPT !.phase = ph]
        /\ UNCHANGED <<counts, finished>>
    BY <1>4 DEF Prepare, JoinTasks, CompleteJob, Phases
  <2> QED
    BY <1>3, <2>1
<1>5. CASE Persist
  <2>1. progress' = [progress EXCEPT !.hosts_analyzed = @ + 1] /\ UNCHANGED <<counts, finished>>
    BY <1>5 DEF Persist, EmitProgress
  <2> QED
    BY <1>1, <2>1, HostRecorded
<1>6. CASE (\E h \in Hosts : Scan(h)) \/ TakeHost \/ CancelTasks \/ FailJob \/ Raise
  BY <1>2, <1>6 DEF Scan, StartHost, Probe, ProbeRaises, PutPort, HostScanned, PutHost, TakeHost,
                    CancelTasks, FailJob, Raise
<1> QED
  BY <1>4, <1>5, <1>6 DEF Next, Coordinate

\* What the counters count are finite sets of hosts and of ports.
LEMMA TalliedSets ==
  /\ IsFiniteSet(Taken) /\ IsFiniteSet(Erred) /\ IsFiniteSet(Whole)
  /\ {Cardinality(Taken), Cardinality(Erred), Cardinality(Whole), NumHosts, NumPorts} \subseteq Nat
  /\ IsFiniteSet(Counted) /\ Cardinality(Counted) \in Nat
  /\ IsFiniteSet(Hosts \X (1 .. NumPorts)) /\ Cardinality(Hosts \X (1 .. NumPorts)) = NumHosts * NumPorts
<1>1. NumHosts \in Nat /\ NumPorts \in Nat
  BY FS_CardinalityType, ScanAssumption DEF NumHosts, NumPorts
<1>2. Taken \in SUBSET Hosts /\ Erred \in SUBSET Hosts /\ Whole \in SUBSET Hosts
  BY DEF Taken, Erred, Whole
<1>3. IsFiniteSet(Taken) /\ IsFiniteSet(Erred) /\ IsFiniteSet(Whole)
  BY <1>2, FS_Subset, ScanAssumption
<1>4. Cardinality(Taken) \in Nat /\ Cardinality(Erred) \in Nat /\ Cardinality(Whole) \in Nat
  BY <1>3, FS_CardinalityType
<1>5. IsFiniteSet(1 .. NumPorts) /\ Cardinality(1 .. NumPorts) = NumPorts
  <2>1. /\ IsFiniteSet(1 .. NumPorts)
        /\ Cardinality(1 .. NumPorts) = IF 1 > NumPorts THEN 0 ELSE NumPorts - 1 + 1
    BY <1>1, FS_Interval
  <2> QED
    BY <1>1, <2>1
<1>6. /\ IsFiniteSet(Hosts \X (1 .. NumPorts))
      /\ Cardinality(Hosts \X (1 .. NumPorts)) = NumHosts * NumPorts
  BY <1>5, FS_Product, ScanAssumption DEF NumHosts
<1>7. Counted \in SUBSET (Hosts \X (1 .. NumPorts))
  BY DEF Counted
<1>8. IsFiniteSet(Counted)
  BY <1>6, <1>7, FS_Subset
<1>9. Cardinality(Counted) \in Nat
  BY <1>8, FS_CardinalityType
<1> QED
  BY <1>1, <1>3, <1>4, <1>6, <1>8, <1>9

\* The counters count what has been taken.
LEMMA TalliesKept == IInv /\ Ledger /\ Next => Tallies'
<1> SUFFICES ASSUME IInv, Ledger, Next PROVE Tallies'
  OBVIOUS
<1> USE DEF Ledger
<1>1. CASE TakePort
  <2>1. PICK h \in Hosts :
           /\ events[1] = <<"port", h>> /\ counts' = [counts EXCEPT ![h] = @ + 1]
           /\ finished' = finished
           /\ progress'.ports_scanned = progress.ports_scanned + 1
           /\ progress'.hosts_scanned =
                progress.hosts_scanned + (IF counts[h] + 1 = NumPorts THEN 1 ELSE 0)
           /\ progress'.errors = progress.errors
    BY <1>1, PortTaken
  <2>2. ~ TakeError /\ ~ TakeHost /\ events # <<>> /\ events \in Seq(Kinds \X Hosts)
    BY <1>1 DEF TakePort, TakeError, TakeHost, Take, IInv, Shapes, Kinds
  <2>3. Taken' = Taken /\ Erred' = Erred
    BY <2>2, TakenKept
  <2>4. counts[h] \in Nat /\ counts[h] < NumPorts /\ NumPorts \in Nat
    <3>1. /\ Cardinality(Places(<<"port", h>>, Tail(events))) \in Nat
          /\ Cardinality(PortEvents(h)) =
               Cardinality(Places(<<"port", h>>, Tail(events))) + 1
      BY <2>1, <2>2, PlacesTail DEF PortEvents
    <3> QED
      BY <3>1, CountBound
  <2>5. Cardinality(Counted') = Cardinality(Counted) + 1
    <3>1. /\ Counted' = Counted \cup {<<h, counts[h] + 1>>}
          /\ <<h, counts[h] + 1>> \notin Counted
      BY <2>1, <2>4 DEF Counted, PortsCounted
    <3> QED
      BY <3>1, TalliedSets, FS_AddElement
  <2>6. Cardinality(Whole') = Cardinality(Whole) + (IF counts[h] + 1 = NumPorts THEN 1 ELSE 0)
    <3>1. CASE counts[h] + 1 = NumPorts
      <4>1. Ports # {}
        BY <2>4, FS_EmptySet DEF NumPorts
      <4>2. Whole' = Whole \cup {h} /\ h \notin Whole
        BY <2>1, <2>4, <3>1, <4>1 DEF Whole, PortsCounted
      <4> QED
        BY <3>1, <4>2, TalliedSets, FS_AddElement
    <3>2. CASE counts[h] + 1 # NumPorts
      <4>1. Whole' = Whole
        BY <2>1, <2>4, <3>2 DEF Whole, PortsCounted
      <4> QED
        BY <3>2, <4>1, TalliedSets
    <3> QED
      BY <3>1, <3>2
  <2> QED
    BY <2>1, <2>3, <2>5, <2>6, TalliedSets DEF Tallies
<1>2. CASE TakeError
  <2>1. /\ counts' = counts /\ finished' = finished + 1
        /\ progress'.ports_scanned = progress.ports_scanned
        /\ progress'.hosts_scanned = progress.hosts_scanned + 1
        /\ progress'.errors = progress.errors + 1
    BY <1>2, ErrorTaken
  <2>2. PICK h \in Hosts \ Taken : Taken' = Taken \cup {h} /\ Erred' = Erred \cup {h}
    BY <1>2, TakenGrows DEF TakeError
  <2>3. h \notin Erred
    BY DEF Erred
  <2>4. Cardinality(Taken') = Cardinality(Taken) + 1 /\ Cardinality(Erred') = Cardinality(Erred) + 1
    BY <2>2, <2>3, TalliedSets, FS_AddElement
  <2>5. Whole' = Whole /\ Counted' = Counted
    BY <2>1 DEF Whole, Counted
  <2> QED
    BY <2>1, <2>4, <2>5, TalliedSets DEF Tallies
<1>3. CASE TakeHost
  <2>1. /\ counts' = counts /\ progress' = progress /\ finished' = finished + 1
    BY <1>3 DEF TakeHost
  <2>2. PICK h \in Hosts \ Taken : Taken' = Taken \cup {h} /\ Erred' = Erred
    BY <1>3, TakenGrows DEF TakeHost
  <2>3. Cardinality(Taken') = Cardinality(Taken) + 1
    BY <2>2, TalliedSets, FS_AddElement
  <2>4. Whole' = Whole /\ Counted' = Counted
    BY <2>1 DEF Whole, Counted
  <2> QED
    BY <2>1, <2>2, <2>3, <2>4 DEF Tallies
<1>4. CASE ~ TakePort /\ ~ TakeError /\ ~ TakeHost
  <2>1. Taken' = Taken /\ Erred' = Erred
    BY <1>4, TakenKept
  <2>2. /\ counts' = counts /\ finished' = finished
        /\ progress'.ports_scanned = progress.ports_scanned
        /\ progress'.hosts_scanned = progress.hosts_scanned
        /\ progress'.errors = progress.errors
    BY <1>4, NothingTaken
  <2>3. Whole' = Whole /\ Counted' = Counted
    BY <2>2 DEF Whole, Counted
  <2> QED
    BY <2>1, <2>2, <2>3 DEF Tallies
<1> QED
  BY <1>1, <1>2, <1>3, <1>4

-----------------------------------------------------------------------------

\* Before the run nothing is counted.
LEMMA InitLedger == Init => Ledger
<1> SUFFICES ASSUME Init PROVE Ledger
  OBVIOUS
<1>1. IInv
  BY InitIInv
<1>2. events = <<>> /\ Len(events) = 0
  BY EmptySeq DEF Init
<1>3. /\ \A h \in Hosts : counts[h] = 0 /\ PortEvents(h) = {} /\ DonePorts(h) = {}
      /\ counts \in [Hosts -> Nat]
  BY <1>2 DEF Init, PortEvents, Places, DonePorts
<1>4. Taken = {} /\ Erred = {} /\ Counted = {} /\ Whole = {}
  <2>1. Ports # {} => NumPorts # 0
    BY FS_EmptySet, ScanAssumption DEF NumPorts
  <2>2. Taken = {} /\ Erred = {} /\ Whole = {}
    BY <1>3, <2>1 DEF Init, Taken, Erred, Whole
  <2>3. NumPorts \in Nat
    BY FS_CardinalityType, ScanAssumption DEF NumPorts
  <2>4. Counted = {}
    BY <1>3, <2>3 DEF Counted
  <2> QED
    BY <2>2, <2>4
<1>5. Cardinality({}) = 0
  BY FS_EmptySet
<1>6. PortsCounted
  <2>1. \A h \in Hosts : Cardinality(PortEvents(h)) = 0 /\ Cardinality(DonePorts(h)) = 0
    BY <1>3, <1>5
  <2> QED
    BY <1>3, <2>1 DEF PortsCounted
<1>7. Tallies
  BY <1>4, <1>5 DEF Init, Fresh, Tallies
<1>8. ReportsLast /\ Causes /\ Over
  BY DEF Init, Fresh, ReportsLast, Causes, Over
<1>9. Stages
  BY <1>4 DEF Init, Stages
<1>10. Behind
  BY DEF Init, Fresh, Behind
<1> QED
  BY <1>6, <1>7, <1>8, <1>9, <1>10 DEF Ledger

\* The counters in memory never go back.
LEMMA CountersGrow ==
  ASSUME IInv, Next
  PROVE  /\ progress \in Stats /\ progress' \in Stats
         /\ progress'.ports_scanned >= progress.ports_scanned
         /\ progress'.hosts_scanned >= progress.hosts_scanned
         /\ progress'.errors >= progress.errors
<1>1. progress \in Stats
  BY DEF IInv, Shapes
<1>2. CASE TakePort
  BY <1>1, <1>2, PortTaken DEF Stats
<1>3. CASE TakeError
  BY <1>1, <1>3, ErrorTaken DEF Stats
<1>4. CASE ~ TakePort /\ ~ TakeError
  BY <1>1, <1>4, NothingTaken DEF Stats
<1> QED
  BY <1>2, <1>3, <1>4

\* Which steps move the phase in memory, and where to.
LEMMA PhaseMoves ==
  ASSUME IInv, Next
  PROVE  \/ progress'.phase = progress.phase
         \/ runner = "preparing" /\ runner' = "scanning" /\ progress'.phase = "scanning"
         \/ TakePort /\ progress'.phase = "analyzing"
              /\ progress.ports_scanned + 1 = NumHosts * NumPorts
         \/ JoinTasks /\ progress'.phase = "analyzing"
         \/ runner = "completing" /\ runner' = "completed" /\ progress'.phase = "completed"
<1>1. progress \in Stats
  BY DEF IInv, Shapes
<1>2. CASE TakePort
  BY <1>2, PortTaken
<1>3. CASE TakeError
  BY <1>3, ErrorTaken
<1>4. CASE \/ \E scope \in SUBSET Hosts : Prepare(scope)
           \/ JoinTasks \/ CompleteJob
  <2>1. \E ph \in Phases :
          /\ progress' = [progress EXCEPT !.phase = ph]
          /\ \/ runner = "preparing" /\ runner' = "scanning" /\ ph = "scanning"
             \/ JoinTasks /\ ph = "analyzing"
             \/ runner = "completing" /\ runner' = "completed" /\ ph = "completed"
    BY <1>4 DEF Prepare, JoinTasks, CompleteJob, Phases
  <2> QED
    BY <1>1, <2>1, PhaseEntered
<1>5. CASE Persist
  <2>1. progress' = [progress EXCEPT !.hosts_analyzed = @ + 1]
    BY <1>5 DEF Persist, EmitProgress
  <2> QED
    BY <1>1, <2>1, HostRecorded
<1>6. CASE (\E h \in Hosts : Scan(h)) \/ TakeHost \/ CancelTasks \/ FailJob \/ Raise
  <2>1. progress' = progress
    BY <1>6 DEF Scan, StartHost, Probe, ProbeRaises, PutPort, HostScanned, PutHost, TakeHost,
                CancelTasks, FailJob, Raise
  <2> QED
    BY <2>1
<1> QED
  BY <1>2, <1>3, <1>4, <1>5, <1>6 DEF Next, Coordinate

\* A commit writes what is in memory, all but the one of the failure.
LEMMA Commits ==
  ASSUME IInv, Ledger, Next, ~ FailJob
  PROVE  \/ stored' = stored
         \/ stored' = [stats |-> progress', hosts |-> rows']
<1>1. CASE \E scope \in SUBSET Hosts : Prepare(scope)
  <2>1. /\ runner = "preparing" /\ rows' = rows
        /\ stored' = [stored EXCEPT !.stats = progress']
    BY <1>1 DEF Prepare
  <2>2. stored = [stats |-> Fresh, hosts |-> {}] /\ rows = {}
    BY <2>1 DEF Ledger, Behind, IInv, Unprepared
  <2> QED
    BY <2>1, <2>2
<1>2. CASE TakePort \/ TakeError \/ Persist
  <2>1. \E p, hosts : EmitProgress(p, hosts)
    BY <1>2 DEF TakePort, TakeError, Persist
  <2> QED
    BY <2>1 DEF EmitProgress
<1>3. CASE JoinTasks \/ CompleteJob
  BY <1>3 DEF JoinTasks, CompleteJob
<1>4. CASE (\E h \in Hosts : Scan(h)) \/ TakeHost \/ CancelTasks \/ Raise
  BY <1>4 DEF Scan, StartHost, Probe, ProbeRaises, PutPort, HostScanned, PutHost, TakeHost,
              CancelTasks, Raise, dbVars
<1> QED
  BY <1>1, <1>2, <1>3, <1>4 DEF Next, Coordinate

-----------------------------------------------------------------------------

\* A task that is done, and a port that is, stay so.
LEMMA Settled ==
  ASSUME IInv, Ledger, Next, runner # "preparing"
  PROVE  \A h \in Hosts :
           /\ task[h] = "done" => task'[h] = "done" /\ outcome'[h] = outcome[h]
           /\ \A p \in Ports : probe[h][p] = "done" => probe'[h][p] = "done"
<1> USE DEF IInv, Ledger
<1>1. ASSUME NEW h \in Hosts, StartHost(h)
      PROVE  /\ \A g \in Hosts : task[g] = "done" => task'[g] = "done" /\ outcome'[g] = outcome[g]
             /\ \A g \in Hosts, p \in Ports : probe[g][p] = "done" => probe'[g][p] = "done"
  <2>1. /\ task[h] = "created"
        /\ \E t \in {"scanning", "reporting"} : task' = [task EXCEPT ![h] = t]
        /\ \E o \in {outcome[h], "error"} : outcome' = [outcome EXCEPT ![h] = o]
        /\ probe' = probe \/ probe' = [probe EXCEPT ![h] = [p \in Ports |-> "probing"]]
    BY <1>1 DEF StartHost, Shapes
  <2>2. \A p \in Ports : probe[h][p] = "none"
    BY <2>1 DEF Causes
  <2> QED
    BY <2>1, <2>2 DEF Shapes
<1>2. ASSUME NEW h \in Hosts, NEW p \in Ports, Probe(h, p) \/ ProbeRaises(h, p) \/ PutPort(h, p)
      PROVE  /\ \A g \in Hosts : task[g] = "done" => task'[g] = "done" /\ outcome'[g] = outcome[g]
             /\ \A g \in Hosts, q \in Ports : probe[g][q] = "done" => probe'[g][q] = "done"
  <2>1. /\ probe[h][p] \in InFlight
        /\ \E x \in {"reporting", "raised", "done"} : probe' = [probe EXCEPT ![h][p] = x]
        /\ \/ UNCHANGED <<task, outcome>>
           \/ /\ task[h] = "scanning" /\ task' = [task EXCEPT ![h] = "reporting"]
              /\ outcome' = [outcome EXCEPT ![h] = "error"]
    BY <1>2 DEF Probe, ProbeRaises, PutPort, InFlight
  <2> QED
    BY <2>1 DEF Shapes, InFlight
<1>3. ASSUME NEW h \in Hosts, HostScanned(h) \/ PutHost(h)
      PROVE  /\ \A g \in Hosts : task[g] = "done" => task'[g] = "done" /\ outcome'[g] = outcome[g]
             /\ probe' = probe
  BY <1>3 DEF HostScanned, PutHost, Shapes
<1>4. CASE CancelTasks
  BY <1>4 DEF CancelTasks, InFlight
<1>5. CASE \/ TakePort \/ TakeError \/ TakeHost \/ Persist \/ FailJob \/ JoinTasks
           \/ CompleteJob \/ Raise
  <2>1. UNCHANGED <<task, outcome, probe>>
    BY <1>5 DEF TakePort, TakeError, TakeHost, Take, Persist, FailJob, JoinTasks, CompleteJob,
                Raise, scanVars
  <2> QED
    BY <2>1
<1>6. ~ \E scope \in SUBSET Hosts : Prepare(scope)
  BY DEF Prepare
<1> QED
  BY <1>1, <1>2, <1>3, <1>4, <1>5, <1>6 DEF Next, Scan, Coordinate

\* With its last port event every port of the run has been probed.
LEMMA LastPort ==
  ASSUME IInv, Ledger, TakePort, progress.ports_scanned + 1 = NumHosts * NumPorts
  PROVE  \A h \in Hosts, p \in Ports : probe[h][p] = "done"
<1>1. PICK h \in Hosts : events[1] = <<"port", h>> /\ counts' = [counts EXCEPT ![h] = @ + 1]
  BY PortTaken
<1>2. /\ counts \in [Hosts -> Nat]
      /\ \A g \in Hosts : counts[g] + Cardinality(PortEvents(g)) = Cardinality(DonePorts(g))
  BY DEF Ledger, PortsCounted
<1>3. \A g \in Hosts :
        /\ NumPorts \in Nat /\ counts[g] <= NumPorts
        /\ Cardinality(PortEvents(g)) \in Nat /\ Cardinality(DonePorts(g)) \in Nat
  BY CountBound DEF Ledger
<1>4. Cardinality(PortEvents(h)) > 0
  <2>1. events # <<>> /\ events \in Seq(Kinds \X Hosts)
    BY DEF TakePort, Take, IInv, Shapes, Kinds
  <2>2. /\ Cardinality(Places(<<"port", h>>, Tail(events))) \in Nat
        /\ Cardinality(PortEvents(h)) = Cardinality(Places(<<"port", h>>, Tail(events))) + 1
    BY <1>1, <2>1, PlacesTail DEF PortEvents
  <2> QED
    BY <2>2
<1> DEFINE C == Counted \cup {<<h, counts[h] + 1>>}
           All == Hosts \X (1 .. NumPorts)
<1>5. C \in SUBSET All /\ <<h, counts[h] + 1>> \notin Counted
  <2>1. counts[h] \in Nat /\ counts[h] + 1 <= NumPorts
    <3>1. Cardinality(DonePorts(h)) <= NumPorts
      <4>1. DonePorts(h) \in SUBSET Ports
        BY DEF DonePorts
      <4> QED
        BY <4>1, FS_Subset, ScanAssumption DEF NumPorts
    <3> QED
      BY <1>2, <1>3, <1>4, <3>1
  <2> QED
    BY <1>3, <2>1 DEF Counted
<1>6. C = All
  <2>1. Cardinality(Counted) = progress.ports_scanned
    BY DEF Ledger, Tallies
  <2>2. IsFiniteSet(Counted) /\ IsFiniteSet(All) /\ Cardinality(All) = NumHosts * NumPorts
    BY TalliedSets
  <2>3. Cardinality(C) = Cardinality(Counted) + 1
    BY <1>5, <2>2, FS_AddElement
  <2> HIDE DEF C, All
  <2>4. Cardinality(C) = Cardinality(All)
    BY <2>1, <2>2, <2>3
  <2> QED
    BY <1>5, <2>2, <2>4, FS_Subset
<1>7. ASSUME NEW g \in Hosts, NEW p \in Ports PROVE probe[g][p] = "done"
  <2>1. DonePorts(g) \in SUBSET Ports
    BY DEF DonePorts
  <2>2. NumPorts \in 1 .. NumPorts
    BY <1>3, <1>7, FS_EmptySet, ScanAssumption DEF NumPorts
  <2>3. <<g, NumPorts>> \in C
    BY <1>6, <2>2
  <2>4. Cardinality(DonePorts(g)) >= NumPorts
    <3>1. CASE <<g, NumPorts>> \in Counted
      BY <1>2, <1>3, <3>1 DEF Counted
    <3>2. CASE g = h /\ NumPorts = counts[h] + 1
      BY <1>2, <1>3, <1>4, <3>2
    <3> QED
      BY <2>3, <3>1, <3>2
  <2>5. DonePorts(g) = Ports
    <3>1. /\ Cardinality(DonePorts(g)) <= NumPorts
          /\ Cardinality(DonePorts(g)) = NumPorts => DonePorts(g) = Ports
      BY <2>1, FS_Subset, ScanAssumption DEF NumPorts
    <3> QED
      BY <1>3, <2>4, <3>1
  <2> QED
    BY <2>5 DEF DonePorts
<1> QED
  BY <1>7

\* The phase says that the probing is over only when it is.
LEMMA OverKept == IInv /\ Ledger /\ Next => Over'
<1> SUFFICES ASSUME IInv, Ledger, Next, progress'.phase \in {"analyzing", "completed"}
             PROVE  \/ \A h \in Hosts : task'[h] = "done"
                    \/ \A h \in Hosts, p \in Ports : probe'[h][p] = "done"
  BY DEF Over
<1>1. runner = "preparing" => progress.phase = "preparing"
  BY DEF Ledger, Behind, Fresh
<1>2. CASE progress.phase \in {"analyzing", "completed"}
  <2>1. runner # "preparing"
    BY <1>1, <1>2
  <2> QED
    BY <1>2, <2>1, Settled DEF Ledger, Over
<1>3. CASE TakePort /\ progress.ports_scanned + 1 = NumHosts * NumPorts
  <2>1. probe' = probe
    BY <1>3 DEF TakePort, Take, scanVars
  <2> QED
    BY <1>3, <2>1, LastPort
<1>4. CASE JoinTasks
  BY <1>4 DEF JoinTasks, scanVars
<1>5. CASE runner = "completing"
  BY <1>2, <1>5 DEF Ledger, Behind
<1> QED
  BY <1>2, <1>3, <1>4, <1>5, PhaseMoves

\* Where the coordinator can go from where it is.
LEMMA RunnerMoves ==
  ASSUME IInv, Ledger, Next
  PROVE  /\ runner' \in Progressing => runner \in Progressing /\ rows \cup current \subseteq rows' \cup current'
         /\ runner' # "analyzing" => current' = {}
         /\ runner' \in {"completing", "completed"} =>
              finished' = NumHosts \/ (runner' = runner /\ finished' = finished)
         /\ runner' = "completed" =>
              \/ runner = "completed" /\ UNCHANGED <<progress, rows, stored>>
              \/ stored' = [stats |-> progress', hosts |-> rows']
<1> USE DEF Progressing
<1>1. ASSUME NEW h \in Hosts, Scan(h) PROVE UNCHANGED <<runner, current, finished, progress, rows, stored>>
  BY <1>1 DEF Scan, StartHost, Probe, ProbeRaises, PutPort, HostScanned, PutHost, dbVars
<1>2. CASE \E h \in Hosts : Scan(h)
  BY <1>1, <1>2 DEF Ledger, Stages
<1>3. CASE \E scope \in SUBSET Hosts : Prepare(scope)
  BY <1>3 DEF Prepare, Ledger, Stages
<1>4. CASE TakePort \/ TakeError
  <2>1. /\ runner = "scanning" /\ runner' = runner /\ current' = current /\ rows' = rows
    BY <1>4 DEF TakePort, TakeError, Take, EmitProgress
  <2> QED
    BY <2>1 DEF Ledger, Stages
<1>5. CASE TakeHost
  BY <1>5 DEF TakeHost, Take, dbVars, Ledger, Stages
<1>6. CASE Persist
  BY <1>6 DEF Persist, EmitProgress
<1>7. CASE CancelTasks \/ FailJob \/ Raise
  BY <1>7 DEF CancelTasks, FailJob, Raise, Ledger, Stages
<1>8. CASE JoinTasks \/ CompleteJob
  BY <1>8 DEF JoinTasks, CompleteJob, Ledger, Stages
<1> QED
  BY <1>2, <1>3, <1>4, <1>5, <1>6, <1>7, <1>8 DEF Next, Coordinate

\* What has been taken is persisted or being analyzed, and a run that ends has
\* taken it all and has committed it.
LEMMA StagesKept == IInv /\ Ledger /\ Next => Stages'
<1> SUFFICES ASSUME IInv, Ledger, Next PROVE Stages'
  OBVIOUS
<1>1. ASSUME runner' \in Progressing, NEW h \in Taken', outcome'[h] = "host"
      PROVE  h \in rows' \cup current'
  <2>1. runner \in Progressing /\ rows \cup current \subseteq rows' \cup current'
    BY <1>1, RunnerMoves
  <2>2. ASSUME h \in Taken PROVE h \in rows' \cup current'
    <3>1. runner # "preparing"
      BY <2>2 DEF Taken, IInv, Unprepared
    <3>2. outcome[h] = "host"
      BY <1>1, <2>2, <3>1, Settled DEF Taken
    <3> QED
      BY <2>1, <2>2, <3>2 DEF Ledger, Stages
  <2>3. CASE TakeError
    <3>1. PICK g \in Hosts \ Taken : Taken' = Taken \cup {g} /\ outcome[g] = "error"
      BY <2>3, TakenGrows DEF TakeError
    <3>2. outcome' = outcome
      BY <2>3 DEF TakeError, Take, scanVars
    <3> QED
      BY <1>1, <2>2, <3>1, <3>2
  <2>4. CASE TakeHost
    <3>1. PICK g \in Hosts \ Taken : Taken' = Taken \cup {g} /\ g = Head(events)[2]
      BY <2>4, TakenGrows DEF TakeHost
    <3>2. current' = {g}
      BY <2>4, <3>1 DEF TakeHost
    <3> QED
      BY <2>2, <3>1, <3>2
  <2>5. CASE ~ TakeError /\ ~ TakeHost
    BY <2>2, <2>5, TakenKept
  <2> QED
    BY <2>3, <2>4, <2>5
<1>2. ASSUME runner' \in {"failing", "failed"}, NEW h \in Hosts
      PROVE  task'[h] \in {"none", "done", "cancelled"}
  <2>1. CASE CancelTasks
    BY <2>1 DEF CancelTasks
  <2>2. CASE Raise
    BY <1>2, <2>2 DEF Raise, scanVars, IInv, Unprepared
  <2>3. CASE FailJob
    BY <2>3 DEF FailJob, scanVars, Ledger, Stages
  <2>4. ASSUME NEW g \in Hosts, Scan(g) PROVE task' = task /\ runner' = runner
    <3>1. runner' = runner
      BY <2>4 DEF Scan, StartHost, Probe, ProbeRaises, PutPort, HostScanned, PutHost
    <3>2. task[g] \in {"none", "done", "cancelled"}
      BY <1>2, <3>1 DEF Ledger, Stages
    <3> QED
      BY <2>4, <3>1, <3>2 DEF Scan, StartHost, Probe, ProbeRaises, PutPort, HostScanned, PutHost
  <2>5. CASE \E g \in Hosts : Scan(g)
    BY <1>2, <2>4, <2>5 DEF Ledger, Stages
  <2>6. ~ \/ \E scope \in SUBSET Hosts : Prepare(scope)
          \/ TakePort \/ TakeError \/ TakeHost \/ Persist \/ JoinTasks \/ CompleteJob
    BY <1>2 DEF Prepare, TakePort, TakeError, TakeHost, Take, Persist, JoinTasks, CompleteJob
  <2> QED
    BY <2>1, <2>2, <2>3, <2>5, <2>6 DEF Next, Coordinate
<1> QED
  BY <1>1, <1>2, RunnerMoves DEF Ledger, Stages

\* No commit is ahead of the memory.
LEMMA BehindKept == IInv /\ Ledger /\ Next => Behind'
<1> SUFFICES ASSUME IInv, Ledger, Next PROVE Behind'
  OBVIOUS
<1> DEFINE Fewer(s, t) ==
      /\ s.ports_scanned <= t.ports_scanned /\ s.hosts_scanned <= t.hosts_scanned
      /\ s.errors <= t.errors
<1>1. /\ progress \in Stats /\ progress' \in Stats
      /\ progress'.ports_scanned >= progress.ports_scanned
      /\ progress'.hosts_scanned >= progress.hosts_scanned
      /\ progress'.errors >= progress.errors
  BY CountersGrow
<1>2. stored \in [stats: Stats, hosts: SUBSET Hosts]
  BY DEF IInv, Shapes
<1>3. Fewer(stored.stats, progress) /\ Behind
  BY DEF Ledger, Behind
<1>4. Fewer(stored.stats, progress') /\ Fewer(progress', progress')
  BY <1>1, <1>2, <1>3 DEF Stats
<1>5. Fewer(stored'.stats, progress')
  <2>1. CASE stored' = stored \/ stored' = [stats |-> progress', hosts |-> rows']
    BY <1>4, <2>1
  <2>2. CASE FailJob
    BY <1>2, <1>3, <2>2 DEF FailJob, Stats
  <2> QED
    BY <2>1, <2>2, Commits
<1>6. CASE (\E h \in Hosts : Scan(h)) \/ CancelTasks \/ Raise \/ TakeHost
  <2>1. /\ UNCHANGED <<progress, stored>>
        /\ \/ runner' = runner
           \/ runner = "cancelling" /\ runner' = "failing"
           \/ runner = "preparing" /\ runner' = "failing"
           \/ runner \in {"scanning", "analyzing"} /\ runner' \in {"analyzing", "cancelling"}
    BY <1>6 DEF Scan, StartHost, Probe, ProbeRaises, PutPort, HostScanned, PutHost, CancelTasks,
                Raise, TakeHost, Take, dbVars
  <2> QED
    BY <1>3, <2>1 DEF Behind, Fresh
<1>7. CASE (\E scope \in SUBSET Hosts : Prepare(scope)) \/ FailJob \/ CompleteJob
  <2>1. \/ /\ runner' = "scanning" /\ progress' = [progress EXCEPT !.phase = "scanning"]
           /\ stored' = [stored EXCEPT !.stats = progress']
        \/ runner' \in {"failed", "completed"}
    BY <1>7 DEF Prepare, FailJob, CompleteJob
  <2> QED
    BY <1>1, <1>2, <1>5, <2>1 DEF Behind, Stats
<1>8. CASE TakePort \/ TakeError \/ Persist
  <2>1. /\ runner \in {"scanning", "analyzing"} /\ runner' = "scanning"
    BY <1>8 DEF TakePort, TakeError, Take, Persist
  <2>2. progress'.phase \in {progress.phase, "analyzing"}
    BY <1>8, <2>1, PhaseMoves
  <2>3. stored' = stored \/ stored' = [stats |-> progress', hosts |-> rows']
    BY <2>1, Commits DEF FailJob
  <2> QED
    BY <1>3, <1>5, <2>1, <2>2, <2>3 DEF Behind
<1>9. CASE JoinTasks
  <2>1. /\ runner = "scanning" /\ runner' = "completing"
        /\ progress' = [progress EXCEPT !.phase = "analyzing"]
        /\ stored' = stored \/ stored' = [stats |-> progress', hosts |-> rows]
    BY <1>9 DEF JoinTasks
  <2> QED
    BY <1>1, <1>3, <1>5, <2>1 DEF Behind, Stats
<1> QED
  BY <1>6, <1>7, <1>8, <1>9 DEF Next, Coordinate

\* The ledger is inductive, with the invariant above.
LEMMA NextLedger == IInv /\ IInv' /\ Ledger /\ [Next]_vars => Ledger'
<1> SUFFICES ASSUME IInv, IInv', Ledger, [Next]_vars PROVE Ledger'
  OBVIOUS
<1>1. CASE Next
  BY <1>1, PortsCountedKept, TalliesKept, ReportsLastKept, CausesKept, StagesKept, OverKept,
     BehindKept DEF Ledger
<1>2. CASE UNCHANGED vars
  <2>1. UNCHANGED <<runner, inScope, task, outcome, probe, events, current, finished, counts,
                    progress, rows, stored>>
    BY <1>2 DEF vars, scanVars, dbVars
  <2>2. PortsCounted' /\ ReportsLast'
    BY <2>1 DEF Ledger, PortsCounted, PortEvents, Places, DonePorts, ReportsLast
  <2>3. Taken' = Taken /\ Erred' = Erred /\ Counted' = Counted /\ Whole' = Whole
    BY <2>1 DEF Counted, Whole, Erred, Taken, Waiting, Report
  <2>4. Tallies' /\ Stages'
    BY <2>1, <2>3 DEF Ledger, Tallies, Stages
  <2>5. Causes' /\ Over' /\ Behind'
    BY <2>1 DEF Ledger, Causes, Raised, Over, Behind
  <2> QED
    BY <2>2, <2>4, <2>5 DEF Ledger
<1> QED
  BY <1>1, <1>2

LEMMA LedgerHolds == Spec => [](IInv /\ Ledger)
<1>1. Spec => []IInv
  BY InitIInv, NextIInv, PTL DEF Spec
<1> QED
  BY <1>1, InitLedger, NextLedger, PTL DEF Spec

-----------------------------------------------------------------------------
(* What follows from the ledger.                                           *)

\* The job says that its scan is over only when it is: when it starts to analyze,
\* completes or fails, no coroutine is probing or still has a port to report,
\* except for hosts a port of which has raised (scanner.py:122, runner.py:166-207).
THEOREM ScanIsOverWhenSaid == Spec => []ScanOverWhenSaid
<1>1. IInv /\ Ledger => ScanOverWhenSaid
  <2> SUFFICES ASSUME IInv, Ledger,
                      progress.phase \in {"analyzing", "completed"} \/ runner \in {"failing", "failed"},
                      NEW h \in Hosts, ~ Raised(h), NEW p \in Ports, probe[h][p] \in InFlight
               PROVE  FALSE
    BY DEF ScanOverWhenSaid
  <2>1. task[h] = "scanning" /\ probe[h][p] # "done"
    BY DEF IInv, Held, InFlight
  <2> QED
    BY <2>1 DEF Ledger, Over, Stages
<1> QED
  BY <1>1, LedgerHolds, PTL

\* Every host with rows is whole and no host is both whole and an error.
LEMMA WholeHosts ==
  ASSUME IInv, Ledger, Ports # {}
  PROVE  /\ rows \cup current \subseteq Whole \cap Taken
         /\ Whole \cap Erred = {}
<1>1. ASSUME NEW h \in rows \cup current PROVE h \in Whole \cap Taken
  <2>1. h \in Hosts /\ task[h] = "done" /\ outcome[h] = "host"
    BY DEF IInv, Shapes, Analyzed
  <2>2. ~ Waiting(h)
    BY DEF Waiting, IInv, Reports
  <2>3. PortEvents(h) = {}
    <3>1. ASSUME NEW i \in PortEvents(h) PROVE FALSE
      <4>1. PICK j \in 1 .. Len(events) : events[j] = <<"host", h>>
        BY <2>1, <3>1 DEF Ledger, ReportsLast
      <4> QED
        BY <2>2, <4>1 DEF Waiting, Report
    <3> QED
      BY <3>1
  <2>4. \A p \in Ports : probe[h][p] = "done"
    BY <2>1 DEF IInv, Outcomes
  <2>5. counts[h] = NumPorts
    BY <2>1, <2>3, <2>4, CountBound DEF Ledger
  <2> QED
    BY <2>1, <2>2, <2>5 DEF Whole, Taken
<1>2. ASSUME NEW h \in Whole \cap Erred PROVE FALSE
  <2>1. /\ h \in Hosts /\ counts[h] = NumPorts /\ outcome[h] = "error"
    BY DEF Whole, Erred
  <2>2. \A p \in Ports : probe[h][p] = "done"
    BY <2>1, CountBound DEF Ledger
  <2>3. h \notin inScope \/ Raised(h)
    BY <2>1 DEF Ledger, Causes
  <2> QED
    BY <2>1, <2>2, <2>3 DEF Raised, Ledger, Causes
<1> QED
  BY <1>1, <1>2

\* What the committed counters can be.
CountersAgree ==
  Ports # {} =>
    /\ Cardinality(rows) + progress.errors <= progress.hosts_scanned
    /\ progress.hosts_scanned <= NumHosts

LEMMA CountersDoAgree == IInv /\ Ledger => CountersAgree
<1> SUFFICES ASSUME IInv, Ledger, Ports # {}
             PROVE  /\ Cardinality(rows) + progress.errors <= progress.hosts_scanned
                    /\ progress.hosts_scanned <= NumHosts
  BY DEF CountersAgree
<1>1. rows \in SUBSET Whole /\ Whole \cap Erred = {} /\ Whole \cup Erred \in SUBSET Hosts
  BY WholeHosts DEF Whole, Erred, Taken
<1>2. /\ IsFiniteSet(Whole) /\ IsFiniteSet(Erred)
      /\ {Cardinality(Whole), Cardinality(Erred), NumHosts} \subseteq Nat
  BY TalliedSets
<1>3. IsFiniteSet(rows) /\ Cardinality(rows) <= Cardinality(Whole)
  BY <1>1, <1>2, FS_Subset
<1>4. Cardinality(rows) \in Nat
  BY <1>3, FS_CardinalityType
<1>5. Cardinality(Whole \cup Erred) = Cardinality(Whole) + Cardinality(Erred)
  <2>1. Cardinality(Whole \cup Erred) =
          Cardinality(Whole) + Cardinality(Erred) - Cardinality(Whole \cap Erred)
    BY <1>2, FS_Union
  <2>2. Cardinality(Whole \cap Erred) = 0
    BY <1>1, FS_EmptySet
  <2> QED
    BY <1>2, <2>1, <2>2
<1>6. Cardinality(Whole \cup Erred) <= NumHosts
  BY <1>1, FS_Subset, ScanAssumption DEF NumHosts
<1> QED
  BY <1>2, <1>3, <1>4, <1>5, <1>6 DEF Ledger, Tallies

\* After the last host the rows are those of the hosts let through of which no
\* port has raised, the others are the errors, and the counters say so.
Finished ==
  runner \in {"completing", "completed"} /\ Ports # {} =>
    /\ rows = {h \in inScope : ~ Raised(h)}
    /\ progress.hosts_scanned = NumHosts
    /\ progress.errors = NumHosts - Cardinality(rows)
    /\ progress.ports_scanned >= Cardinality(rows) * NumPorts

LEMMA FinishedHolds == IInv /\ Ledger => Finished
<1> SUFFICES ASSUME IInv, Ledger, runner \in {"completing", "completed"}, Ports # {}
             PROVE  /\ rows = {h \in inScope : ~ Raised(h)}
                    /\ progress.hosts_scanned = NumHosts
                    /\ progress.errors = NumHosts - Cardinality(rows)
                    /\ progress.ports_scanned >= Cardinality(rows) * NumPorts
  BY DEF Finished
<1>1. current = {} /\ Cardinality(Taken) = NumHosts /\ rows \in SUBSET Hosts /\ inScope \in SUBSET Hosts
  BY DEF Ledger, Stages, Tallies, IInv, Shapes
<1>2. Taken = Hosts
  <2>1. Taken \in SUBSET Hosts
    BY DEF Taken
  <2> QED
    BY <1>1, <2>1, FS_Subset, ScanAssumption DEF NumHosts
<1>3. \A h \in Hosts : task[h] = "done" /\ outcome[h] \in {"host", "error"}
  BY <1>2 DEF Taken, Ledger, Causes, IInv, Shapes
<1>4. \A h \in Hosts : h \in rows <=> outcome[h] = "host"
  BY <1>1, <1>2 DEF Ledger, Stages, Progressing, IInv, Analyzed
<1>5. Erred = Hosts \ rows
  BY <1>2, <1>3, <1>4 DEF Erred
<1>6. rows = {h \in inScope : ~ Raised(h)}
  <2>1. \A h \in rows : h \in inScope /\ ~ Raised(h)
    BY <1>1, <1>4 DEF IInv, Outcomes, Raised
  <2>2. \A h \in inScope : ~ Raised(h) => h \in rows
    BY <1>1, <1>3, <1>4 DEF Ledger, Causes
  <2> QED
    BY <1>1, <2>1, <2>2
<1>7. Whole = rows
  <2>1. rows \subseteq Whole /\ Whole \cap Erred = {} /\ Whole \subseteq Hosts
    BY WholeHosts DEF Whole
  <2> QED
    BY <1>1, <1>5, <2>1
<1>8. IsFiniteSet(rows) /\ Cardinality(rows) \in Nat /\ NumHosts \in Nat /\ NumPorts \in Nat
  BY <1>7, TalliedSets
<1>9. Cardinality(Erred) = NumHosts - Cardinality(rows)
  <2>1. Cardinality(Hosts \ rows) = Cardinality(Hosts) - Cardinality(Hosts \cap rows)
    BY FS_Difference, ScanAssumption
  <2>2. Hosts \cap rows = rows
    BY <1>1
  <2> QED
    BY <1>5, <2>1, <2>2 DEF NumHosts
<1>10. progress.ports_scanned >= Cardinality(rows) * NumPorts
  <2> DEFINE R == rows \X (1 .. NumPorts)
  <2>1. IsFiniteSet(1 .. NumPorts) /\ Cardinality(1 .. NumPorts) = NumPorts
    <3>1. /\ IsFiniteSet(1 .. NumPorts)
          /\ Cardinality(1 .. NumPorts) = IF 1 > NumPorts THEN 0 ELSE NumPorts - 1 + 1
      BY <1>8, FS_Interval
    <3> QED
      BY <1>8, <3>1
  <2>2. Cardinality(R) = Cardinality(rows) * NumPorts
    BY <1>8, <2>1, FS_Product
  <2>3. R \in SUBSET Counted
    BY <1>1, <1>7, <1>8 DEF Counted, Whole
  <2> HIDE DEF R
  <2>4. Cardinality(R) <= Cardinality(Counted) /\ Cardinality(Counted) \in Nat
    BY <2>3, TalliedSets, FS_Subset
  <2> QED
    BY <1>8, <2>2, <2>4 DEF Ledger, Tallies
<1> QED
  BY <1>6, <1>7, <1>8, <1>9, <1>10 DEF Ledger, Tallies

\* A completed job accounts for every host, once: the hosts the gate let through
\* have their rows unless a port of theirs has raised, all the others are errors,
\* and the counters add up (runner.py:118-190, progress.py:42-100).  Without ports
\* there is no port event, and hosts_scanned stays at the errors.
THEOREM CompletedJobsAreComplete ==
  ASSUME Ports # {}
  PROVE  Spec => []CompletedIsComplete
<1>1. IInv /\ Ledger => CompletedIsComplete
  BY FinishedHolds DEF CompletedIsComplete, Finished, Ledger, Stages
<1> QED
  BY <1>1, LedgerHolds, PTL

-----------------------------------------------------------------------------

\* The initial state is one of the contract.
LEMMA InitContract == Init => Contract!Init
  BY DEF Init, Fresh, Contract!Init

\* The contract counts as the run does.
LEMMA SameCardinality == \A S : Contract!Cardinality(S) = Cardinality(S)
BY DEF Contract!Cardinality, Cardinality

\* A step of the run is a step of the contract or shows nothing.
LEMMA ContractStep ==
  ASSUME IInv, IInv', Ledger, CountersAgree', Finished', [Next]_vars, Ports # {}
  PROVE  [Contract!Start \/ Contract!Report \/ Contract!Complete \/ Contract!Fail]_(Contract!vars)
<1> USE DEF Contract!vars, Contract!counters
<1>1. CASE stored' = stored
  BY <1>1
<1>2. CASE UNCHANGED vars
  BY <1>2 DEF vars, dbVars
<1>3. CASE FailJob
  <2>1. stored \in [stats: Stats, hosts: SUBSET Hosts] /\ runner = "failing"
    BY <1>3 DEF FailJob, IInv, Shapes
  <2>2. /\ stored'.stats.phase = "failed" /\ stored'.hosts = stored.hosts
        /\ stored'.stats.ports_scanned = stored.stats.ports_scanned
        /\ stored'.stats.hosts_scanned = stored.stats.hosts_scanned
        /\ stored'.stats.hosts_analyzed = stored.stats.hosts_analyzed
        /\ stored'.stats.errors = stored.stats.errors
    BY <1>3, <2>1 DEF FailJob, Stats
  <2> QED
    BY <2>1, <2>2 DEF Contract!Fail, Ledger, Behind
<1>4. ASSUME Next, ~ FailJob, stored' = [stats |-> progress', hosts |-> rows'], runner # "preparing",
             runner' # "failed", rows \subseteq rows'
      PROVE  Contract!Grow
  <2>1. /\ progress \in Stats /\ progress' \in Stats
        /\ progress'.ports_scanned >= progress.ports_scanned
        /\ progress'.hosts_scanned >= progress.hosts_scanned
        /\ progress'.errors >= progress.errors
    BY <1>4, CountersGrow
  <2>2. /\ stored.stats \in Stats
        /\ stored.stats.ports_scanned <= progress.ports_scanned
        /\ stored.stats.hosts_scanned <= progress.hosts_scanned
        /\ stored.stats.errors <= progress.errors
    BY DEF IInv, Shapes, Ledger, Behind
  <2>3. /\ progress'.ports_scanned >= stored.stats.ports_scanned
        /\ progress'.hosts_scanned >= stored.stats.hosts_scanned
        /\ progress'.errors >= stored.stats.errors
    BY <2>1, <2>2 DEF Stats
  <2>4. stored.hosts \subseteq rows' /\ rows' \subseteq Hosts /\ progress'.hosts_analyzed = Cardinality(rows')
    BY <1>4 DEF IInv, Shapes, Accounts
  <2>5. Cardinality(rows') + progress'.errors <= progress'.hosts_scanned
        /\ progress'.hosts_scanned <= Cardinality(Hosts)
    BY DEF CountersAgree, NumHosts
  <2>6. stored'.stats = progress' /\ stored'.hosts = rows'
    BY <1>4
  <2> HIDE DEF Contract!vars, Contract!counters
  <2> QED
    BY <2>3, <2>4, <2>5, <2>6, SameCardinality DEF Contract!Grow
<1>5. CASE \E scope \in SUBSET Hosts : Prepare(scope)
  <2>1. /\ stored = [stats |-> Fresh, hosts |-> {}] /\ stored' = [stored EXCEPT !.stats = progress']
        /\ progress' = [Fresh EXCEPT !.phase = "scanning"]
    BY <1>5 DEF Prepare, Ledger, Behind
  <2> QED
    BY <2>1 DEF Contract!Start, Fresh
<1>6. CASE (TakePort \/ TakeError \/ Persist \/ JoinTasks) /\ stored' # stored
  <2>1. /\ Next /\ ~ FailJob /\ runner \in {"scanning", "analyzing"} /\ runner' # "failed"
        /\ rows \subseteq rows'
    BY <1>6 DEF Next, Coordinate, TakePort, TakeError, Take, Persist, JoinTasks, EmitProgress, FailJob
  <2>2. stored' = [stats |-> progress', hosts |-> rows']
    BY <1>6, <2>1, Commits
  <2>3. Contract!Grow
    BY <1>4, <2>1, <2>2
  <2>4. progress'.phase \in {progress.phase, "analyzing"}
    BY <2>1, PhaseMoves
  <2>5. /\ progress.phase \in {"scanning", "analyzing"}
        /\ stored.stats.phase \in {"scanning", progress.phase}
    BY <2>1 DEF Ledger, Behind
  <2> QED
    BY <2>2, <2>3, <2>4, <2>5 DEF Contract!Report
<1>7. CASE CompleteJob
  <2>1. /\ Next /\ ~ FailJob /\ runner = "completing" /\ runner' = "completed" /\ rows' = rows
        /\ progress' = [progress EXCEPT !.phase = "completed"]
        /\ stored' = [stats |-> progress', hosts |-> rows']
    BY <1>7 DEF Next, Coordinate, CompleteJob, FailJob
  <2>2. Contract!Grow
    BY <1>4, <2>1
  <2>3. progress'.phase = "completed" /\ stored.stats.phase \in {"scanning", "analyzing"}
    BY <2>1 DEF IInv, Shapes, Stats, Ledger, Behind
  <2>4. progress'.hosts_analyzed + progress'.errors = Cardinality(Hosts)
    <3>1. progress'.hosts_analyzed = Cardinality(rows') /\ progress'.errors = NumHosts - Cardinality(rows')
      BY <2>1 DEF IInv, Accounts, Finished
    <3>2. progress' \in Stats
      BY DEF IInv, Shapes
    <3>3. NumHosts \in Nat
      BY TalliedSets
    <3> QED
      BY <3>1, <3>2, <3>3 DEF Stats, NumHosts
  <2>5. stored'.stats = progress'
    BY <2>1
  <2> HIDE DEF Contract!vars, Contract!counters
  <2> QED
    BY <2>2, <2>3, <2>4, <2>5, SameCardinality DEF Contract!Complete
<1>8. CASE (\E h \in Hosts : Scan(h)) \/ TakeHost \/ CancelTasks \/ Raise
  <2>1. stored' = stored
    BY <1>8 DEF Scan, StartHost, Probe, ProbeRaises, PutPort, HostScanned, PutHost, TakeHost,
                CancelTasks, Raise, dbVars
  <2> QED
    BY <1>1, <2>1
<1> QED
  BY <1>1, <1>2, <1>3, <1>5, <1>6, <1>7, <1>8 DEF Next, Coordinate

\* What a client polls is what ScanContract promises: phases and counters that
\* go one way, commits and rollbacks that never take a result back, and a
\* completed job that adds up (runner.py:118-207, progress.py:42-100).
THEOREM ScanKeepsContract ==
  ASSUME Ports # {}
  PROVE  Spec => ContractKept
<1>1. IInv /\ Ledger => CountersAgree /\ Finished
  BY CountersDoAgree, FinishedHolds
<1>2. IInv /\ Ledger /\ (IInv /\ Ledger)' /\ (CountersAgree /\ Finished)' /\ [Next]_vars =>
        [Contract!Start \/ Contract!Report \/ Contract!Complete \/ Contract!Fail]_(Contract!vars)
  BY ContractStep
<1> QED
  BY <1>1, <1>2, InitContract, LedgerHolds, PTL DEF Spec, ContractKept, Contract!Spec
=============================================================================
