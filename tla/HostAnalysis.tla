---------------------------- MODULE HostAnalysis ----------------------------
(***************************************************************************)
(* What ScanRunner does with a scanned host: fingerprint its open ports,   *)
(* enrich it, upsert its rows, record it (app/scan/runner.py:154-175,      *)
(* 230-360), for several jobs of one engagement at a time.  The jobs meet  *)
(* in the rows of hosts and services: PostgreSQL keeps a row locked from   *)
(* its upsert to the end of the transaction.                               *)
(*                                                                         *)
(* The row of host h is <<h, 0>>, the one of its service on port p is      *)
(* <<h, p>>.  What a scan has found is given; what a probe answers, when   *)
(* it does, and whether it does is not.                                    *)
(***************************************************************************)
EXTENDS Integers, SequencesExt

CONSTANTS
  Jobs, Hosts, Ports,
  Open,        \* the open ports of each host as each job found them
  Erring,      \* the hosts whose scan may end in an "error" event, for each job
  Banner,      \* the banner of each port, or Nothing
  Page,        \* the responses that may come from each port to a GET
  Cert,        \* the certificate behind each port: "good", "odd" or Nothing
  Signatures,  \* the sequence SIGNATURES
  PortService, \* PORT_SERVICES
  HttpPorts,   \* HTTP_PORTS and HTTPS_PORTS
  TlsPorts,    \* TLS_PORTS
  EndsInS,     \* the names of services that end in "s"
  Country,     \* what a look-up by each job may return: a country, Nothing or either
  MaxChunks,   \* reads that reach max_bytes
  Limit,       \* the limit of the lists in ScanProgress
  Nothing

ASSUME AnalysisAssumption ==
  /\ Ports \subseteq Nat \ {0} /\ IsFiniteSet(Ports) /\ IsFiniteSet(Hosts)
  /\ Open \in [Jobs -> [Hosts -> SUBSET Ports]] /\ Erring \in [Jobs -> SUBSET Hosts]
  /\ \A j \in Jobs : Country[j] \subseteq {Nothing, "country"} /\ Country[j] # {}
  /\ MaxChunks \in Nat \ {0} /\ Limit \in Nat \ {0}
  /\ Nothing \notin Jobs
  /\ Signatures \in Seq(ToSet(Signatures))
  /\ \A n \in 1 .. Len(Signatures) : Signatures[n].confidence \in Nat

VARIABLES
  stage,   \* where the coordinator of each job is
  order,   \* the events it has taken from the queue, the last one in work
  probe,   \* the HTTP probe of each port
  chunks,  \* reads it has made
  page,    \* its response
  found,   \* the signature fingerprinting chose, 0 for none
  shake,   \* the TLS handshake of each port
  cert,    \* its certificate
  geo,     \* the country of the host
  todo,    \* the rows still to be upserted
  rows,    \* the rows as last written
  lock,    \* the job whose open transaction has written a row
  db,      \* the committed rows
  lists    \* the bounded lists of ScanProgress

socketVars == <<probe, chunks, page, shake, cert>>
dataVars == <<rows, lock, db>>
vars == <<stage, order, socketVars, found, geo, todo, dataVars, lists>>

Keys == Hosts \X ({0} \cup Ports)
NoRow == [scan |-> Nothing, geo |-> Nothing, sig |-> 0, cert |-> Nothing]
Idle == [p \in Ports |-> "none"]
Blank == [p \in Ports |-> Nothing]
Zero == [p \in Ports |-> 0]
NoList == [items |-> <<>>, cut |-> FALSE]

Init ==
  /\ stage = [j \in Jobs |-> "waiting"]
  /\ order = [j \in Jobs |-> <<>>]
  /\ probe = [j \in Jobs |-> Idle]
  /\ chunks = [j \in Jobs |-> Zero]
  /\ page = [j \in Jobs |-> Blank]
  /\ found = [j \in Jobs |-> Zero]
  /\ shake = [j \in Jobs |-> Idle]
  /\ cert = [j \in Jobs |-> Blank]
  /\ geo = [j \in Jobs |-> Nothing]
  /\ todo = [j \in Jobs |-> {}]
  /\ rows = [k \in Keys |-> NoRow]
  /\ lock = [k \in Keys |-> Nothing]
  /\ db = rows
  /\ lists = [j \in Jobs |-> [hosts |-> NoList, services |-> NoList, enrichments |-> NoList]]

Current(j) == Last(order[j])[2]
OpenNow(j) == Open[j][Current(j)]
Sorted == [S \in SUBSET Ports |-> SetToSortSeq(S, <)]
PortSeq(S) == Sorted[S]

-----------------------------------------------------------------------------
(* The fingerprint engine.                                                 *)

\* field_text: the text a signature is matched against.
FieldText(sig, p, response) == IF sig.field = "banner" THEN Banner[p] ELSE response

Applies(sig, p, response) ==
  /\ p \in sig.ports \/ sig.ports = {}
  /\ FieldText(sig, p, response) \in sig.matches

\* _score, in hundredths.
Score(sig, p, response) ==
  Min({100, sig.confidence
              + (IF FieldText(sig, p, response) \in sig.versions THEN 2 ELSE 0)
              + (IF p \in sig.ports THEN 2 ELSE 0)})

\* Mutant of Better: the last of several equal signatures wins.
BetterOrEqual(score, best) == score >= best

Better(score, best) == score > best

\* The best signature so far after the n-th, with its score.
NextBest(best, n, p, response) ==
  LET score == Score(Signatures[n], p, response)
  IN  IF Applies(Signatures[n], p, response) /\ Better(score, best.score)
      THEN [n |-> n, score |-> score] ELSE best

BestOf(p, response) ==
  LET best[n \in 0 .. Len(Signatures)] ==
        IF n = 0 THEN [n |-> 0, score |-> -1] ELSE NextBest(best[n - 1], n, p, response)
  IN  best

\* identify: the place of the best signature, 0 when none applies.
Identify(p, response) == BestOf(p, response)[Len(Signatures)].n

\* The service a fingerprint names: the port's conventional one as a fallback.
ServiceOf(p, n) ==
  IF n # 0 THEN Signatures[n].service
  ELSE IF p \in DOMAIN PortService THEN PortService[p] ELSE Nothing

LooksHttpish(p) == p \in HttpPorts \/ Banner[p] = "HTTP/"
IsTlsPort(p, service) == p \in TlsPorts \/ service \in EndsInS \ {"dns"}

-----------------------------------------------------------------------------
(* Fingerprinting and enrichment.                                          *)

\* Mutant of Push: the flag is looked at after the append.
PushFlagLate(list, x) ==
  LET items == Append(IF Len(list.items) = Limit THEN Tail(list.items) ELSE list.items, x)
  IN  [items |-> items, cut |-> list.cut \/ Len(items) = Limit]

Push(list, x) ==
  [items |-> Append(IF Len(list.items) = Limit THEN Tail(list.items) ELSE list.items, x),
   cut |-> list.cut \/ Len(list.items) = Limit]

\* The loop over the services of a host.
PushAll(list, items) ==
  LET pushed[n \in 0 .. Len(items)] == IF n = 0 THEN list ELSE Push(pushed[n - 1], items[n])
  IN  pushed[Len(items)]

\* The services a job found on a host, in the order of their ports.
ServicesOn(j, h) ==
  [n \in 1 .. Cardinality(Open[j][h]) |-> <<h, PortSeq(Open[j][h])[n]>>]

Take(j, kind, h) ==
  /\ stage[j] = "waiting"
  /\ \A n \in 1 .. Len(order[j]) : order[j][n][2] # h
  /\ order' = [order EXCEPT ![j] = Append(@, <<kind, h>>)]

\* The host is listed and nothing is written; the last one commits.
TakeError(j, h) ==
  /\ Take(j, "error", h) /\ h \in Erring[j]
  /\ lists' = [lists EXCEPT ![j].hosts = Push(@, h)]
  /\ stage' = [stage EXCEPT ![j] = IF Len(order'[j]) = Cardinality(Hosts) THEN "committing" ELSE "waiting"]
  /\ UNCHANGED <<socketVars, found, geo, todo, dataVars>>

\* _fingerprint_host starts one coroutine per open port.
TakeHost(j, h) ==
  /\ Take(j, "host", h)
  /\ stage' = [stage EXCEPT ![j] = "fingerprinting"]
  /\ probe' = [probe EXCEPT ![j] = [p \in Ports |->
       IF p \in Open[j][h] /\ LooksHttpish(p) THEN "connecting" ELSE "none"]]
  /\ UNCHANGED <<chunks, page, found, shake, cert, geo, todo, dataVars, lists>>

ProbeStep(j, p, from, to) ==
  /\ probe[j][p] = from
  /\ probe' = [probe EXCEPT ![j][p] = to]
  /\ UNCHANGED <<stage, order, found, shake, cert, geo, todo, dataVars, lists>>

\* probe_http: connect and send the GET, read to the end or to max_bytes.  Each
\* wait has a timeout of its own; what was read before one is lost.
ProbeConnects(j, p) ==
  ProbeStep(j, p, "connecting", "reading") /\ UNCHANGED <<chunks, page>>
ProbeReads(j, p) ==
  /\ ProbeStep(j, p, "reading", "reading") /\ UNCHANGED page
  /\ chunks[j][p] < MaxChunks /\ chunks' = [chunks EXCEPT ![j][p] = @ + 1]
ProbeEnds(j, p) ==
  /\ ProbeStep(j, p, "reading", "closing") /\ chunks' = [chunks EXCEPT ![j][p] = 0]
  /\ \E response \in (IF chunks[j][p] > 0 THEN Page[p] ELSE {"empty"}) :
       page' = [page EXCEPT ![j][p] = response]

\* Mutant of ProbeGivesUp: a probe that has timed out starts again.
ProbeGivesUpRetrying(j, p) ==
  /\ ProbeStep(j, p, "reading", "connecting")
  /\ chunks' = [chunks EXCEPT ![j][p] = 0]
  /\ UNCHANGED page

ProbeGivesUp(j, p) ==
  /\ \/ ProbeStep(j, p, "connecting", "closed")
     \/ chunks[j][p] < MaxChunks /\ ProbeStep(j, p, "reading", "closing")
  /\ chunks' = [chunks EXCEPT ![j][p] = 0]
  /\ UNCHANGED page
ProbeCloses(j, p) ==
  ProbeStep(j, p, "closing", "closed") /\ UNCHANGED <<chunks, page>>

Joined(state) == \A p \in Ports : state[p] \in {"none", "closed"}

\* Every response goes to the engine, whose observation is then over.
\* _enrich_host: the country if the database knows one, and a handshake on
\* every open port that is taken for TLS.
Enrich(j, country) ==
  /\ stage[j] = "fingerprinting"
  /\ Joined(probe[j])
  /\ stage' = [stage EXCEPT ![j] = "enriching"]
  /\ found' = [found EXCEPT ![j] = [p \in Ports |->
       IF p \in OpenNow(j) THEN Identify(p, page[j][p]) ELSE 0]]
  /\ page' = [page EXCEPT ![j] = Blank]
  /\ geo' = [geo EXCEPT ![j] = country]
  /\ shake' = [shake EXCEPT ![j] = [p \in Ports |->
       IF p \in OpenNow(j) /\ IsTlsPort(p, ServiceOf(p, found'[j][p])) THEN "shaking" ELSE "none"]]
  /\ UNCHANGED <<order, probe, chunks, cert, todo, dataVars, lists>>

ShakeStep(j, p, from, to) ==
  /\ shake[j][p] = from
  /\ shake' = [shake EXCEPT ![j][p] = to]
  /\ UNCHANGED <<order, probe, chunks, page, found, geo, todo, lists>>

\* fetch_tls_cert: no connection or handshake, or a certificate to parse.
ShakeFails(j, p) ==
  ShakeStep(j, p, "shaking", "closed") /\ UNCHANGED <<stage, cert, dataVars>>
ShakeDone(j, p) ==
  /\ ShakeStep(j, p, "shaking", "closing")
  /\ cert' = [cert EXCEPT ![j][p] = Cert[p]]
  /\ UNCHANGED <<stage, dataVars>>

-----------------------------------------------------------------------------
(* Transactions.                                                           *)

Mine(j) == {k \in Keys : lock[k] = j}

\* Mutant of Fail: what was written before the exception is committed with the failed status.
FailWithoutRollback(j, how) ==
  /\ stage' = [stage EXCEPT ![j] = how]
  /\ db' = [k \in Keys |-> IF k \in Mine(j) THEN rows[k] ELSE db[k]]
  /\ lock' = [k \in Keys |-> IF k \in Mine(j) THEN Nothing ELSE lock[k]]
  /\ UNCHANGED rows

\* The except block of run_job rolls back.
Fail(j, how) ==
  /\ stage' = [stage EXCEPT ![j] = how]
  /\ rows' = [k \in Keys |-> IF k \in Mine(j) THEN db[k] ELSE rows[k]]
  /\ lock' = [k \in Keys |-> IF k \in Mine(j) THEN Nothing ELSE lock[k]]
  /\ UNCHANGED db

\* The socket is closed.  A certificate parse_certificate cannot take raises what
\* fetch_tls_cert does not catch: the gather raises and the job fails, while the
\* other handshakes go on.
ShakeCloses(j, p) ==
  /\ ShakeStep(j, p, "closing", "closed")
  /\ UNCHANGED cert
  /\ IF cert[j][p] = "odd" /\ stage[j] = "enriching" THEN Fail(j, "failed")
     ELSE UNCHANGED <<stage, dataVars>>

\* _persist: the host and its open services.
Statements(S) == {0} \cup S

\* Mutant of NextRow: the services come first.
NextRowServicesFirst(S) == Max(S)

\* The host comes first, then the services in the order of their ports.
NextRow(S) == Min(S)

Persist(j) ==
  /\ stage[j] = "enriching"
  /\ Joined(shake[j])
  /\ stage' = [stage EXCEPT ![j] = "upserting"]
  /\ todo' = [todo EXCEPT ![j] = Statements(OpenNow(j))]
  /\ UNCHANGED <<order, socketVars, found, geo, dataVars, lists>>

Upserting(j) == stage[j] = "upserting" /\ todo[j] # {}
Key(j) == <<Current(j), NextRow(todo[j])>>
TooLong(j) == Key(j)[2] # 0 /\ found[j][Key(j)[2]] # 0 /\ Signatures[found[j][Key(j)[2]]].long

\* Mutant of KeptGeo: an unknown country is written like a known one.
KeptGeoOverwritten(j, old) == geo[j]

\* host_set holds a field of the enrichment only if it is known.
KeptGeo(j, old) == IF geo[j] = Nothing THEN old ELSE geo[j]

\* A host keeps what is not set, a service is overwritten.
Written(j, p, old) ==
  IF p = 0 THEN [old EXCEPT !.scan = j, !.geo = KeptGeo(j, old.geo)]
  ELSE [scan |-> j, geo |-> Nothing, sig |-> found[j][p], cert |-> cert[j][p]]

\* INSERT ... ON CONFLICT DO UPDATE waits until nobody else holds the row.
Upsert(j) ==
  /\ Upserting(j) /\ ~ TooLong(j)
  /\ lock[Key(j)] \in {j, Nothing}
  /\ lock' = [lock EXCEPT ![Key(j)] = j]
  /\ rows' = [rows EXCEPT ![Key(j)] = Written(j, Key(j)[2], @)]
  /\ todo' = [todo EXCEPT ![j] = @ \ {NextRow(@)}]
  /\ UNCHANGED <<stage, order, socketVars, found, geo, db, lists>>

\* A value that does not fit its column fails the statement and with it the job.
UpsertFails(j) ==
  /\ Upserting(j) /\ TooLong(j)
  /\ Fail(j, "failed")
  /\ UNCHANGED <<order, socketVars, found, geo, todo, lists>>

WaitsFor(j, k) == Upserting(j) /\ lock[Key(j)] = k /\ k # j

\* Mutant of InCycle: whoever waits is given up.
InCycleWaiting(j) == \E k \in Jobs : WaitsFor(j, k)

InCycle(j) ==
  \E S \in SUBSET Jobs :
    /\ j \in S
    /\ \A k \in S : (\E m \in S : WaitsFor(k, m)) /\ (\E m \in S : WaitsFor(m, k))

\* PostgreSQL finds the cycle of locks and raises in one of its transactions.
DeadlockDetected(j) ==
  /\ InCycle(j)
  /\ Fail(j, "aborted")
  /\ UNCHANGED <<order, socketVars, found, geo, todo, lists>>

\* record_host_result, and whether the iteration ends in a commit: a host with
\* services and the last one do, others when half a second has passed.  The
\* locals of the iteration are over.
Record(j) ==
  /\ stage[j] = "upserting" /\ todo[j] = {}
  /\ LET h == Current(j)
     IN  lists' = [lists EXCEPT ![j] =
           [hosts |-> Push(@.hosts, h),
            services |-> PushAll(@.services, ServicesOn(j, h)),
            enrichments |-> Push(@.enrichments, h)]]
  /\ stage' = [stage EXCEPT ![j] =
       IF OpenNow(j) # {} \/ Len(order[j]) = Cardinality(Hosts) THEN "committing" ELSE "waiting"]
  /\ probe' = [probe EXCEPT ![j] = Idle]
  /\ found' = [found EXCEPT ![j] = Zero]
  /\ shake' = [shake EXCEPT ![j] = Idle]
  /\ cert' = [cert EXCEPT ![j] = Blank]
  /\ geo' = [geo EXCEPT ![j] = Nothing]
  /\ UNCHANGED <<order, todo, chunks, page, dataVars>>

Commit(j) ==
  /\ \/ stage[j] = "committing"
     \/ stage[j] = "waiting" /\ Mine(j) # {}
  /\ stage' = [stage EXCEPT ![j] = IF Len(order[j]) = Cardinality(Hosts) THEN "done" ELSE "waiting"]
  /\ db' = [k \in Keys |-> IF k \in Mine(j) THEN rows[k] ELSE db[k]]
  /\ lock' = [k \in Keys |-> IF k \in Mine(j) THEN Nothing ELSE lock[k]]
  /\ UNCHANGED <<order, socketVars, found, geo, todo, rows, lists>>

-----------------------------------------------------------------------------

Socket(j, p) ==
  \/ ProbeConnects(j, p) \/ ProbeReads(j, p) \/ ProbeEnds(j, p)
  \/ ProbeGivesUp(j, p) \/ ProbeCloses(j, p)
  \/ ShakeFails(j, p) \/ ShakeDone(j, p) \/ ShakeCloses(j, p)

Job(j) ==
  \/ \E h \in Hosts : TakeError(j, h) \/ TakeHost(j, h)
  \/ \E country \in Country[j] : Enrich(j, country)
  \/ Persist(j) \/ Upsert(j) \/ UpsertFails(j) \/ DeadlockDetected(j)
  \/ Record(j) \/ Commit(j)

Next == \E j \in Jobs : Job(j) \/ \E p \in Ports : Socket(j, p)

Spec == Init /\ [][Next]_vars

\* Every step uses up a host, a read, a position of a socket or a row, so it is
\* enough that something goes on while it can: reads and handshakes have
\* timeouts, and the database answers, raises or detects the deadlock.
FairSpec == Spec /\ WF_vars(Next)

-----------------------------------------------------------------------------

Ended == {"done", "failed", "aborted"}

\* What a client can read of a host comes from one scan: the services that the
\* job which wrote the host last found open carry that job's results, although
\* two jobs write the same rows in any order and either may fail half-way
\* (runner.py:300-359).
ServicesOfLastScan ==
  \A h \in Hosts, j \in Jobs :
    db[<<h, 0>>].scan = j => \A p \in Open[j][h] : db[<<h, p>>].scan = j

\* No transaction ever waits for a service: the host is upserted first and its
\* row guards those of its services, so deadlocks are about hosts only.
HostRowsGuardServices ==
  \A j, k \in Jobs : WaitsFor(j, k) => Key(j)[2] = 0

Before(j, a, b) == \E m, n \in 1 .. Len(order[j]) : m < n /\ order[j][m][2] = a /\ order[j][n][2] = b

\* Job m came by the host of k, and found nothing open there, before its own.
CameBy(m, k, a) == k # m /\ Before(m, a[k], a[m]) /\ Open[m][a[k]] = {}

\* A job is lost to a deadlock only if jobs came by their hosts in a circle, two
\* of them in opposite orders, and only over hosts with nothing open: a host with
\* services is committed before the next is upserted, the others keep their rows
\* locked until some later commit (runner.py:166-175, 303).
DeadlockNeedsInversion ==
  \A j \in Jobs : stage[j] = "aborted" =>
    \E S \in SUBSET Jobs : \E a \in [S -> Hosts] :
      /\ j \in S
      /\ \A k \in S : (\E m \in S : CameBy(m, k, a)) /\ (\E m \in S : CameBy(k, m, a))

\* A country once committed is not lost to a later scan that knows none, by a
\* re-scan without the database, a concurrent one or a rollback (runner.py:284-291).
GeoKept == [][\A h \in Hosts : db[<<h, 0>>].geo # Nothing => db'[<<h, 0>>].geo # Nothing]_vars

\* The signatures that may be chosen for a port: for each response, the first of
\* those that apply with the highest score.
Favourites == [p \in Ports |->
  {LET applicable == {m \in 1 .. Len(Signatures) : Applies(Signatures[m], p, response)}
       S(m) == Score(Signatures[m], p, response)
   IN  IF applicable = {} THEN 0
       ELSE CHOOSE n \in applicable :
              \A m \in applicable : S(m) < S(n) \/ (S(m) = S(n) /\ n <= m)
   : response \in {Nothing, "empty"} \cup Page[p]}]

\* A committed service carries the best signature of the observation made by
\* the scan that wrote it, the first of several equal ones (engine.py:96-119):
\* the observation is the banner with one of the pages the probe can return.
BestSignatureWins ==
  \A h \in Hosts, p \in Ports :
    db[<<h, p>>].scan # Nothing => db[<<h, p>>].sig \in Favourites[p]

\* The events whose host has been recorded, and what has been recorded of them.
Recorded(j) == IF stage[j] \in {"waiting", "committing", "done"} THEN order[j] ELSE Front(order[j])
HostsOf(events) == [n \in 1 .. Len(events) |-> events[n][2]]
AnalyzedOf(events) ==
  FlattenSeq([n \in 1 .. Len(events) |-> IF events[n][1] = "host" THEN <<events[n][2]>> ELSE <<>>])
ServicesOf(j, events) ==
  LET analyzed == AnalyzedOf(events)
  IN  FlattenSeq([n \in 1 .. Len(analyzed) |-> ServicesOn(j, analyzed[n])])

\* The list is the last of all, and cut exactly when it is not all.
IsTail(list, all) ==
  LET kept == Min({Limit, Len(all)})
  IN  list.items = SubSeq(all, Len(all) - kept + 1, Len(all)) /\ (list.cut <=> Len(all) > Limit)

\* Each of the lists of ScanProgress shows the last entries of the whole
\* history, and says that it is cut exactly when it is (progress.py:68-139).
ListsAreTails ==
  \A j \in Jobs :
    /\ IsTail(lists[j].hosts, HostsOf(Recorded(j)))
    /\ IsTail(lists[j].enrichments, AnalyzedOf(Recorded(j)))
    /\ IsTail(lists[j].services, ServicesOf(j, Recorded(j)))

\* Every job ends, whatever waits for whatever, and no socket is left behind,
\* not even by a job that failed in the middle of its handshakes.
JobsEnd ==
  <>(\A j \in Jobs :
       /\ stage[j] \in Ended
       /\ \A p \in Ports : probe[j][p] \in {"none", "closed"} /\ shake[j][p] \in {"none", "closed"})
=============================================================================
