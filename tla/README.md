# ReconHive: TLA+ models, model checking and proofs

ReconHive plans and runs network scans that a client has authorized. This
directory models the parts of it whose correctness depends on order, failure or
arithmetic on networks, checks them with TLC on small instances and proves the
most important properties with TLAPS. All line references are to `src/`.

## 1. The system

A FastAPI application (one uvicorn worker, `app/api/job_events.py:3`) with
PostgreSQL behind SQLAlchemy's asyncio sessions, and a Vue client.

| Component | State it keeps | Operations | Talks to |
|---|---|---|---|
| Scope guard `app/scope/guard.py` | active allow and deny entries, their collapsed networks | `evaluate`, `assert_authorized`, `filter_targets` | nothing (pure) |
| Scope service `app/scope/service.py` | none of its own; rows of `engagements`, `scope_entries`, `scan_jobs`, `audit_log` | `load_guard`, `plan_job`, `authorize_host` (called by nobody) | guard, session |
| Job API `app/api/routers/jobs.py` | the status of `scan_jobs` | plan, list, get, run (inline or background), WebSocket | service, runner, hub |
| Request session `app/api/deps.py` | one transaction per request | commit at the end, rollback on an exception | database |
| Scan runner `app/scan/runner.py` | the job, a bounded event queue, one task per host, a host semaphore | `run_job`, `_persist`, `expand_targets` | service, scanner, progress, fingerprinting, enrichment, hub, database |
| TCP scanner `app/scan/scanner.py` | connection semaphore, rate limiter | `scan_host` (the gate), `_scan_port` | guard, limiter, sockets |
| Rate limiter `app/scan/ratelimit.py` | tokens, last refill, lock | `acquire` | clock |
| Progress `app/scan/progress.py` | counters, bounded lists, phase | `record_port`, `record_scan_error`, `record_host_result`, `snapshot` | runner |
| Job event hub `app/api/job_events.py` | sockets per engagement | `connect`, `disconnect`, `publish_job` | WebSockets |
| Job view `frontend/src/views/JobsView.vue`, `frontend/src/composables/useJobUpdates.ts` | list of jobs, socket, generation, retry timer | load, submit, run, merge of events and snapshots | API, WebSocket |
| Search `app/search/` | the position of the lexer | lex, parse, compile a query to SQL | database |
| Fingerprinting `app/fingerprint/` | an observation per port | HTTP probe, best signature, fallback by port | sockets |
| Enrichment `app/enrich/` | open GeoIP files | look-ups, TLS handshakes | files, sockets |
| Other routers, schemas, models, migrations, configuration | rows | create engagement, add scope, read | database |

How a job flows: `POST /engagements/{id}/jobs` loads the guard, partitions the
requested targets, and commits a pending job with its audit row. `POST
/jobs/{id}/run` claims it with one conditional `UPDATE`, commits `running`, and
hands it to a `ScanRunner`, inline or as a background task with a session of its
own. The runner loads a fresh guard, expands the job's networks, and creates one
task per address; each task waits for the host semaphore, asks the gate, and
opens one coroutine per port. Tasks and coroutines report to a bounded queue;
the runner takes the events one by one, persists scanned hosts, counts progress,
commits now and then, and at last commits a terminal status. Each commit is
published to the WebSockets of the engagement.

What makes it hard: the guard's carving of networks out of networks; several
requests for one job; commits and reads that fail on one side or the other of a
`try`; restarts; the interplay of queue, semaphore and cancellation; counters in
memory against rows in a transaction that may be rolled back. `PROJECT.json`
lists each hazard at its line with the properties that cover it.

What must be right, per component:

- guard: nothing unauthorized is ever let through, nothing requested is lost,
  the count against the cap is exact;
- planning: what is committed is authorized by the rows at that time, and is
  audited in the same transaction;
- job life cycle: one run per job, a status no other run can change under it,
  an audit log that tells the history, an end for every run;
- scan: the gate before every socket, bounded concurrency, counters that agree
  with the rows, no coroutine left when the job says it is over, no deadlock;
- pacing: never more tokens than the rate allows in any stretch of time, in order, permits
  bounded and given back, no wake-up lost;
- host analysis: what a client reads of a host comes from one scan, whatever jobs write it at the
  same time; no deadlock but between jobs that meet hosts in opposite orders; the best signature; lists that say when they are cut;
- search: no word lost by the lexer, terms joined by AND, negations that split the
  rows as a reader expects although columns may be NULL;
- updates: a client never goes back to an older state of a job and ends with the newest.

## 2. Modules

| Module | Models |
|---|---|
| `CidrBlocks` | the CIDR algebra of `guard.py`: `_intersection`, one step of `_subtract`, `_collapse` |
| `ScopeGuard` | the constructor, `evaluate`, `filter_targets` and the `_subtract` loops it calls |
| `ScopeService` | extends `ScopeGuard`: `load_guard`, `plan_job`, the handler and the session around it, `expand_targets` |
| `JobContract` | abstract: what a reader of the database may rely on about jobs and their audit rows |
| `JobLifecycle` | claim, run, commits, failures and restarts of jobs; implements `JobContract` |
| `ScanContract` | abstract: what a client that polls a running job may rely on |
| `ScanRunner` | the inside of `ScanRunner.run_job`: tasks, port coroutines, queue, coordinator, commits, cancellation; implements `ScanContract` |
| `ConnectionPacing` | `_scan_port` with the rate limiter, the connection semaphore and the three timeouts, in discrete time |
| `HostAnalysis` | fingerprinting, enrichment and the upserts of a scanned host, for several jobs that share hosts; the bounded lists of `ScanProgress` |
| `SearchQuery` | lexer, parser checks and the three-valued meaning of the compiled statement |
| `JobUpdates` | publication of commits, the event hub, the WebSocket endpoint, the reconnecting client and its list |
| `ScopeGuardProofs`, `ScopeServiceProofs`, `JobLifecycleProofs`, `ScanRunnerProofs`, `ConnectionPacingProofs`, `HostAnalysisProofs`, `SearchQueryProofs`, `JobUpdatesProofs` | the theorems, one module for each of the above |
| `MC...` | one small instance for TLC per module |

### CidrBlocks and ScopeGuard

A network is the set of its addresses and `Blocks` is any family of networks
that nest or are disjoint and holds every single address, which is the property
`guard.py:21-22` says it exploits. Lists of networks are sets: the order of a
list decides only the order of the result, and the model takes elements in
*any* order, so what holds of it holds of the code's order. `Cover` stands for the two library
functions (`collapse_addresses`, `address_exclude`): both return the maximal
networks inside a set of addresses. `CollapseGenerator` is `_collapse` as the
constructor calls it: its argument is a generator, the IPv4 comprehension reads
it to the end, and IPv6 finds nothing (`guard.py:134-135, 160-161`).

`pc` is the position in `filter_targets`: `build` (constructor), `next` (outer
loop), `carve` and `carving` (`_subtract(block, deny)` for each covered block),
`rejecting` (`_subtract(req, pieces)`), `done`. The variables are the code's
locals. One action is one iteration; nothing else runs meanwhile, so the
interleavings are only choices of order.

### ScopeService

Extends `ScopeGuard` with one request: `step` goes `load`, `filter` (the guard's
own steps), `planned`, `committed`, `raised`, `replied`. `session` holds what the
open transaction has added, `db` what is committed. `ServiceInit` leaves the
guard empty, `LoadGuard` fills it from the rows with the rules of
`service.py:72-95` (window, effective expiry), `QueueJob` is the success path,
`RejectTooLarge` and `RejectOutOfScope` add an audit row and raise, and
`RollBack` is what `get_session` does with every exception.
`DatabaseFails` is a failing commit, or a failing refresh *after* the commit: then
the reply is 500 and the job is queued.

### JobContract and JobLifecycle

`status` and `audit` are the committed database; `pc[r]` is where each *run* is,
a run being one `POST /jobs/{id}/run` with the runner it starts, or a call of
`ScanRunner.run_job` by a caller that claimed nothing (`CallDirectly`, external:
only tests do this, one caller at a time). `Claim` is the `UPDATE`: from
then until its commit the row is locked, and other claims wait (`Locked`).
Every commit is an action of its own, every `Go` names the place before and
after. `CommitFails` and `ReadFails` are the exceptions each statement may
raise; `Crash` ends all runs, and start-up does nothing about jobs
(`app.py:23-26`).

`Contract == INSTANCE JobContract` maps `status` and `audit` to themselves: each
step of the detailed module is one move of the contract or a stutter.

### ScanRunner

Between two awaits nothing else runs, so the code between two awaits is one
action. `task[h]` is the task of host h (waiting for the semaphore, in it,
waiting to put its final event, done, cancelled), `probe[h][p]` the coroutine of
one port, `events` the queue. The coordinator is `runner`, with `finished`
(`hosts_finished`), `counts` and `progress` (the counters of `ScanProgress`);
`rows` is the transaction's view of the host rows and `stored` the committed
counters and rows. `EmitProgress` is the tail of the loop (`runner.py:166-175`): the elapsed
half second and the open ports are abstracted to a free choice of committing,
except at the last host, where the code always commits. `BadPorts` are ports whose connect raises
something `_scan_port` does not catch: `ports` given as a JSON list is not
range-checked (`ports.py:25-26`), and port 70000 makes asyncio raise
`OverflowError`. A coroutine whose gather has already failed goes on alone, as
in asyncio. `inScope` is chosen freely when the guard is loaded: the set
planned and the set authorized now may differ.

`Contract == INSTANCE ScanContract WITH phase <- stored.stats.phase, ...` maps the committed
counters and rows to those of the abstract module; every commit is a move of it, everything
between commits a stutter. A failed job keeps what it has committed: `FailJob` writes the
failure on top of the counters it reads again after the rollback.

### ConnectionPacing

Time is counted in ticks, the bucket in units, of which `Token` make a token and one comes in
each tick. `pc[n]` is where a coroutine of `_scan_port` is, `line` the holder of the limiter's lock
with those who wait for it, `door` the waiters of the connection semaphore, `due[n]` when the
timer or the wake-up of n comes. asyncio's locks and semaphores are modelled from
their use in `ratelimit.py:33` and `scanner.py:83`: a newcomer does not overtake who waits, a release wakes the first who has not
been woken, and a permit that has been promised to a woken coroutine is taken. `Pace` is one turn
of the loop of `acquire` with the lock in hand: it takes the token and goes on to the semaphore, or sleeps without
letting the lock go. `Tick` lets time pass as long as nobody would be served more than `MaxLate`
late: an event loop that is late by a bounded amount, in any order.

### HostAnalysis

Two jobs of one engagement run `_fingerprint_host`, `_enrich_host`, `_persist` and
`record_host_result` for hosts they take in any order. `probe[j][p]` and `shake[j][p]` are the sockets
of `probe_http` and `fetch_tls_cert`, each wait with a timeout; `Identify` is the choice among signatures (`BestOf` is its loop); `todo[j]` the
upserts still to come, 0 for the host and the numbers of the ports for its services, of which `NextRow` is the
next; `Written` is what one leaves in its row; `rows` what has last been written, `lock` whose open transaction wrote it,
`db` what is committed. PostgreSQL is external: an upsert waits while another transaction holds
the row, and `DeadlockDetected` aborts a job of a cycle of waiters. `DeadlockNeedsInversion` says that such a job belongs to a set of jobs
that came by their hosts in a circle: for each there is another that had its host earlier, and found nothing open there.
With two jobs that is two opposite orders. `Fail` is the rollback. A certificate that
`parse_certificate` cannot take, or a fingerprint too long for its column, fails the job.
What a signature matches, and which responses a port may send, are constants. `lists[j]` holds the bounded deques of
`ScanProgress` with their flags; `Push` is one append, `PushAll` the loop over the services of a host.

### SearchQuery

A query is a sequence of lexemes. One action is one iteration of the loop of `lexer.py:39-96`; `i` is its index,
`tokens` its result. `Refused` gathers what the parser and the builders of `compiler.py` refuse. `Condition`
gives each builder's expression one of SQL's three truth values on a row, `Selects` is the `WHERE` clause, and
`TextMatches` models `websearch_to_tsquery` and `@@` (external): `Runs` are the words it sees in a text. A text term is `Plain` when
it has words, none of them a stop word or an "or", and no quote and no dash; of such terms `ImplicitAnd` says that gluing them is harmless.

### JobUpdates

A job is the number of its last commit, which stands for `updated_at`. The model
takes the stamps of two commits of one job to be at least a millisecond apart:
`Date.parse` cuts them there, and `upsertJob` lets an equal stamp overwrite
(`JobsView.vue:54-57`).

`publication[j][w]` follows commit, refresh and `publish_job` of the two who write a
job: the handler that plans it and the handler that claims it with the run behind
it. `publish_job` copies the set of sockets at once (`Publish`) and then waits for
each (`Send`, which needs room in the channel). `endpoint[g]` is the position of
`job_updates` for socket g: registered in the hub first, then the read of the rows,
then their sending. `link[g]` is the socket as the browser sees it; `closing` is one
the browser has closed itself, whose `onclose` is still to come. Sockets
are numbered in the order they are opened, so that the newest is the
`generation` of `useJobUpdates.ts` and the test of the generation is `g = generation`.
`asks`, `answers` and `replies` are HTTP requests and responses on their way, in any order.

`Switch` is the change of engagement with both watchers; `Drop` loses the
connection, `Restart` the server with its hub and all publications under way. Each
action is what happens between two awaits, or one callback of the browser, with three exceptions: the
handshake and the registration that follows it are one action (what is
published between them is in the snapshot, which is read later), the endpoint
of a socket that is already closed goes straight to its `finally` clause, and a second
request for a list that is already asked for counts as the first.

## 3. Runs

Runs that must pass:

| Run | Instance | Shows |
|---|---|---|
| `scope_guard` | 4 IPv4 addresses and 1 IPv6 address, all networks; up to 2 allow and 2 deny entries, up to 2 requests | loop invariants, soundness, partition, IPv4 completeness, exact count, with nested, equal and disjoint requests and holes in fragments |
| `scope_service` | 4 addresses, 2 rows with and without expiry, times 0..3 around the window 1..2, cap 3 | the boundaries of window and expiry, jobs in scope and audited together; cap above and below, failing commit and refresh |
| `job_lifecycle` | 3 requests for one job, 2 direct calls for another, 2 faults of any kind | one run per job, audit, contract; without a fault every run ends |
| `scan_runner` | 3 hosts, 2 ports of which one may raise, 2 hosts at a time, queue of 2, any subset in scope, failure anywhere | committed counters against rows, gate, cancellation, the contract of a polling client; every run ends |
| `connection_pacing` | 4 coroutines started at times 0 and 4, a bucket of a token and a half, 2 permits, timeouts 2, 1, 1, lateness up to 1 | rate, order and single naps of the limiter; bound and order of the connections; every port is scanned |
| `host_analysis` | 2 jobs over 3 hosts, one with an HTTP and a TLS port of which the jobs found different ones, 6 signatures, a certificate that cannot be parsed, a value too long, lists of 1 | rows of one scan, who can deadlock, signatures, lists, enrichment kept; every job ends |
| `search_query` | every query of up to 4 lexemes out of 8, every one or two of 68 terms; 5 services of two engagements with NULLs | the lexer keeps the words; AND, negation, isolation of engagements |
| `job_updates` | 2 engagements, 1 job with up to 2 commits, up to 3 sockets (with the third, 1 commit), 1 message in a channel, 1 response on its way | what is shown as live is current, the list never goes back, everything settles |

Runs that show a disagreement between the code and what its text says:

| Run | Violated | What happens |
|---|---|---|
| `scope_guard_ipv6` | `InScopeIsAuthorized` | every IPv6 target is rejected: the generator is exhausted by the IPv4 comprehension |
| `scope_service_audit` | `RejectionsAudited` | the audit row of a rejection is rolled back with the request |
| `scope_service_expand` | `AuthorizedHostsExpanded` | the ends of every fragment next to a carve-out are never scanned |
| `job_lifecycle_stuck` | `RunningJobsFinish` | one failed final commit leaves the job running for ever |

Divergences met while modelling that have no run of their own:

- `runner.py:8-9` says of the host semaphore "so we don't expand a /16 into 65k coroutines at
  once"; line 137 creates a task per address, and the bound is on those that scan.
- The same bound does not hold for hosts one of whose ports has raised: the gather
  is over and the semaphore released while the other coroutines go on (`HostsBounded` exempts them).
- `ratelimit.py:3-5` says the bucket bounds the rate of outbound connections. It bounds the
  tokens: they are taken before the semaphore (`scanner.py:82-83`), so coroutines with tokens gather behind slow
  connections and then connect as fast as permits come back.
- A bucket of less than one token never gives one and `acquire` turns for ever with the lock
  (`PacingAssumption` excludes it; the defaults are far from it).
- `tls.py:90` promises "None on failure"; the parsing of the certificate is outside its `try`, so an odd one
  fails the whole job (`ShakeCloses`).
- Search text in double quotes loses its quotes in the lexer and is joined with the other terms,
  so a phrase is not searched as a phrase (`ImplicitAnd` is about plain terms).
- With an empty port list (`"ports": ","`) hosts are analyzed and never counted as scanned (`progress.py:57`),
  and `ContractKept` of `ScanRunner` would not hold: more hosts are analyzed than scanned.
- The reply to a submit or a run that arrives after a switch of engagement is put into
  the list of the new one (`JobsView.vue:103, 116`; `TakeReply`).

Why the bounds are enough. In the guard every interaction is between two
networks, or between one piece and a sequence of holes; with four addresses all
three relations of networks (nested either way, disjoint) occur, two requests and two
allow entries overlap in every way, and two deny entries give a hole inside a fragment left by another.
`scope_service_expand` has eight addresses, so that a fragment has ends and a middle.
The theorems remove the bound for all of it. In the life cycle
one job suffices for the race and a second for independence; three requests give a
winner, a waiter and a late comer; two faults give a fault during
the consequences of another. In the scan three hosts with a limit of two give one host that must
wait, and a queue shorter than the events of one host makes every writer wait. In
the updates two commits give an older and a newer state and the two writers that may overtake
each other, three sockets allow a switch away and back, or a loss during a switch, and the second
engagement one to switch to; with room for one message every sender waits.
In the pacing four coroutines give one that connects, one that sleeps with the lock and two behind it, at either
queue; a bucket of a token and a half makes the deficit a fraction of a token and the brim matter after a
pause. In the host analysis two jobs and two hosts make the smallest cycle of locks; hosts without open ports
are needed for it, and a third with two ports for the order of its rows and for lists longer than their limit.
Every loop of the lexer is left after at most two lexemes, so four give every pair of transitions.
Messages of a socket arrive in order, so longer channels only delay them.

No run uses symmetry. `CHECK_DEADLOCK FALSE` everywhere: a call returns, a
request is answered, a job ends, an operator may do nothing more, after which nothing is left to do. That nothing
stops *too early* is what `RunningJobsFinish`, `JobsFinishUnlessFault`, `RunEnds` and `Settles` state.

Fairness. `JobLifecycle!FairSpec` assumes that a run which can go on does (asyncio
runs every ready task, the database answers or raises); it assumes nothing of
submissions, requests or faults. `ScanRunner!FairSpec` assumes only that *some* coroutine of the
scan or the coordinator goes on while one can (sockets have timeouts, `scanner.py:87-97`); it does
not say which, and `Raise` is not fair: failures may never happen. `JobUpdates!FairSpec`
assumes the same of the server's and the browser's own steps together; commits, switches, lost connections
and restarts are the environment, bounded in number and never forced. In these two, and in
`HostAnalysis`, every step uses up something (a probe, an event, a read, a row, a message), so one such condition is enough. In `ConnectionPacing` time alone never is all that goes on: `Tick` stops when somebody
would be served too late, which is what a running event loop means.

Type invariants: those of `JobLifecycle` and `ConnectionPacing` are checked and proved, that of `ScopeGuard` is
proved, those of the other modules are conjuncts of the invariants of their proofs (`Shapes` in three of them) and
no property of a run.

Every property of every passing run has a mutant: a definition with a plausible
bug (`...WithoutLock`, `...Forgotten`, `...Overwrites`), kept beside the one it
replaces, under which TLC finds the property violated.

## 4. Proofs

`ScopeGuardProofs` assumes only `BlocksAssumption` (networks nest, are finite,
not empty, of one version, and hold every single address) and
`ListsAssumption` (entries and requests are networks). From the lemmas on the algebra
(`CoverExact`: the maximal networks in a set cover it; `IntersectionExact`,
`CarveExact`, `CollapseExact`) it proves that `TypeOK /\ LoopInv` is inductive. `LoopInv` is needed
because the promises are about the end of nested loops: it says, for each position, which
addresses each local variable accounts for; what has been carved, what is being carved
less the holes still to come, and what is still to be carved always add up to the
part of the request that is in scope. From it follow

- `AuthorizedSafe`: nothing authorized that `evaluate` would refuse, at any point;
- `ResultSafe`: authorized and rejected partition the request;
- `CompleteSafe`: for IPv4 nothing in scope is left out;
- `CountIsExact`: the number that is compared with the cap counts every address once. What `_collapse` returns is
  disjoint (`CollapseDisjoint`), and the pairs of a network and an address in it are then in bijection with the
  addresses (`DisjointCounted`)

for address spaces, entry lists and requests of any size.

`JobLifecycleProofs` assumes `RunsAssumption` (each run has a job, and a caller without a claim
shares its job with no request). The
inductive invariant `IInv` adds `ClaimedRuns` to type correctness, `AtMostOneRun` and
`RunSeesStatus`: a request that is past its claim finds its job no longer pending, so a
second claim cannot start. From it follow `OneRunSafe`, `SeesStatusSafe`, `RunningHasRunSafe`,
the refinement `LifecycleImplementsContract` (each action of a run maps to a move of the
contract or to a stutter) and, from the contract alone, `AuditSafe`.

`ScopeServiceProofs` builds on `ScopeGuardProofs`. `ServiceInv` keeps the guard's invariant through the request and says
that a loaded guard holds the active entries, that what is planned is sound, and that what
is committed was planned. `VerdictFromRows` is the step from `EffectiveExpiry` to the rows: capping expiries by the
end of the engagement adds and loses nothing while the window is open. From it follow `QueuedInScope`
(with `UsableHostsExist`: a network of more than two addresses keeps a host) and `QueuedIsAudited`. Beyond the assumptions
of the guard it needs that addresses and times are numbers (`ServiceAssumption`).

`ConnectionPacingProofs` assumes `PacingAssumption`: a bucket that holds a token, one permit, any timeouts,
any number of coroutines, any lateness. That no stretch of time sees too many tokens is about every pair of
grants, so the invariant keeps `Level`: what was given since the grant of m, *with what is left in the
bucket*, is no more than a full bucket and the income since then. A grant adds a token to one side and takes it from the
other. It needs that tokens are given in the order of the numbers (`Lined`, `StatesAgree`, with four lemmas on
ascending queues), and `Sleeper` ties the timer of who sleeps to the bucket, which gives one nap. The sockets are bounded
because a coroutine enters only when nobody waits, or with a permit that was promised to it and is counted already. Theorems:
`TypeCorrect`, `GrantsArePaced`, `ServedInOrder`, `NobodyNapsTwice`, `SocketsAreBounded`.

`ScanRunnerProofs` assumes `ScanAssumption` (finite hosts and ports, one permit, one place in the queue). A host is
counted when its event is taken, its rows come later, and either may be lost to a rollback; the first
invariant, `IInv`, follows the report of each host from its task through the queue to the rows: one report at most,
never for a host with rows (`Reports`, `Analyzed`), by a task that was let through and whose
ports are done (`Outcomes`). `Accounts` ties the counters to the rows in memory and in the
database, `Held` the coroutines in flight to the tasks that hold the semaphore. From it follow `StatsMatchRows`,
`OnlyScannedHaveRows` and `SemaphoreBoundsHosts`.

What a completed job says is about every event it took, so a second invariant, `Ledger`, counts them. Every port that is done
has been counted or is in the queue (`PortsCounted`), each counter is the size of a set of ports or hosts (`Tallies`: `Counted`,
`Whole`, `Taken`, `Erred`), and the report of a host stands behind the events of its ports (`ReportsLast`: the queue is first in,
first out, and a task reports when its gather is over). `Causes` says why a host is an error, `Stages` what each position of the
coordinator has behind it, `Over` and `Behind` what the phases in memory and in the database promise. From `IInv` and `Ledger` follow

- `ScanIsOverWhenSaid`: no probe goes on when the phase says the scan is over;
- `CompletedJobsAreComplete`: a completed job accounts for every host;
- `ScanKeepsContract`: each commit is a move of `ScanContract`, everything else a stutter. It goes action by
  action; that an analyzed host was scanned, with all its ports (`ReportsLast` and `Tallies`), is the part the code never looks at.

The last two assume `Ports # {}`. Without ports they are false, which is one of the divergences above.

`HostAnalysisProofs` assumes `AnalysisAssumption`, for any number of jobs, hosts, ports and signatures. `RowsOfLastScan` is
the heart of its invariant: whichever job wrote the row of a host has also written the services it found open, or has the row locked
and them in `todo`. A second job cannot come between, since `HostFirst` says that whoever has a service has its host.
It survives a rollback because a row that is not locked is as committed (`UnlockedAsCommitted`), and the invariant asks the same of
the committed rows (`ServicesOfLastScan`). `InHand` says what a job in the middle of its upserts has written so far. The
rows a job keeps locked are hosts it came by with nothing open, but for the one in hand (`HeldAreEmpty`): a host with
services is committed at once. So everyone in a cycle of waiters waits for such a host (`CircleOfOrders`), and the circle survives because orders only
grow (`OrdersGrow`). `NotYetHeld` keeps the two ends of the circle apart: a job does not have the row of the host it is about to write.

That the loop of `identify` ends with the first of the best signatures is an induction over the signatures. `BestOf` is a
function of how many have been looked at; `BestOfFollows` shows that such a function exists, `NextBestIsBest` is the step,
and the induction is by the least counterexample (`LeastExists`), which needs no theorem with an operator as its parameter. `Chosen` carries the result from the
probe (`Observed`) through the job's locals (`FoundBest`) to the rows and the committed rows.

That a list is the tail of a history is proved place by place: `Shows` says which entry of the history stands in each place of the list,
`PushShows` is one append at or below the limit, `PushAllShows` the services of a host, however many more than the limit they are. The histories themselves grow by what an event brings
(`HostsGrow`, `AnalyzedGrows`, `ServicesGrow`). `Listed` adds what the code takes for granted: a job that records a host has taken
it as a host, not as an error, so the last event is the only one the lists do not show yet. Theorems: `ServicesAreOfLastScan`,
`HostRowsGuard`, `DeadlocksNeedInversion`, `CountryIsKept`, `BestSignatureIsKept`, `ListsShowTheTail`.

`SearchQueryProofs` assumes that queries are finite sequences (`QueriesAssumption`). Its invariant says that the lexer stands in the
query or just behind it and that a reply is the answer to the tokens. `LexerReadsOn` is the argument for the end of `tokenize` on every query:
each iteration moves the index on, by `FirstOf` (`FirstOfGoesOn`) or past a delimiter, also when a dash, a colon or a quote comes last. `NegationsSplit`
follows from a table of the builders: each gives "unknown" exactly for a column that is NULL. `AnswersStayInEngagement` is the
first half of `ImplicitAnd`.

`NoWordIsLost` needs the invariant `ReadSoFar`: the words of the tokens are those of the query up to the index. An iteration adds to both sides
the same stretch (`StepReads`): what a token holds are pieces of the query, and what lies between them are marks, which hold no word
(`MarksDoNotCount`, `WordsMeet`, `QuotedWords` for a quote that is closed or is not). `TermsAreConjoined` proves `ImplicitAnd`: a space
between two texts keeps their words apart (`RunsApart`), so the search text that is glued together has the words of each of its terms
(`GluedRuns`, `PositiveTextsAre`), and a text without dashes, stop words and "or" matches exactly when all its words do (`PlainMatches`).
Only the representation of the query enters: any rows, dictionary and networks.

Both this module and `HostAnalysisProofs` reason about `FlattenSeq`, which the library defines as a recursive function. `Recursion` proves once that a
function defined step by step up to a number exists (the step is a function, so no theorem takes an operator), `UpTo` is induction up to a number for a *set* of
numbers, and from the two follow `FlattenSteps` and `FlattenConcat`: flattening is concatenation, one sequence after the other.

`JobUpdatesProofs` works for any engagements, jobs, sockets and bounds. That the list is current when it looks live is no invariant by
itself: `NoneMissed` says, while the newest socket is open, how the last commit of each job still comes to the browser: in a
snapshot that is not read yet, read and not sent, in the channel, or with a writer who will publish it or is sending it
*to that socket*. The handover from one to the next is what the order of registration and read in the endpoint is for. It needs
that nothing on its way is ahead of the database (`NothingAhead`), so that merging never loses the last commit, and that
the newest socket belongs to the selected engagement and is known to the hub (`Live`). Theorems: `LiveListIsCurrent`, `ListNeverGoesBack`.

The invariants of `ScanRunner`, `HostAnalysis`, `SearchQuery` and `JobUpdates` were model-checked on the instances of the runs before they were proved.

Model-checked only:

- liveness (`RunningJobsFinish`, `JobsFinishUnlessFault`, `RunEnds`, `AllScanned`, `JobsEnd`, `Settles`): it rests on fairness.

Every invariant and every action property of a passing run is stated by a theorem.

## 5. Not modelled

- `authorize_host` and `is_alive`: called by nothing in `app/`.
- Reading endpoints, schemas, migrations, presentation: no state of their own to get wrong.
- Text sanitising, port parsing, regular expressions, HTTP headers, certificate fields, address classes: pure conversions.
  Which of them may raise or lengthen a value is in the models.
- Order, limit and offset of search results; the fields of `FIELDS` that share a builder share a definition.
- The connection pool: `database_pool_size` and the sessions that background jobs hold are left to SQLAlchemy.
- Timeouts of scan sockets in `ScanRunner`: a probe ends in any state at any time, which includes them. They are in `ConnectionPacing`.
- Publishing, in the modules of the runner: it changes no state there and its exceptions are swallowed
  (`runner.py:84-88`). Its effect on clients is `JobUpdates`.
- A browser that stays connected and stops reading: it would hold up whoever publishes (`job_events.py:52`);
  `Settles` takes browsers to read. Leaving the view and opening it again is a new start of `JobUpdates`.
- Port lists that are empty: the runs have at least one port; see the divergences.

## 6. What could follow

1. `ScopedScan`: `ScopeService` and `ScanRunner` with a clock: entries added, expiring, the engagement ending
   while a scan runs; the age of the guard the gate asks. It would be the place of `authorize_host` once something calls it.
2. `DbPool`: sessions of long runs against those of requests.
3. Proofs: a measure that every step of the scan or of the host analysis decreases, which is what their fairness rests on.
