---------------------------- MODULE ScopeService ----------------------------
(***************************************************************************)
(* Planning a job: POST /engagements/{id}/jobs with ScopeService.load_guard *)
(* and plan_job (app/scope/service.py), the guard of module ScopeGuard they *)
(* call, and the transaction get_session wraps around the handler.         *)
(*                                                                         *)
(* One request is followed from the load of the scope to the reply.  The   *)
(* objects added to the session are committed or rolled back with it.      *)
(***************************************************************************)
EXTENDS ScopeGuard

CONSTANTS
  Times,        \* instants, numbers
  Engagements,  \* the engagements: records of active, starts and ends
  RowLists,     \* the sets of scope_entries rows an engagement may have
  Never,        \* expires_at of an entry without an expiry
  Cap           \* max_authorized_hosts_per_job

ASSUME ServiceAssumption ==
  /\ Addr \subseteq Nat /\ Times \subseteq Nat /\ Never \notin Times /\ Cap \in Nat
  /\ \A g \in Engagements : g.starts \in Nat /\ g.ends \in Nat
  /\ \A rs \in RowLists : \A e \in rs :
       /\ e.cidr \in Blocks /\ e.kind \in {"allow", "deny"}
       /\ e.expires \in Times \cup {Never}

VARIABLES
  engagement,  \* the row of the engagement
  entries,     \* its scope_entries rows
  now,         \* the time load_guard takes
  step,        \* where the request is
  session,     \* the rows the open transaction has added
  db,          \* the committed rows
  reply        \* the HTTP status of the reply

request == <<engagement, entries, now>>
serviceVars == <<request, step, session, db, reply>>

NoRows == [jobs |-> {}, audit |-> {}]

ServiceInit ==
  /\ allow = {} /\ deny = {}
  /\ requested \in RequestLists
  /\ Fresh
  /\ engagement \in Engagements
  /\ entries \in RowLists
  /\ now \in Times
  /\ step = "load"
  /\ session = NoRows /\ db = NoRows
  /\ reply = 0

\* Mutant of EffectiveExpiry: the entry's own expiry is not looked at.
EffectiveExpiryOfWindow(e) == engagement.ends

\* The end of the engagement caps the expiry of every entry.
EffectiveExpiry(e) ==
  IF e.expires = Never \/ e.expires > engagement.ends
  THEN engagement.ends ELSE e.expires

ActiveOf(kind) ==
  {e.cidr : e \in {x \in entries : x.kind = kind /\ EffectiveExpiry(x) > now}}

WindowOpen == engagement.active /\ engagement.starts <= now /\ now <= engagement.ends

\* load_guard builds the guard from the active entries.
LoadGuard ==
  /\ step = "load"
  /\ WindowOpen
  /\ allow' = ActiveOf("allow")
  /\ deny' = ActiveOf("deny")
  /\ step' = "filter"
  /\ UNCHANGED <<pc, allowNets, denyNets, requested, todo, req, covered, pieces,
                 subtraction, result, request, session, db, reply>>

\* load_guard raises EngagementInactiveError.
RefuseInactive ==
  /\ step = "load"
  /\ ~ WindowOpen
  /\ step' = "raised"
  /\ reply' = 409
  /\ UNCHANGED <<vars, request, session, db>>

\* The guard filters the requested targets.
Filter ==
  /\ step = "filter"
  /\ Next
  /\ UNCHANGED serviceVars

\* A requested string does not parse: filter_targets raises before its loop.
RefuseTarget ==
  /\ step = "filter" /\ pc = "next" /\ todo = requested
  /\ step' = "raised"
  /\ reply' = 400
  /\ UNCHANGED <<vars, request, session, db>>

\* plan_job adds an audit row, flushes and raises.
Reject(code) ==
  /\ session' = [session EXCEPT !.audit = {[verdict |-> "rejected", hosts |-> 0]}]
  /\ step' = "raised"
  /\ reply' = code
  /\ UNCHANGED <<vars, request, db>>

RejectTooLarge ==
  /\ step = "filter" /\ pc = "done"
  /\ HostCount(authorized) > Cap
  /\ Reject(413)

RejectOutOfScope ==
  /\ step = "filter" /\ pc = "done"
  /\ HostCount(authorized) <= Cap
  /\ authorized = {}
  /\ Reject(422)

\* plan_job adds the pending job and its audit row.
QueueJob ==
  /\ step = "filter" /\ pc = "done"
  /\ HostCount(authorized) <= Cap
  /\ authorized # {}
  /\ session' =
       [jobs |-> {[authorized |-> authorized, rejected |-> rejected,
                   hosts |-> HostCount(authorized)]},
        audit |-> {[verdict |-> IF rejected = {} THEN "authorized" ELSE "partial",
                    hosts |-> HostCount(authorized)]}]
  /\ step' = "planned"
  /\ UNCHANGED <<vars, request, db, reply>>

\* The handler commits the job.
CommitJob ==
  /\ step = "planned"
  /\ db' = session
  /\ session' = NoRows
  /\ step' = "committed"
  /\ UNCHANGED <<vars, request, reply>>

\* The job is read again, published and returned.
ReplyCreated ==
  /\ step = "committed"
  /\ step' = "replied"
  /\ reply' = 201
  /\ UNCHANGED <<vars, request, session, db>>

\* The commit raises, or the read after it.
DatabaseFails ==
  /\ step \in {"planned", "committed"}
  /\ step' = "raised"
  /\ reply' = 500
  /\ UNCHANGED <<vars, request, session, db>>

\* Mutant of RollBack: the flushed audit row survives, without its job.
RollBackKeepsAudit ==
  /\ step = "raised"
  /\ db' = [db EXCEPT !.audit = session.audit]
  /\ session' = NoRows
  /\ step' = "replied"
  /\ UNCHANGED <<vars, request, reply>>

\* The handler turns the exception into an HTTPException; get_session sees it at
\* its yield and rolls the transaction back.
RollBack ==
  /\ step = "raised"
  /\ session' = NoRows
  /\ step' = "replied"
  /\ UNCHANGED <<vars, request, db, reply>>

ServiceNext ==
  \/ LoadGuard \/ RefuseInactive
  \/ Filter \/ RefuseTarget
  \/ RejectTooLarge \/ RejectOutOfScope \/ QueueJob
  \/ CommitJob \/ ReplyCreated \/ DatabaseFails \/ RollBack

serviceState == <<vars, serviceVars>>

ServiceSpec == ServiceInit /\ [][ServiceNext]_serviceState

-----------------------------------------------------------------------------
(* What the run of the job makes of its networks.                          *)

Lowest(net) == {a \in net : \A b \in net : a <= b}
Highest(net) == {a \in net : \A b \in net : b <= a}

\* ipaddress hosts(): all of a network of two addresses, otherwise all but the
\* first one and, for IPv4, the last one.
UsableHosts(net) ==
  IF Cardinality(net) = 2 THEN net
  ELSE net \ (Lowest(net) \cup (IF net \subseteq Addr4 THEN Highest(net) ELSE {}))

\* runner.expand_targets.
ExpandTargets(nets) ==
  UNION {IF Cardinality(n) = 1 THEN n ELSE UsableHosts(n) : n \in nets}

-----------------------------------------------------------------------------

\* The rows say that address a may be scanned at this time.
RowsAuthorize(a) ==
  /\ WindowOpen /\ now < engagement.ends
  /\ \E e \in entries : e.kind = "allow" /\ a \in e.cidr /\ (e.expires = Never \/ now < e.expires)
  /\ \A e \in entries : e.kind = "deny" /\ (e.expires = Never \/ now < e.expires) => a \notin e.cidr

\* A job that reaches the database holds only addresses the rows authorize, and
\* the hosts its run will expand are among them: no path through the caps, the
\* expiry rules and the commit lets another address in.
QueuedJobsInScope ==
  \A j \in db.jobs :
    /\ \A a \in UNION j.authorized : RowsAuthorize(a)
    /\ ExpandTargets(j.authorized) # {}
    /\ ExpandTargets(j.authorized) \subseteq UNION j.authorized

\* The job and its audit row are committed together or not at all, and the
\* verdict tells whether a part of the request was rejected.
JobAuditedAtomically ==
  /\ (db.jobs # {}) <=> (db.audit # {})
  /\ \A j \in db.jobs, r \in db.audit :
       /\ r.hosts = j.hosts
       /\ r.verdict = "authorized" <=> UNION requested = UNION j.authorized

\* service.py:7: the layer will "record every authorization decision into
\* ``audit_log``"; models.py:15 says the same of the table.
RejectionsAudited ==
  step = "replied" /\ reply \in {413, 422} =>
    \E r \in db.audit : r.verdict = "rejected"

\* runner.py:48: expansion "excludes net/broadcast".  An authorized address that
\* is neither end of a requested network nor of an allowed one is a host of the
\* run, also next to a carve-out.
AuthorizedHostsExpanded ==
  \A j \in db.jobs : \A a \in UNION j.authorized :
    (\A n \in requested \cup allow : a \notin Lowest(n) \cup Highest(n))
      => a \in ExpandTargets(j.authorized)
=============================================================================
