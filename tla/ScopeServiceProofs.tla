------------------------- MODULE ScopeServiceProofs -------------------------
(***************************************************************************)
(* Proofs about ScopeService for any networks, entries, engagements and    *)
(* requests, on top of the proofs about the guard.                         *)
(***************************************************************************)
EXTENDS ScopeService, ScopeGuardProofs

\* A job of networks that the rows authorize.
Sound(j) ==
  /\ j.authorized \subseteq Blocks /\ j.authorized # {}
  /\ \A a \in UNION j.authorized : RowsAuthorize(a)

\* The rows of a job and of its audit entry.
Plan(rows) ==
  /\ \E j : rows.jobs = {j}
  /\ \E r : rows.audit = {r}
  /\ \A j \in rows.jobs, r \in rows.audit :
       /\ Sound(j) /\ r.hosts = j.hosts
       /\ r.verdict = "authorized" <=> UNION requested = UNION j.authorized

ServiceInv ==
  /\ IInv
  /\ entries \in RowLists /\ engagement \in Engagements /\ now \in Times
  /\ step = "load" => pc = "build"
  /\ step = "filter" => WindowOpen /\ allow = ActiveOf("allow") /\ deny = ActiveOf("deny")
  /\ step = "planned" => Plan(session)
  /\ db = NoRows \/ Plan(db)

\* Before the request nothing is loaded and nothing is written.
LEMMA ServiceInitInv == ServiceInit => ServiceInv
<1> SUFFICES ASSUME ServiceInit PROVE ServiceInv
  OBVIOUS
<1>1. TypeOK
  BY ListsAssumption DEF ServiceInit, Fresh, TypeOK
<1>2. LoopInv
  BY DEF ServiceInit, Fresh, LoopInv, Taken, Earlier, InScope
<1> QED
  BY <1>1, <1>2 DEF ServiceInit, Fresh, ServiceInv, IInv

\* The loops of the guard leave the entries and the request alone.
LEMMA NextKeepsLists == Next => UNCHANGED <<allow, deny, requested>>
  BY DEF Next, BuildGuard, NextRequest, CarveBlock, PunchHole, BlockCarved,
         AuthorizePieces, RejectRest, CollapseResult, guard

\* The entries that are active authorize what the rows authorize: capping the
\* expiry of the entries by the end of the engagement adds and loses nothing.
LEMMA VerdictFromRows ==
  ASSUME ServiceInv, step = "filter", NEW a, Evaluate(a) = "authorized"
  PROVE  RowsAuthorize(a)
<1> USE DEF ServiceInv
<1>1. \A e \in entries : e.expires \in Nat \/ e.expires = Never
  BY ServiceAssumption
<1>2. now \in Nat /\ engagement.ends \in Nat /\ WindowOpen
  BY ServiceAssumption
<1>3. a \notin UNION deny /\ \E n \in allow : a \in n
  BY DEF Evaluate
<1>4. PICK e \in entries : e.kind = "allow" /\ EffectiveExpiry(e) > now /\ a \in e.cidr
  BY <1>3 DEF ActiveOf
<1>5. now < engagement.ends /\ (e.expires = Never \/ now < e.expires)
  BY <1>1, <1>2, <1>4 DEF EffectiveExpiry
<1>6. ASSUME NEW d \in entries, d.kind = "deny", d.expires = Never \/ now < d.expires
      PROVE  a \notin d.cidr
  <2>1. EffectiveExpiry(d) > now
    BY <1>1, <1>2, <1>5, <1>6 DEF EffectiveExpiry
  <2>2. d.cidr \in deny
    BY <1>6, <2>1 DEF ActiveOf
  <2> QED
    BY <1>3, <2>2
<1> QED
  BY <1>2, <1>4, <1>5, <1>6 DEF RowsAuthorize

\* What is queued is the part of the request the rows authorize, and the verdict
\* says whether it is all of it.
LEMMA QueueJobPlans ==
  ASSUME ServiceInv, QueueJob
  PROVE  Plan(session')
<1> USE DEF ServiceInv
<1>1. /\ step = "filter" /\ pc = "done" /\ authorized # {}
      /\ session' =
           [jobs |-> {[authorized |-> authorized, rejected |-> rejected,
                       hosts |-> HostCount(authorized)]},
            audit |-> {[verdict |-> IF rejected = {} THEN "authorized" ELSE "partial",
                        hosts |-> HostCount(authorized)]}]
  BY DEF QueueJob
<1>2. /\ UNION authorized = (UNION requested) \cap InScope
      /\ UNION rejected = (UNION requested) \ InScope
  BY <1>1 DEF IInv, LoopInv, Taken
<1>3. authorized \subseteq Blocks /\ (rejected = {} <=> UNION rejected = {})
  BY BlocksAssumption DEF IInv, TypeOK
<1>4. rejected = {} <=> UNION requested = UNION authorized
  BY <1>2, <1>3
<1>5. ASSUME NEW a \in UNION authorized PROVE RowsAuthorize(a)
  <2>1. Evaluate(a) = "authorized"
    BY <1>1, <1>2, <1>5, InScopeVerdict
  <2> QED
    BY <1>1, <2>1, VerdictFromRows
<1> DEFINE job == [authorized |-> authorized, rejected |-> rejected,
                   hosts |-> HostCount(authorized)]
           row == [verdict |-> IF rejected = {} THEN "authorized" ELSE "partial",
                   hosts |-> HostCount(authorized)]
<1>6. Sound(job)
  BY <1>1, <1>3, <1>5 DEF Sound
<1>7. row.hosts = job.hosts /\ (row.verdict = "authorized" <=> UNION requested = UNION job.authorized)
  BY <1>4
<1>8. session'.jobs = {job} /\ session'.audit = {row}
  BY <1>1
<1> HIDE DEF job, row
<1> QED
  BY <1>6, <1>7, <1>8 DEF Plan

\* Every step of the request, of the guard's loops and of the session keeps it.
LEMMA ServiceNextInv == ServiceInv /\ [ServiceNext]_serviceState => ServiceInv'
<1> SUFFICES ASSUME ServiceInv, [ServiceNext]_serviceState PROVE ServiceInv'
  OBVIOUS
<1> USE DEF ServiceInv
<1>1. ASSUME UNCHANGED <<engagement, entries, now, requested>>
      PROVE  \A rows : Plan(rows) => Plan(rows)'
  <2>1. \A a : RowsAuthorize(a) = RowsAuthorize(a)'
    BY <1>1 DEF RowsAuthorize, WindowOpen
  <2> QED
    BY <1>1, <2>1 DEF Plan, Sound
<1>2. ASSUME UNCHANGED vars PROVE IInv'
  BY <1>2, NextIInv
<1>3. CASE LoadGuard
  <2>1. /\ step = "load" /\ pc = "build" /\ WindowOpen /\ step' = "filter"
        /\ allow' = ActiveOf("allow") /\ deny' = ActiveOf("deny")
        /\ UNCHANGED <<pc, allowNets, denyNets, requested, todo, req, covered, pieces,
                       remaining, holes, authorized, rejected>>
        /\ UNCHANGED <<engagement, entries, now, session, db>>
    BY <1>3 DEF LoadGuard, subtraction, result, request
  <2>2. allow' \subseteq Blocks /\ deny' \subseteq Blocks
    BY <2>1, ServiceAssumption DEF ActiveOf
  <2>3. TypeOK'
    BY <2>1, <2>2 DEF IInv, TypeOK
  <2>4. LoopInv'
    BY <2>1 DEF IInv, LoopInv, Taken, Earlier, InScope
  <2>5. WindowOpen' /\ allow' = ActiveOf("allow")' /\ deny' = ActiveOf("deny")'
    BY <2>1 DEF WindowOpen, ActiveOf, EffectiveExpiry
  <2>6. db' = NoRows \/ Plan(db)'
    BY <1>1, <2>1
  <2> QED
    BY <2>1, <2>3, <2>4, <2>5, <2>6 DEF IInv
<1>4. CASE Filter
  <2>1. Next /\ step = "filter" /\ UNCHANGED <<engagement, entries, now, step, session, db>>
    BY <1>4 DEF Filter, serviceVars, request
  <2>2. UNCHANGED <<allow, deny, requested>> /\ IInv'
    BY <2>1, NextKeepsLists, NextIInv
  <2>3. WindowOpen' /\ allow' = ActiveOf("allow")' /\ deny' = ActiveOf("deny")'
    BY <2>1, <2>2 DEF WindowOpen, ActiveOf, EffectiveExpiry
  <2>4. db' = NoRows \/ Plan(db)'
    BY <1>1, <2>1, <2>2
  <2> QED
    BY <2>1, <2>2, <2>3, <2>4
<1>5. CASE QueueJob
  <2>1. step' = "planned" /\ UNCHANGED vars /\ UNCHANGED <<engagement, entries, now, db>>
    BY <1>5 DEF QueueJob, request
  <2>2. UNCHANGED requested
    BY <2>1 DEF vars, guard
  <2>3. Plan(session') /\ IInv'
    BY <1>2, <1>5, <2>1, QueueJobPlans
  <2>4. Plan(session)'
    BY <1>1, <2>1, <2>2, <2>3
  <2>5. db' = NoRows \/ Plan(db)'
    BY <1>1, <2>1, <2>2
  <2> QED
    BY <2>1, <2>3, <2>4, <2>5
<1>6. CASE CommitJob
  <2>1. step = "planned" /\ step' = "committed" /\ db' = session
        /\ UNCHANGED vars /\ UNCHANGED <<engagement, entries, now>>
    BY <1>6 DEF CommitJob, request
  <2>2. UNCHANGED requested
    BY <2>1 DEF vars, guard
  <2>3. Plan(db)'
    BY <1>1, <2>1, <2>2
  <2> QED
    BY <1>2, <2>1, <2>3
<1>7. CASE RefuseInactive \/ RefuseTarget \/ RejectTooLarge \/ RejectOutOfScope
           \/ ReplyCreated \/ DatabaseFails \/ RollBack
  <2>1. /\ step' \in {"raised", "replied"}
        /\ UNCHANGED vars /\ UNCHANGED <<engagement, entries, now, db>>
    BY <1>7 DEF RefuseInactive, RefuseTarget, RejectTooLarge, RejectOutOfScope, Reject,
                ReplyCreated, DatabaseFails, RollBack, request
  <2>2. UNCHANGED requested
    BY <2>1 DEF vars, guard
  <2>3. db' = NoRows \/ Plan(db)'
    BY <1>1, <2>1, <2>2
  <2> QED
    BY <1>2, <2>1, <2>3
<1>8. CASE UNCHANGED serviceState
  <2>1. UNCHANGED vars /\ UNCHANGED <<engagement, entries, now, step, session, db>>
    BY <1>8 DEF serviceState, serviceVars, request
  <2>2. UNCHANGED <<requested, pc, allow, deny>>
    BY <2>1 DEF vars, guard
  <2>3. WindowOpen' = WindowOpen /\ ActiveOf("allow")' = ActiveOf("allow")
        /\ ActiveOf("deny")' = ActiveOf("deny")
    BY <2>1 DEF WindowOpen, ActiveOf, EffectiveExpiry
  <2>4. (db' = NoRows \/ Plan(db)') /\ (step = "planned" => Plan(session)')
    BY <1>1, <2>1, <2>2
  <2> QED
    BY <1>2, <2>1, <2>2, <2>3, <2>4
<1> QED
  BY <1>3, <1>4, <1>5, <1>6, <1>7, <1>8 DEF ServiceNext

-----------------------------------------------------------------------------

\* A network of more than two addresses loses at most its two ends.
LEMMA UsableHostsExist ==
  ASSUME NEW net \in Blocks
  PROVE  IF Cardinality(net) = 1 THEN net # {} ELSE UsableHosts(net) # {}
<1>1. net # {} /\ net \subseteq Addr /\ IsFiniteSet(net) /\ Cardinality(net) \in Nat
  BY BlocksAssumption, FS_Subset, FS_CardinalityType DEF Addr
<1>2. CASE Cardinality(net) \in {1, 2}
  BY <1>1, <1>2 DEF UsableHosts
<1>3. CASE Cardinality(net) \notin {1, 2}
  <2>1. Cardinality(net) # 0
    BY <1>1, FS_EmptySet
  <2>2. PICK low : Lowest(net) \subseteq {low}
    <3>1. \A a, b \in Lowest(net) : a = b
      BY <1>1, ServiceAssumption DEF Lowest
    <3>2. \E low : Lowest(net) \subseteq {low}
      <4>1. CASE Lowest(net) = {}
        BY <4>1
      <4>2. CASE Lowest(net) # {}
        <5>1. PICK a \in Lowest(net) : TRUE
          BY <4>2
        <5>2. Lowest(net) \subseteq {a}
          BY <3>1, <5>1
        <5> QED
          BY <5>2
      <4> QED
        BY <4>1, <4>2
    <3> QED
      BY <3>2
  <2>3. PICK high : Highest(net) \subseteq {high}
    <3>1. \A a, b \in Highest(net) : a = b
      BY <1>1, ServiceAssumption DEF Highest
    <3>2. \E high : Highest(net) \subseteq {high}
      <4>1. CASE Highest(net) = {}
        BY <4>1
      <4>2. CASE Highest(net) # {}
        <5>1. PICK a \in Highest(net) : TRUE
          BY <4>2
        <5>2. Highest(net) \subseteq {a}
          BY <3>1, <5>1
        <5> QED
          BY <5>2
      <4> QED
        BY <4>1, <4>2
    <3> QED
      BY <3>2
  <2>4. IsFiniteSet(net \ {low}) /\ Cardinality(net \ {low}) >= Cardinality(net) - 1
        /\ Cardinality(net \ {low}) \in Nat
    <3>1. IsFiniteSet(net \ {low})
          /\ Cardinality(net \ {low}) \in {Cardinality(net), Cardinality(net) - 1}
      BY <1>1, FS_RemoveElement
    <3>2. Cardinality(net \ {low}) \in Nat
      BY <3>1, FS_CardinalityType
    <3> QED
      BY <1>1, <3>1, <3>2
  <2>5. Cardinality((net \ {low}) \ {high}) >= Cardinality(net) - 2
        /\ IsFiniteSet((net \ {low}) \ {high})
    <3> DEFINE rest == net \ {low}
    <3> HIDE DEF rest
    <3>1. IsFiniteSet(rest \ {high})
          /\ Cardinality(rest \ {high}) \in {Cardinality(rest), Cardinality(rest) - 1}
      <4>1. IsFiniteSet(rest)
        BY <2>4 DEF rest
      <4> QED
        BY <4>1, FS_RemoveElement
    <3>2. Cardinality(rest) >= Cardinality(net) - 1 /\ Cardinality(rest) \in Nat
      BY <2>4 DEF rest
    <3>3. Cardinality(rest \ {high}) >= Cardinality(net) - 2 /\ IsFiniteSet(rest \ {high})
      BY <1>1, <3>1, <3>2
    <3> QED
      BY <3>3 DEF rest
  <2>6. (net \ {low}) \ {high} # {}
    BY <1>1, <1>3, <2>1, <2>5, FS_EmptySet
  <2>7. (net \ {low}) \ {high} \subseteq UsableHosts(net)
    BY <1>3, <2>2, <2>3 DEF UsableHosts
  <2> QED
    BY <1>3, <2>6, <2>7
<1> QED
  BY <1>2, <1>3

\* A run of the job finds hosts, and all of them in the networks of the job.
LEMMA ExpansionInJob ==
  ASSUME NEW nets \in SUBSET Blocks, nets # {}
  PROVE  ExpandTargets(nets) # {} /\ ExpandTargets(nets) \subseteq UNION nets
<1>1. \A n \in nets : UsableHosts(n) \subseteq n
  BY DEF UsableHosts
<1>2. ExpandTargets(nets) \subseteq UNION nets
  BY <1>1 DEF ExpandTargets
<1>3. PICK n \in nets : TRUE
  OBVIOUS
<1>4. ExpandTargets(nets) # {}
  BY <1>3, UsableHostsExist DEF ExpandTargets
<1> QED
  BY <1>2, <1>4

\* A job in the database holds only what the rows authorize, whatever the
\* entries, their expiry and the window of the engagement, and its run expands
\* it to hosts that are all authorized.
THEOREM QueuedInScope == ServiceSpec => []QueuedJobsInScope
<1>1. ASSUME ServiceInv, NEW j \in db.jobs
      PROVE  /\ \A a \in UNION j.authorized : RowsAuthorize(a)
             /\ ExpandTargets(j.authorized) # {}
             /\ ExpandTargets(j.authorized) \subseteq UNION j.authorized
  <2>1. Sound(j)
    BY <1>1 DEF ServiceInv, Plan, NoRows
  <2> QED
    BY <2>1, ExpansionInJob DEF Sound
<1>2. ServiceInv => QueuedJobsInScope
  BY <1>1 DEF QueuedJobsInScope
<1> QED
  BY ServiceInitInv, ServiceNextInv, <1>2, PTL DEF ServiceSpec

\* A job and its audit row reach the database together, with one count of hosts
\* and a verdict that tells whether the whole request was authorized.
THEOREM QueuedIsAudited == ServiceSpec => []JobAuditedAtomically
<1>1. ServiceInv => JobAuditedAtomically
  BY DEF ServiceInv, Plan, NoRows, JobAuditedAtomically
<1> QED
  BY ServiceInitInv, ServiceNextInv, <1>1, PTL DEF ServiceSpec
=============================================================================
