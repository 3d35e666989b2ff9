----------------------------- MODULE ScopeGuard -----------------------------
(***************************************************************************)
(* ScopeGuard of app/scope/guard.py: the constructor, evaluate, and the    *)
(* loops of filter_targets with the _subtract calls they make.             *)
(*                                                                         *)
(* Python lists of networks are sets here.  Their order decides only the   *)
(* order of the result, so the loops take the elements in any order.       *)
(***************************************************************************)
EXTENDS CidrBlocks

CONSTANTS
  AllowLists,   \* the sets of CIDRs the active allow entries may have
  DenyLists,    \* the sets of CIDRs the active deny entries may have
  RequestLists  \* the sets of networks a caller may request

ASSUME ListsAssumption ==
  /\ AllowLists \subseteq SUBSET Blocks
  /\ DenyLists \subseteq SUBSET Blocks
  /\ RequestLists \subseteq SUBSET Blocks

VARIABLES
  pc,          \* where filter_targets is
  allow,       \* self._allow: the CIDRs of the active allow entries
  deny,        \* self._deny
  allowNets,   \* self._allow_nets
  denyNets,    \* self._deny_nets
  requested,   \* req_nets
  todo,        \* the requests the outer loop has not reached
  req,         \* the current request (a set of at most one network)
  covered,     \* the covered blocks not yet carved
  pieces,      \* authorized_pieces
  remaining,   \* _subtract's remaining pieces
  holes,       \* _subtract's holes still to come
  authorized,  \* result.authorized
  rejected     \* result.rejected

guard == <<allow, deny, allowNets, denyNets, requested>>
subtraction == <<remaining, holes>>
result == <<authorized, rejected>>
vars == <<pc, guard, todo, req, covered, pieces, subtraction, result>>

Verdict == {"authorized", "denied", "not_in_allowlist"}

\* The verdict on a single host: deny entries are tried before allow entries.
Evaluate(a) ==
  IF \E n \in deny : a \in n THEN "denied"
  ELSE IF \E n \in allow : a \in n THEN "authorized"
  ELSE "not_in_allowlist"

\* The locals of filter_targets before its first step.
Fresh ==
  /\ pc = "build"
  /\ todo = requested
  /\ allowNets = {} /\ denyNets = {}
  /\ req = {} /\ covered = {} /\ pieces = {}
  /\ remaining = {} /\ holes = {}
  /\ authorized = {} /\ rejected = {}

Init ==
  /\ allow \in AllowLists
  /\ deny \in DenyLists
  /\ requested \in RequestLists
  /\ Fresh

\* The constructor collapses the CIDRs of both entry lists, from generators.
BuildGuard ==
  /\ pc = "build"
  /\ allowNets' = CollapseGenerator(allow)
  /\ denyNets' = CollapseGenerator(deny)
  /\ pc' = "next"
  /\ UNCHANGED <<allow, deny, requested, todo, req, covered, pieces, subtraction, result>>

\* The head of the outer loop: the parts of r some allow network covers.
NextRequest(r) ==
  /\ pc = "next"
  /\ r \in todo
  /\ todo' = todo \ {r}
  /\ req' = {r}
  /\ covered' = Collapse(UNION {Intersection(r, n) : n \in allowNets})
  /\ pieces' = {}
  /\ pc' = "carve"
  /\ UNCHANGED <<guard, subtraction, result>>

\* _subtract(block, self._deny_nets) begins for one covered block.
CarveBlock(b) ==
  /\ pc = "carve"
  /\ b \in covered
  /\ covered' = covered \ {b}
  /\ remaining' = {b}
  /\ holes' = denyNets
  /\ pc' = "carving"
  /\ UNCHANGED <<guard, todo, req, pieces, result>>

\* Mutant of PunchHole: the new list of pieces starts as a copy of the old one.
PunchHoleAppends(h) ==
  /\ pc \in {"carving", "rejecting"}
  /\ h \in holes
  /\ holes' = holes \ {h}
  /\ remaining' = remaining \cup UNION {Carve(p, h) : p \in remaining}
  /\ UNCHANGED <<pc, guard, todo, req, covered, pieces, result>>

\* One iteration of _subtract's outer loop.
PunchHole(h) ==
  /\ pc \in {"carving", "rejecting"}
  /\ h \in holes
  /\ holes' = holes \ {h}
  /\ remaining' = UNION {Carve(p, h) : p \in remaining}
  /\ UNCHANGED <<pc, guard, todo, req, covered, pieces, result>>

\* Mutant of BlockCarved: the pieces of earlier blocks are forgotten.
BlockCarvedOverwrites ==
  /\ pc = "carving"
  /\ holes = {}
  /\ pieces' = remaining
  /\ pc' = "carve"
  /\ UNCHANGED <<guard, todo, req, covered, subtraction, result>>

\* _subtract returns to the loop over the covered blocks.
BlockCarved ==
  /\ pc = "carving"
  /\ holes = {}
  /\ pieces' = pieces \cup remaining
  /\ pc' = "carve"
  /\ UNCHANGED <<guard, todo, req, covered, subtraction, result>>

\* Mutant of AuthorizePieces: what no allow network covers is rejected, what a
\* deny entry carves out is not.
AuthorizePiecesForgetDeny ==
  /\ pc = "carve"
  /\ covered = {}
  /\ pieces' = Collapse(pieces)
  /\ authorized' = authorized \cup pieces'
  /\ remaining' = req
  /\ holes' = allowNets
  /\ pc' = "rejecting"
  /\ UNCHANGED <<guard, todo, req, covered, rejected>>

\* The authorized pieces of the request are final; _subtract(req, pieces) begins.
AuthorizePieces ==
  /\ pc = "carve"
  /\ covered = {}
  /\ pieces' = Collapse(pieces)
  /\ authorized' = authorized \cup pieces'
  /\ remaining' = req
  /\ holes' = pieces'
  /\ pc' = "rejecting"
  /\ UNCHANGED <<guard, todo, req, covered, rejected>>

\* _subtract returns what is left of the request: the rejected networks.
RejectRest ==
  /\ pc = "rejecting"
  /\ holes = {}
  /\ rejected' = rejected \cup remaining
  /\ pc' = "next"
  /\ UNCHANGED <<guard, todo, req, covered, pieces, subtraction, authorized>>

\* Mutant of CollapseResult: overlapping requests keep their overlapping parts.
CollapseResultForgotten ==
  /\ pc = "next"
  /\ todo = {}
  /\ pc' = "done"
  /\ UNCHANGED <<guard, todo, req, covered, pieces, subtraction, result>>

\* After the last request both results are collapsed across the requests.
CollapseResult ==
  /\ pc = "next"
  /\ todo = {}
  /\ authorized' = Collapse(authorized)
  /\ rejected' = Collapse(rejected)
  /\ pc' = "done"
  /\ UNCHANGED <<guard, todo, req, covered, pieces, subtraction>>

Next ==
  \/ BuildGuard
  \/ \E r \in todo : NextRequest(r)
  \/ \E b \in covered : CarveBlock(b)
  \/ \E h \in holes : PunchHole(h)
  \/ BlockCarved
  \/ AuthorizePieces
  \/ RejectRest
  \/ CollapseResult

Spec == Init /\ [][Next]_vars

-----------------------------------------------------------------------------

TypeOK ==
  /\ pc \in {"build", "next", "carve", "carving", "rejecting", "done"}
  /\ allow \subseteq Blocks /\ deny \subseteq Blocks
  /\ allowNets \subseteq Blocks /\ denyNets \subseteq Blocks
  /\ requested \subseteq Blocks /\ todo \subseteq requested
  /\ req \subseteq Blocks
  /\ covered \subseteq Blocks /\ pieces \subseteq Blocks
  /\ remaining \subseteq Blocks /\ holes \subseteq Blocks
  /\ authorized \subseteq Blocks /\ rejected \subseteq Blocks

\* The addresses the collapsed networks of the guard let through.
InScope == (UNION allowNets) \ (UNION denyNets)

\* The addresses of the requests taken so far, and of those before the current.
Taken == UNION (requested \ todo)
Earlier == UNION ((requested \ todo) \ req)

\* The loop invariants of filter_targets.  Each local variable accounts for
\* the addresses it stands for: the pieces carved, the piece being carved less
\* the holes to come, and the covered blocks to come are together the part of
\* the request that is in scope; what _subtract(req, pieces) leaves is the rest.
LoopInv ==
  /\ pc = "build" => todo = requested
  /\ pc # "build" => /\ UNION allowNets = (UNION allow) \cap Addr4
                     /\ UNION denyNets = (UNION deny) \cap Addr4
  /\ pc = "done" => todo = {}
  /\ pc \in {"carve", "carving", "rejecting"} => req \subseteq requested \ todo
  /\ UNION authorized =
       (IF pc \in {"carve", "carving"} THEN Earlier ELSE Taken) \cap InScope
  /\ UNION rejected =
       (IF pc \in {"carve", "carving", "rejecting"} THEN Earlier ELSE Taken) \ InScope
  /\ pc = "carve" =>
       (UNION pieces) \cup ((UNION covered) \ (UNION denyNets))
         = (UNION req) \cap InScope
  /\ pc = "carving" =>
       (UNION pieces) \cup ((UNION remaining) \ (UNION holes))
         \cup ((UNION covered) \ (UNION denyNets)) = (UNION req) \cap InScope
  /\ pc = "rejecting" =>
       (UNION remaining) \ (UNION holes) = (UNION req) \ InScope

\* The hard promise of the guard: whatever filter_targets has put into the
\* authorized result, at any point of its loops, evaluate would authorize
\* address by address.  The two use different data (collapsed networks against
\* the raw entry lists), and deny wins in both.
AuthorizedInScope == \A a \in UNION authorized : Evaluate(a) = "authorized"

\* The result partitions the request: no requested address is lost, none is
\* added, and none is both authorized and rejected, also when requests overlap.
ResultPartitions ==
  pc = "done" =>
    /\ (UNION authorized) \cup (UNION rejected) = UNION requested
    /\ (UNION authorized) \cap (UNION rejected) = {}

\* For IPv4 the guard is also complete: a requested address that evaluate
\* would authorize is in the authorized result.
CompleteFor4 ==
  pc = "done" =>
    \A a \in (UNION requested) \cap Addr4 :
      Evaluate(a) = "authorized" => a \in UNION authorized

\* authorized_host_count counts every authorized address once, so the per-job
\* cap is applied to the number of addresses, also for overlapping requests.
HostCountExact ==
  pc = "done" => HostCount(authorized) = Cardinality(UNION authorized)

\* guard.py:14-17: a target is in scope iff the active allow blocks hold it
\* and no active deny block does.  filter_targets promises this for every
\* version of address it accepts.
InScopeIsAuthorized ==
  pc = "done" =>
    \A a \in UNION requested :
      Evaluate(a) = "authorized" => a \in UNION authorized
=============================================================================
