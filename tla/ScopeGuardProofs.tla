-------------------------- MODULE ScopeGuardProofs --------------------------
(***************************************************************************)
(* Proofs about ScopeGuard for every laminar family of networks over a     *)
(* finite address space, every scope and every request.                    *)
(***************************************************************************)
EXTENDS ScopeGuard, FiniteSetTheorems, FunctionTheorems, WellFoundedInduction, TLAPS

-----------------------------------------------------------------------------
(***************************************************************************)
(* The CIDR algebra.                                                       *)
(***************************************************************************)

\* collapse_addresses and address_exclude neither lose nor add an address.  A
\* largest block around each address exists because the space is finite: its
\* complement is minimal for strict inclusion.
LEMMA CoverExact ==
  ASSUME NEW S \in SUBSET Addr
  PROVE  UNION Cover(S) = S /\ Cover(S) \subseteq Blocks
<1>1. UNION Cover(S) \subseteq S /\ Cover(S) \subseteq Blocks
  BY DEF Cover
<1>2. ASSUME NEW a \in S PROVE a \in UNION Cover(S)
  <2> DEFINE Around == {b \in Blocks : a \in b /\ b \subseteq S}
             Rests == {S \ b : b \in Around}
  <2>1. {a} \in Around
    BY BlocksAssumption DEF Addr
  <2>2. Rests # {} /\ Rests \subseteq FiniteSubsetsOf(Addr)
    <3>1. FiniteSubsetsOf(Addr) = SUBSET Addr
      BY BlocksAssumption, FS_FiniteSubsetsOfFinite
    <3>2. Rests # {} /\ Rests \subseteq SUBSET Addr
      BY <2>1
    <3> QED
      BY <3>1, <3>2
  <2> HIDE DEF Rests
  <2>3. PICK c \in Rests :
          \A d \in Rests : ~ (<<d, c>> \in StrictSubsetOrdering(Addr))
    BY <2>2, FS_StrictSubsetOrderingWellFounded, WFMin
  <2>4. PICK b \in Around : c = S \ b
    BY <2>3 DEF Rests
  <2>5. ASSUME NEW d \in Blocks, b \subseteq d, d \subseteq S
        PROVE  d = b
    <3>1. d \in Around /\ S \ d \in Rests
      BY <2>4, <2>5 DEF Rests
    <3>2. S \ d \subseteq c /\ S \ d \in SUBSET Addr /\ c \in SUBSET Addr
      BY <2>4, <2>5
    <3>3. S \ d = c
      BY <2>3, <3>1, <3>2 DEF StrictSubsetOrdering
    <3> QED
      BY <3>3, <2>4, <2>5
  <2> QED
    BY <2>4, <2>5 DEF Cover
<1> QED
  BY <1>1, <1>2

\* _intersection returns the shared addresses as at most one network: two
\* networks nest or are disjoint.
LEMMA IntersectionExact ==
  ASSUME NEW a \in Blocks, NEW b \in Blocks
  PROVE  /\ UNION Intersection(a, b) = a \cap b
         /\ Intersection(a, b) \subseteq {a, b}
         /\ \A m, n \in Intersection(a, b) : m = n
<1>1. a \subseteq b \/ b \subseteq a \/ a \cap b = {}
  BY BlocksAssumption
<1>2. a # {} /\ b # {}
  BY BlocksAssumption
<1> QED
  BY <1>1, <1>2 DEF Intersection

\* One hole takes from a piece exactly the addresses they share.
LEMMA CarveExact ==
  ASSUME NEW p \in Blocks, NEW h \in Blocks
  PROVE  UNION Carve(p, h) = p \ h /\ Carve(p, h) \subseteq Blocks
<1> DEFINE inter == Intersection(p, h)
<1>1. /\ UNION inter = p \cap h
      /\ inter \subseteq {p, h}
      /\ \A m, n \in inter : m = n
  BY IntersectionExact
<1>2. CASE inter = {}
  BY <1>1, <1>2 DEF Carve
<1>3. CASE inter = {p}
  BY <1>1, <1>3 DEF Carve
<1>4. CASE inter # {} /\ inter # {p}
  <2>1. PICK n \in inter : inter = {n}
    BY <1>1, <1>4
  <2>2. n = h /\ p \ h \in SUBSET Addr
    BY <2>1, <1>1, <1>4, BlocksAssumption DEF Addr
  <2>3. Carve(p, h) = Cover(p \ h)
    BY <2>1, <2>2, <1>4 DEF Carve
  <2> QED
    BY <2>2, <2>3, CoverExact
<1> QED
  BY <1>2, <1>3, <1>4

\* _collapse of a list keeps every address and returns networks.
LEMMA CollapseExact ==
  ASSUME NEW nets \in SUBSET Blocks
  PROVE  UNION Collapse(nets) = UNION nets /\ Collapse(nets) \subseteq Blocks
<1>1. UNION Of4(nets) \in SUBSET Addr /\ UNION Of6(nets) \in SUBSET Addr
  BY BlocksAssumption DEF Of4, Of6, Addr
<1>2. (UNION Of4(nets)) \cup (UNION Of6(nets)) = UNION nets
  BY BlocksAssumption DEF Of4, Of6
<1> QED
  BY <1>1, <1>2, CoverExact DEF Collapse

\* _collapse of a generator keeps the IPv4 addresses only.
LEMMA CollapseGeneratorExact ==
  ASSUME NEW nets \in SUBSET Blocks
  PROVE  /\ UNION CollapseGenerator(nets) = (UNION nets) \cap Addr4
         /\ CollapseGenerator(nets) \subseteq Blocks
<1>1. UNION Of4(nets) \in SUBSET Addr
  BY DEF Of4, Addr
<1>2. UNION Of4(nets) = (UNION nets) \cap Addr4
  BY BlocksAssumption DEF Of4
<1> QED
  BY <1>1, <1>2, CoverExact DEF CollapseGenerator

-----------------------------------------------------------------------------
(***************************************************************************)
(* The loops of filter_targets.                                            *)
(***************************************************************************)

IInv == TypeOK /\ LoopInv

\* The step of _subtract: one hole takes its addresses from all pieces at once.
LEMMA PunchExact ==
  ASSUME NEW ps \in SUBSET Blocks, NEW h \in Blocks
  PROVE  LET punched == UNION {Carve(p, h) : p \in ps}
         IN  UNION punched = (UNION ps) \ h /\ punched \subseteq Blocks
<1> DEFINE punched == UNION {Carve(p, h) : p \in ps}
<1>1. \A p \in ps : UNION Carve(p, h) = p \ h /\ Carve(p, h) \subseteq Blocks
  BY CarveExact
<1>2. punched \subseteq Blocks
  BY <1>1
<1>3. \A a : a \in UNION punched <=> \E p \in ps : a \in UNION Carve(p, h)
  OBVIOUS
<1>4. \A a : a \in UNION punched <=> a \in UNION ps /\ a \notin h
  BY <1>1, <1>3
<1> QED
  BY <1>2, <1>4

\* The covered blocks of a request hold what it shares with the allow networks.
LEMMA CoveredExact ==
  ASSUME NEW r \in Blocks, NEW nets \in SUBSET Blocks
  PROVE  LET cov == Collapse(UNION {Intersection(r, n) : n \in nets})
         IN  UNION cov = r \cap (UNION nets) /\ cov \subseteq Blocks
<1> DEFINE parts == UNION {Intersection(r, n) : n \in nets}
<1>1. \A n \in nets : /\ UNION Intersection(r, n) = r \cap n
                      /\ Intersection(r, n) \subseteq Blocks
  BY IntersectionExact
<1>2. parts \in SUBSET Blocks
  BY <1>1
<1>3. \A a : a \in UNION parts <=> \E n \in nets : a \in UNION Intersection(r, n)
  OBVIOUS
<1>4. UNION parts = r \cap (UNION nets)
  BY <1>1, <1>3
<1> QED
  BY <1>2, <1>4, CollapseExact

\* filter_targets begins with its invariant.
LEMMA InitIInv == Init => IInv
  BY ListsAssumption
     DEF Init, Fresh, IInv, TypeOK, LoopInv, InScope, Taken, Earlier

\* Every step of the constructor and of the loops keeps the invariant.
LEMMA NextIInv == IInv /\ [Next]_vars => IInv'
<1> SUFFICES ASSUME IInv, [Next]_vars PROVE IInv'
  OBVIOUS
<1> USE DEF IInv, TypeOK
<1>1. CASE BuildGuard
  <2>1. /\ UNION allowNets' = (UNION allow) \cap Addr4 /\ allowNets' \subseteq Blocks
        /\ UNION denyNets' = (UNION deny) \cap Addr4 /\ denyNets' \subseteq Blocks
    BY <1>1, CollapseGeneratorExact DEF BuildGuard
  <2>2. Taken = {} /\ Taken' = {}
    BY <1>1 DEF BuildGuard, LoopInv, Taken
  <2>3. UNION authorized = {} /\ UNION rejected = {}
    BY <1>1, <2>2 DEF BuildGuard, LoopInv
  <2>4. UNION authorized' = {} /\ UNION rejected' = {} /\ todo' = requested'
    BY <1>1, <2>3 DEF BuildGuard, result, LoopInv
  <2>5. TypeOK'
    BY <1>1, <2>1 DEF BuildGuard, subtraction, result
  <2>6. LoopInv'
    BY <1>1, <2>1, <2>2, <2>4 DEF BuildGuard, LoopInv
  <2> QED
    BY <2>5, <2>6
<1>2. ASSUME NEW r \in todo, NextRequest(r) PROVE IInv'
  <2>1. r \in Blocks /\ allowNets \in SUBSET Blocks
    OBVIOUS
  <2>2. UNION covered' = r \cap (UNION allowNets) /\ covered' \subseteq Blocks
    BY <1>2, <2>1, CoveredExact DEF NextRequest
  <2>3. Earlier' = Taken /\ UNION req' = r /\ UNION pieces' = {} /\ InScope' = InScope
    BY <1>2 DEF NextRequest, guard, Earlier, Taken, InScope
  <2>4. TypeOK'
    BY <1>2, <2>1, <2>2 DEF NextRequest, guard, subtraction, result
  <2>5. LoopInv'
    BY <1>2, <2>2, <2>3 DEF NextRequest, guard, result, LoopInv, InScope
  <2> QED
    BY <2>4, <2>5
<1>3. ASSUME NEW b \in covered, CarveBlock(b) PROVE IInv'
  <2>1. UNION remaining' = b /\ UNION covered = b \cup (UNION covered')
    BY <1>3 DEF CarveBlock
  <2>2. InScope' = InScope /\ Earlier' = Earlier
    BY <1>3 DEF CarveBlock, guard, InScope, Earlier
  <2> QED
    BY <1>3, <2>1, <2>2 DEF CarveBlock, guard, result, LoopInv
<1>4. ASSUME NEW h \in holes, PunchHole(h) PROVE IInv'
  <2>1. UNION remaining' = (UNION remaining) \ h /\ remaining' \subseteq Blocks
    BY <1>4, PunchExact DEF PunchHole
  <2>2. UNION holes = h \cup (UNION holes')
    BY <1>4 DEF PunchHole
  <2> QED
    BY <1>4, <2>1, <2>2 DEF PunchHole, guard, result, LoopInv, InScope, Taken, Earlier
<1>5. CASE BlockCarved
  <2>1. UNION pieces' = (UNION pieces) \cup (UNION remaining) /\ UNION holes = {}
    BY <1>5 DEF BlockCarved
  <2>2. InScope' = InScope /\ Earlier' = Earlier
    BY <1>5 DEF BlockCarved, guard, InScope, Earlier
  <2> QED
    BY <1>5, <2>1, <2>2 DEF BlockCarved, guard, subtraction, result, LoopInv
<1>6. CASE AuthorizePieces
  <2>1. UNION pieces' = UNION pieces /\ pieces' \subseteq Blocks
    BY <1>6, CollapseExact DEF AuthorizePieces
  <2>2. UNION pieces = (UNION req) \cap InScope
    BY <1>6 DEF AuthorizePieces, LoopInv
  <2>3. /\ UNION authorized' = (UNION authorized) \cup (UNION pieces')
        /\ UNION remaining' = UNION req /\ UNION holes' = UNION pieces'
    BY <1>6 DEF AuthorizePieces
  <2>4. Taken = Earlier \cup (UNION req)
    BY <1>6 DEF AuthorizePieces, LoopInv, Taken, Earlier
  <2>5. InScope' = InScope /\ Earlier' = Earlier /\ Taken' = Taken
    BY <1>6 DEF AuthorizePieces, guard, InScope, Earlier, Taken
  <2> QED
    BY <1>6, <2>1, <2>2, <2>3, <2>4, <2>5 DEF AuthorizePieces, guard, LoopInv
<1>7. CASE RejectRest
  <2>1. UNION rejected' = (UNION rejected) \cup (UNION remaining) /\ UNION holes = {}
    BY <1>7 DEF RejectRest
  <2>2. Taken = Earlier \cup (UNION req)
    BY <1>7 DEF RejectRest, LoopInv, Taken, Earlier
  <2>3. InScope' = InScope /\ Taken' = Taken
    BY <1>7 DEF RejectRest, guard, InScope, Taken
  <2> QED
    BY <1>7, <2>1, <2>2, <2>3 DEF RejectRest, guard, subtraction, LoopInv
<1>8. CASE CollapseResult
  <2>1. /\ UNION authorized' = UNION authorized /\ authorized' \subseteq Blocks
        /\ UNION rejected' = UNION rejected /\ rejected' \subseteq Blocks
    BY <1>8, CollapseExact DEF CollapseResult
  <2> QED
    BY <1>8, <2>1
       DEF CollapseResult, guard, subtraction, LoopInv, InScope, Taken, Earlier
<1>9. CASE UNCHANGED vars
  BY <1>9
     DEF vars, guard, subtraction, result, LoopInv, InScope, Taken, Earlier
<1> QED
  BY <1>1, <1>2, <1>3, <1>4, <1>5, <1>6, <1>7, <1>8, <1>9 DEF Next

-----------------------------------------------------------------------------
(***************************************************************************)
(* The theorems.                                                           *)
(***************************************************************************)

\* The networks filter_targets handles are always networks, and each local
\* variable of its loops accounts for exactly the addresses LoopInv names.
THEOREM LoopsCorrect == Spec => [](TypeOK /\ LoopInv)
  BY InitIInv, NextIInv, PTL DEF Spec, IInv

\* evaluate and filter_targets agree on IPv4: the addresses between the
\* collapsed networks are those whose verdict is "authorized".
LEMMA InScopeVerdict ==
  ASSUME IInv, pc # "build", NEW a
  PROVE  a \in InScope <=> a \in Addr4 /\ Evaluate(a) = "authorized"
<1>1. /\ UNION allowNets = (UNION allow) \cap Addr4
      /\ UNION denyNets = (UNION deny) \cap Addr4
  BY DEF IInv, LoopInv
<1>2. a \in InScope <=> a \in Addr4 /\ a \in UNION allow /\ a \notin UNION deny
  BY <1>1 DEF InScope
<1>3. Evaluate(a) = "authorized" <=> a \in UNION allow /\ a \notin UNION deny
  BY DEF Evaluate
<1> QED
  BY <1>2, <1>3

\* Nothing out of scope is ever authorized: every address filter_targets puts
\* into its authorized result is one that evaluate authorizes.
THEOREM AuthorizedSafe == Spec => []AuthorizedInScope
<1>1. IInv => AuthorizedInScope
  <2> SUFFICES ASSUME IInv, NEW a \in UNION authorized
               PROVE  Evaluate(a) = "authorized"
    BY DEF AuthorizedInScope
  <2>1. a \in InScope
    BY DEF IInv, LoopInv
  <2>2. pc # "build"
    BY DEF IInv, LoopInv, Taken
  <2> QED
    BY <2>1, <2>2, InScopeVerdict
<1> QED
  BY <1>1, LoopsCorrect, PTL DEF IInv

\* The authorized and the rejected networks partition the requested addresses.
THEOREM ResultSafe == Spec => []ResultPartitions
<1>1. IInv => ResultPartitions
  <2> SUFFICES ASSUME IInv, pc = "done"
               PROVE  /\ (UNION authorized) \cup (UNION rejected) = UNION requested
                      /\ (UNION authorized) \cap (UNION rejected) = {}
    BY DEF ResultPartitions
  <2>1. Taken = UNION requested
    BY DEF IInv, LoopInv, Taken
  <2> QED
    BY <2>1 DEF IInv, LoopInv
<1> QED
  BY <1>1, LoopsCorrect, PTL DEF IInv

\* The collapsed networks are disjoint: each is maximal among those that hold
\* only the addresses collapsed, and networks nest or are disjoint.
LEMMA CollapseDisjoint ==
  ASSUME NEW nets \in SUBSET Blocks, NEW b \in Collapse(nets), NEW c \in Collapse(nets), b # c
  PROVE  b \cap c = {}
<1>1. \A S : \A m, n \in Cover(S) : m = n \/ m \cap n = {}
  BY BlocksAssumption DEF Cover
<1>2. CASE b \in Cover(UNION Of4(nets)) /\ c \in Cover(UNION Of4(nets))
  BY <1>1, <1>2
<1>3. CASE b \in Cover(UNION Of6(nets)) /\ c \in Cover(UNION Of6(nets))
  BY <1>1, <1>3
<1>4. \A m \in Cover(UNION Of4(nets)), n \in Cover(UNION Of6(nets)) : m \cap n = {}
  <2>1. \A m \in Cover(UNION Of4(nets)), n \in Cover(UNION Of6(nets)) :
          m \subseteq Addr4 /\ n \subseteq Addr6
    BY DEF Cover, Of4, Of6
  <2>2. Addr4 \cap Addr6 = {}
    BY BlocksAssumption
  <2> QED
    BY <2>1, <2>2
<1>5. /\ b \in Cover(UNION Of4(nets)) \/ b \in Cover(UNION Of6(nets))
      /\ c \in Cover(UNION Of4(nets)) \/ c \in Cover(UNION Of6(nets))
  BY DEF Collapse
<1>6. CASE b \in Cover(UNION Of4(nets)) /\ c \in Cover(UNION Of6(nets))
  BY <1>4, <1>6
<1>7. CASE b \in Cover(UNION Of6(nets)) /\ c \in Cover(UNION Of4(nets))
  BY <1>4, <1>7
<1> QED
  BY <1>2, <1>3, <1>5, <1>6, <1>7

\* The sum of the sizes of disjoint networks is the number of their addresses.
LEMMA DisjointCounted ==
  ASSUME NEW nets \in SUBSET Blocks, \A b, c \in nets : b # c => b \cap c = {}
  PROVE  HostCount(nets) = Cardinality(UNION nets)
<1> DEFINE pairs == {pair \in nets \X Addr : pair[2] \in pair[1]}
           all == UNION nets
           f == [pair \in pairs |-> pair[2]]
<1>1. all \subseteq Addr
  BY BlocksAssumption DEF Addr
<1>2. IsFiniteSet(all)
  <2> HIDE DEF all
  <2> QED
    BY <1>1, BlocksAssumption, FS_Subset
<1>3. f \in [pairs -> all]
  OBVIOUS
<1>4. \A x, y \in pairs : f[x] = f[y] => x = y
  <2> SUFFICES ASSUME NEW x \in pairs, NEW y \in pairs, x[2] = y[2]
               PROVE  x = y
    OBVIOUS
  <2>1. x[1] \in nets /\ y[1] \in nets /\ x[2] \in x[1] \cap y[1]
    OBVIOUS
  <2>2. x[1] = y[1]
    BY <2>1
  <2> QED
    BY <2>2
<1>5. \A a \in all : \E x \in pairs : f[x] = a
  <2> SUFFICES ASSUME NEW b \in nets, NEW a \in b
               PROVE  \E x \in pairs : f[x] = a
    OBVIOUS
  <2>1. <<b, a>> \in pairs
    BY <1>1
  <2> QED
    BY <2>1
<1>6. f \in Bijection(pairs, all)
  <2> HIDE DEF f, pairs, all
  <2> QED
    BY <1>3, <1>4, <1>5 DEF Bijection, Injection, Surjection, IsInjective
<1>7. ExistsBijection(pairs, all)
  BY <1>6 DEF ExistsBijection
<1>8. Cardinality(pairs) = Cardinality(all)
  <2> HIDE DEF f, pairs, all
  <2>1. ExistsBijection(all, pairs)
    BY <1>7, Fun_ExistsBijSymmetric
  <2> QED
    BY <1>2, <2>1, FS_Bijection
<1> QED
  BY <1>8 DEF HostCount

\* The networks of the final result are disjoint.
Disjoint == pc = "done" => \A b, c \in authorized : b # c => b \cap c = {}

\* authorized_host_count, which the cap is compared with, is the number of
\* authorized addresses, also for overlapping requests (guard.py:88-89).
THEOREM CountIsExact == Spec => []HostCountExact
<1>1. Init => Disjoint
  BY DEF Init, Fresh, Disjoint
<1>2. IInv /\ Disjoint /\ [Next]_vars => Disjoint'
  <2> SUFFICES ASSUME IInv, Disjoint, [Next]_vars, pc' = "done",
                      NEW b \in authorized', NEW c \in authorized', b # c
               PROVE  b \cap c = {}
    BY DEF Disjoint
  <2>1. CASE CollapseResult
    <3>1. authorized' = Collapse(authorized) /\ authorized \in SUBSET Blocks
      BY <2>1 DEF CollapseResult, IInv, TypeOK
    <3> QED
      BY <3>1, CollapseDisjoint
  <2>2. CASE UNCHANGED vars
    BY <2>2 DEF vars, result, Disjoint
  <2> QED
    BY <2>1, <2>2 DEF Next, BuildGuard, NextRequest, CarveBlock, PunchHole, BlockCarved,
       AuthorizePieces, RejectRest
<1>3. IInv /\ Disjoint => HostCountExact
  BY DisjointCounted DEF IInv, TypeOK, Disjoint, HostCountExact
<1>4. Spec => [](IInv /\ Disjoint)
  BY InitIInv, NextIInv, <1>1, <1>2, PTL DEF Spec
<1> QED
  BY <1>3, <1>4, PTL

\* No requested IPv4 address that evaluate would authorize is left out.
THEOREM CompleteSafe == Spec => []CompleteFor4
<1>1. IInv => CompleteFor4
  <2> SUFFICES ASSUME IInv, pc = "done", NEW a \in (UNION requested) \cap Addr4,
                      Evaluate(a) = "authorized"
               PROVE  a \in UNION authorized
    BY DEF CompleteFor4
  <2>1. Taken = UNION requested
    BY DEF IInv, LoopInv, Taken
  <2>2. a \in InScope
    BY InScopeVerdict
  <2> QED
    BY <2>1, <2>2 DEF IInv, LoopInv
<1> QED
  BY <1>1, LoopsCorrect, PTL DEF IInv
=============================================================================
