----------------------------- MODULE CidrBlocks -----------------------------
(***************************************************************************)
(* The CIDR algebra of app/scope/guard.py.                                 *)
(*                                                                         *)
(* An address is an element of Addr4 or Addr6 and a network is the set of  *)
(* addresses it holds; Blocks is the family of all networks.  The module   *)
(* text of guard.py names the one fact everything rests on: two CIDR       *)
(* blocks are disjoint or one contains the other (BlocksAssumption).       *)
(***************************************************************************)
EXTENDS Naturals, FiniteSets

CONSTANTS
  Addr4,   \* the IPv4 addresses
  Addr6,   \* the IPv6 addresses
  Blocks   \* the CIDR networks: nonempty sets of addresses of one version

Addr == Addr4 \cup Addr6

\* A host network (/32 or /128) exists for every address, and networks nest.
ASSUME BlocksAssumption ==
  /\ IsFiniteSet(Addr)
  /\ Addr4 \cap Addr6 = {}
  /\ \A b \in Blocks : b # {} /\ (b \subseteq Addr4 \/ b \subseteq Addr6)
  /\ \A a \in Addr : {a} \in Blocks
  /\ \A b, c \in Blocks : b \subseteq c \/ c \subseteq b \/ b \cap c = {}

Of4(nets) == {n \in nets : n \subseteq Addr4}
Of6(nets) == {n \in nets : n \subseteq Addr6}

\* The fewest networks that hold exactly the addresses S: the maximal blocks
\* inside S.  ipaddress.collapse_addresses returns them for a list of networks
\* of one version, and address_exclude returns them for a set difference.
Cover(S) ==
  {b \in Blocks : /\ b \subseteq S
                  /\ \A c \in Blocks : b \subseteq c /\ c \subseteq S => c = b}

\* Mutant of Intersection: only the first network may be the smaller one.
IntersectionOneWay(a, b) == {n \in {a} : n \subseteq b}

\* The smaller of two nested networks, nothing (the code's None) otherwise.
Intersection(a, b) ==
  {n \in {a, b} : n \subseteq a /\ n \subseteq b}

\* One piece of _subtract's inner loop: what is left of `piece` outside `hole`.
Carve(piece, hole) ==
  LET inter == Intersection(piece, hole)
  IN  IF inter = {} THEN {piece}
      ELSE IF inter = {piece} THEN {}
      ELSE UNION {Cover(piece \ n) : n \in inter}

\* _collapse of a list: both versions are collapsed, IPv4 first.
Collapse(nets) == Cover(UNION Of4(nets)) \cup Cover(UNION Of6(nets))

\* _collapse of a generator, the form __init__ uses: the IPv4 comprehension
\* exhausts the generator, so the IPv6 comprehension finds nothing.
CollapseGenerator(nets) == Cover(UNION Of4(nets))

\* ScopeResult.authorized_host_count: num_addresses summed over the networks, so
\* that an address counts once for every network that holds it.
HostCount(nets) == Cardinality({pair \in nets \X Addr : pair[2] \in pair[1]})
=============================================================================
