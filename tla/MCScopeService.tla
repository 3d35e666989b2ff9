--------------------------- MODULE MCScopeService ---------------------------
(***************************************************************************)
(* One engagement, open from time 1 to 2, with up to MaxRows scope rows    *)
(* over four or eight IPv4 addresses.                                      *)
(***************************************************************************)
EXTENDS ScopeService

CONSTANTS
  Width4,   \* number of IPv4 addresses, a power of two
  MaxRows   \* scope rows of the engagement

MCAddr4 == 0 .. Width4 - 1

MCBlocks ==
  UNION {{(i * w) .. (i * w + w - 1) : i \in 0 .. (Width4 \div w) - 1}
         : w \in {v \in {1, 2, 4, 8} : v <= Width4}}

MCTimes == 0 .. 3

MCEngagements == [active: BOOLEAN, starts: {1}, ends: {2}]

MCRows == [cidr: MCBlocks, kind: {"allow", "deny"}, expires: {1, Never}]

MCRowLists == {{}} \cup {{f[i] : i \in 1 .. MaxRows} : f \in [1 .. MaxRows -> MCRows]}

MCRequestLists == {{b} : b \in MCBlocks}
=============================================================================
