---------------------------- MODULE MCScopeGuard ----------------------------
(***************************************************************************)
(* A small address space for ScopeGuard: the CIDR tree of Width4 IPv4      *)
(* addresses and one IPv6 address, numbered after them.                    *)
(***************************************************************************)
EXTENDS ScopeGuard

CONSTANTS
  Width4,       \* number of IPv4 addresses, a power of two
  MaxAllow,     \* active allow entries
  MaxDeny,      \* active deny entries
  MaxRequests   \* requested networks

MCAddr4 == 0 .. Width4 - 1
MCAddr6 == {Width4}

\* The aligned runs of 1, 2 and 4 IPv4 addresses, and the IPv6 address.
MCBlocks ==
  {MCAddr6} \cup
  UNION {{(i * w) .. (i * w + w - 1) : i \in 0 .. (Width4 \div w) - 1}
         : w \in {v \in {1, 2, 4} : v <= Width4}}

\* The sets of one up to n networks.
Pick(n) == {{f[i] : i \in 1 .. n} : f \in [1 .. n -> MCBlocks]}

MCAllowLists == {{}} \cup Pick(MaxAllow)
MCDenyLists == {{}} \cup Pick(MaxDeny)
MCRequestLists == Pick(MaxRequests)
=============================================================================
