--------------------------- MODULE MCJobLifecycle ---------------------------
(***************************************************************************)
(* Requests race for job j1; callers without a claim run job j2.           *)
(***************************************************************************)
EXTENDS JobLifecycle

CONSTANTS j1, j2

MCTarget == [r \in Runs |-> IF r \in Requests THEN j1 ELSE j2]
=============================================================================
