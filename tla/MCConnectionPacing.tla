------------------------- MODULE MCConnectionPacing -------------------------
(***************************************************************************)
(* Four coroutines, two permits, a bucket of a token and a half, and timers *)
(* that differ; a second host may start when the bucket is full again.     *)
(***************************************************************************)
EXTENDS ConnectionPacing
=============================================================================
