---------------------------- MODULE MCScanRunner ----------------------------
(***************************************************************************)
(* Three hosts, two at a time, of two ports each; connecting to p2 may     *)
(* raise.  The queue holds less than the events of one host.               *)
(***************************************************************************)
EXTENDS ScanRunner

CONSTANTS h1, h2, h3, p1, p2
=============================================================================
