--------------------------- MODULE MCHostAnalysis ---------------------------
(***************************************************************************)
(* Two jobs over three hosts: on two of them nothing is open, so that their *)
(* rows stay locked; the third has an HTTP and a TLS port, of which the    *)
(* jobs have not found the same.                                           *)
(***************************************************************************)
EXTENDS HostAnalysis

CONSTANTS j1, j2, h1, h2, h3

MCOpen == [j \in Jobs |-> [h \in Hosts |->
  CASE h # h3 -> {} [] j = j1 -> {1, 2} [] OTHER -> {2}]]
MCErring == [j \in Jobs |-> IF j = j1 THEN {} ELSE {h3}]
MCBanner == [p \in Ports |-> IF p = 1 THEN Nothing ELSE "imap"]
MCPage == [p \in Ports |-> {"nginx", "wordy"}]
MCCert == [p \in Ports |-> IF p = 1 THEN "odd" ELSE "good"]
Signature(field, ports, matches, versions, service, confidence, long) ==
  [field |-> field, ports |-> ports, matches |-> matches, versions |-> versions,
   service |-> service, confidence |-> confidence, long |-> long]
MCSignatures == <<
  Signature("page", {}, {"nginx"}, {}, "http", 50, FALSE),
  Signature("page", {1}, {"nginx"}, {"nginx"}, "http", 95, FALSE),
  Signature("page", {}, {"nginx"}, {}, "http", 99, FALSE),
  Signature("banner", {}, {"imap"}, {}, "imaps", 40, FALSE),
  Signature("banner", {}, {"imap"}, {}, "imap", 40, FALSE),
  Signature("page", {}, {"wordy"}, {"wordy"}, "http", 95, TRUE)>>
MCCountry == [j \in Jobs |-> IF j = j1 THEN {"country"} ELSE {Nothing}]
MCPortService == [p \in {1} |-> "https"]
=============================================================================
