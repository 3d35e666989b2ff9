--------------------------- MODULE MCSearchQuery ---------------------------
(***************************************************************************)
(* Every query of up to MaxLexemes lexemes, and every one or two of a list *)
(* of well-formed terms, over five services of two engagements.            *)
(***************************************************************************)
EXTENDS SearchQuery

CONSTANTS MaxLexemes, e1, e2

MCDigit == [d \in {"0", "2", "4"} |-> CASE d = "0" -> 0 [] d = "2" -> 2 [] OTHER -> 4]

MCStopWords == {<<"the">>}

MCNetwork == [v \in {<<"a1">>, <<"a2">>, <<"n12">>} |->
  CASE v = <<"a1">> -> {"a1"} [] v = <<"a2">> -> {"a2"} [] OTHER -> {"a1", "a2"}]

Service(e, ip, port, asn, product, cpe, tls, words) ==
  [engagement |-> e, ip |-> ip, num |-> [port |-> {port}, asn |-> asn],
   txt |-> [f \in TextFields \cup {"country"} |->
              CASE f = "cpe" -> {cpe} [] OTHER -> product],
   transport |-> <<"tcp">>, tags |-> product, tls |-> tls, words |-> words]

MCRows == {
  Service(e1, "a1", 22, {}, {}, <<>>, FALSE, {}),
  Service(e1, "a1", 24, {4}, {<<"nginx">>}, <<"nginx">>, TRUE, {<<"nginx">>}),
  Service(e1, "a2", 4, {2}, {<<"admin", "-", "nginx">>}, <<"nginx">>, FALSE, {<<"admin">>, <<"nginx">>}),
  Service(e1, "a3", 42, {2}, {<<"admin">>}, <<>>, TRUE, {<<"admin">>}),
  Service(e2, "a1", 22, {4}, {<<"nginx">>}, <<"nginx">>, TRUE, {<<"nginx">>, <<"admin">>})}

Lexemes == {" ", "newline", "\"", "'", "-", ":", ">", "nginx"}

Texts == {<<"nginx">>, <<"\"", "admin", " ", "nginx", "\"">>, <<"the">>, <<"or">>,
          <<"'", "-", "nginx", "'">>, <<"admin">>}

Filter(f, v) == <<f, ":">> \o v
FilterTerms ==
  {Filter("port", v) : v \in {<<"2", "2">>, <<">", "2", "4">>, <<"<=", "4">>, <<">=", "2", "4">>, <<"<", "4">>,
                              <<"4", "-", "2", "4">>, <<"2", "4", "-", "4">>, <<"-", "4">>, <<"\"", " ", "4", "\"">>,
                              <<"4", "-">>}}
  \cup {Filter("asn", v) : v \in {<<"2">>, <<"2", "-", "4">>, <<"4", "-", "2">>}}
  \cup {Filter("product", v) : v \in {<<"nginx">>, <<"\"", "admin", "-", "nginx", "\"">>, <<">", "nginx">>}}
  \cup {Filter(f, <<"nginx">>) : f \in {"country", "cpe", "tag", "ip", "transport"}}
  \cup {Filter(f, v) : f \in PresenceFields, v \in {<<>>, <<"no">>}}
  \cup {Filter(f, v) : f \in {"ip", "net"}, v \in {<<"a1">>, <<"n12">>}}
  \cup {Filter("transport", <<"tcp">>), Filter("bogus", <<"2">>)}

Terms == LET positive == Texts \cup FilterTerms
         IN  positive \cup {<<"-">> \o t : t \in positive}

MCQueries == BoundedSeq(Lexemes, MaxLexemes) \cup Terms \cup {s \o <<" ">> \o t : s \in Terms, t \in Texts \cup FilterTerms}
=============================================================================
