---------------------------- MODULE SearchQuery ----------------------------
(***************************************************************************)
(* One request to the search endpoint (app/search/, routers/search.py):    *)
(* the lexer's loop, the checks of the parser, and the meaning in SQL of   *)
(* the statement the compiler builds.                                      *)
(*                                                                         *)
(* A query is a sequence of lexemes: words, digits, spaces and marks.      *)
(* Lexemes have no case: the code compares without case everywhere but in  *)
(* tags.  A column holds the set of its values: none is NULL.              *)
(***************************************************************************)
EXTENDS Integers, SequencesExt

CONSTANTS
  Queries,    \* the query strings of the instance
  Digit,      \* the lexemes that are digits, with their values
  StopWords,  \* the words the English dictionary drops
  Network,    \* the texts that are CIDRs, with their addresses
  Rows,       \* services joined with their hosts
  Engagement  \* the engagement of the request

ASSUME QueriesAssumption == \A q \in Queries : q \in Seq(ToSet(q))

VARIABLES query, i, tokens, reply

vars == <<query, i, tokens, reply>>

Space == {" ", "newline"}
Quotes == {"\"", "'"}
Ops == {">=", "<=", ">", "<"}
Marks == Space \cup Quotes \cup Ops \cup {"-", ":"}

\* What ends a bare word or the name of a field; a newline does not.
Delimiters == {":", " "}

NumericFields == {"port", "asn"}
TextFields == {"product", "version", "banner", "org", "os", "hostname", "city", "service", "cpe"}
NetFields == {"net", "cidr"}
PresenceFields == {"has_tls", "has_cpe"}
KnownFields ==
  NumericFields \cup TextFields \cup NetFields \cup PresenceFields
    \cup {"transport", "country", "tag", "ip"}

Init ==
  /\ query \in Queries
  /\ i = 1
  /\ tokens = <<>>
  /\ reply = [status |-> "none", rows |-> {}]

-----------------------------------------------------------------------------
(* The lexer.  One action is one iteration of the loop.                    *)

FirstOf(S, k) == Min({m \in k .. Len(query) : query[m] \in S} \cup {Len(query) + 1})

Lexing == i <= Len(query)
AtTerm == Lexing /\ query[i] \notin Space

\* Where the term begins, behind its negation.
From == IF query[i] = "-" THEN i + 1 ELSE i

Emit(kind, field, op, value) ==
  tokens' = Append(tokens, [negate |-> query[i] = "-", kind |-> kind,
                            field |-> field, op |-> op, value |-> value])

SkipSpace ==
  /\ Lexing /\ ~ AtTerm
  /\ i' = i + 1
  /\ UNCHANGED <<query, tokens, reply>>

\* A dash at the end of the query stands for nothing.
DropDash ==
  /\ AtTerm /\ From > Len(query)
  /\ i' = From
  /\ UNCHANGED <<query, tokens, reply>>

\* Mutant of EndOfQuoted: a missing quote is taken to stand in the last place.
EndOfQuotedClamped(k) == Min({FirstOf({query[k]}, k + 1), Len(query)})

\* _read_quoted: up to the same quote, or to the end when there is none.
EndOfQuoted(k) == FirstOf({query[k]}, k + 1)

Behind(k) == Min({EndOfQuoted(k), Len(query)}) + 1

ReadQuoted ==
  /\ AtTerm /\ From <= Len(query) /\ query[From] \in Quotes
  /\ Emit("text", <<>>, ":", SubSeq(query, From + 1, EndOfQuoted(From) - 1))
  /\ i' = Behind(From)
  /\ UNCHANGED <<query, reply>>

BareTerm == AtTerm /\ From <= Len(query) /\ query[From] \notin Quotes
NameEnd == FirstOf(Delimiters, From)
IsField == NameEnd <= Len(query) /\ query[NameEnd] = ":"

ReadField ==
  /\ BareTerm /\ IsField
  /\ LET name == SubSeq(query, From, NameEnd - 1)
         hasOp == NameEnd < Len(query) /\ query[NameEnd + 1] \in Ops
         op == IF hasOp THEN query[NameEnd + 1] ELSE ":"
         k == IF hasOp THEN NameEnd + 2 ELSE NameEnd + 1
     IN  IF k <= Len(query) /\ query[k] \in Quotes
         THEN /\ Emit("field", name, op, SubSeq(query, k + 1, EndOfQuoted(k) - 1))
              /\ i' = Behind(k)
         ELSE /\ Emit("field", name, op, SubSeq(query, k, FirstOf(Space, k) - 1))
              /\ i' = FirstOf(Space, k)
  /\ UNCHANGED <<query, reply>>

ReadWord ==
  /\ BareTerm /\ ~ IsField
  /\ Emit("text", <<>>, ":", SubSeq(query, From, NameEnd - 1))
  /\ i' = NameEnd
  /\ UNCHANGED <<query, reply>>

-----------------------------------------------------------------------------
(* What a condition says of a row, in SQL's three truth values.            *)

Truth(b) == IF b THEN "true" ELSE "false"
\* A comparison with a column, the set of its one value or of none if NULL,
\* that holds for the values in "matching".
Null3(column, matching) == IF column = {} THEN "unknown" ELSE Truth(matching = column)
Not3(t) == CASE t = "true" -> "false" [] t = "false" -> "true" [] OTHER -> t

\* _as_int: the integers a text denotes, none or one.  int() strips spaces.
AsInt(v) ==
  LET inner == {k \in 1 .. Len(v) : v[k] \notin Space}
      s == IF inner = {} THEN <<>> ELSE SubSeq(v, Min(inner), Max(inner))
      negative == s # <<>> /\ Head(s) = "-"
      digits == IF negative THEN Tail(s) ELSE s
      n == FoldLeft(LAMBDA acc, d : 10 * acc + Digit[d], 0, digits)
  IN  IF digits # <<>> /\ ToSet(digits) \subseteq DOMAIN Digit
      THEN {IF negative THEN -n ELSE n} ELSE {}

\* _numeric: a range in either order, or one number and a comparison.
IsRange(op, v) == op = ":" /\ Contains(v, "-") /\ Head(v) # "-"
Numbers(op, v) ==
  IF ~ IsRange(op, v) THEN <<AsInt(v)>>
  ELSE LET k == Min({m \in 1 .. Len(v) : v[m] = "-"})
       IN  <<AsInt(SubSeq(v, 1, k - 1)), AsInt(SubSeq(v, k + 1, Len(v)))>>

Compares(n, op, v) ==
  LET b == Numbers(op, v)
      m == CHOOSE x \in b[1] : TRUE
  IN  CASE Len(b) = 2 -> Min(b[1] \cup b[2]) <= n /\ n <= Max(b[1] \cup b[2])
        [] op = ":" -> n = m
        [] op = ">" -> n > m
        [] op = "<" -> n < m
        [] op = ">=" -> n >= m
        [] op = "<=" -> n <= m

Within(v, text) == \E k \in 0 .. Len(text) - Len(v) : SubSeq(text, k + 1, k + Len(v)) = v

Falsey == {<<"false">>, <<"no">>, <<"0">>, <<"off">>}

\* Mutant of HasTls: a comparison where the code asks IS NOT NULL.
HasTlsCompared(v, row) == IF row.tls THEN Truth(v \notin Falsey) ELSE "unknown"

HasTls(v, row) == Truth(row.tls <=> v \notin Falsey)

\* FIELDS: one builder for each field; only the numeric ones look at op.
Condition(f, op, v, row) ==
  CASE f \in NumericFields -> Null3(row.num[f], {n \in row.num[f] : Compares(n, op, v)})
    [] f \in TextFields -> Null3(row.txt[f], {text \in row.txt[f] : Within(v, text)})
    [] f = "country" -> Null3(row.txt[f], row.txt[f] \cap {v})
    [] f = "transport" -> Truth(v = row.transport)
    [] f = "tag" -> Truth(v \in row.tags)
    [] f = "ip" -> Truth(Network[v] = {row.ip})
    [] f \in NetFields -> Truth(row.ip \in Network[v])
    [] f = "has_tls" -> HasTls(v, row)
    [] f = "has_cpe" -> Truth(row.txt["cpe"] # {<<>>} <=> v \notin Falsey)

\* What the parser or a builder refuses.
Refused(t) ==
  /\ t.kind = "field"
  /\ LET f == t.field[1]
         v == t.value
     IN  \/ Len(t.field) # 1 \/ f \notin KnownFields
         \/ v = <<>> /\ f \notin PresenceFields
         \/ f \in NumericFields /\ \E m \in DOMAIN Numbers(t.op, v) : Numbers(t.op, v)[m] = {}
         \/ f = "transport" /\ v \notin {<<"tcp">>, <<"udp">>}
         \/ f \in NetFields \cup {"ip"} /\ v \notin DOMAIN Network
         \/ f = "ip" /\ \A a \in Network[v] : Network[v] # {a}

\* websearch_to_tsquery and @@: runs of word characters, "or" between
\* conjunctions, a dash before a word negates it, stop words count for nothing,
\* and what is left of an empty query matches no row.
Starts(s) == {a \in 1 .. Len(s) : s[a] \notin Marks /\ (a = 1 \/ s[a - 1] \in Marks)}
Run(s, a) == SubSeq(s, a, Min({k \in a .. Len(s) + 1 : k > Len(s) \/ s[k] \in Marks}) - 1)
Minus(s, a) == a > 1 /\ s[a - 1] = "-" /\ (a = 2 \/ s[a - 2] \in Space)

Runs(s) == {Run(s, a) : a \in Starts(s)}

TextMatches(s, words) ==
  LET ors == {a \in Starts(s) : Run(s, a) = <<"or">>}
      operands == {a \in Starts(s) \ ors : Run(s, a) \notin StopWords}
      Together(a, b) == \A o \in ors : o < a <=> o < b
  IN  \E a \in operands : \A b \in operands :
        Together(a, b) => (Run(s, b) \in words <=> ~ Minus(s, b))

\* Mutant of Joined: the terms are put next to one another.
JoinedTightly(terms) == FlattenSeq(terms)

Joined(terms) == Tail(FlattenSeq([k \in 1 .. Len(terms) |-> <<" ">> \o terms[k]]))

\* The text terms, an empty one is dropped.
IsText(t) == t.kind = "text" /\ t.value # <<>>
IsPositive(t) == IsText(t) /\ ~ t.negate

\* The positive ones become one search text.
PositiveTerm(t) == IF IsPositive(t) THEN <<t.value>> ELSE <<>>
SearchText(ts) == Joined(FlattenSeq([k \in 1 .. Len(ts) |-> PositiveTerm(ts[k])]))

\* The rows the statement selects.
Selects(ts, row) ==
  /\ row.engagement = Engagement
  /\ \A t \in ToSet(ts) : t.kind = "field" =>
       LET c == Condition(t.field[1], t.op, t.value, row)
       IN  (IF t.negate THEN Not3(c) ELSE c) = "true"
  /\ (\E t \in ToSet(ts) : IsPositive(t)) => TextMatches(SearchText(ts), row.words)
  /\ \A t \in ToSet(ts) : IsText(t) /\ t.negate => ~ TextMatches(t.value, row.words)

Answer(ts) == {row \in Rows : Selects(ts, row)}

\* Parse, compile and execute; SearchSyntaxError is a reply 400.
Reply ==
  /\ ~ Lexing /\ reply.status = "none"
  /\ reply' = IF \E t \in ToSet(tokens) : Refused(t)
              THEN [status |-> "refused", rows |-> {}]
              ELSE [status |-> "ok", rows |-> Answer(tokens)]
  /\ UNCHANGED <<query, i, tokens>>

Next == SkipSpace \/ DropDash \/ ReadQuoted \/ ReadField \/ ReadWord \/ Reply

Spec == Init /\ [][Next]_vars

-----------------------------------------------------------------------------

WordsOf(s) == FlattenSeq([k \in 1 .. Len(s) |-> IF s[k] \in Marks THEN <<>> ELSE <<s[k]>>])
WordsRead(ts) == WordsOf(FlattenSeq([k \in 1 .. Len(ts) |-> ts[k].field \o ts[k].value]))

\* The hand-written lexer (lexer.py:44-96) neither loses a word nor reads one
\* twice nor changes their order, whatever quotes, dashes and colons stand
\* between them and wherever the query breaks off.
WordsKept == ~ Lexing => WordsRead(tokens) = WordsOf(query)

\* A text term of words without a meaning of their own to websearch_to_tsquery.
Plain(t) ==
  t.kind = "text" =>
    /\ Runs(t.value) # {} /\ Runs(t.value) \cap (StopWords \cup {<<"or">>}) = {}
    /\ ToSet(t.value) \cap (Quotes \cup {"-"}) = {}

\* Terms are joined by an implicit AND although the text terms are glued into
\* one search text (compiler.py:127-139), and no combination of terms and
\* negations shows a service of another engagement (compiler.py:4).
ImplicitAnd ==
  reply.status = "ok" =>
    /\ \A row \in reply.rows : row.engagement = Engagement
    /\ (\A t \in ToSet(tokens) : Plain(t)) =>
         \A row \in Rows :
           row \in reply.rows <=> Selects(<<>>, row) /\ \A t \in ToSet(tokens) : Selects(<<t>>, row)

Filters == {t \in ToSet(tokens) : t.kind = "field"}

\* A filter and its negation never share a row, and what both leave out are the
\* rows whose column is NULL: the fields that are never NULL split the rows of
\* the engagement, has_tls and has_cpe among them (compiler.py:74-105).
NegationSplits ==
  reply.status = "ok" =>
    \A t \in Filters :
      LET f == t.field[1]
          other == [t EXCEPT !.negate = ~ t.negate]
          null(row) == \/ f \in NumericFields /\ row.num[f] = {}
                       \/ f \in TextFields \cup {"country"} /\ row.txt[f] = {}
      IN  \A row \in Answer(<<>>) :
            /\ ~ (Selects(<<t>>, row) /\ Selects(<<other>>, row))
            /\ Selects(<<t>>, row) \/ Selects(<<other>>, row) <=> ~ null(row)

=============================================================================
