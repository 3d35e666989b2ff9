-------------------------- MODULE SearchQueryProofs --------------------------
(***************************************************************************)
(* Proofs about SearchQuery: the lexer's loop goes on and loses no word,   *)
(* terms are joined by AND, a filter and its negation split the rows that  *)
(* are not NULL, and an answer holds only services of the engagement; for  *)
(* all queries, rows and dictionaries.                                     *)
(***************************************************************************)
EXTENDS SearchQuery, SequenceTheorems, WellFoundedInduction, TLAPS

\* What Emit makes.
IsToken(t) ==
  /\ t = [negate |-> t.negate, kind |-> t.kind, field |-> t.field, op |-> t.op, value |-> t.value]
  /\ t.negate \in BOOLEAN

\* The place in the query, the tokens and what a reply says of them.
IInv ==
  /\ query \in Seq(ToSet(query))
  /\ i \in 1 .. Len(query) + 1
  /\ tokens \in Seq(ToSet(tokens))
  /\ \A t \in ToSet(tokens) : IsToken(t)
  /\ reply.status \in {"none", "ok", "refused"}
  /\ reply.status # "none" => ~ Lexing
  /\ reply.status = "ok" => /\ reply.rows = Answer(tokens)
                            /\ \A t \in ToSet(tokens) : ~ Refused(t)
  /\ reply.status # "ok" => reply.rows = {}

\* Every iteration of the lexer's loop reads at least one lexeme and none behind
\* the end of the query; when it is over there is one reply.
ReadsOn ==
  \/ reply' = reply /\ i < i' /\ i' <= Len(query) + 1
  \/ i' = i /\ reply.status = "none" /\ reply'.status # "none"

\* What has been read stands in the tokens, which hold pieces of the query.
ReadSoFar ==
  /\ \A t \in ToSet(tokens) : t.field \in Seq(ToSet(query)) /\ t.value \in Seq(ToSet(query))
  /\ WordsRead(tokens) = WordsOf(SubSeq(query, 1, i - 1))

-----------------------------------------------------------------------------
(* Lemmas about the operators of the lexer.                                *)

\* A set of numbers has a least one.
LEMMA LeastExists ==
  ASSUME NEW S \in SUBSET Nat, S # {}
  PROVE  \E least \in S : \A y \in S : least <= y
<1> DEFINE Smaller == {ss \in Nat \X Nat : ss[1] < ss[2]}
<1>1. IsWellFoundedOn(Smaller, Nat)
  BY NatLessThanWellFounded, Zenon DEF OpToRel
<1>2. PICK least \in S : \A m \in S : <<m, least>> \notin Smaller
  <2> HIDE DEF Smaller
  <2> QED
    BY <1>1, WFMin
<1>3. \A m \in S : least <= m
  <2> SUFFICES ASSUME NEW m \in S, m < least
               PROVE  FALSE
    OBVIOUS
  <2> DEFINE pair == <<m, least>>
  <2>1. pair \in Nat \X Nat /\ pair[1] < pair[2]
    OBVIOUS
  <2> HIDE DEF pair
  <2>2. pair \in Smaller
    BY <2>1
  <2> QED
    BY <1>2, <2>2 DEF pair
<1> QED
  BY <1>3

\* Min of natural numbers is one of them and no greater than any.
LEMMA MinIsLeast ==
  ASSUME NEW S \in SUBSET Nat, S # {}
  PROVE  Min(S) \in S /\ \A m \in S : Min(S) <= m
BY LeastExists DEF Min

\* Induction up to a number, on the set of those a fact holds for.
LEMMA UpTo ==
  ASSUME NEW N \in Nat, NEW Good, 0 \in Good,
         \A n \in 1 .. N : n - 1 \in Good => n \in Good
  PROVE  0 .. N \subseteq Good
<1> DEFINE Bad == {n \in 0 .. N : n \notin Good}
<1>1. CASE Bad = {}
  BY <1>1
<1>2. CASE Bad # {}
  <2>1. Bad \in SUBSET Nat
    OBVIOUS
  <2>2. PICK least \in Bad : \A n \in Bad : least <= n
    <3> HIDE DEF Bad
    <3> QED
      BY <1>2, <2>1, LeastExists
  <2>3. least \in 1 .. N /\ least - 1 \in 0 .. N /\ least - 1 \notin Bad
    BY <2>2
  <2> QED
    BY <2>2, <2>3
<1> QED
  BY <1>1, <1>2

\* A function may be defined by recursion up to a number.
Recurses(f, N, S, start, step) ==
  f \in [0 .. N -> S] /\ f[0] = start /\ \A n \in 1 .. N : f[n] = step[<<n, f[n - 1]>>]

LEMMA Recursion ==
  ASSUME NEW N \in Nat, NEW S, NEW start \in S, NEW step \in [(1 .. N) \X S -> S]
  PROVE  \E f : Recurses(f, N, S, start, step)
<1> DEFINE Begun(m) == \E f : Recurses(f, m, S, start, step)
           Good == {m \in 0 .. N : Begun(m)}
<1>1. 0 \in Good
  <2> DEFINE f == [n \in 0 .. 0 |-> start]
  <2>1. f \in [0 .. 0 -> S] /\ f[0] = start
    OBVIOUS
  <2>2. \A n \in 1 .. 0 : f[n] = step[<<n, f[n - 1]>>]
    OBVIOUS
  <2> HIDE DEF f
  <2>3. Begun(0)
    BY <2>1, <2>2 DEF Recurses
  <2> QED
    BY <2>3
<1>2. ASSUME NEW m \in 1 .. N, m - 1 \in Good
      PROVE  m \in Good
  <2>0. PICK f : Recurses(f, m - 1, S, start, step)
    BY <1>2
  <2>1. /\ f \in [0 .. m - 1 -> S] /\ f[0] = start
        /\ \A n \in 1 .. m - 1 : f[n] = step[<<n, f[n - 1]>>]
    BY <2>0 DEF Recurses
  <2> DEFINE g == [n \in 0 .. m |-> IF n = m THEN step[<<m, f[m - 1]>>] ELSE f[n]]
  <2>2. step[<<m, f[m - 1]>>] \in S
    BY <2>1
  <2>3. g \in [0 .. m -> S] /\ g[0] = start /\ g[m] = step[<<m, f[m - 1]>>]
        /\ \A n \in 0 .. m - 1 : g[n] = f[n]
    BY <2>1, <2>2
  <2> HIDE DEF g
  <2>4. \A n \in 1 .. m : g[n] = step[<<n, g[n - 1]>>]
    <3> SUFFICES ASSUME NEW n \in 1 .. m PROVE g[n] = step[<<n, g[n - 1]>>]
      OBVIOUS
    <3>1. g[n - 1] = f[n - 1]
      BY <2>3
    <3>2. CASE n = m
      BY <2>3, <3>1, <3>2
    <3>3. CASE n # m
      <4>1. n \in 1 .. m - 1 /\ n \in 0 .. m - 1
        BY <3>3
      <4> QED
        BY <2>1, <2>3, <3>1, <4>1
    <3> QED
      BY <3>2, <3>3
  <2>5. Begun(m)
    BY <2>3, <2>4 DEF Recurses
  <2> QED
    BY <2>5
<1> HIDE DEF Good
<1>3. 0 .. N \subseteq Good
  BY <1>1, <1>2, UpTo
<1> QED
  BY <1>3 DEF Good

\* FlattenSeq puts one sequence behind the other.
Flattens(f, T, ss) ==
  /\ f \in [0 .. Len(ss) -> Seq(T)]
  /\ f[0] = <<>> /\ \A n \in 1 .. Len(ss) : f[n] = f[n - 1] \o ss[n]

LEMMA FlattenSteps ==
  ASSUME NEW T, NEW ss \in Seq(Seq(T))
  PROVE  \E f : Flattens(f, T, ss) /\ FlattenSeq(ss) = f[Len(ss)]
<1> DEFINE N == Len(ss)
           S == Seq(T)
           start == <<>>
           step == [x \in (1 .. N) \X S |-> x[2] \o ss[x[1]]]
<1>1. N \in Nat /\ start \in S /\ \A n \in 1 .. N : ss[n] \in S
  OBVIOUS
<1>2. /\ step \in [(1 .. N) \X S -> S]
      /\ \A n \in 1 .. N : \A s \in S : step[<<n, s>>] = s \o ss[n]
  <2>1. \A s, t \in S : s \o t \in S
    OBVIOUS
  <2> HIDE DEF S, N
  <2> QED
    BY <1>1, <2>1
<1> HIDE DEF N, S, start, step
<1>3. PICK f : Recurses(f, N, S, start, step)
  BY <1>1, <1>2, Recursion
<1>4. /\ f \in [0 .. N -> S] /\ f[0] = start
      /\ \A n \in 1 .. N : f[n] = step[<<n, f[n - 1]>>]
  BY <1>3 DEF Recurses
<1>5. ASSUME NEW n \in 1 .. N PROVE f[n - 1] \in S /\ f[n] = f[n - 1] \o ss[n]
  <2>1. n - 1 \in 0 .. N
    BY <1>1
  <2>2. f[n - 1] \in S
    BY <1>4, <2>1
  <2> QED
    BY <1>2, <1>4, <2>2
<1>6. Flattens(f, T, ss)
  BY <1>4, <1>5 DEF Flattens, N, S, start
<1>7. CASE N = 0
  <2>1. ss = <<>> /\ FlattenSeq(ss) = ss
    BY <1>7 DEF N, FlattenSeq
  <2> QED
    BY <1>4, <1>6, <1>7, <2>1 DEF N, S, start
<1>8. ASSUME 1 \in 1 .. N PROVE f[1] = ss[1]
  <2>1. \A t \in S : start \o t = t
    BY DEF S, start
  <2>2. f[1] = f[1 - 1] \o ss[1]
    BY <1>5, <1>8
  <2>3. 1 - 1 = 0
    OBVIOUS
  <2>4. f[1] = start \o ss[1] /\ ss[1] \in S
    BY <1>1, <1>4, <1>8, <2>2, <2>3
  <2> QED
    BY <2>1, <2>4
<1>9. CASE N # 0
  <2> DEFINE Body(g) == [n \in 1 .. N |-> IF n = 1 THEN ss[n] ELSE g[n - 1] \o ss[n]]
             flat == CHOOSE g : g = Body(g)
             h == [n \in 1 .. N |-> f[n]]
  <2>1. FlattenSeq(ss) = flat[N]
    BY <1>9 DEF N, FlattenSeq
  <2>2. h = Body(h)
    <3>1. ASSUME NEW n \in 1 .. N PROVE f[n] = IF n = 1 THEN ss[n] ELSE h[n - 1] \o ss[n]
      <4>1. CASE n = 1
        BY <1>8, <4>1
      <4>2. CASE n # 1
        <5>1. n - 1 \in 1 .. N
          BY <1>1, <4>2
        <5>2. h[n - 1] = f[n - 1]
          BY <5>1
        <5> QED
          BY <1>5, <4>2, <5>2
      <4> QED
        BY <4>1, <4>2
    <3>2. h = [n \in 1 .. N |-> IF n = 1 THEN ss[n] ELSE h[n - 1] \o ss[n]]
      BY <3>1
    <3> QED
      BY <3>2
  <2>3. flat = Body(flat)
    <3> HIDE DEF h, Body
    <3> QED
      BY <2>2
  <2>4. \A n \in 1 .. N : flat[n] = IF n = 1 THEN ss[n] ELSE flat[n - 1] \o ss[n]
    <3> HIDE DEF flat
    <3> QED
      BY <2>3
  <2> HIDE DEF flat
  <2> DEFINE Good == {n \in 0 .. N : n = 0 \/ flat[n] = f[n]}
  <2>5. 0 \in Good
    BY <1>1
  <2>6. ASSUME NEW n \in 1 .. N, n - 1 \in Good PROVE n \in Good
    <3>1. CASE n = 1
      BY <1>8, <2>4, <3>1
    <3>2. CASE n # 1
      <4>1. flat[n - 1] = f[n - 1]
        BY <1>1, <2>6, <3>2
      <4>2. flat[n] = flat[n - 1] \o ss[n]
        BY <2>4, <3>2
      <4>3. f[n] = f[n - 1] \o ss[n]
        BY <1>5
      <4>4. flat[n] = f[n]
        BY <4>1, <4>2, <4>3
      <4> QED
        BY <1>1, <4>4
    <3> QED
      BY <3>1, <3>2
  <2> HIDE DEF Good
  <2>7. 0 .. N \subseteq Good
    BY <1>1, <2>5, <2>6, UpTo
  <2>8. flat[N] = f[N]
    BY <1>1, <1>9, <2>7 DEF Good
  <2> QED
    BY <1>6, <2>1, <2>8 DEF N, S
<1> QED
  BY <1>7, <1>9

LEMMA FlattenSmall ==
  ASSUME NEW T
  PROVE  /\ FlattenSeq(<<>>) = <<>>
         /\ \A s \in Seq(T) : FlattenSeq(<<s>>) = s
<1>1. FlattenSeq(<<>>) = <<>>
  BY DEF FlattenSeq
<1>2. ASSUME NEW s \in Seq(T) PROVE FlattenSeq(<<s>>) = s
  <2> DEFINE ss == <<s>>
  <2>1. ss \in Seq(Seq(T)) /\ Len(ss) = 1 /\ ss[1] = s
    OBVIOUS
  <2> HIDE DEF ss
  <2>2. PICK f : Flattens(f, T, ss) /\ FlattenSeq(ss) = f[Len(ss)]
    BY <2>1, FlattenSteps
  <2>3. f[0] = <<>> /\ f[1] = f[0] \o s
    BY <2>1, <2>2 DEF Flattens
  <2>4. <<>> \o s = s
    OBVIOUS
  <2> QED
    BY <2>1, <2>2, <2>3, <2>4 DEF ss
<1> QED
  BY <1>1, <1>2

LEMMA FlattenConcat ==
  ASSUME NEW T, NEW a \in Seq(Seq(T)), NEW b \in Seq(Seq(T))
  PROVE  FlattenSeq(a \o b) = FlattenSeq(a) \o FlattenSeq(b) /\ FlattenSeq(a) \in Seq(T)
<1> DEFINE ab == a \o b
           K == Len(a)
           N == Len(b)
<1>1. /\ K \in Nat /\ N \in Nat /\ ab \in Seq(Seq(T)) /\ Len(ab) = K + N
      /\ \A n \in 1 .. K : ab[n] = a[n] /\ a[n] \in Seq(T)
      /\ \A n \in 1 .. N : ab[K + n] = b[n] /\ b[n] \in Seq(T)
  OBVIOUS
<1> HIDE DEF ab
<1>2. PICK f : Flattens(f, T, a) /\ FlattenSeq(a) = f[K]
  BY FlattenSteps
<1>3. PICK g : Flattens(g, T, b) /\ FlattenSeq(b) = g[N]
  BY FlattenSteps
<1>4. PICK h : Flattens(h, T, ab) /\ FlattenSeq(ab) = h[K + N]
  BY <1>1, FlattenSteps
<1> HIDE DEF K, N
<1> DEFINE S == Seq(T)
           start == <<>>
<1>5. /\ f \in [0 .. K -> S] /\ f[0] = start /\ \A n \in 1 .. K : f[n] = f[n - 1] \o a[n]
      /\ g \in [0 .. N -> S] /\ g[0] = start /\ \A n \in 1 .. N : g[n] = g[n - 1] \o b[n]
      /\ h[0] = start /\ \A n \in 1 .. K + N : h[n] = h[n - 1] \o ab[n]
  BY <1>1, <1>2, <1>3, <1>4 DEF Flattens, K, N
<1>6. /\ \A u \in S : u \o start = u
      /\ \A u, v, w \in S : (u \o v) \o w = u \o (v \o w)
  <2>1. \A u \in S : u \o start = u
    OBVIOUS
  <2>2. ASSUME NEW u \in S, NEW v \in S, NEW w \in S PROVE (u \o v) \o w = u \o (v \o w)
    BY ConcatAssociative
  <2> HIDE DEF S, start
  <2> QED
    BY <2>1, <2>2
<1>7. \A n \in 1 .. K : ab[n] = a[n]
  BY <1>1
<1>8. \A n \in 1 .. N : ab[K + n] = b[n] /\ b[n] \in S
  BY <1>1
<1>9. K \in Nat /\ N \in Nat
  BY <1>1
<1> HIDE DEF S, start
<1>10. h[K] = f[K]
  <2> DEFINE Good == {n \in 0 .. K : h[n] = f[n]}
  <2>1. 0 \in Good
    BY <1>5, <1>9
  <2>2. ASSUME NEW n \in 1 .. K, n - 1 \in Good PROVE n \in Good
    <3>1. n \in 1 .. K + N
      BY <1>9
    <3>2. h[n - 1] = f[n - 1] /\ n \in 0 .. K
      BY <1>9, <2>2
    <3>3. h[n] = h[n - 1] \o ab[n]
      BY <1>5, <3>1
    <3>4. f[n] = f[n - 1] \o a[n]
      BY <1>5
    <3>5. h[n] = f[n]
      BY <1>7, <3>2, <3>3, <3>4
    <3> QED
      BY <3>2, <3>5
  <2> HIDE DEF Good
  <2>3. 0 .. K \subseteq Good
    BY <1>9, <2>1, <2>2, UpTo
  <2>4. K \in 0 .. K
    BY <1>9
  <2> QED
    BY <2>3, <2>4 DEF Good
<1>11. f[K] \in S
  BY <1>5, <1>9
<1>12. h[K + N] = f[K] \o g[N]
  <2> DEFINE Fits(n) == h[K + n] = f[K] \o g[n]
             Good == {n \in 0 .. N : Fits(n)}
  <2>1. 0 \in Good
    <3>1. K + 0 = K
      BY <1>9
    <3>2. Fits(0)
      BY <1>5, <1>6, <1>10, <1>11, <3>1
    <3> HIDE DEF Fits
    <3> QED
      BY <1>9, <3>2
  <2>2. ASSUME NEW n \in 1 .. N, n - 1 \in Good PROVE n \in Good
    <3>1. K + n \in 1 .. K + N /\ (K + n) - 1 = K + (n - 1) /\ n - 1 \in 0 .. N
      BY <1>9
    <3>2. h[K + n] = h[K + (n - 1)] \o b[n]
      <4>1. h[K + n] = h[(K + n) - 1] \o ab[K + n]
        BY <1>5, <3>1
      <4> QED
        BY <1>8, <3>1, <4>1
    <3>3. g[n] = g[n - 1] \o b[n] /\ g[n - 1] \in S
      BY <1>5, <3>1
    <3>4. h[K + n] = (f[K] \o g[n - 1]) \o b[n]
      BY <2>2, <3>2
    <3>5. h[K + n] = f[K] \o g[n]
      <4>1. b[n] \in S
        BY <1>8
      <4>2. (f[K] \o g[n - 1]) \o b[n] = f[K] \o (g[n - 1] \o b[n])
        BY <1>6, <1>11, <3>3, <4>1
      <4> QED
        BY <3>3, <3>4, <4>2
    <3>6. Fits(n)
      BY <3>5
    <3> HIDE DEF Fits
    <3> QED
      BY <1>9, <3>6
  <2> HIDE DEF Good
  <2>3. 0 .. N \subseteq Good
    BY <1>9, <2>1, <2>2, UpTo
  <2>4. N \in 0 .. N
    BY <1>9
  <2> QED
    BY <2>3, <2>4 DEF Good
<1> QED
  BY <1>2, <1>3, <1>4, <1>11, <1>12 DEF ab, S

\* FirstOf goes forward, to the end of the query at the farthest.
LEMMA FirstOfGoesOn ==
  ASSUME Len(query) \in Nat, NEW S, NEW k \in 1 .. Len(query) + 1
  PROVE  FirstOf(S, k) \in k .. Len(query) + 1
<1> DEFINE places == {m \in k .. Len(query) : query[m] \in S} \cup {Len(query) + 1}
<1>1. places \in SUBSET Nat /\ places # {} /\ Len(query) + 1 \in places
  OBVIOUS
<1>2. FirstOf(S, k) = Min(places)
  BY DEF FirstOf
<1>3. \A m \in places : m \in k .. Len(query) + 1
  OBVIOUS
<1> HIDE DEF places
<1>4. Min(places) \in places
  BY <1>1, MinIsLeast
<1> QED
  BY <1>2, <1>3, <1>4

\* So does Behind, behind a quote.
LEMMA BehindGoesOn ==
  ASSUME Len(query) \in Nat, NEW k \in 1 .. Len(query)
  PROVE  Behind(k) \in k + 1 .. Len(query) + 1
<1>1. EndOfQuoted(k) \in k + 1 .. Len(query) + 1
  BY FirstOfGoesOn DEF EndOfQuoted
<1> DEFINE ends == {EndOfQuoted(k), Len(query)}
<1>2. ends \in SUBSET Nat /\ ends # {}
  BY <1>1
<1>3. \A m \in ends : m \in k .. Len(query) + 1
  BY <1>1
<1>4. Behind(k) = Min(ends) + 1
  BY DEF Behind
<1>5. Len(query) \in ends
  OBVIOUS
<1> HIDE DEF ends
<1>6. Min(ends) \in ends /\ Min(ends) <= Len(query)
  BY <1>2, <1>5, MinIsLeast
<1> QED
  BY <1>3, <1>4, <1>6

\* What a token adds.
LEMMA AppendAdds ==
  ASSUME NEW s, s \in Seq(ToSet(s)), NEW t
  PROVE  /\ Append(s, t) \in Seq(ToSet(Append(s, t)))
         /\ ToSet(Append(s, t)) = ToSet(s) \cup {t}
<1> DEFINE S == ToSet(s) \cup {t}
<1>1. s \in Seq(S)
  <2>1. s \in [1 .. Len(s) -> ToSet(s)] /\ Len(s) \in Nat
    OBVIOUS
  <2>2. s \in [1 .. Len(s) -> S]
    BY <2>1
  <2> HIDE DEF S
  <2> QED
    BY <2>1, <2>2
<1>2. ToSet(s) = {s[k] : k \in 1 .. Len(s)} /\ Len(s) \in Nat
  BY DEF ToSet
<1>3. /\ Append(s, t) \in Seq(S) /\ Len(Append(s, t)) = Len(s) + 1
      /\ \A k \in 1 .. Len(s) : Append(s, t)[k] = s[k]
      /\ Append(s, t)[Len(s) + 1] = t
  <2> HIDE DEF S
  <2>1. t \in S
    BY DEF S
  <2> QED
    BY <1>1, <2>1
<1>4. ToSet(Append(s, t)) = {Append(s, t)[k] : k \in 1 .. Len(s) + 1}
  BY <1>3 DEF ToSet
<1>5. ToSet(Append(s, t)) = ToSet(s) \cup {t}
  BY <1>2, <1>3, <1>4
<1> QED
  BY <1>3, <1>5

-----------------------------------------------------------------------------
(* The steps.                                                              *)

\* The places of a term: behind its dash, then behind what is read.
LEMMA TermPlaces ==
  ASSUME IInv, AtTerm, From <= Len(query)
  PROVE  /\ From \in i .. Len(query) /\ i \in 1 .. Len(query)
         /\ NameEnd \in From .. Len(query) + 1
         /\ From = i \/ (From = i + 1 /\ query[i] = "-")
<1>1. /\ Len(query) \in Nat /\ i \in 1 .. Len(query) + 1 /\ i <= Len(query)
  BY DEF IInv, AtTerm, Lexing
<1>2. From \in i .. Len(query) /\ (From = i \/ (From = i + 1 /\ query[i] = "-"))
  <2>1. CASE query[i] = "-"
    BY <1>1, <2>1 DEF From
  <2>2. CASE query[i] # "-"
    BY <1>1, <2>2 DEF From
  <2> QED
    BY <2>1, <2>2
<1>3. NameEnd \in From .. Len(query) + 1
  BY <1>1, <1>2, FirstOfGoesOn DEF NameEnd
<1> QED
  BY <1>1, <1>2, <1>3

\* A step of the lexer goes on and keeps the invariant if it leaves the tokens as
\* they are or emits one.
LEMMA LexerKeeps ==
  ASSUME IInv, Lexing, UNCHANGED <<query, reply>>, i < i', i' \in 1 .. Len(query) + 1,
         \/ tokens' = tokens
         \/ \E kind, field, op, value : Emit(kind, field, op, value)
  PROVE  IInv' /\ ReadsOn
<1>1. ReadsOn
  BY DEF IInv, ReadsOn
<1>2. reply.status = "none" /\ reply.rows = {}
  BY DEF IInv
<1>3. tokens' \in Seq(ToSet(tokens')) /\ \A t \in ToSet(tokens') : IsToken(t)
  <2>1. CASE tokens' = tokens
    BY <2>1 DEF IInv
  <2>2. ASSUME NEW kind, NEW field, NEW op, NEW value, Emit(kind, field, op, value)
        PROVE  tokens' \in Seq(ToSet(tokens')) /\ \A t \in ToSet(tokens') : IsToken(t)
    <3> DEFINE new == [negate |-> query[i] = "-", kind |-> kind, field |-> field, op |-> op,
                       value |-> value]
    <3>1. tokens' = Append(tokens, new)
      BY <2>2 DEF Emit
    <3>2. IsToken(new)
      BY DEF IsToken
    <3> HIDE DEF new
    <3>3. /\ tokens' \in Seq(ToSet(tokens')) /\ ToSet(tokens') = ToSet(tokens) \cup {new}
      BY <3>1, AppendAdds DEF IInv
    <3> QED
      BY <3>2, <3>3 DEF IInv
  <2> QED
    BY <2>1, <2>2
<1>4. IInv'
  BY <1>2, <1>3 DEF IInv
<1> QED
  BY <1>1, <1>4

LEMMA InvInit == Init => IInv
<1> SUFFICES ASSUME Init
             PROVE  IInv
  OBVIOUS
<1>1. query \in Seq(ToSet(query))
  BY QueriesAssumption DEF Init
<1>2. tokens = <<>> /\ ToSet(tokens) = {}
  BY DEF Init, ToSet
<1>3. reply.status = "none" /\ reply.rows = {} /\ i = 1
  BY DEF Init
<1> QED
  BY <1>1, <1>2, <1>3 DEF IInv

LEMMA StepKeeps ==
  ASSUME IInv, Next
  PROVE  IInv' /\ ReadsOn
<1>1. Len(query) \in Nat /\ i \in 1 .. Len(query) + 1
  BY DEF IInv
<1>2. CASE SkipSpace
  BY <1>1, <1>2, LexerKeeps DEF SkipSpace, Lexing
<1>3. CASE DropDash
  <2>1. i' = i + 1
    BY <1>1, <1>3 DEF DropDash, AtTerm, Lexing, From
  <2> QED
    BY <1>1, <1>3, <2>1, LexerKeeps DEF DropDash, AtTerm, Lexing
<1>4. CASE ReadQuoted
  <2>1. i' \in From + 1 .. Len(query) + 1 /\ From \in i .. Len(query)
    BY <1>1, <1>4, TermPlaces, BehindGoesOn DEF ReadQuoted
  <2> QED
    BY <1>1, <1>4, <2>1, LexerKeeps DEF ReadQuoted, AtTerm, Lexing
<1>5. CASE ReadField
  <2> DEFINE hasOp == NameEnd < Len(query) /\ query[NameEnd + 1] \in Ops
             k == IF hasOp THEN NameEnd + 2 ELSE NameEnd + 1
  <2>1. /\ From \in i .. Len(query) /\ NameEnd \in From .. Len(query)
    BY <1>1, <1>5, TermPlaces DEF ReadField, BareTerm, IsField
  <2>2. k \in i + 1 .. Len(query) + 1
    BY <1>1, <2>1
  <2>3. \/ k <= Len(query) /\ i' = Behind(k)
        \/ i' = FirstOf(Space, k)
    BY <1>5 DEF ReadField
  <2>4. /\ \E kind, field, op, value : Emit(kind, field, op, value)
        /\ UNCHANGED <<query, reply>> /\ Lexing
    BY <1>5 DEF ReadField, BareTerm, AtTerm
  <2> HIDE DEF k
  <2>5. i' \in k .. Len(query) + 1
    <3>1. CASE k <= Len(query) /\ i' = Behind(k)
      <4>1. k \in 1 .. Len(query)
        BY <1>1, <2>2, <3>1
      <4> QED
        BY <1>1, <2>2, <3>1, <4>1, BehindGoesOn
    <3>2. CASE i' = FirstOf(Space, k)
      BY <1>1, <2>2, <3>2, FirstOfGoesOn
    <3> QED
      BY <2>3, <3>1, <3>2
  <2>6. i < i' /\ i' \in 1 .. Len(query) + 1
    BY <1>1, <2>2, <2>5
  <2> QED
    BY <2>4, <2>6, LexerKeeps
\* Where a word is read without a dash before it, it is not empty: an empty one
\* would end at a space, which is skipped, or at a colon, which makes it a field.
<1>6. CASE ReadWord
  <2>1. /\ From \in i .. Len(query) /\ NameEnd \in From .. Len(query) + 1
        /\ From = i \/ From = i + 1
    BY <1>6, TermPlaces DEF ReadWord, BareTerm
  <2>2. From = i => NameEnd # i
    <3> SUFFICES ASSUME From = i, NameEnd = i
                 PROVE  FALSE
      OBVIOUS
    <3>1. i \in 1 .. Len(query) /\ query[i] \notin Space
      BY <1>1, <1>6 DEF ReadWord, BareTerm, AtTerm, Lexing
    <3>2. query[i] # ":"
      BY <1>6, <3>1 DEF ReadWord, IsField
    <3>3. query[i] \notin Delimiters
      BY <3>1, <3>2 DEF Delimiters, Space
    <3> DEFINE places == {m \in i .. Len(query) : query[m] \in Delimiters} \cup {Len(query) + 1}
    <3>4. places \in SUBSET Nat /\ places # {} /\ i \notin places
      BY <1>1, <3>1, <3>3
    <3>5. NameEnd = Min(places)
      BY DEF NameEnd, FirstOf
    <3> HIDE DEF places
    <3> QED
      BY <3>4, <3>5, MinIsLeast
  <2>3. i < i' /\ i' \in 1 .. Len(query) + 1
    BY <1>1, <1>6, <2>1, <2>2 DEF ReadWord
  <2> QED
    BY <1>6, <2>3, LexerKeeps DEF ReadWord, BareTerm, AtTerm
<1>7. CASE Reply
  <2>1. /\ ~ Lexing /\ reply.status = "none" /\ UNCHANGED <<query, i, tokens>>
        /\ reply'.status \in {"ok", "refused"}
        /\ reply'.status = "ok" => /\ reply'.rows = Answer(tokens)
                                   /\ \A t \in ToSet(tokens) : ~ Refused(t)
        /\ reply'.status # "ok" => reply'.rows = {}
    <3>1. CASE \E t \in ToSet(tokens) : Refused(t)
      <4>1. reply' = [status |-> "refused", rows |-> {}]
        BY <1>7, <3>1 DEF Reply
      <4> QED
        BY <1>7, <4>1 DEF Reply
    <3>2. CASE ~ \E t \in ToSet(tokens) : Refused(t)
      <4>1. reply' = [status |-> "ok", rows |-> Answer(tokens)]
        BY <1>7, <3>2 DEF Reply
      <4> QED
        BY <1>7, <3>2, <4>1 DEF Reply
    <3> QED
      BY <3>1, <3>2
  <2>2. ReadsOn
    BY <2>1 DEF ReadsOn
  <2>3. Answer(tokens)' = Answer(tokens)
    BY <2>1 DEF Answer
  <2>4. ~ Lexing'
    BY <2>1 DEF Lexing
  <2>5. IInv'
    BY <2>1, <2>3, <2>4 DEF IInv
  <2> QED
    BY <2>2, <2>5
<1> QED
  BY <1>2, <1>3, <1>4, <1>5, <1>6, <1>7 DEF Next

LEMMA InvNext == IInv /\ [Next]_vars => IInv'
<1>1. ASSUME IInv, UNCHANGED vars
      PROVE  IInv'
  BY <1>1 DEF vars, IInv, Lexing, Answer
<1> QED
  BY <1>1, StepKeeps

LEMMA Invariance == Spec => []IInv
BY InvInit, InvNext, PTL DEF Spec

-----------------------------------------------------------------------------
(* The words of the query.                                                 *)

\* Texts are read word by word.
LEMMA WordsConcat ==
  ASSUME NEW T, NEW s \in Seq(T), NEW t \in Seq(T)
  PROVE  WordsOf(s \o t) = WordsOf(s) \o WordsOf(t) /\ WordsOf(s) \in Seq(T)
<1> DEFINE Part(c) == IF c \in Marks THEN <<>> ELSE <<c>>
           a == [k \in 1 .. Len(s) |-> Part(s[k])]
           b == [k \in 1 .. Len(t) |-> Part(t[k])]
           st == s \o t
           ab == [k \in 1 .. Len(st) |-> Part(st[k])]
<1>1. \A c \in T : Part(c) \in Seq(T)
  <2>1. \A c \in T : <<c>> \in Seq(T) /\ <<>> \in Seq(T)
    OBVIOUS
  <2> QED
    BY <2>1
<1>2. /\ WordsOf(s) = FlattenSeq(a) /\ WordsOf(t) = FlattenSeq(b) /\ WordsOf(st) = FlattenSeq(ab)
  BY DEF WordsOf
<1>3. /\ Len(s) \in Nat /\ Len(t) \in Nat /\ Len(st) = Len(s) + Len(t)
      /\ \A k \in 1 .. Len(s) : s[k] \in T /\ st[k] = s[k]
      /\ \A k \in 1 .. Len(t) : t[k] \in T /\ st[Len(s) + k] = t[k]
      /\ \A k \in Len(s) + 1 .. Len(s) + Len(t) : st[k] = t[k - Len(s)]
  OBVIOUS
<1> HIDE DEF Part, st
<1>4. a \in Seq(Seq(T)) /\ b \in Seq(Seq(T))
  BY <1>1, <1>3
<1>5. ab = a \o b
  <2>1. /\ Len(a) = Len(s) /\ Len(b) = Len(t)
    BY <1>3
  <2>2. \A k \in 1 .. Len(st) : ab[k] = (a \o b)[k]
    BY <1>3, <1>4
  <2> QED
    BY <1>3, <1>4, <2>1, <2>2
<1> HIDE DEF a, b, ab
<1> QED
  BY <1>2, <1>4, <1>5, FlattenConcat DEF st

LEMMA WordsOfLittle ==
  /\ WordsOf(<<>>) = <<>>
  /\ \A c : WordsOf(<<c>>) = IF c \in Marks THEN <<>> ELSE <<c>>
<1>1. WordsOf(<<>>) = <<>>
  <2>1. WordsOf(<<>>) = FlattenSeq(<<>>)
    BY DEF WordsOf
  <2> QED
    BY <2>1, FlattenSmall
<1>2. ASSUME NEW c PROVE WordsOf(<<c>>) = IF c \in Marks THEN <<>> ELSE <<c>>
  <2> DEFINE part == IF c \in Marks THEN <<>> ELSE <<c>>
  <2>1. part \in Seq({c})
    <3>1. <<>> \in Seq({c}) /\ <<c>> \in Seq({c})
      OBVIOUS
    <3> QED
      BY <3>1
  <2>2. WordsOf(<<c>>) = FlattenSeq(<<part>>)
    BY DEF WordsOf
  <2> HIDE DEF part
  <2>3. WordsOf(<<c>>) = part
    BY <2>1, <2>2, FlattenSmall
  <2> QED
    BY <2>3 DEF part
<1> QED
  BY <1>1, <1>2

\* The words of a stretch of the query.
Words(a, b) == WordsOf(SubSeq(query, a, b))

LEMMA WordsMeet ==
  ASSUME IInv, NEW a \in 1 .. Len(query) + 1, NEW m \in a - 1 .. Len(query),
         NEW b \in m .. Len(query)
  PROVE  Words(a, b) = Words(a, m) \o Words(m + 1, b) /\ Words(a, m) \in Seq(ToSet(query))
<1> DEFINE T == ToSet(query)
           s == SubSeq(query, a, m)
           t == SubSeq(query, m + 1, b)
<1>1. query \in Seq(T) /\ Len(query) \in Nat
  BY DEF IInv
<1> HIDE DEF T
<1>2. s \in Seq(T) /\ t \in Seq(T)
  BY <1>1
<1>3. SubSeq(query, a, b) = s \o t
  BY <1>1, ConcatAdjacentSubSeq
<1> HIDE DEF s, t
<1>4. WordsOf(s \o t) = WordsOf(s) \o WordsOf(t) /\ WordsOf(s) \in Seq(T)
  BY <1>2, WordsConcat
<1> QED
  BY <1>3, <1>4 DEF Words, s, t, T

\* A mark at either end has no part in them.
LEMMA MarksDoNotCount ==
  ASSUME IInv, NEW a \in 1 .. Len(query), NEW b \in a .. Len(query)
  PROVE  /\ query[a] \in Marks => Words(a, b) = Words(a + 1, b)
         /\ query[b] \in Marks => Words(a, b) = Words(a, b - 1)
<1> DEFINE T == ToSet(query)
<1>1. query \in Seq(T) /\ Len(query) \in Nat
  BY DEF IInv
<1> HIDE DEF T
<1>2. ASSUME NEW m \in 1 .. Len(query), query[m] \in Marks PROVE Words(m, m) = <<>>
  <2>1. SubSeq(query, m, m) = <<query[m]>>
    <3> DEFINE t == SubSeq(query, m, m)
    <3>1. t \in Seq(T) /\ Len(t) = 1 /\ t[1] = query[m] /\ query[m] \in T
      BY <1>1
    <3>2. t = <<t[1]>>
      <4> HIDE DEF t
      <4> QED
        BY <3>1
    <3> QED
      BY <3>1, <3>2
  <2> QED
    BY <1>2, <2>1, WordsOfLittle DEF Words
<1>3. \A s \in Seq(T) : <<>> \o s = s /\ s \o <<>> = s
  OBVIOUS
<1>4. ASSUME query[a] \in Marks PROVE Words(a, b) = Words(a + 1, b)
  <2>1. Words(a, b) = Words(a, a) \o Words(a + 1, b)
    <3>1. a \in a - 1 .. Len(query)
      BY <1>1
    <3> QED
      BY <1>1, <3>1, WordsMeet
  <2>2. Words(a + 1, b) \in Seq(T)
    <3>1. a + 1 \in 1 .. Len(query) + 1 /\ b \in (a + 1) - 1 .. Len(query) /\ b \in b .. Len(query)
      BY <1>1
    <3> QED
      BY <3>1, WordsMeet DEF T
  <2> QED
    BY <1>2, <1>3, <1>4, <2>1, <2>2
<1>5. ASSUME query[b] \in Marks PROVE Words(a, b) = Words(a, b - 1)
  <2> DEFINE m == b - 1
  <2>1. /\ a \in 1 .. Len(query) + 1 /\ m \in a - 1 .. Len(query) /\ b \in m .. Len(query)
        /\ m + 1 = b /\ b \in 1 .. Len(query)
    BY <1>1
  <2> HIDE DEF m
  <2>2. Words(a, b) = Words(a, m) \o Words(m + 1, b) /\ Words(a, m) \in Seq(T)
    BY <2>1, WordsMeet DEF T
  <2>3. Words(b, b) = <<>>
    BY <1>2, <1>5, <2>1
  <2> QED
    BY <1>3, <2>1, <2>2, <2>3 DEF m
<1> QED
  BY <1>4, <1>5

LEMMA NoWords ==
  ASSUME NEW a \in Int, NEW b \in Int, b < a
  PROVE  Words(a, b) = <<>>
<1>1. SubSeq(query, a, b) = <<>>
  BY SubSeqEmpty
<1> QED
  BY <1>1, WordsOfLittle DEF Words

\* A quoted text has the words from its quote to behind the end.
LEMMA QuotedWords ==
  ASSUME IInv, NEW k \in 1 .. Len(query), query[k] \in Quotes
  PROVE  /\ Words(k, Behind(k) - 1) = Words(k + 1, EndOfQuoted(k) - 1)
         /\ Behind(k) \in k + 1 .. Len(query) + 1
         /\ EndOfQuoted(k) \in k + 1 .. Len(query) + 1
<1> DEFINE L == Len(query)
           e == EndOfQuoted(k)
           places == {m \in k + 1 .. L : query[m] \in {query[k]}} \cup {L + 1}
<1>1. L \in Nat /\ query[k] \in Marks
  BY DEF IInv, Marks
<1>2. e \in places /\ e \in k + 1 .. L + 1
  <2>1. places \in SUBSET Nat /\ places # {}
    BY <1>1
  <2>2. e = Min(places)
    BY DEF EndOfQuoted, FirstOf
  <2>3. \A m \in places : m \in k + 1 .. L + 1
    BY <1>1
  <2> HIDE DEF places, e
  <2> QED
    BY <2>1, <2>2, <2>3, MinIsLeast
<1>3. Behind(k) \in k + 1 .. L + 1
  BY <1>1, BehindGoesOn
<1>4. Behind(k) = Min({e, L}) + 1
  BY DEF Behind
<1>5. \A m \in {e, L} : Min({e, L}) <= m
  <2>1. {e, L} \in SUBSET Nat /\ {e, L} # {}
    BY <1>1, <1>2
  <2> QED
    BY <2>1, MinIsLeast
<1>6. Min({e, L}) \in {e, L}
  <2>1. {e, L} \in SUBSET Nat /\ {e, L} # {}
    BY <1>1, <1>2
  <2> QED
    BY <2>1, MinIsLeast
<1>7. CASE e = L + 1
  <2>1. Behind(k) - 1 = L /\ e - 1 = L
    BY <1>1, <1>4, <1>5, <1>6, <1>7
  <2>2. Words(k, L) = Words(k + 1, L)
    BY <1>1, MarksDoNotCount
  <2> QED
    BY <1>2, <1>3, <2>1, <2>2
<1>8. CASE e # L + 1
  <2>1. e \in k + 1 .. L /\ query[e] = query[k] /\ Behind(k) - 1 = e
    BY <1>1, <1>2, <1>4, <1>5, <1>6, <1>8
  <2> HIDE DEF e, L
  <2>2. Words(k, e) = Words(k + 1, e)
    BY <1>1, <2>1, MarksDoNotCount DEF L
  <2>3. Words(k + 1, e) = Words(k + 1, e - 1)
    BY <1>1, <2>1, MarksDoNotCount DEF L
  <2> QED
    BY <1>2, <1>3, <2>1, <2>2, <2>3 DEF e, L
<1> QED
  BY <1>7, <1>8

\* The last places of what has been read before a step and after it.
LEMMA PlacesBefore ==
  ASSUME NEW n \in Nat, NEW a \in 1 .. n + 1, NEW b \in a .. n + 1
  PROVE  /\ 1 \in 1 .. n + 1 /\ a - 1 \in 1 - 1 .. n /\ b - 1 \in a - 1 .. n
         /\ (a - 1) + 1 = a
OBVIOUS

LEMMA PlacesOfField ==
  ASSUME NEW L \in Nat, NEW a \in 1 .. L + 1, NEW from \in a .. L, NEW n \in from .. L,
         NEW k \in n + 1 .. L + 1, NEW b \in k .. L + 1
  PROVE  /\ b \in a .. L + 1 /\ b - 1 \in from - 1 .. L /\ b - 1 \in k - 1 .. L
         /\ from \in 1 .. L + 1 /\ n - 1 \in from - 1 .. L /\ n - 1 \in 0 .. L
         /\ b - 1 \in n - 1 .. L /\ (n - 1) + 1 = n
<1>1. b \in a .. L + 1 /\ from \in 1 .. L + 1
  OBVIOUS
<1>2. b - 1 \in from - 1 .. L
  OBVIOUS
<1>3. b - 1 \in k - 1 .. L /\ b - 1 \in n - 1 .. L
  OBVIOUS
<1>4. n - 1 \in from - 1 .. L /\ n - 1 \in 0 .. L /\ (n - 1) + 1 = n
  OBVIOUS
<1> QED
  BY <1>1, <1>2, <1>3, <1>4

\* A step that reads a stretch has read it to the end.
LEMMA ReadsStretch ==
  ASSUME IInv, query' = query, i' \in i .. Len(query) + 1,
         WordsRead(tokens') = WordsRead(tokens) \o Words(i, i' - 1),
         WordsRead(tokens) = Words(1, i - 1)
  PROVE  WordsRead(tokens') = WordsOf(SubSeq(query', 1, i' - 1))
<1> DEFINE m == i - 1
           b == i' - 1
<1>1. i \in 1 .. Len(query) + 1 /\ Len(query) \in Nat
  BY DEF IInv
<1>2. /\ 1 \in 1 .. Len(query) + 1 /\ m \in 1 - 1 .. Len(query) /\ b \in m .. Len(query)
      /\ m + 1 = i
  BY <1>1, PlacesBefore
<1> HIDE DEF m, b
<1>3. Words(1, b) = Words(1, m) \o Words(m + 1, b)
  BY <1>2, WordsMeet
<1> QED
  BY <1>2, <1>3 DEF Words, m, b

\* A step that emits nothing has read nothing but marks.
LEMMA SkipReads ==
  ASSUME IInv, ReadSoFar, UNCHANGED <<query, tokens>>, i' \in i .. Len(query) + 1,
         Words(i, i' - 1) = <<>>
  PROVE  ReadSoFar'
<1> DEFINE T == ToSet(query)
<1>1. /\ 1 \in 1 .. Len(query) + 1 /\ i - 1 \in 1 - 1 .. Len(query) /\ i - 1 \in i - 1 .. Len(query)
  BY DEF IInv
<1>2. Words(1, i - 1) \in Seq(T)
  BY <1>1, WordsMeet
<1>3. Words(1, i - 1) \o <<>> = Words(1, i - 1)
  <2> HIDE DEF T
  <2> QED
    BY <1>2
<1>4. WordsRead(tokens) = Words(1, i - 1)
  BY DEF ReadSoFar, Words
<1>5. WordsRead(tokens') = WordsRead(tokens) \o Words(i, i' - 1)
  BY <1>3, <1>4
<1>6. WordsRead(tokens') = WordsOf(SubSeq(query', 1, i' - 1))
  BY <1>4, <1>5, ReadsStretch
<1>7. \A t \in ToSet(tokens') : t.field \in Seq(ToSet(query')) /\ t.value \in Seq(ToSet(query'))
  BY DEF ReadSoFar
<1> QED
  BY <1>6, <1>7 DEF ReadSoFar

\* What a token adds to the words that have been read.
LEMMA TokenAddsWords ==
  ASSUME NEW T, NEW ts, ts \in Seq(ToSet(ts)), NEW new,
         \A t \in ToSet(ts) \cup {new} : t.field \in Seq(T) /\ t.value \in Seq(T)
  PROVE  WordsRead(Append(ts, new)) = WordsRead(ts) \o (WordsOf(new.field) \o WordsOf(new.value))
<1> DEFINE text(t) == t.field \o t.value
           more == Append(ts, new)
           a == [k \in 1 .. Len(ts) |-> text(ts[k])]
           b == <<text(new)>>
           ab == [k \in 1 .. Len(more) |-> text(more[k])]
           S == ToSet(ts) \cup {new}
<1>1. \A t \in S : text(t) \in Seq(T)
  <2>1. \A u, v \in Seq(T) : u \o v \in Seq(T)
    OBVIOUS
  <2> QED
    BY <2>1
<1>2. /\ Len(ts) \in Nat /\ Len(more) = Len(ts) + 1
      /\ \A k \in 1 .. Len(ts) : ts[k] \in S /\ more[k] = ts[k]
      /\ more[Len(ts) + 1] = new /\ new \in S
  <2>1. ts \in Seq(S)
    <3>1. ts \in [1 .. Len(ts) -> ToSet(ts)] /\ Len(ts) \in Nat
      OBVIOUS
    <3>2. ts \in [1 .. Len(ts) -> S]
      BY <3>1
    <3> HIDE DEF S
    <3> QED
      BY <3>1, <3>2
  <2>2. new \in S
    OBVIOUS
  <2> HIDE DEF S
  <2> QED
    BY <2>1, <2>2
<1>3. /\ WordsRead(ts) = WordsOf(FlattenSeq(a)) /\ WordsRead(more) = WordsOf(FlattenSeq(ab))
  BY DEF WordsRead
<1> HIDE DEF text, more, S
<1>4. a \in Seq(Seq(T)) /\ Len(a) = Len(ts)
  BY <1>1, <1>2
<1>5. b \in Seq(Seq(T)) /\ Len(b) = 1 /\ b[1] = text(new)
  BY <1>1, <1>2
<1>6. ab = a \o b
  <2>1. ASSUME NEW k \in 1 .. Len(more) PROVE ab[k] = (a \o b)[k]
    <3>1. CASE k \in 1 .. Len(ts)
      <4>1. (a \o b)[k] = a[k]
        <5> HIDE DEF a, b
        <5> QED
          BY <1>4, <1>5, <3>1
      <4> QED
        BY <1>2, <3>1, <4>1
    <3>2. CASE k = Len(ts) + 1
      <4>1. (a \o b)[k] = b[1]
        <5>1. /\ k \in 1 .. Len(a) + Len(b) /\ ~ (k <= Len(a)) /\ k - Len(a) = 1
          BY <1>2, <1>4, <1>5, <3>2
        <5> HIDE DEF a, b
        <5>2. (a \o b)[k] = IF k <= Len(a) THEN a[k] ELSE b[k - Len(a)]
          BY ZenonT(60), <1>4, <1>5, <5>1, ConcatProperties
        <5> QED
          BY <5>1, <5>2
      <4> QED
        BY <1>2, <1>5, <3>2, <4>1
    <3> QED
      BY <1>2, <3>1, <3>2
  <2>2. a \o b \in [1 .. Len(ts) + 1 -> Seq(T)]
    <3>1. a \o b \in Seq(Seq(T)) /\ Len(a \o b) = Len(ts) + 1
      <4> DEFINE U == Seq(T)
      <4>1. Len(a) = Len(ts) /\ Len(b) = 1 /\ a \in Seq(U) /\ b \in Seq(U)
        BY <1>4, <1>5
      <4> HIDE DEF a, b, U
      <4>2. a \o b \in Seq(U) /\ Len(a \o b) = Len(a) + Len(b)
        BY <4>1, ConcatProperties
      <4> QED
        BY <4>1, <4>2 DEF U
    <3> QED
      BY <3>1, LenProperties
  <2>3. ab \in [1 .. Len(ts) + 1 -> Seq(T)]
    BY <1>1, <1>2
  <2> HIDE DEF a, b, ab
  <2> QED
    BY <1>2, <2>1, <2>2, <2>3
<1>7. FlattenSeq(b) = text(new)
  BY <1>1, <1>2, FlattenSmall
<1> HIDE DEF a, b, ab
<1>8. FlattenSeq(ab) = FlattenSeq(a) \o text(new) /\ FlattenSeq(a) \in Seq(T)
  BY <1>4, <1>5, <1>6, <1>7, FlattenConcat
<1>9. WordsOf(FlattenSeq(a) \o text(new)) = WordsOf(FlattenSeq(a)) \o WordsOf(text(new))
  BY <1>1, <1>2, <1>8, WordsConcat
<1>10. WordsOf(text(new)) = WordsOf(new.field) \o WordsOf(new.value)
  <2>1. new.field \in Seq(T) /\ new.value \in Seq(T)
    OBVIOUS
  <2> QED
    BY <2>1, WordsConcat DEF text
<1> QED
  BY <1>3, <1>8, <1>9, <1>10 DEF more

LEMMA EmitReads ==
  ASSUME IInv, ReadSoFar, query' = query, i' \in i .. Len(query) + 1,
         NEW kind, NEW field \in Seq(ToSet(query)), NEW op, NEW value \in Seq(ToSet(query)),
         Emit(kind, field, op, value),
         Words(i, i' - 1) = WordsOf(field) \o WordsOf(value)
  PROVE  ReadSoFar'
<1> DEFINE new == [negate |-> query[i] = "-", kind |-> kind, field |-> field, op |-> op, value |-> value]
           T == ToSet(query)
<1>1. tokens' = Append(tokens, new)
  BY DEF Emit
<1>2. new.field = field /\ new.value = value
  OBVIOUS
<1> HIDE DEF new
<1>3. tokens \in Seq(ToSet(tokens)) /\ ToSet(tokens') = ToSet(tokens) \cup {new}
  BY <1>1, AppendAdds DEF IInv
<1>4. \A t \in ToSet(tokens) \cup {new} : t.field \in Seq(T) /\ t.value \in Seq(T)
  BY <1>2 DEF ReadSoFar
<1> HIDE DEF T
<1>5. WordsRead(tokens') = WordsRead(tokens) \o Words(i, i' - 1)
  <2>1. WordsRead(Append(tokens, new)) = WordsRead(tokens) \o (WordsOf(new.field) \o WordsOf(new.value))
    BY ZenonT(60), <1>3, <1>4, TokenAddsWords
  <2> QED
    BY <1>1, <1>2, <2>1
<1>6. WordsRead(tokens) = Words(1, i - 1)
  BY DEF ReadSoFar, Words
<1>7. WordsRead(tokens') = WordsOf(SubSeq(query', 1, i' - 1))
  BY <1>5, <1>6, ReadsStretch
<1>8. \A t \in ToSet(tokens') : t.field \in Seq(ToSet(query')) /\ t.value \in Seq(ToSet(query'))
  BY <1>3, <1>4 DEF T
<1> QED
  BY <1>7, <1>8 DEF ReadSoFar

LEMMA PieceOfQuery ==
  ASSUME IInv, NEW a \in 1 .. Len(query) + 1, NEW b \in 0 .. Len(query)
  PROVE  /\ SubSeq(query, a, b) \in Seq(ToSet(query))
         /\ <<>> \o WordsOf(SubSeq(query, a, b)) = WordsOf(SubSeq(query, a, b))
<1> DEFINE T == ToSet(query)
           s == SubSeq(query, a, b)
<1>1. query \in Seq(T) /\ Len(query) \in Nat
  BY DEF IInv
<1> HIDE DEF T
<1>2. s \in Seq(T)
  BY <1>1
<1> HIDE DEF s
<1>3. WordsOf(s) \in Seq(T)
  BY <1>2, WordsConcat
<1>4. <<>> \o WordsOf(s) = WordsOf(s)
  BY <1>3
<1> QED
  BY <1>2, <1>4 DEF s, T

\* The dash before a term is not a word.
LEMMA TermWords ==
  ASSUME IInv, AtTerm, From <= Len(query), NEW b \in From - 1 .. Len(query)
  PROVE  Words(i, b) = Words(From, b)
<1>1. /\ i \in 1 .. Len(query) /\ Len(query) \in Nat
      /\ From = i \/ (From = i + 1 /\ query[i] = "-")
  BY TermPlaces DEF IInv
<1>2. CASE From = i + 1 /\ query[i] = "-"
  <2>1. b \in i .. Len(query) /\ query[i] \in Marks
    BY <1>1, <1>2 DEF Marks
  <2> QED
    BY <1>1, <1>2, <2>1, MarksDoNotCount
<1> QED
  BY <1>1, <1>2

LEMMA StepReads ==
  ASSUME IInv, ReadSoFar, Next
  PROVE  ReadSoFar'
<1> DEFINE L == Len(query)
           T == ToSet(query)
<1>1. L \in Nat /\ i \in 1 .. L + 1 /\ <<>> \in Seq(T)
  BY DEF IInv
<1> HIDE DEF T
<1>2. ASSUME i \in 1 .. L, query[i] \in Marks PROVE Words(i, i) = <<>>
  <2>1. Words(i, i) = Words(i + 1, i)
    <3>1. i \in i .. L
      BY <1>1, <1>2
    <3> QED
      BY <1>2, <3>1, MarksDoNotCount
  <2> QED
    BY <1>1, <2>1, NoWords
<1>3. CASE SkipSpace \/ DropDash
  <2>1. i \in 1 .. L /\ query[i] \in Marks /\ i' = i + 1 /\ UNCHANGED <<query, tokens>>
    <3>1. CASE SkipSpace
      BY <1>1, <3>1 DEF SkipSpace, Lexing, AtTerm, Marks
    <3>2. CASE DropDash
      <4>1. i \in 1 .. L /\ query[i] = "-" /\ i' = i + 1
        BY <1>1, <3>2 DEF DropDash, AtTerm, Lexing, From
      <4> QED
        BY <3>2, <4>1 DEF DropDash, Marks
    <3> QED
      BY <1>3, <3>1, <3>2
  <2>2. i' \in i .. L + 1 /\ i' - 1 = i
    BY <1>1, <2>1
  <2>3. Words(i, i' - 1) = <<>>
    BY <1>2, <2>1, <2>2
  <2> QED
    BY <2>1, <2>2, <2>3, SkipReads
<1>4. CASE ReadQuoted
  <2>1. /\ AtTerm /\ From <= L /\ From \in i .. L /\ query[From] \in Quotes
        /\ i' = Behind(From) /\ query' = query
    BY <1>4, TermPlaces DEF ReadQuoted
  <2> DEFINE k == From
             e == EndOfQuoted(k)
             value == SubSeq(query, k + 1, e - 1)
  <2>2. Emit("text", <<>>, ":", value)
    BY <1>4 DEF ReadQuoted
  <2> HIDE DEF k
  <2>3. k \in 1 .. L /\ k \in i .. L /\ query[k] \in Quotes /\ k = From
    BY <1>1, <2>1 DEF k
  <2>4. /\ Words(k, Behind(k) - 1) = Words(k + 1, e - 1)
        /\ Behind(k) \in k + 1 .. L + 1 /\ e \in k + 1 .. L + 1
    BY <2>3, QuotedWords
  <2> HIDE DEF e
  <2>5. i' \in i .. L + 1 /\ i' - 1 \in k - 1 .. L /\ k + 1 \in 1 .. L + 1 /\ e - 1 \in 0 .. L
    BY <1>1, <2>1, <2>3, <2>4
  <2>6. Words(i, i' - 1) = WordsOf(value)
    BY <2>1, <2>3, <2>4, <2>5, TermWords DEF Words
  <2>7. value \in Seq(T) /\ <<>> \o WordsOf(value) = WordsOf(value)
    BY <2>5, PieceOfQuery DEF T
  <2>8. Words(i, i' - 1) = WordsOf(<<>>) \o WordsOf(value)
    BY <2>6, <2>7, WordsOfLittle
  <2> HIDE DEF value
  <2> QED
    BY <1>1, <2>1, <2>2, <2>5, <2>7, <2>8, EmitReads DEF T
<1>5. CASE ReadWord
  <2>1. /\ AtTerm /\ From <= L /\ From \in i .. L /\ NameEnd \in From .. L + 1
        /\ i' = NameEnd /\ query' = query
    BY <1>5, TermPlaces DEF ReadWord, BareTerm
  <2> DEFINE value == SubSeq(query, From, NameEnd - 1)
  <2>2. Emit("text", <<>>, ":", value)
    BY <1>5 DEF ReadWord
  <2>3. /\ i' \in i .. L + 1 /\ i' - 1 \in From - 1 .. L
        /\ From \in 1 .. L + 1 /\ NameEnd - 1 \in 0 .. L
    BY <1>1, <2>1
  <2>4. Words(i, i' - 1) = WordsOf(value)
    BY <2>1, <2>3, TermWords DEF Words
  <2>5. value \in Seq(T) /\ <<>> \o WordsOf(value) = WordsOf(value)
    BY <2>3, PieceOfQuery DEF T
  <2>6. Words(i, i' - 1) = WordsOf(<<>>) \o WordsOf(value)
    BY <2>4, <2>5, WordsOfLittle
  <2> HIDE DEF value
  <2> QED
    BY <1>1, <2>1, <2>2, <2>3, <2>5, <2>6, EmitReads DEF T
<1>6. CASE ReadField
  <2> DEFINE n == NameEnd
             name == SubSeq(query, From, n - 1)
             hasOp == n < L /\ query[n + 1] \in Ops
             op == IF hasOp THEN query[n + 1] ELSE ":"
             k == IF hasOp THEN n + 2 ELSE n + 1
             quoted == k <= L /\ query[k] \in Quotes
             value == IF quoted THEN SubSeq(query, k + 1, EndOfQuoted(k) - 1)
                      ELSE SubSeq(query, k, FirstOf(Space, k) - 1)
  <2>1. /\ AtTerm /\ From <= L /\ From \in i .. L /\ n \in From .. L /\ query[n] = ":"
        /\ query' = query
    BY <1>6, TermPlaces DEF ReadField, BareTerm, IsField
  <2>2. /\ Emit("field", name, op, value)
        /\ i' = IF quoted THEN Behind(k) ELSE FirstOf(Space, k)
    <3>1. CASE quoted
      BY <1>6, <3>1 DEF ReadField
    <3>2. CASE ~ quoted
      BY <1>6, <3>2 DEF ReadField
    <3> QED
      BY <3>1, <3>2
  <2> HIDE DEF n
  <2>3. /\ k \in n + 1 .. L + 1 /\ n \in 1 .. L
        /\ \A b \in k - 1 .. L : Words(n, b) = Words(k, b)
    <3>1. n \in 1 .. L /\ query[n] \in Marks
      BY <1>1, <2>1 DEF Marks
    <3>2. ASSUME NEW b \in n .. L PROVE Words(n, b) = Words(n + 1, b)
      BY <3>1, MarksDoNotCount
    <3>3. CASE hasOp
      <4>1. n + 1 \in 1 .. L /\ query[n + 1] \in Marks /\ k = n + 2
        BY <1>1, <3>1, <3>3 DEF Marks
      <4>2. ASSUME NEW b \in n + 1 .. L PROVE Words(n + 1, b) = Words((n + 1) + 1, b)
        BY <4>1, MarksDoNotCount
      <4> HIDE DEF hasOp, k
      <4>3. (n + 1) + 1 = k /\ k \in n + 1 .. L + 1
        BY <1>1, <3>1, <4>1
      <4>4. ASSUME NEW b \in k - 1 .. L PROVE Words(n, b) = Words(k, b)
        <5>1. b \in n .. L /\ b \in n + 1 .. L
          BY <3>1, <4>3
        <5> QED
          BY <3>2, <4>2, <4>3, <5>1
      <4> QED
        BY <3>1, <4>3, <4>4
    <3>4. CASE ~ hasOp
      <4>1. k = n + 1
        BY <3>4
      <4> HIDE DEF hasOp, k
      <4>2. k \in n + 1 .. L + 1 /\ k - 1 = n
        BY <1>1, <3>1, <4>1
      <4> QED
        BY <3>1, <3>2, <4>1, <4>2
    <3> QED
      BY <3>3, <3>4
  <2> HIDE DEF k, op, hasOp
  <2>4. /\ i' \in k .. L + 1 /\ value \in Seq(T)
        /\ Words(k, i' - 1) = WordsOf(value)
    <3>1. CASE quoted
      <4> DEFINE e == EndOfQuoted(k)
      <4>1. k \in 1 .. L
        BY <1>1, <2>3, <3>1
      <4>2. /\ Words(k, Behind(k) - 1) = Words(k + 1, e - 1)
            /\ Behind(k) \in k + 1 .. L + 1 /\ e \in k + 1 .. L + 1
        BY <3>1, <4>1, QuotedWords
      <4>3. i' = Behind(k) /\ value = SubSeq(query, k + 1, e - 1)
        BY <2>2, <3>1
      <4> HIDE DEF e
      <4>4. k + 1 \in 1 .. L + 1 /\ e - 1 \in 0 .. L /\ i' \in k .. L + 1
        BY <1>1, <4>1, <4>2, <4>3
      <4> HIDE DEF value
      <4> QED
        BY <4>2, <4>3, <4>4, PieceOfQuery DEF T, Words
    <3>2. CASE ~ quoted
      <4> DEFINE f == FirstOf(Space, k)
      <4>1. k \in 1 .. L + 1
        BY <1>1, <2>3
      <4>2. f \in k .. L + 1
        BY <1>1, <4>1, FirstOfGoesOn
      <4>3. i' = f /\ value = SubSeq(query, k, f - 1)
        BY <2>2, <3>2
      <4> HIDE DEF f, value
      <4>4. f - 1 \in 0 .. L
        BY <1>1, <4>1, <4>2
      <4> QED
        BY <4>1, <4>2, <4>3, <4>4, PieceOfQuery DEF T, Words
    <3> QED
      BY <3>1, <3>2
  <2> HIDE DEF quoted, value
  <2>5. /\ i' \in i .. L + 1 /\ i' - 1 \in From - 1 .. L /\ i' - 1 \in k - 1 .. L
        /\ From \in 1 .. L + 1 /\ n - 1 \in From - 1 .. L /\ n - 1 \in 0 .. L
        /\ i' - 1 \in n - 1 .. L /\ (n - 1) + 1 = n
    <3>1. /\ From \in i .. L /\ n \in From .. L /\ k \in n + 1 .. L + 1 /\ i' \in k .. L + 1
      BY <2>1, <2>3, <2>4
    <3> HIDE DEF L
    <3> QED
      BY <1>1, <3>1, PlacesOfField
  <2>6. Words(i, i' - 1) = Words(From, i' - 1)
    BY <2>1, <2>5, TermWords
  <2>7. Words(From, i' - 1) = Words(From, n - 1) \o Words(n, i' - 1)
    <3> DEFINE m == n - 1
               b == i' - 1
    <3>1. m \in From - 1 .. L /\ b \in m .. L /\ m + 1 = n
      BY <2>5
    <3> HIDE DEF m, b
    <3>2. Words(From, b) = Words(From, m) \o Words(m + 1, b)
      BY <2>5, <3>1, WordsMeet
    <3> QED
      BY <3>1, <3>2 DEF m, b
  <2>8. Words(i, i' - 1) = WordsOf(name) \o WordsOf(value)
    BY <2>3, <2>4, <2>5, <2>6, <2>7 DEF Words
  <2>9. name \in Seq(T)
    BY <2>5, PieceOfQuery DEF T
  <2> HIDE DEF name
  <2> QED
    BY <2>1, <2>2, <2>4, <2>5, <2>8, <2>9, EmitReads DEF T
<1>7. CASE Reply
  BY <1>7 DEF Reply, ReadSoFar
<1> QED
  BY <1>3, <1>4, <1>5, <1>6, <1>7 DEF Next

LEMMA ReadSoFarAlways == Spec => [](IInv /\ ReadSoFar)
<1>1. Init => ReadSoFar
  <2> SUFFICES ASSUME Init PROVE ReadSoFar
    OBVIOUS
  <2>1. IInv /\ tokens = <<>> /\ i = 1
    BY InvInit DEF Init
  <2>2. ToSet(tokens) = {}
    BY <2>1 DEF ToSet
  <2>3. WordsRead(<<>>) = WordsOf(FlattenSeq(<<>>))
    BY DEF WordsRead
  <2>4. WordsRead(tokens) = <<>>
    BY <2>1, <2>3, FlattenSmall, WordsOfLittle
  <2>5. Words(1, 1 - 1) = <<>>
    BY NoWords
  <2>6. Words(1, i - 1) = <<>>
    BY <2>1, <2>5
  <2> QED
    BY <2>2, <2>4, <2>6 DEF ReadSoFar, Words
<1>2. IInv /\ ReadSoFar /\ [Next]_vars => ReadSoFar'
  <2>1. ASSUME IInv, ReadSoFar, UNCHANGED vars PROVE ReadSoFar'
    BY <2>1 DEF vars, ReadSoFar
  <2> QED
    BY <2>1, StepReads
<1> QED
  BY <1>1, <1>2, InvInit, InvNext, PTL DEF Spec

-----------------------------------------------------------------------------
(* The search text.                                                        *)

\* A run ends before the first mark.
LEMMA RunIs ==
  ASSUME NEW T, NEW s \in Seq(T), NEW a \in 1 .. Len(s), NEW e \in a .. Len(s) + 1,
         e = Len(s) + 1 \/ s[e] \in Marks, \A k \in a .. e - 1 : s[k] \notin Marks
  PROVE  Run(s, a) = SubSeq(s, a, e - 1)
<1> DEFINE ends == {k \in a .. Len(s) + 1 : k > Len(s) \/ s[k] \in Marks}
<1>1. Len(s) \in Nat
  OBVIOUS
<1>2. ends \in SUBSET Nat /\ e \in ends
  BY <1>1
<1>3. \A k \in ends : e <= k
  BY <1>1
<1>4. Run(s, a) = SubSeq(s, a, Min(ends) - 1)
  BY DEF Run
<1> HIDE DEF ends
<1>5. Min(ends) \in ends /\ Min(ends) <= e
  BY <1>2, MinIsLeast
<1>6. Min(ends) = e
  <2>1. e <= Min(ends) /\ Min(ends) \in Nat /\ e \in Nat
    BY <1>2, <1>3, <1>5
  <2> QED
    BY <1>5, <2>1
<1> QED
  BY <1>4, <1>6

LEMMA RunEnds ==
  ASSUME NEW T, NEW s \in Seq(T), NEW a \in 1 .. Len(s)
  PROVE  \E e \in a .. Len(s) + 1 :
           /\ e = Len(s) + 1 \/ s[e] \in Marks
           /\ \A k \in a .. e - 1 : s[k] \notin Marks
<1> DEFINE ends == {k \in a .. Len(s) + 1 : k = Len(s) + 1 \/ s[k] \in Marks}
<1>1. Len(s) \in Nat
  OBVIOUS
<1>2. ends \in SUBSET Nat /\ Len(s) + 1 \in ends
  BY <1>1
<1>3. PICK e \in ends : \A k \in ends : e <= k
  <2> HIDE DEF ends
  <2> QED
    BY <1>2, LeastExists
<1>4. \A k \in a .. e - 1 : s[k] \notin Marks
  BY <1>1, <1>3
<1> QED
  BY <1>3, <1>4

\* Stretches of the same elements are the same.
LEMMA SameStretch ==
  ASSUME NEW T, NEW s \in Seq(T), NEW t \in Seq(T), NEW d \in Nat,
         NEW a \in 1 .. Len(t), NEW b \in a - 1 .. Len(t), d + Len(t) <= Len(s),
         \A k \in a .. b : s[d + k] = t[k]
  PROVE  SubSeq(s, d + a, d + b) = SubSeq(t, a, b)
<1> DEFINE u == SubSeq(s, d + a, d + b)
           v == SubSeq(t, a, b)
<1>1. /\ Len(s) \in Nat /\ Len(t) \in Nat /\ d + a \in Int /\ d + b \in Int /\ a \in Int /\ b \in Int
      /\ (d + b) - (d + a) + 1 = b - a + 1 /\ b - a + 1 \in Nat
  OBVIOUS
<1>2. \A k \in d + a .. d + b : s[k] \in T
  BY <1>1
<1>3. \A k \in a .. b : t[k] \in T
  BY <1>1
<1>4. /\ u \in Seq(T) /\ Len(u) = b - a + 1
      /\ \A k \in 1 .. b - a + 1 : u[k] = s[(d + a) + k - 1]
  <2>1. /\ u \in Seq(T) /\ Len(u) = IF d + a <= d + b THEN (d + b) - (d + a) + 1 ELSE 0
        /\ \A k \in 1 .. (d + b) - (d + a) + 1 : u[k] = s[(d + a) + k - 1]
    <3> DEFINE m == d + a
               n == d + b
    <3>1. m \in Int /\ n \in Int /\ \A k \in m .. n : s[k] \in T
      BY <1>1, <1>2
    <3> HIDE DEF m, n
    <3>2. /\ SubSeq(s, m, n) \in Seq(T) /\ Len(SubSeq(s, m, n)) = IF m <= n THEN n - m + 1 ELSE 0
          /\ \A k \in 1 .. n - m + 1 : SubSeq(s, m, n)[k] = s[m + k - 1]
      BY <3>1, SubSeqProperties
    <3> QED
      BY <3>2 DEF m, n
  <2> HIDE DEF u
  <2> QED
    BY <1>1, <2>1
<1>5. /\ v \in Seq(T) /\ Len(v) = b - a + 1
      /\ \A k \in 1 .. b - a + 1 : v[k] = t[a + k - 1]
  <2>1. /\ v \in Seq(T) /\ Len(v) = IF a <= b THEN b - a + 1 ELSE 0
        /\ \A k \in 1 .. b - a + 1 : v[k] = t[a + k - 1]
    BY <1>1, <1>3, SubSeqProperties
  <2> HIDE DEF v
  <2> QED
    BY SMTT(30), <1>1, <2>1
<1> HIDE DEF u, v
<1>6. ASSUME NEW k \in 1 .. b - a + 1 PROVE u[k] = v[k]
  <2>1. (d + a) + k - 1 = d + (a + k - 1) /\ a + k - 1 \in a .. b
    BY <1>1
  <2> QED
    BY <1>4, <1>5, <2>1
<1>7. u = v
  BY <1>4, <1>5, <1>6, SeqEqual
<1> QED
  BY <1>7 DEF u, v

\* A mark between two texts keeps their runs apart.
LEMMA RunsApart ==
  ASSUME NEW T, NEW u \in Seq(T), NEW c \in T \cap Marks, NEW v \in Seq(T)
  PROVE  Runs(u \o (<<c>> \o v)) = Runs(u) \cup Runs(v)
<1> DEFINE w == u \o (<<c>> \o v)
           U == Len(u)
           V == Len(v)
           d == U + 1
<1>1. /\ U \in Nat /\ V \in Nat /\ w \in Seq(T) /\ Len(w) = U + 1 + V
      /\ \A k \in 1 .. U : w[k] = u[k]
      /\ w[U + 1] = c
      /\ \A k \in 1 .. V : w[(U + 1) + k] = v[k]
  OBVIOUS
<1> HIDE DEF w, U, V
<1>2. d \in Nat /\ d = U + 1 /\ w[d] \in Marks /\ \A k \in 1 .. V : w[d + k] = v[k]
  BY <1>1
<1> HIDE DEF d
<1>3. ASSUME NEW a \in Starts(u) PROVE a \in Starts(w) /\ Run(w, a) = Run(u, a)
  <2>1. a \in 1 .. U /\ u[a] \notin Marks /\ (a = 1 \/ u[a - 1] \in Marks)
    BY DEF Starts, U
  <2>2. a \in Starts(w)
    BY <1>1, <2>1 DEF Starts
  <2>3. PICK e \in a .. U + 1 :
          /\ e = U + 1 \/ u[e] \in Marks
          /\ \A k \in a .. e - 1 : u[k] \notin Marks
    BY <2>1, RunEnds DEF U
  <2>4. Run(u, a) = SubSeq(u, a, e - 1)
    BY <2>1, <2>3, RunIs DEF U
  <2>5. Run(w, a) = SubSeq(w, a, e - 1)
    <3>1. a \in 1 .. Len(w) /\ e \in a .. Len(w) + 1
      BY <1>1, <2>1, <2>3
    <3>2. w[e] \in Marks
      <4>1. CASE e = U + 1
        BY <1>1, <4>1
      <4>2. CASE e # U + 1
        <5>1. e \in 1 .. U
          BY <1>1, <2>1, <2>3, <4>2
        <5> QED
          BY <1>1, <2>3, <4>2, <5>1
      <4> QED
        BY <4>1, <4>2
    <3>3. ASSUME NEW k \in a .. e - 1 PROVE w[k] \notin Marks
      <4>1. k \in 1 .. U
        BY <1>1, <2>1, <2>3
      <4> QED
        BY <1>1, <2>3, <4>1
    <3> QED
      BY <1>1, <3>1, <3>2, <3>3, RunIs
  <2>6. SubSeq(w, a, e - 1) = SubSeq(u, a, e - 1)
    <3> DEFINE b == e - 1
    <3>1. /\ 0 \in Nat /\ b \in a - 1 .. U /\ 0 + U <= Len(w) /\ 0 + a = a /\ 0 + b = b
      BY <1>1, <2>1, <2>3
    <3> HIDE DEF b
    <3>2. \A k \in a .. b : w[0 + k] = u[k]
      BY <1>1, <2>1, <3>1
    <3>3. SubSeq(w, 0 + a, 0 + b) = SubSeq(u, a, b)
      BY <1>1, <2>1, <3>1, <3>2, SameStretch DEF U
    <3> QED
      BY <3>1, <3>3 DEF b
  <2> QED
    BY <2>2, <2>4, <2>5, <2>6
<1>4. ASSUME NEW a \in Starts(v) PROVE d + a \in Starts(w) /\ Run(w, d + a) = Run(v, a)
  <2>1. a \in 1 .. V /\ v[a] \notin Marks /\ (a = 1 \/ v[a - 1] \in Marks)
    BY DEF Starts, V
  <2>2. d + a \in Starts(w)
    <3>1. d + a \in 1 .. Len(w) /\ w[d + a] \notin Marks
      BY <1>1, <1>2, <2>1
    <3>2. w[(d + a) - 1] \in Marks
      <4>1. CASE a = 1
        <5>1. (d + a) - 1 = d
          BY <1>2, <4>1
        <5> QED
          BY <1>2, <5>1
      <4>2. CASE a # 1
        <5>1. (d + a) - 1 = d + (a - 1) /\ a - 1 \in 1 .. V
          BY <1>1, <1>2, <2>1, <4>2
        <5> QED
          BY <1>2, <2>1, <4>2, <5>1
      <4> QED
        BY <4>1, <4>2
    <3> QED
      BY <3>1, <3>2 DEF Starts
  <2>3. PICK e \in a .. V + 1 :
          /\ e = V + 1 \/ v[e] \in Marks
          /\ \A k \in a .. e - 1 : v[k] \notin Marks
    BY <2>1, RunEnds DEF V
  <2>4. Run(v, a) = SubSeq(v, a, e - 1)
    BY <2>1, <2>3, RunIs DEF V
  <2>5. Run(w, d + a) = SubSeq(w, d + a, (d + e) - 1)
    <3> DEFINE x == d + a
               y == d + e
    <3>1. x \in 1 .. Len(w) /\ y \in x .. Len(w) + 1
      BY <1>1, <1>2, <2>1, <2>3
    <3>2. y = Len(w) + 1 \/ w[y] \in Marks
      <4>1. CASE e = V + 1
        BY <1>1, <1>2, <4>1
      <4>2. CASE e # V + 1
        <5>1. e \in 1 .. V
          BY <1>1, <2>1, <2>3, <4>2
        <5> QED
          BY <1>2, <2>3, <4>2, <5>1
      <4> QED
        BY <4>1, <4>2
    <3>3. ASSUME NEW k \in x .. y - 1 PROVE w[k] \notin Marks
      <4>1. k - d \in a .. e - 1 /\ k - d \in 1 .. V /\ d + (k - d) = k
        BY <1>1, <1>2, <2>1, <2>3
      <4> QED
        BY <1>2, <2>3, <4>1
    <3> HIDE DEF x, y
    <3>4. Run(w, x) = SubSeq(w, x, y - 1)
      BY <1>1, <3>1, <3>2, <3>3, RunIs
    <3> QED
      BY <3>4 DEF x, y
  <2>6. SubSeq(w, d + a, (d + e) - 1) = SubSeq(v, a, e - 1)
    <3> DEFINE b == e - 1
    <3>1. b \in a - 1 .. V /\ d + V <= Len(w) /\ d + b = (d + e) - 1
      BY SMTT(30), <1>1, <1>2, <2>1, <2>3
    <3> HIDE DEF b
    <3>2. \A k \in a .. b : w[d + k] = v[k]
      BY <1>1, <1>2, <2>1, <3>1
    <3>3. SubSeq(w, d + a, d + b) = SubSeq(v, a, b)
      <4>1. /\ w \in Seq(T) /\ d \in Nat /\ a \in 1 .. Len(v) /\ b \in a - 1 .. Len(v)
            /\ d + Len(v) <= Len(w)
        BY <1>1, <1>2, <2>1, <3>1 DEF V
      <4> QED
        BY <3>2, <4>1, SameStretch
    <3> QED
      BY <3>1, <3>3 DEF b
  <2> QED
    BY <2>2, <2>4, <2>5, <2>6
<1>5. ASSUME NEW x \in Starts(w) PROVE x \in Starts(u) \/ \E a \in Starts(v) : x = d + a
  <2>1. x \in 1 .. Len(w) /\ w[x] \notin Marks /\ (x = 1 \/ w[x - 1] \in Marks)
    BY DEF Starts
  <2>2. CASE x <= U
    <3>1. x \in 1 .. U /\ (x = 1 \/ x - 1 \in 1 .. U)
      BY <1>1, <2>1, <2>2
    <3>2. u[x] \notin Marks /\ (x = 1 \/ u[x - 1] \in Marks)
      BY <1>1, <2>1, <3>1
    <3> QED
      BY <3>1, <3>2 DEF Starts, U
  <2>3. CASE x > U
    <3> DEFINE a == x - d
    <3>1. x # d
      BY <1>2, <2>1
    <3>2. a \in 1 .. V /\ x = d + a
      BY <1>1, <1>2, <2>1, <2>3, <3>1
    <3> HIDE DEF a
    <3>3. v[a] \notin Marks
      BY <1>2, <2>1, <3>2
    <3>4. a = 1 \/ v[a - 1] \in Marks
      <4> SUFFICES ASSUME a # 1 PROVE v[a - 1] \in Marks
        OBVIOUS
      <4>1. a - 1 \in 1 .. V /\ x - 1 = d + (a - 1) /\ x # 1
        BY <1>1, <1>2, <3>2
      <4> QED
        BY <1>2, <2>1, <4>1
    <3>5. a \in Starts(v)
      BY <3>2, <3>3, <3>4 DEF Starts, V
    <3> QED
      BY <3>2, <3>5
  <2> QED
    BY <1>1, <2>1, <2>2, <2>3
<1>6. Runs(w) \subseteq Runs(u) \cup Runs(v)
  BY <1>3, <1>4, <1>5 DEF Runs
<1>7. Runs(u) \subseteq Runs(w) /\ Runs(v) \subseteq Runs(w)
  BY <1>3, <1>4 DEF Runs
<1> QED
  BY <1>6, <1>7 DEF w

\* Runs of no text.
LEMMA NoRuns == Runs(<<>>) = {}
<1>1. Starts(<<>>) = {}
  BY DEF Starts
<1> QED
  BY <1>1 DEF Runs

\* Terms that are glued with a mark have the runs of every one of them.
GluedWith(c, terms) == Tail(FlattenSeq([k \in 1 .. Len(terms) |-> <<c>> \o terms[k]]))

LEMMA GluedRuns ==
  ASSUME NEW T, NEW c \in T \cap Marks, NEW terms \in Seq(Seq(T)), terms # <<>>
  PROVE  /\ GluedWith(c, terms) \in Seq(T)
         /\ Runs(GluedWith(c, terms)) = UNION {Runs(terms[k]) : k \in 1 .. Len(terms)}
<1> DEFINE S == Seq(T)
           N == Len(terms)
           spaced == [k \in 1 .. N |-> <<c>> \o terms[k]]
           RunsUpTo(n) == UNION {Runs(terms[k]) : k \in 1 .. n}
<1>1. N \in Nat /\ N # 0 /\ \A k \in 1 .. N : terms[k] \in S
  OBVIOUS
<1>2. \A v \in S : <<c>> \o v \in S /\ (<<c>> \o v)[1] = c /\ Len(<<c>> \o v) # 0
  OBVIOUS
<1>3. /\ spaced \in Seq(S) /\ Len(spaced) = N
      /\ \A k \in 1 .. N : spaced[k] = <<c>> \o terms[k]
  <2> HIDE DEF S, N
  <2>1. spaced \in [1 .. N -> S]
    BY <1>1, <1>2
  <2> QED
    BY SMTT(30), <1>1, <2>1
<1>4. FlattenSeq(spaced) = FlattenSeq([k \in 1 .. Len(terms) |-> <<c>> \o terms[k]])
  OBVIOUS
<1> HIDE DEF spaced
<1>5. PICK f : Flattens(f, T, spaced) /\ FlattenSeq(spaced) = f[Len(spaced)]
  BY <1>3, FlattenSteps
<1>6. /\ f \in [0 .. N -> S] /\ f[0] = <<>>
      /\ \A n \in 1 .. N : f[n] = f[n - 1] \o (<<c>> \o terms[n])
  <2>1. /\ f \in [0 .. Len(spaced) -> Seq(T)] /\ f[0] = <<>>
        /\ \A n \in 1 .. Len(spaced) : f[n] = f[n - 1] \o spaced[n]
    BY <1>5 DEF Flattens
  <2> HIDE DEF N
  <2> QED
    BY <1>3, <2>1
<1> HIDE DEF N
<1> DEFINE Spaced(s) == Len(s) # 0 /\ s[1] = c
           Good == {n \in 0 .. N : Runs(f[n]) = RunsUpTo(n) /\ (n # 0 => Spaced(f[n]))}
<1>7. 0 \in Good
  <2>1. RunsUpTo(0) = {}
    OBVIOUS
  <2> QED
    BY <1>1, <1>6, <2>1, NoRuns
<1>8. ASSUME NEW n \in 1 .. N, n - 1 \in Good PROVE n \in Good
  <2> DEFINE u == f[n - 1]
             v == terms[n]
             w == <<c>> \o v
  <2>1. u \in S /\ v \in S /\ f[n] = u \o w
    <3>1. n - 1 \in 0 .. N
      BY <1>1
    <3> QED
      BY <1>1, <1>6, <3>1
  <2>2. f[n] = u \o (<<c>> \o v)
    BY <2>1
  <2>3. w \in S /\ Spaced(w)
    BY <1>2, <2>1
  <2> HIDE DEF u, v, w
  <2>5. Runs(f[n]) = Runs(u) \cup Runs(v)
    BY <2>1, <2>2, RunsApart
  <2>6. Runs(u) = RunsUpTo(n - 1) /\ (n - 1 # 0 => Spaced(u))
    BY <1>8 DEF u
  <2>7. RunsUpTo(n) = RunsUpTo(n - 1) \cup Runs(v)
    <3>1. 1 .. n = (1 .. n - 1) \cup {n}
      BY <1>1
    <3> QED
      BY <3>1 DEF v
  <2>8. Spaced(f[n])
    <3>1. CASE n = 1
      <4>1. u = <<>>
        BY <1>6, <3>1 DEF u
      <4>2. f[n] = w
        BY <2>1, <2>3, <4>1
      <4> QED
        BY <2>3, <4>2
    <3>2. CASE n # 1
      <4>1. Spaced(u)
        BY <1>1, <2>6, <3>2
      <4> QED
        BY <2>1, <2>3, <4>1
    <3> QED
      BY <3>1, <3>2
  <2> HIDE DEF RunsUpTo, Spaced
  <2>9. n \in 0 .. N
    BY <1>1
  <2> QED
    BY <2>5, <2>6, <2>7, <2>8, <2>9
<1> HIDE DEF Good
<1>9. N \in Good
  <2>1. 0 .. N \subseteq Good
    BY <1>1, <1>7, <1>8, UpTo
  <2> QED
    BY <1>1, <2>1
<1> DEFINE all == f[N]
           rest == Tail(all)
<1>10. all \in S /\ Runs(all) = RunsUpTo(N) /\ Spaced(all)
  BY <1>1, <1>6, <1>9 DEF Good
<1>11. GluedWith(c, terms) = rest
  BY <1>3, <1>4, <1>5 DEF GluedWith
<1> HIDE DEF all
<1>12. rest \in S /\ all = <<>> \o (<<c>> \o rest)
  BY <1>10
<1> HIDE DEF rest
<1>13. Runs(all) = Runs(<<>>) \cup Runs(rest)
  <2> DEFINE none == <<>>
  <2>1. none \in Seq(T) /\ rest \in Seq(T) /\ all = none \o (<<c>> \o rest)
    BY <1>12
  <2> HIDE DEF none
  <2>2. Runs(none \o (<<c>> \o rest)) = Runs(none) \cup Runs(rest)
    BY <2>1, RunsApart
  <2> QED
    BY <2>1, <2>2 DEF none
<1> QED
  BY <1>10, <1>11, <1>12, <1>13, NoRuns DEF N

\* What is put behind a sequence is in its range.
LEMMA TextBehind ==
  ASSUME NEW V, NEW u \in Seq(V), NEW v \in V
  PROVE  ToSet(u \o <<v>>) = ToSet(u) \cup {v}
<1> DEFINE w == u \o <<v>>
           n == Len(u)
<1>1. /\ n \in Nat /\ w \in Seq(V) /\ Len(w) = n + 1 /\ w[n + 1] = v
      /\ \A k \in 1 .. n : w[k] = u[k]
  OBVIOUS
<1>2. 1 .. n + 1 = (1 .. n) \cup {n + 1}
  BY <1>1
<1>3. ToSet(w) = {w[k] : k \in 1 .. n + 1} /\ ToSet(u) = {u[k] : k \in 1 .. n}
  BY <1>1 DEF ToSet
<1> HIDE DEF w, n
<1>4. {w[k] : k \in 1 .. n + 1} = {w[k] : k \in 1 .. n} \cup {w[n + 1]}
  BY <1>2
<1>5. {w[k] : k \in 1 .. n} = {u[k] : k \in 1 .. n}
  BY <1>1
<1> QED
  BY <1>1, <1>3, <1>4, <1>5 DEF w

\* The positive text terms, in the order of the query.
PositiveTexts(ts) == FlattenSeq([k \in 1 .. Len(ts) |-> PositiveTerm(ts[k])])

LEMMA PositiveTextsAre ==
  ASSUME NEW U, NEW ts, ts \in Seq(ToSet(ts)),
         \A t \in ToSet(ts) : IsPositive(t) => t.value \in U
  PROVE  /\ PositiveTexts(ts) \in Seq(U)
         /\ ToSet(PositiveTexts(ts)) = {t.value : t \in {p \in ToSet(ts) : IsPositive(p)}}
<1> DEFINE N == Len(ts)
           S == Seq(U)
           parts == [k \in 1 .. N |-> PositiveTerm(ts[k])]
           Texts(n) == {ts[k].value : k \in {m \in 1 .. n : IsPositive(ts[m])}}
<1>1. N \in Nat /\ \A k \in 1 .. N : ts[k] \in ToSet(ts)
  OBVIOUS
<1>2. \A k \in 1 .. N : PositiveTerm(ts[k]) \in S
  BY <1>1 DEF PositiveTerm
<1>3. /\ parts \in Seq(S) /\ Len(parts) = N
      /\ \A k \in 1 .. N : parts[k] = PositiveTerm(ts[k])
  <2> HIDE DEF S, N
  <2>1. parts \in [1 .. N -> S]
    BY <1>1, <1>2
  <2> QED
    BY <1>1, <2>1
<1>4. PositiveTexts(ts) = FlattenSeq(parts)
  BY DEF PositiveTexts
<1> HIDE DEF parts
<1>5. PICK f : Flattens(f, U, parts) /\ FlattenSeq(parts) = f[Len(parts)]
  BY <1>3, FlattenSteps
<1> HIDE DEF N
<1>6. /\ f \in [0 .. N -> S] /\ f[0] = <<>>
      /\ \A n \in 1 .. N : f[n] = f[n - 1] \o PositiveTerm(ts[n])
  <2>1. /\ f \in [0 .. Len(parts) -> Seq(U)] /\ f[0] = <<>>
        /\ \A n \in 1 .. Len(parts) : f[n] = f[n - 1] \o parts[n]
    BY <1>5 DEF Flattens
  <2> QED
    BY <1>3, <2>1
<1> DEFINE Good == {n \in 0 .. N : ToSet(f[n]) = Texts(n)}
<1>7. 0 \in Good
  <2>1. ToSet(<<>>) = {} /\ Texts(0) = {}
    BY DEF ToSet
  <2> QED
    BY <1>1, <1>6, <2>1
<1>8. ASSUME NEW n \in 1 .. N, n - 1 \in Good PROVE n \in Good
  <2> DEFINE u == f[n - 1]
  <2>1. u \in S /\ ToSet(u) = Texts(n - 1)
    <3>1. n - 1 \in 0 .. N
      BY <1>1
    <3> QED
      BY <1>6, <1>8, <3>1
  <2>2. f[n] = u \o PositiveTerm(ts[n])
    BY <1>6
  <2> HIDE DEF u
  <2>3. 1 .. n = (1 .. n - 1) \cup {n}
    BY <1>1
  <2>4. ToSet(f[n]) = Texts(n)
    <3>1. CASE IsPositive(ts[n])
      <4> DEFINE v == ts[n].value
      <4>1. f[n] = u \o <<v>>
        BY <2>2, <3>1 DEF PositiveTerm
      <4>2. Texts(n) = Texts(n - 1) \cup {v}
        BY <2>3, <3>1
      <4> HIDE DEF v, Texts
      <4>3. v \in U
        BY <1>1, <3>1 DEF v
      <4>4. ToSet(u \o <<v>>) = ToSet(u) \cup {v}
        BY <2>1, <4>3, TextBehind
      <4> QED
        BY <2>1, <4>1, <4>2, <4>4
    <3>2. CASE ~ IsPositive(ts[n])
      <4>1. f[n] = u
        BY <2>1, <2>2, <3>2 DEF PositiveTerm
      <4>2. Texts(n) = Texts(n - 1)
        BY <2>3, <3>2
      <4> QED
        BY <2>1, <4>1, <4>2
    <3> QED
      BY <3>1, <3>2
  <2> HIDE DEF Texts
  <2> QED
    BY <1>1, <2>4
<1> HIDE DEF Good
<1>9. N \in Good
  <2>1. 0 .. N \subseteq Good
    BY <1>1, <1>7, <1>8, UpTo
  <2> QED
    BY <1>1, <2>1
<1>10. f[N] \in S /\ ToSet(f[N]) = Texts(N)
  BY <1>1, <1>6, <1>9 DEF Good
<1>11. Texts(N) = {t.value : t \in {p \in ToSet(ts) : IsPositive(p)}}
  <2>1. ToSet(ts) = {ts[k] : k \in 1 .. N}
    BY DEF ToSet, N
  <2> QED
    BY <2>1
<1> QED
  BY <1>3, <1>4, <1>5, <1>10, <1>11

\* A text without dashes, stop words and "or" is in the words of a row if all of
\* its runs are.
LEMMA PlainMatches ==
  ASSUME NEW T, NEW s \in Seq(T), "-" \notin T, NEW words,
         Runs(s) # {}, Runs(s) \cap (StopWords \cup {<<"or">>}) = {}
  PROVE  TextMatches(s, words) <=> Runs(s) \subseteq words
<1> DEFINE or == <<"or">>
           ors == {a \in Starts(s) : Run(s, a) = or}
           operands == {a \in Starts(s) \ ors : Run(s, a) \notin StopWords}
<1>1. \A a \in Starts(s) : Run(s, a) \in Runs(s)
  BY DEF Runs
<1> HIDE DEF or
<1>2. Runs(s) \cap (StopWords \cup {or}) = {}
  BY DEF or
<1>3. ors = {} /\ operands = Starts(s)
  BY <1>1, <1>2
<1>4. ASSUME NEW a \in Starts(s) PROVE ~ Minus(s, a)
  <2>1. a \in 1 .. Len(s)
    BY DEF Starts
  <2>2. a > 1 => s[a - 1] \in T
    BY <2>1
  <2> QED
    BY <2>2 DEF Minus
<1>5. TextMatches(s, words)
        <=> \E a \in operands : \A b \in operands :
              (\A o \in ors : o < a <=> o < b) => (Run(s, b) \in words <=> ~ Minus(s, b))
  BY DEF TextMatches, or
<1> HIDE DEF ors, operands
<1>6. TextMatches(s, words)
        <=> \E a \in Starts(s) : \A b \in Starts(s) : Run(s, b) \in words
  BY <1>3, <1>4, <1>5
<1>7. Starts(s) # {}
  BY DEF Runs
<1> QED
  BY <1>6, <1>7 DEF Runs

\* The plain search text of positive terms is in the words of a row if every one
\* of the terms is.
LEMMA SearchMatches ==
  ASSUME NEW V, NEW ts, ts \in Seq(ToSet(ts)), NEW words,
         \A t \in ToSet(ts) : IsPositive(t) => t.value \in Seq(V) /\ Plain(t),
         \E t \in ToSet(ts) : IsPositive(t)
  PROVE  TextMatches(SearchText(ts), words)
           <=> \A t \in ToSet(ts) : IsPositive(t) => Runs(t.value) \subseteq words
<1> DEFINE space == " "
           T == (V \cup {space}) \ {"-"}
           Positives == {p \in ToSet(ts) : IsPositive(p)}
           terms == PositiveTexts(ts)
           text == SearchText(ts)
<1>1. space \in Marks /\ space # "-"
  BY Zenon DEF Marks, Space
<1>2. space \in T \cap Marks /\ "-" \notin T
  BY <1>1, Zenon
<1> HIDE DEF space
<1>3. ASSUME NEW t \in Positives PROVE t.value \in Seq(T)
  <2> DEFINE v == t.value
  <2>1. v \in Seq(V) /\ "-" \notin ToSet(v)
    <3>1. v \in Seq(V) /\ Plain(t) /\ t.kind = "text"
      BY DEF IsPositive, IsText
    <3> QED
      BY <3>1, Zenon DEF Plain
  <2> HIDE DEF v
  <2>2. \A k \in 1 .. Len(v) : v[k] \in V /\ v[k] # "-"
    BY <2>1 DEF ToSet
  <2> QED
    BY <2>1, <2>2 DEF v
<1> HIDE DEF T
<1>4. terms \in Seq(Seq(T)) /\ ToSet(terms) = {t.value : t \in Positives}
  <2>1. \A t \in ToSet(ts) : IsPositive(t) => t.value \in Seq(T)
    BY <1>3
  <2> QED
    BY <2>1, PositiveTextsAre
<1>5. text = Joined(terms)
  BY DEF SearchText, PositiveTexts
<1> HIDE DEF text, terms
<1>6. terms # <<>>
  <2>1. ToSet(<<>>) = {}
    BY DEF ToSet
  <2> QED
    BY <1>4, <2>1
<1>7. text = GluedWith(space, terms)
  BY <1>5, Zenon DEF Joined, GluedWith, space
<1>8. text \in Seq(T) /\ Runs(text) = UNION {Runs(terms[k]) : k \in 1 .. Len(terms)}
  BY <1>2, <1>4, <1>6, <1>7, GluedRuns
<1>9. Runs(text) = UNION {Runs(t.value) : t \in Positives}
  <2>1. ToSet(terms) = {terms[k] : k \in 1 .. Len(terms)}
    BY <1>4 DEF ToSet
  <2>2. UNION {Runs(terms[k]) : k \in 1 .. Len(terms)} = UNION {Runs(v) : v \in ToSet(terms)}
    BY <2>1
  <2>3. UNION {Runs(v) : v \in ToSet(terms)} = UNION {Runs(t.value) : t \in Positives}
    BY <1>4
  <2> QED
    BY <1>8, <2>2, <2>3
<1>10. /\ Runs(text) # {}
       /\ Runs(text) \cap (StopWords \cup {<<"or">>}) = {}
  <2> DEFINE apart == StopWords \cup {<<"or">>}
  <2>1. ASSUME NEW t \in Positives PROVE Runs(t.value) # {} /\ Runs(t.value) \cap apart = {}
    BY DEF IsPositive, IsText, Plain
  <2> HIDE DEF apart
  <2>2. Runs(text) # {} /\ Runs(text) \cap apart = {}
    BY SMTT(30), <1>9, <2>1
  <2> QED
    BY <2>2 DEF apart
<1>11. TextMatches(text, words) <=> Runs(text) \subseteq words
  BY <1>2, <1>8, <1>10, PlainMatches
<1>12. Runs(text) \subseteq words <=> \A t \in Positives : Runs(t.value) \subseteq words
  BY <1>9
<1> QED
  BY <1>11, <1>12 DEF text

\* Where all text terms are plain, a query selects what every one of its terms
\* selects alone.
LEMMA TermsConjoin ==
  ASSUME NEW V, NEW ts, ts \in Seq(ToSet(ts)), NEW row,
         \A t \in ToSet(ts) : t.value \in Seq(V) /\ Plain(t)
  PROVE  Selects(ts, row) <=> Selects(<<>>, row) /\ \A t \in ToSet(ts) : Selects(<<t>>, row)
<1> DEFINE Here == row.engagement = Engagement
           words == row.words
           Filtered(t) == t.kind = "field" =>
             LET c == Condition(t.field[1], t.op, t.value, row)
             IN  (IF t.negate THEN Not3(c) ELSE c) = "true"
           Searched(us) ==
             (\E t \in ToSet(us) : IsPositive(t)) => TextMatches(SearchText(us), words)
           Spared(t) == IsText(t) /\ t.negate => ~ TextMatches(t.value, words)
           Found(t) == IsPositive(t) => Runs(t.value) \subseteq words
<1>1. \A us : Selects(us, row) <=> /\ Here
                                   /\ \A t \in ToSet(us) : Filtered(t)
                                   /\ Searched(us)
                                   /\ \A t \in ToSet(us) : Spared(t)
  BY Zenon DEF Selects
<1> HIDE DEF Here, Filtered, Spared, words
<1>2. Searched(ts) <=> \A t \in ToSet(ts) : Found(t)
  <2>1. CASE \E t \in ToSet(ts) : IsPositive(t)
    BY <2>1, SearchMatches
  <2>2. CASE ~ \E t \in ToSet(ts) : IsPositive(t)
    BY <2>2
  <2> QED
    BY <2>1, <2>2
<1>3. ASSUME NEW t \in ToSet(ts) PROVE ToSet(<<t>>) = {t} /\ (Searched(<<t>>) <=> Found(t))
  <2> DEFINE us == <<t>>
  <2>1. ToSet(us) = {t} /\ us \in Seq(ToSet(us))
    BY DEF ToSet
  <2> HIDE DEF us
  <2>2. Searched(us) <=> Found(t)
    <3>1. CASE IsPositive(t)
      <4>1. \A u \in ToSet(us) : IsPositive(u) => u.value \in Seq(V) /\ Plain(u)
        BY <2>1
      <4>2. \E u \in ToSet(us) : IsPositive(u)
        BY <2>1, <3>1
      <4>3. TextMatches(SearchText(us), words)
              <=> \A u \in ToSet(us) : IsPositive(u) => Runs(u.value) \subseteq words
        BY <2>1, <4>1, <4>2, SearchMatches
      <4> QED
        BY <2>1, <4>2, <4>3
    <3>2. CASE ~ IsPositive(t)
      BY <2>1, <3>2
    <3> QED
      BY <3>1, <3>2
  <2> QED
    BY <2>1, <2>2 DEF us
<1>4. ToSet(<<>>) = {}
  BY DEF ToSet
<1> HIDE DEF Found
<1>5. Selects(<<>>, row) <=> Here
  BY <1>1, <1>4
<1> HIDE DEF Searched
<1>6. ASSUME NEW t \in ToSet(ts)
      PROVE  Selects(<<t>>, row) <=> Here /\ Filtered(t) /\ Found(t) /\ Spared(t)
  BY <1>1, <1>3
<1> QED
  BY <1>1, <1>2, <1>5, <1>6

-----------------------------------------------------------------------------
(* The theorems.                                                           *)

\* tokenize ends for every query: an iteration of its loop reads at least one
\* lexeme and none behind the end, also at a dash, a colon or a quote that has
\* nothing behind it (lexer.py:46-96).
THEOREM LexerReadsOn == Spec => [][ReadsOn]_vars
<1>1. IInv /\ [Next]_vars => [ReadsOn]_vars
  BY StepKeeps
<1> QED
  BY <1>1, Invariance, PTL DEF Spec

\* No combination of terms and negations shows a service of another engagement
\* (compiler.py:4, 116-121).
THEOREM AnswersStayInEngagement ==
  Spec => [](\A row \in reply.rows : row.engagement = Engagement)
<1>1. IInv => \A row \in reply.rows : row.engagement = Engagement
  <2> SUFFICES ASSUME IInv, NEW row \in reply.rows
               PROVE  row.engagement = Engagement
    OBVIOUS
  <2>1. row \in Answer(tokens)
    BY DEF IInv
  <2> QED
    BY <2>1 DEF Answer, Selects
<1> QED
  BY <1>1, Invariance, PTL

\* A condition is unknown exactly for the columns that are NULL.
LEMMA UnknownIsNull ==
  ASSUME NEW f \in KnownFields, NEW op, NEW v, NEW row
  PROVE  /\ Condition(f, op, v, row) \in {"true", "false", "unknown"}
         /\ Condition(f, op, v, row) = "unknown"
              <=> \/ f \in NumericFields /\ row.num[f] = {}
                  \/ f \in TextFields \cup {"country"} /\ row.txt[f] = {}
<1>1. \A b : Truth(b) \in {"true", "false"}
  BY DEF Truth
<1>2. \A column, matching :
        /\ Null3(column, matching) \in {"true", "false", "unknown"}
        /\ Null3(column, matching) = "unknown" <=> column = {}
  BY DEF Null3, Truth
<1>3. CASE f \in NumericFields
  <2>1. Condition(f, op, v, row) = Null3(row.num[f], {n \in row.num[f] : Compares(n, op, v)})
    BY <1>3 DEF Condition, NumericFields, TextFields, NetFields
  <2> QED
    BY <1>2, <1>3, <2>1 DEF NumericFields, TextFields
<1>4. CASE f \in TextFields
  <2>1. Condition(f, op, v, row) = Null3(row.txt[f], {text \in row.txt[f] : Within(v, text)})
    BY <1>4 DEF Condition, NumericFields, TextFields, NetFields
  <2> QED
    BY <1>2, <1>4, <2>1 DEF NumericFields, TextFields
<1>5. CASE f = "country"
  <2>1. Condition(f, op, v, row) = Null3(row.txt[f], row.txt[f] \cap {v})
    BY <1>5 DEF Condition, NumericFields, TextFields, NetFields
  <2> QED
    BY <1>2, <1>5, <2>1 DEF NumericFields, TextFields
<1>6. CASE f \in NetFields \cup PresenceFields \cup {"transport", "tag", "ip"}
  BY <1>1, <1>6 DEF Condition, NumericFields, TextFields, NetFields, PresenceFields, HasTls
<1> QED
  BY <1>3, <1>4, <1>5, <1>6 DEF KnownFields

\* A query of one filter selects the rows of the engagement for which it is true.
LEMMA OneFilterSelects ==
  ASSUME NEW t, t.kind = "field", NEW row, row.engagement = Engagement
  PROVE  Selects(<<t>>, row)
           <=> LET c == Condition(t.field[1], t.op, t.value, row)
               IN  (IF t.negate THEN Not3(c) ELSE c) = "true"
<1>1. ToSet(<<t>>) = {t}
  BY DEF ToSet
<1>2. ~ IsText(t) /\ ~ IsPositive(t)
  BY DEF IsText, IsPositive
<1> QED
  BY <1>1, <1>2 DEF Selects

\* A filter and its negation never share a row, and together they leave out those
\* whose column is NULL (compiler.py:74-105).
THEOREM NegationsSplit == Spec => []NegationSplits
<1>1. IInv => NegationSplits
  <2> SUFFICES ASSUME IInv, reply.status = "ok", NEW t \in Filters, NEW row \in Answer(<<>>)
               PROVE  LET f == t.field[1]
                          other == [t EXCEPT !.negate = ~ t.negate]
                          null == \/ f \in NumericFields /\ row.num[f] = {}
                                  \/ f \in TextFields \cup {"country"} /\ row.txt[f] = {}
                      IN  /\ ~ (Selects(<<t>>, row) /\ Selects(<<other>>, row))
                          /\ Selects(<<t>>, row) \/ Selects(<<other>>, row) <=> ~ null
    BY DEF NegationSplits
  <2> DEFINE f == t.field[1]
             c == Condition(f, t.op, t.value, row)
             other == [t EXCEPT !.negate = ~ t.negate]
             null == \/ f \in NumericFields /\ row.num[f] = {}
                     \/ f \in TextFields \cup {"country"} /\ row.txt[f] = {}
  <2>1. t \in ToSet(tokens) /\ t.kind = "field" /\ IsToken(t) /\ ~ Refused(t)
    BY DEF Filters, IInv
  <2>2. f \in KnownFields
    BY <2>1 DEF Refused
  <2>3. /\ c \in {"true", "false", "unknown"}
        /\ c = "unknown" <=> null
    BY <2>2, UnknownIsNull
  <2>4. /\ other.kind = "field" /\ other.field = t.field /\ other.op = t.op
        /\ other.value = t.value /\ other.negate = ~ t.negate /\ t.negate \in BOOLEAN
    BY <2>1 DEF IsToken
  <2>5. row.engagement = Engagement
    BY DEF Answer, Selects
  <2> HIDE DEF other
  <2>6. /\ Selects(<<t>>, row) <=> (IF t.negate THEN Not3(c) ELSE c) = "true"
        /\ Selects(<<other>>, row) <=> (IF other.negate THEN Not3(c) ELSE c) = "true"
    BY <2>1, <2>4, <2>5, OneFilterSelects
  <2> HIDE DEF c, null, f
  <2>7. /\ Not3(c) = "true" <=> c = "false"
        /\ ~ (c = "true" /\ Not3(c) = "true")
    BY <2>3 DEF Not3
  <2>8. /\ ~ (Selects(<<t>>, row) /\ Selects(<<other>>, row))
        /\ Selects(<<t>>, row) \/ Selects(<<other>>, row) <=> ~ null
    BY <2>3, <2>4, <2>6, <2>7
  <2> QED
    BY <2>8 DEF other, null, f
<1> QED
  BY <1>1, Invariance, PTL

\* The lexer neither loses a word nor reads one twice nor changes their order,
\* for every query, whatever stands between them (lexer.py:44-96).
THEOREM NoWordIsLost == Spec => []WordsKept
<1>1. IInv /\ ReadSoFar => WordsKept
  <2> SUFFICES ASSUME IInv, ReadSoFar, ~ Lexing PROVE WordsRead(tokens) = WordsOf(query)
    BY DEF WordsKept
  <2>1. i - 1 = Len(query) /\ query \in Seq(ToSet(query))
    BY DEF IInv, Lexing
  <2>2. SubSeq(query, 1, Len(query)) = query
    BY <2>1, SubSeqFull
  <2> QED
    BY <2>1, <2>2 DEF ReadSoFar
<1> QED
  BY <1>1, ReadSoFarAlways, PTL

\* The terms of a query are joined by AND: where no word has a meaning of its own
\* to the text search, the answer holds the rows that every term finds when it is
\* the whole query, although the text terms are glued into one search text
\* (compiler.py:127-139); and it holds no row of another engagement.
THEOREM TermsAreConjoined == Spec => []ImplicitAnd
<1>1. IInv /\ ReadSoFar => ImplicitAnd
  <2> SUFFICES ASSUME IInv, ReadSoFar, reply.status = "ok"
               PROVE  /\ \A row \in reply.rows : row.engagement = Engagement
                      /\ (\A t \in ToSet(tokens) : Plain(t)) =>
                           \A row \in Rows :
                             row \in reply.rows
                               <=> /\ Selects(<<>>, row)
                                   /\ \A t \in ToSet(tokens) : Selects(<<t>>, row)
    BY DEF ImplicitAnd
  <2>1. reply.rows = Answer(tokens)
    BY DEF IInv
  <2>2. \A row \in Rows : row \in reply.rows <=> Selects(tokens, row)
    BY <2>1 DEF Answer
  <2>3. ASSUME NEW row \in reply.rows PROVE row.engagement = Engagement
    BY <2>1 DEF Answer, Selects
  <2>4. ASSUME \A t \in ToSet(tokens) : Plain(t), NEW row \in Rows
        PROVE  Selects(tokens, row)
                 <=> /\ Selects(<<>>, row)
                     /\ \A t \in ToSet(tokens) : Selects(<<t>>, row)
    <3> DEFINE V == ToSet(query)
    <3>1. \A t \in ToSet(tokens) : t.value \in Seq(V) /\ Plain(t)
      BY <2>4 DEF ReadSoFar
    <3>2. tokens \in Seq(ToSet(tokens))
      BY DEF IInv
    <3> HIDE DEF V
    <3> QED
      BY <3>1, <3>2, TermsConjoin
  <2> QED
    BY <2>2, <2>3, <2>4
<1> QED
  BY <1>1, ReadSoFarAlways, PTL

=============================================================================
