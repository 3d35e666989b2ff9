------------------------- MODULE HostAnalysisProofs -------------------------
(***************************************************************************)
(* Proofs about HostAnalysis: what clients read of a host comes from one   *)
(* scan, the row of a host guards those of its services, jobs are lost to  *)
(* deadlocks only when they came by their hosts in a circle, a country is  *)
(* not lost, the best signature is kept, and lists show the last entries   *)
(* of the history; for any number of jobs, hosts and ports.                *)
(***************************************************************************)
EXTENDS HostAnalysis, FiniteSetTheorems, SequenceTheorems, WellFoundedInduction, TLAPS

Busy == {"fingerprinting", "enriching", "upserting"}
Stages == Busy \cup {"waiting", "committing", "done", "failed", "aborted"}

\* A function from keys to rows, whatever the signatures and certificates are.
Table(t) ==
  t = [k \in Keys |->
        [scan |-> t[k].scan, geo |-> t[k].geo, sig |-> t[k].sig, cert |-> t[k].cert]]

Shapes ==
  /\ stage \in [Jobs -> Stages]
  /\ order \in [Jobs -> Seq({"error", "host"} \X Hosts)]
  /\ todo \in [Jobs -> SUBSET ({0} \cup Ports)]
  /\ lock \in [Keys -> Jobs \cup {Nothing}]
  /\ Table(rows) /\ Table(db)

\* A job that analyzes a host has taken it.
Working == \A j \in Jobs : stage[j] \in Busy => order[j] # <<>>

\* A row nobody has locked is as committed.
UnlockedAsCommitted == \A k \in Keys : lock[k] = Nothing => rows[k] = db[k]

\* Whoever has written a service has written its host before.
HostFirst ==
  \A h \in Hosts, p \in Ports, j \in Jobs : lock[<<h, p>>] = j => lock[<<h, 0>>] = j

\* Before the host is written everything is still to do; from then on the job
\* has its row and goes through the services it found.
InHand ==
  \A j \in Jobs : stage[j] = "upserting" =>
    IF 0 \in todo[j] THEN todo[j] = {0} \cup OpenNow(j)
    ELSE /\ todo[j] \subseteq OpenNow(j)
         /\ lock[<<Current(j), 0>>] = j /\ rows[<<Current(j), 0>>].scan = j

\* What is still to be written by the job that has the host.
Coming(j, h, p) ==
  /\ stage[j] = "upserting" /\ h = Current(j)
  /\ p \in todo[j] /\ lock[<<h, 0>>] = j

\* The services of the last scan are written, or the job that does is at it.
RowsOfLastScan ==
  \A h \in Hosts, j \in Jobs :
    rows[<<h, 0>>].scan = j =>
      \A p \in Open[j][h] : rows[<<h, p>>].scan = j \/ Coming(j, h, p)

\* A job has come by the hosts whose rows it has, and found nothing open except
\* on the last one.
HeldAreEmpty ==
  \A h \in Hosts, j \in Jobs : lock[<<h, 0>>] = j =>
    /\ \E n \in 1 .. Len(order[j]) : order[j][n][2] = h
    /\ \/ Open[j][h] = {}
       \/ h = Current(j) /\ stage[j] \in {"upserting", "committing"}

\* It does not have the row of the host it is about to write.
NotYetHeld ==
  \A j \in Jobs :
    \/ stage[j] \in {"fingerprinting", "enriching"}
    \/ stage[j] = "upserting" /\ 0 \in todo[j]
    => lock[<<Current(j), 0>>] # j

GeoInRows ==
  \A h \in Hosts : db[<<h, 0>>].geo # Nothing => rows[<<h, 0>>].geo # Nothing

IInv ==
  /\ Shapes /\ Working /\ UnlockedAsCommitted /\ HostFirst /\ InHand
  /\ RowsOfLastScan /\ ServicesOfLastScan /\ HeldAreEmpty /\ NotYetHeld
  /\ GeoInRows /\ DeadlockNeedsInversion

-----------------------------------------------------------------------------
(* Lemmas about the operators of the model.                                *)

\* A set of numbers has a least one.
LEMMA LeastExists ==
  ASSUME NEW S \in SUBSET Nat, S # {}
  PROVE  \E least \in S : \A y \in S : least <= y
<1> DEFINE Smaller == {ss \in Nat \X Nat : ss[1] < ss[2]}
<1>1. IsWellFoundedOn(Smaller, Nat)
  BY NatLessThanWellFounded, Zenon DEF OpToRel
<1>2. PICK least \in S : \A y \in S : <<y, least>> \notin Smaller
  <2> HIDE DEF Smaller
  <2> QED
    BY <1>1, WFMin
<1>3. ASSUME NEW y \in S, y < least
      PROVE  FALSE
  <2> DEFINE pair == <<y, least>>
  <2>1. pair \in Nat \X Nat /\ pair[1] < pair[2]
    BY <1>3
  <2> HIDE DEF pair
  <2>2. pair \in Smaller
    BY <2>1
  <2> QED
    BY <1>2, <2>2 DEF pair
<1> QED
  BY <1>3

\* Min of natural numbers is one of them and no greater than any.
LEMMA MinIsLeast ==
  ASSUME NEW S \in SUBSET Nat, S # {}
  PROVE  Min(S) \in S /\ \A m \in S : Min(S) <= m
BY LeastExists DEF Min

\* Induction up to a number, on the set of those a fact holds for.
LEMMA UpTo ==
  ASSUME NEW N \in Nat, NEW Good, 0 \in Good,
         \A n \in 1 .. N : n - 1 \in Good => n \in Good
  PROVE  0 .. N \subseteq Good
<1> DEFINE Bad == {n \in 0 .. N : n \notin Good}
<1>1. CASE Bad = {}
  BY <1>1
<1>2. CASE Bad # {}
  <2>1. Bad \in SUBSET Nat
    OBVIOUS
  <2>2. PICK least \in Bad : \A n \in Bad : least <= n
    <3> HIDE DEF Bad
    <3> QED
      BY <1>2, <2>1, LeastExists
  <2>3. least \in 1 .. N /\ least - 1 \in 0 .. N /\ least - 1 \notin Bad
    BY <2>2
  <2> QED
    BY <2>2, <2>3
<1> QED
  BY <1>1, <1>2

\* A function may be defined by recursion up to a number.
Recurses(f, N, S, start, step) ==
  f \in [0 .. N -> S] /\ f[0] = start /\ \A n \in 1 .. N : f[n] = step[<<n, f[n - 1]>>]

LEMMA Recursion ==
  ASSUME NEW N \in Nat, NEW S, NEW start \in S, NEW step \in [(1 .. N) \X S -> S]
  PROVE  \E f : Recurses(f, N, S, start, step)
<1> DEFINE Begun(m) == \E f : Recurses(f, m, S, start, step)
           Good == {m \in 0 .. N : Begun(m)}
<1>1. 0 \in Good
  <2> DEFINE f == [n \in 0 .. 0 |-> start]
  <2>1. f \in [0 .. 0 -> S] /\ f[0] = start
    OBVIOUS
  <2>2. \A n \in 1 .. 0 : f[n] = step[<<n, f[n - 1]>>]
    OBVIOUS
  <2> HIDE DEF f
  <2>3. Begun(0)
    BY <2>1, <2>2 DEF Recurses
  <2> QED
    BY <2>3
<1>2. ASSUME NEW m \in 1 .. N, m - 1 \in Good
      PROVE  m \in Good
  <2>0. PICK f : Recurses(f, m - 1, S, start, step)
    BY <1>2
  <2>1. /\ f \in [0 .. m - 1 -> S] /\ f[0] = start
        /\ \A n \in 1 .. m - 1 : f[n] = step[<<n, f[n - 1]>>]
    BY <2>0 DEF Recurses
  <2> DEFINE g == [n \in 0 .. m |-> IF n = m THEN step[<<m, f[m - 1]>>] ELSE f[n]]
  <2>2. step[<<m, f[m - 1]>>] \in S
    BY <2>1
  <2>3. g \in [0 .. m -> S] /\ g[0] = start /\ g[m] = step[<<m, f[m - 1]>>]
        /\ \A n \in 0 .. m - 1 : g[n] = f[n]
    BY <2>1, <2>2
  <2> HIDE DEF g
  <2>4. \A n \in 1 .. m : g[n] = step[<<n, g[n - 1]>>]
    <3> SUFFICES ASSUME NEW n \in 1 .. m PROVE g[n] = step[<<n, g[n - 1]>>]
      OBVIOUS
    <3>1. g[n - 1] = f[n - 1]
      BY <2>3
    <3>2. CASE n = m
      BY <2>3, <3>1, <3>2
    <3>3. CASE n # m
      <4>1. n \in 1 .. m - 1 /\ n \in 0 .. m - 1
        BY <3>3
      <4> QED
        BY <2>1, <2>3, <3>1, <4>1
    <3> QED
      BY <3>2, <3>3
  <2>5. Begun(m)
    BY <2>3, <2>4 DEF Recurses
  <2> QED
    BY <2>5
<1> HIDE DEF Good
<1>3. 0 .. N \subseteq Good
  BY <1>1, <1>2, UpTo
<1> QED
  BY <1>3 DEF Good

\* FlattenSeq puts one sequence behind the other.
Flattens(f, T, ss) ==
  /\ f \in [0 .. Len(ss) -> Seq(T)]
  /\ f[0] = <<>> /\ \A n \in 1 .. Len(ss) : f[n] = f[n - 1] \o ss[n]

LEMMA FlattenSteps ==
  ASSUME NEW T, NEW ss \in Seq(Seq(T))
  PROVE  \E f : Flattens(f, T, ss) /\ FlattenSeq(ss) = f[Len(ss)]
<1> DEFINE N == Len(ss)
           S == Seq(T)
           start == <<>>
           step == [x \in (1 .. N) \X S |-> x[2] \o ss[x[1]]]
<1>1. N \in Nat /\ start \in S /\ \A n \in 1 .. N : ss[n] \in S
  OBVIOUS
<1>2. /\ step \in [(1 .. N) \X S -> S]
      /\ \A n \in 1 .. N : \A s \in S : step[<<n, s>>] = s \o ss[n]
  <2>1. \A s, t \in S : s \o t \in S
    OBVIOUS
  <2> HIDE DEF S, N
  <2> QED
    BY <1>1, <2>1
<1> HIDE DEF N, S, start, step
<1>3. PICK f : Recurses(f, N, S, start, step)
  BY <1>1, <1>2, Recursion
<1>4. /\ f \in [0 .. N -> S] /\ f[0] = start
      /\ \A n \in 1 .. N : f[n] = step[<<n, f[n - 1]>>]
  BY <1>3 DEF Recurses
<1>5. ASSUME NEW n \in 1 .. N PROVE f[n - 1] \in S /\ f[n] = f[n - 1] \o ss[n]
  <2>1. n - 1 \in 0 .. N
    BY <1>1
  <2>2. f[n - 1] \in S
    BY <1>4, <2>1
  <2> QED
    BY <1>2, <1>4, <2>2
<1>6. Flattens(f, T, ss)
  BY <1>4, <1>5 DEF Flattens, N, S, start
<1>7. CASE N = 0
  <2>1. ss = <<>> /\ FlattenSeq(ss) = ss
    BY <1>7 DEF N, FlattenSeq
  <2> QED
    BY <1>4, <1>6, <1>7, <2>1 DEF N, S, start
<1>8. ASSUME 1 \in 1 .. N PROVE f[1] = ss[1]
  <2>1. \A t \in S : start \o t = t
    BY DEF S, start
  <2>2. f[1] = f[1 - 1] \o ss[1]
    BY <1>5, <1>8
  <2>3. 1 - 1 = 0
    OBVIOUS
  <2>4. f[1] = start \o ss[1] /\ ss[1] \in S
    BY <1>1, <1>4, <1>8, <2>2, <2>3
  <2> QED
    BY <2>1, <2>4
<1>9. CASE N # 0
  <2> DEFINE Body(g) == [n \in 1 .. N |-> IF n = 1 THEN ss[n] ELSE g[n - 1] \o ss[n]]
             flat == CHOOSE g : g = Body(g)
             h == [n \in 1 .. N |-> f[n]]
  <2>1. FlattenSeq(ss) = flat[N]
    BY <1>9 DEF N, FlattenSeq
  <2>2. h = Body(h)
    <3>1. ASSUME NEW n \in 1 .. N PROVE f[n] = IF n = 1 THEN ss[n] ELSE h[n - 1] \o ss[n]
      <4>1. CASE n = 1
        BY <1>8, <4>1
      <4>2. CASE n # 1
        <5>1. n - 1 \in 1 .. N
          BY <1>1, <4>2
        <5>2. h[n - 1] = f[n - 1]
          BY <5>1
        <5> QED
          BY <1>5, <4>2, <5>2
      <4> QED
        BY <4>1, <4>2
    <3>2. h = [n \in 1 .. N |-> IF n = 1 THEN ss[n] ELSE h[n - 1] \o ss[n]]
      BY <3>1
    <3> QED
      BY <3>2
  <2>3. flat = Body(flat)
    <3> HIDE DEF h, Body
    <3> QED
      BY <2>2
  <2>4. \A n \in 1 .. N : flat[n] = IF n = 1 THEN ss[n] ELSE flat[n - 1] \o ss[n]
    <3> HIDE DEF flat
    <3> QED
      BY <2>3
  <2> HIDE DEF flat
  <2> DEFINE Good == {n \in 0 .. N : n = 0 \/ flat[n] = f[n]}
  <2>5. 0 \in Good
    BY <1>1
  <2>6. ASSUME NEW n \in 1 .. N, n - 1 \in Good PROVE n \in Good
    <3>1. CASE n = 1
      BY <1>8, <2>4, <3>1
    <3>2. CASE n # 1
      <4>1. flat[n - 1] = f[n - 1]
        BY <1>1, <2>6, <3>2
      <4>2. flat[n] = flat[n - 1] \o ss[n]
        BY <2>4, <3>2
      <4>3. f[n] = f[n - 1] \o ss[n]
        BY <1>5
      <4>4. flat[n] = f[n]
        BY <4>1, <4>2, <4>3
      <4> QED
        BY <1>1, <4>4
    <3> QED
      BY <3>1, <3>2
  <2> HIDE DEF Good
  <2>7. 0 .. N \subseteq Good
    BY <1>1, <2>5, <2>6, UpTo
  <2>8. flat[N] = f[N]
    BY <1>1, <1>9, <2>7 DEF Good
  <2> QED
    BY <1>6, <2>1, <2>8 DEF N, S
<1> QED
  BY <1>7, <1>9

LEMMA FlattenSmall ==
  ASSUME NEW T
  PROVE  /\ FlattenSeq(<<>>) = <<>>
         /\ \A s \in Seq(T) : FlattenSeq(<<s>>) = s
<1>1. FlattenSeq(<<>>) = <<>>
  BY DEF FlattenSeq
<1>2. ASSUME NEW s \in Seq(T) PROVE FlattenSeq(<<s>>) = s
  <2> DEFINE ss == <<s>>
  <2>1. ss \in Seq(Seq(T)) /\ Len(ss) = 1 /\ ss[1] = s
    OBVIOUS
  <2> HIDE DEF ss
  <2>2. PICK f : Flattens(f, T, ss) /\ FlattenSeq(ss) = f[Len(ss)]
    BY <2>1, FlattenSteps
  <2>3. f[0] = <<>> /\ f[1] = f[0] \o s
    BY <2>1, <2>2 DEF Flattens
  <2>4. <<>> \o s = s
    OBVIOUS
  <2> QED
    BY <2>1, <2>2, <2>3, <2>4 DEF ss
<1> QED
  BY <1>1, <1>2

LEMMA FlattenConcat ==
  ASSUME NEW T, NEW a \in Seq(Seq(T)), NEW b \in Seq(Seq(T))
  PROVE  FlattenSeq(a \o b) = FlattenSeq(a) \o FlattenSeq(b) /\ FlattenSeq(a) \in Seq(T)
<1> DEFINE ab == a \o b
           K == Len(a)
           N == Len(b)
<1>1. /\ K \in Nat /\ N \in Nat /\ ab \in Seq(Seq(T)) /\ Len(ab) = K + N
      /\ \A n \in 1 .. K : ab[n] = a[n] /\ a[n] \in Seq(T)
      /\ \A n \in 1 .. N : ab[K + n] = b[n] /\ b[n] \in Seq(T)
  OBVIOUS
<1> HIDE DEF ab
<1>2. PICK f : Flattens(f, T, a) /\ FlattenSeq(a) = f[K]
  BY FlattenSteps
<1>3. PICK g : Flattens(g, T, b) /\ FlattenSeq(b) = g[N]
  BY FlattenSteps
<1>4. PICK h : Flattens(h, T, ab) /\ FlattenSeq(ab) = h[K + N]
  BY <1>1, FlattenSteps
<1> HIDE DEF K, N
<1> DEFINE S == Seq(T)
           start == <<>>
<1>5. /\ f \in [0 .. K -> S] /\ f[0] = start /\ \A n \in 1 .. K : f[n] = f[n - 1] \o a[n]
      /\ g \in [0 .. N -> S] /\ g[0] = start /\ \A n \in 1 .. N : g[n] = g[n - 1] \o b[n]
      /\ h[0] = start /\ \A n \in 1 .. K + N : h[n] = h[n - 1] \o ab[n]
  BY <1>1, <1>2, <1>3, <1>4 DEF Flattens, K, N
<1>6. /\ \A u \in S : u \o start = u
      /\ \A u, v, w \in S : (u \o v) \o w = u \o (v \o w)
  <2>1. \A u \in S : u \o start = u
    OBVIOUS
  <2>2. ASSUME NEW u \in S, NEW v \in S, NEW w \in S PROVE (u \o v) \o w = u \o (v \o w)
    BY ConcatAssociative
  <2> HIDE DEF S, start
  <2> QED
    BY <2>1, <2>2
<1>7. \A n \in 1 .. K : ab[n] = a[n]
  BY <1>1
<1>8. \A n \in 1 .. N : ab[K + n] = b[n] /\ b[n] \in S
  BY <1>1
<1>9. K \in Nat /\ N \in Nat
  BY <1>1
<1> HIDE DEF S, start
<1>10. h[K] = f[K]
  <2> DEFINE Good == {n \in 0 .. K : h[n] = f[n]}
  <2>1. 0 \in Good
    BY <1>5, <1>9
  <2>2. ASSUME NEW n \in 1 .. K, n - 1 \in Good PROVE n \in Good
    <3>1. n \in 1 .. K + N
      BY <1>9
    <3>2. h[n - 1] = f[n - 1] /\ n \in 0 .. K
      BY <1>9, <2>2
    <3>3. h[n] = h[n - 1] \o ab[n]
      BY <1>5, <3>1
    <3>4. f[n] = f[n - 1] \o a[n]
      BY <1>5
    <3>5. h[n] = f[n]
      BY <1>7, <3>2, <3>3, <3>4
    <3> QED
      BY <3>2, <3>5
  <2> HIDE DEF Good
  <2>3. 0 .. K \subseteq Good
    BY <1>9, <2>1, <2>2, UpTo
  <2>4. K \in 0 .. K
    BY <1>9
  <2> QED
    BY <2>3, <2>4 DEF Good
<1>11. f[K] \in S
  BY <1>5, <1>9
<1>12. h[K + N] = f[K] \o g[N]
  <2> DEFINE Fits(n) == h[K + n] = f[K] \o g[n]
             Good == {n \in 0 .. N : Fits(n)}
  <2>1. 0 \in Good
    <3>1. K + 0 = K
      BY <1>9
    <3>2. Fits(0)
      BY <1>5, <1>6, <1>10, <1>11, <3>1
    <3> HIDE DEF Fits
    <3> QED
      BY <1>9, <3>2
  <2>2. ASSUME NEW n \in 1 .. N, n - 1 \in Good PROVE n \in Good
    <3>1. K + n \in 1 .. K + N /\ (K + n) - 1 = K + (n - 1) /\ n - 1 \in 0 .. N
      BY <1>9
    <3>2. h[K + n] = h[K + (n - 1)] \o b[n]
      <4>1. h[K + n] = h[(K + n) - 1] \o ab[K + n]
        BY <1>5, <3>1
      <4> QED
        BY <1>8, <3>1, <4>1
    <3>3. g[n] = g[n - 1] \o b[n] /\ g[n - 1] \in S
      BY <1>5, <3>1
    <3>4. h[K + n] = (f[K] \o g[n - 1]) \o b[n]
      BY <2>2, <3>2
    <3>5. h[K + n] = f[K] \o g[n]
      <4>1. b[n] \in S
        BY <1>8
      <4>2. (f[K] \o g[n - 1]) \o b[n] = f[K] \o (g[n - 1] \o b[n])
        BY <1>6, <1>11, <3>3, <4>1
      <4> QED
        BY <3>3, <3>4, <4>2
    <3>6. Fits(n)
      BY <3>5
    <3> HIDE DEF Fits
    <3> QED
      BY <1>9, <3>6
  <2> HIDE DEF Good
  <2>3. 0 .. N \subseteq Good
    BY <1>9, <2>1, <2>2, UpTo
  <2>4. N \in 0 .. N
    BY <1>9
  <2> QED
    BY <2>3, <2>4 DEF Good
<1> QED
  BY <1>2, <1>3, <1>4, <1>11, <1>12 DEF ab, S

\* The next row is one of those to do, the host before the services.
LEMMA NextRowIsHost ==
  ASSUME NEW S \in SUBSET ({0} \cup Ports), S # {}
  PROVE  NextRow(S) \in S /\ (0 \in S => NextRow(S) = 0)
<1>1. S \in SUBSET Nat
  BY AnalysisAssumption
<1>2. \E least \in S : \A y \in S : least <= y
  BY <1>1, LeastExists
<1>3. NextRow(S) \in S /\ \A y \in S : NextRow(S) <= y
  BY <1>2 DEF NextRow, Min
<1>4. NextRow(S) \in Nat
  BY <1>1, <1>3
<1>5. 0 \in S => NextRow(S) <= 0
  BY <1>3
<1> QED
  BY <1>3, <1>4, <1>5

\* The host in work is the last one a job has taken.
LEMMA CurrentIsTaken ==
  ASSUME Shapes, NEW j \in Jobs, order[j] # <<>>
  PROVE  /\ Len(order[j]) \in Nat \ {0}
         /\ Current(j) = order[j][Len(order[j])][2] /\ Current(j) \in Hosts
<1>1. order[j] \in Seq({"error", "host"} \X Hosts)
  BY DEF Shapes
<1>2. Len(order[j]) \in Nat \ {0}
  BY <1>1
<1>3. order[j][Len(order[j])] \in {"error", "host"} \X Hosts
  BY <1>1, <1>2
<1> QED
  BY <1>2, <1>3 DEF Current, Last

\* The row a job is about to write is one of the host in work.
LEMMA KeyIsDue ==
  ASSUME Shapes, Working, NEW j \in Jobs, Upserting(j)
  PROVE  /\ Current(j) \in Hosts /\ Key(j)[2] \in todo[j]
         /\ Key(j) = <<Current(j), Key(j)[2]>> /\ Key(j) \in Keys
         /\ Key(j)[2] = NextRow(todo[j])
         /\ 0 \in todo[j] => Key(j)[2] = 0
<1>1. order[j] # <<>>
  BY DEF Working, Upserting, Busy
<1>2. Current(j) \in Hosts
  BY <1>1, CurrentIsTaken
<1>3. todo[j] \in SUBSET ({0} \cup Ports) /\ todo[j] # {}
  BY DEF Shapes, Upserting
<1>4. NextRow(todo[j]) \in todo[j] /\ (0 \in todo[j] => NextRow(todo[j]) = 0)
  BY <1>3, NextRowIsHost
<1>5. Key(j) = <<Current(j), NextRow(todo[j])>>
  BY DEF Key
<1> QED
  BY <1>2, <1>3, <1>4, <1>5 DEF Keys

\* What is read of a table.
LEMMA TableIsFunction ==
  ASSUME NEW t, Table(t)
  PROVE  /\ DOMAIN t = Keys /\ t = [k \in Keys |-> t[k]]
         /\ \A k \in Keys :
              t[k] = [scan |-> t[k].scan, geo |-> t[k].geo, sig |-> t[k].sig, cert |-> t[k].cert]
BY DEF Table

\* A written row is one of a table; what is known of a host is kept.
LEMMA WrittenIsRow ==
  ASSUME NEW j, NEW p, NEW old,
         old = [scan |-> old.scan, geo |-> old.geo, sig |-> old.sig, cert |-> old.cert]
  PROVE  LET new == Written(j, p, old)
         IN  /\ new = [scan |-> new.scan, geo |-> new.geo, sig |-> new.sig, cert |-> new.cert]
             /\ new.scan = j
             /\ p = 0 /\ old.geo # Nothing => new.geo # Nothing
<1>1. CASE p = 0
  <2>1. Written(j, p, old) = [old EXCEPT !.scan = j, !.geo = KeptGeo(j, old.geo)]
    BY <1>1 DEF Written
  <2>2. Written(j, p, old)
          = [scan |-> j, geo |-> KeptGeo(j, old.geo), sig |-> old.sig, cert |-> old.cert]
    BY <2>1
  <2>3. old.geo # Nothing => KeptGeo(j, old.geo) # Nothing
    BY DEF KeptGeo
  <2> QED
    BY <2>2, <2>3
<1>2. CASE p # 0
  <2>1. Written(j, p, old)
          = [scan |-> j, geo |-> Nothing, sig |-> found[j][p], cert |-> cert[j][p]]
    BY <1>2 DEF Written
  <2> QED
    BY <1>2, <2>1
<1> QED
  BY <1>1, <1>2

\* Hosts once taken stay in their order.
LEMMA BeforeStays ==
  ASSUME NEW j \in Jobs, NEW a, NEW b,
         Len(order[j]) \in Nat, Len(order'[j]) \in Nat, Len(order[j]) <= Len(order'[j]),
         \A n \in 1 .. Len(order[j]) : order'[j][n] = order[j][n],
         Before(j, a, b)
  PROVE  Before(j, a, b)'
<1>1. PICK m, n \in 1 .. Len(order[j]) : m < n /\ order[j][m][2] = a /\ order[j][n][2] = b
  BY DEF Before
<1>2. m \in 1 .. Len(order'[j]) /\ n \in 1 .. Len(order'[j])
  BY <1>1
<1>3. order'[j][m][2] = a /\ order'[j][n][2] = b
  BY <1>1
<1> QED
  BY <1>1, <1>2, <1>3 DEF Before

-----------------------------------------------------------------------------
(* Steps that leave the tables alone.                                      *)

\* Nobody new is given up and the orders only grow.
LEMMA OrdersGrow ==
  ASSUME DeadlockNeedsInversion,
         \A j \in Jobs :
           /\ Len(order[j]) \in Nat /\ Len(order'[j]) \in Nat
           /\ Len(order[j]) <= Len(order'[j])
           /\ \A n \in 1 .. Len(order[j]) : order'[j][n] = order[j][n]
           /\ stage'[j] = "aborted" => stage[j] = "aborted"
  PROVE  DeadlockNeedsInversion'
<1>1. \A j \in Jobs : \A a, b : Before(j, a, b) => Before(j, a, b)'
  BY BeforeStays
<1>2. \A S \in SUBSET Jobs : \A a \in [S -> Hosts] : \A m, k \in S :
        CameBy(m, k, a) => CameBy(m, k, a)'
  BY <1>1 DEF CameBy
<1> SUFFICES ASSUME NEW j \in Jobs, stage'[j] = "aborted"
             PROVE  \E S \in SUBSET Jobs : \E a \in [S -> Hosts] :
                      /\ j \in S
                      /\ \A k \in S : /\ \E m \in S : CameBy(m, k, a)'
                                      /\ \E m \in S : CameBy(k, m, a)'
  BY DEF DeadlockNeedsInversion
<1>3. PICK S \in SUBSET Jobs : \E a \in [S -> Hosts] :
        /\ j \in S
        /\ \A k \in S : (\E m \in S : CameBy(m, k, a)) /\ (\E m \in S : CameBy(k, m, a))
  BY DEF DeadlockNeedsInversion
<1>4. PICK a \in [S -> Hosts] :
        /\ j \in S
        /\ \A k \in S : (\E m \in S : CameBy(m, k, a)) /\ (\E m \in S : CameBy(k, m, a))
  BY <1>3
<1>5. \A k \in S : (\E m \in S : CameBy(m, k, a)') /\ (\E m \in S : CameBy(k, m, a)')
  BY <1>2, <1>4
<1> QED
  BY <1>4, <1>5

\* The sockets and the lists are not part of the invariant.
LEMMA SocketsKeep ==
  ASSUME IInv, UNCHANGED <<stage, order, todo, rows, lock, db>>
  PROVE  IInv'
<1>0. Shapes' /\ Working'
  BY DEF IInv, Shapes, Table, Working
<1>1. UnlockedAsCommitted' /\ HostFirst' /\ InHand'
  BY DEF IInv, UnlockedAsCommitted, HostFirst, InHand, OpenNow, Current
<1>2. RowsOfLastScan' /\ ServicesOfLastScan'
  BY DEF IInv, RowsOfLastScan, ServicesOfLastScan, Coming, Current
<1>3. HeldAreEmpty' /\ NotYetHeld' /\ GeoInRows'
  BY DEF IInv, HeldAreEmpty, NotYetHeld, GeoInRows, Current
<1>4. DeadlockNeedsInversion'
  <2>1. \A j \in Jobs : Len(order[j]) \in Nat
    BY DEF IInv, Shapes
  <2> QED
    BY <2>1, OrdersGrow DEF IInv
<1> QED
  BY <1>0, <1>1, <1>2, <1>3, <1>4 DEF IInv

\* A job that goes on to the enrichment, or from there to the upserts.
LEMMA WorkGoesOn ==
  ASSUME IInv, NEW j \in Jobs, UNCHANGED <<order, rows, lock, db>>,
         \/ /\ stage[j] = "fingerprinting" /\ stage' = [stage EXCEPT ![j] = "enriching"]
            /\ todo' = todo
         \/ /\ stage[j] = "enriching" /\ stage' = [stage EXCEPT ![j] = "upserting"]
            /\ todo' = [todo EXCEPT ![j] = {0} \cup OpenNow(j)]
  PROVE  IInv'
<1>0. Shapes /\ Working /\ InHand /\ RowsOfLastScan /\ HeldAreEmpty /\ NotYetHeld
  BY DEF IInv
<1>1. /\ stage \in [Jobs -> Stages]
      /\ todo \in [Jobs -> SUBSET ({0} \cup Ports)]
      /\ order \in [Jobs -> Seq({"error", "host"} \X Hosts)]
  BY <1>0 DEF Shapes
<1>2. \A i \in Jobs \ {j} : stage'[i] = stage[i] /\ todo'[i] = todo[i]
  BY <1>1
<1>3. \/ stage[j] = "fingerprinting" /\ stage'[j] = "enriching"
      \/ /\ stage[j] = "enriching" /\ stage'[j] = "upserting"
         /\ todo'[j] = {0} \cup OpenNow(j)
  BY <1>1
<1>4. order[j] # <<>>
  BY <1>0, <1>3 DEF Working, Busy
<1>5. Current(j) \in Hosts
  BY <1>0, <1>4, CurrentIsTaken
<1>6. OpenNow(j) \subseteq Ports
  BY <1>5, AnalysisAssumption DEF OpenNow
<1>7. \A i \in Jobs : Current(i)' = Current(i) /\ OpenNow(i)' = OpenNow(i)
  BY DEF Current, OpenNow
<1>8. Shapes'
  BY ZenonT(60), <1>0, <1>1, <1>6 DEF Shapes, Stages, Busy, Table
<1>9. Working'
  BY <1>0, <1>2, <1>4 DEF Working
<1>10. UnlockedAsCommitted' /\ HostFirst' /\ ServicesOfLastScan' /\ GeoInRows'
  BY DEF IInv, UnlockedAsCommitted, HostFirst, ServicesOfLastScan, GeoInRows
<1>11. InHand'
  BY <1>0, <1>2, <1>3, <1>7 DEF InHand
<1>12. RowsOfLastScan'
  <2>1. \A h \in Hosts, i \in Jobs : \A p : Coming(i, h, p) => Coming(i, h, p)'
    BY <1>2, <1>3, <1>7 DEF Coming
  <2>2. \A i \in Jobs, h \in Hosts : Open[i][h] \subseteq Ports
    BY AnalysisAssumption
  <2> QED
    BY <1>0, <2>1, <2>2 DEF RowsOfLastScan
<1>13. HeldAreEmpty'
  BY <1>0, <1>2, <1>3, <1>7 DEF HeldAreEmpty
<1>14. NotYetHeld'
  BY <1>0, <1>2, <1>3, <1>7 DEF NotYetHeld
<1>15. DeadlockNeedsInversion'
  <2>1. \A i \in Jobs : Len(order[i]) \in Nat /\ (stage'[i] = "aborted" => stage[i] = "aborted")
    BY <1>1, <1>2, <1>3
  <2> QED
    BY <2>1, OrdersGrow DEF IInv
<1> QED
  BY <1>8, <1>9, <1>10, <1>11, <1>12, <1>13, <1>14, <1>15 DEF IInv

\* A job takes a host, to analyze it or as an error.
LEMMA TakeKeeps ==
  ASSUME IInv, NEW j \in Jobs, NEW kind \in {"error", "host"}, NEW h \in Hosts,
         Take(j, kind, h), UNCHANGED <<todo, rows, lock, db>>,
         NEW next, kind = "host" => next = "fingerprinting",
         next \in {"fingerprinting", "waiting", "committing"},
         stage' = [stage EXCEPT ![j] = next]
  PROVE  IInv'
<1>0. Shapes /\ Working /\ InHand /\ RowsOfLastScan /\ HeldAreEmpty /\ NotYetHeld
  BY DEF IInv
<1>1. /\ stage \in [Jobs -> Stages]
      /\ order \in [Jobs -> Seq({"error", "host"} \X Hosts)]
  BY <1>0 DEF Shapes
<1>2. \A i \in Jobs \ {j} : stage'[i] = stage[i] /\ order'[i] = order[i]
  BY <1>1 DEF Take
<1>3. /\ stage[j] = "waiting" /\ stage'[j] = next
      /\ \A n \in 1 .. Len(order[j]) : order[j][n][2] # h
      /\ order'[j] = Append(order[j], <<kind, h>>)
  BY <1>1 DEF Take
<1>4. /\ Len(order[j]) \in Nat /\ Len(order'[j]) = Len(order[j]) + 1
      /\ \A n \in 1 .. Len(order[j]) : order'[j][n] = order[j][n]
      /\ order'[j][Len(order[j]) + 1] = <<kind, h>>
  BY <1>1, <1>3
<1>5. Current(j)' = h /\ order'[j] # <<>>
  BY <1>3, <1>4 DEF Current, Last
<1>6. \A i \in Jobs \ {j} : Current(i)' = Current(i) /\ OpenNow(i)' = OpenNow(i)
  BY <1>2 DEF Current, OpenNow
<1>7. lock[<<h, 0>>] # j
  BY <1>0, <1>3 DEF HeldAreEmpty
<1>8. Shapes'
  <2>1. stage' \in [Jobs -> Stages]
    BY <1>1 DEF Stages, Busy
  <2>2. order' \in [Jobs -> Seq({"error", "host"} \X Hosts)]
    <3>1. Append(order[j], <<kind, h>>) \in Seq({"error", "host"} \X Hosts)
      BY <1>1
    <3> QED
      BY <1>1, <3>1 DEF Take
  <2> QED
    BY <1>0, <2>1, <2>2 DEF Shapes, Table
<1>9. Working'
  BY <1>0, <1>2, <1>5 DEF Working
<1>10. UnlockedAsCommitted' /\ HostFirst' /\ ServicesOfLastScan' /\ GeoInRows'
  BY DEF IInv, UnlockedAsCommitted, HostFirst, ServicesOfLastScan, GeoInRows
<1>11. InHand'
  BY <1>0, <1>2, <1>3, <1>6 DEF InHand
<1>12. RowsOfLastScan'
  <2>1. \A g \in Hosts, i \in Jobs : \A p : Coming(i, g, p) => Coming(i, g, p)'
    BY <1>2, <1>3, <1>6 DEF Coming
  <2> QED
    BY <1>0, <2>1 DEF RowsOfLastScan
<1>13. HeldAreEmpty'
  <2> SUFFICES ASSUME NEW g \in Hosts, NEW i \in Jobs, lock[<<g, 0>>] = i
               PROVE  /\ \E n \in 1 .. Len(order'[i]) : order'[i][n][2] = g
                      /\ \/ Open[i][g] = {}
                         \/ g = Current(i)' /\ stage'[i] \in {"upserting", "committing"}
    BY DEF HeldAreEmpty
  <2>1. CASE i # j
    <3>1. order'[i] = order[i] /\ stage'[i] = stage[i] /\ Current(i)' = Current(i)
      BY <1>2, <1>6, <2>1
    <3>2. \E n \in 1 .. Len(order[i]) : order[i][n][2] = g
      BY <1>0 DEF HeldAreEmpty
    <3>3. \/ Open[i][g] = {}
          \/ g = Current(i) /\ stage[i] \in {"upserting", "committing"}
      BY <1>0 DEF HeldAreEmpty
    <3> QED
      BY <3>1, <3>2, <3>3
  <2>2. CASE i = j
    <3>1. PICK n \in 1 .. Len(order[j]) : order[j][n][2] = g
      BY <1>0, <2>2 DEF HeldAreEmpty
    <3>2. n \in 1 .. Len(order'[j]) /\ order'[j][n][2] = g
      BY <1>4, <3>1
    <3>3. Open[j][g] = {}
      BY <1>0, <1>3, <2>2 DEF HeldAreEmpty
    <3> QED
      BY <2>2, <3>2, <3>3
  <2> QED
    BY <2>1, <2>2
<1>14. NotYetHeld'
  BY <1>0, <1>2, <1>3, <1>5, <1>6, <1>7 DEF NotYetHeld
<1>15. DeadlockNeedsInversion'
  <2>1. \A i \in Jobs :
          /\ Len(order[i]) \in Nat /\ Len(order'[i]) \in Nat
          /\ Len(order[i]) <= Len(order'[i])
          /\ \A n \in 1 .. Len(order[i]) : order'[i][n] = order[i][n]
          /\ stage'[i] = "aborted" => stage[i] = "aborted"
    BY <1>1, <1>2, <1>3, <1>4
  <2> QED
    BY <2>1, OrdersGrow DEF IInv
<1> QED
  BY <1>8, <1>9, <1>10, <1>11, <1>12, <1>13, <1>14, <1>15 DEF IInv

\* A job whose host is written goes on, to a commit if anything was open.
LEMMA RecordKeeps ==
  ASSUME IInv, NEW j \in Jobs, Record(j)
  PROVE  IInv'
<1>0. Shapes /\ Working /\ InHand /\ RowsOfLastScan /\ HeldAreEmpty /\ NotYetHeld
  BY DEF IInv
<1>1. /\ stage \in [Jobs -> Stages]
      /\ order \in [Jobs -> Seq({"error", "host"} \X Hosts)]
  BY <1>0 DEF Shapes
<1>2. UNCHANGED <<order, todo, rows, lock, db>>
  BY DEF Record, dataVars
<1>3. /\ stage[j] = "upserting" /\ todo[j] = {}
      /\ stage'[j] \in {"waiting", "committing"}
      /\ OpenNow(j) # {} => stage'[j] = "committing"
      /\ \A i \in Jobs \ {j} : stage'[i] = stage[i]
      /\ stage' \in [Jobs -> Stages]
  BY <1>1 DEF Record, Stages
<1>4. \A i \in Jobs : Current(i)' = Current(i) /\ OpenNow(i)' = OpenNow(i)
  BY <1>2 DEF Current, OpenNow
<1>5. Shapes' /\ Working'
  BY <1>0, <1>2, <1>3 DEF Shapes, Table, Working, Busy
<1>6. UnlockedAsCommitted' /\ HostFirst' /\ ServicesOfLastScan' /\ GeoInRows'
  BY <1>2 DEF IInv, UnlockedAsCommitted, HostFirst, ServicesOfLastScan, GeoInRows
<1>7. InHand'
  BY <1>0, <1>2, <1>3, <1>4 DEF InHand
<1>8. RowsOfLastScan'
  <2>1. \A h \in Hosts, i \in Jobs : \A p : Coming(i, h, p) => Coming(i, h, p)'
    BY <1>2, <1>3, <1>4 DEF Coming
  <2> QED
    BY <1>0, <1>2, <2>1 DEF RowsOfLastScan
<1>9. HeldAreEmpty'
  <2>1. \A h \in Hosts : h = Current(j) /\ Open[j][h] # {} => stage'[j] = "committing"
    BY <1>3 DEF OpenNow
  <2> QED
    BY SMTT(30), <1>0, <1>2, <1>3, <1>4, <2>1 DEF HeldAreEmpty
<1>10. NotYetHeld'
  BY <1>0, <1>2, <1>3, <1>4 DEF NotYetHeld
<1>11. DeadlockNeedsInversion'
  <2>1. \A i \in Jobs : Len(order[i]) \in Nat /\ (stage'[i] = "aborted" => stage[i] = "aborted")
    BY <1>1, <1>3
  <2> QED
    BY <1>2, <2>1, OrdersGrow DEF IInv
<1> QED
  BY <1>5, <1>6, <1>7, <1>8, <1>9, <1>10, <1>11 DEF IInv

-----------------------------------------------------------------------------
(* Who waits for whom.                                                     *)

\* Nobody waits for a service, whose host somebody would have to hold first.
LEMMA HostsGuard ==
  ASSUME IInv
  PROVE  HostRowsGuardServices
<1> SUFFICES ASSUME NEW j \in Jobs, NEW k \in Jobs, WaitsFor(j, k), Key(j)[2] # 0
             PROVE  FALSE
  BY DEF HostRowsGuardServices
<1>0. Shapes /\ Working /\ HostFirst /\ InHand
  BY DEF IInv
<1>1. Upserting(j) /\ lock[Key(j)] = k /\ k # j
  BY DEF WaitsFor
<1>2. /\ Current(j) \in Hosts /\ Key(j)[2] \in todo[j]
      /\ Key(j) = <<Current(j), Key(j)[2]>>
      /\ 0 \notin todo[j]
  BY <1>0, <1>1, KeyIsDue
<1>3. Key(j)[2] \in Ports
  BY <1>0, <1>2 DEF Shapes
<1>4. lock[<<Current(j), 0>>] = j
  BY <1>0, <1>1, <1>2 DEF InHand, Upserting
<1>5. lock[<<Current(j), Key(j)[2]>>] = k
  BY <1>1, <1>2
<1>6. lock[<<Current(j), 0>>] = k
  BY <1>0, <1>2, <1>3, <1>5 DEF HostFirst
<1> QED
  BY <1>1, <1>4, <1>6

\* Whoever is waited for while he waits came by the host before.
LEMMA HolderCameBy ==
  ASSUME IInv, NEW k \in Jobs, NEW m \in Jobs, NEW n \in Jobs, WaitsFor(k, m), WaitsFor(m, n)
  PROVE  /\ m # k /\ Open[m][Current(k)] = {} /\ Current(k) \in Hosts
         /\ Before(m, Current(k), Current(m))
<1>0. Shapes /\ Working /\ HeldAreEmpty /\ NotYetHeld
  BY DEF IInv
<1>1. /\ Upserting(k) /\ lock[Key(k)] = m /\ m # k
      /\ Upserting(m)
  BY DEF WaitsFor
<1>2. Key(k)[2] = 0 /\ Key(m)[2] = 0
  BY HostsGuard DEF HostRowsGuardServices
<1>3. Current(k) \in Hosts /\ Key(k) = <<Current(k), 0>> /\ 0 \in todo[m]
  <2>1. Current(k) \in Hosts /\ Key(k) = <<Current(k), Key(k)[2]>>
    BY <1>0, <1>1, KeyIsDue
  <2>2. Key(m)[2] \in todo[m]
    BY <1>0, <1>1, KeyIsDue
  <2> QED
    BY <1>2, <2>1, <2>2
<1>4. lock[<<Current(k), 0>>] = m
  BY <1>1, <1>3
<1>5. PICK i \in 1 .. Len(order[m]) : order[m][i][2] = Current(k)
  BY <1>0, <1>3, <1>4 DEF HeldAreEmpty
<1>6. lock[<<Current(m), 0>>] # m
  BY <1>0, <1>1, <1>3 DEF NotYetHeld, Upserting
<1>7. Current(k) # Current(m)
  BY <1>4, <1>6
<1>8. Open[m][Current(k)] = {}
  BY ZenonT(60), <1>0, <1>3, <1>4, <1>7 DEF HeldAreEmpty
<1>9. /\ Len(order[m]) \in Nat \ {0}
      /\ Current(m) = order[m][Len(order[m])][2]
  <2>1. order[m] # <<>>
    BY <1>0, <1>1 DEF Working, Upserting, Busy
  <2> QED
    BY <1>0, <2>1, CurrentIsTaken
<1>10. i < Len(order[m]) /\ Len(order[m]) \in 1 .. Len(order[m])
  <2>1. i # Len(order[m])
    BY <1>5, <1>7, <1>9
  <2> QED
    BY <1>5, <1>9, <2>1
<1>11. Before(m, Current(k), Current(m))
  BY <1>5, <1>9, <1>10 DEF Before
<1> QED
  BY <1>1, <1>3, <1>8, <1>11

\* A circle of locks is a circle of orders.
LEMMA CircleOfOrders ==
  ASSUME IInv, NEW j \in Jobs, InCycle(j)
  PROVE  \E S \in SUBSET Jobs : \E a \in [S -> Hosts] :
           /\ j \in S
           /\ \A k \in S : (\E m \in S : CameBy(m, k, a)) /\ (\E m \in S : CameBy(k, m, a))
<1>1. PICK S \in SUBSET Jobs :
        /\ j \in S
        /\ \A k \in S : (\E m \in S : WaitsFor(k, m)) /\ (\E m \in S : WaitsFor(m, k))
  BY DEF InCycle
<1> DEFINE a == [k \in S |-> Current(k)]
<1>2. \A k, m \in S : WaitsFor(k, m) =>
        /\ m # k /\ Open[m][Current(k)] = {} /\ Current(k) \in Hosts
        /\ Before(m, Current(k), Current(m))
  <2> SUFFICES ASSUME NEW k \in S, NEW m \in S, WaitsFor(k, m)
               PROVE  /\ m # k /\ Open[m][Current(k)] = {} /\ Current(k) \in Hosts
                      /\ Before(m, Current(k), Current(m))
    OBVIOUS
  <2>1. PICK n \in S : WaitsFor(m, n)
    BY <1>1
  <2>2. k \in Jobs /\ m \in Jobs /\ n \in Jobs
    BY <1>1
  <2> QED
    BY <2>1, <2>2, HolderCameBy
<1>3. \A k \in S : Current(k) \in Hosts
  BY <1>1, <1>2
<1>4. a \in [S -> Hosts]
  BY <1>3
<1>5. \A k, m \in S : WaitsFor(k, m) => CameBy(m, k, a)
  <2>1. \A k \in S : a[k] = Current(k)
    OBVIOUS
  <2> HIDE DEF a
  <2> QED
    BY <1>2, <2>1 DEF CameBy
<1>6. \A k \in S : (\E m \in S : CameBy(m, k, a)) /\ (\E m \in S : CameBy(k, m, a))
  <2> HIDE DEF a
  <2> QED
    BY <1>1, <1>5
<1> HIDE DEF a
<1> QED
  BY <1>1, <1>4, <1>6

-----------------------------------------------------------------------------
(* Steps that write.                                                       *)

\* The row of a host or of one of its services is written.
LEMMA UpsertKeeps ==
  ASSUME IInv, NEW j \in Jobs, Upsert(j)
  PROVE  IInv'
<1> DEFINE h == Current(j)
           p == Key(j)[2]
           k == Key(j)
<1>0. Shapes /\ Working /\ HostFirst /\ InHand /\ RowsOfLastScan /\ HeldAreEmpty /\ NotYetHeld
  BY DEF IInv
<1>1. /\ stage[j] = "upserting" /\ h \in Hosts /\ p \in todo[j] /\ k = <<h, p>> /\ k \in Keys
      /\ p = NextRow(todo[j]) /\ (0 \in todo[j] => p = 0)
  BY <1>0, KeyIsDue DEF Upsert, Upserting
<1>2. UNCHANGED <<stage, order, db>>
  BY DEF Upsert
<1>3. /\ todo \in [Jobs -> SUBSET ({0} \cup Ports)]
      /\ lock \in [Keys -> Jobs \cup {Nothing}]
      /\ Table(rows) /\ Table(db)
      /\ order \in [Jobs -> Seq({"error", "host"} \X Hosts)]
      /\ stage \in [Jobs -> Stages]
  BY <1>0 DEF Shapes
<1>4. lock[k] \in {j, Nothing}
  BY DEF Upsert
<1>5. /\ lock'[k] = j
      /\ \A x \in Keys : x # k => lock'[x] = lock[x]
      /\ lock' \in [Keys -> Jobs \cup {Nothing}]
  BY <1>1, <1>3 DEF Upsert
<1>6. /\ todo'[j] = todo[j] \ {p}
      /\ \A i \in Jobs : i # j => todo'[i] = todo[i]
      /\ todo' \in [Jobs -> SUBSET ({0} \cup Ports)]
  BY <1>1, <1>3 DEF Upsert
<1>7. /\ Table(rows') /\ rows'[k].scan = j
      /\ \A x \in Keys : x # k => rows'[x] = rows[x]
      /\ p = 0 /\ rows[k].geo # Nothing => rows'[k].geo # Nothing
  <2>1. /\ DOMAIN rows = Keys /\ rows = [x \in Keys |-> rows[x]]
        /\ \A x \in Keys : rows[x] = [scan |-> rows[x].scan, geo |-> rows[x].geo,
                                      sig |-> rows[x].sig, cert |-> rows[x].cert]
    BY <1>3, TableIsFunction
  <2> DEFINE new == Written(j, p, rows[k])
  <2>2. /\ new = [scan |-> new.scan, geo |-> new.geo, sig |-> new.sig, cert |-> new.cert]
        /\ new.scan = j
        /\ p = 0 /\ rows[k].geo # Nothing => new.geo # Nothing
    BY <1>1, <2>1, WrittenIsRow
  <2>3. rows' = [rows EXCEPT ![k] = new]
    BY DEF Upsert
  <2> HIDE DEF new, k, p
  <2>4. rows'[k] = new /\ (\A x \in Keys : x # k => rows'[x] = rows[x])
    BY <1>1, <2>1, <2>3
  <2>5. rows' = [x \in Keys |-> rows'[x]]
    BY <1>1, <2>1, <2>3
  <2>6. \A x \in Keys : rows'[x] = [scan |-> rows'[x].scan, geo |-> rows'[x].geo,
                                    sig |-> rows'[x].sig, cert |-> rows'[x].cert]
    BY <2>1, <2>2, <2>4
  <2>7. Table(rows')
    BY <2>5, <2>6 DEF Table
  <2> QED
    BY <2>2, <2>4, <2>7
<1>8. \A i \in Jobs : Current(i)' = Current(i) /\ OpenNow(i)' = OpenNow(i)
  BY <1>2 DEF Current, OpenNow
<1>9. \A g \in Hosts : \A q \in {0} \cup Ports : <<g, q>> \in Keys
  BY DEF Keys
<1>10. h = Current(j)
  OBVIOUS
<1>11. Ports \subseteq Nat \ {0} /\ (\A i \in Jobs, g \in Hosts : Open[i][g] \subseteq Ports)
  BY AnalysisAssumption
<1>12. 0 \in {0} \cup Ports /\ p \in {0} \cup Ports
  BY <1>1, <1>3
<1> HIDE DEF h, p, k
<1>13. Shapes' /\ Working'
  BY <1>0, <1>2, <1>3, <1>5, <1>6, <1>7 DEF Shapes, Table, Working
<1>14. UnlockedAsCommitted'
  <2>1. j # Nothing
    BY AnalysisAssumption
  <2> QED
    BY <1>2, <1>5, <1>7, <2>1 DEF IInv, UnlockedAsCommitted
\* Nobody else has the row of the host: it is j's, or free until now.
<1>15. lock[<<h, 0>>] \in {j, Nothing} /\ (p # 0 => lock[<<h, 0>>] = j /\ rows[<<h, 0>>].scan = j)
  <2>1. CASE p = 0
    BY <1>1, <1>4, <2>1
  <2>2. CASE p # 0
    BY <1>0, <1>1, <1>10, <2>2 DEF InHand
  <2> QED
    BY <2>1, <2>2
<1>16. /\ lock'[<<h, 0>>] = j /\ rows'[<<h, 0>>].scan = j
       /\ \A g \in Hosts : g # h => lock'[<<g, 0>>] = lock[<<g, 0>>]
  <2>1. CASE p = 0
    BY <1>1, <1>5, <1>7, <1>9, <2>1
  <2>2. CASE p # 0
    BY <1>1, <1>5, <1>7, <1>9, <1>15, <2>2
  <2> QED
    BY <1>1, <1>5, <1>9, <2>1, <2>2
<1>17. HostFirst'
  <2> SUFFICES ASSUME NEW g \in Hosts, NEW q \in Ports, NEW i \in Jobs, lock'[<<g, q>>] = i
               PROVE  lock'[<<g, 0>>] = i
    BY DEF HostFirst
  <2>1. CASE <<g, q>> = k
    <3>1. g = h /\ i = j
      BY <1>1, <1>5, <2>1
    <3> QED
      BY <1>16, <3>1
  <2>2. CASE <<g, q>> # k
    <3>1. lock[<<g, q>>] = i
      BY <1>5, <1>9, <2>2
    <3>2. lock[<<g, 0>>] = i
      BY <1>0, <3>1 DEF HostFirst
    <3>3. CASE g = h
      <4>1. i # Nothing
        BY AnalysisAssumption
      <4> QED
        BY <1>15, <1>16, <3>2, <3>3, <4>1
    <3>4. CASE g # h
      BY <1>16, <3>2, <3>4
    <3> QED
      BY <3>3, <3>4
  <2> QED
    BY <2>1, <2>2
<1>18. InHand'
  <2> SUFFICES ASSUME NEW i \in Jobs, stage[i] = "upserting"
               PROVE  IF 0 \in todo'[i] THEN todo'[i] = {0} \cup OpenNow(i)
                      ELSE /\ todo'[i] \subseteq OpenNow(i)
                           /\ lock'[<<Current(i), 0>>] = i /\ rows'[<<Current(i), 0>>].scan = i
    BY <1>2, <1>8 DEF InHand
  <2>1. CASE i = j
    <3>1. 0 \notin todo'[j]
      BY <1>1, <1>6
    <3>2. todo'[j] \subseteq OpenNow(j)
      BY <1>0, <1>1, <1>6 DEF InHand
    <3> QED
      BY <1>10, <1>16, <2>1, <3>1, <3>2
  <2>2. CASE i # j /\ 0 \in todo[i]
    BY <1>0, <1>6, <2>2 DEF InHand
  <2>3. CASE i # j /\ 0 \notin todo[i]
    <3>1. /\ todo[i] \subseteq OpenNow(i)
          /\ lock[<<Current(i), 0>>] = i /\ rows[<<Current(i), 0>>].scan = i
      BY <1>0, <2>3 DEF InHand
    <3>2. Current(i) \in Hosts
      BY <1>0, CurrentIsTaken DEF Working, Busy
    <3>3. i # Nothing
      BY AnalysisAssumption
    <3>4. Current(i) # h
      BY <1>15, <2>3, <3>1, <3>3
    <3>5. <<Current(i), 0>> \in Keys /\ <<Current(i), 0>> # k
      BY <1>1, <1>9, <3>2, <3>4
    <3> QED
      BY <1>5, <1>6, <1>7, <2>3, <3>1, <3>5
  <2> QED
    BY <2>1, <2>2, <2>3
<1>19. RowsOfLastScan'
  <2> SUFFICES ASSUME NEW g \in Hosts, NEW i \in Jobs, rows'[<<g, 0>>].scan = i,
                      NEW q \in Open[i][g]
               PROVE  rows'[<<g, q>>].scan = i \/ Coming(i, g, q)'
    BY DEF RowsOfLastScan
  <2>1. q \in Ports /\ q # 0 /\ <<g, q>> \in Keys /\ <<g, 0>> \in Keys
    BY <1>9, <1>11
  <2>2. CASE g # h
    <3>1. <<g, q>> # k /\ <<g, 0>> # k
      BY <1>1, <2>2
    <3>2. rows'[<<g, 0>>] = rows[<<g, 0>>] /\ rows'[<<g, q>>] = rows[<<g, q>>]
          /\ lock'[<<g, 0>>] = lock[<<g, 0>>]
      BY <1>5, <1>7, <2>1, <3>1
    <3>3. rows[<<g, q>>].scan = i \/ Coming(i, g, q)
      BY <1>0, <3>2 DEF RowsOfLastScan
    <3>4. Coming(i, g, q) => i # j
      BY <1>10, <2>2 DEF Coming
    <3>5. Coming(i, g, q) => Coming(i, g, q)'
      BY <1>2, <1>6, <1>8, <3>2, <3>4 DEF Coming
    <3> QED
      BY <3>2, <3>3, <3>5
  <2>3. CASE g = h
    <3>1. i = j
      BY <1>16, <2>3
    <3>2. CASE p = 0
      <4>1. q \in todo'[j]
        <5>1. 0 \in todo[j]
          BY <1>1, <3>2
        <5>2. todo[j] = {0} \cup OpenNow(j)
          BY <1>0, <1>1, <5>1 DEF InHand
        <5>3. q \in OpenNow(j)
          BY <1>10, <2>3, <3>1 DEF OpenNow
        <5> QED
          BY <1>6, <2>1, <3>2, <5>2, <5>3
      <4> QED
        BY <1>1, <1>2, <1>8, <1>10, <1>16, <2>3, <3>1, <4>1 DEF Coming
    <3>3. CASE p # 0 /\ q = p
      BY <1>1, <1>7, <2>3, <3>1, <3>3
    <3>4. CASE p # 0 /\ q # p
      <4>1. rows[<<h, 0>>].scan = j
        BY <1>15, <3>4
      <4>2. rows[<<g, q>>].scan = j \/ Coming(j, g, q)
        BY <1>0, <1>1, <2>3, <3>1, <4>1 DEF RowsOfLastScan
      <4>3. <<h, q>> # k
        BY <1>1, <3>4
      <4>4. rows'[<<g, q>>] = rows[<<g, q>>]
        BY <1>7, <2>1, <2>3, <4>3
      <4>5. Coming(j, g, q) => Coming(j, g, q)'
        BY <1>2, <1>6, <1>8, <1>16, <2>3, <3>4 DEF Coming
      <4> QED
        BY <3>1, <4>2, <4>4, <4>5
    <3> QED
      BY <3>2, <3>3, <3>4
  <2> QED
    BY <2>2, <2>3
<1>20. ServicesOfLastScan'
  BY <1>2 DEF IInv, ServicesOfLastScan
<1>21. HeldAreEmpty'
  <2> SUFFICES ASSUME NEW g \in Hosts, NEW i \in Jobs, lock'[<<g, 0>>] = i
               PROVE  /\ \E n \in 1 .. Len(order'[i]) : order'[i][n][2] = g
                      /\ \/ Open[i][g] = {}
                         \/ g = Current(i)' /\ stage'[i] \in {"upserting", "committing"}
    BY DEF HeldAreEmpty
  <2> SUFFICES /\ \E n \in 1 .. Len(order[i]) : order[i][n][2] = g
               /\ \/ Open[i][g] = {}
                  \/ g = Current(i) /\ stage[i] \in {"upserting", "committing"}
    BY <1>2, <1>8
  <2>1. CASE g = h
    <3>1. i = j
      BY <1>16, <2>1
    <3>2. order[j] # <<>>
      BY <1>0, <1>1 DEF Working, Busy
    <3>3. Len(order[j]) \in Nat \ {0} /\ Current(j) = order[j][Len(order[j])][2]
      BY <1>0, <3>2, CurrentIsTaken
    <3>4. Len(order[j]) \in 1 .. Len(order[j])
      BY <3>3
    <3> QED
      BY <1>1, <1>10, <2>1, <3>1, <3>3, <3>4
  <2>2. CASE g # h
    <3>1. lock[<<g, 0>>] = i
      BY <1>16, <2>2
    <3>2. \E n \in 1 .. Len(order[i]) : order[i][n][2] = g
      BY <1>0, <3>1 DEF HeldAreEmpty
    <3>3. \/ Open[i][g] = {}
          \/ g = Current(i) /\ stage[i] \in {"upserting", "committing"}
      BY <1>0, <3>1 DEF HeldAreEmpty
    <3> QED
      BY <3>2, <3>3
  <2> QED
    BY <2>1, <2>2
<1>22. NotYetHeld'
  <2> SUFFICES ASSUME NEW i \in Jobs,
                      \/ stage[i] \in {"fingerprinting", "enriching"}
                      \/ stage[i] = "upserting" /\ 0 \in todo'[i]
               PROVE  lock'[<<Current(i), 0>>] # i
    BY <1>2, <1>8 DEF NotYetHeld
  <2>1. i # j
    BY <1>1, <1>6
  <2>2. lock[<<Current(i), 0>>] # i
    BY <1>0, <1>6, <2>1 DEF NotYetHeld
  <2>3. Current(i) \in Hosts
    BY <1>0, CurrentIsTaken DEF Working, Busy
  <2> QED
    BY <1>16, <2>1, <2>2, <2>3
<1>23. GeoInRows'
  <2> SUFFICES ASSUME NEW g \in Hosts, db[<<g, 0>>].geo # Nothing
               PROVE  rows'[<<g, 0>>].geo # Nothing
    BY <1>2 DEF GeoInRows
  <2>1. rows[<<g, 0>>].geo # Nothing
    BY DEF IInv, GeoInRows
  <2>2. CASE <<g, 0>> = k
    <3>1. p = 0
      BY <1>1, <2>2
    <3> QED
      BY <1>7, <2>1, <2>2, <3>1
  <2>3. CASE <<g, 0>> # k
    BY <1>7, <1>9, <2>1, <2>3
  <2> QED
    BY <2>2, <2>3
<1>24. DeadlockNeedsInversion'
  <2>1. \A i \in Jobs : Len(order[i]) \in Nat
    BY <1>3
  <2> QED
    BY <1>2, <2>1, OrdersGrow DEF IInv
<1> QED
  BY <1>13, <1>14, <1>17, <1>18, <1>19, <1>20, <1>21, <1>22, <1>23, <1>24 DEF IInv

\* The rows of a transaction are kept or given back together: a host's with all
\* those of its services.
LEMMA MineTogether ==
  ASSUME IInv, NEW j \in Jobs, NEW h \in Hosts, NEW p \in Ports
  PROVE  /\ <<h, p>> \in Keys /\ <<h, 0>> \in Keys
         /\ <<h, p>> \in Mine(j) => <<h, 0>> \in Mine(j)
         /\ <<h, 0>> \in Mine(j) /\ <<h, p>> \notin Mine(j) => rows[<<h, p>>] = db[<<h, p>>]
<1>0. HostFirst /\ UnlockedAsCommitted /\ lock \in [Keys -> Jobs \cup {Nothing}]
  BY DEF IInv, Shapes
<1>1. <<h, p>> \in Keys /\ <<h, 0>> \in Keys
  BY DEF Keys
<1>2. \A k \in Keys : k \in Mine(j) <=> lock[k] = j
  BY DEF Mine
<1>3. <<h, p>> \in Mine(j) => <<h, 0>> \in Mine(j)
  BY <1>0, <1>1, <1>2 DEF HostFirst
<1>4. <<h, 0>> \in Mine(j) /\ <<h, p>> \notin Mine(j) => lock[<<h, p>>] = Nothing
  <2> SUFFICES ASSUME lock[<<h, 0>>] = j, lock[<<h, p>>] # j, lock[<<h, p>>] # Nothing
               PROVE  FALSE
    BY <1>1, <1>2
  <2>1. lock[<<h, p>>] \in Jobs
    BY <1>0, <1>1
  <2>2. lock[<<h, 0>>] = lock[<<h, p>>]
    BY <1>0, <2>1 DEF HostFirst
  <2> QED
    BY <2>2
<1> QED
  BY <1>0, <1>1, <1>3, <1>4 DEF UnlockedAsCommitted

\* What both ends of a transaction have in common: its locks are given back.
LEMMA Released ==
  ASSUME Shapes, NEW j \in Jobs,
         lock' = [k \in Keys |-> IF k \in Mine(j) THEN Nothing ELSE lock[k]]
  PROVE  /\ lock' \in [Keys -> Jobs \cup {Nothing}]
         /\ \A k \in Keys : /\ k \in Mine(j) <=> lock[k] = j
                            /\ k \in Mine(j) => lock'[k] = Nothing
                            /\ k \notin Mine(j) => lock'[k] = lock[k]
         /\ \A k \in Keys : \A i \in Jobs : lock'[k] = i <=> i # j /\ lock[k] = i
<1>1. lock \in [Keys -> Jobs \cup {Nothing}] /\ Nothing \notin Jobs
  BY AnalysisAssumption DEF Shapes
<1>2. \A k \in Keys : k \in Mine(j) <=> lock[k] = j
  BY DEF Mine
<1>3. \A k \in Keys : lock'[k] = IF k \in Mine(j) THEN Nothing ELSE lock[k]
  OBVIOUS
<1>4. lock' \in [Keys -> Jobs \cup {Nothing}]
  BY <1>1
<1>5. \A k \in Keys : \A i \in Jobs : lock'[k] = i <=> (i # j /\ lock[k] = i)
  BY <1>1, <1>2, <1>3
<1> QED
  BY <1>2, <1>3, <1>4, <1>5

\* A table made of two is a table.
LEMMA MixedIsTable ==
  ASSUME NEW t, NEW u, Table(t), Table(u), NEW S,
         NEW w, w = [k \in Keys |-> IF k \in S THEN t[k] ELSE u[k]]
  PROVE  /\ Table(w)
         /\ \A k \in Keys : /\ k \in S => w[k] = t[k]
                            /\ k \notin S => w[k] = u[k]
<1>1. \A k \in Keys :
        /\ t[k] = [scan |-> t[k].scan, geo |-> t[k].geo, sig |-> t[k].sig, cert |-> t[k].cert]
        /\ u[k] = [scan |-> u[k].scan, geo |-> u[k].geo, sig |-> u[k].sig, cert |-> u[k].cert]
  BY TableIsFunction
<1>2. \A k \in Keys : w[k] = IF k \in S THEN t[k] ELSE u[k]
  OBVIOUS
<1>3. \A k \in Keys :
        w[k] = [scan |-> w[k].scan, geo |-> w[k].geo, sig |-> w[k].sig, cert |-> w[k].cert]
  BY <1>1, <1>2
<1>4. w = [k \in Keys |-> w[k]]
  OBVIOUS
<1>5. Table(w)
  BY <1>3, <1>4 DEF Table
<1> QED
  BY <1>2, <1>5

\* A transaction rolled back leaves no trace, and a job given up was in a circle.
LEMMA FailKeeps ==
  ASSUME IInv, NEW j \in Jobs, NEW how \in {"failed", "aborted"}, Fail(j, how),
         UNCHANGED <<order, todo>>, how = "aborted" => InCycle(j)
  PROVE  IInv'
<1>0. Shapes /\ Working /\ HostFirst /\ UnlockedAsCommitted /\ InHand /\ RowsOfLastScan
      /\ HeldAreEmpty /\ NotYetHeld /\ ServicesOfLastScan
  BY DEF IInv
<1>1. /\ stage' = [stage EXCEPT ![j] = how]
      /\ rows' = [k \in Keys |-> IF k \in Mine(j) THEN db[k] ELSE rows[k]]
      /\ lock' = [k \in Keys |-> IF k \in Mine(j) THEN Nothing ELSE lock[k]]
      /\ db' = db
  BY DEF Fail
<1>2. /\ stage'[j] = how /\ \A i \in Jobs : i # j => stage'[i] = stage[i]
      /\ stage' \in [Jobs -> Stages]
  BY <1>0, <1>1 DEF Shapes, Stages
<1>3. /\ lock' \in [Keys -> Jobs \cup {Nothing}]
      /\ \A k \in Keys : /\ k \in Mine(j) <=> lock[k] = j
                         /\ k \in Mine(j) => lock'[k] = Nothing
                         /\ k \notin Mine(j) => lock'[k] = lock[k]
      /\ \A k \in Keys : \A i \in Jobs : lock'[k] = i <=> (i # j /\ lock[k] = i)
  BY <1>0, <1>1, Released
<1>4. Table(db) /\ Table(rows)
  BY <1>0 DEF Shapes
<1>5. /\ Table(rows')
      /\ \A k \in Keys : k \in Mine(j) => rows'[k] = db[k]
      /\ \A k \in Keys : k \notin Mine(j) => rows'[k] = rows[k]
  BY <1>1, <1>4, MixedIsTable
<1>6. \A i \in Jobs : Current(i)' = Current(i) /\ OpenNow(i)' = OpenNow(i)
  BY DEF Current, OpenNow
<1>7. \A h \in Hosts : \A p \in {0} \cup Ports : <<h, p>> \in Keys
  BY DEF Keys
<1>8. \A i \in Jobs : stage[i] \in Busy => Current(i) \in Hosts
  BY <1>0, CurrentIsTaken DEF Working
<1>9. Shapes' /\ Working'
  <2>1. order' = order /\ todo' = todo /\ Table(db')
    BY <1>1, <1>4 DEF Table
  <2>2. Shapes'
    BY <1>0, <1>2, <1>3, <1>5, <2>1 DEF Shapes
  <2>3. \A i \in Jobs : stage'[i] \in Busy => stage[i] \in Busy
    BY <1>2 DEF Busy
  <2> QED
    BY <1>0, <2>1, <2>2, <2>3 DEF Working
<1>10. UnlockedAsCommitted'
  BY <1>0, <1>1, <1>3, <1>5 DEF UnlockedAsCommitted
<1>11. HostFirst'
  <2> SUFFICES ASSUME NEW h \in Hosts, NEW p \in Ports, NEW i \in Jobs, lock'[<<h, p>>] = i
               PROVE  lock'[<<h, 0>>] = i
    BY DEF HostFirst
  <2>1. i # j /\ lock[<<h, p>>] = i
    BY <1>3, <1>7
  <2>2. lock[<<h, 0>>] = i
    BY <1>0, <2>1 DEF HostFirst
  <2> QED
    BY <1>3, <1>7, <2>1, <2>2
<1>12. InHand'
  <2> SUFFICES ASSUME NEW i \in Jobs, stage'[i] = "upserting"
               PROVE  IF 0 \in todo[i] THEN todo[i] = {0} \cup OpenNow(i)
                      ELSE /\ todo[i] \subseteq OpenNow(i)
                           /\ lock'[<<Current(i), 0>>] = i /\ rows'[<<Current(i), 0>>].scan = i
    BY <1>6 DEF InHand
  <2>1. i # j /\ stage[i] = "upserting" /\ <<Current(i), 0>> \in Keys
    BY <1>2, <1>7, <1>8 DEF Busy
  <2>2. CASE 0 \in todo[i]
    BY <1>0, <2>1, <2>2 DEF InHand
  <2>3. CASE 0 \notin todo[i]
    <3>1. /\ todo[i] \subseteq OpenNow(i)
          /\ lock[<<Current(i), 0>>] = i /\ rows[<<Current(i), 0>>].scan = i
      BY <1>0, <2>1, <2>3 DEF InHand
    <3>2. lock'[<<Current(i), 0>>] = i /\ <<Current(i), 0>> \notin Mine(j)
      BY <1>3, <2>1, <3>1
    <3> QED
      BY <1>5, <2>1, <2>3, <3>1, <3>2
  <2> QED
    BY <2>2, <2>3
<1>13. RowsOfLastScan'
  <2> SUFFICES ASSUME NEW h \in Hosts, NEW i \in Jobs, rows'[<<h, 0>>].scan = i,
                      NEW p \in Open[i][h]
               PROVE  rows'[<<h, p>>].scan = i \/ Coming(i, h, p)'
    BY DEF RowsOfLastScan
  <2>1. p \in Ports
    BY AnalysisAssumption
  <2>2. /\ <<h, p>> \in Keys /\ <<h, 0>> \in Keys
        /\ <<h, p>> \in Mine(j) => <<h, 0>> \in Mine(j)
        /\ <<h, 0>> \in Mine(j) /\ <<h, p>> \notin Mine(j) => rows[<<h, p>>] = db[<<h, p>>]
    BY <2>1, MineTogether
  <2>3. CASE <<h, 0>> \in Mine(j)
    <3>1. rows'[<<h, 0>>] = db[<<h, 0>>] /\ rows'[<<h, p>>] = db[<<h, p>>]
      BY <1>5, <2>2, <2>3
    <3> QED
      BY <1>0, <3>1 DEF ServicesOfLastScan
  <2>4. CASE <<h, 0>> \notin Mine(j)
    <3>1. rows'[<<h, 0>>] = rows[<<h, 0>>] /\ rows'[<<h, p>>] = rows[<<h, p>>]
          /\ lock'[<<h, 0>>] = lock[<<h, 0>>] /\ lock[<<h, 0>>] # j
      BY <1>3, <1>5, <2>2, <2>4
    <3>2. rows[<<h, p>>].scan = i \/ Coming(i, h, p)
      BY <1>0, <3>1 DEF RowsOfLastScan
    <3>3. Coming(i, h, p) => Coming(i, h, p)'
      BY <1>2, <1>6, <3>1 DEF Coming
    <3> QED
      BY <3>1, <3>2, <3>3
  <2> QED
    BY <2>3, <2>4
<1>14. ServicesOfLastScan'
  BY <1>0, <1>1 DEF ServicesOfLastScan
<1>15. HeldAreEmpty'
  <2> SUFFICES ASSUME NEW h \in Hosts, NEW i \in Jobs, lock'[<<h, 0>>] = i
               PROVE  /\ \E n \in 1 .. Len(order'[i]) : order'[i][n][2] = h
                      /\ \/ Open[i][h] = {}
                         \/ h = Current(i)' /\ stage'[i] \in {"upserting", "committing"}
    BY DEF HeldAreEmpty
  <2>1. i # j /\ lock[<<h, 0>>] = i
    BY <1>3, <1>7
  <2>2. \E n \in 1 .. Len(order[i]) : order[i][n][2] = h
    BY <1>0, <2>1 DEF HeldAreEmpty
  <2>3. \/ Open[i][h] = {}
        \/ h = Current(i) /\ stage[i] \in {"upserting", "committing"}
    BY <1>0, <2>1 DEF HeldAreEmpty
  <2>4. \E n \in 1 .. Len(order'[i]) : order'[i][n][2] = h
    BY <2>2
  <2>5. Current(i)' = Current(i) /\ stage'[i] = stage[i]
    BY <1>2, <1>6, <2>1
  <2> QED
    BY <2>3, <2>4, <2>5
<1>16. NotYetHeld'
  <2> SUFFICES ASSUME NEW i \in Jobs,
                      \/ stage'[i] \in {"fingerprinting", "enriching"}
                      \/ stage'[i] = "upserting" /\ 0 \in todo[i]
               PROVE  lock'[<<Current(i), 0>>] # i
    BY <1>6 DEF NotYetHeld
  <2>1. i # j /\ stage'[i] = stage[i]
    BY <1>2
  <2>2. lock[<<Current(i), 0>>] # i /\ Current(i) \in Hosts
    BY <1>0, <1>8, <2>1 DEF NotYetHeld, Busy
  <2> QED
    BY <1>3, <1>7, <2>2
<1>17. GeoInRows'
  <2> SUFFICES ASSUME NEW h \in Hosts, db[<<h, 0>>].geo # Nothing
               PROVE  rows'[<<h, 0>>].geo # Nothing
    BY <1>1 DEF GeoInRows
  <2>1. rows[<<h, 0>>].geo # Nothing /\ <<h, 0>> \in Keys
    BY <1>7 DEF IInv, GeoInRows
  <2> QED
    BY <1>5, <2>1
<1>18. DeadlockNeedsInversion'
  <2>1. CASE how = "failed"
    <3>1. \A i \in Jobs : Len(order[i]) \in Nat /\ (stage'[i] = "aborted" => stage[i] = "aborted")
      BY <1>0, <1>2, <2>1 DEF Shapes
    <3> QED
      BY <3>1, OrdersGrow DEF IInv
  <2>2. CASE how = "aborted"
    <3>1. \A m \in Jobs : \A k : \A a : CameBy(m, k, a)' <=> CameBy(m, k, a)
      BY DEF CameBy, Before
    <3> SUFFICES ASSUME NEW i \in Jobs, stage'[i] = "aborted"
                 PROVE  \E S \in SUBSET Jobs : \E a \in [S -> Hosts] :
                          /\ i \in S
                          /\ \A k \in S : /\ \E m \in S : CameBy(m, k, a)
                                          /\ \E m \in S : CameBy(k, m, a)
      BY <3>1 DEF DeadlockNeedsInversion
    <3>2. CASE i = j
      BY <2>2, <3>2, CircleOfOrders
    <3>3. CASE i # j
      <4>1. stage[i] = "aborted"
        BY <1>2, <3>3
      <4> QED
        BY <4>1 DEF IInv, DeadlockNeedsInversion
    <3> QED
      BY <3>2, <3>3
  <2> QED
    BY <2>1, <2>2
<1> QED
  BY <1>9, <1>10, <1>11, <1>12, <1>13, <1>14, <1>15, <1>16, <1>17, <1>18 DEF IInv

\* What is committed is complete.
LEMMA CommitKeeps ==
  ASSUME IInv, NEW j \in Jobs, Commit(j)
  PROVE  IInv'
<1>0. Shapes /\ Working /\ HostFirst /\ UnlockedAsCommitted /\ InHand /\ RowsOfLastScan
      /\ HeldAreEmpty /\ NotYetHeld /\ ServicesOfLastScan
  BY DEF IInv
<1>1. /\ stage[j] \in {"waiting", "committing"}
      /\ stage' = [stage EXCEPT ![j] =
                     IF Len(order[j]) = Cardinality(Hosts) THEN "done" ELSE "waiting"]
      /\ db' = [k \in Keys |-> IF k \in Mine(j) THEN rows[k] ELSE db[k]]
      /\ lock' = [k \in Keys |-> IF k \in Mine(j) THEN Nothing ELSE lock[k]]
      /\ UNCHANGED <<order, todo, rows>>
  BY DEF Commit
<1>2. /\ stage'[j] \in {"waiting", "done"} /\ \A i \in Jobs : i # j => stage'[i] = stage[i]
      /\ stage' \in [Jobs -> Stages]
  BY <1>0, <1>1 DEF Shapes, Stages
<1>3. /\ lock' \in [Keys -> Jobs \cup {Nothing}]
      /\ \A k \in Keys : /\ k \in Mine(j) <=> lock[k] = j
                         /\ k \in Mine(j) => lock'[k] = Nothing
                         /\ k \notin Mine(j) => lock'[k] = lock[k]
      /\ \A k \in Keys : \A i \in Jobs : lock'[k] = i <=> (i # j /\ lock[k] = i)
  BY <1>0, <1>1, Released
<1>4. Table(db) /\ Table(rows)
  BY <1>0 DEF Shapes
<1>5. /\ Table(db')
      /\ \A k \in Keys : k \in Mine(j) => db'[k] = rows[k]
      /\ \A k \in Keys : k \notin Mine(j) => db'[k] = db[k]
  BY <1>1, <1>4, MixedIsTable
<1>6. \A i \in Jobs : Current(i)' = Current(i) /\ OpenNow(i)' = OpenNow(i)
  BY <1>1 DEF Current, OpenNow
<1>7. \A h \in Hosts : \A p \in {0} \cup Ports : <<h, p>> \in Keys
  BY DEF Keys
<1>8. \A i \in Jobs : stage[i] \in Busy => Current(i) \in Hosts
  BY <1>0, CurrentIsTaken DEF Working
<1>9. Shapes' /\ Working'
  <2>1. order' = order /\ todo' = todo /\ Table(rows')
    BY <1>1, <1>4 DEF Table
  <2>2. Shapes'
    BY <1>0, <1>2, <1>3, <1>5, <2>1 DEF Shapes
  <2>3. \A i \in Jobs : stage'[i] \in Busy => stage[i] \in Busy
    BY <1>2 DEF Busy
  <2> QED
    BY <1>0, <2>1, <2>2, <2>3 DEF Working
<1>10. UnlockedAsCommitted'
  BY <1>0, <1>1, <1>3, <1>5 DEF UnlockedAsCommitted
<1>11. HostFirst'
  <2> SUFFICES ASSUME NEW h \in Hosts, NEW p \in Ports, NEW i \in Jobs, lock'[<<h, p>>] = i
               PROVE  lock'[<<h, 0>>] = i
    BY DEF HostFirst
  <2>1. i # j /\ lock[<<h, p>>] = i
    BY <1>3, <1>7
  <2>2. lock[<<h, 0>>] = i
    BY <1>0, <2>1 DEF HostFirst
  <2> QED
    BY <1>3, <1>7, <2>1, <2>2
<1>12. InHand'
  <2> SUFFICES ASSUME NEW i \in Jobs, stage'[i] = "upserting"
               PROVE  IF 0 \in todo[i] THEN todo[i] = {0} \cup OpenNow(i)
                      ELSE /\ todo[i] \subseteq OpenNow(i)
                           /\ lock'[<<Current(i), 0>>] = i /\ rows[<<Current(i), 0>>].scan = i
    BY <1>1, <1>6 DEF InHand
  <2>1. i # j /\ stage[i] = "upserting" /\ <<Current(i), 0>> \in Keys
    BY <1>2, <1>7, <1>8 DEF Busy
  <2> QED
    BY <1>0, <1>3, <2>1 DEF InHand
<1>13. RowsOfLastScan'
  <2> SUFFICES ASSUME NEW h \in Hosts, NEW i \in Jobs, rows[<<h, 0>>].scan = i,
                      NEW p \in Open[i][h]
               PROVE  rows[<<h, p>>].scan = i \/ Coming(i, h, p)'
    BY <1>1 DEF RowsOfLastScan
  <2>1. rows[<<h, p>>].scan = i \/ Coming(i, h, p)
    BY <1>0 DEF RowsOfLastScan
  <2>2. Coming(i, h, p) => i # j
    BY <1>1 DEF Coming
  <2>3. Coming(i, h, p) => lock'[<<h, 0>>] = i
    BY <1>3, <1>7, <2>2 DEF Coming
  <2> QED
    BY <1>1, <1>2, <1>6, <2>1, <2>2, <2>3 DEF Coming
<1>14. ServicesOfLastScan'
  <2> SUFFICES ASSUME NEW h \in Hosts, NEW i \in Jobs, db'[<<h, 0>>].scan = i,
                      NEW p \in Open[i][h]
               PROVE  db'[<<h, p>>].scan = i
    BY DEF ServicesOfLastScan
  <2>1. p \in Ports
    BY AnalysisAssumption
  <2>2. /\ <<h, p>> \in Keys /\ <<h, 0>> \in Keys
        /\ <<h, p>> \in Mine(j) => <<h, 0>> \in Mine(j)
        /\ <<h, 0>> \in Mine(j) /\ <<h, p>> \notin Mine(j) => rows[<<h, p>>] = db[<<h, p>>]
    BY <2>1, MineTogether
  <2>3. CASE <<h, 0>> \in Mine(j)
    <3>1. db'[<<h, 0>>] = rows[<<h, 0>>] /\ db'[<<h, p>>] = rows[<<h, p>>]
          /\ lock[<<h, 0>>] = j
      BY <1>3, <1>5, <2>2, <2>3
    <3>2. rows[<<h, p>>].scan = i \/ Coming(i, h, p)
      BY <1>0, <3>1 DEF RowsOfLastScan
    <3>3. ~ Coming(i, h, p)
      BY <1>1, <3>1 DEF Coming
    <3> QED
      BY <3>1, <3>2, <3>3
  <2>4. CASE <<h, 0>> \notin Mine(j)
    <3>1. db'[<<h, 0>>] = db[<<h, 0>>] /\ db'[<<h, p>>] = db[<<h, p>>]
      BY <1>5, <2>2, <2>4
    <3> QED
      BY <1>0, <3>1 DEF ServicesOfLastScan
  <2> QED
    BY <2>3, <2>4
<1>15. HeldAreEmpty'
  <2> SUFFICES ASSUME NEW h \in Hosts, NEW i \in Jobs, lock'[<<h, 0>>] = i
               PROVE  /\ \E n \in 1 .. Len(order'[i]) : order'[i][n][2] = h
                      /\ \/ Open[i][h] = {}
                         \/ h = Current(i)' /\ stage'[i] \in {"upserting", "committing"}
    BY DEF HeldAreEmpty
  <2> SUFFICES /\ \E n \in 1 .. Len(order[i]) : order[i][n][2] = h
               /\ \/ Open[i][h] = {}
                  \/ h = Current(i) /\ stage'[i] \in {"upserting", "committing"}
    <3>1. order' = order
      BY <1>1
    <3> QED
      BY <1>6, <3>1
  <2>1. i # j /\ lock[<<h, 0>>] = i
    BY <1>3, <1>7
  <2>2. \E n \in 1 .. Len(order[i]) : order[i][n][2] = h
    BY <1>0, <2>1 DEF HeldAreEmpty
  <2>3. \/ Open[i][h] = {}
        \/ h = Current(i) /\ stage[i] \in {"upserting", "committing"}
    BY <1>0, <2>1 DEF HeldAreEmpty
  <2> QED
    BY <1>2, <2>1, <2>2, <2>3
<1>16. NotYetHeld'
  <2> SUFFICES ASSUME NEW i \in Jobs,
                      \/ stage'[i] \in {"fingerprinting", "enriching"}
                      \/ stage'[i] = "upserting" /\ 0 \in todo[i]
               PROVE  lock'[<<Current(i), 0>>] # i
    BY <1>1, <1>6 DEF NotYetHeld
  <2>1. i # j /\ stage'[i] = stage[i]
    BY <1>2
  <2>2. lock[<<Current(i), 0>>] # i /\ Current(i) \in Hosts
    BY <1>0, <1>8, <2>1 DEF NotYetHeld, Busy
  <2> QED
    BY <1>3, <1>7, <2>2
<1>17. GeoInRows'
  <2> SUFFICES ASSUME NEW h \in Hosts, db'[<<h, 0>>].geo # Nothing
               PROVE  rows[<<h, 0>>].geo # Nothing
    BY <1>1 DEF GeoInRows
  <2>1. <<h, 0>> \in Keys /\ (db[<<h, 0>>].geo # Nothing => rows[<<h, 0>>].geo # Nothing)
    BY <1>7 DEF IInv, GeoInRows
  <2> QED
    BY <1>5, <2>1
<1>18. DeadlockNeedsInversion'
  <2>1. \A i \in Jobs : Len(order[i]) \in Nat /\ (stage'[i] = "aborted" => stage[i] = "aborted")
    BY <1>0, <1>2 DEF Shapes
  <2> QED
    BY <1>1, <2>1, OrdersGrow DEF IInv
<1> QED
  BY <1>9, <1>10, <1>11, <1>12, <1>13, <1>14, <1>15, <1>16, <1>17, <1>18 DEF IInv

-----------------------------------------------------------------------------
(* The invariant.                                                          *)

LEMMA InvInit == Init => IInv
<1> SUFFICES ASSUME Init
             PROVE  IInv
  OBVIOUS
<1>0. /\ stage = [j \in Jobs |-> "waiting"] /\ order = [j \in Jobs |-> <<>>]
      /\ todo = [j \in Jobs |-> {}] /\ rows = [k \in Keys |-> NoRow]
      /\ lock = [k \in Keys |-> Nothing] /\ db = rows
  BY DEF Init
<1>1. Nothing \notin Jobs
  BY AnalysisAssumption
<1>2. \A h \in Hosts : \A p \in {0} \cup Ports : <<h, p>> \in Keys
  BY DEF Keys
<1>3. Table(rows) /\ Table(db)
  <2>1. \A k \in Keys :
          rows[k] = [scan |-> rows[k].scan, geo |-> rows[k].geo,
                     sig |-> rows[k].sig, cert |-> rows[k].cert]
    BY <1>0 DEF NoRow
  <2>2. rows = [k \in Keys |-> rows[k]]
    BY <1>0
  <2> QED
    BY <1>0, <2>1, <2>2 DEF Table
<1>4. Shapes /\ Working
  BY <1>0, <1>3 DEF Shapes, Working, Stages, Busy
<1>5. \A k \in Keys : lock[k] \notin Jobs
  BY <1>0, <1>1
<1>6. \A k \in Keys : rows[k].scan = Nothing /\ rows[k].geo = Nothing
  BY <1>0 DEF NoRow
<1>7. UnlockedAsCommitted /\ HostFirst /\ InHand
  BY <1>0, <1>2, <1>5 DEF UnlockedAsCommitted, HostFirst, InHand
<1>8. RowsOfLastScan /\ ServicesOfLastScan
  BY <1>0, <1>1, <1>2, <1>6 DEF RowsOfLastScan, ServicesOfLastScan
<1>9. HeldAreEmpty /\ NotYetHeld /\ DeadlockNeedsInversion
  BY <1>0, <1>2, <1>5 DEF HeldAreEmpty, NotYetHeld, DeadlockNeedsInversion
<1>10. GeoInRows
  BY <1>0 DEF GeoInRows
<1> QED
  BY <1>4, <1>7, <1>8, <1>9, <1>10 DEF IInv

LEMMA InvNext == IInv /\ [Next]_vars => IInv'
<1> SUFFICES ASSUME IInv, [Next]_vars
             PROVE  IInv'
  OBVIOUS
<1>1. CASE UNCHANGED vars
  BY <1>1, SocketsKeep DEF vars, dataVars
<1>2. CASE Next
  <2>1. PICK j \in Jobs : Job(j) \/ \E p \in Ports : Socket(j, p)
    BY <1>2 DEF Next
  <2>2. ASSUME NEW p \in Ports, Socket(j, p)
        PROVE  IInv'
    <3>1. CASE \/ ProbeConnects(j, p) \/ ProbeReads(j, p) \/ ProbeEnds(j, p)
               \/ ProbeGivesUp(j, p) \/ ProbeCloses(j, p)
      <4>1. UNCHANGED <<stage, order, todo, rows, lock, db>>
        BY <3>1 DEF ProbeConnects, ProbeReads, ProbeEnds, ProbeGivesUp, ProbeCloses,
                    ProbeStep, dataVars
      <4> QED
        BY <4>1, SocketsKeep
    <3>2. CASE ShakeFails(j, p) \/ ShakeDone(j, p)
      <4>1. UNCHANGED <<stage, order, todo, rows, lock, db>>
        BY <3>2 DEF ShakeFails, ShakeDone, ShakeStep, dataVars
      <4> QED
        BY <4>1, SocketsKeep
    <3>3. CASE ShakeCloses(j, p)
      <4>1. UNCHANGED <<order, todo>>
        BY <3>3 DEF ShakeCloses, ShakeStep
      <4>2. Fail(j, "failed") \/ UNCHANGED <<stage, rows, lock, db>>
        BY <3>3 DEF ShakeCloses, dataVars
      <4> QED
        BY <4>1, <4>2, SocketsKeep, FailKeeps
    <3> QED
      BY <2>2, <3>1, <3>2, <3>3 DEF Socket
  <2>3. ASSUME NEW h \in Hosts, TakeError(j, h)
        PROVE  IInv'
    <3> DEFINE next == IF Len(order'[j]) = Cardinality(Hosts) THEN "committing" ELSE "waiting"
    <3>1. /\ Take(j, "error", h) /\ UNCHANGED <<todo, rows, lock, db>>
          /\ stage' = [stage EXCEPT ![j] = next]
      BY <2>3 DEF TakeError, dataVars
    <3>2. next \in {"fingerprinting", "waiting", "committing"}
      OBVIOUS
    <3> HIDE DEF next
    <3> QED
      BY <3>1, <3>2, TakeKeeps
  <2>4. ASSUME NEW h \in Hosts, TakeHost(j, h)
        PROVE  IInv'
    <3>1. /\ Take(j, "host", h) /\ UNCHANGED <<todo, rows, lock, db>>
          /\ stage' = [stage EXCEPT ![j] = "fingerprinting"]
      BY <2>4 DEF TakeHost, dataVars
    <3> QED
      BY <3>1, TakeKeeps
  <2>5. ASSUME NEW country \in Country[j], Enrich(j, country)
        PROVE  IInv'
    <3>1. /\ UNCHANGED <<order, rows, lock, db, todo>>
          /\ stage[j] = "fingerprinting" /\ stage' = [stage EXCEPT ![j] = "enriching"]
      BY <2>5 DEF Enrich, dataVars
    <3> QED
      BY <3>1, WorkGoesOn
  <2>6. CASE Persist(j)
    <3>1. /\ UNCHANGED <<order, rows, lock, db>>
          /\ stage[j] = "enriching" /\ stage' = [stage EXCEPT ![j] = "upserting"]
          /\ todo' = [todo EXCEPT ![j] = {0} \cup OpenNow(j)]
      BY <2>6 DEF Persist, Statements, dataVars
    <3> QED
      BY <3>1, WorkGoesOn
  <2>7. CASE UpsertFails(j)
    BY <2>7, FailKeeps DEF UpsertFails
  <2>8. CASE DeadlockDetected(j)
    BY <2>8, FailKeeps DEF DeadlockDetected
  <2> QED
    BY <2>1, <2>2, <2>3, <2>4, <2>5, <2>6, <2>7, <2>8, UpsertKeeps, RecordKeeps, CommitKeeps
    DEF Job
<1> QED
  BY <1>1, <1>2

LEMMA Invariance == Spec => []IInv
BY InvInit, InvNext, PTL DEF Spec

-----------------------------------------------------------------------------
(* The signatures of the services.                                         *)

\* The responses a probe of the port may end with.
Responses(p) == {Nothing, "empty"} \cup Page[p]

\* The engine is shown what a probe may return.
Observed ==
  /\ page = [j \in Jobs |-> [p \in Ports |-> page[j][p]]]
  /\ \A j \in Jobs, p \in Ports : page[j][p] \in Responses(p)

\* From then on the open services of the host in work have their favourite.
FoundBest ==
  /\ DOMAIN found = Jobs
  /\ \A j \in Jobs : stage[j] \in {"enriching", "upserting"} =>
       \A p \in OpenNow(j) : found[j][p] \in Favourites[p]

BestIn(table) ==
  \A h \in Hosts, p \in Ports :
    table[<<h, p>>].scan # Nothing => table[<<h, p>>].sig \in Favourites[p]

Chosen == Observed /\ FoundBest /\ BestIn(rows) /\ BestIn(db)

\* Where the search for the best signature stands after n of them.
Start == [n |-> 0, score |-> -1]
Follows(g, n, p, response) ==
  g[n] = IF n = 0 THEN Start ELSE NextBest(g[n - 1], n, p, response)

\* The loop of identify is a function of the number of signatures looked at.
LEMMA BestOfFollows ==
  ASSUME NEW p, NEW response
  PROVE  \A n \in 0 .. Len(Signatures) : Follows(BestOf(p, response), n, p, response)
<1> DEFINE N == Len(Signatures)
           Begun(m) == \E g : \A n \in 0 .. m : Follows(g, n, p, response)
           Bad == {m \in 0 .. N : ~ Begun(m)}
<1>1. N \in Nat
  BY AnalysisAssumption
<1> HIDE DEF N
<1>2. Bad = {}
  <2> SUFFICES ASSUME Bad # {} PROVE FALSE
    OBVIOUS
  <2>1. PICK least \in Bad : \A y \in Bad : least <= y
    <3>1. Bad \in SUBSET Nat
      BY <1>1
    <3> HIDE DEF Bad
    <3> QED
      BY <3>1, LeastExists
  <2>2. CASE least = 0
    <3> DEFINE g == [n \in 0 .. 0 |-> Start]
    <3>1. \A n \in 0 .. 0 : Follows(g, n, p, response)
      BY DEF Follows
    <3> HIDE DEF g
    <3>2. Begun(0)
      BY <3>1
    <3> QED
      BY <2>2, <3>2
  <2>3. CASE least # 0
    <3>1. least \in Nat /\ least - 1 \in 0 .. N /\ least - 1 \notin Bad
      BY <1>1, <2>1, <2>3
    <3>2. PICK f : \A n \in 0 .. least - 1 : Follows(f, n, p, response)
      BY <3>1
    <3> DEFINE g == [n \in 0 .. least |->
                       IF n = least THEN NextBest(f[least - 1], least, p, response) ELSE f[n]]
    <3>3. ASSUME NEW n \in 0 .. least PROVE Follows(g, n, p, response)
      <4>1. CASE n = least
        <5>1. g[n] = NextBest(f[least - 1], least, p, response) /\ g[n - 1] = f[n - 1]
          BY <2>3, <3>1, <4>1
        <5> HIDE DEF g
        <5> QED
          BY <2>3, <4>1, <5>1 DEF Follows
      <4>2. CASE n # least
        <5>1. n \in 0 .. least - 1
          BY <3>1, <4>2
        <5>2. g[n] = f[n] /\ (n # 0 => g[n - 1] = f[n - 1])
          BY <3>1, <4>2
        <5>3. Follows(f, n, p, response)
          BY <3>2, <5>1
        <5> HIDE DEF g
        <5> QED
          BY <5>2, <5>3 DEF Follows
      <4> QED
        BY <4>1, <4>2
    <3> HIDE DEF g
    <3>4. Begun(least)
      BY <3>3
    <3> QED
      BY <2>1, <3>4
  <2> QED
    BY <2>2, <2>3
<1>3. Begun(N)
  <2>1. N \in 0 .. N /\ N \notin Bad
    BY <1>1, <1>2
  <2> QED
    BY <2>1
<1>4. PICK f : \A n \in 0 .. N : Follows(f, n, p, response)
  BY <1>3
<1> DEFINE g == [n \in 0 .. N |-> f[n]]
           Step(h) == [n \in 0 .. N |->
                        IF n = 0 THEN Start ELSE NextBest(h[n - 1], n, p, response)]
<1>5. ASSUME NEW n \in 0 .. N
      PROVE  g[n] = IF n = 0 THEN Start ELSE NextBest(g[n - 1], n, p, response)
  <2>1. g[n] = f[n] /\ (n # 0 => g[n - 1] = f[n - 1])
    BY <1>1
  <2> HIDE DEF g
  <2> QED
    BY <1>4, <2>1 DEF Follows
<1>6. g = Step(g)
  BY <1>5
<1>7. BestOf(p, response) = Step(BestOf(p, response))
  <2>1. BestOf(p, response) = CHOOSE h : h = Step(h)
    BY DEF BestOf, Start, N
  <2> HIDE DEF g, Step
  <2> QED
    BY <1>6, <2>1
<1> DEFINE b == BestOf(p, response)
<1> HIDE DEF b
<1>8. \A n \in 0 .. N : b[n] = IF n = 0 THEN Start ELSE NextBest(b[n - 1], n, p, response)
  <2>1. b = Step(b)
    BY <1>7 DEF b
  <2> QED
    BY <2>1
<1> QED
  BY <1>8 DEF Follows, b, N

\* A score is a number.
LEMMA ScoreIsNumber ==
  ASSUME NEW n \in 1 .. Len(Signatures), NEW p, NEW response
  PROVE  Score(Signatures[n], p, response) \in Nat
<1> DEFINE x == Signatures[n].confidence
                  + (IF FieldText(Signatures[n], p, response) \in Signatures[n].versions THEN 2 ELSE 0)
                  + (IF p \in Signatures[n].ports THEN 2 ELSE 0)
<1>1. x \in Nat
  BY AnalysisAssumption
<1>2. Score(Signatures[n], p, response) = Min({100, x})
  BY DEF Score
<1> HIDE DEF x
<1>3. \E m \in {100, x} : \A y \in {100, x} : m <= y
  <2>1. {100, x} \in SUBSET Nat /\ {100, x} # {}
    BY <1>1
  <2> QED
    BY <2>1, LeastExists
<1>4. Min({100, x}) \in {100, x}
  BY <1>3 DEF Min
<1> QED
  BY <1>1, <1>2, <1>4

\* The first of the signatures that apply among the first n with the highest score.
Candidate(p, response) == {m \in 1 .. Len(Signatures) : Applies(Signatures[m], p, response)}

IsBest(best, n, p, response) ==
  LET S(m) == Score(Signatures[m], p, response)
  IN  \/ best = Start /\ \A m \in Candidate(p, response) : n < m
      \/ /\ best.n \in Candidate(p, response) /\ best.n <= n /\ best.score = S(best.n)
         /\ \A m \in Candidate(p, response) :
              m <= n => S(m) < S(best.n) \/ (S(m) = S(best.n) /\ best.n <= m)

\* One turn of the loop keeps the best.
LEMMA NextBestIsBest ==
  ASSUME NEW p, NEW response, NEW n \in 1 .. Len(Signatures), NEW best,
         IsBest(best, n - 1, p, response)
  PROVE  IsBest(NextBest(best, n, p, response), n, p, response)
<1> DEFINE C == Candidate(p, response)
           S(m) == Score(Signatures[m], p, response)
           next == NextBest(best, n, p, response)
<1>1. /\ n \in Nat /\ n - 1 \in Nat /\ \A m \in C : m \in Nat /\ S(m) \in Nat
      /\ n \in C <=> Applies(Signatures[n], p, response)
  <2>1. Len(Signatures) \in Nat
    BY AnalysisAssumption
  <2>2. \A m \in C : m \in 1 .. Len(Signatures)
    BY DEF Candidate
  <2>3. \A m \in C : S(m) \in Nat
    BY <2>2, ScoreIsNumber
  <2>4. n \in C <=> Applies(Signatures[n], p, response)
    BY DEF Candidate
  <2> HIDE DEF C, S
  <2> QED
    BY <2>1, <2>2, <2>3, <2>4
<1>2. S(n) \in Nat
  BY ScoreIsNumber
<1>3. next = IF n \in C /\ S(n) > best.score THEN [n |-> n, score |-> S(n)] ELSE best
  BY <1>1 DEF NextBest, Better
<1>4. \/ best = Start /\ \A m \in C : n - 1 < m
      \/ /\ best.n \in C /\ best.n <= n - 1 /\ best.score = S(best.n)
         /\ \A m \in C : m <= n - 1 => S(m) < S(best.n) \/ (S(m) = S(best.n) /\ best.n <= m)
  BY DEF IsBest
<1>5. IsBest(next, n, p, response)
        <=> \/ next = Start /\ \A m \in C : n < m
            \/ /\ next.n \in C /\ next.n <= n /\ next.score = S(next.n)
               /\ \A m \in C : m <= n => S(m) < S(next.n) \/ (S(m) = S(next.n) /\ next.n <= m)
  BY DEF IsBest
<1> SUFFICES IsBest(next, n, p, response)
  OBVIOUS
<1> HIDE DEF C, S, next
<1>6. CASE n \notin C
  <2>1. next = best
    BY <1>3, <1>6
  <2>2. \A m \in C : m <= n => m <= n - 1
    BY <1>1, <1>6
  <2>3. \A m \in C : n - 1 < m => n < m
    BY <1>1, <1>6
  <2>4. best.n \in C /\ best.n <= n - 1 => best.n <= n
    BY <1>1
  <2> QED
    BY <1>4, <1>5, <2>1, <2>2, <2>3, <2>4
<1>7. CASE n \in C /\ best = Start
  <2>1. next = [n |-> n, score |-> S(n)]
    BY <1>2, <1>3, <1>7 DEF Start
  <2>2. ~ (best.n \in C /\ best.n <= n - 1 /\ best.score = S(best.n))
    BY <1>1, <1>7 DEF Start
  <2>3. \A m \in C : m <= n => m = n
    BY <1>1, <1>4, <2>2
  <2> QED
    BY <1>1, <1>5, <1>7, <2>1, <2>3
<1>8. CASE n \in C /\ best # Start
  <2>1. /\ best.n \in C /\ best.n <= n - 1 /\ best.score = S(best.n)
        /\ \A m \in C : m <= n - 1 => S(m) < S(best.n) \/ (S(m) = S(best.n) /\ best.n <= m)
    BY <1>4, <1>8
  <2>2. \A m \in C : m <= n => m <= n - 1 \/ m = n
    BY <1>1
  <2>3. best.n \in Nat /\ S(best.n) \in Nat /\ best.n <= n
    BY <1>1, <2>1
  <2>4. CASE S(n) > best.score
    <3>1. next.n = n /\ next.score = S(n)
      BY <1>3, <1>8, <2>4
    <3>2. \A m \in C : m <= n => S(m) < S(n) \/ (S(m) = S(n) /\ n <= m)
      BY <1>1, <1>2, <2>1, <2>2, <2>3, <2>4
    <3> QED
      BY <1>5, <1>8, <3>1, <3>2
  <2>5. CASE ~ (S(n) > best.score)
    <3>1. next = best
      BY <1>3, <2>5
    <3>2. S(n) < S(best.n) \/ (S(n) = S(best.n) /\ best.n <= n)
      BY <1>2, <2>1, <2>3, <2>5
    <3>3. \A m \in C : m <= n => S(m) < S(best.n) \/ (S(m) = S(best.n) /\ best.n <= m)
      BY <2>1, <2>2, <3>2
    <3> QED
      BY <1>5, <2>1, <2>3, <3>1, <3>3
  <2> QED
    BY <2>4, <2>5
<1> QED
  BY <1>6, <1>7, <1>8

\* The signature identify chooses is the favourite for its observation.
LEMMA IdentifiesFavourite ==
  ASSUME NEW p \in Ports, NEW response \in Responses(p)
  PROVE  Identify(p, response) \in Favourites[p]
<1> DEFINE C == Candidate(p, response)
           S(m) == Score(Signatures[m], p, response)
           N == Len(Signatures)
           b == BestOf(p, response)
           Bad == {n \in 0 .. N : ~ IsBest(b[n], n, p, response)}
<1>1. N \in Nat /\ \A m \in C : m \in 1 .. N /\ S(m) \in Nat
  <2>1. N \in Nat
    BY AnalysisAssumption
  <2>2. \A m \in C : m \in 1 .. N
    BY DEF Candidate
  <2>3. \A m \in C : S(m) \in Nat
    BY <2>2, ScoreIsNumber
  <2> QED
    BY <2>1, <2>2, <2>3
<1>2. \A n \in 0 .. N : b[n] = IF n = 0 THEN Start ELSE NextBest(b[n - 1], n, p, response)
  BY BestOfFollows DEF Follows
<1>3. Bad = {}
  <2> SUFFICES ASSUME Bad # {} PROVE FALSE
    OBVIOUS
  <2>1. PICK least \in Bad : \A y \in Bad : least <= y
    <3>1. Bad \in SUBSET Nat
      BY <1>1
    <3> HIDE DEF Bad
    <3> QED
      BY <3>1, LeastExists
  <2>2. CASE least = 0
    <3>1. b[0] = Start
      BY <1>1, <1>2
    <3>2. \A m \in C : 0 < m
      BY <1>1
    <3> HIDE DEF b
    <3>3. IsBest(b[0], 0, p, response)
      BY <3>1, <3>2 DEF IsBest
    <3> QED
      BY <2>1, <2>2, <3>3
  <2>3. CASE least # 0
    <3>1. least \in 1 .. N /\ least - 1 \in 0 .. N /\ least - 1 \notin Bad
      BY <1>1, <2>1, <2>3
    <3>2. b[least] = NextBest(b[least - 1], least, p, response)
      BY <1>2, <2>3, <3>1
    <3> HIDE DEF b
    <3>3. IsBest(b[least - 1], least - 1, p, response)
      BY <3>1
    <3>4. IsBest(b[least], least, p, response)
      BY <3>1, <3>2, <3>3, NextBestIsBest DEF N
    <3> QED
      BY <2>1, <3>4
  <2> QED
    BY <2>2, <2>3
<1>4. IsBest(b[N], N, p, response) /\ Identify(p, response) = b[N].n
  BY <1>1, <1>3 DEF Identify
<1> DEFINE Top(n) == \A m \in C : S(m) < S(n) \/ (S(m) = S(n) /\ n <= m)
           best == b[N]
<1>5. \/ best = Start /\ C = {}
      \/ best.n \in C /\ Top(best.n)
  <2>1. \/ best = Start /\ \A m \in C : N < m
        \/ best.n \in C /\ \A m \in C : m <= N => S(m) < S(best.n) \/ (S(m) = S(best.n) /\ best.n <= m)
    BY <1>4 DEF IsBest
  <2>2. \A m \in C : m <= N /\ ~ (N < m)
    BY <1>1
  <2> HIDE DEF C, S, N, best
  <2> QED
    BY <2>1, <2>2
<1>6. (IF C = {} THEN 0 ELSE CHOOSE n \in C : Top(n)) \in Favourites[p]
  <2>1. Favourites[p] = {LET applicable == {m \in 1 .. Len(Signatures) : Applies(Signatures[m], p, r)}
                             T(m) == Score(Signatures[m], p, r)
                         IN  IF applicable = {} THEN 0
                             ELSE CHOOSE n \in applicable :
                                    \A m \in applicable : T(m) < T(n) \/ (T(m) = T(n) /\ n <= m)
                         : r \in Responses(p)}
    BY DEF Favourites, Responses
  <2> QED
    BY <2>1 DEF Candidate
<1>7. ASSUME NEW m \in C, NEW n \in C, Top(m), Top(n) PROVE m = n
  <2>1. m \in Nat /\ n \in Nat /\ S(m) \in Nat /\ S(n) \in Nat
    BY <1>1
  <2>2. /\ S(m) < S(n) \/ (S(m) = S(n) /\ n <= m)
        /\ S(n) < S(m) \/ (S(n) = S(m) /\ m <= n)
    BY <1>7
  <2> HIDE DEF S
  <2> QED
    BY <2>1, <2>2
<1>8. CASE best = Start /\ C = {}
  BY <1>4, <1>6, <1>8 DEF Start
<1>9. CASE best.n \in C /\ Top(best.n)
  <2>1. (CHOOSE n \in C : Top(n)) = best.n
    <3> HIDE DEF C, Top, best
    <3> QED
      BY <1>7, <1>9
  <2> HIDE DEF Top
  <2>2. C # {}
    BY <1>9
  <2> HIDE DEF C
  <2> QED
    BY <1>4, <1>6, <2>1, <2>2
<1> QED
  BY <1>5, <1>8, <1>9

\* A rollback goes back to committed rows.
LEMMA RolledBackBest ==
  ASSUME BestIn(rows), BestIn(db), NEW j, NEW how, Fail(j, how)
  PROVE  BestIn(rows') /\ BestIn(db')
<1>1. \A k \in Keys : rows'[k] \in {rows[k], db[k]}
  BY DEF Fail
<1>2. \A h \in Hosts, p \in Ports : <<h, p>> \in Keys
  BY DEF Keys
<1> QED
  BY <1>1, <1>2 DEF BestIn, Fail

\* Nothing is shown, found or written before the first step.
LEMMA ChosenInit == Init => Chosen
<1> SUFFICES ASSUME Init PROVE Chosen
  OBVIOUS
<1>1. Observed
  BY DEF Init, Blank, Observed, Responses
<1>2. FoundBest
  BY DEF Init, FoundBest
<1>3. \A h \in Hosts, p \in Ports : rows[<<h, p>>].scan = Nothing /\ db[<<h, p>>].scan = Nothing
  BY DEF Init, Keys, NoRow
<1> QED
  BY <1>1, <1>2, <1>3 DEF Chosen, BestIn

\* The sockets: only a probe that ends has a response.
LEMMA SocketChosen ==
  ASSUME IInv, Chosen, NEW j \in Jobs, NEW p \in Ports, Socket(j, p)
  PROVE  Chosen'
<1>1. UNCHANGED <<order, found>>
  BY DEF Socket, ProbeConnects, ProbeReads, ProbeEnds, ProbeGivesUp, ProbeCloses, ProbeStep,
         ShakeFails, ShakeDone, ShakeCloses, ShakeStep
<1>2. \/ page' = page
      \/ \E response \in Responses(p) : page' = [page EXCEPT ![j][p] = response]
  BY DEF Socket, ProbeConnects, ProbeReads, ProbeEnds, ProbeGivesUp, ProbeCloses, Responses,
         ShakeFails, ShakeDone, ShakeCloses, ShakeStep
<1>3. \/ UNCHANGED <<stage, rows, db>>
      \/ Fail(j, "failed")
  BY DEF Socket, ProbeConnects, ProbeReads, ProbeEnds, ProbeGivesUp, ProbeCloses, ProbeStep,
         ShakeFails, ShakeDone, ShakeCloses, ShakeStep, dataVars
<1>4. Observed'
  <2>1. \A i \in Jobs, q \in Ports : page'[i][q] \in Responses(q)
    BY <1>2 DEF Chosen, Observed
  <2>2. page' = [i \in Jobs |-> [q \in Ports |-> page'[i][q]]]
    BY <1>2 DEF Chosen, Observed
  <2> QED
    BY <2>1, <2>2 DEF Observed, Responses
<1>5. \A i \in Jobs : stage'[i] = stage[i] \/ stage'[i] = "failed"
  BY <1>3 DEF IInv, Shapes, Fail
<1>6. FoundBest'
  BY <1>1, <1>5 DEF Chosen, FoundBest, OpenNow, Current
<1>7. BestIn(rows') /\ BestIn(db')
  BY <1>3, RolledBackBest DEF Chosen
<1> QED
  BY <1>4, <1>6, <1>7 DEF Chosen

\* A job that goes on to the next stage.
LEMMA JobChosen ==
  ASSUME IInv, Chosen, NEW j \in Jobs, Job(j)
  PROVE  Chosen'
<1>0. /\ stage \in [Jobs -> Stages] /\ DOMAIN found = Jobs /\ DOMAIN order = Jobs
      /\ Table(rows) /\ Shapes /\ Working /\ InHand
  BY DEF IInv, Shapes, Chosen, FoundBest
<1>1. ASSUME NEW h \in Hosts, TakeError(j, h) \/ TakeHost(j, h)
      PROVE  Chosen'
  <2>1. UNCHANGED <<page, found, rows, db>>
    BY <1>1 DEF TakeError, TakeHost, socketVars, dataVars
  <2>2. stage'[j] \notin {"enriching", "upserting"}
    BY <1>0, <1>1 DEF TakeError, TakeHost
  <2>3. \A i \in Jobs : i # j => stage'[i] = stage[i] /\ order'[i] = order[i]
    BY <1>0, <1>1 DEF TakeError, TakeHost, Take
  <2>4. FoundBest'
    BY <2>1, <2>2, <2>3 DEF Chosen, FoundBest, OpenNow, Current
  <2> QED
    BY <2>1, <2>4 DEF Chosen, Observed, Responses, BestIn
<1>2. ASSUME NEW country \in Country[j], Enrich(j, country)
      PROVE  Chosen'
  <2>1. UNCHANGED <<order, rows, db>> /\ page' = [page EXCEPT ![j] = Blank]
    BY <1>2 DEF Enrich, dataVars
  <2>2. Observed'
    BY <2>1 DEF Chosen, Observed, Responses, Blank
  <2>3. /\ DOMAIN found' = Jobs
        /\ \A i \in Jobs : i # j => found'[i] = found[i] /\ stage'[i] = stage[i]
        /\ \A p \in Ports : p \in OpenNow(j) => found'[j][p] = Identify(p, page[j][p])
    BY <1>0, <1>2 DEF Enrich
  <2>4. \A p \in Ports : p \in OpenNow(j) => found'[j][p] \in Favourites[p]
    BY <2>3, IdentifiesFavourite DEF Chosen, Observed
  <2>5. OpenNow(j) \subseteq Ports
    <3>1. stage[j] \in Busy
      BY <1>2 DEF Enrich, Busy
    <3>2. Current(j) \in Hosts
      BY <1>0, <3>1, CurrentIsTaken DEF Working
    <3> QED
      BY <3>2, AnalysisAssumption DEF OpenNow
  <2>6. FoundBest'
    BY <2>1, <2>3, <2>4, <2>5 DEF Chosen, FoundBest, OpenNow, Current
  <2> QED
    BY <2>1, <2>2, <2>6 DEF Chosen, BestIn
<1>3. CASE Persist(j)
  <2>1. UNCHANGED <<page, order, found, rows, db>>
    BY <1>3 DEF Persist, socketVars, dataVars
  <2>2. stage[j] = "enriching" /\ \A i \in Jobs : i # j => stage'[i] = stage[i]
    BY <1>0, <1>3 DEF Persist
  <2>3. FoundBest'
    BY <2>1, <2>2 DEF Chosen, FoundBest, OpenNow, Current
  <2> QED
    BY <2>1, <2>3 DEF Chosen, Observed, Responses, BestIn
<1>4. CASE Upsert(j)
  <2>1. UNCHANGED <<page, stage, order, found, db>>
    BY <1>4 DEF Upsert, socketVars
  <2>2. FoundBest'
    BY <2>1 DEF Chosen, FoundBest, OpenNow, Current
  <2>3. BestIn(rows')
    <3> DEFINE k == Key(j)
               p == Key(j)[2]
    <3>1. /\ stage[j] = "upserting" /\ p \in todo[j] /\ k = <<Current(j), p>> /\ k \in Keys
          /\ Current(j) \in Hosts
      BY <1>0, <1>4, KeyIsDue DEF Upsert, Upserting
    <3>2. rows' = [rows EXCEPT ![k] = Written(j, p, rows[k])] /\ DOMAIN rows = Keys
      BY <1>0, <1>4, TableIsFunction DEF Upsert
    <3>3. p # 0 => rows'[k].sig \in Favourites[p]
      <4>1. p # 0 => p \in OpenNow(j)
        BY <1>0, <3>1 DEF InHand
      <4>2. p # 0 => rows'[k].sig = found[j][p]
        BY <3>1, <3>2 DEF Written
      <4> QED
        BY <3>1, <4>1, <4>2 DEF Chosen, FoundBest
    <3>4. \A x \in Keys : x # k => rows'[x] = rows[x]
      BY <3>2
    <3> SUFFICES ASSUME NEW h \in Hosts, NEW q \in Ports, rows'[<<h, q>>].scan # Nothing
                 PROVE  rows'[<<h, q>>].sig \in Favourites[q]
      BY DEF BestIn
    <3>5. <<h, q>> \in Keys /\ q # 0
      BY AnalysisAssumption DEF Keys
    <3>6. CASE <<h, q>> = k
      <4>1. q = p
        BY <3>1, <3>6
      <4> QED
        BY <3>3, <3>5, <3>6, <4>1
    <3>7. CASE <<h, q>> # k
      BY <3>4, <3>5, <3>7 DEF Chosen, BestIn
    <3> QED
      BY <3>6, <3>7
  <2> QED
    BY <2>1, <2>2, <2>3 DEF Chosen, Observed, Responses, BestIn
<1>5. CASE UpsertFails(j) \/ DeadlockDetected(j)
  <2>1. UNCHANGED <<page, order, found>>
    BY <1>5 DEF UpsertFails, DeadlockDetected, socketVars
  <2>2. Fail(j, "failed") \/ Fail(j, "aborted")
    BY <1>5 DEF UpsertFails, DeadlockDetected
  <2>3. \A i \in Jobs : stage'[i] = stage[i] \/ stage'[i] \in {"failed", "aborted"}
    BY <1>0, <2>2 DEF Fail
  <2>4. FoundBest'
    BY <2>1, <2>3 DEF Chosen, FoundBest, OpenNow, Current
  <2>5. BestIn(rows') /\ BestIn(db')
    BY <2>2, RolledBackBest DEF Chosen
  <2> QED
    BY <2>1, <2>4, <2>5 DEF Chosen, Observed, Responses
<1>6. CASE Record(j)
  <2>1. UNCHANGED <<page, order, rows, db>> /\ found' = [found EXCEPT ![j] = Zero]
    BY <1>6 DEF Record, dataVars
  <2>2. stage'[j] \notin {"enriching", "upserting"} /\ \A i \in Jobs : i # j => stage'[i] = stage[i]
    BY <1>0, <1>6 DEF Record
  <2>3. FoundBest'
    BY <1>0, <2>1, <2>2 DEF Chosen, FoundBest, OpenNow, Current
  <2> QED
    BY <2>1, <2>3 DEF Chosen, Observed, Responses, BestIn
<1>7. CASE Commit(j)
  <2>1. UNCHANGED <<page, order, found, rows>>
    BY <1>7 DEF Commit, socketVars
  <2>2. stage'[j] \notin {"enriching", "upserting"} /\ \A i \in Jobs : i # j => stage'[i] = stage[i]
    BY <1>0, <1>7 DEF Commit
  <2>3. FoundBest'
    BY <2>1, <2>2 DEF Chosen, FoundBest, OpenNow, Current
  <2>4. \A k \in Keys : db'[k] \in {rows[k], db[k]}
    BY <1>7 DEF Commit
  <2>5. \A h \in Hosts, p \in Ports : <<h, p>> \in Keys
    BY DEF Keys
  <2>6. BestIn(db')
    BY <2>4, <2>5 DEF Chosen, BestIn
  <2> QED
    BY <2>1, <2>3, <2>6 DEF Chosen, Observed, Responses, BestIn
<1> QED
  BY <1>1, <1>2, <1>3, <1>4, <1>5, <1>6, <1>7 DEF Job

LEMMA ChosenNext == IInv /\ Chosen /\ [Next]_vars => Chosen'
<1>1. UNCHANGED vars /\ Chosen => Chosen'
  BY DEF vars, socketVars, dataVars, Chosen, Observed, Responses, FoundBest, OpenNow, Current, BestIn
<1> QED
  BY <1>1, SocketChosen, JobChosen DEF Next

-----------------------------------------------------------------------------
(* The lists.                                                              *)

\* A list that shows the last of all entries, place by place.
Shows(list, X, all) ==
  /\ all \in Seq(X) /\ list \in [items : Seq(X), cut : BOOLEAN]
  /\ Len(list.items) = IF Len(all) <= Limit THEN Len(all) ELSE Limit
  /\ \A k \in 1 .. Len(list.items) : list.items[k] = all[Len(all) - Len(list.items) + k]
  /\ list.cut <=> Len(all) > Limit

\* The services that may be listed.
Listable == {<<h, PortSeq(Open[j][h])[n]>> : j \in Jobs, h \in Hosts, n \in Nat}

\* A job with a host in work has taken it as a host, and its lists show what has
\* been recorded.
Listed ==
  /\ lists = [j \in Jobs |-> [hosts |-> lists[j].hosts, services |-> lists[j].services,
                              enrichments |-> lists[j].enrichments]]
  /\ \A j \in Jobs :
       /\ stage[j] \in Busy => Last(order[j])[1] = "host"
       /\ Shows(lists[j].hosts, Hosts, HostsOf(Recorded(j)))
       /\ Shows(lists[j].enrichments, Hosts, AnalyzedOf(Recorded(j)))
       /\ Shows(lists[j].services, Listable, ServicesOf(j, Recorded(j)))

\* Such a list is a tail of all.
LEMMA ShownIsTail ==
  ASSUME NEW X, NEW list, NEW all, Shows(list, X, all)
  PROVE  IsTail(list, all)
<1> DEFINE L == Len(all)
           K == Len(list.items)
           kept == Min({Limit, L})
           first == L - kept + 1
<1>1. /\ all \in Seq(X) /\ list.items \in Seq(X) /\ L \in Nat /\ K \in Nat
      /\ K = IF L <= Limit THEN L ELSE Limit
      /\ \A k \in 1 .. K : list.items[k] = all[L - K + k]
      /\ list.cut <=> L > Limit
  BY DEF Shows
<1>2. Limit \in Nat \ {0}
  BY AnalysisAssumption
<1>3. kept = K
  <2> DEFINE both == {Limit, L}
  <2>1. both \in SUBSET Nat /\ both # {} /\ K \in both /\ \A m \in both : K <= m
    BY <1>1, <1>2
  <2>2. \A m \in both : m = Limit \/ m = L
    OBVIOUS
  <2> HIDE DEF both
  <2>3. Min(both) \in both /\ \A m \in both : Min(both) <= m
    BY <2>1, MinIsLeast
  <2>4. Min(both) <= K /\ K <= Min(both) /\ Min(both) \in Nat
    BY <2>1, <2>3
  <2>5. Min(both) = K
    BY <1>1, <2>4
  <2> QED
    BY <2>5 DEF both
<1> HIDE DEF L, K, kept
<1>4. first \in Int /\ L \in Int /\ first = L - K + 1 /\ L - first + 1 = K /\ K <= L
  BY <1>1, <1>2, <1>3
<1> HIDE DEF first
<1>5. \A k \in first .. L : all[k] \in X
  <2>1. \A k \in first .. L : k \in 1 .. L
    BY <1>1, <1>4
  <2> QED
    BY <1>1, <2>1 DEF L
<1>6. /\ SubSeq(all, first, L) \in Seq(X)
      /\ Len(SubSeq(all, first, L)) = IF first <= L THEN L - first + 1 ELSE 0
      /\ \A k \in 1 .. L - first + 1 : SubSeq(all, first, L)[k] = all[first + k - 1]
  BY <1>4, <1>5, SubSeqProperties
<1> DEFINE tail == SubSeq(all, first, L)
           items == list.items
<1> HIDE DEF tail
<1>7. tail \in Seq(X) /\ Len(tail) = K /\ \A k \in 1 .. K : tail[k] = all[first + k - 1]
  BY SMTT(30), <1>1, <1>4, <1>6 DEF tail
<1>8. ASSUME NEW k \in 1 .. K PROVE tail[k] = items[k]
  <2>1. first + k - 1 = L - K + k
    BY <1>1, <1>4
  <2> QED
    BY <1>1, <1>7, <2>1
<1>9. items \in Seq(X) /\ Len(items) = K
  BY <1>1 DEF K
<1> HIDE DEF items
<1>10. items = tail
  BY <1>7, <1>8, <1>9, SeqEqual
<1> QED
  BY <1>1, <1>10 DEF IsTail, tail, items, first, kept, L

\* One more entry.
LEMMA PushShows ==
  ASSUME NEW X, NEW list, NEW all, Shows(list, X, all), NEW x \in X
  PROVE  Shows(Push(list, x), X, Append(all, x))
<1> DEFINE items == list.items
           L == Len(all)
           K == Len(items)
           base == IF K = Limit THEN Tail(items) ELSE items
           B == Len(base)
           more == Append(all, x)
           next == Append(base, x)
<1>1. /\ all \in Seq(X) /\ items \in Seq(X) /\ L \in Nat /\ K \in Nat
      /\ list.cut \in BOOLEAN
      /\ K = IF L <= Limit THEN L ELSE Limit
      /\ \A k \in 1 .. K : items[k] = all[L - K + k]
      /\ list.cut <=> L > Limit
  BY DEF Shows
<1>2. Limit \in Nat \ {0}
  BY AnalysisAssumption
<1>3. Push(list, x) = [items |-> next, cut |-> list.cut \/ K = Limit]
  BY DEF Push
<1> HIDE DEF L, K, items
<1>4. /\ base \in Seq(X) /\ B \in Nat /\ B = IF K = Limit THEN K - 1 ELSE K
      /\ \A k \in 1 .. B : base[k] = all[L - B + k]
  <2>1. CASE K = Limit
    <3>1. /\ base = Tail(items) /\ items # <<>>
      BY <1>2, <2>1 DEF K
    <3> HIDE DEF base
    <3>2. /\ base \in Seq(X) /\ Len(base) = K - 1
          /\ \A k \in 1 .. Len(base) : base[k] = items[k + 1]
      BY <1>1, <3>1, HeadTailProperties DEF K
    <3>3. ASSUME NEW k \in 1 .. B PROVE base[k] = all[L - B + k]
      <4>1. k + 1 \in 1 .. K /\ L - K + (k + 1) = L - B + k
        BY <1>1, <1>2, <2>1, <3>2
      <4> QED
        BY <1>1, <3>2, <4>1
    <3> QED
      BY <1>1, <1>2, <2>1, <3>2, <3>3
  <2>2. CASE K # Limit
    <3>1. base = items
      BY <2>2
    <3> HIDE DEF base
    <3> QED
      BY <1>1, <2>2, <3>1 DEF K
  <2> QED
    BY <2>1, <2>2
<1> HIDE DEF base
<1>5. /\ next \in Seq(X) /\ Len(next) = B + 1 /\ next[B + 1] = x
      /\ \A k \in 1 .. B : next[k] = base[k]
  BY <1>4, AppendProperties
<1>6. /\ more \in Seq(X) /\ Len(more) = L + 1 /\ more[L + 1] = x
      /\ \A k \in 1 .. L : more[k] = all[k]
  BY <1>1, AppendProperties DEF L
<1> HIDE DEF B, next, more
<1>7. B <= L /\ B + 1 = IF L + 1 <= Limit THEN L + 1 ELSE Limit
  BY <1>1, <1>2, <1>4
<1>8. ASSUME NEW k \in 1 .. B + 1 PROVE next[k] = more[(L + 1) - (B + 1) + k]
  <2>1. CASE k = B + 1
    <3>1. (L + 1) - (B + 1) + k = L + 1
      BY <1>1, <1>4, <2>1
    <3> QED
      BY <1>5, <1>6, <2>1, <3>1
  <2>2. CASE k # B + 1
    <3>1. k \in 1 .. B
      BY <1>4, <2>2
    <3>2. (L + 1) - (B + 1) + k = L - B + k /\ L - B + k \in 1 .. L
      <4>1. L \in Nat /\ B \in Nat /\ B <= L
        BY <1>1, <1>4, <1>7
      <4> QED
        BY <3>1, <4>1
    <3> QED
      BY ZenonT(60), <1>4, <1>5, <1>6, <3>1, <3>2
  <2> QED
    BY <2>1, <2>2
<1>9. (list.cut \/ K = Limit) \in BOOLEAN /\ (list.cut \/ K = Limit <=> L + 1 > Limit)
  BY <1>1, <1>2
<1> DEFINE cut == list.cut \/ K = Limit
           new == Push(list, x)
<1> HIDE DEF cut
<1>10. new.items = next /\ (new.cut <=> L + 1 > Limit) /\ new \in [items : Seq(X), cut : BOOLEAN]
  <2>1. new = [items |-> next, cut |-> cut]
    BY <1>3 DEF cut
  <2>2. cut \in BOOLEAN /\ (cut <=> L + 1 > Limit)
    BY <1>9 DEF cut
  <2> HIDE DEF new
  <2> QED
    BY <1>5, <2>1, <2>2
<1> HIDE DEF new
<1>11. Shows(new, X, more)
  BY <1>5, <1>6, <1>7, <1>8, <1>10 DEF Shows
<1> QED
  BY <1>11 DEF new, more

\* The loop of PushAll is a function of the number of entries pushed.
PushesAll(f, X, list, xs) ==
  /\ f \in [0 .. Len(xs) -> [items : Seq(X), cut : BOOLEAN]]
  /\ f[0] = list /\ \A n \in 1 .. Len(xs) : f[n] = Push(f[n - 1], xs[n])

LEMMA PushAllSteps ==
  ASSUME NEW X, NEW list \in [items : Seq(X), cut : BOOLEAN], NEW xs \in Seq(X)
  PROVE  \E f : PushesAll(f, X, list, xs) /\ PushAll(list, xs) = f[Len(xs)]
<1> DEFINE N == Len(xs)
           S == [items : Seq(X), cut : BOOLEAN]
           step == [y \in (1 .. N) \X S |-> Push(y[2], xs[y[1]])]
<1>1. N \in Nat /\ list \in S /\ \A n \in 1 .. N : xs[n] \in X
  OBVIOUS
<1>2. ASSUME NEW s \in S, NEW x \in X PROVE Push(s, x) \in S
  <2> DEFINE base == IF Len(s.items) = Limit THEN Tail(s.items) ELSE s.items
             cut == s.cut \/ Len(s.items) = Limit
  <2>1. base \in Seq(X)
    <3>1. CASE Len(s.items) = Limit
      <4>1. s.items # <<>>
        BY <3>1, AnalysisAssumption
      <4> QED
        BY <3>1, <4>1, HeadTailProperties
    <3>2. CASE Len(s.items) # Limit
      BY <3>2
    <3> QED
      BY <3>1, <3>2
  <2>2. cut \in BOOLEAN
    OBVIOUS
  <2>3. Push(s, x) = [items |-> Append(base, x), cut |-> cut]
    BY DEF Push
  <2> HIDE DEF base, cut
  <2> QED
    BY <2>1, <2>2, <2>3
<1> HIDE DEF S
<1>3. /\ step \in [(1 .. N) \X S -> S]
      /\ \A n \in 1 .. N : \A s \in S : step[<<n, s>>] = Push(s, xs[n])
  BY <1>1, <1>2
<1> HIDE DEF N, step
<1>4. PICK f : Recurses(f, N, S, list, step)
  BY <1>1, <1>3, Recursion
<1>5. /\ f \in [0 .. N -> S] /\ f[0] = list
      /\ \A n \in 1 .. N : f[n] = step[<<n, f[n - 1]>>]
  BY <1>4 DEF Recurses
<1>6. ASSUME NEW n \in 1 .. N PROVE f[n] = Push(f[n - 1], xs[n])
  <2>1. n - 1 \in 0 .. N
    BY <1>1
  <2> QED
    BY <1>3, <1>5, <2>1
<1>7. PushesAll(f, X, list, xs)
  BY <1>5, <1>6 DEF PushesAll, N, S
<1> DEFINE Body(g) == [n \in 0 .. N |-> IF n = 0 THEN list ELSE Push(g[n - 1], xs[n])]
           pushed == CHOOSE g : g = Body(g)
           h == [n \in 0 .. N |-> f[n]]
<1>8. PushAll(list, xs) = pushed[N]
  BY DEF PushAll, N
<1>9. h = Body(h)
  <2>1. ASSUME NEW n \in 0 .. N
        PROVE  h[n] = IF n = 0 THEN list ELSE Push(h[n - 1], xs[n])
    <3>1. CASE n = 0
      BY <1>5, <3>1
    <3>2. CASE n # 0
      <4>1. n \in 1 .. N /\ n - 1 \in 0 .. N
        BY <1>1, <3>2
      <4>2. h[n] = f[n] /\ h[n - 1] = f[n - 1]
        BY <4>1
      <4> QED
        BY <1>6, <3>2, <4>1, <4>2
    <3> QED
      BY <3>1, <3>2
  <2>2. h = [n \in 0 .. N |-> IF n = 0 THEN list ELSE Push(h[n - 1], xs[n])]
    BY <2>1
  <2> QED
    BY <2>2
<1>10. pushed = Body(pushed)
  <2> HIDE DEF h, Body
  <2> QED
    BY <1>9
<1>11. \A n \in 0 .. N : pushed[n] = IF n = 0 THEN list ELSE Push(pushed[n - 1], xs[n])
  <2> HIDE DEF pushed
  <2> QED
    BY <1>10
<1> HIDE DEF pushed
<1> DEFINE Good == {n \in 0 .. N : pushed[n] = f[n]}
<1>12. 0 \in Good
  BY <1>1, <1>5, <1>11
<1>13. ASSUME NEW n \in 1 .. N, n - 1 \in Good PROVE n \in Good
  <2>1. n \in 0 .. N /\ n # 0
    BY <1>1
  <2>2. pushed[n] = Push(pushed[n - 1], xs[n])
    BY <1>11, <2>1
  <2> QED
    BY <1>6, <1>13, <2>1, <2>2
<1> HIDE DEF Good
<1>14. N \in Good
  <2>1. 0 .. N \subseteq Good
    BY <1>1, <1>12, <1>13, UpTo
  <2> QED
    BY <1>1, <2>1
<1> QED
  BY <1>7, <1>8, <1>14 DEF Good, N

\* Several entries, one after the other.
LEMMA PushAllShows ==
  ASSUME NEW X, NEW list, NEW all, Shows(list, X, all), NEW xs \in Seq(X)
  PROVE  Shows(PushAll(list, xs), X, all \o xs)
<1> DEFINE N == Len(xs)
           Upto(n) == all \o SubSeq(xs, 1, n)
<1>1. /\ all \in Seq(X) /\ list \in [items : Seq(X), cut : BOOLEAN]
      /\ N \in Nat /\ \A n \in 1 .. N : xs[n] \in X
  BY DEF Shows
<1>2. PICK f : PushesAll(f, X, list, xs) /\ PushAll(list, xs) = f[Len(xs)]
  BY <1>1, PushAllSteps
<1>3. f[0] = list /\ \A n \in 1 .. N : f[n] = Push(f[n - 1], xs[n])
  BY <1>2 DEF PushesAll
<1>4. Upto(0) = all
  <2>1. SubSeq(xs, 1, 0) = <<>>
    BY SubSeqEmpty
  <2> QED
    BY <1>1, <2>1
<1>5. ASSUME NEW n \in 1 .. N PROVE Upto(n) = Append(Upto(n - 1), xs[n])
  <2> DEFINE before == SubSeq(xs, 1, n - 1)
  <2>1. n \in Nat /\ n - 1 \in 0 .. N
    BY <1>1
  <2>2. before \in Seq(X) /\ xs[n] \in X
    <3>1. 1 \in Int /\ n - 1 \in Int /\ \A k \in 1 .. n - 1 : xs[k] \in X
      BY <1>1, <2>1
    <3> QED
      BY <1>1, <3>1, SubSeqProperties
  <2>3. SubSeq(xs, 1, n) = Append(before, xs[n])
    BY <1>1, <2>1, SubSeqRecursiveSecond
  <2> HIDE DEF before
  <2>4. all \o Append(before, xs[n]) = Append(all \o before, xs[n])
    BY <1>1, <2>2
  <2> QED
    BY <2>3, <2>4 DEF before
<1>6. Upto(N) = all \o xs
  <2>1. SubSeq(xs, 1, N) = xs
    BY SubSeqFull
  <2> QED
    BY <2>1
<1> HIDE DEF N, Upto
<1> DEFINE Good == {n \in 0 .. N : Shows(f[n], X, Upto(n))}
<1>7. 0 \in Good
  BY <1>1, <1>3, <1>4
<1>8. ASSUME NEW n \in 1 .. N, n - 1 \in Good PROVE n \in Good
  <2>1. Shows(f[n - 1], X, Upto(n - 1)) /\ xs[n] \in X
    BY <1>1, <1>8
  <2>2. Shows(Push(f[n - 1], xs[n]), X, Append(Upto(n - 1), xs[n]))
    BY <2>1, PushShows
  <2>3. n \in 0 .. N
    BY <1>1
  <2> QED
    BY <1>3, <1>5, <2>2, <2>3
<1> HIDE DEF Good
<1>9. N \in Good
  <2>1. 0 .. N \subseteq Good
    BY <1>1, <1>7, <1>8, UpTo
  <2> QED
    BY <1>1, <2>1
<1> QED
  BY <1>2, <1>6, <1>9 DEF Good, N

Events == {"error", "host"} \X Hosts

\* One more piece is put behind the others.
LEMMA FlattenBehind ==
  ASSUME NEW T, NEW pieces \in Seq(Seq(T)), NEW piece \in Seq(T)
  PROVE  /\ FlattenSeq(pieces) \in Seq(T)
         /\ FlattenSeq(Append(pieces, piece)) = FlattenSeq(pieces) \o piece
<1> DEFINE single == <<piece>>
           S == Seq(T)
<1>1. single \in Seq(S) /\ Append(pieces, piece) = pieces \o single
  OBVIOUS
<1> HIDE DEF single
<1>2. FlattenSeq(pieces \o single) = FlattenSeq(pieces) \o FlattenSeq(single)
      /\ FlattenSeq(pieces) \in Seq(T)
  BY <1>1, FlattenConcat
<1>3. FlattenSeq(single) = piece
  BY FlattenSmall DEF single
<1> QED
  BY <1>1, <1>2, <1>3

\* A sequence given place by place grows by what stands in the next place.
LEMMA Grows ==
  ASSUME NEW S, NEW N \in Nat, NEW long \in [1 .. N + 1 -> S]
  PROVE  LET short == [n \in 1 .. N |-> long[n]]
         IN  short \in Seq(S) /\ long[N + 1] \in S /\ long = Append(short, long[N + 1])
<1> DEFINE short == [n \in 1 .. N |-> long[n]]
           x == long[N + 1]
           next == Append(short, x)
<1>1. short \in [1 .. N -> S] /\ x \in S /\ long \in Seq(S) /\ Len(long) = N + 1
  OBVIOUS
<1>2. short \in Seq(S) /\ Len(short) = N /\ \A n \in 1 .. N : short[n] = long[n]
  BY <1>1
<1> HIDE DEF short, x
<1>3. next \in Seq(S) /\ Len(next) = N + 1 /\ next[N + 1] = x
      /\ \A n \in 1 .. N : next[n] = short[n]
  BY <1>1, <1>2, AppendProperties
<1> HIDE DEF next
<1>4. ASSUME NEW n \in 1 .. N + 1 PROVE next[n] = long[n]
  <2>1. CASE n = N + 1
    BY <1>3, <2>1 DEF x
  <2>2. CASE n # N + 1
    BY <1>2, <1>3, <2>2
  <2> QED
    BY <2>1, <2>2
<1>5. next = long
  BY <1>1, <1>3, <1>4, SeqEqual
<1> QED
  BY <1>1, <1>2, <1>5 DEF short, x, next

\* What an event adds to the history of the hosts.
LEMMA HostsGrow ==
  ASSUME NEW events \in Seq(Events), NEW kind \in {"error", "host"}, NEW h \in Hosts
  PROVE  HostsOf(Append(events, <<kind, h>>)) = Append(HostsOf(events), h)
<1> DEFINE N == Len(events)
           more == Append(events, <<kind, h>>)
           long == [n \in 1 .. N + 1 |-> more[n][2]]
<1>1. /\ N \in Nat /\ Len(more) = N + 1 /\ more[N + 1] = <<kind, h>>
      /\ \A n \in 1 .. N : more[n] = events[n] /\ events[n] \in Events
  BY DEF Events
<1> HIDE DEF N, more
<1>2. long \in [1 .. N + 1 -> Hosts] /\ long[N + 1] = h
      /\ \A n \in 1 .. N : long[n] = events[n][2]
  <2>1. \A n \in 1 .. N + 1 : more[n][2] \in Hosts
    BY <1>1 DEF Events
  <2> QED
    BY <1>1, <2>1
<1>3. HostsOf(more) = long /\ HostsOf(events) = [n \in 1 .. N |-> long[n]]
  BY <1>1, <1>2 DEF HostsOf, N
<1> HIDE DEF long
<1>4. long = Append([n \in 1 .. N |-> long[n]], long[N + 1])
  BY <1>1, <1>2, Grows
<1> QED
  BY <1>2, <1>3, <1>4 DEF more

\* What it adds to that of the analyzed hosts.
LEMMA AnalyzedGrows ==
  ASSUME NEW events \in Seq(Events), NEW kind \in {"error", "host"}, NEW h \in Hosts
  PROVE  /\ AnalyzedOf(events) \in Seq(Hosts)
         /\ AnalyzedOf(Append(events, <<kind, h>>))
              = IF kind = "host" THEN Append(AnalyzedOf(events), h) ELSE AnalyzedOf(events)
<1> DEFINE N == Len(events)
           more == Append(events, <<kind, h>>)
           Piece(e) == IF e[1] = "host" THEN <<e[2]>> ELSE <<>>
           S == Seq(Hosts)
           long == [n \in 1 .. N + 1 |-> Piece(more[n])]
           pieces == [n \in 1 .. N |-> Piece(events[n])]
           piece == Piece(<<kind, h>>)
<1>1. /\ N \in Nat /\ Len(more) = N + 1 /\ more[N + 1] = <<kind, h>>
      /\ \A n \in 1 .. N : more[n] = events[n] /\ events[n] \in Events
  BY DEF Events
<1>2. \A e \in Events : Piece(e) \in S
  BY DEF Events
<1>3. AnalyzedOf(events) = FlattenSeq(pieces)
  BY DEF AnalyzedOf
<1>4. AnalyzedOf(more) = FlattenSeq(long)
  BY <1>1 DEF AnalyzedOf
<1>5. <<kind, h>> \in Events
  BY DEF Events
<1> HIDE DEF N, more, Piece, S
<1>6. long \in [1 .. N + 1 -> S] /\ long[N + 1] = piece /\ piece \in S
      /\ [n \in 1 .. N |-> long[n]] = pieces
  <2>1. \A n \in 1 .. N + 1 : more[n] \in Events
    BY <1>1, <1>5
  <2> QED
    BY <1>1, <1>2, <1>5, <2>1
<1> HIDE DEF long, pieces, piece
<1>7. pieces \in Seq(S) /\ long = Append(pieces, piece)
  BY <1>1, <1>6, Grows
<1>8. /\ FlattenSeq(pieces) \in Seq(Hosts)
      /\ FlattenSeq(Append(pieces, piece)) = FlattenSeq(pieces) \o piece
  BY <1>6, <1>7, FlattenBehind DEF S
<1>9. AnalyzedOf(events) \in Seq(Hosts) /\ AnalyzedOf(more) = AnalyzedOf(events) \o piece
  BY <1>3, <1>4, <1>7, <1>8
<1>10. piece = IF kind = "host" THEN <<h>> ELSE <<>>
  BY DEF piece, Piece
<1> DEFINE all == AnalyzedOf(events)
<1> HIDE DEF all
<1>11. all \o piece = IF kind = "host" THEN Append(all, h) ELSE all
  <2>1. all \in Seq(Hosts)
    BY <1>9 DEF all
  <2>2. all \o <<h>> = Append(all, h) /\ all \o <<>> = all
    BY <2>1
  <2> QED
    BY <1>10, <2>2
<1> QED
  BY <1>9, <1>11 DEF all, more

LEMMA ServicesAreListable ==
  ASSUME NEW j \in Jobs, NEW h \in Hosts
  PROVE  ServicesOn(j, h) \in Seq(Listable)
<1> DEFINE N == Cardinality(Open[j][h])
<1>1. N \in Nat
  <2>1. Open[j][h] \in SUBSET Ports /\ IsFiniteSet(Ports)
    BY AnalysisAssumption
  <2> QED
    BY <2>1, FS_Subset, FS_CardinalityType
<1>2. \A n \in 1 .. N : <<h, PortSeq(Open[j][h])[n]>> \in Listable
  BY <1>1 DEF Listable
<1>3. ServicesOn(j, h) = [n \in 1 .. N |-> <<h, PortSeq(Open[j][h])[n]>>]
  BY DEF ServicesOn
<1> HIDE DEF N
<1>4. ServicesOn(j, h) \in [1 .. N -> Listable]
  BY <1>2, <1>3
<1> QED
  BY <1>1, <1>4

\* What it adds to that of the services.
LEMMA ServicesGrow ==
  ASSUME NEW events \in Seq(Events), NEW kind \in {"error", "host"}, NEW h \in Hosts,
         NEW j \in Jobs
  PROVE  /\ ServicesOf(j, events) \in Seq(Listable)
         /\ ServicesOf(j, Append(events, <<kind, h>>))
              = IF kind = "host" THEN ServicesOf(j, events) \o ServicesOn(j, h)
                ELSE ServicesOf(j, events)
<1> DEFINE all == AnalyzedOf(events)
           N == Len(all)
           S == Seq(Listable)
           more == Append(all, h)
           pieces == [n \in 1 .. N |-> ServicesOn(j, all[n])]
           long == [n \in 1 .. N + 1 |-> ServicesOn(j, more[n])]
           piece == ServicesOn(j, h)
           next == Append(events, <<kind, h>>)
<1>1. all \in Seq(Hosts) /\ AnalyzedOf(next) = IF kind = "host" THEN more ELSE all
  BY AnalyzedGrows
<1>2. ServicesOf(j, events) = FlattenSeq(pieces)
  BY DEF ServicesOf
<1> HIDE DEF all, next
<1>3. /\ N \in Nat /\ Len(more) = N + 1 /\ more[N + 1] = h
      /\ \A n \in 1 .. N : more[n] = all[n] /\ all[n] \in Hosts
  BY <1>1
<1>4. kind # "host" => ServicesOf(j, next) = ServicesOf(j, events)
  <2> SUFFICES ASSUME kind # "host" PROVE ServicesOf(j, next) = ServicesOf(j, events)
    OBVIOUS
  <2>1. AnalyzedOf(next) = AnalyzedOf(events)
    BY <1>1 DEF all
  <2> QED
    BY <2>1, Zenon DEF ServicesOf
<1> HIDE DEF N, more
<1>5. \A g \in Hosts : ServicesOn(j, g) \in S
  BY ServicesAreListable
<1> HIDE DEF S
<1>6. long \in [1 .. N + 1 -> S] /\ long[N + 1] = piece /\ piece \in S
      /\ [n \in 1 .. N |-> long[n]] = pieces
  <2>1. \A n \in 1 .. N + 1 : more[n] \in Hosts
    BY <1>3
  <2> QED
    BY <1>3, <1>5, <2>1
<1>7. kind = "host" => ServicesOf(j, next) = FlattenSeq(long)
  <2> SUFFICES ASSUME kind = "host" PROVE ServicesOf(j, next) = FlattenSeq(long)
    OBVIOUS
  <2>1. AnalyzedOf(next) = more /\ Len(more) = N + 1
    BY <1>1, <1>3
  <2>2. ServicesOf(j, next) = FlattenSeq([n \in 1 .. Len(more) |-> ServicesOn(j, more[n])])
    BY <2>1 DEF ServicesOf
  <2> QED
    BY <2>1, <2>2
<1> HIDE DEF long, pieces, piece
<1>8. pieces \in Seq(S) /\ long = Append(pieces, piece)
  BY <1>3, <1>6, Grows
<1>9. /\ FlattenSeq(pieces) \in Seq(Listable)
      /\ FlattenSeq(Append(pieces, piece)) = FlattenSeq(pieces) \o piece
  BY <1>6, <1>8, FlattenBehind DEF S
<1>10. kind = "host" => ServicesOf(j, next) = ServicesOf(j, events) \o piece
  BY <1>2, <1>7, <1>8, <1>9
<1>11. ServicesOf(j, events) \in Seq(Listable)
  BY <1>2, <1>9
<1> QED
  BY <1>4, <1>10, <1>11 DEF next, piece

LEMMA FrontAndLast ==
  ASSUME NEW S, NEW s \in Seq(S)
  PROVE  /\ s # <<>> => /\ Front(s) \in Seq(S) /\ Last(s) \in S
                        /\ s = Append(Front(s), Last(s))
         /\ \A x \in S : Front(Append(s, x)) = s /\ Last(Append(s, x)) = x
<1> DEFINE N == Len(s)
<1>1. N \in Nat
  OBVIOUS
<1>2. ASSUME s # <<>>
      PROVE  /\ Front(s) \in Seq(S) /\ Last(s) \in S
             /\ s = Append(Front(s), Last(s))
  <2> DEFINE front == SubSeq(s, 1, N - 1)
  <2>1. Front(s) = front /\ Last(s) = s[N] /\ N \in 1 .. N
    BY <1>2 DEF Front, Last
  <2>2. front \in Seq(S) /\ s[N] \in S
    <3>1. \A k \in 1 .. N - 1 : s[k] \in S
      OBVIOUS
    <3> QED
      BY <1>1, <2>1, <3>1, SubSeqProperties
  <2>3. SubSeq(s, 1, N) = front \o <<s[N]>>
    <3>1. 1 \in 1 .. N
      BY <2>1
    <3> QED
      BY <2>1, <3>1, SubSeqRecursiveSecond
  <2>4. SubSeq(s, 1, N) = s
    BY SubSeqFull
  <2> HIDE DEF front, N
  <2>5. Append(front, s[N]) = front \o <<s[N]>>
    BY <2>2, AppendIsConcat
  <2> QED
    BY <2>1, <2>2, <2>3, <2>4, <2>5
<1>3. ASSUME NEW x \in S PROVE Front(Append(s, x)) = s /\ Last(Append(s, x)) = x
  <2> DEFINE t == Append(s, x)
             front == SubSeq(t, 1, N)
  <2>1. /\ t \in Seq(S) /\ Len(t) = N + 1 /\ t[N + 1] = x
        /\ \A n \in 1 .. N : t[n] = s[n]
    BY AppendProperties
  <2> HIDE DEF t
  <2>2. Last(t) = x /\ Front(t) = SubSeq(t, 1, (N + 1) - 1) /\ (N + 1) - 1 = N
    BY <1>1, <2>1 DEF Front, Last
  <2>3. /\ front \in Seq(S) /\ Len(front) = IF 1 <= N THEN N - 1 + 1 ELSE 0
        /\ \A n \in 1 .. N - 1 + 1 : front[n] = t[1 + n - 1]
    <3>1. 1 \in Int /\ N \in Int /\ \A n \in 1 .. N : t[n] \in S
      BY <1>1, <2>1
    <3> HIDE DEF N
    <3> QED
      BY <3>1, SubSeqProperties
  <2> HIDE DEF front
  <2>4. Len(front) = N /\ \A n \in 1 .. N : front[n] = s[n]
    <3>1. \A n \in 1 .. N : 1 + n - 1 = n /\ n \in 1 .. N - 1 + 1
      BY <1>1
    <3> QED
      BY <1>1, <2>1, <2>3, <3>1
  <2>5. front = s
    BY <2>3, <2>4, SeqEqual
  <2> QED
    BY <2>2, <2>5 DEF t, front
<1> QED
  BY <1>2, <1>3

LEMMA ListedInit == Init => Listed
<1> SUFFICES ASSUME Init
             PROVE  Listed
  OBVIOUS
<1>1. \A j \in Jobs : /\ stage[j] = "waiting" /\ order[j] = <<>>
                      /\ lists[j] = [hosts |-> NoList, services |-> NoList, enrichments |-> NoList]
  BY DEF Init
<1>2. \A X : Shows(NoList, X, <<>>)
  BY AnalysisAssumption DEF Shows, NoList
<1>3. HostsOf(<<>>) = <<>> /\ AnalyzedOf(<<>>) = <<>> /\ \A j : ServicesOf(j, <<>>) = <<>>
  <2>1. HostsOf(<<>>) = <<>>
    BY DEF HostsOf
  <2>2. AnalyzedOf(<<>>) = FlattenSeq(<<>>)
    BY DEF AnalyzedOf
  <2>3. AnalyzedOf(<<>>) = <<>>
    BY <2>2, FlattenSmall
  <2>4. ASSUME NEW j PROVE ServicesOf(j, <<>>) = FlattenSeq(<<>>)
    BY <2>3 DEF ServicesOf
  <2> QED
    BY <2>1, <2>3, <2>4, FlattenSmall
<1>4. \A j \in Jobs : Recorded(j) = <<>>
  BY <1>1 DEF Recorded
<1>5. lists = [j \in Jobs |-> [hosts |-> lists[j].hosts, services |-> lists[j].services,
                              enrichments |-> lists[j].enrichments]]
  BY DEF Init
<1> HIDE DEF Init
<1>6. ASSUME NEW j \in Jobs
      PROVE  /\ stage[j] \notin Busy
             /\ Shows(lists[j].hosts, Hosts, HostsOf(Recorded(j)))
             /\ Shows(lists[j].enrichments, Hosts, AnalyzedOf(Recorded(j)))
             /\ Shows(lists[j].services, Listable, ServicesOf(j, Recorded(j)))
  <2>1. /\ lists[j].hosts = NoList /\ lists[j].services = NoList
        /\ lists[j].enrichments = NoList
    BY <1>1
  <2>2. stage[j] \notin Busy
    BY <1>1 DEF Busy
  <2> QED
    BY <1>2, <1>3, <1>4, <2>1, <2>2
<1> QED
  BY <1>5, <1>6, Zenon DEF Listed

\* Steps that record nothing.
LEMMA ListsStay ==
  ASSUME Listed, lists' = lists,
         \A j \in Jobs : /\ Recorded(j)' = Recorded(j)
                         /\ stage'[j] \in Busy => Last(order'[j])[1] = "host"
  PROVE  Listed'
BY ZenonT(60) DEF Listed

\* A stage of the same kind.
LEMMA StagesStay ==
  ASSUME Listed, lists' = lists, order' = order,
         \A j \in Jobs :
           /\ stage'[j] \in {"waiting", "committing", "done"}
                <=> stage[j] \in {"waiting", "committing", "done"}
           /\ stage'[j] \in Busy => stage[j] \in Busy
  PROVE  Listed'
<1>1. \A j \in Jobs : Recorded(j)' = Recorded(j)
  BY DEF Recorded
<1>2. \A j \in Jobs : stage'[j] \in Busy => Last(order'[j])[1] = "host"
  BY DEF Listed
<1> QED
  BY <1>1, <1>2, ListsStay

\* A host is taken to be analyzed.
LEMMA TakeHostLists ==
  ASSUME IInv, Listed, NEW j \in Jobs, NEW h \in Hosts, TakeHost(j, h)
  PROVE  Listed'
<1>1. /\ stage \in [Jobs -> Stages] /\ order \in [Jobs -> Seq(Events)]
  BY DEF IInv, Shapes, Events
<1>2. /\ stage' = [stage EXCEPT ![j] = "fingerprinting"] /\ stage[j] = "waiting"
      /\ order' = [order EXCEPT ![j] = Append(@, <<"host", h>>)] /\ lists' = lists
  BY DEF TakeHost, Take
<1>3. <<"host", h>> \in Events
  BY DEF Events
<1>4. Recorded(j)' = Recorded(j) /\ Last(order'[j])[1] = "host"
  <2> DEFINE e == <<"host", h>>
             s == order[j]
  <2>1. order'[j] = Append(s, e) /\ stage'[j] = "fingerprinting" /\ s \in Seq(Events)
    BY <1>1, <1>2
  <2> HIDE DEF e, s
  <2>2. Front(Append(s, e)) = s /\ Last(Append(s, e)) = e
    BY <1>3, <2>1, FrontAndLast DEF e
  <2>3. Recorded(j) = s
    BY <1>2 DEF Recorded, s
  <2>4. Recorded(j)' = Front(order'[j])
    BY <2>1 DEF Recorded
  <2>5. Last(order'[j])[1] = "host"
    BY <2>1, <2>2 DEF e
  <2> QED
    BY <2>1, <2>2, <2>3, <2>4, <2>5
<1>5. ASSUME NEW k \in Jobs \ {j} PROVE stage'[k] = stage[k] /\ order'[k] = order[k]
  BY <1>1, <1>2
<1>6. \A k \in Jobs \ {j} : Recorded(k)' = Recorded(k)
  BY <1>5 DEF Recorded
<1> QED
  BY <1>2, <1>4, <1>5, <1>6, ListsStay DEF Listed

\* What a job records is put behind its lists, those of the others stay.
LEMMA ListsGrow ==
  ASSUME Listed, NEW j \in Jobs, NEW kind \in {"error", "host"}, NEW h \in Hosts,
         NEW events \in Seq(Events), Recorded(j) = events,
         Recorded(j)' = Append(events, <<kind, h>>), stage'[j] \notin Busy,
         \A k \in Jobs \ {j} : stage'[k] = stage[k] /\ order'[k] = order[k],
         lists' = [lists EXCEPT ![j] =
           [hosts |-> Push(@.hosts, h),
            services |-> IF kind = "host" THEN PushAll(@.services, ServicesOn(j, h)) ELSE @.services,
            enrichments |-> IF kind = "host" THEN Push(@.enrichments, h) ELSE @.enrichments]]
  PROVE  Listed'
<1> DEFINE old == lists[j]
           new == [hosts |-> Push(old.hosts, h),
                   services |-> IF kind = "host" THEN PushAll(old.services, ServicesOn(j, h))
                                ELSE old.services,
                   enrichments |-> IF kind = "host" THEN Push(old.enrichments, h)
                                   ELSE old.enrichments]
           more == Append(events, <<kind, h>>)
<1>1. lists = [k \in Jobs |-> [hosts |-> lists[k].hosts, services |-> lists[k].services,
                              enrichments |-> lists[k].enrichments]]
  BY DEF Listed
<1>2. /\ Shows(old.hosts, Hosts, HostsOf(events))
      /\ Shows(old.enrichments, Hosts, AnalyzedOf(events))
      /\ Shows(old.services, Listable, ServicesOf(j, events))
  BY DEF Listed
<1>3. /\ Shows(new.hosts, Hosts, HostsOf(more))
      /\ Shows(new.enrichments, Hosts, AnalyzedOf(more))
      /\ Shows(new.services, Listable, ServicesOf(j, more))
  <2>1. Shows(new.hosts, Hosts, HostsOf(more))
    <3>1. new.hosts = Push(old.hosts, h)
      OBVIOUS
    <3>2. HostsOf(more) = Append(HostsOf(events), h)
      BY HostsGrow
    <3> QED
      BY <1>2, <3>1, <3>2, PushShows
  <2>2. Shows(new.enrichments, Hosts, AnalyzedOf(more))
    <3>1. AnalyzedOf(more)
            = IF kind = "host" THEN Append(AnalyzedOf(events), h) ELSE AnalyzedOf(events)
      BY AnalyzedGrows
    <3>2. CASE kind = "host"
      <4>1. new.enrichments = Push(old.enrichments, h)
        BY <3>2
      <4> QED
        BY <1>2, <3>1, <3>2, <4>1, PushShows
    <3>3. CASE kind # "host"
      <4>1. new.enrichments = old.enrichments
        BY <3>3
      <4> QED
        BY <1>2, <3>1, <3>3, <4>1
    <3> QED
      BY <3>2, <3>3
  <2>3. Shows(new.services, Listable, ServicesOf(j, more))
    <3>1. ServicesOf(j, more)
            = IF kind = "host" THEN ServicesOf(j, events) \o ServicesOn(j, h)
              ELSE ServicesOf(j, events)
      BY ZenonT(60), ServicesGrow
    <3>2. CASE kind = "host"
      <4>1. new.services = PushAll(old.services, ServicesOn(j, h))
        BY <3>2
      <4>2. ServicesOn(j, h) \in Seq(Listable)
        BY ServicesAreListable
      <4> QED
        BY <1>2, <3>1, <3>2, <4>1, <4>2, PushAllShows
    <3>3. CASE kind # "host"
      <4>1. new.services = old.services
        BY <3>3
      <4> QED
        BY <1>2, <3>1, <3>3, <4>1
    <3> QED
      BY <3>2, <3>3
  <2> QED
    BY <2>1, <2>2, <2>3
<1>4. lists' = [lists EXCEPT ![j] = new]
  OBVIOUS
<1>5. new = [hosts |-> new.hosts, services |-> new.services, enrichments |-> new.enrichments]
  OBVIOUS
<1> HIDE DEF new, old, more
<1>6. lists'[j] = new /\ \A k \in Jobs \ {j} : lists'[k] = lists[k]
  BY <1>1, <1>4
<1>7. lists' = [k \in Jobs |-> [hosts |-> lists'[k].hosts, services |-> lists'[k].services,
                               enrichments |-> lists'[k].enrichments]]
  <2> DEFINE Row(k) == [hosts |-> lists'[k].hosts, services |-> lists'[k].services,
                        enrichments |-> lists'[k].enrichments]
  <2>1. ASSUME NEW k \in Jobs PROVE lists'[k] = Row(k)
    <3>1. CASE k = j
      BY <1>5, <1>6, <3>1
    <3>2. CASE k # j
      <4>1. lists[k] = [hosts |-> lists[k].hosts, services |-> lists[k].services,
                        enrichments |-> lists[k].enrichments]
        BY <1>1
      <4> QED
        BY <1>6, <3>2, <4>1
    <3> QED
      BY <3>1, <3>2
  <2>2. lists' = [k \in Jobs |-> lists'[k]]
    BY <1>1, <1>4
  <2> HIDE DEF Row
  <2>3. lists' = [k \in Jobs |-> Row(k)]
    BY <2>1, <2>2
  <2> QED
    BY <2>3 DEF Row
<1>8. \A k \in Jobs \ {j} : Recorded(k)' = Recorded(k)
  BY DEF Recorded
<1>9. ASSUME NEW k \in Jobs
      PROVE  /\ stage'[k] \in Busy => Last(order'[k])[1] = "host"
             /\ Shows(lists'[k].hosts, Hosts, HostsOf(Recorded(k)'))
             /\ Shows(lists'[k].enrichments, Hosts, AnalyzedOf(Recorded(k)'))
             /\ Shows(lists'[k].services, Listable, ServicesOf(k, Recorded(k)'))
  <2>1. CASE k = j
    BY <1>3, <1>6, <2>1 DEF more
  <2>2. CASE k # j
    BY <1>6, <1>8, <2>2 DEF Listed
  <2> QED
    BY <2>1, <2>2
<1> QED
  BY <1>7, <1>9, ZenonT(60) DEF Listed

LEMMA TakeErrorLists ==
  ASSUME IInv, Listed, NEW j \in Jobs, NEW h \in Hosts, TakeError(j, h)
  PROVE  Listed'
<1>1. /\ stage \in [Jobs -> Stages] /\ order \in [Jobs -> Seq(Events)]
  BY DEF IInv, Shapes, Events
<1> DEFINE next == stage'[j]
<1>2. /\ stage[j] = "waiting" /\ next \in {"waiting", "committing"}
      /\ \A k \in Jobs \ {j} : stage'[k] = stage[k] /\ order'[k] = order[k]
      /\ order'[j] = Append(order[j], <<"error", h>>)
  BY <1>1 DEF TakeError, Take
<1>3. Recorded(j) = order[j] /\ Recorded(j)' = Append(order[j], <<"error", h>>)
  BY <1>2 DEF Recorded
<1>4. lists' = [lists EXCEPT ![j].hosts = Push(@, h)]
  BY DEF TakeError
<1>5. lists[j] = [hosts |-> lists[j].hosts, services |-> lists[j].services,
                  enrichments |-> lists[j].enrichments]
  BY DEF Listed
<1>6. [lists[j] EXCEPT !.hosts = Push(@, h)]
        = [hosts |-> Push(lists[j].hosts, h), services |-> lists[j].services,
           enrichments |-> lists[j].enrichments]
  BY <1>5
<1>7. lists' = [lists EXCEPT ![j] =
        [hosts |-> Push(@.hosts, h),
         services |-> IF "error" = "host" THEN PushAll(@.services, ServicesOn(j, h)) ELSE @.services,
         enrichments |-> IF "error" = "host" THEN Push(@.enrichments, h) ELSE @.enrichments]]
  BY <1>4, <1>6
<1>8. order[j] \in Seq(Events) /\ stage'[j] \notin Busy
  BY <1>1, <1>2 DEF Busy
<1> QED
  BY <1>2, <1>3, <1>7, <1>8, ListsGrow

LEMMA RecordLists ==
  ASSUME IInv, Listed, NEW j \in Jobs, Record(j)
  PROVE  Listed'
<1>1. /\ stage \in [Jobs -> Stages] /\ order \in [Jobs -> Seq(Events)]
      /\ order[j] # <<>>
  BY DEF IInv, Shapes, Events, Working, Busy, Record
<1> DEFINE h == Current(j)
           front == Front(order[j])
<1>2. /\ stage[j] = "upserting" /\ stage'[j] \in {"waiting", "committing"} /\ order' = order
      /\ \A k \in Jobs \ {j} : stage'[k] = stage[k]
  BY <1>1 DEF Record
<1>3. /\ front \in Seq(Events) /\ Last(order[j]) \in Events
      /\ order[j] = Append(front, Last(order[j]))
  BY <1>1, FrontAndLast
<1>4. Last(order[j]) = <<"host", h>> /\ h \in Hosts
  <2>1. Last(order[j])[1] = "host"
    BY <1>2 DEF Listed, Busy
  <2> QED
    BY <1>3, <2>1 DEF Events, Current
<1>5. Recorded(j) = front /\ Recorded(j)' = Append(front, <<"host", h>>)
  BY <1>2, <1>3, <1>4 DEF Recorded
<1>6. lists' = [lists EXCEPT ![j] =
        [hosts |-> Push(@.hosts, h), services |-> PushAll(@.services, ServicesOn(j, h)),
         enrichments |-> Push(@.enrichments, h)]]
  BY DEF Record
<1> HIDE DEF h, front
<1>7. lists' = [lists EXCEPT ![j] =
        [hosts |-> Push(@.hosts, h),
         services |-> IF "host" = "host" THEN PushAll(@.services, ServicesOn(j, h)) ELSE @.services,
         enrichments |-> IF "host" = "host" THEN Push(@.enrichments, h) ELSE @.enrichments]]
  BY <1>6
<1>8. stage'[j] \notin Busy
  BY <1>2 DEF Busy
<1> QED
  BY <1>2, <1>3, <1>4, <1>5, <1>7, <1>8, ListsGrow

\* A failure comes while a job has a host in work.
LEMMA FailLists ==
  ASSUME IInv, Listed, NEW j \in Jobs, NEW how \in {"failed", "aborted"}, stage[j] \in Busy,
         Fail(j, how), UNCHANGED <<order, lists>>
  PROVE  Listed'
<1>1. stage \in [Jobs -> Stages]
  BY DEF IInv, Shapes
<1>2. stage'[j] = how /\ \A k \in Jobs \ {j} : stage'[k] = stage[k]
  BY <1>1 DEF Fail
<1>3. \A k \in Jobs :
        /\ stage'[k] \in {"waiting", "committing", "done"}
             <=> stage[k] \in {"waiting", "committing", "done"}
        /\ stage'[k] \in Busy => stage[k] \in Busy
  BY <1>2 DEF Busy
<1> QED
  BY <1>3, StagesStay

LEMMA SocketLists ==
  ASSUME IInv, Listed, NEW j \in Jobs, NEW p \in Ports, Socket(j, p)
  PROVE  Listed'
<1>1. CASE UNCHANGED <<stage, order, lists>>
  BY <1>1, StagesStay
<1>2. CASE ~ UNCHANGED <<stage, order, lists>>
  <2>1. ShakeCloses(j, p)
    BY <1>2 DEF Socket, ProbeConnects, ProbeReads, ProbeEnds, ProbeGivesUp, ProbeCloses,
       ProbeStep, ShakeFails, ShakeDone, ShakeStep
  <2>2. /\ UNCHANGED <<order, lists>>
        /\ IF cert[j][p] = "odd" /\ stage[j] = "enriching" THEN Fail(j, "failed")
           ELSE UNCHANGED <<stage, dataVars>>
    BY <2>1 DEF ShakeCloses, ShakeStep
  <2>3. stage[j] = "enriching" /\ Fail(j, "failed")
    BY <1>2, <2>2
  <2> QED
    BY <2>2, <2>3, FailLists DEF Busy
<1> QED
  BY <1>1, <1>2

LEMMA JobLists ==
  ASSUME IInv, Listed, NEW j \in Jobs, Job(j)
  PROVE  Listed'
<1>1. stage \in [Jobs -> Stages]
  BY DEF IInv, Shapes
<1>2. ASSUME NEW h \in Hosts, TakeError(j, h) \/ TakeHost(j, h)
      PROVE  Listed'
  BY <1>2, TakeErrorLists, TakeHostLists
<1>3. ASSUME NEW country \in Country[j], Enrich(j, country)
      PROVE  Listed'
  <2>1. UNCHANGED <<order, lists>> /\ stage[j] = "fingerprinting"
        /\ stage' = [stage EXCEPT ![j] = "enriching"]
    BY <1>3 DEF Enrich
  <2>2. \A k \in Jobs :
          /\ stage'[k] \in {"waiting", "committing", "done"}
               <=> stage[k] \in {"waiting", "committing", "done"}
          /\ stage'[k] \in Busy => stage[k] \in Busy
    BY <1>1, <2>1 DEF Busy
  <2> QED
    BY <2>1, <2>2, StagesStay
<1>4. CASE Persist(j)
  <2>1. UNCHANGED <<order, lists>> /\ stage[j] = "enriching"
        /\ stage' = [stage EXCEPT ![j] = "upserting"]
    BY <1>4 DEF Persist
  <2>2. \A k \in Jobs :
          /\ stage'[k] \in {"waiting", "committing", "done"}
               <=> stage[k] \in {"waiting", "committing", "done"}
          /\ stage'[k] \in Busy => stage[k] \in Busy
    BY <1>1, <2>1 DEF Busy
  <2> QED
    BY <2>1, <2>2, StagesStay
<1>5. CASE Upsert(j)
  <2>1. UNCHANGED <<stage, order, lists>>
    BY <1>5 DEF Upsert
  <2> QED
    BY <2>1, StagesStay
<1>6. CASE UpsertFails(j)
  BY <1>6, FailLists DEF UpsertFails, Upserting, Busy
<1>7. CASE DeadlockDetected(j)
  <2>1. Upserting(j)
    BY <1>7 DEF DeadlockDetected, InCycle, WaitsFor
  <2> QED
    BY <1>7, <2>1, FailLists DEF DeadlockDetected, Upserting, Busy
<1>8. CASE Record(j)
  BY <1>8, RecordLists
<1>9. CASE Commit(j)
  <2>1. UNCHANGED <<order, lists>> /\ stage[j] \in {"waiting", "committing"}
        /\ stage' = [stage EXCEPT ![j] = IF Len(order[j]) = Cardinality(Hosts) THEN "done" ELSE "waiting"]
    BY <1>9 DEF Commit
  <2>2. stage'[j] \in {"waiting", "done"} /\ \A k \in Jobs \ {j} : stage'[k] = stage[k]
    BY <1>1, <2>1
  <2>3. \A k \in Jobs :
          /\ stage'[k] \in {"waiting", "committing", "done"}
               <=> stage[k] \in {"waiting", "committing", "done"}
          /\ stage'[k] \in Busy => stage[k] \in Busy
    BY <2>1, <2>2 DEF Busy
  <2> QED
    BY <2>1, <2>3, StagesStay
<1> QED
  BY <1>2, <1>3, <1>4, <1>5, <1>6, <1>7, <1>8, <1>9 DEF Job

LEMMA ListedNext == IInv /\ Listed /\ [Next]_vars => Listed'
<1>1. ASSUME UNCHANGED vars, Listed PROVE Listed'
  <2>1. UNCHANGED <<stage, order, lists>>
    BY <1>1 DEF vars
  <2> QED
    BY <1>1, <2>1, StagesStay
<1> QED
  BY <1>1, SocketLists, JobLists DEF Next

-----------------------------------------------------------------------------
(* The theorems.                                                           *)

\* What clients read of a host comes from one scan, whatever jobs write the same
\* rows in whatever order and whichever of them fails half-way (runner.py:300-359).
THEOREM ServicesAreOfLastScan == Spec => []ServicesOfLastScan
<1>1. IInv => ServicesOfLastScan
  BY DEF IInv
<1> QED
  BY <1>1, Invariance, PTL

\* No transaction waits for a service: the row of the host, upserted first, guards
\* those of its services (runner.py:297-306).
THEOREM HostRowsGuard == Spec => []HostRowsGuardServices
<1>1. IInv => HostRowsGuardServices
  BY HostsGuard
<1> QED
  BY <1>1, Invariance, PTL

\* Jobs are given up to deadlocks only if they came by hosts with nothing open in
\* a circle: with two jobs, in opposite orders (runner.py:166-175, 303).
THEOREM DeadlocksNeedInversion == Spec => []DeadlockNeedsInversion
<1>1. IInv => DeadlockNeedsInversion
  BY DEF IInv
<1> QED
  BY <1>1, Invariance, PTL

\* A committed country is not lost to a scan that knows none (runner.py:284-291).
THEOREM CountryIsKept == Spec => GeoKept
<1> DEFINE Kept == \A h \in Hosts : db[<<h, 0>>].geo # Nothing => db'[<<h, 0>>].geo # Nothing
<1>1. IInv /\ [Next]_vars => [Kept]_vars
  <2> SUFFICES ASSUME IInv, Next, NEW h \in Hosts, db[<<h, 0>>].geo # Nothing
               PROVE  db'[<<h, 0>>].geo # Nothing
    OBVIOUS
  <2>1. rows[<<h, 0>>].geo # Nothing /\ <<h, 0>> \in Keys
    BY DEF IInv, GeoInRows, Keys
  <2>2. PICK j \in Jobs : Job(j) \/ \E p \in Ports : Socket(j, p)
    BY DEF Next
  <2>3. CASE Commit(j)
    <3>1. db'[<<h, 0>>] \in {rows[<<h, 0>>], db[<<h, 0>>]}
      BY <2>1, <2>3 DEF Commit
    <3> QED
      BY <2>1, <3>1
  <2>4. CASE ~ Commit(j)
    <3>1. db' = db
      BY <2>2, <2>4 DEF Job, Socket, TakeError, TakeHost, Enrich, Persist, Upsert, UpsertFails,
         DeadlockDetected, Record, ProbeConnects, ProbeReads, ProbeEnds, ProbeGivesUp,
         ProbeCloses, ProbeStep, ShakeFails, ShakeDone, ShakeCloses, Fail, dataVars
    <3> QED
      BY <3>1
  <2> QED
    BY <2>3, <2>4
<1>2. [][Kept]_vars => GeoKept
  BY DEF GeoKept
<1> HIDE DEF Kept
<1> QED
  BY <1>1, <1>2, Invariance, PTL DEF Spec

\* A committed service carries the first of the best signatures for the banner and
\* a page the probe may have returned, whatever fails (engine.py:93-128).
THEOREM BestSignatureIsKept == Spec => []BestSignatureWins
<1>1. Chosen => BestSignatureWins
  BY DEF Chosen, BestIn, BestSignatureWins
<1> QED
  BY <1>1, Invariance, ChosenInit, ChosenNext, PTL DEF Spec

\* Every list a client is shown holds the last entries of the whole history, and
\* says that it is cut exactly when it is, for every limit, whatever errors and
\* failures come between the hosts (progress.py:68-139).
THEOREM ListsShowTheTail == Spec => []ListsAreTails
<1>1. Listed => ListsAreTails
  BY ShownIsTail, Zenon DEF Listed, ListsAreTails
<1> QED
  BY <1>1, Invariance, ListedInit, ListedNext, PTL DEF Spec
=============================================================================
