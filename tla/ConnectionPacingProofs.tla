----------------------- MODULE ConnectionPacingProofs -----------------------
(***************************************************************************)
(* Proofs about ConnectionPacing for any number of coroutines, any bucket  *)
(* that holds a token, any number of permits and any timeouts.             *)
(***************************************************************************)
EXTENDS ConnectionPacing, SequenceTheorems, FiniteSetTheorems, TLAPS

Tokenless == {"new", "queued", "napping"}

\* Where a coroutine is says whether it has its token and its permit.
StatesAgree ==
  \A n \in Coroutines :
    /\ pc[n] \in Tokenless <=> granted[n] = Never
    /\ pc[n] \in Tokenless \cup {"waiting"} <=> began[n] = Never
    /\ granted[n] <= now /\ began[n] <= now

Ascending(q) == \A i, j \in 1 .. Len(q) : i < j => q[i] < q[j]

\* The coroutines are started in order and wait in order.
Lined ==
  /\ \A m, n \in Coroutines : m < n /\ pc[n] # "new" => pc[m] # "new"
  /\ Ascending(line) /\ Ascending(door)

\* Who sleeps holds the lock, for the first time, and his deficit will be in
\* the bucket when his timer is due.
Sleeper ==
  \A n \in Coroutines :
    /\ pc[n] \in {"new", "queued"} => naps[n] = 0
    /\ pc[n] = "napping" =>
         /\ line # <<>> /\ n = Head(line)
         /\ tokens < Token /\ due[n] = last + Token - tokens

\* What has been given since the grant of m, together with what is left, is no
\* more than a full bucket and the income since then.
Level ==
  \A m, n \in Coroutines :
    m <= n /\ granted[n] # Never =>
      tokens + Token * (n - m + 1) <= Capacity + last - granted[m]

IInv ==
  TypeOK /\ StatesAgree /\ Lined /\ Sleeper /\ FirstComeFirstServed
    /\ OneNapIsEnough /\ Level /\ GrantsPaced

-----------------------------------------------------------------------------
(* Queues in which everybody stands before those of a higher number.       *)

\* Nobody is in an empty queue.
LEMMA EmptyQueue ==
  /\ <<>> \in Seq(Coroutines) /\ Ascending(<<>>)
  /\ \A m : ~ Among(m, <<>>)
  BY EmptySeq DEF Ascending, Among

\* The head of a queue is the lowest of those who are in it.
LEMMA HeadIsLowest ==
  ASSUME NEW q \in Seq(Coroutines), q # <<>>, Ascending(q)
  PROVE  /\ Head(q) \in Coroutines /\ Among(Head(q), q)
         /\ \A m \in Coroutines : Among(m, q) => Head(q) <= m
<1>1. Len(q) \in Nat \ {0} /\ Head(q) = q[1] /\ Head(q) \in Coroutines
  BY EmptySeq, HeadTailProperties
<1>2. Among(Head(q), q)
  BY <1>1 DEF Among
<1>3. ASSUME NEW m \in Coroutines, Among(m, q) PROVE Head(q) <= m
  <2>1. PICK i \in 1 .. Len(q) : q[i] = m
    BY <1>3 DEF Among
  <2> QED
    BY <1>1, <2>1 DEF Ascending, Coroutines
<1> QED
  BY <1>1, <1>2, <1>3

\* The tail of a queue has everybody but its head.
LEMMA TailLeaves ==
  ASSUME NEW q \in Seq(Coroutines), q # <<>>, Ascending(q)
  PROVE  /\ Tail(q) \in Seq(Coroutines) /\ Ascending(Tail(q))
         /\ \A m \in Coroutines : Among(m, Tail(q)) <=> Among(m, q) /\ m # Head(q)
<1>1. /\ Len(q) \in Nat \ {0} /\ Head(q) = q[1] /\ Tail(q) \in Seq(Coroutines)
      /\ Len(Tail(q)) = Len(q) - 1
      /\ \A i \in 1 .. Len(Tail(q)) : Tail(q)[i] = q[i + 1]
  BY EmptySeq, HeadTailProperties
<1>2. Ascending(Tail(q))
  BY <1>1 DEF Ascending
<1>3. ASSUME NEW m \in Coroutines, Among(m, Tail(q)) PROVE Among(m, q) /\ m # Head(q)
  <2>1. PICK i \in 1 .. Len(Tail(q)) : Tail(q)[i] = m
    BY <1>3 DEF Among
  <2>2. i + 1 \in 1 .. Len(q) /\ q[i + 1] = m
    BY <1>1, <2>1
  <2>3. q[1] < q[i + 1]
    BY <1>1, <2>1, <2>2 DEF Ascending
  <2> QED
    BY <1>1, <2>2, <2>3 DEF Among, Coroutines
<1>4. ASSUME NEW m \in Coroutines, Among(m, q), m # Head(q) PROVE Among(m, Tail(q))
  <2>1. PICK i \in 1 .. Len(q) : q[i] = m
    BY <1>4 DEF Among
  <2>2. i - 1 \in 1 .. Len(Tail(q)) /\ Tail(q)[i - 1] = m
    BY <1>1, <1>4, <2>1
  <2> QED
    BY <2>2 DEF Among
<1> QED
  BY <1>1, <1>2, <1>3, <1>4

\* Who is higher than everybody in a queue may join it at its end.
LEMMA AppendJoins ==
  ASSUME NEW q \in Seq(Coroutines), NEW n \in Coroutines, Ascending(q),
         \A m \in Coroutines : Among(m, q) => m < n
  PROVE  /\ Append(q, n) \in Seq(Coroutines) /\ Ascending(Append(q, n))
         /\ Append(q, n) # <<>>
         /\ \A m \in Coroutines : Among(m, Append(q, n)) <=> Among(m, q) \/ m = n
         /\ q # <<>> => Head(Append(q, n)) = Head(q)
<1> DEFINE r == Append(q, n)
<1>1. /\ Len(q) \in Nat /\ r \in Seq(Coroutines) /\ r # <<>> /\ Len(r) = Len(q) + 1
      /\ \A i \in 1 .. Len(q) : r[i] = q[i]
      /\ r[Len(q) + 1] = n
  BY AppendProperties, LenProperties
<1>2. \A i \in 1 .. Len(q) : q[i] \in Coroutines /\ q[i] < n
  BY ElementOfSeq DEF Among
<1>3. q # <<>> => Head(r) = Head(q)
  BY HeadTailAppend
<1> HIDE DEF r
<1>4. Ascending(r)
  BY <1>1, <1>2 DEF Ascending
<1>5. \A m \in Coroutines : Among(m, r) <=> Among(m, q) \/ m = n
  <2>1. 1 .. Len(r) = (1 .. Len(q)) \cup {Len(q) + 1}
    BY <1>1
  <2> QED
    BY <1>1, <2>1 DEF Among
<1> QED
  BY <1>1, <1>3, <1>4, <1>5 DEF r

-----------------------------------------------------------------------------
(* The bucket.                                                             *)

\* Woken sets wake-ups to the present and leaves pending timers alone.
LEMMA WokenTimers ==
  ASSUME NEW k, NEW q, NEW d \in [Coroutines -> Nat \cup {Never}], now \in Nat
  PROVE  /\ Woken(k, q, d) \in [Coroutines -> Nat \cup {Never}]
         /\ \A m \in Coroutines : d[m] # Never => Woken(k, q, d)[m] = d[m]
  BY DEF Woken

\* At the start nobody has asked for anything and the bucket is full.
LEMMA InitIInv == Init => IInv
<1> SUFFICES ASSUME Init PROVE IInv
  OBVIOUS
<1> USE DEF Init, Tokenless
<1>1. TypeOK
  <2>1. due \in [Coroutines -> Nat \cup {Never}]
    BY PacingAssumption
  <2>2. now \in Nat /\ last \in 0 .. now /\ tokens \in 0 .. Capacity
    BY PacingAssumption
  <2> QED
    BY <2>1, <2>2, EmptyQueue DEF TypeOK
<1>2. StatesAgree /\ Lined /\ Sleeper
  BY EmptyQueue DEF StatesAgree, Lined, Sleeper, Never
<1>3. FirstComeFirstServed /\ OneNapIsEnough /\ Level /\ GrantsPaced
  BY DEF FirstComeFirstServed, OneNapIsEnough, Level, GrantsPaced
<1> QED
  BY <1>1, <1>2, <1>3 DEF IInv

\* Who looks into the bucket is the first of those without a token, and who
\* has slept finds one there.
LEMMA PaceFacts ==
  ASSUME IInv, NEW n \in Coroutines, Pace(n)
  PROVE  /\ Refilled \in 0 .. Capacity /\ Refilled <= tokens + (now - last)
         /\ pc[n] \in Tokenless /\ granted[n] = Never /\ began[n] = Never
         /\ \A m \in Coroutines : m < n => pc[m] \notin Tokenless
         /\ \A m \in Coroutines : n < m => granted[m] = Never /\ began[m] = Never
         /\ pc[n] = "new" => line = <<>>
         /\ line # <<>> => n = Head(line)
         /\ pc[n] = "napping" => Refilled >= Token
<1> USE DEF IInv
<1>1. Refilled \in 0 .. Capacity /\ Refilled <= tokens + (now - last)
  BY PacingAssumption DEF Refilled, TypeOK
<1>2. pc[n] \in Tokenless /\ granted[n] = Never /\ began[n] = Never
  BY DEF Pace, MayPace, StatesAgree, Tokenless
<1>3. ASSUME NEW m \in Coroutines, m < n PROVE pc[m] \notin Tokenless
  <2>1. pc[m] # "new"
    <3>1. CASE pc[n] = "new"
      BY <1>3, <3>1 DEF Pace, MayPace, InTurn, Coroutines
    <3>2. CASE pc[n] # "new"
      BY <1>3, <3>2 DEF Lined
    <3> QED
      BY <3>1, <3>2
  <2>2. pc[m] \notin {"queued", "napping"}
    <3>1. SUFFICES ASSUME Among(m, line) PROVE FALSE
      BY DEF TypeOK
    <3>2. line # <<>>
      BY <3>1, EmptyQueue
    <3>3. Head(line) <= m /\ n = Head(line)
      BY <3>1, <3>2, HeadIsLowest DEF TypeOK, Lined, Pace, MayPace
    <3> QED
      BY <1>3, <3>3 DEF Coroutines
  <2> QED
    BY <2>1, <2>2 DEF Tokenless
<1>4. \A m \in Coroutines : n < m => granted[m] = Never /\ began[m] = Never
  BY <1>2 DEF FirstComeFirstServed
<1>5. (pc[n] = "new" => line = <<>>) /\ (line # <<>> => n = Head(line))
  BY DEF Pace, MayPace
<1>6. pc[n] = "napping" => Refilled >= Token
  BY PacingAssumption DEF Sleeper, Pace, Refilled, TypeOK
<1> QED
  BY <1>1, <1>2, <1>3, <1>4, <1>5, <1>6

-----------------------------------------------------------------------------
(* The steps.                                                              *)

\* A coroutine queues behind those who started before it.
LEMMA QueueIInv ==
  ASSUME IInv, NEW n \in Coroutines, Queue(n)
  PROVE  IInv'
<1> USE DEF IInv
<1>1. /\ pc[n] = "new" /\ line # <<>>
      /\ line' = Append(line, n)
      /\ pc' = [pc EXCEPT ![n] = "queued"]
      /\ due' = [due EXCEPT ![n] = Never]
      /\ UNCHANGED <<now, tokens, last, granted, naps, door, began>>
  BY DEF Queue
<1>2. \A m \in Coroutines : Among(m, line) => m < n
  BY <1>1 DEF TypeOK, Lined, Coroutines
<1>3. /\ line' \in Seq(Coroutines) /\ Ascending(line') /\ line' # <<>>
      /\ Head(line') = Head(line)
      /\ \A m \in Coroutines : Among(m, line') <=> Among(m, line) \/ m = n
  BY <1>1, <1>2, AppendJoins DEF TypeOK, Lined
<1>4. TypeOK'
  BY <1>1, <1>3 DEF TypeOK
<1>5. StatesAgree'
  BY <1>1 DEF TypeOK, StatesAgree, Tokenless
<1>6. Lined'
  BY <1>1, <1>3 DEF TypeOK, Lined, Queue, InTurn, Coroutines
<1>7. Sleeper'
  BY <1>1, <1>3 DEF TypeOK, Sleeper
<1>8. FirstComeFirstServed' /\ OneNapIsEnough' /\ Level' /\ GrantsPaced'
  BY <1>1 DEF FirstComeFirstServed, OneNapIsEnough, Level, GrantsPaced
<1> QED
  BY <1>4, <1>5, <1>6, <1>7, <1>8

\* A coroutine finds no token and sleeps, with the lock, for the first time.
LEMMA NapIInv ==
  ASSUME IInv, NEW n \in Coroutines, Pace(n), Refilled < Token
  PROVE  IInv'
<1> USE DEF IInv
<1>1. /\ last' = now /\ tokens' = Refilled
      /\ line' = IF line = <<>> THEN <<n>> ELSE line
      /\ pc' = [pc EXCEPT ![n] = "napping"]
      /\ due' = [due EXCEPT ![n] = now + Token - Refilled]
      /\ naps' = [naps EXCEPT ![n] = @ + 1]
      /\ UNCHANGED <<now, granted, door, began>>
  <2>1. ~ (Refilled >= Token) /\ now + Nap = now + Token - Refilled
    BY PaceFacts, PacingAssumption DEF Nap, TypeOK
  <2> QED
    BY <2>1 DEF Pace
<1>2. /\ Refilled \in 0 .. Capacity /\ Refilled <= tokens + (now - last)
      /\ pc[n] \in {"new", "queued"}
      /\ pc[n] = "new" => line = <<>>
      /\ line # <<>> => n = Head(line)
      /\ \A m \in Coroutines : m < n => pc[m] \notin Tokenless
  BY PaceFacts, PacingAssumption DEF Tokenless
<1>3. /\ line' \in Seq(Coroutines) /\ Ascending(line') /\ line' # <<>>
      /\ Head(line') = n
      /\ \A m \in Coroutines : Among(m, line') <=> Among(m, line) \/ m = n
  <2>1. CASE line = <<>>
    <3>1. line' = Append(<<>>, n)
      BY <1>1, <2>1
    <3>2. Head(line') = n
      BY <1>1, <2>1
    <3> QED
      BY <2>1, <3>1, <3>2, EmptyQueue, AppendJoins
  <2>2. CASE line # <<>>
    BY <1>1, <1>2, <2>2, HeadIsLowest DEF TypeOK, Lined
  <2> QED
    BY <2>1, <2>2
<1>4. TypeOK'
  <2>1. due' \in [Coroutines -> Nat \cup {Never}] /\ naps' \in [Coroutines -> Nat]
    BY <1>1, <1>2, PacingAssumption DEF TypeOK
  <2>2. now' \in Nat /\ last' \in 0 .. now' /\ tokens' \in 0 .. Capacity
    BY <1>1, <1>2 DEF TypeOK
  <2> QED
    BY <1>1, <1>2, <1>3, <2>1, <2>2 DEF TypeOK
<1>5. StatesAgree'
  BY <1>1, <1>2 DEF TypeOK, StatesAgree, Tokenless
<1>6. Lined'
  BY <1>1, <1>2, <1>3 DEF TypeOK, Lined, Tokenless
<1>7. Sleeper'
  <2>1. \A m \in Coroutines \ {n} : pc[m] # "napping"
    BY <1>2, EmptyQueue DEF Sleeper
  <2> QED
    BY <1>1, <1>2, <1>3, <2>1, PacingAssumption DEF TypeOK, Sleeper
<1>8. OneNapIsEnough'
  BY <1>1, <1>2 DEF TypeOK, Sleeper, OneNapIsEnough
<1>9. Level'
  <2> SUFFICES ASSUME NEW m \in Coroutines, NEW k \in Coroutines, m <= k, granted[k] # Never
               PROVE  Refilled + Token * (k - m + 1) <= Capacity + now - granted[m]
    BY <1>1 DEF Level
  <2>1. tokens + Token * (k - m + 1) <= Capacity + last - granted[m]
    BY DEF Level
  <2>2. /\ Token * (k - m + 1) \in Int /\ Capacity \in Int /\ granted[m] \in Int
        /\ {tokens, now, last, Refilled} \subseteq Int
    BY <1>2, PacingAssumption DEF TypeOK, Coroutines, Never
  <2> QED
    BY SMTT(30), <1>2, <2>1, <2>2
<1>10. FirstComeFirstServed' /\ GrantsPaced'
  BY <1>1 DEF FirstComeFirstServed, GrantsPaced
<1> QED
  BY <1>4, <1>5, <1>6, <1>7, <1>8, <1>9, <1>10

\* A coroutine takes a token.  Between the grant of m and this one, the number
\* n - m + 1 of grants has grown by one token, which the bucket has lost.
LEMMA GrantLevel ==
  ASSUME IInv, NEW n \in Coroutines, Pace(n), Refilled >= Token
  PROVE  Level' /\ GrantsPaced'
<1> USE DEF IInv
<1>1. last' = now /\ tokens' = Refilled - Token /\ granted' = [granted EXCEPT ![n] = now]
  BY DEF Pace
<1>2. /\ Refilled \in 0 .. Capacity /\ Refilled <= tokens + (now - last)
      /\ \A m \in Coroutines : n < m => granted[m] = Never
      /\ \A m \in Coroutines : m < n => granted[m] # Never
  BY PaceFacts DEF StatesAgree
<1>3. /\ Token \in Nat /\ Capacity \in Int
      /\ {tokens, now, last, Refilled} \subseteq Int
      /\ \A m \in Coroutines : granted[m] \in Int /\ granted'[m] \in Int
      /\ granted'[n] = now /\ \A m \in Coroutines \ {n} : granted'[m] = granted[m]
  BY <1>1, <1>2, PacingAssumption DEF TypeOK, Never
<1>4. ASSUME NEW m \in Coroutines, NEW k \in Coroutines, m <= k, granted'[k] # Never
      PROVE  /\ tokens' + Token * (k - m + 1) <= Capacity + now - granted'[m]
             /\ k = n => Token * (k - m + 1) <= Capacity + granted'[k] - granted'[m]
  <2>1. CASE k # n
    <3>1. k < n /\ m # n /\ granted[k] # Never
      BY <1>2, <1>3, <1>4, <2>1 DEF Coroutines
    <3>2. tokens + Token * (k - m + 1) <= Capacity + last - granted[m]
      BY <1>4, <3>1 DEF Level
    <3>3. Token * (k - m + 1) \in Int
      BY <1>3 DEF Coroutines
    <3> QED
      BY <1>1, <1>2, <1>3, <2>1, <3>1, <3>2, <3>3
  <2>2. CASE k = n /\ m # n
    <3>1. n - 1 \in Coroutines /\ m <= n - 1 /\ n - 1 < n
      BY <1>4, <2>2, PacingAssumption DEF Coroutines
    <3>2. tokens + Token * ((n - 1) - m + 1) <= Capacity + last - granted[m]
      BY <1>2, <3>1 DEF Level
    <3>3. Token * (n - m + 1) = Token * ((n - 1) - m + 1) + Token
      <4>1. \A x \in Int : Token * (x + 1) = Token * x + Token
        BY <1>3
      <4>2. (n - 1) - m + 1 = n - m /\ n - m \in Int
        BY DEF Coroutines
      <4> QED
        BY <4>1, <4>2
    <3>4. Token * ((n - 1) - m + 1) \in Int
      BY <1>3, <3>1 DEF Coroutines
    <3> QED
      BY <1>1, <1>2, <1>3, <2>2, <3>2, <3>3, <3>4
  <2>3. CASE k = n /\ m = n
    <3>1. Token * (k - m + 1) = Token
      <4>1. k - m + 1 = 1 /\ Token * 1 = Token
        BY <1>3, <2>3 DEF Coroutines
      <4> QED
        BY <4>1
    <3> QED
      BY <1>1, <1>2, <1>3, <2>3, <3>1
  <2> QED
    BY <2>1, <2>2, <2>3
<1>5. Level'
  BY <1>1, <1>4 DEF Level
<1>6. GrantsPaced'
  <2> SUFFICES ASSUME NEW m \in Coroutines, NEW k \in Coroutines, m <= k, granted'[k] # Never
               PROVE  Token * (k - m + 1) <= Capacity + granted'[k] - granted'[m]
    BY DEF GrantsPaced
  <2>1. CASE k = n
    BY <1>4, <2>1
  <2>2. CASE k # n
    <3>1. m # n /\ granted'[k] = granted[k] /\ granted'[m] = granted[m]
      BY <1>2, <1>3, <2>2 DEF Coroutines
    <3> QED
      BY <3>1 DEF GrantsPaced
  <2> QED
    BY <2>1, <2>2
<1> QED
  BY <1>5, <1>6

\* With its token the coroutine leaves the lock, and enters the semaphore or
\* waits for it behind those who had theirs before.
LEMMA GrantIInv ==
  ASSUME IInv, NEW n \in Coroutines, Pace(n), Refilled >= Token
  PROVE  IInv'
<1> USE DEF IInv
<1> DEFINE d == [due EXCEPT ![n] = IF Enters THEN now + ConnectTimeout ELSE Never]
<1>1. /\ last' = now /\ tokens' = Refilled - Token
      /\ line' = Behind
      /\ granted' = [granted EXCEPT ![n] = now]
      /\ door' = IF Enters THEN door ELSE Append(door, n)
      /\ pc' = [pc EXCEPT ![n] = IF Enters THEN "connecting" ELSE "waiting"]
      /\ began' = [began EXCEPT ![n] = IF Enters THEN now ELSE Never]
      /\ due' = Woken(1, line', d)
      /\ UNCHANGED <<now, naps>>
  BY DEF Pace
<1>2. /\ Refilled \in 0 .. Capacity /\ Refilled <= tokens + (now - last)
      /\ pc[n] \in Tokenless /\ granted[n] = Never /\ began[n] = Never
      /\ \A m \in Coroutines : m < n => pc[m] \notin Tokenless /\ granted[m] # Never
      /\ \A m \in Coroutines : n < m => granted[m] = Never /\ began[m] = Never
      /\ pc[n] = "new" => line = <<>>
      /\ line # <<>> => n = Head(line)
  BY PaceFacts DEF StatesAgree
<1>3. /\ line' \in Seq(Coroutines) /\ Ascending(line')
      /\ \A m \in Coroutines : Among(m, line') <=> Among(m, line) /\ m # n
  BY <1>1, <1>2, EmptyQueue, TailLeaves DEF Behind, TypeOK, Lined
<1>4. \A m \in Coroutines : Among(m, door) => m < n
  BY <1>2 DEF TypeOK, StatesAgree, Tokenless, Coroutines
<1>5. /\ door' \in Seq(Coroutines) /\ Ascending(door')
      /\ \A m \in Coroutines : Among(m, door') <=> Among(m, door) \/ (m = n /\ ~ Enters)
  BY <1>1, <1>4, AppendJoins DEF TypeOK, Lined
<1>6. \A m \in Coroutines : m < n /\ Enters => began[m] # Never
  BY <1>2, EmptyQueue DEF Enters, TypeOK, StatesAgree, Tokenless
<1>7. due' \in [Coroutines -> Nat \cup {Never}]
  <2>1. d \in [Coroutines -> Nat \cup {Never}] /\ now \in Nat
    BY PacingAssumption DEF TypeOK
  <2> QED
    BY <1>1, <2>1, WokenTimers
<1> HIDE DEF d
<1>8. now \in Nat /\ Token \in Nat \ {0} /\ Capacity \in Nat /\ Never \notin Nat
  BY PacingAssumption DEF TypeOK, Never
<1>9. TypeOK'
  <2>1. now' \in Nat /\ last' \in 0 .. now' /\ tokens' \in 0 .. Capacity
    BY <1>1, <1>2, <1>8
  <2>2. /\ granted' \in [Coroutines -> Nat \cup {Never}]
        /\ began' \in [Coroutines -> Nat \cup {Never}]
        /\ naps' \in [Coroutines -> Nat]
        /\ pc' \in [Coroutines -> {"new", "queued", "napping", "waiting",
                                    "connecting", "reading", "closing", "done"}]
    BY <1>1, <1>8 DEF TypeOK
  <2>3. \A m \in Coroutines : (pc'[m] \in {"queued", "napping"}) <=> Among(m, line')
    BY <1>1, <1>2, <1>3 DEF TypeOK
  <2>4. \A m \in Coroutines : (pc'[m] = "waiting") <=> Among(m, door')
    <3>1. pc[n] # "waiting"
      BY <1>2 DEF Tokenless
    <3> QED
      BY <1>1, <1>5, <3>1 DEF TypeOK
  <2> QED
    BY <1>3, <1>5, <1>7, <2>1, <2>2, <2>3, <2>4 DEF TypeOK
<1>10. StatesAgree'
  BY <1>1, <1>2, <1>8 DEF TypeOK, StatesAgree, Tokenless, Never
<1>11. Lined'
  BY <1>1, <1>2, <1>3, <1>5 DEF TypeOK, Lined, Tokenless
<1>12. Sleeper'
  <2>1. \A m \in Coroutines \ {n} : pc[m] # "napping"
    BY <1>2 DEF Sleeper
  <2> QED
    BY <1>1, <2>1 DEF TypeOK, Sleeper
<1>13. FirstComeFirstServed'
  <2> SUFFICES ASSUME NEW m \in Coroutines, NEW k \in Coroutines, m < k
               PROVE  /\ granted'[k] # Never => granted'[m] # Never /\ granted'[m] <= granted'[k]
                      /\ began'[k] # Never => began'[m] # Never /\ began'[m] <= began'[k]
    BY DEF FirstComeFirstServed
  <2>1. CASE k = n
    BY <1>1, <1>2, <1>6, <1>8, <2>1 DEF TypeOK, StatesAgree, Coroutines
  <2>2. CASE m = n
    BY <1>1, <1>2, <2>2 DEF TypeOK, Coroutines
  <2>3. CASE m # n /\ k # n
    BY <1>1, <2>3 DEF TypeOK, FirstComeFirstServed
  <2> QED
    BY <2>1, <2>2, <2>3
<1>14. OneNapIsEnough'
  BY <1>1 DEF OneNapIsEnough
<1> QED
  BY <1>9, <1>10, <1>11, <1>12, <1>13, <1>14, GrantLevel

\* The head of the semaphore's queue has had its token before all the others.
LEMMA EnterIInv ==
  ASSUME IInv, NEW n \in Coroutines, Enter(n)
  PROVE  IInv'
<1> USE DEF IInv
<1> DEFINE d == [due EXCEPT ![n] = now + ConnectTimeout]
<1>1. /\ door # <<>> /\ n = Head(door)
      /\ pc' = [pc EXCEPT ![n] = "connecting"]
      /\ door' = Tail(door)
      /\ due' = Woken(Free, door', d)
      /\ began' = [began EXCEPT ![n] = now]
      /\ UNCHANGED <<now, tokens, last, line, granted, naps>>
  BY DEF Enter, bucketVars
<1>2. /\ Among(n, door) /\ \A m \in Coroutines : Among(m, door) => n <= m
      /\ door' \in Seq(Coroutines) /\ Ascending(door')
      /\ \A m \in Coroutines : Among(m, door') <=> Among(m, door) /\ m # n
  BY <1>1, HeadIsLowest, TailLeaves DEF TypeOK, Lined
<1>3. pc[n] = "waiting" /\ granted[n] # Never /\ began[n] = Never
  BY <1>2 DEF TypeOK, StatesAgree, Tokenless
<1>4. \A m \in Coroutines : m < n => began[m] # Never
  <2> TAKE m \in Coroutines
  <2>1. m < n => granted[m] # Never /\ pc[m] # "waiting"
    BY <1>2, <1>3 DEF TypeOK, FirstComeFirstServed, Coroutines
  <2> QED
    BY <2>1 DEF StatesAgree
<1>5. /\ due' \in [Coroutines -> Nat \cup {Never}]
      /\ \A m \in Coroutines \ {n} : due[m] # Never => due'[m] = due[m]
  <2>1. d \in [Coroutines -> Nat \cup {Never}] /\ now \in Nat
    BY PacingAssumption DEF TypeOK
  <2>2. \A m \in Coroutines \ {n} : d[m] = due[m]
    BY DEF TypeOK
  <2> HIDE DEF d
  <2>3. /\ Woken(Free, door', d) \in [Coroutines -> Nat \cup {Never}]
        /\ \A m \in Coroutines : d[m] # Never => Woken(Free, door', d)[m] = d[m]
    BY <2>1, WokenTimers
  <2> QED
    BY <1>1, <2>2, <2>3
<1> HIDE DEF d
<1>6. TypeOK'
  BY <1>1, <1>2, <1>3, <1>5 DEF TypeOK
<1>7. StatesAgree'
  BY <1>1, <1>3 DEF TypeOK, StatesAgree, Tokenless, Never
<1>8. Lined'
  BY <1>1, <1>2, <1>3 DEF TypeOK, Lined
<1>9. Sleeper'
  <2>1. \A m \in Coroutines : pc[m] = "napping" => due[m] # Never
    BY PacingAssumption DEF TypeOK, Sleeper, Never
  <2>2. \A m \in Coroutines :
          /\ pc'[m] \in {"new", "queued", "napping"} => m # n /\ pc'[m] = pc[m]
          /\ pc[m] = "napping" => due'[m] = due[m]
    BY <1>1, <1>3, <1>5, <2>1 DEF TypeOK
  <2> QED
    BY <1>1, <2>2 DEF Sleeper
<1>10. FirstComeFirstServed'
  <2> SUFFICES ASSUME NEW m \in Coroutines, NEW k \in Coroutines, m < k
               PROVE  began'[k] # Never => began'[m] # Never /\ began'[m] <= began'[k]
    BY <1>1 DEF FirstComeFirstServed
  <2>1. CASE k = n
    BY <1>1, <1>4, <2>1 DEF TypeOK, StatesAgree, Coroutines
  <2>2. CASE m = n
    BY <1>1, <1>3, <2>2 DEF TypeOK, FirstComeFirstServed, Coroutines
  <2>3. CASE m # n /\ k # n
    BY <1>1, <2>3 DEF TypeOK, FirstComeFirstServed
  <2> QED
    BY <2>1, <2>2, <2>3
<1>11. OneNapIsEnough' /\ Level' /\ GrantsPaced'
  BY <1>1 DEF OneNapIsEnough, Level, GrantsPaced
<1> QED
  BY <1>6, <1>7, <1>8, <1>9, <1>10, <1>11

\* A connection goes on, or ends and hands its permit over.
LEMMA ConnectionIInv ==
  ASSUME IInv, NEW n \in Coroutines, Connect(n) \/ ReadBanner(n) \/ Leave(n)
  PROVE  IInv'
<1> USE DEF IInv
<1>1. /\ pc[n] \in {"connecting", "reading", "closing"}
      /\ \E to \in {"reading", "closing", "done"} : pc' = [pc EXCEPT ![n] = to]
      /\ UNCHANGED <<now, tokens, last, line, granted, naps, door, began>>
  BY DEF Connect, ReadBanner, Leave, bucketVars
<1>2. /\ due' \in [Coroutines -> Nat \cup {Never}]
      /\ \A m \in Coroutines \ {n} : due[m] # Never => due'[m] = due[m]
  <2>1. CASE Connect(n)
    BY <2>1, PacingAssumption DEF Connect, TypeOK
  <2>2. CASE ReadBanner(n)
    BY <2>2, PacingAssumption DEF ReadBanner, TypeOK
  <2>3. CASE Leave(n)
    <3> DEFINE d == [due EXCEPT ![n] = Never]
    <3>1. d \in [Coroutines -> Nat \cup {Never}] /\ now \in Nat
      BY DEF TypeOK
    <3>2. \A m \in Coroutines \ {n} : d[m] = due[m]
      BY DEF TypeOK
    <3>3. due' = Woken(1, door, d)
      BY <2>3 DEF Leave, Released
    <3> HIDE DEF d
    <3>4. /\ Woken(1, door, d) \in [Coroutines -> Nat \cup {Never}]
          /\ \A m \in Coroutines : d[m] # Never => Woken(1, door, d)[m] = d[m]
      BY <3>1, WokenTimers
    <3> QED
      BY <3>2, <3>3, <3>4
  <2> QED
    BY <2>1, <2>2, <2>3
<1>3. \A m \in Coroutines :
        \/ m # n /\ pc'[m] = pc[m]
        \/ m = n /\ pc'[m] \in {"reading", "closing", "done"}
  BY <1>1 DEF TypeOK
<1>4. TypeOK'
  BY <1>1, <1>2, <1>3 DEF TypeOK
<1>5. StatesAgree' /\ Lined'
  BY <1>1, <1>3 DEF StatesAgree, Lined, Tokenless
<1>6. Sleeper'
  <2>1. \A m \in Coroutines : pc[m] = "napping" => due[m] # Never
    BY PacingAssumption DEF TypeOK, Sleeper, Never
  <2> QED
    BY <1>1, <1>2, <1>3, <2>1 DEF Sleeper
<1>7. FirstComeFirstServed' /\ OneNapIsEnough' /\ Level' /\ GrantsPaced'
  BY <1>1 DEF FirstComeFirstServed, OneNapIsEnough, Level, GrantsPaced
<1> QED
  BY <1>4, <1>5, <1>6, <1>7

\* The passing of time disturbs nothing: the bucket is refilled when it is read.
LEMMA TickIInv == IInv /\ Tick => IInv'
<1> SUFFICES ASSUME IInv, Tick PROVE IInv'
  OBVIOUS
<1> USE DEF IInv, Tick
<1>1. TypeOK' /\ StatesAgree' /\ Lined'
  BY DEF TypeOK, StatesAgree, Lined, Never
<1>2. Sleeper' /\ FirstComeFirstServed' /\ OneNapIsEnough' /\ Level' /\ GrantsPaced'
  BY DEF Sleeper, FirstComeFirstServed, OneNapIsEnough, Level, GrantsPaced
<1> QED
  BY <1>1, <1>2

\* Every step of a coroutine and of the clock preserves the invariant.
LEMMA NextIInv == IInv /\ [Next]_vars => IInv'
<1> SUFFICES ASSUME IInv, [Next]_vars PROVE IInv'
  OBVIOUS
<1>1. CASE Tick
  BY <1>1, TickIInv
<1>2. ASSUME NEW n \in Coroutines, Scan(n) PROVE IInv'
  <2>1. CASE Pace(n)
    <3>1. Refilled \in 0 .. Capacity /\ Token \in Nat /\ Capacity \in Nat
      BY <2>1, PaceFacts, PacingAssumption
    <3>2. Refilled >= Token \/ Refilled < Token
      BY <3>1
    <3> QED
      BY <2>1, <3>2, GrantIInv, NapIInv
  <2> QED
    BY <1>2, <2>1, QueueIInv, EnterIInv, ConnectionIInv DEF Scan
<1>3. CASE UNCHANGED vars
  BY <1>3 DEF vars, bucketVars, IInv, TypeOK, StatesAgree, Lined, Sleeper,
              FirstComeFirstServed, OneNapIsEnough, Level, GrantsPaced
<1> QED
  BY <1>1, <1>2, <1>3 DEF Next

-----------------------------------------------------------------------------
(* The permits.                                                            *)

\* Who has a permit of the semaphore, or the promise of one.
Held == Connected \cup {n \in Coroutines : Called(n)}

\* What is in two finite sets is no more than both together.
LEMMA UnionSize ==
  ASSUME NEW S, NEW T, NEW R, IsFiniteSet(S), IsFiniteSet(T), R \subseteq S \cup T
  PROVE  /\ IsFiniteSet(R) /\ Cardinality(R) <= Cardinality(S) + Cardinality(T)
         /\ Cardinality(R) \in Nat /\ Cardinality(S) \in Nat /\ Cardinality(T) \in Nat
<1>1. /\ IsFiniteSet(S \cup T)
      /\ Cardinality(S \cup T) = Cardinality(S) + Cardinality(T) - Cardinality(S \cap T)
  BY FS_Union
<1>2. IsFiniteSet(S \cap T)
  BY FS_Intersection
<1>3. IsFiniteSet(R) /\ Cardinality(R) <= Cardinality(S \cup T)
  BY <1>1, FS_Subset
<1>4. Cardinality(S) \in Nat /\ Cardinality(T) \in Nat /\ Cardinality(S \cap T) \in Nat
      /\ Cardinality(R) \in Nat
  BY <1>2, <1>3, FS_CardinalityType
<1> QED
  BY <1>1, <1>3, <1>4

\* A finite set of numbers has a highest.
LEMMA HighestExists ==
  ASSUME NEW P \in SUBSET Nat, IsFiniteSet(P), P # {}
  PROVE  \E m \in P : \A i \in P : i <= m
<1> DEFINE Above(m) == {i \in P : i > m}
           T == {Above(m) : m \in P}
<1>1. T \subseteq FiniteSubsetsOf(P) /\ T # {}
  <2>1. FiniteSubsetsOf(P) = SUBSET P
    BY FS_FiniteSubsetsOfFinite
  <2>2. \A m \in P : Above(m) \in SUBSET P
    OBVIOUS
  <2>3. T \subseteq SUBSET P
    BY <2>2
  <2>4. \A m \in P : Above(m) \in T
    OBVIOUS
  <2> HIDE DEF T
  <2> QED
    BY <2>1, <2>3, <2>4
<1> HIDE DEF T
<1>2. PICK x \in T : \A y \in T : ~ (<<y, x>> \in StrictSubsetOrdering(P))
  BY <1>1, FS_StrictSubsetOrderingWellFounded, WFMin
<1>3. PICK m \in P : x = Above(m)
  BY <1>2 DEF T
<1>4. ASSUME NEW i \in P, i > m PROVE FALSE
  <2>1. i \in Nat /\ m \in Nat /\ P \subseteq Nat
    OBVIOUS
  <2>2. /\ \A j \in P : j > i => j > m
        /\ ~ (i > i)
    BY <1>4, <2>1
  <2>3. Above(i) \subseteq Above(m) /\ i \in Above(m) /\ i \notin Above(i)
    BY <1>4, <2>2
  <2>4. Above(i) \in SUBSET P /\ Above(m) \in SUBSET P /\ Above(i) \in T
    BY DEF T
  <2> HIDE DEF Above
  <2>5. <<Above(i), Above(m)>> \in StrictSubsetOrdering(P)
    BY <2>3, <2>4 DEF StrictSubsetOrdering
  <2> QED
    BY <1>2, <1>3, <2>4, <2>5
<1> QED
  BY <1>4

\* A wake-up of k wakes at most k, and none but members of the queue.
LEMMA WokenAreFew ==
  ASSUME NEW k \in Nat, NEW q \in Seq(Coroutines),
         NEW d \in [Coroutines -> Nat \cup {Never}], now \in Nat
  PROVE  LET W == {m \in Coroutines : d[m] = Never /\ Woken(k, q, d)[m] # Never}
         IN  IsFiniteSet(W) /\ Cardinality(W) <= k /\ \A m \in W : Among(m, q)
<1> DEFINE Before(i) == {j \in 1 .. i - 1 : d[q[j]] = Never}
           P == {i \in 1 .. Len(q) : d[q[i]] = Never /\ Cardinality(Before(i)) < k}
           W == {m \in Coroutines : d[m] = Never /\ Woken(k, q, d)[m] # Never}
<1>1. \A m \in W : \E i \in P : q[i] = m
  BY DEF Woken
<1>2. IsFiniteSet(P) /\ P \in SUBSET Nat /\ Cardinality(P) \in Nat
  <2>1. Len(q) \in Nat
    BY LenProperties
  <2>2. IsFiniteSet(1 .. Len(q)) /\ P \in SUBSET (1 .. Len(q))
    BY <2>1, FS_Interval
  <2> HIDE DEF P
  <2>3. IsFiniteSet(P)
    BY <2>2, FS_Subset
  <2> QED
    BY <2>2, <2>3, FS_CardinalityType
<1>3. Cardinality(P) <= k
  <2>1. CASE P = {}
    <3>1. Cardinality(P) = 0
      BY <2>1, FS_EmptySet
    <3> QED
      BY <3>1
  <2>2. CASE P # {}
    <3>1. PICK m \in P : \A i \in P : i <= m
      <4> HIDE DEF P
      <4> QED
        BY <1>2, <2>2, HighestExists
    <3>2. m \in Nat /\ Cardinality(Before(m)) < k /\ Before(m) \in SUBSET (1 .. m - 1)
      BY <1>2
    <3>3. P \subseteq Before(m) \cup {m}
      BY <1>2, <3>1, <3>2
    <3>4. IsFiniteSet(1 .. m - 1)
      BY <3>2, FS_Interval
    <3>5. IsFiniteSet({m}) /\ Cardinality({m}) = 1
      BY FS_Singleton
    <3> HIDE DEF P, Before
    <3>6. IsFiniteSet(Before(m))
      BY <3>2, <3>4, FS_Subset
    <3>7. /\ Cardinality(P) <= Cardinality(Before(m)) + Cardinality({m})
          /\ Cardinality(Before(m)) \in Nat
      BY <3>3, <3>5, <3>6, UnionSize
    <3> QED
      BY <1>2, <3>2, <3>5, <3>7
  <2> QED
    BY <2>1, <2>2
<1>4. IsFiniteSet(W) /\ Cardinality(W) <= Cardinality(P)
  <2> DEFINE Q == {i \in P : q[i] \in W}
             f == [i \in Q |-> q[i]]
  <2>1. IsFiniteSet(Q) /\ Cardinality(Q) <= Cardinality(P)
    BY <1>2, FS_Subset
  <2>2. f \in Surjection(Q, W)
    BY <1>1 DEF Surjection
  <2>3. IsFiniteSet(W) /\ Cardinality(W) <= Cardinality(Q)
    BY <2>1, <2>2, FS_Surjection
  <2>4. Cardinality(W) \in Nat /\ Cardinality(Q) \in Nat
    BY <2>1, <2>3, FS_CardinalityType
  <2> QED
    BY <1>2, <2>1, <2>3, <2>4
<1>5. \A m \in W : Among(m, q)
  BY <1>1 DEF Among
<1>6. Cardinality(W) \in Nat
  BY <1>4, FS_CardinalityType
<1> QED
  BY <1>2, <1>3, <1>4, <1>5, <1>6

\* Nobody gets a permit, or the promise of one, that is not free.
LEMMA NextBounded ==
  ASSUME IInv, IInv', ConnectionsBounded, Next
  PROVE  ConnectionsBounded'
<1> USE DEF IInv
<1>1. IsFiniteSet(Held) /\ Cardinality(Held) \in Nat /\ Cardinality(Held) <= Concurrency
  <2>1. IsFiniteSet(Coroutines)
    BY FS_Interval, PacingAssumption DEF Coroutines
  <2>2. IsFiniteSet(Held)
    BY <2>1, FS_Subset DEF Held, Connected
  <2>3. Cardinality(Held) \in Nat
    BY <2>2, FS_CardinalityType
  <2> QED
    BY <2>2, <2>3 DEF Held, ConnectionsBounded
<1>2. Concurrency \in Nat /\ (ConnectionsBounded' <=> Cardinality(Held') <= Concurrency)
  BY PacingAssumption DEF ConnectionsBounded, Held
<1>3. ASSUME Held' \subseteq Held PROVE ConnectionsBounded'
  <2>1. Cardinality(Held') <= Cardinality(Held) /\ IsFiniteSet(Held')
    BY <1>1, <1>3, FS_Subset
  <2>2. Cardinality(Held') \in Nat
    BY <2>1, FS_CardinalityType
  <2> QED
    BY <1>1, <1>2, <2>1, <2>2
<1>4. ASSUME NEW n \in Coroutines, Pace(n) PROVE ConnectionsBounded'
  <2>1. CASE Refilled < Token
    <3>1. Held' \subseteq Held
      <4>1. /\ pc' = [pc EXCEPT ![n] = "napping"]
            /\ \A m \in Coroutines \ {n} : due'[m] = due[m]
        <5>1. ~ (Refilled >= Token)
          BY <1>4, <2>1, PaceFacts, PacingAssumption
        <5> QED
          BY <1>4, <5>1 DEF Pace, TypeOK
      <4> QED
        BY <4>1 DEF Held, Connected, Called, TypeOK
    <3> QED
      BY <1>3, <3>1
  <2>2. CASE Refilled >= Token
    <3> DEFINE d == [due EXCEPT ![n] = IF Enters THEN now + ConnectTimeout ELSE Never]
    <3>1. /\ pc' = [pc EXCEPT ![n] = IF Enters THEN "connecting" ELSE "waiting"]
          /\ due' = Woken(1, line', d)
      BY <1>4, <2>2 DEF Pace
    <3>2. d \in [Coroutines -> Nat \cup {Never}] /\ now \in Nat
      BY SMTT(30), PacingAssumption DEF TypeOK
    <3>3. /\ \A m \in Coroutines \ {n} : d[m] = due[m]
          /\ ~ Enters => d[n] = Never
      BY DEF TypeOK
    <3> HIDE DEF d
    <3>4. /\ \A m \in Coroutines : d[m] = Never /\ due'[m] # Never => Among(m, line')
          /\ \A m \in Coroutines : d[m] # Never => due'[m] = d[m]
      <4>1. 1 \in Nat /\ line' \in Seq(Coroutines)
        BY DEF TypeOK
      <4>2. \A m \in {m \in Coroutines : d[m] = Never /\ due'[m] # Never} : Among(m, line')
        BY <3>1, <3>2, <4>1, WokenAreFew
      <4> QED
        BY <3>1, <3>2, <4>2, WokenTimers
    <3>5. \A m \in Coroutines : Among(m, line') => pc'[m] # "waiting"
      BY DEF TypeOK
    <3>6. CASE ~ Enters
      <4>1. Held' \subseteq Held
        BY ZenonT(60), <3>1, <3>3, <3>4, <3>5, <3>6 DEF Held, Connected, Called, TypeOK
      <4> QED
        BY <1>3, <4>1
    <3>7. CASE Enters
      <4>1. Held' \subseteq Held \cup {n}
        BY ZenonT(60), <3>1, <3>3, <3>4, <3>5, <3>7 DEF Held, Connected, Called, TypeOK
      <4>2. Held = Connected /\ Cardinality(Held) < Concurrency
        <5>1. \A m \in Coroutines : ~ Called(m)
          BY <3>7, EmptyQueue DEF Enters, Called, TypeOK
        <5> QED
          BY <3>7, <5>1 DEF Enters, Held
      <4>3. IsFiniteSet({n}) /\ Cardinality({n}) = 1
        BY FS_Singleton
      <4>4. /\ Cardinality(Held') <= Cardinality(Held) + Cardinality({n})
            /\ Cardinality(Held') \in Nat
        BY <1>1, <4>1, <4>3, UnionSize
      <4> QED
        BY <1>1, <1>2, <4>2, <4>3, <4>4
    <3> QED
      BY <3>6, <3>7
  <2>3. Refilled \in Nat /\ Token \in Nat
    BY <1>4, PaceFacts, PacingAssumption
  <2> QED
    BY <2>1, <2>2, <2>3
<1>5. ASSUME NEW n \in Coroutines, Enter(n) PROVE ConnectionsBounded'
  <2> DEFINE d == [due EXCEPT ![n] = now + ConnectTimeout]
             W == {m \in Coroutines : d[m] = Never /\ due'[m] # Never}
  <2>1. /\ pc' = [pc EXCEPT ![n] = "connecting"]
        /\ due' = Woken(Free, door', d)
        /\ n \in Held
    BY <1>5, HeadIsLowest DEF Enter, Held, Called, TypeOK, Lined
  <2>2. d \in [Coroutines -> Nat \cup {Never}] /\ now \in Nat
    BY PacingAssumption DEF TypeOK
  <2>3. Free \in Nat /\ Free = Concurrency - Cardinality(Held)
    <3>1. Free = Concurrency - Cardinality(Held)
      BY DEF Free, Held
    <3> QED
      BY <1>1, <3>1, PacingAssumption
  <2>4. \A m \in Coroutines \ {n} : d[m] = due[m]
    BY DEF TypeOK
  <2>5. /\ IsFiniteSet(W) /\ Cardinality(W) <= Free
        /\ \A m \in Coroutines : d[m] # Never => due'[m] = d[m]
    <3> HIDE DEF d
    <3>1. door' \in Seq(Coroutines)
      BY DEF TypeOK
    <3> DEFINE V == {m \in Coroutines : d[m] = Never /\ Woken(Free, door', d)[m] # Never}
    <3>2. IsFiniteSet(V) /\ Cardinality(V) <= Free
      BY <2>2, <2>3, <3>1, WokenAreFew
    <3>3. W = V
      BY <2>1
    <3>4. \A m \in Coroutines : d[m] # Never => due'[m] = d[m]
      BY <2>1, <2>2, WokenTimers
    <3> HIDE DEF V, W
    <3> QED
      BY <3>2, <3>3, <3>4
  <2> HIDE DEF d
  <2>6. Held' \subseteq Held \cup W
    BY <2>1, <2>4, <2>5 DEF Held, Connected, Called, TypeOK
  <2> HIDE DEF W
  <2>7. /\ Cardinality(Held') <= Cardinality(Held) + Cardinality(W)
        /\ Cardinality(Held') \in Nat /\ Cardinality(W) \in Nat
    BY <1>1, <2>5, <2>6, UnionSize
  <2> QED
    BY <1>1, <1>2, <2>3, <2>5, <2>7
<1>6. ASSUME NEW n \in Coroutines, Leave(n) PROVE ConnectionsBounded'
  <2> DEFINE d == [due EXCEPT ![n] = Never]
             W == {m \in Coroutines : d[m] = Never /\ due'[m] # Never}
             Rest == Held \ {n}
  <2>1. /\ pc' = [pc EXCEPT ![n] = "done"]
        /\ due' = Woken(1, door, d)
        /\ n \in Held
    BY <1>6 DEF Leave, Released, Held, Connected
  <2>2. d \in [Coroutines -> Nat \cup {Never}] /\ now \in Nat
    BY PacingAssumption DEF TypeOK
  <2>3. \A m \in Coroutines \ {n} : d[m] = due[m]
    BY DEF TypeOK
  <2>4. /\ IsFiniteSet(W) /\ Cardinality(W) <= 1
        /\ \A m \in Coroutines : d[m] # Never => due'[m] = d[m]
    <3> HIDE DEF d
    <3>1. 1 \in Nat /\ door \in Seq(Coroutines)
      BY DEF TypeOK
    <3> DEFINE V == {m \in Coroutines : d[m] = Never /\ Woken(1, door, d)[m] # Never}
    <3>2. IsFiniteSet(V) /\ Cardinality(V) <= 1
      BY <2>2, <3>1, WokenAreFew
    <3>3. W = V
      BY <2>1
    <3>4. \A m \in Coroutines : d[m] # Never => due'[m] = d[m]
      BY <2>1, <2>2, WokenTimers
    <3> HIDE DEF V, W
    <3> QED
      BY <3>2, <3>3, <3>4
  <2> HIDE DEF d
  <2>5. Held' \subseteq Rest \cup W
    BY <2>1, <2>3, <2>4 DEF Held, Connected, Called, TypeOK
  <2> HIDE DEF W
  <2>6. IsFiniteSet(Rest) /\ Cardinality(Rest) = Cardinality(Held) - 1
    BY <1>1, <2>1, FS_RemoveElement
  <2> HIDE DEF Rest
  <2>7. /\ Cardinality(Held') <= Cardinality(Rest) + Cardinality(W)
        /\ Cardinality(Held') \in Nat /\ Cardinality(W) \in Nat
    BY <2>4, <2>5, <2>6, UnionSize
  <2> QED
    BY <1>1, <1>2, <2>4, <2>6, <2>7
<1>7. ASSUME NEW n \in Coroutines, Queue(n) \/ Connect(n) \/ ReadBanner(n)
      PROVE  ConnectionsBounded'
  <2>1. Held' \subseteq Held
    BY SMTT(30), <1>7 DEF Queue, Connect, ReadBanner, Held, Connected, Called, TypeOK
  <2> QED
    BY <1>3, <2>1
<1>8. CASE Tick
  BY <1>8, <1>3 DEF Tick, Held, Connected, Called
<1> QED
  BY <1>4, <1>5, <1>6, <1>7, <1>8 DEF Next, Scan

-----------------------------------------------------------------------------

\* The variables keep their types, and the queues hold exactly those who wait.
THEOREM TypeCorrect == Spec => []TypeOK
<1>1. IInv => TypeOK
  BY DEF IInv
<1> QED
  BY InitIInv, NextIInv, <1>1, PTL DEF Spec

\* In no stretch of time does the limiter give more tokens than a full bucket
\* and the rate allow, whatever the load and the lateness of the event loop.
THEOREM GrantsArePaced == Spec => []GrantsPaced
<1>1. IInv => GrantsPaced
  BY DEF IInv
<1> QED
  BY InitIInv, NextIInv, <1>1, PTL DEF Spec

\* Tokens and permits go to the coroutines in the order in which they came.
THEOREM ServedInOrder == Spec => []FirstComeFirstServed
<1>1. IInv => FirstComeFirstServed
  BY DEF IInv
<1> QED
  BY InitIInv, NextIInv, <1>1, PTL DEF Spec

\* No coroutine sleeps twice for its token.
THEOREM NobodyNapsTwice == Spec => []OneNapIsEnough
<1>1. IInv => OneNapIsEnough
  BY DEF IInv
<1> QED
  BY InitIInv, NextIInv, <1>1, PTL DEF Spec

\* There are never more sockets, and promises of one, than permits.
THEOREM SocketsAreBounded == Spec => []ConnectionsBounded
<1>1. Init => ConnectionsBounded
  <2> SUFFICES ASSUME Init PROVE ConnectionsBounded
    OBVIOUS
  <2>1. Connected \cup {n \in Coroutines : Called(n)} = {}
    BY DEF Init, Connected, Called
  <2> QED
    BY <2>1, FS_EmptySet, PacingAssumption DEF ConnectionsBounded
<1>2. IInv /\ IInv' /\ ConnectionsBounded /\ [Next]_vars => ConnectionsBounded'
  <2>1. UNCHANGED vars /\ ConnectionsBounded => ConnectionsBounded'
    BY DEF vars, bucketVars, ConnectionsBounded, Connected, Called
  <2> QED
    BY <2>1, NextBounded
<1> QED
  BY InitIInv, NextIInv, <1>1, <1>2, PTL DEF Spec
=============================================================================
