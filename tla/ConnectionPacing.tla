-------------------------- MODULE ConnectionPacing --------------------------
(***************************************************************************)
(* How a connection of the scanner comes to be made (app/scan/scanner.py   *)
(* _scan_port, app/scan/ratelimit.py): a token of the bucket, a permit of  *)
(* the semaphore, the connect, the banner, the close, each wait with a     *)
(* timeout.                                                                *)
(*                                                                         *)
(* Time is counted in ticks.  The bucket gains one unit a tick and a token *)
(* is Token units, which makes the rate 1/Token.  due[n] is when the timer *)
(* or the wake-up of coroutine n comes; the event loop runs it at most     *)
(* MaxLate ticks later, in any order.  The coroutines are numbered as they *)
(* call acquire, which loses nothing: they differ in nothing else.         *)
(***************************************************************************)
EXTENDS Integers, FiniteSets, Sequences

CONSTANTS
  NumPorts,        \* coroutines _scan_port, of whatever host
  Starts,          \* the times at which one may be started
  Token,           \* units of a token
  Capacity,        \* units the bucket can hold
  Concurrency,     \* permits of the semaphore
  ConnectTimeout, BannerTimeout, CloseTimeout,
  MaxLate

\* A bucket that cannot hold one token never gives one: acquire would sleep and
\* look again for ever.  The scanner is built with 500 tokens.
ASSUME PacingAssumption ==
  /\ NumPorts \in Nat /\ Starts \subseteq Nat /\ MaxLate \in Nat
  /\ Token \in Nat \ {0} /\ Capacity \in Nat /\ Capacity >= Token
  /\ Concurrency \in Nat \ {0}
  /\ {ConnectTimeout, BannerTimeout, CloseTimeout} \subseteq Nat

VARIABLES
  now,
  tokens,   \* _tokens, in units
  last,     \* _last
  line,     \* who holds the limiter's lock, and who waits for it
  door,     \* who waits for the semaphore
  pc,       \* where each coroutine is
  due,      \* when it goes on, or Never if another one wakes it
  granted,  \* when it got its token
  naps,     \* how often it has slept for it
  began     \* when it got its permit

bucketVars == <<now, tokens, last, line, granted, naps>>
vars == <<bucketVars, door, pc, due, began>>

Coroutines == 1 .. NumPorts
Never == -1

Init ==
  /\ now = 0
  /\ tokens = Capacity
  /\ last = 0
  /\ line = <<>>
  /\ door = <<>>
  /\ pc = [n \in Coroutines |-> "new"]
  /\ due \in {f \in [Coroutines -> Starts] : \A n \in 2 .. NumPorts : f[n - 1] <= f[n]}
  /\ granted = [n \in Coroutines |-> Never]
  /\ naps = [n \in Coroutines |-> 0]
  /\ began = granted

InTurn(n) == \A m \in 1 .. n - 1 : pc[m] # "new"
Connected == {n \in Coroutines : pc[n] \in {"connecting", "reading", "closing"}}

-----------------------------------------------------------------------------
(* The rate limiter.                                                       *)

\* Mutants of Refilled: the bucket has no brim; and time is counted again at
\* every look.
RefilledOverBrim == tokens + (now - last)
RefilledSinceStart ==
  LET level == tokens + now
  IN  IF level > Capacity THEN Capacity ELSE level

Refilled ==
  LET level == tokens + (now - last)
  IN  IF level > Capacity THEN Capacity ELSE level

\* Mutant of Nap: the sleep forgets what is in the bucket, but for one unit.
NapShort == 1

\* The time until the deficit has come in.
Nap == Token - Refilled

\* A coroutine waits for the lock behind the others.
Queue(n) ==
  /\ pc[n] = "new" /\ now >= due[n] /\ InTurn(n)
  /\ line # <<>>
  /\ line' = Append(line, n)
  /\ pc' = [pc EXCEPT ![n] = "queued"]
  /\ due' = [due EXCEPT ![n] = Never]
  /\ UNCHANGED <<now, tokens, last, granted, naps, door, began>>

\* Mutant of MayPace: a newcomer does not wait for the lock.
MayPaceBarging(n) ==
  \/ pc[n] = "new" /\ InTurn(n)
  \/ pc[n] \in {"queued", "napping"} /\ n = Head(line)

\* It has the lock: it found it free, was woken by its release, or has slept.
MayPace(n) ==
  \/ pc[n] = "new" /\ line = <<>> /\ InTurn(n)
  \/ pc[n] \in {"queued", "napping"} /\ n = Head(line)

Behind == IF line = <<>> THEN <<>> ELSE Tail(line)

\* The first k of a queue that nobody has woken yet go on now.
Woken(k, q, d) ==
  LET Before(i) == {j \in 1 .. i - 1 : d[q[j]] = Never}
      First(m) == \E i \in 1 .. Len(q) : q[i] = m /\ Cardinality(Before(i)) < k
  IN  [m \in Coroutines |-> IF d[m] = Never /\ First(m) THEN now ELSE d[m]]

\* Mutant of Enters: those who have been woken are forgotten.
EntersUnlessFull == Cardinality(Connected) < Concurrency

\* The semaphore is entered at once only if nobody waits for it.
Enters == door = <<>> /\ Cardinality(Connected) < Concurrency

\* The bucket is refilled.  With a token in it the coroutine lets the next one
\* have the lock and goes to the semaphore, otherwise it sleeps with the lock.
Pace(n) ==
  /\ MayPace(n) /\ due[n] # Never /\ now >= due[n]
  /\ last' = now
  /\ IF Refilled >= Token
     THEN /\ tokens' = Refilled - Token
          /\ line' = Behind
          /\ granted' = [granted EXCEPT ![n] = now]
          /\ door' = IF Enters THEN door ELSE Append(door, n)
          /\ pc' = [pc EXCEPT ![n] = IF Enters THEN "connecting" ELSE "waiting"]
          /\ began' = [began EXCEPT ![n] = IF Enters THEN now ELSE Never]
          /\ due' = Woken(1, line', [due EXCEPT ![n] = IF Enters THEN now + ConnectTimeout ELSE Never])
          /\ UNCHANGED naps
     ELSE /\ tokens' = Refilled
          /\ line' = IF line = <<>> THEN <<n>> ELSE line
          /\ pc' = [pc EXCEPT ![n] = "napping"]
          /\ due' = [due EXCEPT ![n] = now + Nap]
          /\ naps' = [naps EXCEPT ![n] = @ + 1]
          /\ UNCHANGED <<granted, door, began>>
  /\ UNCHANGED now

-----------------------------------------------------------------------------
(* The connection.                                                         *)

Called(n) == pc[n] = "waiting" /\ due[n] # Never

\* The permits that nobody has been given, woken or not.
Free == Concurrency - Cardinality(Connected \cup {n \in Coroutines : Called(n)})

\* The first who waits for the semaphore has been woken, with a permit that is
\* his.  He wakes those behind him for whom there is another one.
Enter(n) ==
  /\ door # <<>> /\ n = Head(door) /\ due[n] # Never
  /\ pc' = [pc EXCEPT ![n] = "connecting"]
  /\ door' = Tail(door)
  /\ due' = Woken(Free, door', [due EXCEPT ![n] = now + ConnectTimeout])
  /\ began' = [began EXCEPT ![n] = now]
  /\ UNCHANGED bucketVars

Connect(n) ==
  /\ pc[n] = "connecting"
  /\ pc' = [pc EXCEPT ![n] = "reading"]
  /\ due' = [due EXCEPT ![n] = now + BannerTimeout]
  /\ UNCHANGED <<bucketVars, door, began>>

\* The banner, an end of file or an error comes, or nothing in time.
ReadBanner(n) ==
  /\ pc[n] = "reading"
  /\ pc' = [pc EXCEPT ![n] = "closing"]
  /\ due' = [due EXCEPT ![n] = now + CloseTimeout]
  /\ UNCHANGED <<bucketVars, door, began>>

\* Mutant of Released: the permit goes back and nobody is woken.
ReleasedSilently(d) == d

\* A released permit is for the first who waits and has not been woken.
Released(d) == Woken(1, door, d)

\* The connect is refused, fails or takes too long, or the socket has closed.
Leave(n) ==
  /\ pc[n] \in {"connecting", "closing"}
  /\ pc' = [pc EXCEPT ![n] = "done"]
  /\ due' = Released([due EXCEPT ![n] = Never])
  /\ UNCHANGED <<bucketVars, door, began>>

-----------------------------------------------------------------------------

Overdue(n) == due[n] # Never /\ now >= due[n] + MaxLate

\* Time passes while somebody has a time to wait for, and nobody is kept longer
\* than the event loop may be late.
Tick ==
  /\ \E n \in Coroutines : due[n] # Never
  /\ \A n \in Coroutines : ~ Overdue(n)
  /\ now' = now + 1
  /\ UNCHANGED <<tokens, last, line, granted, naps, door, pc, due, began>>

Scan(n) ==
  Queue(n) \/ Pace(n) \/ Enter(n) \/ Connect(n) \/ ReadBanner(n) \/ Leave(n)

Next == Tick \/ \E n \in Coroutines : Scan(n)

Spec == Init /\ [][Next]_vars

\* The event loop goes on: a timer that is due is served, and until it is time passes.
FairSpec == Spec /\ WF_vars(Next)

-----------------------------------------------------------------------------

Among(n, q) == \E i \in 1 .. Len(q) : q[i] = n

TypeOK ==
  /\ now \in Nat /\ last \in 0 .. now /\ tokens \in 0 .. Capacity
  /\ line \in Seq(Coroutines) /\ door \in Seq(Coroutines)
  /\ pc \in [Coroutines -> {"new", "queued", "napping", "waiting", "connecting", "reading", "closing", "done"}]
  /\ due \in [Coroutines -> Nat \cup {Never}]
  /\ granted \in [Coroutines -> Nat \cup {Never}] /\ began \in [Coroutines -> Nat \cup {Never}]
  /\ naps \in [Coroutines -> Nat]
  /\ \A n \in Coroutines : (pc[n] \in {"queued", "napping"}) <=> Among(n, line)
  /\ \A n \in Coroutines : (pc[n] = "waiting") <=> Among(n, door)

\* In no stretch of time are more tokens given than the bucket holds and the
\* rate brings in meanwhile, however late the sleepers wake and however long
\* nobody asks (ratelimit.py:27-42).
GrantsPaced ==
  \A m, n \in Coroutines :
    m <= n /\ granted[n] # Never =>
      Token * (n - m + 1) <= Capacity + granted[n] - granted[m]

\* "Pacing is strict and ordered" (ratelimit.py:39-40): tokens and then permits
\* go to the coroutines in the order in which they came, whoever sleeps, waits
\* or comes anew at the moment of a release.
FirstComeFirstServed ==
  \A m, n \in Coroutines : m < n =>
    /\ granted[n] # Never => granted[m] # Never /\ granted[m] <= granted[n]
    /\ began[n] # Never => began[m] # Never /\ began[m] <= began[n]

\* "Sleep just long enough to accrue the deficit" (ratelimit.py:39): whoever has
\* slept for a token gets it when he wakes.
OneNapIsEnough == \A n \in Coroutines : naps[n] <= 1

\* The semaphore bounds the sockets, and counts those it has promised to
\* coroutines that it has woken and that have not run yet (scanner.py:83).
ConnectionsBounded ==
  Cardinality(Connected \cup {n \in Coroutines : Called(n)}) <= Concurrency

\* Every port is scanned: no wake-up of the lock or the semaphore gets lost.
AllScanned == <>(\A n \in Coroutines : pc[n] = "done")
=============================================================================
