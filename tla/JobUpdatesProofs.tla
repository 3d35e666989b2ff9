-------------------------- MODULE JobUpdatesProofs --------------------------
(***************************************************************************)
(* Proofs about JobUpdates for any engagements, jobs, sockets and bounds.  *)
(***************************************************************************)
EXTENDS JobUpdates, SequenceTheorems, TLAPS

\* Lists, snapshots and messages hold some of the jobs with their numbers.
Tables == UNION {[D -> Nat] : D \in SUBSET Jobs}
Messages == [kind: {"open", "rows"}, rows: Tables]
Steps == {"idle", "committed", "refreshed", "sending"}
Publications == [at: Steps, seen: Nat, to: SUBSET Sockets]

\* The variables keep their types.
Shapes ==
  /\ version \in [Jobs -> Nat] /\ jobs \in [Jobs -> Nat]
  /\ publication \in [Jobs -> [Writers -> Publications]]
  /\ generation \in Sockets /\ connections \subseteq Sockets
  /\ link \in [Sockets -> {"none", "open", "closing", "closed"}]
  /\ url \in [Sockets -> Engagements] /\ currentId \in Engagements
  /\ endpoint \in [Sockets -> {"none", "accepting", "registered", "read", "serving", "ended"}]
  /\ snapshot \in [Sockets -> Tables]
  /\ channel \in [Sockets -> Seq(Messages)]
  /\ answers \subseteq [of: Engagements, rows: Tables]
  /\ replies \subseteq Tables

\* No row is ahead of the database.
Fits(rows) == \A j \in DOMAIN rows : rows[j] <= version[j]

NothingAhead ==
  /\ Fits(jobs)
  /\ \A j \in Jobs, w \in Writers : publication[j][w].seen <= version[j]
  /\ \A g \in Sockets : Fits(snapshot[g])
  /\ \A g \in Sockets : \A i \in 1 .. Len(channel[g]) : Fits(channel[g][i].rows)
  /\ \A answer \in answers : Fits(answer.rows)
  /\ \A row \in replies : Fits(row)

\* The newest socket is that of the selected engagement, and while it is open its
\* endpoint serves it and the hub knows it from its registration on.
Live ==
  /\ url[generation] = currentId
  /\ link[generation] = "open" =>
       /\ endpoint[generation] \in {"accepting", "registered", "read", "serving"}
       /\ endpoint[generation] # "accepting" => generation \in connections

\* How the last commit of a job that the browser has not merged still gets to it
\* on its newest socket: with a snapshot to be read or to be sent, with a message
\* on its way, or with a writer that will publish it or is publishing it.
Shown(j, rows) == j \in DOMAIN rows /\ rows[j] = version[j]

OnItsWay(j) ==
  \E i \in 1 .. Len(channel[generation]) :
    channel[generation][i].kind = "rows" /\ Shown(j, channel[generation][i].rows)

ToBePublished(j, w) ==
  \/ publication[j][w].at = "committed"
  \/ publication[j][w].at = "refreshed" /\ publication[j][w].seen = version[j]
  \/ /\ publication[j][w].at = "sending" /\ publication[j][w].seen = version[j]
     /\ generation \in publication[j][w].to

Covered(j) ==
  \/ jobs[j] = version[j]
  \/ endpoint[generation] \in {"accepting", "registered"}
  \/ endpoint[generation] = "read" /\ Shown(j, snapshot[generation])
  \/ OnItsWay(j)
  \/ \E w \in Writers : ToBePublished(j, w)

NoneMissed ==
  link[generation] = "open" => \A j \in Jobs : Of[j] = currentId => Covered(j)

IInv == Shapes /\ NothingAhead /\ Live /\ NoneMissed

-----------------------------------------------------------------------------
(* Lists and messages.                                                     *)

LEMMA TableFacts ==
  /\ \A r \in Tables : DOMAIN r \subseteq Jobs /\ \A j \in DOMAIN r : r[j] \in Nat
  /\ \A D \in SUBSET Jobs : [D -> Nat] \subseteq Tables
BY DEF Tables

\* What the server reads and sends is made of numbers of the database.
LEMMA RowsFit ==
  ASSUME Shapes
  PROVE  /\ NoRows \in Tables /\ Fits(NoRows)
         /\ \A e : Rows(e) \in Tables /\ Fits(Rows(e))
         /\ \A j \in Jobs, n \in Nat : Row(j, n) \in Tables /\ (n <= version[j] => Fits(Row(j, n)))
<1>1. NoRows \in [{} -> Nat] /\ Fits(NoRows)
  BY DEF NoRows, Fits
<1>2. ASSUME NEW e PROVE Rows(e) \in [{i \in Jobs : Of[i] = e /\ version[i] > 0} -> Nat] /\ Fits(Rows(e))
  BY DEF Rows, Fits, Shapes
<1>3. ASSUME NEW j \in Jobs, NEW n \in Nat
      PROVE  Row(j, n) \in [{j} -> Nat] /\ (n <= version[j] => Fits(Row(j, n)))
  BY DEF Row, Fits
<1>4. ASSUME NEW D \in SUBSET Jobs, NEW r \in [D -> Nat] PROVE r \in Tables
  BY <1>4, TableFacts
<1>5. NoRows \in Tables
  BY <1>1, <1>4
<1>6. ASSUME NEW e PROVE Rows(e) \in Tables
  BY <1>2, <1>4
<1>7. ASSUME NEW j \in Jobs, NEW n \in Nat PROVE Row(j, n) \in Tables
  <2>1. {j} \in SUBSET Jobs /\ Row(j, n) \in [{j} -> Nat]
    BY <1>3
  <2> QED
    BY <1>4, <2>1
<1> QED
  BY <1>1, <1>2, <1>3, <1>5, <1>6, <1>7

\* A merged list is nowhere older than the one before, nor newer than the
\* database, and a last commit that comes in or was shown is shown.
LEMMA MergeFacts ==
  ASSUME Shapes, Fits(jobs), NEW r \in Tables, Fits(r)
  PROVE  /\ Merged(r) \in [Jobs -> Nat] /\ Fits(Merged(r))
         /\ \A j \in Jobs : /\ Merged(r)[j] >= jobs[j]
                            /\ jobs[j] = version[j] \/ Shown(j, r) => Merged(r)[j] = version[j]
<1>1. /\ jobs \in [Jobs -> Nat] /\ version \in [Jobs -> Nat]
      /\ \A j \in DOMAIN r : r[j] \in Nat /\ r[j] <= version[j]
      /\ \A j \in Jobs : jobs[j] <= version[j]
  BY TableFacts DEF Shapes, Fits
<1>2. ASSUME NEW j \in Jobs
      PROVE  /\ Merged(r)[j] \in Nat /\ Merged(r)[j] >= jobs[j] /\ Merged(r)[j] <= version[j]
             /\ jobs[j] = version[j] \/ Shown(j, r) => Merged(r)[j] = version[j]
  BY <1>1 DEF Merged, Newer, Shown
<1>3. Merged(r) \in [Jobs -> Nat]
  BY <1>2 DEF Merged
<1> QED
  BY <1>2, <1>3 DEF Fits

\* A message that is put behind the others, and the one that is taken.
LEMMA AppendFacts ==
  ASSUME NEW q \in Seq(Messages), NEW m \in Messages
  PROVE  /\ Append(q, m) \in Seq(Messages) /\ Len(q) \in Nat /\ Len(Append(q, m)) = Len(q) + 1
         /\ Append(q, m)[Len(q) + 1] = m
         /\ \A i \in 1 .. Len(q) : i \in 1 .. Len(Append(q, m)) /\ Append(q, m)[i] = q[i]
         /\ \A i \in 1 .. Len(Append(q, m)) : i = Len(q) + 1 \/ i \in 1 .. Len(q)
<1>1. /\ Append(q, m) \in Seq(Messages) /\ Len(q) \in Nat /\ Len(Append(q, m)) = Len(q) + 1
      /\ Append(q, m)[Len(q) + 1] = m
      /\ \A i \in 1 .. Len(q) : Append(q, m)[i] = q[i]
  BY AppendProperties, LenProperties
<1> QED
  BY <1>1

LEMMA TailFacts ==
  ASSUME NEW q \in Seq(Messages), q # <<>>
  PROVE  /\ Tail(q) \in Seq(Messages) /\ Len(q) \in Nat \ {0} /\ Head(q) = q[1] /\ Head(q) \in Messages
         /\ \A i \in 1 .. Len(Tail(q)) : i + 1 \in 1 .. Len(q) /\ Tail(q)[i] = q[i + 1]
         /\ \A i \in 1 .. Len(q) : i = 1 \/ (i - 1 \in 1 .. Len(Tail(q)) /\ Tail(q)[i - 1] = q[i])
<1>1. /\ Tail(q) \in Seq(Messages) /\ Len(q) \in Nat \ {0} /\ Head(q) = q[1] /\ Head(q) \in Messages
      /\ Len(Tail(q)) = Len(q) - 1
      /\ \A i \in 1 .. Len(Tail(q)) : Tail(q)[i] = q[i + 1]
  BY EmptySeq, HeadTailProperties
<1>2. \A i \in 1 .. Len(q) : i = 1 \/ (i - 1 \in 1 .. Len(Tail(q)) /\ (i - 1) + 1 = i)
  BY <1>1
<1> QED
  BY <1>1, <1>2

\* A page that is opened shows nothing and has nothing yet.
LEMMA InitIInv == Init => IInv
<1> SUFFICES ASSUME Init PROVE IInv
  OBVIOUS
<1> USE DEF Init, EmptyList
<1>1. 1 \in Sockets
  BY UpdatesAssumption DEF Sockets
<1>2. Idle \in Publications
  BY DEF Idle, Steps, Publications
<1>3. Shapes
  <2>1. NoRows \in Tables
    <3>1. NoRows \in [{} -> Nat]
      BY DEF NoRows
    <3> QED
      BY <3>1, TableFacts
  <2>2. <<>> \in Seq(Messages)
    BY EmptySeq
  <2>3. publication \in [Jobs -> [Writers -> Publications]]
    BY <1>2
  <2> QED
    BY <1>1, <2>1, <2>2, <2>3, UpdatesAssumption DEF Shapes
<1>4. NothingAhead
  <2>1. Fits(NoRows) /\ Len(<<>>) = 0
    BY EmptySeq DEF NoRows, Fits
  <2>2. \A j \in Jobs, w \in Writers : publication[j][w].seen = 0 /\ version[j] = 0
    BY DEF Idle
  <2>3. \A g \in Sockets : Len(channel[g]) = 0
    BY <2>1
  <2> QED
    BY <2>1, <2>2, <2>3 DEF NothingAhead, Fits
<1>5. Live /\ NoneMissed
  BY <1>1 DEF Live, NoneMissed, Covered
<1> QED
  BY <1>3, <1>4, <1>5 DEF IInv

-----------------------------------------------------------------------------
(* The steps.  Most leave the database as it is: what fits it fits it still. *)

LEMMA FitsStill == version' = version => \A r : Fits(r) => \A j \in DOMAIN r : r[j] <= version'[j]
BY DEF Fits

\* A commit makes every row older than it was, and is to be published.
LEMMA CommitIInv ==
  ASSUME IInv, NEW j \in Jobs, NEW w \in Writers, Commit(j, w)
  PROVE  IInv'
<1>0. /\ Shapes /\ NothingAhead /\ Live /\ NoneMissed
      /\ publication \in [Jobs -> [Writers -> Publications]]
  BY DEF IInv, Shapes
<1> USE <1>0
<1> DEFINE p == publication[j][w]
           q == [p EXCEPT !.at = "committed"]
<1>1. /\ version' = [version EXCEPT ![j] = @ + 1]
      /\ publication' = [publication EXCEPT ![j][w] = q]
      /\ UNCHANGED <<connections, endpoint, snapshot, link, url, channel, currentId, generation,
                     retry, asks, answers, replies, jobs>>
  BY DEF Commit, socketVars, endpointVars, clientVars
<1>2. /\ version' \in [Jobs -> Nat] /\ \A i \in Jobs : version'[i] >= version[i]
      /\ \A i \in Jobs \ {j} : version'[i] = version[i]
  BY <1>1 DEF Shapes
<1>3. /\ publication' \in [Jobs -> [Writers -> Publications]]
      /\ publication'[j][w].at = "committed"
      /\ \A i \in Jobs, v \in Writers : publication'[i][v].seen = publication[i][v].seen
      /\ \A i \in Jobs \ {j}, v \in Writers : publication'[i][v] = publication[i][v]
  <2>1. p \in Publications
    BY DEF Shapes
  <2> HIDE DEF p
  <2>2. q \in Publications /\ q.at = "committed" /\ q.seen = p.seen
    BY <2>1 DEF Steps, Publications
  <2> HIDE DEF q
  <2>3. /\ publication' \in [Jobs -> [Writers -> Publications]] /\ publication'[j][w] = q
        /\ \A i \in Jobs, v \in Writers : i # j \/ v # w => publication'[i][v] = publication[i][v]
    BY <1>1, <2>2
  <2> QED
    BY <2>2, <2>3 DEF p
<1>4. Shapes'
  BY <1>1, <1>2, <1>3 DEF Shapes
<1>5. ASSUME NEW r \in Tables, Fits(r) PROVE \A i \in DOMAIN r : r[i] <= version'[i]
  BY <1>2, <1>5, TableFacts DEF Fits, Shapes
<1>6. NothingAhead'
  <2>1. \A i \in DOMAIN jobs : jobs[i] <= version'[i]
    BY <1>2 DEF Shapes, NothingAhead, Fits
  <2>2. \A i \in Jobs, v \in Writers : publication'[i][v].seen <= version'[i]
    <3>1. \A i \in Jobs, v \in Writers :
            publication[i][v].seen \in Nat /\ publication[i][v].seen <= version[i]
      BY DEF Shapes, Publications, NothingAhead
    <3>2. \A i \in Jobs : version[i] \in Nat /\ version'[i] \in Nat
      BY <1>2 DEF Shapes
    <3> QED
      BY <1>2, <1>3, <3>1, <3>2
  <2>3. \A g \in Sockets : \A i \in 1 .. Len(channel[g]) :
          \A k \in DOMAIN channel[g][i].rows : channel[g][i].rows[k] <= version'[k]
    <3>1. ASSUME NEW g \in Sockets, NEW i \in 1 .. Len(channel[g]) PROVE channel[g][i].rows \in Tables
      <4>1. channel[g] \in Seq(Messages)
        BY DEF Shapes
      <4>2. channel[g][i] \in Messages
        BY <4>1, ElementOfSeq
      <4> QED
        BY <4>2 DEF Messages
    <3> QED
      BY <1>5, <3>1 DEF NothingAhead
  <2>4. \A g \in Sockets : \A k \in DOMAIN snapshot[g] : snapshot[g][k] <= version'[k]
    BY <1>5 DEF Shapes, NothingAhead
  <2>5. /\ \A a \in answers : \A k \in DOMAIN a.rows : a.rows[k] <= version'[k]
        /\ \A r \in replies : \A k \in DOMAIN r : r[k] <= version'[k]
    BY <1>5 DEF Shapes, NothingAhead
  <2> QED
    BY <1>1, <2>1, <2>2, <2>3, <2>4, <2>5 DEF NothingAhead, Fits
<1>7. Live'
  BY <1>1 DEF Live
<1>8. NoneMissed'
  <2> SUFFICES ASSUME link[generation] = "open", NEW i \in Jobs, Of[i] = currentId PROVE Covered(i)'
    BY <1>1 DEF NoneMissed
  <2>1. CASE i = j
    BY <1>3, <2>1 DEF Covered, ToBePublished
  <2>2. CASE i # j
    <3>1. Covered(i)
      BY DEF NoneMissed
    <3>2. /\ OnItsWay(i) => OnItsWay(i)'
          /\ \A v \in Writers : ToBePublished(i, v) => ToBePublished(i, v)'
          /\ Shown(i, snapshot[generation]) => Shown(i, snapshot[generation])'
      BY <1>1, <1>2, <1>3, <2>2 DEF OnItsWay, Shown, ToBePublished
    <3> QED
      BY <1>1, <1>2, <2>2, <3>1, <3>2 DEF Covered
  <2> QED
    BY <2>1, <2>2
<1> QED
  BY <1>4, <1>6, <1>7, <1>8 DEF IInv

\* A publication reads the row it sends, and the sockets it is sent to, which are
\* all that are registered.
LEMMA PublicationIInv ==
  ASSUME IInv, NEW j \in Jobs, NEW w \in Writers, Refresh(j, w) \/ Publish(j, w) \/ Finish(j, w)
  PROVE  IInv'
<1>0. /\ Shapes /\ NothingAhead /\ Live /\ NoneMissed
      /\ publication \in [Jobs -> [Writers -> Publications]]
  BY DEF IInv, Shapes
<1> USE <1>0
<1> DEFINE p == publication[j][w]
<1>1. /\ version' = version
      /\ UNCHANGED <<connections, endpoint, snapshot, link, url, channel, currentId, generation,
                     retry, asks, answers, jobs>>
      /\ replies' \in {replies, replies \cup {Row(j, p.seen)}}
  BY DEF Refresh, Publish, Finish, socketVars, endpointVars, clientVars
<1>2. /\ p \in Publications /\ p.seen \in Nat /\ version \in [Jobs -> Nat] /\ version[j] \in Nat
  BY DEF Shapes, Publications
<1>3. PICK q :
        /\ publication' = [publication EXCEPT ![j][w] = q]
        /\ \/ p.at = "committed" /\ q = [p EXCEPT !.at = "refreshed", !.seen = version[j]]
           \/ p.at = "refreshed" /\ q = [p EXCEPT !.at = "sending", !.to = Listening(j)]
           \/ p.at = "sending" /\ p.to = {} /\ q = Idle
  BY DEF Refresh, Publish, Finish
<1>4. Listening(j) \in SUBSET Sockets
  BY DEF Listening, Shapes
<1>5. /\ q \in Publications /\ q.seen <= version[j]
      /\ \/ p.at = "committed" /\ q.at = "refreshed" /\ q.seen = version[j]
         \/ p.at = "refreshed" /\ q.at = "sending" /\ q.seen = p.seen /\ q.to = Listening(j)
         \/ p.at = "sending" /\ p.to = {}
  <2>1. p.seen <= version[j] /\ version[j] <= version[j] /\ 0 <= version[j]
    BY <1>2 DEF NothingAhead
  <2> HIDE DEF p
  <2>2. CASE p.at = "committed" /\ q = [p EXCEPT !.at = "refreshed", !.seen = version[j]]
    <3>1. q \in Publications /\ q.at = "refreshed" /\ q.seen = version[j]
      BY <1>2, <2>2 DEF Steps, Publications
    <3> QED
      BY <2>1, <2>2, <3>1
  <2>3. CASE p.at = "refreshed" /\ q = [p EXCEPT !.at = "sending", !.to = Listening(j)]
    <3>1. q \in Publications /\ q.at = "sending" /\ q.seen = p.seen /\ q.to = Listening(j)
      BY <1>2, <1>4, <2>3 DEF Steps, Publications
    <3> QED
      BY <2>1, <2>3, <3>1
  <2>4. CASE p.at = "sending" /\ p.to = {} /\ q = Idle
    <3>1. q \in Publications /\ q.seen = 0
      BY <2>4 DEF Steps, Idle, Publications
    <3> QED
      BY <2>1, <2>4, <3>1
  <2> QED
    BY <1>3, <2>2, <2>3, <2>4
<1>6. /\ publication' \in [Jobs -> [Writers -> Publications]]
      /\ publication'[j][w] = q
      /\ \A i \in Jobs, v \in Writers : i # j \/ v # w => publication'[i][v] = publication[i][v]
  BY <1>3, <1>5
<1>7. Row(j, p.seen) \in Tables /\ Fits(Row(j, p.seen))
  BY <1>2, RowsFit DEF NothingAhead
<1>8. Shapes'
  BY <1>1, <1>6, <1>7 DEF Shapes
<1>9. NothingAhead'
  <2>1. \A i \in Jobs, v \in Writers : publication'[i][v].seen <= version'[i]
    BY <1>1, <1>5, <1>6 DEF NothingAhead
  <2>2. \A r \in replies' : Fits(r)'
    BY <1>1, <1>7 DEF NothingAhead, Fits
  <2> QED
    BY <1>1, <2>1, <2>2 DEF NothingAhead, Fits
<1>10. Live'
  BY <1>1 DEF Live
<1>11. NoneMissed'
  <2> SUFFICES ASSUME link[generation] = "open", NEW i \in Jobs, Of[i] = currentId,
                      ~ jobs[i] = version[i], endpoint[generation] \notin {"accepting", "registered"}
               PROVE  Covered(i)'
    BY <1>1 DEF NoneMissed, Covered
  <2>1. Covered(i)
    BY DEF NoneMissed
  <2>2. /\ OnItsWay(i) => OnItsWay(i)'
        /\ Shown(i, snapshot[generation]) => Shown(i, snapshot[generation])'
    BY <1>1 DEF OnItsWay, Shown
  <2>3. ASSUME NEW v \in Writers, ToBePublished(i, v) PROVE ToBePublished(i, v)'
    <3>1. CASE i # j \/ v # w
      BY <1>1, <1>6, <2>3, <3>1 DEF ToBePublished
    <3>2. CASE i = j /\ v = w
      <4>1. CASE p.at = "committed"
        BY <1>1, <1>5, <1>6, <3>2, <4>1 DEF ToBePublished
      <4>2. CASE p.at = "refreshed"
        <5>1. generation \in Listening(j)
          BY <3>2 DEF Live, Listening, Shapes
        <5> QED
          BY <1>1, <1>5, <1>6, <2>3, <3>2, <4>2, <5>1 DEF ToBePublished
      <4>3. CASE p.at = "sending"
        BY <1>5, <2>3, <3>2, <4>3 DEF ToBePublished
      <4> QED
        BY <1>5, <4>1, <4>2, <4>3
    <3> QED
      BY <3>1, <3>2
  <2> QED
    BY <1>1, <2>1, <2>2, <2>3 DEF Covered
<1> QED
  BY <1>8, <1>9, <1>10, <1>11 DEF IInv

\* A row is sent to one socket: if it is the newest the row is on its way to the
\* browser.
LEMMA SendIInv ==
  ASSUME IInv, NEW j \in Jobs, NEW w \in Writers, NEW g \in Sockets, Send(j, w, g)
  PROVE  IInv'
<1>0. /\ Shapes /\ NothingAhead /\ Live /\ NoneMissed
      /\ publication \in [Jobs -> [Writers -> Publications]]
      /\ channel \in [Sockets -> Seq(Messages)] /\ channel[g] \in Seq(Messages)
  BY DEF IInv, Shapes
<1> USE <1>0
<1> DEFINE p == publication[j][w]
           q == [p EXCEPT !.to = @ \ {g}]
           m == RowsMessage(Row(j, p.seen))
<1>1. /\ p.at = "sending"
      /\ UNCHANGED <<version, endpoint, snapshot, link, url, currentId, generation, retry, asks,
                     answers, replies, jobs>>
      /\ publication' = [publication EXCEPT ![j][w] = q]
      /\ \/ /\ link[g] = "open" /\ connections' = connections
            /\ channel' = [channel EXCEPT ![g] = Append(@, m)]
         \/ /\ link[g] # "open" /\ channel' = channel
            /\ connections' \in {connections, connections \ {g}}
  <2>1. /\ p.at = "sending" /\ publication' = [publication EXCEPT ![j][w] = q]
        /\ UNCHANGED <<version, endpoint, snapshot, link, url, clientVars>>
    BY DEF Send
  <2>2. \/ /\ link[g] = "open" /\ connections' = connections
           /\ channel' = [channel EXCEPT ![g] = Append(@, m)]
        \/ /\ link[g] # "open" /\ channel' = channel
           /\ connections' \in {connections, connections \ {g}}
    BY DEF Send
  <2> QED
    BY <2>1, <2>2 DEF clientVars
<1>2. /\ p \in Publications /\ p.seen \in Nat /\ p.seen <= version[j]
      /\ q \in Publications /\ q.at = p.at /\ q.seen = p.seen /\ q.to = p.to \ {g}
  <2>1. p \in Publications /\ p.seen <= version[j]
    BY DEF NothingAhead
  <2> HIDE DEF p
  <2> QED
    BY <2>1 DEF Publications
<1> HIDE DEF q
<1>3. /\ publication' \in [Jobs -> [Writers -> Publications]]
      /\ publication'[j][w] = q
      /\ \A i \in Jobs, v \in Writers : i # j \/ v # w => publication'[i][v] = publication[i][v]
  BY <1>1, <1>2
<1>4. m \in Messages /\ Fits(m.rows) /\ m.kind = "rows" /\ m.rows = Row(j, p.seen)
  BY <1>2, RowsFit DEF Messages, RowsMessage
<1> HIDE DEF p, m
<1>5. /\ channel' \in [Sockets -> Seq(Messages)]
      /\ \A h \in Sockets : channel'[h] = channel[h] \/ (h = g /\ channel'[h] = Append(channel[h], m))
  <2>1. Append(channel[g], m) \in Seq(Messages)
    BY <1>4, AppendFacts
  <2> QED
    BY <1>1, <2>1
<1>6. Shapes'
  BY <1>1, <1>3, <1>5 DEF Shapes
<1>7. NothingAhead'
  <2>1. \A i \in Jobs, v \in Writers : publication'[i][v].seen <= version[i]
    BY <1>2, <1>3 DEF NothingAhead, p
  <2>2. ASSUME NEW h \in Sockets, NEW i \in 1 .. Len(channel'[h]) PROVE Fits(channel'[h][i].rows)
    <3>1. CASE channel'[h] = channel[h]
      BY <2>2, <3>1 DEF NothingAhead
    <3>2. CASE h = g /\ channel'[h] = Append(channel[h], m)
      <4>1. channel'[h][i] = m \/ (i \in 1 .. Len(channel[h]) /\ channel'[h][i] = channel[h][i])
        BY <1>4, <2>2, <3>2, AppendFacts
      <4> QED
        BY <1>4, <4>1 DEF NothingAhead
    <3> QED
      BY <1>5, <3>1, <3>2
  <2> QED
    BY <1>1, <2>1, <2>2 DEF NothingAhead, Fits
<1>8. Live'
  BY <1>1 DEF Live
<1>9. NoneMissed'
  <2> SUFFICES ASSUME link[generation] = "open", NEW i \in Jobs, Of[i] = currentId
               PROVE  Covered(i)'
    BY <1>1 DEF NoneMissed
  <2>1. Covered(i) /\ generation \in Sockets
    BY DEF NoneMissed, Shapes
  <2>2. ASSUME OnItsWay(i) PROVE OnItsWay(i)'
    <3>1. PICK k \in 1 .. Len(channel[generation]) :
            channel[generation][k].kind = "rows" /\ Shown(i, channel[generation][k].rows)
      BY <2>2 DEF OnItsWay
    <3>2. k \in 1 .. Len(channel'[generation]) /\ channel'[generation][k] = channel[generation][k]
      BY <1>4, <1>5, <2>1, AppendFacts
    <3> QED
      BY <1>1, <3>1, <3>2 DEF OnItsWay, Shown
  <2>3. ASSUME NEW v \in Writers, ToBePublished(i, v) PROVE ToBePublished(i, v)' \/ OnItsWay(i)'
    <3>1. CASE i # j \/ v # w
      BY <1>1, <1>3, <2>3, <3>1 DEF ToBePublished
    <3>2. CASE i = j /\ v = w /\ g # generation
      BY <1>1, <1>2, <1>3, <2>3, <3>2 DEF ToBePublished, p
    <3>3. CASE i = j /\ v = w /\ g = generation
      <4>1. channel'[g] = Append(channel[g], m) /\ p.seen = version[i]
        BY <1>1, <2>3, <3>3 DEF ToBePublished, p
      <4>2. Shown(i, m.rows)
        BY <1>4, <3>3, <4>1 DEF Shown, Row
      <4>3. Len(channel[g]) + 1 \in 1 .. Len(channel'[g]) /\ channel'[g][Len(channel[g]) + 1] = m
        BY <1>4, <4>1, AppendFacts
      <4> QED
        BY <1>1, <1>4, <3>3, <4>2, <4>3 DEF OnItsWay, Shown
    <3> QED
      BY <3>1, <3>2, <3>3
  <2> QED
    BY <1>1, <2>1, <2>2, <2>3 DEF Covered, Shown
<1> QED
  BY <1>6, <1>7, <1>8, <1>9 DEF IInv

\* The endpoint registers its socket, reads the rows and sends them, which the
\* browser then has on their way, or ends when the socket is closed.
LEMMA EndpointIInv ==
  ASSUME IInv, NEW g \in Sockets,
         Register(g) \/ ReadSnapshot(g) \/ SendSnapshot(g) \/ EndpointEnds(g)
  PROVE  IInv'
<1>0. /\ Shapes /\ NothingAhead /\ Live /\ NoneMissed
      /\ channel \in [Sockets -> Seq(Messages)] /\ channel[g] \in Seq(Messages)
      /\ snapshot \in [Sockets -> Tables] /\ snapshot[g] \in Tables /\ Fits(snapshot[g])
      /\ generation \in Sockets
  BY DEF IInv, Shapes, NothingAhead
<1> USE <1>0
<1> DEFINE r == snapshot'[g]
           a == endpoint'[g]
           m == IF endpoint[g] = "accepting" THEN OpenMessage ELSE RowsMessage(snapshot[g])
<1>1. /\ UNCHANGED <<version, publication, link, url, currentId, generation, retry, asks, answers,
                     replies, jobs>>
      /\ a \in {"registered", "read", "serving", "ended"} /\ endpoint' = [endpoint EXCEPT ![g] = a]
      /\ r \in {snapshot[g], Rows(url[g]), NoRows} /\ snapshot' = [snapshot EXCEPT ![g] = r]
      /\ channel' = channel \/ channel' = [channel EXCEPT ![g] = Append(@, m)]
      /\ \/ /\ endpoint[g] = "accepting" /\ a = "registered" /\ link[g] = "open"
            /\ connections' = connections \cup {g}
         \/ /\ endpoint[g] = "registered" /\ a = "read" /\ connections' = connections
            /\ r = Rows(url[g]) /\ channel' = channel
         \/ /\ endpoint[g] = "read" /\ a = "serving" /\ connections' = connections
            /\ channel' = [channel EXCEPT ![g] = Append(@, m)]
         \/ /\ a = "ended" /\ link[g] # "open" /\ connections' = connections \ {g}
  <2>0. endpoint \in [Sockets -> {"none", "accepting", "registered", "read", "serving", "ended"}]
    BY DEF Shapes
  <2> USE <2>0
  <2>1. CASE Register(g)
    <3>1. snapshot' = [snapshot EXCEPT ![g] = snapshot[g]]
      BY <2>1 DEF Register
    <3> QED
      BY <2>1, <3>1 DEF Register, serverVars, clientVars
  <2>2. CASE ReadSnapshot(g)
    BY <2>2 DEF ReadSnapshot, serverVars, clientVars
  <2>3. CASE SendSnapshot(g)
    BY <2>3 DEF SendSnapshot, serverVars, clientVars
  <2>4. CASE EndpointEnds(g)
    BY <2>4 DEF EndpointEnds, serverVars, clientVars
  <2> QED
    BY <2>1, <2>2, <2>3, <2>4
<1> HIDE DEF r, a
<1>2. r \in Tables /\ Fits(r) /\ m \in Messages /\ Fits(m.rows)
  <2>1. /\ NoRows \in Tables /\ Fits(NoRows)
        /\ Rows(url[g]) \in Tables /\ Fits(Rows(url[g]))
    BY RowsFit
  <2> QED
    BY <1>1, <2>1 DEF Messages, OpenMessage, RowsMessage
<1> HIDE DEF m
<1>3. /\ channel' \in [Sockets -> Seq(Messages)]
      /\ \A h \in Sockets : channel'[h] = channel[h] \/ (h = g /\ channel'[h] = Append(channel[h], m))
  <2>1. Append(channel[g], m) \in Seq(Messages)
    BY <1>2, AppendFacts
  <2> QED
    BY <1>1, <2>1
<1>4. /\ snapshot' \in [Sockets -> Tables] /\ snapshot'[g] = r
      /\ \A h \in Sockets : Fits(snapshot'[h])
      /\ \A h \in Sockets \ {g} : snapshot'[h] = snapshot[h]
  BY <1>1, <1>2 DEF NothingAhead
<1>5. /\ endpoint' \in [Sockets -> {"none", "accepting", "registered", "read", "serving", "ended"}]
      /\ endpoint'[g] = a
      /\ \A h \in Sockets \ {g} : endpoint'[h] = endpoint[h]
  BY <1>1 DEF Shapes
<1>6. Shapes'
  BY <1>1, <1>3, <1>4, <1>5 DEF Shapes
<1>7. NothingAhead'
  <2>1. ASSUME NEW h \in Sockets, NEW i \in 1 .. Len(channel'[h]) PROVE Fits(channel'[h][i].rows)
    <3>1. CASE channel'[h] = channel[h]
      BY <2>1, <3>1 DEF NothingAhead
    <3>2. CASE h = g /\ channel'[h] = Append(channel[h], m)
      <4>1. channel'[h][i] = m \/ (i \in 1 .. Len(channel[h]) /\ channel'[h][i] = channel[h][i])
        BY <1>2, <2>1, <3>2, AppendFacts
      <4> QED
        BY <1>2, <4>1 DEF NothingAhead
    <3> QED
      BY <1>3, <3>1, <3>2
  <2> QED
    BY <1>1, <1>4, <2>1 DEF NothingAhead, Fits
<1>8. Live'
  BY <1>1, <1>5 DEF Live
<1>9. NoneMissed'
  <2> SUFFICES ASSUME link[generation] = "open", NEW i \in Jobs, Of[i] = currentId
               PROVE  Covered(i)'
    BY <1>1 DEF NoneMissed
  <2>1. Covered(i)
    BY DEF NoneMissed
  <2>2. ASSUME OnItsWay(i) PROVE OnItsWay(i)'
    <3>1. PICK k \in 1 .. Len(channel[generation]) :
            channel[generation][k].kind = "rows" /\ Shown(i, channel[generation][k].rows)
      BY <2>2 DEF OnItsWay
    <3>2. k \in 1 .. Len(channel'[generation]) /\ channel'[generation][k] = channel[generation][k]
      BY <1>2, <1>3, AppendFacts
    <3> QED
      BY <1>1, <3>1, <3>2 DEF OnItsWay, Shown
  <2>3. \A v \in Writers : ToBePublished(i, v) => ToBePublished(i, v)'
    BY <1>1 DEF ToBePublished
  <2>4. CASE g # generation
    BY <1>1, <1>4, <1>5, <2>1, <2>2, <2>3, <2>4 DEF Covered, Shown
  <2>5. CASE g = generation
    <3>1. CASE endpoint[g] = "accepting"
      BY <1>1, <1>5, <2>5, <3>1 DEF Covered
    <3>2. CASE endpoint[g] = "registered"
      <4>1. a = "read" /\ r = Rows(currentId)
        BY <1>1, <2>5, <3>2 DEF Live
      <4>2. version[i] > 0 => Shown(i, r)
        BY <4>1 DEF Rows, Shown
      <4>3. version[i] = 0 => jobs[i] = version[i]
        BY DEF NothingAhead, Fits, Shapes
      <4>4. version[i] \in Nat
        BY DEF Shapes
      <4> QED
        BY <1>1, <1>4, <1>5, <2>5, <4>1, <4>2, <4>3, <4>4 DEF Covered, Shown
    <3>3. CASE endpoint[g] = "read" /\ Shown(i, snapshot[g])
      <4>1. m = RowsMessage(snapshot[g]) /\ channel'[g] = Append(channel[g], m)
        BY <1>1, <2>5, <3>3 DEF m
      <4>2. Len(channel[g]) + 1 \in 1 .. Len(channel'[g]) /\ channel'[g][Len(channel[g]) + 1] = m
        BY <1>2, <4>1, AppendFacts
      <4>3. m.kind = "rows" /\ Shown(i, m.rows)
        BY <3>3, <4>1 DEF RowsMessage
      <4>4. OnItsWay(i)'
        BY <1>1, <2>5, <4>2, <4>3 DEF OnItsWay, Shown
      <4> QED
        BY <4>4 DEF Covered
    <3>4. CASE jobs[i] = version[i] \/ OnItsWay(i) \/ \E v \in Writers : ToBePublished(i, v)
      BY <1>1, <2>2, <2>3, <3>4 DEF Covered
    <3> QED
      BY <2>1, <2>5, <3>1, <3>2, <3>3, <3>4 DEF Covered
  <2> QED
    BY <2>4, <2>5
<1> QED
  BY <1>6, <1>7, <1>8, <1>9 DEF IInv

\* A new socket for the engagement that is selected now: its snapshot, still to be
\* read, covers every job.
LEMMA ConnectIInv ==
  ASSUME IInv, NEW e \in Engagements, Connect(e), currentId' = e,
         UNCHANGED <<version, publication, answers, replies>>,
         jobs' \in {jobs, EmptyList}
  PROVE  IInv'
<1>0. Shapes /\ NothingAhead
  BY DEF IInv
<1> USE <1>0
<1>1. /\ generation' \in Sockets /\ UNCHANGED <<connections, snapshot>>
      /\ link' = [g \in Sockets |->
           IF g = generation' THEN "open" ELSE IF link[g] = "open" THEN "closing" ELSE link[g]]
      /\ url' = [url EXCEPT ![generation'] = e]
      /\ channel' = [g \in Sockets |-> <<>>]
      /\ endpoint' = [endpoint EXCEPT ![generation'] = "accepting"]
  BY UpdatesAssumption DEF Connect, Sockets, Shapes
<1>2. <<>> \in Seq(Messages) /\ Len(<<>>) = 0
  BY EmptySeq
<1>3. jobs' \in [Jobs -> Nat] /\ Fits(jobs')
  BY DEF EmptyList, Shapes, NothingAhead, Fits
<1>4. link' \in [Sockets -> {"none", "open", "closing", "closed"}]
  BY <1>1 DEF Shapes
<1>5. Shapes'
  BY <1>1, <1>2, <1>3, <1>4 DEF Shapes
<1>6. NothingAhead'
  <2>1. \A g \in Sockets : Len(channel'[g]) = 0
    BY <1>1, <1>2
  <2> QED
    BY <1>1, <1>3, <2>1 DEF NothingAhead, Fits
<1>7. /\ url'[generation'] = e /\ endpoint'[generation'] = "accepting"
  BY <1>1 DEF Shapes
<1>8. Live' /\ NoneMissed'
  BY <1>7 DEF Live, NoneMissed, Covered
<1> QED
  BY <1>5, <1>6, <1>8 DEF IInv

\* The end of the newest socket leaves nothing to be missed.
LEMMA LostIInv ==
  ASSUME IInv, Drop \/ Restart
  PROVE  IInv'
<1>0. Shapes /\ NothingAhead /\ Live /\ generation \in Sockets
  BY DEF IInv, Shapes
<1> USE <1>0
<1>1. /\ UNCHANGED <<version, url, currentId, generation, asks, answers, replies, jobs>>
      /\ link' = [link EXCEPT ![generation] = "closed"]
      /\ channel' = [channel EXCEPT ![generation] = <<>>]
      /\ \/ UNCHANGED <<publication, connections, endpoint, snapshot>>
         \/ /\ connections' = {}
            /\ endpoint' = [g \in Sockets |-> IF endpoint[g] = "none" THEN "none" ELSE "ended"]
            /\ snapshot' = [g \in Sockets |-> NoRows]
            /\ publication' = [j \in Jobs |-> [w \in Writers |-> Idle]]
  BY DEF Drop, Restart, Lost, endpointVars
<1>2. <<>> \in Seq(Messages) /\ Len(<<>>) = 0
  BY EmptySeq
<1>3. NoRows \in Tables /\ Fits(NoRows) /\ Idle \in Publications /\ Idle.seen = 0
  BY RowsFit DEF Idle, Steps, Publications
<1>4. /\ publication' \in [Jobs -> [Writers -> Publications]]
      /\ snapshot' \in [Sockets -> Tables]
      /\ \A j \in Jobs, w \in Writers : publication'[j][w].seen <= version[j]
      /\ \A g \in Sockets : Fits(snapshot'[g])
  <2>1. CASE UNCHANGED <<publication, snapshot>>
    BY <2>1 DEF Shapes, NothingAhead
  <2>2. CASE /\ snapshot' = [g \in Sockets |-> NoRows]
             /\ publication' = [j \in Jobs |-> [w \in Writers |-> Idle]]
    <3>1. \A j \in Jobs : version[j] \in Nat
      BY DEF Shapes
    <3> QED
      BY <1>3, <2>2, <3>1
  <2> QED
    BY <1>1, <2>1, <2>2
<1>5. Shapes'
  BY <1>1, <1>2, <1>4 DEF Shapes
<1>6. NothingAhead'
  <2>1. \A g \in Sockets : channel'[g] = channel[g] \/ Len(channel'[g]) = 0
    BY <1>1, <1>2 DEF Shapes
  <2>2. \A g \in Sockets : \A i \in 1 .. Len(channel'[g]) : Fits(channel'[g][i].rows)
    BY <2>1 DEF NothingAhead
  <2> QED
    BY <1>1, <1>4, <2>2 DEF NothingAhead, Fits
<1>7. link'[generation] = "closed"
  BY <1>1 DEF Shapes
<1>8. Live' /\ NoneMissed'
  BY <1>1, <1>7 DEF Live, NoneMissed
<1> QED
  BY <1>5, <1>6, <1>8 DEF IInv

\* The close of another socket concerns nobody.
LEMMA ClosedIInv ==
  ASSUME IInv, NEW g \in Sockets, Closed(g)
  PROVE  IInv'
<1>0. Shapes /\ NothingAhead /\ Live /\ NoneMissed
  BY DEF IInv
<1> USE <1>0
<1>1. /\ link[g] = "closing" /\ link' = [link EXCEPT ![g] = "closed"]
      /\ UNCHANGED <<version, publication, connections, endpoint, snapshot, url, channel, currentId,
                     generation, asks, answers, replies, jobs>>
  BY DEF Closed, serverVars, endpointVars
<1>2. Shapes'
  BY <1>1 DEF Shapes
<1>3. NothingAhead'
  BY <1>1 DEF NothingAhead, Fits
<1>4. link'[generation] = "open" => link[generation] = "open"
  BY <1>1 DEF Shapes
<1>5. \A j \in Jobs : Covered(j) => Covered(j)'
  BY <1>1 DEF Covered, OnItsWay, ToBePublished, Shown
<1>6. Live' /\ NoneMissed'
  BY <1>1, <1>4, <1>5 DEF Live, NoneMissed
<1> QED
  BY <1>2, <1>3, <1>6 DEF IInv

\* What the browser merges is not lost, and takes nothing away.
LEMMA MergeIInv ==
  ASSUME IInv, NEW r \in Tables, Fits(r), jobs' \in {jobs, Merged(r)},
         UNCHANGED <<version, publication, connections, endpoint, snapshot, link, url, channel,
                     currentId, generation>>,
         answers' \subseteq answers, replies' \subseteq replies
  PROVE  IInv'
<1>0. Shapes /\ NothingAhead /\ Live /\ NoneMissed
  BY DEF IInv
<1> USE <1>0
<1>1. /\ jobs' \in [Jobs -> Nat] /\ Fits(jobs')
      /\ \A j \in Jobs : jobs[j] = version[j] => jobs'[j] = version[j]
  BY MergeFacts DEF Shapes, NothingAhead
<1>2. Shapes'
  BY <1>1 DEF Shapes
<1>3. NothingAhead'
  BY <1>1 DEF NothingAhead, Fits
<1>4. \A j \in Jobs : Covered(j) => Covered(j)'
  BY <1>1 DEF Covered, OnItsWay, ToBePublished, Shown
<1>5. Live' /\ NoneMissed'
  BY <1>4 DEF Live, NoneMissed
<1> QED
  BY <1>2, <1>3, <1>5 DEF IInv

\* The message that is taken is merged: if it was the one that covered a job, the
\* job is shown now.
LEMMA ReceiveIInv ==
  ASSUME IInv, NEW g \in Sockets, Receive(g)
  PROVE  IInv'
<1>0. /\ Shapes /\ NothingAhead /\ Live /\ NoneMissed
      /\ channel \in [Sockets -> Seq(Messages)] /\ channel[g] \in Seq(Messages)
  BY DEF IInv, Shapes
<1> USE <1>0
<1> DEFINE m == Head(channel[g])
<1>1. /\ g = generation /\ channel[g] # <<>> /\ channel' = [channel EXCEPT ![g] = Tail(@)]
      /\ m.kind = "open" => jobs' = jobs
      /\ m.kind # "open" => jobs' = Merged(m.rows)
      /\ UNCHANGED <<version, publication, connections, endpoint, snapshot, link, url, currentId,
                     generation, answers, replies>>
  BY DEF Receive, serverVars, endpointVars
<1>2. /\ Tail(channel[g]) \in Seq(Messages) /\ Len(channel[g]) \in Nat \ {0}
      /\ m = channel[g][1] /\ m \in Messages
      /\ \A i \in 1 .. Len(Tail(channel[g])) :
           i + 1 \in 1 .. Len(channel[g]) /\ Tail(channel[g])[i] = channel[g][i + 1]
      /\ \A i \in 1 .. Len(channel[g]) :
           i = 1 \/ (i - 1 \in 1 .. Len(Tail(channel[g])) /\ Tail(channel[g])[i - 1] = channel[g][i])
  BY <1>1, TailFacts
<1> HIDE DEF m
<1>3. m.rows \in Tables /\ Fits(m.rows)
  <2>1. 1 \in 1 .. Len(channel[g])
    BY <1>2
  <2> QED
    BY <1>2, <2>1 DEF Messages, NothingAhead
<1>4. /\ jobs' \in [Jobs -> Nat] /\ Fits(jobs')
      /\ \A j \in Jobs : jobs[j] = version[j] => jobs'[j] = version[j]
      /\ \A j \in Jobs : m.kind = "rows" /\ Shown(j, m.rows) => jobs'[j] = version[j]
  <2>1. jobs \in [Jobs -> Nat] /\ Fits(jobs)
    BY DEF Shapes, NothingAhead
  <2> QED
    BY <1>1, <1>3, <2>1, MergeFacts
<1>5. /\ channel' \in [Sockets -> Seq(Messages)] /\ channel'[g] = Tail(channel[g])
      /\ \A h \in Sockets \ {g} : channel'[h] = channel[h]
  BY <1>1, <1>2
<1>6. Shapes'
  BY <1>1, <1>4, <1>5 DEF Shapes
<1>7. NothingAhead'
  <2>1. ASSUME NEW h \in Sockets, NEW i \in 1 .. Len(channel'[h]) PROVE Fits(channel'[h][i].rows)
    <3>1. CASE h = g
      BY ZenonT(60), <1>2, <1>5, <2>1, <3>1 DEF NothingAhead
    <3>2. CASE h # g
      BY <1>5, <2>1, <3>2 DEF NothingAhead
    <3> QED
      BY <3>1, <3>2
  <2> QED
    BY <1>1, <1>4, <2>1 DEF NothingAhead, Fits
<1>8. Live'
  BY <1>1 DEF Live
<1>9. NoneMissed'
  <2> SUFFICES ASSUME link[generation] = "open", NEW i \in Jobs, Of[i] = currentId
               PROVE  Covered(i)'
    BY <1>1 DEF NoneMissed
  <2>1. Covered(i)
    BY DEF NoneMissed
  <2>2. ASSUME OnItsWay(i) PROVE jobs'[i] = version[i] \/ OnItsWay(i)'
    <3>1. PICK k \in 1 .. Len(channel[g]) :
            channel[g][k].kind = "rows" /\ Shown(i, channel[g][k].rows)
      BY <1>1, <2>2 DEF OnItsWay
    <3>2. CASE k = 1
      BY <1>2, <1>4, <3>1, <3>2
    <3>3. CASE k # 1
      <4>1. k - 1 \in 1 .. Len(channel'[g]) /\ channel'[g][k - 1] = channel[g][k]
        BY <1>2, <1>5, <3>3
      <4> QED
        BY <1>1, <3>1, <4>1 DEF OnItsWay, Shown
    <3> QED
      BY <3>2, <3>3
  <2>3. \A v \in Writers : ToBePublished(i, v) => ToBePublished(i, v)'
    BY <1>1 DEF ToBePublished
  <2> QED
    BY <1>1, <1>4, <2>1, <2>2, <2>3 DEF Covered, Shown
<1> QED
  BY <1>6, <1>7, <1>8, <1>9 DEF IInv

\* A list that is read fits the database.
LEMMA ListIInv ==
  ASSUME IInv, NEW e \in Engagements, ListJobs(e)
  PROVE  IInv'
<1>0. Shapes /\ NothingAhead /\ Live /\ NoneMissed
  BY DEF IInv
<1> USE <1>0
<1> DEFINE a == [of |-> e, rows |-> Rows(e)]
<1>1. /\ answers' \in {answers, answers \cup {a}}
      /\ UNCHANGED <<version, publication, connections, endpoint, snapshot, link, url, channel,
                     currentId, generation, replies, jobs>>
  BY DEF ListJobs, serverVars, socketVars, endpointVars
<1>2. a \in [of: Engagements, rows: Tables] /\ Fits(a.rows)
  BY RowsFit
<1> HIDE DEF a
<1>3. Shapes'
  BY <1>1, <1>2 DEF Shapes
<1>4. NothingAhead'
  BY <1>1, <1>2 DEF NothingAhead, Fits
<1>5. \A j \in Jobs : Covered(j) => Covered(j)'
  BY <1>1 DEF Covered, OnItsWay, ToBePublished, Shown
<1>6. Live' /\ NoneMissed'
  BY <1>1, <1>5 DEF Live, NoneMissed
<1> QED
  BY <1>3, <1>4, <1>6 DEF IInv

-----------------------------------------------------------------------------

LEMMA NextIInv == IInv /\ [Next]_vars => IInv'
<1> SUFFICES ASSUME IInv, [Next]_vars PROVE IInv'
  OBVIOUS
<1>1. CASE \E j \in Jobs, w \in Writers :
             \/ Commit(j, w) \/ Refresh(j, w) \/ Publish(j, w) \/ Finish(j, w)
             \/ \E g \in Sockets : Send(j, w, g)
  BY <1>1, CommitIInv, PublicationIInv, SendIInv
<1>2. CASE \E g \in Sockets :
             \/ Register(g) \/ ReadSnapshot(g) \/ SendSnapshot(g) \/ EndpointEnds(g)
             \/ Closed(g) \/ Receive(g)
  BY <1>2, EndpointIInv, ClosedIInv, ReceiveIInv
<1>3. CASE \E e \in Engagements : ListJobs(e)
  BY <1>3, ListIInv
<1>4. CASE Reconnect
  <2>1. currentId \in Engagements
    BY DEF IInv, Shapes
  <2>2. Connect(currentId) /\ UNCHANGED <<version, publication, currentId, answers, replies, jobs>>
    BY <1>4 DEF Reconnect, serverVars
  <2> QED
    BY <2>1, <2>2, ConnectIInv
<1>5. ASSUME NEW e \in Engagements, Switch(e) PROVE IInv'
  <2>1. /\ Connect(e) /\ currentId' = e /\ jobs' = EmptyList
        /\ UNCHANGED <<version, publication, answers, replies>>
    BY <1>5 DEF Switch, serverVars
  <2> QED
    BY <2>1, ConnectIInv
<1>6. CASE Drop \/ Restart
  BY <1>6, LostIInv
<1>7. ASSUME NEW answer \in answers, TakeAnswer(answer) PROVE IInv'
  <2>1. answer.rows \in Tables /\ Fits(answer.rows)
    BY DEF IInv, Shapes, NothingAhead
  <2>2. /\ jobs' \in {jobs, Merged(answer.rows)} /\ answers' \subseteq answers /\ replies' \subseteq replies
        /\ UNCHANGED <<version, publication, connections, endpoint, snapshot, link, url, channel,
                       currentId, generation>>
    BY <1>7 DEF TakeAnswer, serverVars, socketVars, endpointVars
  <2> QED
    BY <2>1, <2>2, MergeIInv
<1>8. ASSUME NEW row \in replies, TakeReply(row) PROVE IInv'
  <2>1. row \in Tables /\ Fits(row)
    BY DEF IInv, Shapes, NothingAhead
  <2>2. /\ jobs' \in {jobs, Merged(row)} /\ answers' \subseteq answers /\ replies' \subseteq replies
        /\ UNCHANGED <<version, publication, connections, endpoint, snapshot, link, url, channel,
                       currentId, generation>>
    BY <1>8 DEF TakeReply, serverVars, socketVars, endpointVars
  <2> QED
    BY <2>1, <2>2, MergeIInv
<1>9. CASE UNCHANGED vars
  <2>1. UNCHANGED <<version, publication, connections, endpoint, snapshot, link, url, channel,
                    currentId, generation, answers, replies, jobs>>
    BY <1>9 DEF vars, serverVars, socketVars, endpointVars, clientVars
  <2>2. Shapes' /\ NothingAhead'
    BY <2>1 DEF IInv, Shapes, NothingAhead, Fits
  <2>3. \A j \in Jobs : Covered(j) => Covered(j)'
    BY <2>1 DEF Covered, OnItsWay, ToBePublished, Shown
  <2> QED
    BY <2>1, <2>2, <2>3 DEF IInv, Live, NoneMissed
<1> QED
  BY <1>1, <1>2, <1>3, <1>4, <1>5, <1>6, <1>7, <1>8, <1>9
     DEF Next, Server, Browser, Environment

\* A list that looks live is current: with the newest socket served, nothing on
\* its way and nothing being published, the browser shows every job of the
\* selected engagement as it was last committed, whatever connections were lost,
\* restarts came between and answers overtook each other (jobs.py:96-118,
\* job_events.py:40-52, useJobUpdates.ts:48-92, JobsView.vue:51-62).
THEOREM LiveListIsCurrent == Spec => []LiveIsCurrent
<1>1. IInv => LiveIsCurrent
  <2> SUFFICES ASSUME IInv, link[generation] = "open", endpoint[generation] = "serving",
                      channel[generation] = <<>>,
                      \A j \in Jobs, w \in Writers : publication[j][w].at = "idle",
                      NEW j \in Jobs, Of[j] = currentId
               PROVE  jobs[j] = version[j]
    BY DEF LiveIsCurrent
  <2>1. Covered(j)
    BY DEF IInv, NoneMissed
  <2>2. ~ OnItsWay(j)
    <3>1. Len(channel[generation]) = 0
      BY EmptySeq
    <3> QED
      BY <3>1 DEF OnItsWay
  <2> QED
    BY <2>1, <2>2 DEF Covered, ToBePublished
<1> QED
  BY <1>1, InitIInv, NextIInv, PTL DEF Spec

\* While an engagement stays selected no job of the list goes back to an older
\* state, in whatever order events, snapshots, lists and replies arrive
\* (JobsView.vue:51-62).
THEOREM ListNeverGoesBack == Spec => NeverOlder
<1>1. IInv /\ [Next]_vars => [currentId' = currentId => \A j \in Jobs : jobs'[j] >= jobs[j]]_vars
  <2> SUFFICES ASSUME IInv, Next, currentId' = currentId, NEW j \in Jobs
               PROVE  jobs'[j] >= jobs[j]
    OBVIOUS
  <2>1. Shapes /\ Fits(jobs) /\ jobs[j] \in Nat
    BY DEF IInv, NothingAhead, Shapes
  <2>2. jobs' = jobs \/ \E r \in Tables : Fits(r) /\ jobs' = Merged(r)
    <3>1. ASSUME NEW g \in Sockets, Receive(g)
          PROVE  jobs' = jobs \/ \E r \in Tables : Fits(r) /\ jobs' = Merged(r)
      <4>1. channel[g] \in Seq(Messages) /\ channel[g] # <<>>
        BY <3>1 DEF Receive, IInv, Shapes
      <4>2. /\ Head(channel[g]) = channel[g][1] /\ 1 \in 1 .. Len(channel[g])
            /\ channel[g][1].rows \in Tables
        <5>1. Head(channel[g]) = channel[g][1] /\ Len(channel[g]) \in Nat \ {0} /\ Head(channel[g]) \in Messages
          BY <4>1, TailFacts
        <5> QED
          BY <5>1 DEF Messages
      <4>3. Fits(channel[g][1].rows)
        BY <4>2 DEF IInv, NothingAhead
      <4> QED
        BY <3>1, <4>2, <4>3 DEF Receive
    <3>2. ASSUME NEW answer \in answers, TakeAnswer(answer)
          PROVE  jobs' = jobs \/ \E r \in Tables : Fits(r) /\ jobs' = Merged(r)
      <4>1. answer.rows \in Tables /\ Fits(answer.rows)
        BY DEF IInv, Shapes, NothingAhead
      <4> QED
        BY <3>2, <4>1 DEF TakeAnswer
    <3>3. ASSUME NEW row \in replies, TakeReply(row)
          PROVE  \E r \in Tables : Fits(r) /\ jobs' = Merged(r)
      <4>1. row \in Tables /\ Fits(row)
        BY DEF IInv, Shapes, NothingAhead
      <4> QED
        BY <3>3, <4>1 DEF TakeReply
    <3>4. ASSUME NEW e \in Engagements PROVE ~ Switch(e)
      BY DEF Switch
    <3>5. CASE \/ Drop \/ Restart \/ Reconnect \/ \E e \in Engagements : ListJobs(e)
               \/ \E g \in Sockets : \/ Closed(g) \/ Register(g) \/ ReadSnapshot(g)
                                     \/ SendSnapshot(g) \/ EndpointEnds(g)
               \/ \E i \in Jobs, w \in Writers :
                    \/ Commit(i, w) \/ Refresh(i, w) \/ Publish(i, w) \/ Finish(i, w)
                    \/ \E g \in Sockets : Send(i, w, g)
      <4>1. jobs' = jobs
        BY ZenonT(60), <3>5 DEF Drop, Restart, Lost, Reconnect, ListJobs, Closed, Register, ReadSnapshot,
                    SendSnapshot, EndpointEnds, Commit, Refresh, Publish, Finish, Send, clientVars
      <4> QED
        BY <4>1
    <3> QED
      BY <3>1, <3>2, <3>3, <3>4, <3>5 DEF Next, Server, Browser, Environment
  <2> QED
    BY <2>1, <2>2, MergeFacts
<1> QED
  BY <1>1, InitIInv, NextIInv, PTL DEF Spec, NeverOlder
=============================================================================
