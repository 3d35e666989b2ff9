----------------------------- MODULE JobUpdates -----------------------------
(***************************************************************************)
(* How the job list of one browser follows the database: the commits and   *)
(* publications of app/api/routers/jobs.py and the runner, JobEventHub and *)
(* the WebSocket endpoint, the reconnecting client of useJobUpdates.ts and *)
(* the list of JobsView.vue.                                               *)
(*                                                                         *)
(* A job is the number of its last commit, 0 before the first; the number  *)
(* stands for updated_at as the browser compares it.  Messages and lists   *)
(* are functions from the jobs they carry to their numbers.  The database  *)
(* answers every read; its faults are the subject of JobLifecycle.         *)
(***************************************************************************)
EXTENDS Naturals, Sequences, FiniteSets

CONSTANTS
  Engagements,  \* the engagements of the operator
  Stored,       \* the one selected when the page is opened
  Jobs,         \* the jobs
  Of,           \* the engagement of each job
  MaxSockets,   \* bound on the sockets the browser opens
  Commits,      \* bound on the commits of each job for each number of sockets
  Room,         \* messages that fit between send_json and the browser
  Waiting       \* bound on the responses on their way to the browser

ASSUME UpdatesAssumption ==
  /\ Stored \in Engagements
  /\ Of \in [Jobs -> Engagements]
  /\ MaxSockets \in Nat \ {0}
  /\ Commits \in [1 .. MaxSockets -> [Jobs -> Nat]]
  /\ Room \in Nat \ {0}
  /\ Waiting \in Nat \ {0}

Sockets == 1 .. MaxSockets

\* Who commits and publishes a job: the handler that plans it, and the handler
\* that claims it with the run it starts, which take turns.
Writers == {"plan", "run"}

VARIABLES
  version,      \* the committed state of each job
  publication,  \* what each writer of a job is about to publish
  connections,  \* JobEventHub._connections
  endpoint,     \* where the job_updates call of each socket is
  snapshot,     \* the rows it has read
  link,         \* each socket as its browser sees it
  url,          \* the engagement in the address of each socket
  channel,      \* the messages on their way to the browser
  currentId,    \* the engagement selected in the store
  generation,   \* the socket opened last
  retry,        \* the reconnect timer is set
  asks,         \* engagements whose list the browser has asked for
  answers,      \* lists of jobs on their way to the browser
  replies,      \* replies to plan and run requests on their way
  jobs          \* the list the operator sees, 0 for a job not in it

serverVars == <<version, publication>>
endpointVars == <<connections, endpoint, snapshot>>
socketVars == <<endpointVars, link, url, channel>>
clientVars == <<currentId, generation, retry, asks, answers, replies, jobs>>
vars == <<serverVars, socketVars, clientVars>>

\* The bounds, as guards.
MayCommit(j) ==
  version[j] < Commits[IF retry THEN generation + 1 ELSE generation][j]
SocketLeft ==
  /\ generation < MaxSockets
  /\ \A j \in Jobs : version[j] <= Commits[generation + 1][j]
ResponseFits == Cardinality(answers) + Cardinality(replies) < Waiting

Idle == [at |-> "idle", seen |-> 0, to |-> {}]
EmptyList == [j \in Jobs |-> 0]

\* The rows of a list are the jobs it holds with their numbers.
NoRows == [j \in {} |-> 0]
Row(j, n) == [i \in {j} |-> n]
Rows(e) == [j \in {i \in Jobs : Of[i] = e /\ version[i] > 0} |-> version[j]]

OpenMessage == [kind |-> "open", rows |-> NoRows]
RowsMessage(rows) == [kind |-> "rows", rows |-> rows]

Init ==
  /\ version = EmptyList
  /\ publication = [j \in Jobs |-> [w \in Writers |-> Idle]]
  /\ currentId = Stored
  /\ generation = 1
  /\ link = [g \in Sockets |-> IF g = 1 THEN "open" ELSE "none"]
  /\ url = [g \in Sockets |-> currentId]
  /\ endpoint = [g \in Sockets |-> IF g = 1 THEN "accepting" ELSE "none"]
  /\ connections = {}
  /\ snapshot = [g \in Sockets |-> NoRows]
  /\ channel = [g \in Sockets |-> <<>>]
  /\ retry = FALSE
  /\ asks = {currentId}
  /\ answers = {}
  /\ replies = {}
  /\ jobs = EmptyList

-----------------------------------------------------------------------------
(* Publishing a commit.                                                    *)

\* A transaction on the job is committed: the insert of plan_job, the claim, or
\* one of the commits of the run.
Commit(j, w) ==
  /\ publication[j][w].at = "idle"
  /\ w = "plan" <=> version[j] = 0
  /\ MayCommit(j)
  /\ version' = [version EXCEPT ![j] = @ + 1]
  /\ publication' = [publication EXCEPT ![j][w] = [@ EXCEPT !.at = "committed"]]
  /\ UNCHANGED <<socketVars, clientVars>>

\* session.refresh reads the row again, with what the other has committed since.
Refresh(j, w) ==
  /\ publication[j][w].at = "committed"
  /\ publication' = [publication EXCEPT ![j][w] = [@ EXCEPT !.at = "refreshed", !.seen = version[j]]]
  /\ UNCHANGED <<version, socketVars, clientVars>>

\* Mutant: only sockets that have been sent their snapshot hear of a job.
ListeningAfterSnapshot(j) ==
  {g \in connections : url[g] = Of[j] /\ endpoint[g] = "serving"}

Listening(j) == {g \in connections : url[g] = Of[j]}

\* publish_job copies the sockets of the engagement before it sends.
Publish(j, w) ==
  /\ publication[j][w].at = "refreshed"
  /\ publication' = [publication EXCEPT ![j][w] = [@ EXCEPT !.at = "sending", !.to = Listening(j)]]
  /\ UNCHANGED <<version, socketVars, clientVars>>

\* send of publish_job waits for room; on a socket that is closed it may raise.
Send(j, w, g) ==
  /\ publication[j][w].at = "sending"
  /\ g \in publication[j][w].to
  /\ publication' = [publication EXCEPT ![j][w].to = @ \ {g}]
  /\ \/ /\ link[g] = "open"
        /\ Len(channel[g]) < Room
        /\ channel' = [channel EXCEPT ![g] =
             Append(@, RowsMessage(Row(j, publication[j][w].seen)))]
        /\ UNCHANGED connections
     \/ /\ link[g] # "open"
        /\ connections' \in {connections, connections \ {g}}
        /\ UNCHANGED channel
  /\ UNCHANGED <<version, endpoint, snapshot, link, url, clientVars>>

\* All sends are over; a handler then returns the job it refreshed, if it was
\* this browser that asked.
Finish(j, w) ==
  /\ publication[j][w].at = "sending"
  /\ publication[j][w].to = {}
  /\ publication' = [publication EXCEPT ![j][w] = Idle]
  /\ \/ UNCHANGED replies
     \/ ResponseFits /\ replies' = replies \cup {Row(j, publication[j][w].seen)}
  /\ UNCHANGED <<version, socketVars, currentId, generation, retry, asks, answers, jobs>>

-----------------------------------------------------------------------------
(* The WebSocket endpoint.                                                 *)

\* connect: accept answers the handshake, which the browser sees as onopen, and
\* the socket is added.  What is published between the two is in the snapshot.
Register(g) ==
  /\ endpoint[g] = "accepting" /\ link[g] = "open"
  /\ endpoint' = [endpoint EXCEPT ![g] = "registered"]
  /\ connections' = connections \cup {g}
  /\ channel' = [channel EXCEPT ![g] = Append(@, OpenMessage)]
  /\ UNCHANGED <<serverVars, snapshot, link, url, clientVars>>

ReadSnapshot(g) ==
  /\ endpoint[g] = "registered" /\ link[g] = "open"
  /\ endpoint' = [endpoint EXCEPT ![g] = "read"]
  /\ snapshot' = [snapshot EXCEPT ![g] = Rows(url[g])]
  /\ UNCHANGED <<serverVars, connections, link, url, channel, clientVars>>

SendSnapshot(g) ==
  /\ endpoint[g] = "read" /\ link[g] = "open"
  /\ Len(channel[g]) < Room
  /\ endpoint' = [endpoint EXCEPT ![g] = "serving"]
  /\ channel' = [channel EXCEPT ![g] = Append(@, RowsMessage(snapshot[g]))]
  /\ snapshot' = [snapshot EXCEPT ![g] = NoRows]
  /\ UNCHANGED <<serverVars, connections, link, url, clientVars>>

\* accept, send_json (after a read without effect) or receive_text finds the
\* socket closed; the finally clause takes it from the hub.
EndpointEnds(g) ==
  /\ endpoint[g] \in {"accepting", "registered", "read", "serving"}
  /\ link[g] # "open"
  /\ endpoint' = [endpoint EXCEPT ![g] = "ended"]
  /\ snapshot' = [snapshot EXCEPT ![g] = NoRows]
  /\ connections' = connections \ {g}
  /\ UNCHANGED <<serverVars, link, url, channel, clientVars>>

-----------------------------------------------------------------------------
(* The browser.                                                            *)

\* The socket, if there is one, is closed and one for e is opened.
Connect(e) ==
  LET new == generation + 1 IN
  /\ generation < MaxSockets
  /\ generation' = new
  /\ link' = [g \in Sockets |->
       IF g = new THEN "open" ELSE IF link[g] = "open" THEN "closing" ELSE link[g]]
  /\ url' = [url EXCEPT ![new] = e]
  /\ channel' = [g \in Sockets |-> <<>>]
  /\ endpoint' = [endpoint EXCEPT ![new] = "accepting"]
  /\ retry' = FALSE
  /\ UNCHANGED <<connections, snapshot>>

\* The operator selects another engagement: the watchers of JobsView and
\* useJobUpdates empty the list, load the new one, disconnect and connect.
Switch(e) ==
  /\ e # currentId /\ SocketLeft
  /\ Connect(e)
  /\ currentId' = e
  /\ jobs' = EmptyList
  /\ asks' = asks \cup {e}
  /\ UNCHANGED <<serverVars, answers, replies>>

\* The reconnect timer fires; disconnect would have cleared it.
Reconnect ==
  /\ retry
  /\ Connect(currentId)
  /\ UNCHANGED <<serverVars, currentId, asks, answers, replies, jobs>>

\* Does onclose of socket g set the timer?  Mutant: no timer is ever set.
ReconnectsNever(g) == FALSE
Reconnects(g) == g = generation /\ url[g] = currentId

\* onclose of a socket the browser has closed itself.
Closed(g) ==
  /\ link[g] = "closing"
  /\ link' = [link EXCEPT ![g] = "closed"]
  /\ retry' = (retry \/ Reconnects(g))
  /\ UNCHANGED <<serverVars, endpointVars, url, channel,
                 currentId, generation, asks, answers, replies, jobs>>

\* onclose of a socket that the network, or the end of the server, has closed;
\* what was on its way is lost.
Lost ==
  /\ link' = [link EXCEPT ![generation] = "closed"]
  /\ channel' = [channel EXCEPT ![generation] = <<>>]
  /\ retry' = (retry \/ Reconnects(generation))
  /\ UNCHANGED <<version, url, currentId, generation, asks, answers, replies, jobs>>

\* The network fails.
Drop ==
  /\ SocketLeft
  /\ link[generation] = "open"
  /\ Lost
  /\ UNCHANGED <<publication, endpointVars>>

\* upsertJob over a list: a row replaces the job unless it is older.  The mutant
\* takes what came last.
NewerAlways(j, n) == TRUE
Newer(j, n) == n >= jobs[j]
Merged(rows) ==
  [j \in Jobs |-> IF j \in DOMAIN rows /\ Newer(j, rows[j]) THEN rows[j] ELSE jobs[j]]

\* onopen loads the list once more, onmessage merges the rows.
Receive(g) ==
  /\ g = generation
  /\ channel[g] # <<>>
  /\ channel' = [channel EXCEPT ![g] = Tail(@)]
  /\ IF Head(channel[g]).kind = "open"
       THEN /\ asks' = asks \cup {currentId}
            /\ UNCHANGED jobs
       ELSE /\ jobs' = Merged(Head(channel[g]).rows)
            /\ UNCHANGED asks
  /\ UNCHANGED <<serverVars, endpointVars, link, url,
                 currentId, generation, retry, answers, replies>>

\* list_jobs reads the rows of the engagement; the request may fail.
ListJobs(e) ==
  /\ e \in asks
  /\ asks' = asks \ {e}
  /\ \/ UNCHANGED answers
     \/ ResponseFits /\ answers' = answers \cup {[of |-> e, rows |-> Rows(e)]}
  /\ UNCHANGED <<serverVars, socketVars, currentId, generation, retry, replies, jobs>>

\* load merges the list unless another engagement has been selected meanwhile.
TakeAnswer(answer) ==
  /\ answers' = answers \ {answer}
  /\ jobs' = IF answer.of = currentId THEN Merged(answer.rows) ELSE jobs
  /\ UNCHANGED <<serverVars, socketVars, currentId, generation, retry, asks, replies>>

\* submit and run merge the job they get, whatever is selected by then.
TakeReply(row) ==
  /\ replies' = replies \ {row}
  /\ jobs' = Merged(row)
  /\ UNCHANGED <<serverVars, socketVars, currentId, generation, retry, asks, answers>>

-----------------------------------------------------------------------------
\* The server stops and starts again: its calls, its hub and the publications of
\* what it has committed are gone.  (That a run does not go on after it is in
\* JobLifecycle; here another commit of the job may follow.)
Restart ==
  /\ SocketLeft
  /\ link[generation] = "open"
  /\ Lost
  /\ connections' = {}
  /\ endpoint' = [g \in Sockets |-> IF endpoint[g] = "none" THEN "none" ELSE "ended"]
  /\ snapshot' = [g \in Sockets |-> NoRows]
  /\ publication' = [j \in Jobs |-> [w \in Writers |-> Idle]]

Server ==
  \/ \E j \in Jobs, w \in Writers :
       Refresh(j, w) \/ Publish(j, w) \/ Finish(j, w) \/ \E g \in Sockets : Send(j, w, g)
  \/ \E g \in Sockets :
       Register(g) \/ ReadSnapshot(g) \/ SendSnapshot(g) \/ EndpointEnds(g)
  \/ \E e \in Engagements : ListJobs(e)

Browser ==
  \/ Reconnect
  \/ \E g \in Sockets : Closed(g) \/ Receive(g)
  \/ \E answer \in answers : TakeAnswer(answer)
  \/ \E row \in replies : TakeReply(row)

Environment ==
  \/ \E j \in Jobs, w \in Writers : Commit(j, w)
  \/ \E e \in Engagements : Switch(e)
  \/ Drop
  \/ Restart

Next == Server \/ Browser \/ Environment

Spec == Init /\ [][Next]_vars

\* Server and browser go on while either can; nothing is assumed of commits, the
\* operator and the network.
FairSpec == Spec /\ WF_vars(Server \/ Browser)

-----------------------------------------------------------------------------
(* Properties.                                                             *)

\* What a browser shows as live is current: when the endpoint serves the newest
\* socket, nothing is on its way on it and no publication is under way, every job
\* of the selected engagement is shown as it was last committed.  Registration
\* before the snapshot (jobs.py:96-111) and the order commit, refresh, publish
\* (jobs.py:60-62, 148-150, runner.py:81-85) leave no gap in which an update is
\* neither in the snapshot nor sent.
LiveIsCurrent ==
  ( /\ link[generation] = "open"
    /\ endpoint[generation] = "serving"
    /\ channel[generation] = <<>>
    /\ \A j \in Jobs, w \in Writers : publication[j][w].at = "idle" )
  => \A j \in Jobs : Of[j] = currentId => jobs[j] = version[j]

\* While an engagement stays selected no job of the list goes back to an older
\* state, however events, snapshots, lists and replies overtake each other
\* (JobsView.vue:51-62).
NeverOlder == [][currentId' = currentId => \A j \in Jobs : jobs'[j] >= jobs[j]]_vars

\* Once commits, switches and lost connections stop, the list becomes and stays
\* that of the database, and the hub is left with the newest socket only
\* (useJobUpdates.ts:94-104, jobs.py:113-118).
Settles ==
  <>[]( /\ \A j \in Jobs : Of[j] = currentId => jobs[j] = version[j]
        /\ connections = {generation} )
=============================================================================
