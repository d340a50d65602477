---------------------------- MODULE ManagementLink ----------------------------
(***************************************************************************)
(* lib/management/index.js, credentials.js and push.js: how a process      *)
(* registers with the management API (external) and keeps its connection   *)
(* to the push server (external), over which clients reach the server by   *)
(* numbered channels.  The requests of the model are the events that come  *)
(* from outside: messages, lost connections, changes of the configuration. *)
(***************************************************************************)
EXTENDS Requests

Channels == {1, 2}
NoSockets == [c \in Channels |-> "none"]

\* A web socket and what belongs to it: the timers of its pings, its channels.
Socket(state) == [state |-> state, pingDue |-> 0, killDue |-> FALSE, pinged |-> FALSE,
                  channels |-> NoSockets]

\* token: saved in the database; confirmed: by the API.  stage: of
\* initManagement in this process, retries: calls of startWSManagementClient
\* to come, ws: the latest socket, used: the token it was opened with.
LinkInit ==
    /\ In("link")
    /\ store = [up |-> TRUE, token |-> None, confirmed |-> FALSE, stage |-> "getToken",
                issued |-> None, used |-> None, retries |-> 0, ws |-> Socket("none"),
                connected |-> FALSE, access |-> TRUE]
    /\ pc = [r \in Reqs |-> "idle"]
    /\ ctx = [r \in Reqs |-> None]

ws == store.ws
IsOpen == ws.state = "open"
Agent == "agent" \in scene.ops

\* An event from outside, a step of this process.
Event(r, op) == store.up /\ Sent(r, op) /\ Goto(r, "ok") /\ UNCHANGED ctx
Own == store.up /\ UNCHANGED <<pc, ctx>>

-----------------------------------------------------------------------------
(* initManagement *)

\* Mutant: the token is used before it is saved.
ConfirmUnsaved(r) ==
    /\ Event(r, "register") /\ store.stage = "issue"
    /\ store' = [store EXCEPT !.issued = r, !.stage = "confirm"]

\* initManagementCredentials; the database and the UUID are there.
GetStoredCredentials ==
    /\ Own /\ store.stage = "getToken"
    /\ store' = [store EXCEPT !.issued = store.token,
                              !.stage = IF store.token = None THEN "issue" ELSE "start"]

IssueCredentials(r) ==
    /\ Event(r, "register") /\ store.stage = "issue"
    /\ store' = [store EXCEPT !.issued = r, !.stage = "saveToken"]

SaveToken ==
    /\ Own /\ store.stage = "saveToken"
    /\ store' = [store EXCEPT !.token = store.issued, !.confirmed = FALSE,
                              !.stage = "confirm"]

ConfirmInstanceCredentials ==
    /\ Own /\ store.stage = "confirm"
    /\ store' = [store EXCEPT !.confirmed = TRUE, !.stage = "start"]

\* Any of these, or the loading of the overlay, fails: initManagement is called
\* again later, without its callback, which it takes for misuse in an agent.
InitFails(r) ==
    /\ Event(r, "initFails") /\ store.stage \notin {"started", "retry"}
    /\ store' = [store EXCEPT !.stage = "retry"]

RetryInit ==
    /\ Own /\ store.stage = "retry"
    /\ store' = IF Agent THEN [store EXCEPT !.up = FALSE]
                ELSE [store EXCEPT !.stage = "getToken"]

\* startManagementListeners
StartManagementListeners ==
    /\ Own /\ store.stage = "start"
    /\ store' = [store EXCEPT !.stage = "started", !.used = store.issued, !.retries = 1]

-----------------------------------------------------------------------------
(* startWSManagementClient *)

StartWSManagementClient ==
    /\ Own /\ store.retries > 0
    /\ store' = [store EXCEPT !.retries = @ - 1, !.ws = Socket("connecting")]

\* Mutant: the old timer of the ping stays.
KeepKillTimer(s) == [s EXCEPT !.pingDue = @ + 1, !.pinged = FALSE]

InitiatePing(s) == [s EXCEPT !.killDue = FALSE, !.pingDue = @ + 1, !.pinged = FALSE]

OnOpen ==
    /\ Own /\ ws.state = "connecting"
    /\ store' = [store EXCEPT !.connected = TRUE, !.ws = InitiatePing([@ EXCEPT !.state = "open"])]

\* Mutant: an error has the client started again, and so has the end that follows.
ClosedTwice == [store EXCEPT !.ws.state = "closed", !.connected = FALSE,
                             !.retries = @ + (IF ws.state = "connecting" THEN 2 ELSE 1)]

\* on close: the client is started again; channels and timers stay behind.
Closed == [store EXCEPT !.ws.state = "closed", !.connected = FALSE, !.retries = @ + 1]

OnClose(r) ==
    /\ ws.state \in {"connecting", "open"}
    /\ Event(r, "close")
    /\ store' = Closed

SendPing ==
    /\ Own /\ ws.pingDue > 0
    /\ store' = [store EXCEPT !.ws.pingDue = @ - 1, !.ws.killDue = TRUE,
                              !.ws.pinged = IsOpen]

OnPong ==
    /\ Own /\ IsOpen /\ ws.pinged
    /\ store' = [store EXCEPT !.ws = InitiatePing(@)]

\* The peer has not answered for as long as a ping takes to come due.
Terminate ==
    /\ Own /\ ws.killDue
    /\ store' = IF ws.state = "open" THEN [Closed EXCEPT !.ws.killDue = FALSE]
                ELSE [store EXCEPT !.ws.killDue = FALSE]

\* Mutant: browser access is not looked at.
ReceiveAnyData(r) ==
    /\ IsOpen /\ Event(r, "payload")
    /\ \E c \in Channels : store' = [store EXCEPT !.ws.channels[c] = "socket"]

\* receiveChannelData, unless browser access is disabled.
ReceiveChannelData(r) ==
    /\ IsOpen /\ Event(r, "payload")
    /\ IF store.access
       THEN \E c \in Channels : store' = [store EXCEPT !.ws.channels[c] = "socket"]
       ELSE UNCHANGED store

\* The server's end closes; null stays in the table.
SocketEnds(r) ==
    /\ Event(r, "socketEnd")
    /\ \E c \in Channels :
        /\ ws.channels[c] = "socket"
        /\ store' = [store EXCEPT !.ws.channels[c] = "null"]

CloseChannel(r) ==
    /\ IsOpen /\ Event(r, "closeChannel")
    /\ \E c \in Channels :
        store' = [store EXCEPT !.ws.channels[c] = IF @ = "socket" THEN "none" ELSE @]

\* browserAccessChangeHandler calls close, which sockets do not have (nor null):
\* the process dies if there is an entry.
ChangeBrowserAccess(r) ==
    /\ Event(r, "access")
    /\ store' = IF store.access /\ IsOpen /\ ws.channels # NoSockets
                THEN [store EXCEPT !.up = FALSE]
                ELSE [store EXCEPT !.access = ~@]

\* The process starts again, after it died or instead; access is on by default.
RestartProcess(r) ==
    /\ Sent(r, "restart") /\ Goto(r, "ok") /\ UNCHANGED ctx
    /\ store' = [store EXCEPT !.up = TRUE, !.stage = "getToken", !.issued = None,
                              !.used = None, !.retries = 0, !.ws = Socket("none"),
                              !.connected = FALSE, !.access = TRUE]

LinkStep(r) ==
    \/ IssueCredentials(r) \/ InitFails(r) \/ OnClose(r) \/ ReceiveChannelData(r)
    \/ SocketEnds(r) \/ CloseChannel(r) \/ ChangeBrowserAccess(r) \/ RestartProcess(r)

OwnStep ==
    \/ GetStoredCredentials \/ SaveToken \/ ConfirmInstanceCredentials \/ RetryInit
    \/ StartManagementListeners \/ StartWSManagementClient
    \/ OnOpen \/ SendPing \/ OnPong \/ Terminate

LinkNext ==
    /\ In("link")
    /\ OwnStep \/ \E r \in Reqs : LinkStep(r)
    /\ UNCHANGED scene

-----------------------------------------------------------------------------
(* Properties *)

\* The push server is always connected to, or about to be, by one socket: no
\* error leaves the process without a connection, or with two.
OneConnection ==
    In("link") /\ store.up /\ store.stage = "started" =>
        store.retries + (IF ws.state \in {"connecting", "open"} THEN 1 ELSE 0) = 1

\* An open connection has one timer running: its next ping is due, or it ends
\* unless the ping is answered; and the health route knows of it.
ConnectionIsWatched ==
    In("link") /\ store.up =>
        /\ IsOpen => ws.pingDue + (IF ws.killDue THEN 1 ELSE 0) = 1
        /\ store.connected <=> IsOpen

\* A process talks to the push server with the token that is saved, so that it
\* does after any restart; registering twice never makes it use another.
SavedTokenIsUsed == In("link") /\ store.used # None => store.used = store.token

\* Without browser access no client reaches the server through the connection.
NoAccessNoChannel ==
    In("link") /\ store.up /\ IsOpen /\ ~store.access =>
        \A c \in Channels : ws.channels[c] # "socket"

\* One watched connection, under the saved token, and no channel unasked.
LinkIsSound ==
    OneConnection /\ ConnectionIsWatched /\ SavedTokenIsUsed /\ NoAccessNoChannel
=============================================================================
