-------------------------- MODULE ManagementOverlay --------------------------
(***************************************************************************)
(* lib/management: how a configuration overlay published by the management *)
(* API (external) reaches the live configuration of a server, and the      *)
(* management database that it is kept in.  A scene polls ("poll"), is     *)
(* pushed to ("push"), or has an agent between the API and the server      *)
(* ("agent", "receive").  A request of the model is a poll, a message, or  *)
(* a restart.                                                              *)
(***************************************************************************)
EXTENDS Requests, Sequences

MaxVersion == 2         \* bound on the versions that are published

\* Hosts of the configuration files, of overlays, and replicatorEndpoint.
Hosts == {"s3", "custom", "replicator"}
NoEnds == [h \in Hosts |-> None]

\* An overlay has locations or leaves the old ones, and may name an endpoint.
Overlays ==
    {[locs |-> {}, ends |-> NoEnds]} \cup
    [locs: {{"us-east-1", "dc", "A"}, {"us-east-1"}, {"dc", "A"}},
     ends: {[NoEnds EXCEPT !["custom"] = "A"]}]

\* The configuration files, whose locations must include us-east-1.
Files == {[locs |-> {"us-east-1"}, ends |-> [NoEnds EXCEPT !["s3"] = "us-east-1"]],
          [locs |-> {"us-east-1", "dc"}, ends |-> [NoEnds EXCEPT !["s3"] = "dc"]]}

\* The live Config object of a process that starts.
FromFiles(f) == [version |-> 0, accounts |-> 0, locs |-> f.locs, ends |-> f.ends]
Fresh == FromFiles(store.files)

live == store.live
db == store.db

\* db: the overlays and the key of the latest; loaded: the agent's overlay;
\* inbox: from the agent to the server; polls: a next round is scheduled;
\* clustered: the server is a worker, which the master starts again.
OverlayInit ==
    /\ In("overlay")
    /\ \E o \in [1..MaxVersion -> Overlays], f \in Files, clustered \in BOOLEAN :
        store = [overlays |-> o, published |-> 0, files |-> f, clustered |-> clustered,
                 live |-> FromFiles(f), polls |-> TRUE,
                 db |-> [saved |-> {}, latest |-> 0], loaded |-> 0, inbox |-> <<>>]
    /\ pc = [r \in Reqs |-> "idle"]
    /\ ctx = [r \in Reqs |-> None]

Publish ==
    /\ store.published < MaxVersion
    /\ store' = [store EXCEPT !.published = @ + 1]
    /\ UNCHANGED <<pc, ctx>>

\* What the API answers or pushes: an overlay, or that there is none.
Offered == 0..store.published

-----------------------------------------------------------------------------
(* patchConfiguration *)

\* Mutant: only the same version again is ignored.
SameVersion(v) == v = 0 \/ v = live.version

\* An overlay without version, or not newer than the live one, changes nothing.
AlreadyApplied(v) == v = 0 \/ (live.version # 0 /\ v <= live.version)

\* Mutant: the version is noted before the credentials are read.
NoteVersionFirst(r, v, cached, then) ==
    /\ Carry(r, [v |-> v, cached |-> cached, then |-> then])
    /\ store' = IF AlreadyApplied(v) THEN store ELSE [store EXCEPT !.live.version = v]
    /\ Goto(r, IF AlreadyApplied(v) THEN then ELSE "getCredentials")

PatchConfiguration(r, v, cached, then) ==
    /\ Carry(r, [v |-> v, cached |-> cached, then |-> then])
    /\ Goto(r, IF AlreadyApplied(v) THEN then ELSE "getCredentials")
    /\ UNCHANGED store

\* restEndpointsAssert: every endpoint leads to a location.
LeadSomewhere(ends, locs) == \A h \in Hosts : ends[h] # None => ends[h] \in locs

\* Mutant: the endpoints are not looked at.
AllLocationsFit(c, o) == TRUE

\* setLocationConstraints: no endpoint of c may lose its location.
LocationsFit(c, o) == o.locs = {} \/ LeadSomewhere(c.ends, o.locs)

NewLocations(c, o) == IF o.locs = {} THEN c.locs ELSE o.locs

\* Endpoints are added and never taken away, replicatorEndpoint if need be.
NewEndpoints(c, o) ==
    LET e == [h \in Hosts |-> IF o.ends[h] # None THEN o.ends[h] ELSE c.ends[h]]
    IN  IF e["replicator"] = None THEN [e EXCEPT !["replicator"] = "us-east-1"] ELSE e

\* Mutant: the endpoints of the overlay are not looked at.
OldEndpointsFit(c, o) == LeadSomewhere(c.ends, NewLocations(c, o))

\* setRestEndpoints: the new ones lead to the new locations.
EndpointsFit(c, o) == LeadSomewhere(NewEndpoints(c, o), NewLocations(c, o))

Patched(c, o, v) == [version |-> v, accounts |-> v,
                     locs |-> NewLocations(c, o), ends |-> NewEndpoints(c, o)]

\* Locations and accounts are set before the endpoints are looked at.
HalfPatched(c, o, v) == [c EXCEPT !.accounts = v, !.locs = NewLocations(c, o)]

\* A server starts: with the files' configuration, and connected to the agent,
\* which sends the overlay that it has loaded.
ServerStarts ==
    store' = [store EXCEPT !.live = Fresh, !.polls = TRUE,
                           !.inbox = IF store.loaded = 0 THEN <<>> ELSE <<store.loaded>>]

\* The requests of the agent's process, and of the server's.
OfAgent == {r \in Reqs : Running(r) /\ ctx[r].then = "loadNewOverlay"}
OfServer == {r \in Reqs : Running(r) /\ ctx[r].then # "loadNewOverlay"}

Kill(dying) == [r \in Reqs |-> IF r \in dying THEN "failed" ELSE pc[r]]

\* With the credentials at hand the locations are refused, which is an error, ...
RefuseOverlay(r) ==
    /\ pc[r] = "getCredentials"
    /\ ~LocationsFit(live, store.overlays[ctx[r].v])
    /\ Refuse(r)

\* ... or all is set, ...
ApplyOverlay(r) ==
    LET o == store.overlays[ctx[r].v]
    IN  /\ pc[r] = "getCredentials"
        /\ LocationsFit(live, o) /\ EndpointsFit(live, o)
        /\ store' = [store EXCEPT !.live = Patched(live, o, ctx[r].v)]
        /\ Goto(r, ctx[r].then)
        /\ UNCHANGED ctx

\* ... or setRestEndpoints throws, which nobody catches and which calls no
\* callback: a worker is killed, a single process goes on but polls no more.
ApplyHalf(r) ==
    LET o == store.overlays[ctx[r].v]
    IN  /\ pc[r] = "getCredentials"
        /\ LocationsFit(live, o) /\ ~EndpointsFit(live, o)
        /\ \/ /\ store.clustered
              /\ ServerStarts
              /\ pc' = Kill(OfServer)
           \/ /\ ~store.clustered
              /\ store' = [store EXCEPT !.live = HalfPatched(live, o, ctx[r].v),
                                        !.polls = FALSE]
              /\ Goto(r, "failed")
        /\ UNCHANGED ctx

-----------------------------------------------------------------------------
(* saveConfigurationVersion *)

\* Mutant: what is offered is saved, whatever is cached.
SaveWhateverIsOffered(cached, remote) == remote # 0

RemoteOverlayIsNewer(cached, remote) == remote # 0 /\ (cached = 0 \/ remote > cached)

\* Mutant: the key of the latest overlay is written first.
SaveVersionFirst(r) ==
    LET c == ctx[r]
    IN  /\ pc[r] = "save"
        /\ IF RemoteOverlayIsNewer(c.cached, c.v)
           THEN /\ store' = [store EXCEPT !.db.latest = c.v]
                /\ Goto(r, "saveVersion") /\ UNCHANGED ctx
           ELSE Goto(r, c.then) /\ UNCHANGED <<store, ctx>>

SaveOverlay(r) ==
    LET c == ctx[r]
    IN  /\ pc[r] = "save"
        /\ IF RemoteOverlayIsNewer(c.cached, c.v)
           THEN /\ store' = [store EXCEPT !.db.saved = @ \cup {c.v}]
                /\ Goto(r, "saveVersion") /\ UNCHANGED ctx
           ELSE Goto(r, c.then) /\ UNCHANGED <<store, ctx>>

SaveVersion(r) ==
    /\ pc[r] = "saveVersion"
    /\ store' = [store EXCEPT !.db.latest = ctx[r].v]
    /\ Goto(r, ctx[r].then)
    /\ UNCHANGED ctx

\* loadCachedOverlay: the overlay that the latest key names, if it is there.
Cached == IF db.latest \in db.saved THEN db.latest ELSE 0

-----------------------------------------------------------------------------
(* poll.js: applyConfigurationOverlay, one round *)

Poll(r) ==
    /\ Sent(r, "poll") /\ store.polls
    /\ PatchConfiguration(r, Cached, Cached, "loadRemote")

LoadRemoteOverlay(r) ==
    /\ pc[r] = "loadRemote"
    /\ \/ Refuse(r)
       \/ \E v \in Offered :
            /\ Carry(r, [ctx[r] EXCEPT !.v = v, !.then = "patchRemote"])
            /\ Goto(r, "save")
            /\ UNCHANGED store

PatchRemote(r) ==
    /\ pc[r] = "patchRemote"
    /\ PatchConfiguration(r, ctx[r].v, ctx[r].cached, "ok")

(* push.js and configuration.js: applyAndSaveOverlay compares with nothing. *)

ReceivePush(r) ==
    /\ Sent(r, "push")
    /\ \E v \in Offered \ {0} : PatchConfiguration(r, v, 0, "savePushed")

SavePushed(r) ==
    /\ pc[r] = "savePushed"
    /\ Carry(r, [ctx[r] EXCEPT !.then = "ok"])
    /\ Goto(r, "save")
    /\ UNCHANGED store

(* managementAgent.js *)

\* onNewOverlay: saved if newer than the overlay loaded, ...
OnNewOverlay(r) ==
    /\ Sent(r, "agent")
    /\ \E v \in Offered \ {0} :
        Carry(r, [v |-> v, cached |-> store.loaded, then |-> "loadNewOverlay"])
    /\ Goto(r, "save")
    /\ UNCHANGED store

\* ... loaded in any case, and sent to the server.
LoadNewOverlay(r) ==
    /\ pc[r] = "loadNewOverlay"
    /\ store' = [store EXCEPT !.loaded = ctx[r].v, !.inbox = Append(@, ctx[r].v)]
    /\ Goto(r, "ok")
    /\ UNCHANGED ctx

\* agentClient.js: a message with a payload that has a version.
ReceiveNewOverlay(r) ==
    /\ Sent(r, "receive") /\ store.inbox # <<>>
    /\ LET v == Head(store.inbox)
       IN  /\ store' = [store EXCEPT !.inbox = Tail(@)]
           /\ Carry(r, [v |-> v, cached |-> 0, then |-> "ok"])
           /\ Goto(r, IF AlreadyApplied(v) THEN "ok" ELSE "getCredentials")

\* A process dies and starts again: the server, ...
RestartServer(r) ==
    /\ "restart" \in scene.ops /\ pc[r] = "idle"
    /\ Cardinality({q \in Reqs : pc[q] # "idle"}) < scene.requests
    /\ ServerStarts
    /\ pc' = [Kill(OfServer) EXCEPT ![r] = "ok"]
    /\ UNCHANGED ctx

\* ... or the agent, which loads the overlay that was saved; it does not come up
\* while that one does not fit what it starts with.
RestartAgent(r) ==
    LET o == store.overlays[Cached]
    IN  /\ {"restart", "agent"} \subseteq scene.ops /\ pc[r] = "idle"
        /\ Cardinality({q \in Reqs : pc[q] # "idle"}) < scene.requests
        /\ Cached # 0 => LocationsFit(Fresh, o) /\ EndpointsFit(Fresh, o)
        /\ store' = [store EXCEPT !.loaded = Cached,
                                  !.inbox = IF Cached = 0 THEN <<>> ELSE <<Cached>>]
        /\ pc' = [Kill(OfAgent) EXCEPT ![r] = "ok"]
        /\ UNCHANGED ctx

OverlayStep(r) ==
    \/ RefuseOverlay(r) \/ ApplyOverlay(r) \/ ApplyHalf(r)
    \/ SaveOverlay(r) \/ SaveVersion(r)
    \/ Poll(r) \/ LoadRemoteOverlay(r) \/ PatchRemote(r)
    \/ ReceivePush(r) \/ SavePushed(r)
    \/ OnNewOverlay(r) \/ LoadNewOverlay(r) \/ ReceiveNewOverlay(r)
    \/ RestartServer(r) \/ RestartAgent(r)

OverlayNext ==
    /\ In("overlay")
    /\ Publish \/ \E r \in Reqs : OverlayStep(r) \/ Die(r)
    /\ UNCHANGED scene

-----------------------------------------------------------------------------
(* Properties *)

\* The key of the latest overlay names one that is stored, wherever a process
\* dies and whichever messages are handled side by side.
LatestIsThere == In("overlay") /\ db.latest # 0 => db.latest \in db.saved

\* Wherever an overlay is given up, every endpoint leads to a location that is
\* configured, and the version tells the truth: the endpoints are those of the
\* overlay whose version is live, and so is all else unless the overlay that the
\* accounts and locations are of was left half-way, as one of its endpoints,
\* or replicatorEndpoint, leads nowhere.
LiveIsWhole ==
    In("overlay") =>
        /\ LeadSomewhere(live.ends, live.locs)
        /\ live.version # 0 =>
            LET o == store.overlays[live.version]
            IN  \A h \in Hosts : o.ends[h] # None => live.ends[h] = o.ends[h]
        /\ live.accounts # 0 =>
            LET o == store.overlays[live.accounts]
            IN  /\ o.locs # {} => live.locs = o.locs
                /\ live.accounts # live.version => ~EndpointsFit(live, o)
        /\ live.accounts = 0 => live = Fresh

\* While overlays are handled one at a time, as when the server polls, a
\* server that runs never goes back to an older one.
LiveGoesForward ==
    [][In("overlay") /\ scene.sequential =>
        live'.version >= live.version \/ live' = Fresh]_vars

\* A server that polls has no older overlay saved over a newer one, even when
\* the API answers with an older one.
SavedGoesForward ==
    [][In("overlay") /\ "poll" \in scene.ops /\ scene.sequential =>
        db'.latest >= db.latest]_vars

\* A poll that ends well leaves the server with the overlay that it would load
\* after a restart.
PolledRunsTheSaved ==
    [][In("overlay") /\ "poll" \in scene.ops /\ scene.sequential =>
        \A r \in Reqs : Running(r) /\ pc'[r] = "ok" => live'.version = db'.latest]_vars

\* What is saved can be loaded, and what is live is one overlay.
OverlayIsWhole == LatestIsThere /\ LiveIsWhole

\* Overlays go forward, live and saved, and the two meet.
OverlayGoesForward == LiveGoesForward /\ SavedGoesForward /\ PolledRunsTheSaved
=============================================================================
