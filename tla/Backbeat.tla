------------------------------- MODULE Backbeat -------------------------------
(***************************************************************************)
(* lib/routes/routeBackbeat.js: the routes by which the replication and    *)
(* lifecycle services (external) read and write the record of a version,   *)
(* store and delete data, and work on objects of other storage services.   *)
(* A request of the model is a task of such a service: the requests that   *)
(* it makes of this server, with those of other tasks in between.          *)
(***************************************************************************)
EXTENDS Requests

\* Backends of other services that keep no versions (constants.js), and one
\* that does.
Unversioned == {"azure", "gcp"}
Backends == Unversioned \cup {"aws_s3"}

\* Locations: those a version had, and one for each task that stores data.
ReplicaLocs == {"old1", "old2"} \cup Reqs
ReplicaRecord == [locs: SUBSET ReplicaLocs, meta: Reqs \cup {None}]

ASSUME BackbeatAssumption == Reqs \cap {"old1", "old2"} = {} /\ None \notin ReplicaRecord

\* record: of the version, on this server; retired: locations that records
\* named once.  remote: an object of another service and its change counter,
\* uploads: the parts of its multipart uploads.
BackbeatInit ==
    /\ In("backbeat")
    /\ \E b \in Backends, there \in BOOLEAN :
        store = [record |-> IF there THEN [locs |-> {"old1", "old2"}, meta |-> None]
                                     ELSE None,
                 data |-> IF there THEN {"old1", "old2"} ELSE {},
                 retired |-> {}, backend |-> b,
                 remote |-> [there |-> there, changed |-> 0, tags |-> None, doomed |-> FALSE],
                 uploads |-> [r \in Reqs |-> None]]
    /\ pc = [r \in Reqs |-> "idle"]
    /\ ctx = [r \in Reqs |-> None]

InHandler(r) == pc[r] \in {"writeRecord", "deleteOld", "tagUnmodified"}

\* Scenes may have the services send one request at a time for a version.
Free(r) == "oneRequest" \in scene.ops => \A q \in Reqs \ {r} : ~InHandler(q)

Ends(r) == Goto(r, "ok") /\ UNCHANGED ctx
Locs == IF store.record = None THEN {} ELSE store.record.locs

-----------------------------------------------------------------------------
(* Data and metadata of this server *)

\* Mutant: one location that is gone is enough.
SomeKeyChanged(prev, curr) == prev = {} \/ ~(prev \subseteq curr)

\* Mutant: no old location is ever deleted.
NeverChanged(prev, curr) == FALSE

\* Nothing that the new record still names is deleted.
LocationKeysHaveChanged(prev, curr) == prev = {} \/ prev \cap curr = {}

\* getMetadata; a task that moves data starts from the record it finds.
GetMetadata(r) ==
    \E op \in {"move", "updateStatus", "moveSome"} :
        /\ Sent(r, op) /\ Free(r)
        /\ op # "move" => store.record # None
        /\ Carry(r, [op |-> op, found |-> Locs, locs |-> Locs, obj |-> None, meta |-> r])
        /\ Goto(r, IF op = "updateStatus" THEN "putMetadata" ELSE "putData")
        /\ UNCHANGED store

\* putData: a digest that does not match leaves the data behind.
PutData(r) ==
    /\ pc[r] = "putData" /\ Free(r)
    /\ store' = [store EXCEPT !.data = @ \cup {r}]
    /\ \/ /\ scene.deaths
          /\ Goto(r, "failed")
          /\ UNCHANGED ctx
       \/ /\ Goto(r, "putMetadata")
          /\ Carry(r, [ctx[r] EXCEPT !.locs =
                 IF ctx[r].op = "moveSome" THEN (@ \ {"old1"}) \cup {r} ELSE {r}])

\* A replication of metadata alone takes what it finds on this server.
ReplicateMetadata(r) ==
    /\ Sent(r, "metadataOnly")
    /\ Carry(r, [op |-> "metadataOnly", found |-> {}, locs |-> {}, obj |-> None, meta |-> r])
    /\ Goto(r, "putMetadata")
    /\ UNCHANGED store

\* Mutant: the locations that the service sent are stored.
KeepSent(c, obj) == [c EXCEPT !.obj = obj]

\* Content METADATA: the locations are those of the object found.
WithLocations(c, obj) ==
    [c EXCEPT !.obj = obj, !.locs = IF c.op = "metadataOnly" THEN obj.locs ELSE @]

\* putMetadata: the record is read by metadataValidateBucketAndObj, ...
PutMetadata(r) ==
    /\ pc[r] = "putMetadata" /\ Free(r)
    /\ IF ctx[r].op = "metadataOnly" /\ store.record = None
       THEN Refuse(r)
       ELSE /\ Carry(r, WithLocations(ctx[r], store.record))
            /\ Goto(r, "writeRecord")
            /\ UNCHANGED store

\* ... overwritten ...
PutObjectMD(r) ==
    LET c == ctx[r]
    IN  /\ pc[r] = "writeRecord"
        /\ store' = [store EXCEPT !.record = [locs |-> c.locs, meta |-> c.meta],
                                  !.retired = (@ \cup Locs) \ c.locs]
        /\ IF /\ c.obj # None /\ c.op # "metadataOnly"
              /\ LocationKeysHaveChanged(c.obj.locs, c.locs)
           THEN Goto(r, "deleteOld") ELSE Goto(r, "ok")
        /\ UNCHANGED ctx

\* ... and what it named is deleted, if no location is still in use.
RemoveOldLocations(r) ==
    /\ pc[r] = "deleteOld"
    /\ store' = [store EXCEPT !.data = @ \ ctx[r].obj.locs]
    /\ Ends(r)

\* batchDelete of locations that records named before; one that is gone is fine.
BatchDelete(r) ==
    /\ Sent(r, "batchDelete") /\ Free(r)
    /\ store' = [store EXCEPT !.data = @ \ store.retired]
    /\ Ends(r)

\* deleteObjectFromExpiration: the record goes, then its data.
DeleteObjectFromExpiration(r) ==
    /\ Sent(r, "expiration") /\ Free(r)
    /\ store.record # None
    /\ Carry(r, [op |-> "expiration", obj |-> store.record])
    /\ store' = [store EXCEPT !.record = None, !.retired = @ \cup Locs]
    /\ Goto(r, "deleteOld")

-----------------------------------------------------------------------------
(* Objects of other services *)

\* _checkMultipleBackendRequest may refuse any of these.
Remote(r, op) == Sent(r, op) /\ Goto(r, "ok") /\ UNCHANGED ctx

Change(tags) == [there |-> TRUE, changed |-> store.remote.changed + 1,
                 tags |-> tags, doomed |-> FALSE]

PutRemoteObject(r) ==
    /\ Remote(r, "putobject")
    /\ store' = [store EXCEPT !.remote = Change(r)]

DeleteRemoteObject(r) ==
    /\ Remote(r, "deleteobject")
    /\ store' = [store EXCEPT !.remote.there = FALSE]

\* handleTaggingOperation, with the version that the source's record says.
PutObjectTagging(r) ==
    /\ Remote(r, "puttagging") /\ store.remote.there
    /\ store' = [store EXCEPT !.remote.tags = r]

DeleteObjectTagging(r) ==
    /\ Remote(r, "deletetagging") /\ store.remote.there
    /\ store' = [store EXCEPT !.remote.tags = None]

HeadObject(r) == Remote(r, "headobject") /\ store.remote.there /\ UNCHANGED store

InitiateRemoteUpload(r) ==
    /\ Remote(r, "initiatempu")
    /\ store' = [store EXCEPT !.uploads[r] = {}]

PutRemotePart(r) ==
    /\ Remote(r, "putpart")
    /\ \E u \in Reqs :
        /\ store.uploads[u] # None
        /\ store' = [store EXCEPT !.uploads[u] = @ \cup {r}]

CompleteRemoteUpload(r) ==
    /\ Remote(r, "completempu")
    /\ \E u \in Reqs :
        /\ store.uploads[u] \notin {None, {}}
        /\ store' = [store EXCEPT !.uploads[u] = None, !.remote = Change(u)]

AbortRemoteUpload(r) ==
    /\ Remote(r, "abortmpu")
    /\ \E u \in Reqs :
        /\ store.uploads[u] # None
        /\ store' = [store EXCEPT !.uploads[u] = None]

\* _performConditionalDelete: the service saw the object at some change count.
PerformConditionalDelete(r) ==
    /\ Sent(r, "conditionalDelete")
    /\ \E seen \in 0..store.remote.changed :
           Carry(r, [op |-> "conditionalDelete", seen |-> seen])
    /\ Goto(r, IF store.backend = "azure" THEN "azureDelete" ELSE "askDate")
    /\ UNCHANGED store

\* _azureConditionalDelete: the service compares and deletes in one step.
AzureConditionalDelete(r) ==
    /\ pc[r] = "azureDelete"
    /\ store' = IF store.remote.changed = ctx[r].seen
                THEN [store EXCEPT !.remote.there = FALSE] ELSE store
    /\ Ends(r)

\* Mutant: the dates are compared the wrong way round.
TagOlder(r) ==
    /\ pc[r] = "askDate" /\ store.remote.there
    /\ IF store.remote.changed > ctx[r].seen THEN Goto(r, "tagUnmodified") ELSE Goto(r, "ok")
    /\ UNCHANGED <<store, ctx>>

\* _conditionalTagging asks the other backends for the date first.
ConditionalTagging(r) ==
    /\ pc[r] = "askDate" /\ store.remote.there
    /\ IF store.remote.changed <= ctx[r].seen THEN Goto(r, "tagUnmodified") ELSE Goto(r, "ok")
    /\ UNCHANGED <<store, ctx>>

\* _putTagging marks the object for the other service to delete.
TagUnmodified(r) ==
    /\ pc[r] = "tagUnmodified"
    /\ store' = IF store.remote.there
                THEN [store EXCEPT !.remote.doomed = TRUE] ELSE store
    /\ Ends(r)

\* listLifecycle and the index routes: no state of this server changes.
ReadOnlyRoute(r) == Remote(r, "readOnly") /\ UNCHANGED store

BackbeatStep(r) ==
    \/ GetMetadata(r) \/ PutData(r) \/ ReplicateMetadata(r) \/ PutMetadata(r)
    \/ PutObjectMD(r) \/ RemoveOldLocations(r) \/ BatchDelete(r)
    \/ DeleteObjectFromExpiration(r)
    \/ PutRemoteObject(r) \/ DeleteRemoteObject(r) \/ PutObjectTagging(r)
    \/ DeleteObjectTagging(r) \/ HeadObject(r) \/ InitiateRemoteUpload(r)
    \/ PutRemotePart(r) \/ CompleteRemoteUpload(r) \/ AbortRemoteUpload(r)
    \/ PerformConditionalDelete(r) \/ AzureConditionalDelete(r)
    \/ ConditionalTagging(r) \/ TagUnmodified(r) \/ ReadOnlyRoute(r)

BackbeatNext ==
    /\ In("backbeat")
    /\ \E r \in Reqs : BackbeatStep(r) \/ Die(r)
    /\ UNCHANGED scene

-----------------------------------------------------------------------------
(* Properties *)

\* Tasks that write back the locations they read, or replicate metadata beside
\* other requests, undo what was done in between.
WritesBackStale ==
    \/ scene.ops \cap {"updateStatus", "moveSome"} # {}
    \/ "metadataOnly" \in scene.ops /\ "oneRequest" \notin scene.ops

\* Without those, however tasks, expirations and clean-ups interleave and die,
\* a record names data that is there.
ReplicaHasData ==
    In("backbeat") /\ (scene.sequential \/ ~WritesBackStale) => Locs \subseteq store.data

\* When the services send one request at a time and no task dies, nothing is
\* kept but what the record names; of a record replaced in part, what it named
\* before is left to the clean-up.
ReplicaLeavesNoData ==
    In("backbeat") /\ Quiet /\ ~scene.deaths
        /\ ("oneRequest" \in scene.ops \/ scene.sequential) =>
            store.data \subseteq
                Locs \cup (IF "moveSome" \in scene.ops THEN store.retired ELSE {})

\* Replication and lifecycle tasks neither lose the data of a record nor keep more.
ReplicaDataStands == ReplicaHasData /\ ReplicaLeavesNoData

\* A conditional deletion deletes or marks no object that was changed since the
\* lifecycle service saw it: on azure whatever runs beside it, elsewhere when
\* the tasks wait for one another.
UnmodifiedOnly ==
    [][In("backbeat") /\ (store.backend = "azure" \/ scene.sequential) =>
        \A r \in Reqs :
            /\ pc[r] \in {"azureDelete", "tagUnmodified"} /\ pc'[r] = "ok"
            /\ store'.remote # store.remote
            => store.remote.changed = ctx[r].seen]_vars
=============================================================================
