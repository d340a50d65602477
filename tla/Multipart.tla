------------------------------- MODULE Multipart -------------------------------
(***************************************************************************)
(* Multipart uploads of one object key of one bucket, on the regular (not  *)
(* external) data backends: initiate, put part, copy part, complete, abort *)
(* and, as the concurrent writer, a plain object PUT.                      *)
(*                                                                         *)
(* A request is a handler run of lib/api: pc is the asynchronous call it   *)
(* makes next and ctx the closure variables it carries from call to call.  *)
(* Each metadata or data call is one atomic step of the backend; between   *)
(* two calls every other request may run, in this process or another.  A   *)
(* request may be abandoned before any of its calls, because the process   *)
(* died or because the backend answered with an error that ends it.        *)
(*                                                                         *)
(* The data backend returns a fresh key for each store, and a request      *)
(* stores data at most once (the several keys of a large copied part are   *)
(* written and deleted together), so the key request r obtains is r.       *)
(***************************************************************************)
EXTENDS Naturals, FiniteSets

CONSTANTS
    Reqs,          \* requests, each run once; also the data location keys
    Uploads,       \* upload identifiers
    Parts,         \* part numbers
    None,          \* no location, no version, no part
    MaxCompletes,  \* bound: attempts to complete one upload
    Clients        \* the situations a behaviour may take place in

AllKinds == {"putPart", "copyPart", "complete", "abort", "put"}

ASSUME ConstantsAssumption ==
    /\ None \notin Reqs \cup Uploads \cup Parts \cup AllKinds
    /\ "overview" \notin Parts
    /\ MaxCompletes \in Nat
    /\ Clients \subseteq [versioned: BOOLEAN, kinds: SUBSET AllKinds,
                          lists: SUBSET ((SUBSET Parts) \ {{}}),
                          lossy: BOOLEAN, requests: Nat,
                          discipline: {"free", "serialEnd", "sequential"}]

VARIABLES
    overview,  \* the overview key of each upload in the shadow bucket
    partMD,    \* the location in each part key of the shadow bucket
    data,      \* the locations the data backend holds
    master,    \* the request whose write is the current version, or None
    versions,  \* the locations of the version each request wrote; {} if none
    pc,        \* the next call of each request
    ctx,       \* what each request carries from call to call
    client     \* the situation of this behaviour, which no step changes

store == <<overview, partMD, data, master, versions>>
vars == <<overview, partMD, data, master, versions, pc, ctx, client>>

Versioned == client.versioned    \* Enabled; FALSE: never configured
Kinds == client.kinds            \* the kinds of request clients send
PartLists == client.lists        \* the part lists of their completes
LossyDeletes == client.lossy     \* deletions whose error is ignored may fail
Discipline == client.discipline  \* how they order requests: MayStart, MayEnd
\* client.requests is the bound on the number of requests sent

Done == {"ok", "failed"}
Labels == {"idle", "getPart", "storePart", "putPartMD", "checkFlag", "delOld",
           "validate", "mark", "list", "storeObj", "delSnap", "delKeys",
           "delExtra", "listAbort", "abortData", "storeData"} \cup Done

\* "new": not yet initiated; "gone": deleted after a complete or an abort.
OverviewStates == {"new", "open", "completing", "gone"}
Exists(u) == overview[u] \in {"open", "completing"}

Context == [kind: AllKinds \cup {None}, upload: Uploads \cup {None},
            part: Parts \cup {None}, old: Reqs \cup {None},
            snap: SUBSET Reqs, chosen: SUBSET Reqs, extra: SUBSET Reqs,
            keys: SUBSET (Parts \cup {"overview"})]

\* The context of a request that has just read what it validates.
Opened(kind, u, p, snap) ==
    [kind |-> kind, upload |-> u, part |-> p, old |-> None,
     snap |-> snap, chosen |-> {}, extra |-> {}, keys |-> {}]

Init ==
    /\ overview = [u \in Uploads |-> "new"]
    /\ partMD = [u \in Uploads |-> [p \in Parts |-> None]]
    /\ data = {}
    /\ master = None
    /\ versions = [r \in Reqs |-> {}]
    /\ pc = [r \in Reqs |-> "idle"]
    /\ ctx = [r \in Reqs |-> Opened(None, None, None, {})]
    /\ client \in Clients

-----------------------------------------------------------------------------
(* Requests that arrive *)

Running(r) == pc[r] \notin {"idle"} \cup Done

\* Clients of a "sequential" system wait for each answer.
MayStart(r, kind) ==
    /\ pc[r] = "idle"
    /\ Cardinality({q \in Reqs : pc[q] # "idle"}) < client.requests
    /\ kind \in Kinds
    /\ Discipline = "sequential" => \A q \in Reqs : ~Running(q)

\* "serialEnd" clients only wait before they complete or abort an upload that
\* another complete or abort is still working on.
MayEnd(u) ==
    Discipline = "serialEnd" =>
        \A q \in Reqs : Running(q) => ctx[q].upload # u
                                      \/ ctx[q].kind \notin {"complete", "abort"}

Attempts(u) ==
    Cardinality({q \in Reqs : ctx[q].kind = "complete" /\ ctx[q].upload = u})

CurrentLocations == IF master = None THEN {} ELSE versions[master]

\* InitiateMultipartUpload: a fresh identifier, one overview key.
Initiate(u) ==
    /\ overview[u] = "new"
    /\ overview' = [overview EXCEPT ![u] = "open"]
    /\ UNCHANGED <<partMD, data, master, versions, pc, ctx>>

\* UploadPart and UploadPartCopy: the overview key must be there.  The copy
\* stores its data before it looks for a part to replace, the put after.
StartPart(r, u, p, kind) ==
    /\ kind \in {"putPart", "copyPart"}
    /\ MayStart(r, kind)
    /\ overview[u] # "new"
    /\ ctx' = [ctx EXCEPT ![r] = Opened(kind, u, p, {})]
    /\ pc' = [pc EXCEPT ![r] = CASE ~Exists(u) -> "failed"
                                 [] Exists(u) /\ kind = "putPart" -> "getPart"
                                 [] OTHER -> "storePart"]
    /\ UNCHANGED store

\* CompleteMultipartUpload: validateDestBucket reads the current version; what
\* it found then is what the request uses to the end.
StartComplete(r, u) ==
    /\ MayStart(r, "complete")
    /\ MayEnd(u)
    /\ overview[u] # "new"
    /\ Attempts(u) < MaxCompletes
    /\ ctx' = [ctx EXCEPT ![r] = Opened("complete", u, None, CurrentLocations)]
    /\ pc' = [pc EXCEPT ![r] = "validate"]
    /\ UNCHANGED store

\* AbortMultipartUpload: an upload that is not there is already aborted.
StartAbort(r, u) ==
    /\ MayStart(r, "abort")
    /\ MayEnd(u)
    /\ overview[u] # "new"
    /\ ctx' = [ctx EXCEPT ![r] = Opened("abort", u, None, {})]
    /\ pc' = [pc EXCEPT ![r] = IF Exists(u) THEN "listAbort" ELSE "ok"]
    /\ UNCHANGED store

\* PutObject on the same key, which also reads the current version first.
StartPut(r) ==
    /\ MayStart(r, "put")
    /\ ctx' = [ctx EXCEPT ![r] = Opened("put", None, None, CurrentLocations)]
    /\ pc' = [pc EXCEPT ![r] = "storeData"]
    /\ UNCHANGED store

-----------------------------------------------------------------------------
(* UploadPart, UploadPartCopy *)

GetExistingPart(r) ==
    /\ pc[r] = "getPart"
    /\ ctx' = [ctx EXCEPT ![r].old = partMD[ctx[r].upload][ctx[r].part]]
    /\ pc' = [pc EXCEPT ![r] = IF ctx[r].kind = "putPart" THEN "storePart"
                                                          ELSE "putPartMD"]
    /\ UNCHANGED store

StorePart(r) ==
    /\ pc[r] = "storePart"
    /\ data' = data \cup {r}
    /\ pc' = [pc EXCEPT ![r] = IF ctx[r].kind = "putPart" THEN "putPartMD"
                                                          ELSE "getPart"]
    /\ UNCHANGED <<overview, partMD, master, versions, ctx>>

PutPartMD(r) ==
    /\ pc[r] = "putPartMD"
    /\ partMD' = [partMD EXCEPT ![ctx[r].upload][ctx[r].part] = r]
    /\ pc' = [pc EXCEPT ![r] = IF ctx[r].old = None THEN "ok" ELSE "checkFlag"]
    /\ UNCHANGED <<overview, data, master, versions, ctx>>

\* Mutant: the flag is not looked at.
IgnoreCompleteInProgress(r) ==
    /\ pc[r] = "checkFlag"
    /\ pc' = [pc EXCEPT ![r] = IF Exists(ctx[r].upload) THEN "delOld" ELSE "failed"]
    /\ UNCHANGED <<store, ctx>>

\* isCompleteMPUInProgress: an error to read the overview ends the request,
\* the flag makes it keep the old data.
CheckCompleteInProgress(r) ==
    /\ pc[r] = "checkFlag"
    /\ pc' = [pc EXCEPT ![r] = CASE overview[ctx[r].upload] = "open" -> "delOld"
                                 [] overview[ctx[r].upload] = "completing" -> "ok"
                                 [] OTHER -> "failed"]
    /\ UNCHANGED <<store, ctx>>

\* Deletes of locs what it can: a failed deletion is only logged.
TryDelete(locs) ==
    \E kept \in SUBSET locs :
        /\ kept # {} => LossyDeletes
        /\ data' = data \ (locs \ kept)

DeleteOldPart(r) ==
    /\ pc[r] = "delOld"
    /\ TryDelete({ctx[r].old})
    /\ pc' = [pc EXCEPT ![r] = "ok"]
    /\ UNCHANGED <<overview, partMD, master, versions, ctx>>

-----------------------------------------------------------------------------
(* CompleteMultipartUpload and PutObject *)

\* Mutant: the overview key is not required.
SkipValidation(r) ==
    /\ pc[r] = "validate"
    /\ pc' = [pc EXCEPT ![r] = "mark"]
    /\ UNCHANGED <<store, ctx>>

ValidateMultipart(r) ==
    /\ pc[r] = "validate"
    /\ pc' = [pc EXCEPT ![r] = IF Exists(ctx[r].upload) THEN "mark" ELSE "failed"]
    /\ UNCHANGED <<store, ctx>>

\* The overview read at validation is written back with completeInProgress,
\* whether or not the key is still there.
MarkForCompletion(r) ==
    /\ pc[r] = "mark"
    /\ overview' = [overview EXCEPT ![ctx[r].upload] = "completing"]
    /\ pc' = [pc EXCEPT ![r] = "list"]
    /\ UNCHANGED <<partMD, data, master, versions, ctx>>

\* Mutant: the listing is not filtered.
EveryPart(u) == Parts

Stored(u) == {p \in Parts : partMD[u][p] # None}
LocationsOf(u, parts) == {partMD[u][p] : p \in parts}

\* Mutant: completes are never taken for replays.
NeverAReplay(prev, curr) == TRUE

\* The replay check compares with the version read at validation only.
LocationKeysHaveChanged(prev, curr) == prev \cap curr = {}

\* Mutant: the overview key is forgotten.
PartKeysOnly(u) == Stored(u)

\* The keys of the shadow bucket that go when the upload ends.
KeysToDelete(u) == Stored(u) \cup {"overview"}

\* retrieveParts, then all the computing up to the next call: a part of the
\* client's list that is not stored ends the request, the stored parts that are
\* not in the list are extra.
RetrieveParts(r, list) ==
    LET u == ctx[r].upload
        chosen == LocationsOf(u, list)
    IN  /\ pc[r] = "list"
        /\ IF list \subseteq Stored(u)
           THEN /\ ctx' = [ctx EXCEPT ![r].chosen = chosen,
                             ![r].extra = LocationsOf(u, Stored(u) \ list),
                             ![r].keys = KeysToDelete(u)]
                /\ pc' = [pc EXCEPT ![r] =
                            IF LocationKeysHaveChanged(ctx[r].snap, chosen)
                            THEN "storeObj" ELSE "delKeys"]
           ELSE /\ pc' = [pc EXCEPT ![r] = "failed"]
                /\ UNCHANGED ctx
        /\ UNCHANGED store

StoreData(r) ==
    /\ pc[r] = "storeData"
    /\ data' = data \cup {r}
    /\ ctx' = [ctx EXCEPT ![r].chosen = {r}]
    /\ pc' = [pc EXCEPT ![r] = "storeObj"]
    /\ UNCHANGED <<overview, partMD, master, versions>>

AfterStore(r) == IF ctx[r].kind = "complete" THEN "delKeys" ELSE "ok"

\* metadataStoreObject: a new current version; without versioning it replaces
\* the former one, whose data, as read at validation, is then deleted.
StoreObject(r) ==
    /\ pc[r] = "storeObj"
    /\ master' = r
    /\ versions' = [q \in Reqs |-> CASE q = r -> ctx[r].chosen
                                     [] q # r /\ Versioned -> versions[q]
                                     [] OTHER -> {}]
    /\ pc' = [pc EXCEPT ![r] = IF ~Versioned /\ ctx[r].snap # {}
                               THEN "delSnap" ELSE AfterStore(r)]
    /\ UNCHANGED <<overview, partMD, data, ctx>>

\* Deletes all of locs and goes on, or only some and fails.
DeleteLocations(r, locs, next) ==
    \E deleted \in SUBSET locs :
        /\ data' = data \ deleted
        /\ pc' = [pc EXCEPT ![r] = IF deleted = locs THEN next ELSE "failed"]

DeleteOverwritten(r) ==
    /\ pc[r] = "delSnap"
    /\ DeleteLocations(r, ctx[r].snap, AfterStore(r))
    /\ UNCHANGED <<overview, partMD, master, versions, ctx>>

\* Mutant: the parts that the client did not list are forgotten.
ForgetExtra(r) == "ok"

AfterKeys(r) == IF ctx[r].extra = {} THEN "ok" ELSE "delExtra"

\* batchDeleteObjectMetadata: the keys go in no particular order.
DeleteMultipartKey(r, k) ==
    LET u == ctx[r].upload
        left == ctx[r].keys \ {k}
    IN  /\ pc[r] = "delKeys"
        /\ k \in ctx[r].keys
        /\ IF k = "overview"
           THEN /\ overview' = [overview EXCEPT ![u] = "gone"]
                /\ UNCHANGED partMD
           ELSE /\ partMD' = [partMD EXCEPT ![u][k] = None]
                /\ UNCHANGED overview
        /\ ctx' = [ctx EXCEPT ![r].keys = left]
        /\ pc' = [pc EXCEPT ![r] = IF left = {} THEN AfterKeys(r) ELSE "delKeys"]
        /\ UNCHANGED <<data, master, versions>>

DeleteExtraParts(r) ==
    /\ pc[r] = "delExtra"
    /\ DeleteLocations(r, ctx[r].extra, "ok")
    /\ UNCHANGED <<overview, partMD, master, versions, ctx>>

-----------------------------------------------------------------------------
(* AbortMultipartUpload; its last step is DeleteMultipartKey *)

GetPartLocations(r) ==
    LET u == ctx[r].upload
    IN  /\ pc[r] = "listAbort"
        /\ ctx' = [ctx EXCEPT ![r].extra = LocationsOf(u, Stored(u)),
                              ![r].keys = KeysToDelete(u)]
        /\ pc' = [pc EXCEPT ![r] = "abortData"]
        /\ UNCHANGED store

DeletePartsData(r) ==
    /\ pc[r] = "abortData"
    /\ TryDelete(ctx[r].extra)
    /\ ctx' = [ctx EXCEPT ![r].extra = {}]
    /\ pc' = [pc EXCEPT ![r] = "delKeys"]
    /\ UNCHANGED <<overview, partMD, master, versions>>

-----------------------------------------------------------------------------
\* The process dies, or a call ends the request with an error.
Abandon(r) ==
    /\ Running(r)
    /\ pc' = [pc EXCEPT ![r] = "failed"]
    /\ UNCHANGED <<store, ctx>>

Arrive(r) ==
    \/ \E u \in Uploads, p \in Parts, k \in Kinds : StartPart(r, u, p, k)
    \/ \E u \in Uploads : StartComplete(r, u) \/ StartAbort(r, u)
    \/ StartPut(r)

Step(r) ==
    \/ GetExistingPart(r) \/ StorePart(r) \/ PutPartMD(r)
    \/ CheckCompleteInProgress(r) \/ DeleteOldPart(r)
    \/ ValidateMultipart(r) \/ MarkForCompletion(r)
    \/ \E list \in PartLists : RetrieveParts(r, list)
    \/ StoreData(r) \/ StoreObject(r) \/ DeleteOverwritten(r)
    \/ \E k \in Parts \cup {"overview"} : DeleteMultipartKey(r, k)
    \/ DeleteExtraParts(r) \/ GetPartLocations(r) \/ DeletePartsData(r)

Next ==
    /\ \/ \E u \in Uploads : Initiate(u)
       \/ \E r \in Reqs : Arrive(r) \/ Step(r) \/ Abandon(r)
    /\ UNCHANGED client

Spec == Init /\ [][Next]_vars

\* node runs a continuation whose call has returned: a request that is not
\* abandoned takes its next step.
FairSpec == Spec /\ \A r \in Reqs : WF_vars(Step(r) /\ UNCHANGED client)

-----------------------------------------------------------------------------
(* Properties *)

\* The variables hold what the code puts in them.
TypeOK ==
    /\ overview \in [Uploads -> OverviewStates]
    /\ partMD \in [Uploads -> [Parts -> Reqs \cup {None}]]
    /\ data \in SUBSET Reqs
    /\ master \in Reqs \cup {None}
    /\ versions \in [Reqs -> SUBSET Reqs]
    /\ pc \in [Reqs -> Labels]
    /\ ctx \in [Reqs -> Context]
    /\ client \in Clients

\* A part upload about to delete the data of the part it replaced deletes
\* nothing that an object version holds, nor anything a complete request has
\* already picked: the part key was overwritten before completeInProgress was
\* read, and a complete lists the parts after it sets completeInProgress.
PutPartSparesCommitted ==
    \A r \in Reqs : pc[r] = "delOld" =>
        \A q \in Reqs : /\ ctx[r].old \notin versions[q]
                        /\ pc[q] = "storeObj" => ctx[r].old \notin ctx[q].chosen

\* Clients that neither abort the upload nor overwrite the object by a PUT.
OnlyUpload == Kinds \cap {"abort", "put"} = {}

\* Every version of the object has all its data, in spite of abandoned, retried
\* and concurrent requests, as long as nobody aborts the upload.
NoDangling == OnlyUpload => \A v \in Reqs : versions[v] \subseteq data

\* No two versions of the object share data: deleting one would break the
\* other.  This is what the replay check of a retried complete is for.
NoSharedData ==
    \A v, w \in Reqs : v # w => versions[v] \cap versions[w] = {}

\* An upload that was completed or aborted never comes back.
GoneForGood ==
    [][\A u \in Uploads : overview[u] = "gone" => overview'[u] = "gone"]_vars

\* When clients wait for each answer and no deletion is lost, and every request
\* so far has succeeded and none runs, the data backend holds what the versions
\* and the pending parts refer to and nothing else.
NoOrphanWhenAllSucceed ==
    /\ Discipline = "sequential" /\ ~LossyDeletes
    /\ \A r \in Reqs : pc[r] \in {"idle", "ok"}
    => data = (UNION {versions[v] : v \in Reqs})
              \cup (UNION {LocationsOf(u, Stored(u)) : u \in Uploads})

\* A complete request that is writing the object ends with the upload removed,
\* unless it fails.
CompletionRemovesUpload ==
    \A r \in Reqs :
        (pc[r] = "storeObj" /\ ctx[r].kind = "complete")
            ~> \/ pc[r] = "failed"
               \/ \E u \in Uploads : ctx[r].upload = u /\ overview[u] = "gone"
=============================================================================
