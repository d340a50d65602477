--------------------------- MODULE ObjectVersioning ---------------------------
(***************************************************************************)
(* The versions of one object key: how PUT, DELETE and the calls that edit *)
(* an object's metadata map S3 versions onto a master key and version keys *)
(* of the metadata engine, in the null version compatibility mode this     *)
(* branch runs in (lib/Config.js sets nullVersionCompatMode).              *)
(*                                                                         *)
(* A request is a handler run: pc is the backend call it makes next, ctx   *)
(* what it carries from call to call.  Every call is one atomic step.  The *)
(* engine (external) follows docs/ARCHITECTURE.rst.                        *)
(***************************************************************************)
EXTENDS Integers, FiniteSets

CONSTANTS
    Reqs,         \* requests, each run once; also the data locations
    None,         \* no record, no location, no version identifier
    Statuses,     \* the statuses clients set
    MaxChanges,   \* bound: how many times clients set the status
    Kinds,        \* the kinds of request clients send
    Discipline,   \* what clients wait for, see MayStart and SetStatus
    Crashes,      \* TRUE: a request may be abandoned between two calls
    Follows       \* what a PUT of a version may do to an unversioned master

\* nonVersionedObjId: sorts as older than every generated identifier.
Inf == 0
Vids == Inf..Cardinality(Reqs)

\* vid: versionId, None before versioning; null: isNull; nullVid: nullVersionId.
Rec == [vid: Vids \cup {None}, null: BOOLEAN, nullVid: Vids \cup {None},
        dm: BOOLEAN, loc: Reqs \cup {None}]

AllKinds == {"put", "delete", "deleteVersion", "deleteNull", "edit"}

ASSUME VersioningAssumption ==
    /\ IsFiniteSet(Reqs)
    /\ None \notin Reqs \cup Int \cup AllKinds \cup Rec
    /\ Statuses \subseteq {"Enabled", "Suspended"}
    /\ MaxChanges \in Nat
    /\ Kinds \subseteq AllKinds
    /\ Discipline \in {"free", "quietStatus", "sequential"}
    /\ Crashes \in BOOLEAN
    /\ Follows \subseteq BOOLEAN /\ Follows # {}

VARIABLES
    status,   \* the bucket's versioning status, "none" if never configured
    changes,  \* how many times it was set
    master,   \* the record under the object's name, or None
    vkeys,    \* the record under each version key, or None
    data,     \* the locations the data backend holds
    clock,    \* the last version identifier the engine generated
    pc,       \* the next call of each request
    ctx       \* what each request carries from call to call

engine == <<master, vkeys, clock>>
vars == <<status, changes, master, vkeys, data, clock, pc, ctx>>

Done == {"ok", "failed"}
Labels == {"idle", "storeData", "storeNull", "getNull", "delNull", "putMD",
           "findNull",
           "delMD", "editMD", "delData"} \cup Done
Running(r) == pc[r] \notin {"idle"} \cup Done

\* obj: the object record validation read; doomed: locations to delete.
Context == [kind: AllKinds \cup {None}, status: {"none", "Enabled", "Suspended"},
            obj: Rec \cup {None}, doomed: SUBSET Reqs]

Init ==
    /\ status = "none"
    /\ changes = 0
    /\ master = None
    /\ vkeys = [v \in Vids |-> None]
    /\ data = {}
    /\ clock = Inf
    /\ pc = [r \in Reqs |-> "idle"]
    /\ ctx = [r \in Reqs |->
                [kind |-> None, status |-> "none", obj |-> None, doomed |-> {}]]

-----------------------------------------------------------------------------
(* The metadata engine *)

\* GET of a version: its key, or the master when that is the version.
GetVersion(v) ==
    CASE vkeys[v] # None -> vkeys[v]
      [] vkeys[v] = None /\ master # None /\ master.vid = v -> master
      [] OTHER -> None

\* PUT with no option writes the master alone.
PutMaster(rec) == master' = rec /\ UNCHANGED <<vkeys, clock>>

\* PUT with versionId '' writes the master alone, under a fresh identifier.
PutNullMaster(rec) ==
    /\ clock' = clock + 1
    /\ master' = [rec EXCEPT !.vid = clock']
    /\ UNCHANGED vkeys

\* PUT with versioning: true writes a new version and the master.
PutNewVersion(rec) ==
    /\ clock' = clock + 1
    /\ master' = [rec EXCEPT !.vid = clock']
    /\ vkeys' = [vkeys EXCEPT ![clock'] = master']

\* PUT with a versionId writes that version, and the master if it is not more
\* recent; an unversioned master is overwritten or left, as Follows says.
MasterFollows(v) ==
    CASE master = None -> {TRUE}
      [] master # None -> IF master.vid = None THEN Follows ELSE {v >= master.vid}

PutVersion(v, rec) ==
    /\ vkeys' = [vkeys EXCEPT ![v] = rec]
    /\ \E follows \in MasterFollows(v) : master' = IF follows THEN rec ELSE master
    /\ UNCHANGED clock

\* DELETE with no option removes the master alone.
DeleteMaster == master' = None /\ UNCHANGED <<vkeys, clock>>

Latest(keys) ==
    LET live == {v \in Vids : keys[v] # None}
    IN  IF live = {} THEN None
        ELSE keys[CHOOSE v \in live : \A w \in live : w <= v]

\* DELETE with a versionId removes that version; a master that was this
\* version is repaired from what is left.
DeleteVersion(v) ==
    /\ vkeys' = [vkeys EXCEPT ![v] = None]
    /\ master' = IF master # None /\ master.vid = v THEN Latest(vkeys') ELSE master
    /\ UNCHANGED clock

-----------------------------------------------------------------------------
(* lib/api/apiUtils/object/versioning.js *)

IsNull(mst) == mst # None /\ (mst.null \/ mst.vid = None)

\* store: the identifier under which to store the null version; del: the null
\* version to delete; delData: its data as well; doomed: data of the master;
\* nullVid: the reference to keep in the new record.
Plan(store, del, delData, doomed, nullVid) ==
    [store |-> store, del |-> del, delData |-> delData, doomed |-> doomed,
     nullVid |-> nullVid]

\* Mutant: a delete marker has a location.
LocationOfMarkers(rec) == IF rec = None THEN {} ELSE {rec.loc}

LocationOf(rec) == IF rec = None THEN {} ELSE {rec.loc} \ {None}

\* Mutant: a version key of the null master is left behind.
SuspendedPlanKeepsKey(mst) ==
    CASE IsNull(mst)                -> Plan(None, None, FALSE, LocationOf(mst), None)
      [] mst # None /\ ~IsNull(mst) -> Plan(None, mst.nullVid, TRUE, {}, None)
      [] mst = None                 -> Plan(None, None, FALSE, {}, None)

\* Mutant: the null version is deleted without its data.
SuspendedPlanKeepsData(mst) ==
    CASE IsNull(mst)                -> Plan(None, IF mst.null THEN mst.vid ELSE None,
                                            FALSE, LocationOf(mst), None)
      [] mst # None /\ ~IsNull(mst) -> Plan(None, mst.nullVid, FALSE, {}, None)
      [] mst = None                 -> Plan(None, None, FALSE, {}, None)

\* A suspended bucket also looks for a null key when the master refers to no
\* null version; there is none in compatibility mode.
SuspendedPlan(mst) ==
    CASE IsNull(mst)                -> Plan(None, IF mst.null THEN mst.vid ELSE None,
                                            FALSE, LocationOf(mst), None)
      [] mst # None /\ ~IsNull(mst) -> Plan(None, mst.nullVid, TRUE, {}, None)
      [] mst = None                 -> Plan(None, None, FALSE, {}, None)

NullVersionId(mst) == IF mst.null THEN mst.vid ELSE Inf

\* Mutant: the data of the null version is deleted as if it were overwritten.
EnabledPlanDeletesData(mst) ==
    CASE mst = None                 -> Plan(None, None, FALSE, {}, None)
      [] IsNull(mst)                -> Plan(NullVersionId(mst), None, FALSE,
                                            LocationOf(mst), NullVersionId(mst))
      [] mst # None /\ ~IsNull(mst) -> Plan(None, None, FALSE, {}, mst.nullVid)

\* Mutant: the reference to the null version is not handed down.
EnabledPlanForgetsNull(mst) ==
    CASE mst = None                 -> Plan(None, None, FALSE, {}, None)
      [] IsNull(mst)                -> Plan(NullVersionId(mst), None, FALSE, {},
                                            NullVersionId(mst))
      [] mst # None /\ ~IsNull(mst) -> Plan(None, None, FALSE, {}, None)

\* Mutant: the null version is not stored before it is overwritten.
EnabledPlanLosesNull(mst) ==
    Plan(None, None, FALSE, {}, IF mst = None THEN None ELSE mst.nullVid)

EnabledPlan(mst) ==
    CASE mst = None                 -> Plan(None, None, FALSE, {}, None)
      [] IsNull(mst)                -> Plan(NullVersionId(mst), None, FALSE, {},
                                            NullVersionId(mst))
      [] mst # None /\ ~IsNull(mst) -> Plan(None, None, FALSE, {}, mst.nullVid)

\* processVersioningState, and versioningPreprocessing without versioning.
PlanOf(stat, mst) ==
    CASE stat = "none"      -> Plan(None, None, FALSE, LocationOf(mst), None)
      [] stat = "Suspended" -> SuspendedPlan(mst)
      [] stat = "Enabled"   -> EnabledPlan(mst)

\* versioningPreprocessing makes its calls in series, each if it is needed.
FirstCall(plan) ==
    CASE plan.store # None                  -> "storeNull"
      [] plan.del # None /\ plan.delData    -> "getNull"
      [] plan.del # None /\ ~plan.delData   -> "delNull"
      [] plan.store = None /\ plan.del = None -> "putMD"

MyPlan(r) == PlanOf(ctx[r].status, ctx[r].obj)

-----------------------------------------------------------------------------
(* Requests that arrive *)

Quiet == \A r \in Reqs : ~Running(r)

\* "sequential" clients wait for each answer before they go on.
MayStart(r, kind) ==
    /\ pc[r] = "idle"
    /\ kind \in Kinds
    /\ Discipline = "sequential" => Quiet

Enter(r, kind, obj, label) ==
    /\ ctx' = [ctx EXCEPT ![r] = [kind |-> kind, status |-> status, obj |-> obj,
                                  doomed |-> {}]]
    /\ pc' = [pc EXCEPT ![r] = label]
    /\ UNCHANGED <<status, changes, data, engine>>

\* PutObject reads the bucket and the master in one call.
StartPut(r) ==
    /\ MayStart(r, "put")
    /\ Enter(r, "put", master, "storeData")

\* DeleteObject without a version: a plain delete before versioning, later a
\* delete marker, even over nothing.
StartDelete(r) ==
    /\ MayStart(r, "delete")
    /\ Enter(r, "delete", master,
             CASE status = "none" /\ master = None -> "failed"
               [] status = "none" /\ master # None -> "delMD"
               [] status # "none" -> FirstCall(PlanOf(status, master)))

\* DeleteObject of a version by its identifier; "null" names the null ones.
StartDeleteVersion(r, v) ==
    /\ MayStart(r, "deleteVersion")
    /\ GetVersion(v) # None
    /\ ~GetVersion(v).null
    /\ Enter(r, "deleteVersion", GetVersion(v), "delMD")

\* DeleteObject of the null version: getNullVersionFromMaster reads the master
\* and then, if it is another version, the version the master refers to.
StartDeleteNull(r) ==
    /\ MayStart(r, "deleteNull")
    /\ Enter(r, "deleteNull", master,
             CASE master = None -> "failed"
               [] IsNull(master) -> "delMD"
               [] master # None /\ ~IsNull(master) ->
                    IF master.nullVid = None THEN "failed" ELSE "findNull")

\* PutObjectTagging, DeleteObjectTagging, PutObjectAcl, PutObjectRetention and
\* PutObjectLegalHold of the current version, which no delete marker takes.
StartEdit(r) ==
    /\ MayStart(r, "edit")
    /\ Enter(r, "edit", master, IF master = None \/ master.dm THEN "failed" ELSE "editMD")

\* PutBucketVersioning; "quietStatus" clients stop writing while they change it.
SetStatus(s) ==
    /\ s \in Statuses
    /\ s # status
    /\ changes < MaxChanges
    /\ Discipline # "free" => Quiet
    /\ status' = s
    /\ changes' = changes + 1
    /\ UNCHANGED <<engine, data, pc, ctx>>

-----------------------------------------------------------------------------
(* The calls of a running request *)

Go(r, from, to) == pc[r] = from /\ pc' = [pc EXCEPT ![r] = to]

\* Mutant: the data of the master is deleted before the master is overwritten.
StoreDataDeletesFirst(r) ==
    /\ Go(r, "storeData", FirstCall(MyPlan(r)))
    /\ data' = (data \ MyPlan(r).doomed) \cup {r}
    /\ UNCHANGED <<status, changes, engine, ctx>>

StoreData(r) ==
    /\ Go(r, "storeData", FirstCall(MyPlan(r)))
    /\ data' = data \cup {r}
    /\ UNCHANGED <<status, changes, engine, ctx>>

\* _storeNullVersionMD: a copy of the master under a version key.
StoreNull(r) ==
    LET v == MyPlan(r).store
    IN  /\ Go(r, "storeNull", "putMD")
        /\ PutVersion(v, [ctx[r].obj EXCEPT !.vid = v, !.null = TRUE])
        /\ UNCHANGED <<status, changes, data, ctx>>

\* _prepareNullVersionDeletion: a null version that is gone is left alone.
GetNull(r) ==
    LET nullMD == GetVersion(MyPlan(r).del)
    IN  /\ Go(r, "getNull", IF nullMD = None THEN "putMD" ELSE "delNull")
        /\ ctx' = [ctx EXCEPT ![r].doomed = LocationOf(nullMD)]
        /\ UNCHANGED <<status, changes, data, engine>>

\* _deleteNullVersionMD: NoSuchKey is no error to the caller.
DelNull(r) ==
    /\ Go(r, "delNull", "putMD")
    /\ DeleteVersion(MyPlan(r).del)
    /\ UNCHANGED <<status, changes, data, ctx>>

AfterMD(doomed) == IF doomed = {} THEN "ok" ELSE "delData"

\* Mutant: a new version is written under the master alone.
PutMDMasterOnly(r) ==
    LET plan   == MyPlan(r)
        marker == ctx[r].kind = "delete"
        doomed == ctx[r].doomed \cup plan.doomed
        rec    == [vid |-> None, null |-> ctx[r].status = "Suspended",
                   nullVid |-> plan.nullVid, dm |-> marker,
                   loc |-> IF marker THEN None ELSE r]
    IN  /\ Go(r, "putMD", AfterMD(doomed))
        /\ IF ctx[r].status = "none" THEN PutMaster(rec) ELSE PutNullMaster(rec)
        /\ ctx' = [ctx EXCEPT ![r].doomed = doomed]
        /\ UNCHANGED <<status, changes, data>>

\* The record createAndStoreObject gives to metadataStoreObject, which passes
\* the options on to the engine.
PutMD(r) ==
    LET plan   == MyPlan(r)
        marker == ctx[r].kind = "delete"
        doomed == ctx[r].doomed \cup plan.doomed
        rec    == [vid |-> None, null |-> ctx[r].status = "Suspended",
                   nullVid |-> plan.nullVid, dm |-> marker,
                   loc |-> IF marker THEN None ELSE r]
    IN  /\ Go(r, "putMD", AfterMD(doomed))
        /\ \/ ctx[r].status = "none" /\ PutMaster(rec)
           \/ ctx[r].status = "Suspended" /\ PutNullMaster(rec)
           \/ ctx[r].status = "Enabled" /\ PutNewVersion(rec)
        /\ ctx' = [ctx EXCEPT ![r].doomed = doomed]
        /\ UNCHANGED <<status, changes, data>>

FindNull(r) ==
    LET nullMD == GetVersion(ctx[r].obj.nullVid)
    IN  /\ Go(r, "findNull", IF nullMD = None THEN "failed" ELSE "delMD")
        /\ ctx' = [ctx EXCEPT ![r].obj = nullMD]
        /\ UNCHANGED <<status, changes, data, engine>>

\* Mutant: the engine is not told which version to delete.
DelMDNoVersion(r) ==
    /\ Go(r, "delMD", AfterMD(LocationOf(ctx[r].obj)))
    /\ DeleteMaster
    /\ ctx' = [ctx EXCEPT ![r].doomed = LocationOf(ctx[r].obj)]
    /\ UNCHANGED <<status, changes, data>>

\* preprocessingVersioningDelete and services.deleteObject.  When there is
\* nothing left to delete the engine may say so, which ends the request.
DelMD(r) ==
    /\ pc[r] = "delMD"
    /\ LET vid == IF ctx[r].status = "none" THEN None ELSE ctx[r].obj.vid
           present == IF vid = None THEN master # None ELSE GetVersion(vid) # None
       IN  /\ \/ Go(r, "delMD", AfterMD(LocationOf(ctx[r].obj)))
              \/ ~present /\ Go(r, "delMD", "failed")
           /\ IF vid = None THEN DeleteMaster ELSE DeleteVersion(vid)
    /\ ctx' = [ctx EXCEPT ![r].doomed = LocationOf(ctx[r].obj)]
    /\ UNCHANGED <<status, changes, data>>

\* The whole record read at the start is written back.
EditMD(r) ==
    LET rec == ctx[r].obj
    IN  /\ Go(r, "editMD", "ok")
        /\ IF rec.vid = None THEN PutMaster(rec) ELSE PutVersion(rec.vid, rec)
        /\ UNCHANGED <<status, changes, data, ctx>>

\* data.batchDelete.
DelData(r) ==
    /\ Go(r, "delData", "ok")
    /\ data' = data \ ctx[r].doomed
    /\ UNCHANGED <<status, changes, engine, ctx>>

\* The process dies, or a backend call fails.
Abandon(r) ==
    /\ Crashes
    /\ Running(r)
    /\ pc' = [pc EXCEPT ![r] = "failed"]
    /\ UNCHANGED <<status, changes, data, engine, ctx>>

Start(r) ==
    \/ StartPut(r) \/ StartDelete(r) \/ StartDeleteNull(r) \/ StartEdit(r)
    \/ \E v \in Vids : StartDeleteVersion(r, v)

Step(r) ==
    \/ StoreData(r) \/ StoreNull(r) \/ GetNull(r) \/ DelNull(r) \/ PutMD(r)
    \/ FindNull(r) \/ DelMD(r) \/ EditMD(r) \/ DelData(r)

Finished == \A r \in Reqs : pc[r] \in Done

Next ==
    \/ \E r \in Reqs : Start(r) \/ Step(r) \/ Abandon(r)
    \/ \E s \in Statuses : SetStatus(s)
    \/ Finished /\ UNCHANGED vars

Spec == Init /\ [][Next]_vars

-----------------------------------------------------------------------------
(* Properties *)

TypeOK ==
    /\ status \in {"none", "Enabled", "Suspended"}
    /\ changes \in 0..MaxChanges
    /\ master \in Rec \cup {None}
    /\ vkeys \in [Vids -> Rec \cup {None}]
    /\ data \subseteq Reqs
    /\ clock \in Vids
    /\ pc \in [Reqs -> Labels]
    /\ ctx \in [Reqs -> Context]

Records == ({master} \cup {vkeys[v] : v \in Vids}) \ {None}

\* The version a client sees in a record.
Seen(rec) == [vid |-> IF rec.vid = None THEN Inf ELSE rec.vid,
              null |-> rec.null \/ rec.vid = None, dm |-> rec.dm, loc |-> rec.loc]

\* What clients see is the history docs/ARCHITECTURE.rst describes: storing a
\* null version apart, deleting an old one and repairing the master change
\* nothing they can tell, and each request takes effect in one step.
Abstract == INSTANCE S3Versions WITH
    Locs <- Reqs, versions <- {Seen(rec) : rec \in Records}
Implements == Abstract!AbsSpec

\* There is at most one null version, whichever keys hold copies of it.
OneNull == Abstract!OneNullVersion

\* Every version a client can read has its data: a PUT deletes only what it
\* replaced, also when others write between its calls or it dies.
NoDangling == \A rec \in Records : rec.loc # None => rec.loc \in data

\* The master key is a copy of the latest version: plain reads and listings,
\* which see only the master, miss nothing newer.
MasterIsLatest ==
    Records # {} => /\ master # None
                    /\ \A rec \in Records : Seen(rec).vid <= Seen(master).vid

\* The same, asked only when no request is running.
MasterIsLatestAtRest == Quiet => MasterIsLatest

\* The version getNullVersionFromMaster returns.
NullFound ==
    CASE master = None                     -> None
      [] IsNull(master)                    -> master
      [] master # None /\ ~IsNull(master)  ->
           IF master.nullVid = None THEN None ELSE GetVersion(master.nullVid)

\* When nothing runs, a null version can be read as version "null", however
\* many writes and deletes have since handed its reference from one master to
\* the next.
NullReachable ==
    Quiet => \A rec \in Records :
        Seen(rec).null => NullFound # None /\ Seen(NullFound) = Seen(rec)

\* When nothing runs, no data is kept that no version refers to.
NoOrphans == Quiet => data \subseteq {rec.loc : rec \in Records}

\* The records of a key are in order: the latest version is the master, there
\* is one null version at most, and it can be found.
RecordsInOrder == OneNull /\ MasterIsLatest /\ NullReachable

\* Versions and data name each other.
DataStands == NoDangling /\ NoOrphans

\* A version whose PUT was acknowledged while versioning was enabled is there
\* until a request names it for deletion.
AcknowledgedKept ==
    \A r \in Reqs :
        /\ ctx[r].kind = "put"
        /\ ctx[r].status = "Enabled"
        /\ pc[r] = "ok"
        => \/ \E rec \in Records : rec.loc = r
           \/ \E q \in Reqs : ctx[q].kind = "deleteVersion" /\ ctx[q].obj.loc = r

\* What a PUT overwrote without versioning does not come back once the PUT has
\* been acknowledged.
OverwrittenForGood ==
    \A r \in Reqs :
        /\ ctx[r].kind = "put"
        /\ ctx[r].status # "Enabled"
        /\ pc[r] = "ok"
        /\ IsNull(ctx[r].obj)
        => \A rec \in Records : rec.loc = None \/ rec.loc # ctx[r].obj.loc
=============================================================================
