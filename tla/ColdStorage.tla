----------------------------- MODULE ColdStorage -----------------------------
(***************************************************************************)
(* lib/api/apiUtils/object/coldStorage.js and its callers: one version     *)
(* that was archived in a cold location.  A client asks for its            *)
(* restoration, the restore service (external) puts the data back, and the *)
(* lifecycle service (external) takes it away again when the time is over. *)
(***************************************************************************)
EXTENDS Requests

LastDay == 3            \* bound on the clock
UnscaledDay == 2        \* a day of the calendar, in ticks of the clock
DaysAsked == 1..2

clock == store.clock
Cold == "cold"

\* What a version's record says of its archive: where its data is, since when
\* and for how many days it is asked for, when it was restored, until when.
MaybeTime == Nat \cup {None}
ColdPlaces == {{Cold}} \cup {{r} : r \in Reqs}
ColdRecord == [locs: ColdPlaces, requestedAt: MaybeTime, days: DaysAsked \cup {None},
               completedAt: MaybeTime, willExpireAt: MaybeTime, shown: MaybeTime]

ASSUME ColdAssumption == Cold \notin Reqs /\ None \notin Nat \cup ColdRecord

Archived == [locs |-> {Cold}, requestedAt |-> None, days |-> None,
             completedAt |-> None, willExpireAt |-> None, shown |-> None]

\* day: the length of a day that the configuration's time options ask for.
ColdInit ==
    /\ In("cold")
    /\ \E d \in 1..UnscaledDay :
        store = [version |-> Archived, data |-> {Cold}, clock |-> 0, day |-> d]
    /\ pc = [r \in Reqs |-> "idle"]
    /\ ctx = [r \in Reqs |-> None]

PassTime ==
    /\ clock < LastDay
    /\ store' = [store EXCEPT !.clock = @ + 1]
    /\ UNCHANGED <<pc, ctx>>

IsCold(v) == v.locs = {Cold}
IsRestored(v) == v.completedAt # None

\* _validateStartRestore: a restored version may be asked for again until its
\* time is over, a cold one unless it is being restored.
ValidateStartRestore(v) ==
    IF IsRestored(v) THEN v.willExpireAt >= clock
    ELSE IsCold(v) /\ v.requestedAt = None

\* Mutant: a restoration that has ended may end again.
StillAsked(v) == v # None /\ v.requestedAt # None

ValidatePutVersionId(v) ==
    v # None /\ IsCold(v) /\ v.requestedAt # None /\ v.completedAt = None

\* Mutant: the days count from the first request.
ExtendFromFirst(v, days) ==
    LET date == v.requestedAt + days * UnscaledDay
    IN  [v EXCEPT !.days = days, !.willExpireAt = date, !.shown = date]

\* Mutant: clients are told the old date.
ExtendSilently(v, days) ==
    [v EXCEPT !.requestedAt = clock, !.days = days,
              !.willExpireAt = clock + days * UnscaledDay]

\* _updateObjectExpirationDate counts days of the calendar from now.
UpdateObjectExpirationDate(v, days) ==
    LET date == clock + days * UnscaledDay
    IN  [v EXCEPT !.requestedAt = clock, !.days = days,
                  !.willExpireAt = date, !.shown = date]

UpdateRestoreInfo(v, days) == [v EXCEPT !.requestedAt = clock, !.days = days]

\* Mutant: the request is not carried over.
ForgetRequest(r, v) ==
    LET date == clock + v.days * store.day
    IN  [locs |-> {r}, requestedAt |-> None, days |-> None,
         completedAt |-> clock, willExpireAt |-> date, shown |-> date]

\* overwritingVersioning counts days of the configured length.
OverwritingVersioning(r, v) ==
    LET date == clock + v.days * store.day
    IN  [locs |-> {r}, requestedAt |-> v.requestedAt, days |-> v.days,
         completedAt |-> clock, willExpireAt |-> date, shown |-> date]

\* verifyColdObjectAvailable
Available(v) == v # None /\ v.requestedAt # None /\ v.completedAt # None

-----------------------------------------------------------------------------
(* Requests of clients *)

\* objectRestore; the tier may be refused.
ObjectRestore(r) ==
    /\ Sent(r, "restoreObject")
    /\ \/ Refuse(r)
       \/ \E days \in DaysAsked :
            LET v == store.version
            IN  /\ v # None /\ ValidateStartRestore(v)
                /\ Carry(r, [op |-> "restoreObject", read |-> v, record |->
                       IF IsRestored(v) THEN UpdateObjectExpirationDate(v, days)
                                        ELSE UpdateRestoreInfo(v, days)])
                /\ Goto(r, "putRestoreInfo")
                /\ UNCHANGED store

\* putObjectMD writes the whole record that was read.
PutRestoreInfo(r) ==
    /\ pc[r] = "putRestoreInfo"
    /\ store' = [store EXCEPT !.version = ctx[r].record]
    /\ Goto(r, "ok")
    /\ UNCHANGED ctx

\* objectGet, objectCopy and objectPutCopyPart of an available version.
GetRestored(r) ==
    /\ Sent(r, "objectGet")
    /\ IF Available(store.version)
       THEN /\ Carry(r, [op |-> "objectGet", record |-> store.version])
            /\ Goto(r, "readRestored") /\ UNCHANGED store
       ELSE Refuse(r)

ReadRestored(r) ==
    /\ pc[r] = "readRestored"
    /\ Goto(r, IF ctx[r].record.locs \subseteq store.data THEN "ok" ELSE "failed")
    /\ UNCHANGED <<store, ctx>>

\* objectHead with getAmzRestoreResHeader.
HeadRestore(r) ==
    /\ Sent(r, "objectHead") /\ store.version # None
    /\ Carry(r, [op |-> "objectHead", ongoing |-> store.version.requestedAt # None
                                                  /\ store.version.completedAt = None,
                 until |-> store.version.shown])
    /\ Goto(r, "ok")
    /\ UNCHANGED store

\* Mutant: the data goes first.
DeleteDataFirst(r) ==
    /\ Sent(r, "objectDelete") /\ store.version # None
    /\ Carry(r, [op |-> "objectDelete", record |-> store.version])
    /\ store' = [store EXCEPT !.data = @ \ store.version.locs]
    /\ Goto(r, "deleteArchivedData")

\* objectDelete of the version: the record, then its data.
DeleteArchived(r) ==
    /\ Sent(r, "objectDelete") /\ store.version # None
    /\ Carry(r, [op |-> "objectDelete", record |-> store.version])
    /\ store' = [store EXCEPT !.version = None]
    /\ Goto(r, "deleteArchivedData")

DeleteArchivedData(r) ==
    /\ pc[r] = "deleteArchivedData"
    /\ store' = [store EXCEPT !.data = @ \ ctx[r].record.locs]
    /\ Goto(r, "ok")
    /\ UNCHANGED ctx

-----------------------------------------------------------------------------
(* Requests of the services *)

\* objectPut with the header x-scal-s3-version-id.
PutVersion(r) ==
    /\ Sent(r, "putVersion")
    /\ IF ValidatePutVersionId(store.version)
       THEN /\ Carry(r, [op |-> "putVersion", record |-> store.version])
            /\ Goto(r, "storeRestored") /\ UNCHANGED store
       ELSE Refuse(r)

StoreRestored(r) ==
    /\ pc[r] = "storeRestored"
    /\ store' = [store EXCEPT !.data = @ \cup {r}]
    /\ Goto(r, "putRestored")
    /\ UNCHANGED ctx

PutRestored(r) ==
    /\ pc[r] = "putRestored"
    /\ store' = [store EXCEPT !.version = OverwritingVersioning(r, ctx[r].record)]
    /\ Goto(r, "ok")
    /\ UNCHANGED ctx

\* The lifecycle service finds the time over: the version is cold again.
ExpireRestored(r) ==
    /\ Sent(r, "expire")
    /\ store.version # None /\ IsRestored(store.version)
    /\ store.version.willExpireAt < clock
    /\ store' = [store EXCEPT !.version = Archived, !.data = @ \ store.version.locs]
    /\ Goto(r, "ok")
    /\ UNCHANGED ctx

ColdStep(r) ==
    \/ ObjectRestore(r) \/ PutRestoreInfo(r) \/ GetRestored(r) \/ ReadRestored(r)
    \/ HeadRestore(r) \/ DeleteArchived(r) \/ DeleteArchivedData(r)
    \/ PutVersion(r) \/ StoreRestored(r) \/ PutRestored(r) \/ ExpireRestored(r)

ColdNext ==
    /\ In("cold")
    /\ PassTime \/ \E r \in Reqs : ColdStep(r) \/ Die(r)
    /\ UNCHANGED scene

-----------------------------------------------------------------------------
(* Properties *)

\* An expiry date is told exactly when the version is restored, and it is the
\* one that the lifecycle service goes by; a restored version is not cold.
ColdTypeOK ==
    In("cold") /\ store.version # None =>
        LET v == store.version
        IN  /\ v.shown = v.willExpireAt
            /\ IsRestored(v) <=> v.willExpireAt # None
            /\ IsRestored(v) <=> ~IsCold(v)
            /\ v.locs \in SUBSET (Reqs \cup {Cold})

\* A version that may be read names data that is there, unless a request to
\* restore it longer, or to restore it at all, overlaps one that takes the data
\* away: it writes back the record it read.
RestoredHasData ==
    /\ In("cold")
    /\ scene.sequential \/ scene.ops \cap {"expire", "objectDelete"} = {}
    /\ Available(store.version)
    => store.version.locs \subseteq store.data

\* When requests wait for one another, no restored data is forgotten: each is
\* named by the record until it is deleted.
RestoredIsNamed ==
    In("cold") /\ scene.sequential /\ ~scene.deaths /\ Quiet =>
        store.data \ {Cold} \subseteq
            (IF store.version = None THEN {} ELSE store.version.locs)

\* Asking for no fewer days than before, of the length that is configured,
\* never brings the end of the restoration forward.
AskingAgainExtends ==
    [][\A r \in Reqs :
        /\ In("cold") /\ scene.sequential
        /\ pc[r] = "putRestoreInfo" /\ pc'[r] = "ok"
        /\ IsRestored(ctx[r].read) /\ ctx[r].record.days >= ctx[r].read.days
        => store'.version.willExpireAt >= store.version.willExpireAt]_vars

\* A request to restore that was answered is not forgotten: the version is
\* being restored, or restored, until it is deleted or its time is over.
RestoreRemembered ==
    /\ In("cold") /\ scene.ops \cap {"expire", "objectDelete"} = {}
    /\ \E r \in Reqs : Answered(r) /\ ctx[r].op = "restoreObject"
    => store.version # None /\ store.version.requestedAt # None

\* A restoration that was asked for is under way or done, its dates agree, and
\* its data and the record name each other.
RestorationStands ==
    ColdTypeOK /\ RestoredHasData /\ RestoredIsNamed /\ RestoreRemembered
=============================================================================
