---------------------------- MODULE BucketLifecycle ----------------------------
(***************************************************************************)
(* One bucket name: its record, its objects, its shadow bucket of          *)
(* multipart uploads and the listing of its owner's buckets, as requests   *)
(* create it, write to it, delete it and die between two metadata calls.   *)
(* A creation marks the record transient until the bucket is listed; a     *)
(* deletion marks it deleted before the bucket is unlisted; the next       *)
(* request that meets a mark finishes the job, or undoes it.               *)
(*                                                                         *)
(* A request is a handler run: pc is the metadata call it makes next, ctx  *)
(* what it carries.  Every call is one atomic step.  Service accounts are  *)
(* not modelled.                                                           *)
(***************************************************************************)
EXTENDS FiniteSets

CONSTANTS
    Reqs,         \* requests, each run once; also the keys they store
    Accounts,     \* the accounts that send them
    None,         \* no record, no request
    Writers,      \* the accounts every bucket's ACL lets write
    Kinds,        \* the kinds of request clients send
    Encrypts,     \* whether a creation may ask for an encrypted bucket
    Legacy,       \* whether creating one's own bucket again succeeds
    Upserts,      \* whether updating a missing record may create it
    Discipline,   \* what clients wait for, see MayStart
    Crashes       \* TRUE: a request may die between two calls

AllKinds == {"create", "put", "putACL", "initiate", "delete", "get", "objectDelete"}

Bucket == [owner: Accounts, flags: SUBSET {"transient", "deleted"}, sse: BOOLEAN]

ASSUME BucketAssumption ==
    /\ IsFiniteSet(Reqs)
    /\ None \notin Reqs \cup Accounts \cup AllKinds \cup Bucket
    /\ Writers \subseteq Accounts
    /\ Kinds \subseteq AllKinds
    /\ Encrypts \subseteq BOOLEAN /\ Encrypts # {}
    /\ Legacy \subseteq BOOLEAN /\ Legacy # {}
    /\ Upserts \subseteq BOOLEAN /\ Upserts # {}
    /\ Discipline \in {"free", "answered", "deletesAlone"}
    /\ Crashes \in BOOLEAN

VARIABLES
    bucket,       \* the bucket's record, or None
    objects,      \* the keys it holds
    shadow,       \* the uploads in its shadow bucket, None if there is none
    usersBucket,  \* TRUE: the users bucket exists
    entries,      \* the accounts under which the users bucket lists it
    kept,         \* history: what the last creation answered, until a deletion
    pc,           \* the next call of each request
    bg,           \* the next call of the deletion it left in the background
    ctx           \* what each request carries from call to call

stored == <<bucket, objects, shadow, usersBucket, entries>>
vars == <<bucket, objects, shadow, usersBucket, entries, kept, pc, bg, ctx>>

Done == {"ok", "failed"}
Labels == {"idle", "createMD", "addEntry", "createUsers", "update", "store",
           "getShadow", "createShadow", "putOverview", "removeObject",
           "checkObjects", "listUploads", "abortUploads", "dropShadow", "flag",
           "delEntry", "delBucket"} \cup Done
Running(r) == pc[r] \notin {"idle"} \cup Done
Deleting(r) == bg[r] # "none" \/ (Running(r) /\ ctx[r].kind = "delete")

\* sse: whether it asks for encryption; md: the record it read or made; key: the
\* object it removes; uploads: the uploads it still has to abort.
Context == [kind: AllKinds \cup {None}, acct: Accounts \cup {None}, sse: BOOLEAN,
            md: Bucket \cup {None}, key: Reqs \cup {None}, uploads: SUBSET Reqs]

Init ==
    /\ bucket = None
    /\ objects = {}
    /\ shadow = None
    /\ usersBucket = FALSE
    /\ entries = {}
    /\ kept = None
    /\ pc = [r \in Reqs |-> "idle"]
    /\ bg = [r \in Reqs |-> "none"]
    /\ ctx = [r \in Reqs |-> [kind |-> None, acct |-> None, sse |-> FALSE,
                              md |-> None, key |-> None, uploads |-> {}]]

-----------------------------------------------------------------------------
(* The first call of every handler reads the record and decides. *)

Marked == bucket # None /\ bucket.flags # {}
MarkedDeleted == bucket # None /\ "deleted" \in bucket.flags

\* bucketShield: the kinds that finish a deletion they meet.
Shielded == {"get", "objectDelete"}
StartsDeletion(kind) == kind = "delete" \/ (kind \in Shielded /\ MarkedDeleted)

\* "answered": clients wait for answers; "deletesAlone": also, a deletion, in
\* the background too, runs alone.
MayStart(kind) ==
    CASE Discipline = "free"         -> TRUE
      [] Discipline = "answered"     -> \A q \in Reqs : ~Running(q)
      [] Discipline = "deletesAlone" ->
            /\ \A q \in Reqs : ~Deleting(q)
            /\ StartsDeletion(kind) => \A q \in Reqs : ~Running(q)

Goto(r, label) == pc' = [pc EXCEPT ![r] = label]

Carry(r, kind, acct, sse, md, key) ==
    ctx' = [ctx EXCEPT ![r] = [@ EXCEPT !.kind = kind, !.acct = acct, !.sse = sse,
                                        !.md = md, !.key = key]]

Starts(r, kind) == pc[r] = "idle" /\ kind \in Kinds /\ MayStart(kind)

\* Mutant: a creation takes over another account's marked bucket.
NobodysBucket(acct) == Marked

OwnMarked(acct) == Marked /\ bucket.owner = acct

\* Mutant: the new record has no owner.
NobodysRecord(acct, flags, sse) == [owner |-> None, flags |-> flags, sse |-> sse]

NewRecord(acct, flags, sse) == [owner |-> acct, flags |-> flags, sse |-> sse]

\* createBucket: no bucket yet, a marked one of this account, finished with
\* the new record, or one that is complete or somebody else's.
CreateRead(r) ==
    /\ Starts(r, "create")
    /\ \E acct \in Accounts, sse \in Encrypts :
         \/ /\ bucket = None
            /\ Carry(r, "create", acct, sse, NewRecord(acct, {"transient"}, sse), None)
            /\ Goto(r, "createMD")
         \/ /\ OwnMarked(acct)
            /\ Carry(r, "create", acct, sse, NewRecord(acct, {}, FALSE), None)
            /\ Goto(r, "addEntry")
         \/ /\ bucket # None /\ ~OwnMarked(acct)
            /\ Carry(r, "create", acct, sse, None, None)
            /\ \E again \in Legacy :
                 Goto(r, IF again /\ bucket.owner = acct THEN "ok" ELSE "failed")
    /\ UNCHANGED <<stored, kept, bg>>

MayWrite(acct) == bucket # None /\ acct \in {bucket.owner} \cup Writers

\* Mutant: whoever may write may undo a deletion.
AnyoneRevives(acct) == MayWrite(acct)

\* Nobody but the owner undoes the owner's deletion.
MayRevive(acct) == MayWrite(acct) /\ (MarkedDeleted => bucket.owner = acct)

\* Mutant: an object is stored in a marked bucket as it is.
LeavesMark(kind) == IF kind = "put" THEN "store" ELSE "addEntry"

FinishFirst(kind) == "addEntry"

AfterUpdate(kind) ==
    CASE kind \in {"create", "putACL"} -> "ok"
      [] kind = "put"                  -> "store"
      [] kind = "initiate"             -> "getShadow"

AfterRead(kind) == IF kind = "putACL" THEN "update" ELSE AfterUpdate(kind)

\* objectPut, initiateMultipartUpload, bucketPutACL: a mark is removed first.
WriteRead(r, kind) ==
    /\ Starts(r, kind)
    /\ \E acct \in Accounts :
         \/ /\ MayRevive(acct)
            /\ Carry(r, kind, acct, FALSE, [bucket EXCEPT !.flags = {}], None)
            /\ Goto(r, IF Marked THEN FinishFirst(kind) ELSE AfterRead(kind))
         \/ /\ ~MayRevive(acct)
            /\ Carry(r, kind, acct, FALSE, None, None)
            /\ Goto(r, "failed")
    /\ UNCHANGED <<stored, kept, bg>>

\* bucketDelete: only the owner, whatever the mark.
DeleteRead(r) ==
    /\ Starts(r, "delete")
    /\ \E acct \in Accounts :
         \/ /\ bucket # None /\ bucket.owner = acct
            /\ Carry(r, "delete", acct, FALSE, [bucket EXCEPT !.flags = {"deleted"}], None)
            /\ Goto(r, "checkObjects")
         \/ /\ bucket # None => bucket.owner # acct
            /\ Carry(r, "delete", acct, FALSE, None, None)
            /\ Goto(r, "failed")
    /\ UNCHANGED <<stored, kept, bg>>

\* The shield: the client is told there is no bucket, and a deletion that was
\* left half done is finished in the background.
ShieldedRead(r, kind) ==
    /\ Starts(r, kind)
    /\ \E acct \in Accounts :
         \/ /\ MarkedDeleted
            /\ Carry(r, kind, acct, FALSE, bucket, None)
            /\ Goto(r, "failed")
            /\ bg' = [bg EXCEPT ![r] = "delEntry"]
         \/ /\ bucket # None /\ ~Marked /\ kind = "get"
            /\ Carry(r, kind, acct, FALSE, None, None)
            /\ Goto(r, "ok")
            /\ UNCHANGED bg
         \/ /\ MayWrite(acct) /\ ~Marked /\ kind = "objectDelete"
            /\ \E key \in objects : Carry(r, kind, acct, FALSE, None, key)
            /\ Goto(r, "removeObject")
            /\ UNCHANGED bg
         \/ /\ bucket = None \/ (Marked /\ ~MarkedDeleted)
            /\ Carry(r, kind, acct, FALSE, None, None)
            /\ Goto(r, "failed")
            /\ UNCHANGED bg
    /\ UNCHANGED <<stored, kept>>

-----------------------------------------------------------------------------
(* lib/api/apiUtils/bucket/bucketCreation.js *)

\* metadata.createBucket refuses a bucket that exists.
CreateMD(r) ==
    /\ pc[r] = "createMD"
    /\ IF bucket = None
       THEN bucket' = ctx[r].md /\ Goto(r, "addEntry")
       ELSE UNCHANGED bucket /\ Goto(r, "failed")
    /\ UNCHANGED <<objects, shadow, usersBucket, entries, kept, bg, ctx>>

\* addToUsersBucket: a missing users bucket is created, then written to.
AddEntry(r) ==
    /\ pc[r] = "addEntry"
    /\ \/ /\ usersBucket
          /\ entries' = entries \cup {ctx[r].acct}
          /\ Goto(r, "update")
       \/ /\ ~usersBucket
          /\ UNCHANGED entries
          /\ Goto(r, "createUsers")
    /\ UNCHANGED <<bucket, objects, shadow, usersBucket, kept, bg, ctx>>

\* Another request may have created it meanwhile: that is no error.
CreateUsers(r) ==
    /\ pc[r] = "createUsers"
    /\ usersBucket' = TRUE
    /\ Goto(r, "addEntry")
    /\ UNCHANGED <<bucket, objects, shadow, entries, kept, bg, ctx>>

\* metadata.updateBucket writes the whole record the request holds.
PutRecord(md) ==
    \E upsert \in Upserts :
        bucket' = IF bucket = None /\ ~upsert THEN None ELSE md

\* removeTransientOrDeletedLabel, or addACL in a bucket without a mark.
Update(r) ==
    LET unmarked == [ctx[r].md EXCEPT !.flags = {}]
    IN  /\ pc[r] = "update"
        /\ PutRecord(unmarked)
        /\ Goto(r, IF bucket' = None THEN "failed" ELSE AfterUpdate(ctx[r].kind))
        /\ kept' = IF ctx[r].kind = "create" /\ bucket' # None
                   THEN [acct |-> ctx[r].acct, sse |-> ctx[r].sse] ELSE kept
        /\ UNCHANGED <<objects, shadow, usersBucket, entries, bg, ctx>>

-----------------------------------------------------------------------------
(* Objects and uploads; a missing bucket refuses both. *)

Store(r) ==
    /\ pc[r] = "store"
    /\ IF bucket # None
       THEN objects' = objects \cup {r} /\ Goto(r, "ok")
       ELSE UNCHANGED objects /\ Goto(r, "failed")
    /\ UNCHANGED <<bucket, shadow, usersBucket, entries, kept, bg, ctx>>

RemoveObject(r) ==
    /\ pc[r] = "removeObject"
    /\ objects' = objects \ {ctx[r].key}
    /\ Goto(r, IF bucket = None THEN "failed" ELSE "ok")
    /\ UNCHANGED <<bucket, shadow, usersBucket, entries, kept, bg, ctx>>

\* getMPUBucket looks the shadow bucket up, and creates it if it is missing.
GetShadow(r) ==
    /\ pc[r] = "getShadow"
    /\ Goto(r, IF shadow = None THEN "createShadow" ELSE "putOverview")
    /\ UNCHANGED <<stored, kept, bg, ctx>>

CreateShadow(r) ==
    /\ pc[r] = "createShadow"
    /\ IF shadow = None
       THEN shadow' = {} /\ Goto(r, "putOverview")
       ELSE UNCHANGED shadow /\ Goto(r, "failed")
    /\ UNCHANGED <<bucket, objects, usersBucket, entries, kept, bg, ctx>>

PutOverview(r) ==
    /\ pc[r] = "putOverview"
    /\ IF shadow # None
       THEN shadow' = shadow \cup {r} /\ Goto(r, "ok")
       ELSE UNCHANGED shadow /\ Goto(r, "failed")
    /\ UNCHANGED <<bucket, objects, usersBucket, entries, kept, bg, ctx>>

-----------------------------------------------------------------------------
(* lib/api/apiUtils/bucket/bucketDeletion.js, invisiblyDelete.js *)

\* Mutant: the bucket is not checked for objects.
NeverMind == bucket # None

IsEmpty == bucket # None /\ objects = {}

CheckObjects(r) ==
    /\ pc[r] = "checkObjects"
    /\ Goto(r, IF IsEmpty THEN "listUploads" ELSE "failed")
    /\ UNCHANGED <<stored, kept, bg, ctx>>

ListUploads(r) ==
    /\ pc[r] = "listUploads"
    /\ ctx' = [ctx EXCEPT ![r].uploads = IF shadow = None THEN {} ELSE shadow]
    /\ Goto(r, IF shadow = None THEN "flag" ELSE "abortUploads")
    /\ UNCHANGED <<stored, kept, bg>>

\* The uploads are aborted one at a time; one that is gone fails the deletion.
AbortUploads(r) ==
    /\ pc[r] = "abortUploads"
    /\ \/ /\ ctx[r].uploads = {}
          /\ Goto(r, "dropShadow")
          /\ UNCHANGED <<shadow, ctx>>
       \/ \E u \in ctx[r].uploads :
            /\ ctx' = [ctx EXCEPT ![r].uploads = @ \ {u}]
            /\ IF bucket # None /\ shadow # None /\ u \in shadow
               THEN shadow' = shadow \ {u} /\ UNCHANGED pc
               ELSE UNCHANGED shadow /\ Goto(r, "failed")
    /\ UNCHANGED <<bucket, objects, usersBucket, entries, kept, bg>>

\* A shadow bucket that is gone is no error.
DropShadow(r) ==
    /\ pc[r] = "dropShadow"
    /\ shadow' = None
    /\ Goto(r, "flag")
    /\ UNCHANGED <<bucket, objects, usersBucket, entries, kept, bg, ctx>>

\* From here on the deletion is finished by whoever meets the mark.
Flag(r) ==
    /\ pc[r] = "flag"
    /\ PutRecord(ctx[r].md)
    /\ kept' = None
    /\ Goto(r, IF bucket' = None THEN "failed" ELSE "delEntry")
    /\ UNCHANGED <<objects, shadow, usersBucket, entries, bg, ctx>>

\* Mutant: the bucket is removed before it is unlisted.
DelBucketFirst(r) ==
    /\ pc[r] = "delEntry"
    /\ bucket' = None /\ objects' = {}
    /\ Goto(r, "failed")
    /\ UNCHANGED <<shadow, usersBucket, entries, kept, bg, ctx>>

DelEntry(r) ==
    /\ pc[r] = "delEntry"
    /\ entries' = entries \ {ctx[r].acct}
    /\ Goto(r, "delBucket")
    /\ UNCHANGED <<bucket, objects, shadow, usersBucket, kept, bg, ctx>>

\* metadata.deleteBucket: what the bucket still holds goes with it.
DelBucket(r) ==
    /\ pc[r] = "delBucket"
    /\ bucket' = None
    /\ objects' = {}
    /\ Goto(r, IF bucket = None THEN "failed" ELSE "ok")
    /\ UNCHANGED <<shadow, usersBucket, entries, kept, bg, ctx>>

\* invisiblyDelete, on the record the shield met.
BgDelEntry(r) ==
    /\ bg[r] = "delEntry"
    /\ entries' = entries \ {ctx[r].md.owner}
    /\ bg' = [bg EXCEPT ![r] = "delBucket"]
    /\ UNCHANGED <<bucket, objects, shadow, usersBucket, kept, pc, ctx>>

BgDelBucket(r) ==
    /\ bg[r] = "delBucket"
    /\ bucket' = None
    /\ objects' = {}
    /\ bg' = [bg EXCEPT ![r] = "none"]
    /\ UNCHANGED <<shadow, usersBucket, entries, kept, pc, ctx>>

\* A crash of the process, or an error nobody retries.
Abandon(r) ==
    /\ Crashes
    /\ \/ Running(r) /\ Goto(r, "failed") /\ UNCHANGED bg
       \/ bg[r] # "none" /\ bg' = [bg EXCEPT ![r] = "none"] /\ UNCHANGED pc
    /\ UNCHANGED <<stored, kept, ctx>>

Step(r) ==
    \/ CreateRead(r) \/ DeleteRead(r)
    \/ \E kind \in {"put", "putACL", "initiate"} : WriteRead(r, kind)
    \/ \E kind \in Shielded : ShieldedRead(r, kind)
    \/ CreateMD(r) \/ AddEntry(r) \/ CreateUsers(r) \/ Update(r)
    \/ Store(r) \/ RemoveObject(r)
    \/ GetShadow(r) \/ CreateShadow(r) \/ PutOverview(r)
    \/ CheckObjects(r) \/ ListUploads(r) \/ AbortUploads(r) \/ DropShadow(r)
    \/ Flag(r) \/ DelEntry(r) \/ DelBucket(r)
    \/ BgDelEntry(r) \/ BgDelBucket(r)

Next == \E r \in Reqs : Step(r) \/ Abandon(r)

Spec == Init /\ [][Next]_vars

-----------------------------------------------------------------------------
(* Properties *)

\* The variables have the types the comments give them.
TypeOK ==
    /\ bucket \in Bucket \cup {None}
    /\ objects \subseteq Reqs
    /\ shadow \in {None} \cup SUBSET Reqs
    /\ usersBucket \in BOOLEAN
    /\ entries \subseteq Accounts
    /\ kept \in [acct: Accounts, sse: BOOLEAN] \cup {None}
    /\ pc \in [Reqs -> Labels]
    /\ bg \in [Reqs -> {"none", "delEntry", "delBucket"}]
    /\ ctx \in [Reqs -> Context]

\* A bucket whose creation was acknowledged stands until a deletion marks it:
\* its record is there, complete, belongs to the creator and is listed, whoever
\* else tried to create the name and whatever half-done creation or deletion
\* came before.
KeptStands ==
    kept # None =>
        /\ bucket # None /\ bucket.owner = kept.acct /\ bucket.flags = {}
        /\ kept.acct \in entries

\* A bucket marked deleted holds no object and no upload.  invisiblyDelete
\* removes it without looking, and the next bucket of the name starts empty.
DeletedIsEmpty == (bucket = None \/ MarkedDeleted) => objects = {} /\ shadow = None

\* An acknowledged PUT keeps its object until a request deletes that object,
\* whatever bucket deletions were tried and given up.
AcknowledgedObjectsKept ==
    \A r \in Reqs :
        ctx[r].kind = "put" /\ pc[r] = "ok" =>
            r \in objects \/ \E q \in Reqs : ctx[q].key = r

\* Deletions of the bucket, done, given up or left half done, take nothing with them.
DeletionTakesNothing == DeletedIsEmpty /\ AcknowledgedObjectsKept

\* Once a deletion marked a bucket, only a request of its owner brings it back:
\* accounts its ACL lets write do not.
OnlyOwnerRevives ==
    [][MarkedDeleted /\ bucket' # None /\ bucket'.flags = {} =>
         \E r \in Reqs : /\ ctx[r].acct = bucket.owner
                         /\ pc[r] = "update" /\ pc'[r] # "update"]_vars

\* The service listing shows a bucket to an account, other than those ACLs let
\* in, only while it owns the bucket's record: entries are added after the
\* record and removed before it.
ListedOnlyWhileOwned ==
    \A acct \in entries \ Writers : bucket # None /\ bucket.owner = acct

\* A bucket whose acknowledged creation asked for encryption is encrypted.
EncryptionAsAsked ==
    kept # None /\ bucket # None => (kept.sse => bucket.sse)
=============================================================================
