----------------------------- MODULE BucketConfig -----------------------------
(***************************************************************************)
(* The configuration of one bucket.  Every handler reads the whole bucket  *)
(* record (metadataValidateBucket), checks the request against it, changes *)
(* one setting of its copy and writes the copy back (updateBucket).  What  *)
(* a request puts in a setting is named after the request.                 *)
(***************************************************************************)
EXTENDS Requests

Configs == {"lock", "replication", "lifecycle", "cors", "website", "policy",
            "notification", "tags", "acl", "system", "capacity"}
Settings == Configs \cup {"versioning", "encryption"}

\* The default encryption: the bucket's master key, what a client asked for,
\* and whether it applies to every object.
Encryptions == [key: Reqs, by: Reqs \cup {None}, mandatory: BOOLEAN]
Versionings == {None} \cup {<<s, r>> : s \in {"Enabled", "Suspended"},
                                       r \in Reqs \cup {None}}

Records == [locked: BOOLEAN, ingestion: BOOLEAN, nfs: BOOLEAN,
            versioning: Versionings, encryption: {None} \cup Encryptions,
            uid: Reqs \cup {None}, set: [Configs -> Reqs \cup {None}]]

\* None is no versioning configuration, no setting and no encryption.
ASSUME NoneAssumption ==
    /\ \A s \in {"Enabled", "Suspended"}, r \in Reqs \cup {None} : <<s, r>> # None
    /\ None \notin Settings \cup Encryptions

bucket == store.bucket

\* makeBucketInfo: object lock and ingestion come with versioning enabled.
Created(locked, ingestion, nfs) ==
    [locked |-> locked, ingestion |-> ingestion, nfs |-> nfs,
     versioning |-> IF locked \/ ingestion THEN <<"Enabled", None>> ELSE None,
     encryption |-> None, uid |-> None, set |-> [f \in Configs |-> None]]

\* asked: what the latest acknowledged request asked of each setting.
ConfigInit ==
    /\ In("config")
    /\ \E l, i, n \in BOOLEAN :
        store = [bucket |-> Created(l, i, n), keys |-> {},
                 asked |-> [f \in Settings |-> None]]
    /\ pc = [r \in Reqs |-> "idle"]
    /\ ctx = [r \in Reqs |-> None]

Enabled(b) == b.versioning # None /\ b.versioning[1] = "Enabled"
Set(b, f, v) == [b EXCEPT !.set[f] = v]

\* The request asks for value v of setting f and goes on to write record b.
Ask(r, f, v, b) ==
    /\ Carry(r, [setting |-> f, value |-> v, record |-> b])
    /\ Goto(r, "update")
    /\ UNCHANGED store

\* It asks for what is already so: there is nothing to write.
Nothing(r, f) ==
    /\ store' = [store EXCEPT !.asked[f] = None]
    /\ Goto(r, "ok")
    /\ UNCHANGED ctx

Answer(r, f, v) ==
    /\ Carry(r, [setting |-> f, value |-> v, record |-> bucket])
    /\ Goto(r, "ok")
    /\ UNCHANGED store

\* validateBucket, checkExpectedBucketOwner and the parsing of the body may
\* refuse any request.
Put(r, op, f) == Sent(r, op) /\ (Refuse(r) \/ Ask(r, f, r, Set(bucket, f, r)))
Get(r, op, f) == Sent(r, op) /\ (Refuse(r) \/ Answer(r, f, bucket.set[f]))
Remove(r, op, f) ==
    /\ Sent(r, op)
    /\ \/ Refuse(r)
       \/ bucket.set[f] = None /\ Nothing(r, f)
       \/ bucket.set[f] # None /\ Ask(r, f, None, Set(bucket, f, None))

-----------------------------------------------------------------------------
(* Versioning, object lock, replication *)

\* Mutant: the replication configuration is not looked at.
MaySuspendReplicated(b) == ~b.ingestion

\* _isValidVersioningRequest
MaySuspend(b) == b.set["replication"] = None /\ ~b.ingestion

\* A bucket that NFS exports takes no versioning and says nothing.
BucketPutVersioning(r) ==
    /\ Sent(r, "bucketPutVersioning")
    /\ \/ Refuse(r)
       \/ /\ bucket.nfs
          /\ Goto(r, "ok")
          /\ UNCHANGED <<store, ctx>>
       \/ \E s \in {"Enabled", "Suspended"} :
            /\ ~bucket.nfs /\ ~bucket.locked
            /\ s = "Suspended" => MaySuspend(bucket)
            /\ Ask(r, "versioning", <<s, r>>,
                   [bucket EXCEPT !.versioning = <<s, r>>])

BucketPutObjectLock(r) == bucket.locked /\ Put(r, "bucketPutObjectLock", "lock")

BucketPutReplication(r) ==
    /\ bucket.nfs \/ Enabled(bucket)
    /\ Put(r, "bucketPutReplication", "replication")

BucketDeleteReplication(r) == Remove(r, "bucketDeleteReplication", "replication")

-----------------------------------------------------------------------------
(* The settings that nothing else depends on *)

BucketPutCors(r) == Put(r, "bucketPutCors", "cors")
BucketPutNotification(r) == Put(r, "bucketPutNotification", "notification")
BucketPutWebsite(r) == Put(r, "bucketPutWebsite", "website")
BucketPutPolicy(r) == Put(r, "bucketPutPolicy", "policy")
BucketPutTagging(r) == Put(r, "bucketPutTagging", "tags")
BucketPutACL(r) == Put(r, "bucketPutACL", "acl")
BucketDeleteCors(r) == Remove(r, "bucketDeleteCors", "cors")
BucketDeleteWebsite(r) == Remove(r, "bucketDeleteWebsite", "website")
BucketDeletePolicy(r) == Remove(r, "bucketDeletePolicy", "policy")
BucketDeleteLifecycle(r) == Remove(r, "bucketDeleteLifecycle", "lifecycle")

\* Lifecycle needs a bucket identifier and makes one.
BucketPutLifecycle(r) ==
    /\ Sent(r, "bucketPutLifecycle")
    /\ \/ Refuse(r)
       \/ Ask(r, "lifecycle", r,
              [Set(bucket, "lifecycle", r)
                  EXCEPT !.uid = IF @ = None THEN r ELSE @])

\* Written even when there are no tags.
BucketDeleteTagging(r) ==
    /\ Sent(r, "bucketDeleteTagging")
    /\ Refuse(r) \/ Ask(r, "tags", None, Set(bucket, "tags", None))

\* The files of the Veeam folder live in fields of the bucket record, written
\* one by one: updateBucketCapabilities and deleteBucketCapabilities.
VeeamField(r, f, v) ==
    /\ store' = [store EXCEPT !.bucket.set[f] = v, !.asked[f] = v]
    /\ Goto(r, "ok")
    /\ UNCHANGED ctx

\* Mutant: the last file to go takes the other one along.
DropCapabilities(r, f) ==
    /\ store' = [store EXCEPT !.bucket.set["system"] = None,
                              !.bucket.set["capacity"] = None, !.asked[f] = None]
    /\ Goto(r, "ok")
    /\ UNCHANGED ctx

DropVeeamField(r, f) == VeeamField(r, f, None)

PutVeeamFile(r) ==
    /\ Sent(r, "putVeeamFile")
    /\ Refuse(r) \/ \E f \in {"system", "capacity"} : VeeamField(r, f, r)

DeleteVeeamCapabilities(r) ==
    /\ Sent(r, "deleteVeeamFile")
    /\ \/ Refuse(r)
       \/ \E f \in {"system", "capacity"} :
            bucket.set[f] # None /\ DropVeeamField(r, f)

-----------------------------------------------------------------------------
(* Encryption *)

\* Mutant: the key is not put in the record.
ForgetKey(r, v, mandatory) ==
    /\ Carry(r, [setting |-> IF mandatory THEN "encryption" ELSE None,
                 value |-> v,
                 record |-> [bucket EXCEPT !.encryption =
                                [key |-> None, by |-> v, mandatory |-> mandatory]]])
    /\ Goto(r, "createKey")
    /\ UNCHANGED store

\* bucketLevelEncryption: the KMS makes a key before the record is written.
MakeKey(r, v, mandatory) ==
    /\ Carry(r, [setting |-> IF mandatory THEN "encryption" ELSE None,
                 value |-> v,
                 record |-> [bucket EXCEPT !.encryption =
                                [key |-> r, by |-> v, mandatory |-> mandatory]]])
    /\ Goto(r, "createKey")
    /\ UNCHANGED store

CreateBucketKey(r) ==
    /\ pc[r] = "createKey"
    /\ store' = [store EXCEPT !.keys = @ \cup {r}]
    /\ Goto(r, "update")
    /\ UNCHANGED ctx

\* Mutant: every request makes a key of its own.
AlwaysMakeKey(r) ==
    /\ Sent(r, "bucketPutEncryption")
    /\ Refuse(r) \/ MakeKey(r, r, TRUE)

BucketPutEncryption(r) ==
    /\ Sent(r, "bucketPutEncryption")
    /\ \/ Refuse(r)
       \/ bucket.encryption = None /\ MakeKey(r, r, TRUE)
       \/ /\ bucket.encryption # None
          /\ Ask(r, "encryption", r, [bucket EXCEPT !.encryption.by = r,
                                                    !.encryption.mandatory = TRUE])

\* The key stays: objects may be encrypted with it.
BucketDeleteEncryption(r) ==
    /\ Sent(r, "bucketDeleteEncryption")
    /\ \/ Refuse(r)
       \/ bucket.encryption = None /\ Nothing(r, "encryption")
       \/ /\ bucket.encryption # None
          /\ Ask(r, "encryption", None,
                 [bucket EXCEPT !.encryption.by = None,
                                !.encryption.mandatory = FALSE])

\* An object write that names an algorithm and no key gives the bucket a key
\* if it has none; the bucket default stays off.
GetObjectSSEConfiguration(r) ==
    /\ Sent(r, "objectPut")
    /\ \/ /\ bucket.encryption = None
          /\ MakeKey(r, None, FALSE)
       \/ /\ bucket.encryption # None
          /\ Goto(r, "ok")
          /\ UNCHANGED <<store, ctx>>

-----------------------------------------------------------------------------
(* Reading the configuration back *)

BucketGetVersioning(r) ==
    /\ Sent(r, "bucketGetVersioning")
    /\ Refuse(r) \/ Answer(r, "versioning", bucket.versioning)

\* Mutant: a default that was removed still shows.
ShownEncryptionAnyway == IF bucket.encryption = None THEN None
                                                     ELSE bucket.encryption.key

\* A default that is not mandatory is not shown.
ShownEncryption ==
    IF bucket.encryption = None \/ ~bucket.encryption.mandatory
    THEN None ELSE bucket.encryption.by

BucketGetEncryption(r) ==
    /\ Sent(r, "bucketGetEncryption")
    /\ Refuse(r) \/ Answer(r, "encryption", ShownEncryption)

BucketGetObjectLock(r) == bucket.locked /\ Get(r, "bucketGet", "lock")
BucketGetReplication(r) == Get(r, "bucketGet", "replication")
BucketGetLifecycle(r) == Get(r, "bucketGet", "lifecycle")
BucketGetCors(r) == Get(r, "bucketGet", "cors")
BucketGetWebsite(r) == Get(r, "bucketGet", "website")
BucketGetPolicy(r) == Get(r, "bucketGet", "policy")
BucketGetNotification(r) == Get(r, "bucketGet", "notification")
BucketGetTagging(r) == Get(r, "bucketGet", "tags")
BucketGetACL(r) == Get(r, "bucketGet", "acl")
GetVeeamFile(r) == Get(r, "bucketGet", "system") \/ Get(r, "bucketGet", "capacity")

-----------------------------------------------------------------------------
UpdateBucket(r) ==
    LET c == ctx[r]
    IN  /\ pc[r] = "update"
        /\ store' = [store EXCEPT
                        !.bucket = c.record,
                        !.asked = [f \in Settings |-> IF f = c.setting
                                                      THEN c.value ELSE @[f]]]
        /\ Goto(r, "ok")
        /\ UNCHANGED ctx

ConfigStep(r) ==
    \/ BucketPutVersioning(r) \/ BucketPutObjectLock(r)
    \/ BucketPutReplication(r) \/ BucketDeleteReplication(r)
    \/ BucketPutCors(r) \/ BucketPutNotification(r) \/ BucketPutWebsite(r)
    \/ BucketPutPolicy(r) \/ BucketPutTagging(r) \/ BucketPutACL(r)
    \/ BucketDeleteCors(r) \/ BucketDeleteWebsite(r) \/ BucketDeletePolicy(r)
    \/ BucketDeleteLifecycle(r) \/ BucketPutLifecycle(r) \/ BucketDeleteTagging(r)
    \/ PutVeeamFile(r) \/ DeleteVeeamCapabilities(r)
    \/ BucketPutEncryption(r) \/ BucketDeleteEncryption(r)
    \/ GetObjectSSEConfiguration(r) \/ CreateBucketKey(r)
    \/ BucketGetVersioning(r) \/ BucketGetEncryption(r) \/ BucketGetObjectLock(r)
    \/ BucketGetReplication(r) \/ BucketGetLifecycle(r) \/ BucketGetCors(r)
    \/ BucketGetWebsite(r) \/ BucketGetPolicy(r) \/ BucketGetNotification(r)
    \/ BucketGetTagging(r) \/ BucketGetACL(r) \/ GetVeeamFile(r)
    \/ UpdateBucket(r)

ConfigNext ==
    /\ In("config")
    /\ \E r \in Reqs : ConfigStep(r) \/ Die(r)
    /\ UNCHANGED scene

-----------------------------------------------------------------------------
(* Properties *)

\* The settings of a record that depend on each other agree: object lock and
\* ingestion keep versioning enabled, and so does replication except over NFS.
Agrees(b) ==
    /\ b.locked \/ b.ingestion => Enabled(b)
    /\ b.set["replication"] # None => Enabled(b) \/ b.nfs
    /\ b.set["lock"] # None => b.locked

\* However the requests of a bucket interleave, and whichever of them die, the
\* settings agree: each handler checks the record that it writes back whole.
SettingsAgree == In("config") => Agrees(store.bucket)

\* When clients wait for each answer and no request dies between the creation of
\* a key and its record, the KMS holds no key but the bucket's.
NoStrayKey ==
    In("config") /\ scene.sequential /\ ~scene.deaths /\ Quiet =>
        store.keys = IF bucket.encryption = None THEN {} ELSE {bucket.encryption.key}

\* When clients wait for each answer, reading a setting gives what the latest
\* acknowledged request asked for, whatever handler changed the record since.
AnswersAreLatest ==
    In("config") /\ scene.sequential /\ Quiet =>
        /\ \A f \in Configs : bucket.set[f] = store.asked[f]
        /\ ShownEncryption = store.asked["encryption"]
        /\ store.asked["versioning"] # None =>
               bucket.versioning = store.asked["versioning"]

\* Between requests, the record is what clients asked for and the KMS serves it.
ConfigIsAsAsked == AnswersAreLatest /\ NoStrayKey
=============================================================================
