-------------------------- MODULE ConfigurationProofs --------------------------
(***************************************************************************)
(* What is configured stands.  The settings of a bucket agree, for any     *)
(* number of requests of any kind, in any order, of which any may die, and *)
(* are what was asked for when requests wait for one another; and so does  *)
(* the overlay that the service configures the server with over the        *)
(* agent's link, whatever is polled and pushed meanwhile.  A compliance    *)
(* lock that a version was created with stands, and locks are what was     *)
(* asked for.  And the visitors of a website and their scripts see what    *)
(* its record says.                                                        *)
(***************************************************************************)
EXTENDS BucketConfig, ObjectLock, ManagementLink, ManagementOverlay, Website,
        FiniteSetTheorems, NaturalsInduction, WellFoundedInduction, TLAPS

\* A record that may be the bucket's.
Sound(b) == b \in Records /\ Agrees(b)

\* A request writes back the record it read, with one setting changed: it was
\* sound when read and what was checked holds of the copy, whatever has been
\* written since.
Carried ==
    \A r \in Reqs : pc[r] \in {"createKey", "update"} => Sound(ctx[r].record)

\* The store and the requests keep the shape that updates rely on.
Shape ==
    /\ store = [bucket |-> store.bucket, keys |-> store.keys, asked |-> store.asked]
    /\ store.asked = [f \in Settings |-> store.asked[f]]
    /\ pc = [r \in Reqs |-> pc[r]]
    /\ ctx = [r \in Reqs |-> ctx[r]]

ConfigInv == Shape /\ Sound(store.bucket) /\ Carried

-----------------------------------------------------------------------------
(* Setting one attribute of a sound record *)

\* A bucket is born sound.
LEMMA CreatedSound ==
    ASSUME NEW l \in BOOLEAN, NEW i \in BOOLEAN, NEW n \in BOOLEAN
    PROVE  Sound(Created(l, i, n))
  BY NoneAssumption DEF Sound, Records, Agrees, Created, Enabled, Versionings, Configs

\* A setting is put where its dependency was checked, or removed.
LEMMA SetSound ==
    ASSUME NEW b, Sound(b), NEW f \in Configs, NEW v \in Reqs \cup {None},
           f = "replication" => v = None \/ Enabled(b) \/ b.nfs,
           f = "lock" => v = None \/ b.locked
    PROVE  Sound(Set(b, f, v))
  BY DEF Sound, Records, Agrees, Set, Enabled, Configs

\* The same for the encryption, which nothing depends on.
LEMMA EncryptionSound ==
    ASSUME NEW b, Sound(b), NEW e \in Encryptions
    PROVE  Sound([b EXCEPT !.encryption = e])
  BY DEF Sound, Records, Agrees, Enabled

LEMMA VersioningSound ==
    ASSUME NEW b, Sound(b), NEW s \in {"Enabled", "Suspended"}, NEW r \in Reqs,
           ~b.nfs, ~b.locked, s = "Suspended" => MaySuspend(b)
    PROVE  Sound([b EXCEPT !.versioning = <<s, r>>])
  <1> DEFINE c == [b EXCEPT !.versioning = <<s, r>>]
  <1>1. <<s, r>> # None /\ <<s, r>> \in Versionings
    BY NoneAssumption DEF Versionings
  <1>2. c \in Records
    BY <1>1 DEF Sound, Records
  <1>3. s = "Enabled" => Enabled(c)
    BY <1>1 DEF Enabled, Sound, Records
  <1>4. /\ c.locked = b.locked /\ c.ingestion = b.ingestion
        /\ c.nfs = b.nfs /\ c.set = b.set
    BY DEF Sound, Records
  <1>5. Agrees(c)
    BY <1>3, <1>4 DEF Agrees, MaySuspend, Sound
  <1> QED  BY <1>2, <1>5 DEF Sound

-----------------------------------------------------------------------------
(* What the steps of a request are made of *)

\* To refuse, to read, to find nothing to change, to die: no record is written.
LEMMA RefuseKeeps ==
    ASSUME ConfigInv, NEW r \in Reqs, Refuse(r)
    PROVE  ConfigInv'
  BY DEF Refuse, Goto, ConfigInv, Shape, Carried

LEMMA EndKeeps ==
    ASSUME ConfigInv, NEW r \in Reqs, Goto(r, "ok"), UNCHANGED <<store, ctx>>
    PROVE  ConfigInv'
  BY DEF Goto, ConfigInv, Shape, Carried

LEMMA NothingKeeps ==
    ASSUME ConfigInv, NEW r \in Reqs, NEW f \in Settings, Nothing(r, f)
    PROVE  ConfigInv'
  BY DEF Nothing, Goto, ConfigInv, Shape, Carried

LEMMA AnswerKeeps ==
    ASSUME ConfigInv, NEW r \in Reqs, NEW f, NEW v, Answer(r, f, v)
    PROVE  ConfigInv'
  BY DEF Answer, Goto, Carry, ConfigInv, Shape, Carried

\* A record that is sound may be carried to its update.
LEMMA AskKeeps ==
    ASSUME ConfigInv, NEW r \in Reqs, NEW f, NEW v, NEW b, Sound(b), Ask(r, f, v, b)
    PROVE  ConfigInv'
  BY DEF Ask, Goto, Carry, ConfigInv, Shape, Carried

LEMMA MakeKeyKeeps ==
    ASSUME ConfigInv, NEW r \in Reqs, NEW v \in Reqs \cup {None}, NEW m \in BOOLEAN,
           MakeKey(r, v, m)
    PROVE  ConfigInv'
  <1> DEFINE b == [bucket EXCEPT !.encryption = [key |-> r, by |-> v, mandatory |-> m]]
  <1>1. Sound(b)
    BY EncryptionSound DEF ConfigInv, Encryptions, bucket
  <1> HIDE DEF b
  <1> QED  BY <1>1 DEF MakeKey, Goto, Carry, ConfigInv, Shape, Carried, b

LEMMA PutKeeps ==
    ASSUME ConfigInv, NEW r \in Reqs, NEW op, NEW f \in Configs, Put(r, op, f),
           f = "replication" => Enabled(bucket) \/ bucket.nfs,
           f = "lock" => bucket.locked
    PROVE  ConfigInv'
  <1>1. CASE Refuse(r)
    BY <1>1, RefuseKeeps
  <1>2. CASE Ask(r, f, r, Set(bucket, f, r))
    <2>1. Sound(Set(bucket, f, r))
      BY SetSound DEF ConfigInv, bucket
    <2> QED  BY <1>2, <2>1, AskKeeps
  <1> QED  BY <1>1, <1>2 DEF Put

LEMMA RemoveKeeps ==
    ASSUME ConfigInv, NEW r \in Reqs, NEW op, NEW f \in Configs, Remove(r, op, f)
    PROVE  ConfigInv'
  <1>1. CASE Refuse(r)
    BY <1>1, RefuseKeeps
  <1>2. CASE Nothing(r, f)
    BY <1>2, NothingKeeps DEF Settings
  <1>3. CASE Ask(r, f, None, Set(bucket, f, None))
    <2>1. Sound(Set(bucket, f, None))
      BY SetSound DEF ConfigInv, bucket
    <2> QED  BY <1>3, <2>1, AskKeeps
  <1> QED  BY <1>1, <1>2, <1>3 DEF Remove

LEMMA GetKeeps ==
    ASSUME ConfigInv, NEW r \in Reqs, NEW op, NEW f, Get(r, op, f)
    PROVE  ConfigInv'
  BY RefuseKeeps, AnswerKeeps DEF Get

\* The Veeam files are written in place, in a record that is sound.
LEMMA VeeamKeeps ==
    ASSUME ConfigInv, NEW r \in Reqs, NEW f \in {"system", "capacity"},
           NEW v \in Reqs \cup {None}, VeeamField(r, f, v)
    PROVE  ConfigInv'
  <1>1. Sound(Set(store.bucket, f, v))
    BY SetSound DEF ConfigInv, Configs
  <1>2. store'.bucket = Set(store.bucket, f, v)
    BY DEF VeeamField, ConfigInv, Shape, Set
  <1>3. Shape'
    BY DEF VeeamField, Goto, ConfigInv, Shape
  <1>4. Carried'
    BY DEF VeeamField, Goto, ConfigInv, Shape, Carried
  <1> QED  BY <1>1, <1>2, <1>3, <1>4 DEF ConfigInv

-----------------------------------------------------------------------------
(* The requests *)

LEMMA VersioningKeeps ==
    ASSUME ConfigInv, NEW r \in Reqs, BucketPutVersioning(r)
    PROVE  ConfigInv'
  <1>1. CASE Refuse(r)
    BY <1>1, RefuseKeeps
  <1>2. CASE Goto(r, "ok") /\ UNCHANGED <<store, ctx>>
    BY <1>2, EndKeeps
  <1>3. ASSUME NEW s \in {"Enabled", "Suspended"},
               ~bucket.nfs, ~bucket.locked, s = "Suspended" => MaySuspend(bucket),
               Ask(r, "versioning", <<s, r>>, [bucket EXCEPT !.versioning = <<s, r>>])
        PROVE  ConfigInv'
    <2>1. Sound([bucket EXCEPT !.versioning = <<s, r>>])
      BY <1>3, VersioningSound DEF ConfigInv, bucket
    <2> QED  BY <1>3, <2>1, AskKeeps
  <1> QED  BY <1>1, <1>2, <1>3 DEF BucketPutVersioning

\* The identifier of a bucket is nothing another setting depends on.
LEMMA LifecycleKeeps ==
    ASSUME ConfigInv, NEW r \in Reqs, BucketPutLifecycle(r)
    PROVE  ConfigInv'
  <1> DEFINE b == [Set(bucket, "lifecycle", r) EXCEPT !.uid = IF @ = None THEN r ELSE @]
  <1>1. Sound(Set(bucket, "lifecycle", r))
    BY SetSound DEF ConfigInv, bucket, Configs
  <1>2. Sound(b)
    BY <1>1 DEF Sound, Records, Agrees, Enabled
  <1> QED  BY <1>2, RefuseKeeps, AskKeeps DEF BucketPutLifecycle

LEMMA DeleteTaggingKeeps ==
    ASSUME ConfigInv, NEW r \in Reqs, BucketDeleteTagging(r)
    PROVE  ConfigInv'
  <1>1. Sound(Set(bucket, "tags", None))
    BY SetSound DEF ConfigInv, bucket, Configs
  <1> QED  BY <1>1, RefuseKeeps, AskKeeps DEF BucketDeleteTagging

LEMMA PutEncryptionKeeps ==
    ASSUME ConfigInv, NEW r \in Reqs, BucketPutEncryption(r)
    PROVE  ConfigInv'
  <1> DEFINE b == [bucket EXCEPT !.encryption.by = r, !.encryption.mandatory = TRUE]
  <1>1. ASSUME bucket.encryption # None  PROVE  Sound(b)
    <2>1. bucket.encryption \in Encryptions
      BY <1>1 DEF ConfigInv, Sound, Records, bucket
    <2>2. [bucket.encryption EXCEPT !.by = r, !.mandatory = TRUE] \in Encryptions
      BY <2>1 DEF Encryptions
    <2>3. b = [bucket EXCEPT !.encryption = [bucket.encryption EXCEPT !.by = r, !.mandatory = TRUE]]
      BY <2>1 DEF ConfigInv, Sound, Records, bucket
    <2> QED  BY <2>2, <2>3, EncryptionSound DEF ConfigInv, bucket
  <1>2. CASE MakeKey(r, r, TRUE)
    BY <1>2, MakeKeyKeeps
  <1> QED  BY <1>1, <1>2, RefuseKeeps, AskKeeps DEF BucketPutEncryption

LEMMA DeleteEncryptionKeeps ==
    ASSUME ConfigInv, NEW r \in Reqs, BucketDeleteEncryption(r)
    PROVE  ConfigInv'
  <1> DEFINE b == [bucket EXCEPT !.encryption.by = None, !.encryption.mandatory = FALSE]
  <1>1. ASSUME bucket.encryption # None  PROVE  Sound(b)
    <2>1. bucket.encryption \in Encryptions
      BY <1>1 DEF ConfigInv, Sound, Records, bucket
    <2>2. [bucket.encryption EXCEPT !.by = None, !.mandatory = FALSE] \in Encryptions
      BY <2>1 DEF Encryptions
    <2>3. b = [bucket EXCEPT !.encryption = [bucket.encryption EXCEPT !.by = None, !.mandatory = FALSE]]
      BY <2>1 DEF ConfigInv, Sound, Records, bucket
    <2> QED  BY <2>2, <2>3, EncryptionSound DEF ConfigInv, bucket
  <1>2. CASE Nothing(r, "encryption")
    BY <1>2, NothingKeeps DEF Settings
  <1> QED  BY <1>1, <1>2, RefuseKeeps, AskKeeps DEF BucketDeleteEncryption

LEMMA ObjectPutKeeps ==
    ASSUME ConfigInv, NEW r \in Reqs, GetObjectSSEConfiguration(r)
    PROVE  ConfigInv'
  BY MakeKeyKeeps, EndKeeps DEF GetObjectSSEConfiguration

LEMMA CreateKeyKeeps ==
    ASSUME ConfigInv, NEW r \in Reqs, CreateBucketKey(r)
    PROVE  ConfigInv'
  <1>1. store'.bucket = store.bucket /\ Shape'
    BY DEF CreateBucketKey, Goto, ConfigInv, Shape
  <1>2. Carried'
    BY DEF CreateBucketKey, Goto, ConfigInv, Shape, Carried
  <1> QED  BY <1>1, <1>2 DEF ConfigInv

\* The record that is written is the one that was carried.
LEMMA UpdateKeeps ==
    ASSUME ConfigInv, NEW r \in Reqs, UpdateBucket(r)
    PROVE  ConfigInv'
  <1>1. store'.bucket = ctx[r].record
    BY DEF UpdateBucket, ConfigInv, Shape
  <1>2. Sound(ctx[r].record)
    BY DEF UpdateBucket, ConfigInv, Carried
  <1>3. Shape'
    BY DEF UpdateBucket, Goto, ConfigInv, Shape
  <1>4. Carried'
    BY DEF UpdateBucket, Goto, ConfigInv, Shape, Carried
  <1> QED  BY <1>1, <1>2, <1>3, <1>4 DEF ConfigInv

\* Object lock and replication look at what they depend on.
LEMMA LinkedKeep ==
    ASSUME ConfigInv, NEW r \in Reqs,
           BucketPutObjectLock(r) \/ BucketPutReplication(r)
    PROVE  ConfigInv'
  <1>1. CASE BucketPutObjectLock(r)
    BY <1>1, PutKeeps DEF BucketPutObjectLock, Configs
  <1>2. CASE BucketPutReplication(r)
    BY <1>2, PutKeeps DEF BucketPutReplication, Configs
  <1> QED  BY <1>1, <1>2

LEMMA OthersKeep ==
    ASSUME ConfigInv, NEW r \in Reqs,
           \/ BucketPutCors(r) \/ BucketPutNotification(r) \/ BucketPutWebsite(r)
           \/ BucketPutPolicy(r) \/ BucketPutTagging(r) \/ BucketPutACL(r)
           \/ BucketDeleteReplication(r) \/ BucketDeleteCors(r) \/ BucketDeleteWebsite(r)
           \/ BucketDeletePolicy(r) \/ BucketDeleteLifecycle(r)
    PROVE  ConfigInv'
  <1>1. ASSUME NEW op, NEW f \in Configs \ {"replication", "lock"}, Put(r, op, f)
        PROVE  ConfigInv'
    BY <1>1, PutKeeps
  <1> QED
    BY <1>1, RemoveKeeps
    DEF Configs, BucketPutCors, BucketPutNotification, BucketPutWebsite, BucketPutPolicy,
        BucketPutTagging, BucketPutACL, BucketDeleteReplication, BucketDeleteCors,
        BucketDeleteWebsite, BucketDeletePolicy, BucketDeleteLifecycle

LEMMA VeeamFilesKeep ==
    ASSUME ConfigInv, NEW r \in Reqs, PutVeeamFile(r) \/ DeleteVeeamCapabilities(r)
    PROVE  ConfigInv'
  BY RefuseKeeps, VeeamKeeps DEF PutVeeamFile, DeleteVeeamCapabilities, DropVeeamField

LEMMA ReadsKeep ==
    ASSUME ConfigInv, NEW r \in Reqs,
           \/ BucketGetVersioning(r) \/ BucketGetEncryption(r) \/ BucketGetObjectLock(r)
           \/ BucketGetReplication(r) \/ BucketGetLifecycle(r) \/ BucketGetCors(r)
           \/ BucketGetWebsite(r) \/ BucketGetPolicy(r) \/ BucketGetNotification(r)
           \/ BucketGetTagging(r) \/ BucketGetACL(r) \/ GetVeeamFile(r)
    PROVE  ConfigInv'
  BY RefuseKeeps, AnswerKeeps, GetKeeps
  DEF BucketGetVersioning, BucketGetEncryption, BucketGetObjectLock, BucketGetReplication,
      BucketGetLifecycle, BucketGetCors, BucketGetWebsite, BucketGetPolicy,
      BucketGetNotification, BucketGetTagging, BucketGetACL, GetVeeamFile

LEMMA StepKeeps ==
    ASSUME ConfigInv, NEW r \in Reqs, ConfigStep(r)
    PROVE  ConfigInv'
  BY VersioningKeeps, LifecycleKeeps, DeleteTaggingKeeps, PutEncryptionKeeps,
     DeleteEncryptionKeeps, ObjectPutKeeps, CreateKeyKeeps, UpdateKeeps, LinkedKeep,
     OthersKeep, VeeamFilesKeep, ReadsKeep
  DEF ConfigStep

LEMMA ConfigInitially == ConfigInit => ConfigInv
  <1> SUFFICES ASSUME ConfigInit  PROVE  ConfigInv
    OBVIOUS
  <1>1. PICK l, i, n \in BOOLEAN :
          store = [bucket |-> Created(l, i, n), keys |-> {},
                   asked |-> [f \in Settings |-> None]]
    BY DEF ConfigInit
  <1>2. Sound(store.bucket)
    BY <1>1, CreatedSound
  <1>3. Shape
    BY <1>1 DEF ConfigInit, Shape
  <1>4. Carried
    BY DEF ConfigInit, Carried
  <1> QED  BY <1>2, <1>3, <1>4 DEF ConfigInv

LEMMA ConfigSteps == ConfigInv /\ [ConfigNext]_vars => ConfigInv'
  <1> SUFFICES ASSUME ConfigInv, [ConfigNext]_vars  PROVE  ConfigInv'
    OBVIOUS
  <1>1. ASSUME NEW r \in Reqs, ConfigStep(r)  PROVE  ConfigInv'
    BY <1>1, StepKeeps
  <1>2. ASSUME NEW r \in Reqs, Die(r)  PROVE  ConfigInv'
    BY <1>2, RefuseKeeps DEF Die, Refuse
  <1>3. CASE UNCHANGED vars
    BY <1>3 DEF vars, ConfigInv, Shape, Carried
  <1> QED  BY <1>1, <1>2, <1>3 DEF ConfigNext

-----------------------------------------------------------------------------
(* What was asked is what is there *)

\* One request runs.
OneConfigures == \A q, r \in Reqs : Running(q) /\ Running(r) => q = r

\* What a record shows as its default encryption, and the keys it names.
ShownOf(b) ==
    IF b.encryption = None \/ ~b.encryption.mandatory THEN None ELSE b.encryption.by
KeysOfRecord(b) == IF b.encryption = None THEN {} ELSE {b.encryption.key}

\* A record is what was asked of each of its settings.
IsAsAsked(b, asked) ==
    /\ \A f \in Configs : b.set[f] = asked[f]
    /\ ShownOf(b) = asked["encryption"]
    /\ asked["versioning"] # None => b.versioning = asked["versioning"]

\* What will have been asked once the request is done.
AskedBy(f, v) == [g \in Settings |-> IF g = f THEN v ELSE store.asked[g]]

\* The record that a request carries is what will then have been asked.
CarriesAsked ==
    \A r \in Reqs : pc[r] \in {"createKey", "update"} =>
        IsAsAsked(ctx[r].record, AskedBy(ctx[r].setting, ctx[r].value))

\* The KMS holds the key of the record that is there, or that is to be written.
KeysKnown ==
    /\ \A r \in Reqs :
          /\ pc[r] = "createKey" =>
                 KeysOfRecord(bucket) = {} /\ KeysOfRecord(ctx[r].record) = {r}
          /\ pc[r] = "update" => store.keys = KeysOfRecord(ctx[r].record)
    /\ (\A r \in Reqs : pc[r] # "update") => store.keys = KeysOfRecord(bucket)

AskedInv ==
    /\ \A r \in Reqs : pc[r] \in {"idle", "createKey", "update", "ok", "failed"}
    /\ scene.sequential =>
          /\ OneConfigures
          /\ IsAsAsked(bucket, store.asked)
          /\ CarriesAsked
          /\ ~scene.deaths => KeysKnown

-----------------------------------------------------------------------------
(* One setting of a record is changed *)

LEMMA SetIsAsked ==
    ASSUME NEW b, Sound(b), NEW f \in Configs, NEW v, IsAsAsked(b, store.asked)
    PROVE  IsAsAsked(Set(b, f, v), AskedBy(f, v))
  BY DEF Sound, Records, IsAsAsked, ShownOf, AskedBy, Set, Settings, Configs

LEMMA SetKeys ==
    ASSUME NEW b, Sound(b), NEW f \in Configs, NEW v
    PROVE  KeysOfRecord(Set(b, f, v)) = KeysOfRecord(b)
  BY DEF Sound, Records, Set, KeysOfRecord

LEMMA VersioningIsAsked ==
    ASSUME NEW b, Sound(b), NEW v, IsAsAsked(b, store.asked)
    PROVE  /\ IsAsAsked([b EXCEPT !.versioning = v], AskedBy("versioning", v))
           /\ KeysOfRecord([b EXCEPT !.versioning = v]) = KeysOfRecord(b)
  BY DEF Sound, Records, IsAsAsked, ShownOf, AskedBy, Settings, Configs, KeysOfRecord

LEMMA EncryptionIsAsked ==
    ASSUME NEW b, Sound(b), NEW f, NEW e \in Encryptions, IsAsAsked(b, store.asked),
           \/ f = "encryption"
           \/ f = None /\ ~e.mandatory /\ store.asked["encryption"] = None
    PROVE  /\ IsAsAsked([b EXCEPT !.encryption = e],
                        AskedBy(f, IF e.mandatory THEN e.by ELSE None))
           /\ KeysOfRecord([b EXCEPT !.encryption = e]) = {e.key}
  <1> DEFINE c == [b EXCEPT !.encryption = e]
             v == IF e.mandatory THEN e.by ELSE None
             a == AskedBy(f, v)
  <1>1. /\ c.encryption = e /\ c.set = b.set /\ c.versioning = b.versioning
        /\ e # None
    BY NoneAssumption DEF Sound, Records
  <1>2. ShownOf(c) = v /\ KeysOfRecord(c) = {e.key}
    BY <1>1 DEF ShownOf, KeysOfRecord, Encryptions
  <1>3. a["encryption"] = v
    BY DEF AskedBy, Settings, Encryptions
  <1>4. a["versioning"] = store.asked["versioning"]
    BY NoneAssumption DEF AskedBy, Settings
  <1>5. \A g \in Configs : a[g] = store.asked[g]
    BY NoneAssumption DEF AskedBy, Settings, Configs
  <1> HIDE DEF c, a, v
  <1>6. IsAsAsked(c, a)
    BY <1>1, <1>2, <1>3, <1>4, <1>5 DEF IsAsAsked
  <1> QED  BY <1>2, <1>6 DEF a, c, v

-----------------------------------------------------------------------------
(* What the steps of a request are made of *)

\* A request that is sent runs alone.
LEMMA SentAsked ==
    ASSUME AskedInv, NEW r \in Reqs, NEW op, Sent(r, op)
    PROVE  /\ pc[r] = "idle"
           /\ scene.sequential => \A q \in Reqs : pc[q] \notin {"createKey", "update"}
  BY DEF Sent, Quiet, Running

LEMMA RefuseAsked ==
    ASSUME ConfigInv, AskedInv, NEW r \in Reqs, scene' = scene,
           pc[r] \notin {"createKey", "update"} \/ scene.deaths, Refuse(r)
    PROVE  AskedInv'
  <1>1. \A q \in Reqs : pc'[q] = IF q = r THEN "failed" ELSE pc[q]
    BY DEF Refuse, Goto, ConfigInv, Shape
  <1>2. store' = store /\ ctx' = ctx /\ bucket' = bucket
    BY DEF Refuse, bucket
  <1>3. scene.sequential => OneConfigures' /\ CarriesAsked'
    BY <1>1, <1>2 DEF AskedInv, OneConfigures, CarriesAsked, Running, AskedBy
  <1>4. scene.sequential /\ ~scene.deaths => KeysKnown'
    BY <1>1, <1>2 DEF AskedInv, KeysKnown
  <1> QED  BY <1>1, <1>2, <1>3, <1>4 DEF AskedInv

\* A request ends with what is there and was asked unchanged in effect.
LEMMA EndAsked ==
    ASSUME ConfigInv, AskedInv, NEW r \in Reqs, NEW op, Sent(r, op), scene' = scene,
           Goto(r, "ok"), store'.keys = store.keys,
           KeysOfRecord(bucket') = KeysOfRecord(bucket),
           scene.sequential => IsAsAsked(bucket', store'.asked)
    PROVE  AskedInv'
  <1>1. \A q \in Reqs : pc'[q] = IF q = r THEN "ok" ELSE pc[q]
    BY DEF Goto, ConfigInv, Shape
  <1>2. scene.sequential => \A q \in Reqs : pc'[q] \notin {"createKey", "update"}
    BY <1>1, SentAsked
  <1>3. scene.sequential => OneConfigures' /\ CarriesAsked'
    BY <1>1, <1>2 DEF AskedInv, OneConfigures, CarriesAsked, Running
  <1>4. scene.sequential /\ ~scene.deaths => KeysKnown'
    BY <1>1, <1>2, SentAsked DEF AskedInv, KeysKnown
  <1> QED  BY <1>1, <1>3, <1>4 DEF AskedInv

\* What is there stays, and so does what was asked.
LEMMA ReadAsked ==
    ASSUME ConfigInv, AskedInv, NEW r \in Reqs, NEW op, Sent(r, op), scene' = scene,
           Goto(r, "ok"), UNCHANGED store
    PROVE  AskedInv'
  BY EndAsked DEF AskedInv, bucket

\* What is asked for is already there.
LEMMA NothingAsked ==
    ASSUME ConfigInv, AskedInv, NEW r \in Reqs, NEW op, Sent(r, op), scene' = scene,
           NEW f \in Configs \cup {"encryption"}, Nothing(r, f),
           IF f = "encryption" THEN bucket.encryption = None ELSE bucket.set[f] = None
    PROVE  AskedInv'
  <1>1. /\ store'.bucket = store.bucket /\ store'.keys = store.keys
        /\ store'.asked = [store.asked EXCEPT ![f] = None]
    BY DEF Nothing, ConfigInv, Shape
  <1>2. \A g \in Settings : store'.asked[g] = IF g = f THEN None ELSE store.asked[g]
    BY <1>1 DEF ConfigInv, Shape
  <1>3. bucket' = bucket
    BY <1>1 DEF bucket
  <1>4. scene.sequential => IsAsAsked(bucket', store'.asked)
    BY <1>2, <1>3 DEF AskedInv, IsAsAsked, ShownOf, Settings, Configs
  <1> QED  BY <1>1, <1>3, <1>4, EndAsked DEF Nothing

\* A record is carried to its update, with the keys that are there.
LEMMA AskAsked ==
    ASSUME ConfigInv, AskedInv, NEW r \in Reqs, NEW op, Sent(r, op), scene' = scene,
           NEW f, NEW v, NEW b, Ask(r, f, v, b), KeysOfRecord(b) = KeysOfRecord(bucket),
           scene.sequential => IsAsAsked(b, AskedBy(f, v))
    PROVE  AskedInv'
  <1>1. \A q \in Reqs : pc'[q] = IF q = r THEN "update" ELSE pc[q]
    BY DEF Ask, Goto, ConfigInv, Shape
  <1>2. /\ ctx'[r].setting = f /\ ctx'[r].value = v /\ ctx'[r].record = b
        /\ store' = store /\ bucket' = bucket
    BY DEF Ask, Carry, ConfigInv, Shape, bucket
  <1>3. scene.sequential => \A q \in Reqs : pc'[q] \in {"createKey", "update"} => q = r
    BY <1>1, SentAsked
  <1>4. scene.sequential => OneConfigures'
    BY <1>1, <1>3 DEF AskedInv, OneConfigures, Running
  <1>5. scene.sequential => CarriesAsked'
    BY <1>2, <1>3 DEF CarriesAsked, AskedBy
  <1>6. scene.sequential /\ ~scene.deaths => KeysKnown'
    BY <1>1, <1>2, <1>3, SentAsked DEF AskedInv, KeysKnown
  <1> QED  BY <1>1, <1>2, <1>4, <1>5, <1>6 DEF AskedInv

\* A key is asked for where there is none.
LEMMA MakeKeyAsked ==
    ASSUME ConfigInv, AskedInv, NEW r \in Reqs, NEW op, Sent(r, op), scene' = scene,
           NEW v \in Reqs \cup {None}, NEW m \in BOOLEAN, v = IF m THEN r ELSE None,
           bucket.encryption = None, MakeKey(r, v, m)
    PROVE  AskedInv'
  <1> DEFINE e == [key |-> r, by |-> v, mandatory |-> m]
             f == IF m THEN "encryption" ELSE None
             b == [bucket EXCEPT !.encryption = e]
  <1>1. \A q \in Reqs : pc'[q] = IF q = r THEN "createKey" ELSE pc[q]
    BY DEF MakeKey, Goto, ConfigInv, Shape
  <1>2. /\ ctx'[r].setting = f /\ ctx'[r].value = v /\ ctx'[r].record = b
        /\ store' = store /\ bucket' = bucket
    BY DEF MakeKey, Carry, ConfigInv, Shape, bucket
  <1>3. scene.sequential => \A q \in Reqs : pc'[q] \in {"createKey", "update"} => q = r
    BY <1>1, SentAsked
  <1>4. e \in Encryptions /\ e.mandatory = m /\ e.by = v /\ e.key = r
    BY DEF Encryptions
  <1>5. scene.sequential => IsAsAsked(b, AskedBy(f, v)) /\ KeysOfRecord(b) = {r}
    <2> SUFFICES ASSUME scene.sequential
                 PROVE  IsAsAsked(b, AskedBy(f, v)) /\ KeysOfRecord(b) = {r}
      OBVIOUS
    <2>1. ~m => store.asked["encryption"] = None
      BY DEF AskedInv, IsAsAsked, ShownOf
    <2>2. v = IF e.mandatory THEN e.by ELSE None
      BY <1>4
    <2>3. Sound(bucket) /\ IsAsAsked(bucket, store.asked)
      BY DEF ConfigInv, AskedInv, bucket
    <2> HIDE DEF e
    <2>4. /\ IsAsAsked(b, AskedBy(f, IF e.mandatory THEN e.by ELSE None))
          /\ KeysOfRecord(b) = {e.key}
      BY <1>4, <2>1, <2>3, EncryptionIsAsked
    <2> QED  BY <1>4, <2>2, <2>4
  <1> HIDE DEF e, f, b
  <1>6. scene.sequential => OneConfigures'
    BY <1>1, <1>3 DEF AskedInv, OneConfigures, Running
  <1>7. scene.sequential => CarriesAsked'
    BY <1>2, <1>3, <1>5 DEF CarriesAsked, AskedBy
  <1>8. scene.sequential /\ ~scene.deaths => KeysKnown'
    BY <1>1, <1>2, <1>3, <1>5, SentAsked DEF AskedInv, KeysKnown, KeysOfRecord
  <1> QED  BY <1>1, <1>2, <1>6, <1>7, <1>8 DEF AskedInv

\* A key is made, for the record that will name it.
LEMMA CreateKeyAsked ==
    ASSUME ConfigInv, AskedInv, NEW r \in Reqs, CreateBucketKey(r), scene' = scene
    PROVE  AskedInv'
  <1>1. pc[r] = "createKey" /\ \A q \in Reqs : pc'[q] = IF q = r THEN "update" ELSE pc[q]
    BY DEF CreateBucketKey, Goto, ConfigInv, Shape
  <1>2. /\ store'.bucket = store.bucket /\ store'.asked = store.asked
        /\ store'.keys = store.keys \cup {r}
        /\ ctx' = ctx /\ bucket' = bucket
    BY DEF CreateBucketKey, ConfigInv, Shape, bucket
  <1>3. scene.sequential => \A q \in Reqs : pc[q] \in {"createKey", "update"} => q = r
    BY <1>1 DEF AskedInv, OneConfigures, Running
  <1>4. scene.sequential => OneConfigures'
    BY <1>1, <1>3 DEF AskedInv, OneConfigures, Running
  <1>5. scene.sequential => CarriesAsked'
    BY <1>1, <1>2 DEF AskedInv, CarriesAsked, AskedBy
  <1>6. scene.sequential /\ ~scene.deaths => KeysKnown'
    BY <1>1, <1>2, <1>3 DEF AskedInv, KeysKnown
  <1> QED  BY <1>1, <1>2, <1>4, <1>5, <1>6 DEF AskedInv

\* The record that was carried is there, and what was asked with it.
LEMMA UpdateAsked ==
    ASSUME ConfigInv, AskedInv, NEW r \in Reqs, UpdateBucket(r), scene' = scene
    PROVE  AskedInv'
  <1>1. pc[r] = "update" /\ \A q \in Reqs : pc'[q] = IF q = r THEN "ok" ELSE pc[q]
    BY DEF UpdateBucket, Goto, ConfigInv, Shape
  <1>2. /\ store'.bucket = ctx[r].record /\ store'.keys = store.keys
        /\ store'.asked = AskedBy(ctx[r].setting, ctx[r].value)
    BY DEF UpdateBucket, ConfigInv, Shape, AskedBy
  <1>3. bucket' = ctx[r].record
    BY <1>2 DEF bucket
  <1>4. scene.sequential => \A q \in Reqs : pc'[q] \notin {"createKey", "update"}
    BY <1>1 DEF AskedInv, OneConfigures, Running
  <1>5. scene.sequential => OneConfigures' /\ CarriesAsked'
    BY <1>1, <1>4 DEF AskedInv, OneConfigures, CarriesAsked, Running
  <1>6. scene.sequential => IsAsAsked(bucket', store'.asked)
    BY <1>1, <1>2, <1>3 DEF AskedInv, CarriesAsked
  <1>7. scene.sequential /\ ~scene.deaths => KeysKnown'
    BY <1>1, <1>2, <1>3, <1>4 DEF AskedInv, KeysKnown
  <1> QED  BY <1>1, <1>5, <1>6, <1>7 DEF AskedInv

LEMMA PutAsked ==
    ASSUME ConfigInv, AskedInv, NEW r \in Reqs, scene' = scene, NEW op, NEW f \in Configs,
           Put(r, op, f)
    PROVE  AskedInv'
  <1>1. Sent(r, op) /\ pc[r] = "idle"
    BY SentAsked DEF Put
  <1>2. CASE Refuse(r)
    BY <1>1, <1>2, RefuseAsked
  <1>3. CASE Ask(r, f, r, Set(bucket, f, r))
    <2>1. /\ KeysOfRecord(Set(bucket, f, r)) = KeysOfRecord(bucket)
          /\ scene.sequential => IsAsAsked(Set(bucket, f, r), AskedBy(f, r))
      BY SetIsAsked, SetKeys DEF ConfigInv, AskedInv, bucket
    <2> QED  BY <1>1, <1>3, <2>1, AskAsked
  <1> QED  BY <1>2, <1>3 DEF Put

LEMMA RemoveAsked ==
    ASSUME ConfigInv, AskedInv, NEW r \in Reqs, scene' = scene, NEW op, NEW f \in Configs,
           Remove(r, op, f)
    PROVE  AskedInv'
  <1>1. Sent(r, op) /\ pc[r] = "idle"
    BY SentAsked DEF Remove
  <1>2. CASE Refuse(r)
    BY <1>1, <1>2, RefuseAsked
  <1>3. CASE bucket.set[f] = None /\ Nothing(r, f)
    BY <1>1, <1>3, NothingAsked DEF Configs
  <1>4. CASE Ask(r, f, None, Set(bucket, f, None))
    <2>1. /\ KeysOfRecord(Set(bucket, f, None)) = KeysOfRecord(bucket)
          /\ scene.sequential => IsAsAsked(Set(bucket, f, None), AskedBy(f, None))
      BY SetIsAsked, SetKeys DEF ConfigInv, AskedInv, bucket
    <2> QED  BY <1>1, <1>4, <2>1, AskAsked
  <1> QED  BY <1>2, <1>3, <1>4 DEF Remove

LEMMA AnswerAsked ==
    ASSUME ConfigInv, AskedInv, NEW r \in Reqs, scene' = scene, NEW op, Sent(r, op),
           NEW f, NEW v, Refuse(r) \/ Answer(r, f, v)
    PROVE  AskedInv'
  BY SentAsked, RefuseAsked, ReadAsked DEF Answer

\* A file of the Veeam folder is written in place.
LEMMA VeeamAsked ==
    ASSUME ConfigInv, AskedInv, NEW r \in Reqs, scene' = scene, NEW op, Sent(r, op),
           NEW f \in {"system", "capacity"}, NEW v, VeeamField(r, f, v)
    PROVE  AskedInv'
  <1>1. /\ store'.bucket = Set(store.bucket, f, v) /\ store'.keys = store.keys
        /\ store'.asked = [store.asked EXCEPT ![f] = v]
    BY DEF VeeamField, ConfigInv, Shape, Set
  <1>2. store'.asked = AskedBy(f, v)
    BY <1>1 DEF ConfigInv, Shape, AskedBy, Settings, Configs
  <1>3. bucket' = Set(bucket, f, v) /\ f \in Configs
    BY <1>1 DEF bucket, Configs
  <1>4. /\ KeysOfRecord(bucket') = KeysOfRecord(bucket)
        /\ scene.sequential => IsAsAsked(bucket', store'.asked)
    BY <1>2, <1>3, SetIsAsked, SetKeys DEF ConfigInv, AskedInv, bucket
  <1> QED  BY <1>1, <1>4, EndAsked DEF VeeamField

-----------------------------------------------------------------------------
(* The requests *)

LEMMA PutVersioningAsked ==
    ASSUME ConfigInv, AskedInv, NEW r \in Reqs, BucketPutVersioning(r), scene' = scene
    PROVE  AskedInv'
  <1>1. Sent(r, "bucketPutVersioning") /\ pc[r] = "idle"
    BY SentAsked DEF BucketPutVersioning
  <1>2. CASE Refuse(r)
    BY <1>1, <1>2, RefuseAsked
  <1>3. CASE Goto(r, "ok") /\ UNCHANGED <<store, ctx>>
    BY <1>1, <1>3, ReadAsked
  <1>4. ASSUME NEW v, Ask(r, "versioning", v, [bucket EXCEPT !.versioning = v])
        PROVE  AskedInv'
    <2>1. Sound(bucket) /\ bucket = store.bucket
      BY DEF ConfigInv, bucket
    <2>2. KeysOfRecord([bucket EXCEPT !.versioning = v]) = KeysOfRecord(bucket)
      BY <2>1 DEF Sound, Records, KeysOfRecord
    <2>3. scene.sequential
            => IsAsAsked([bucket EXCEPT !.versioning = v], AskedBy("versioning", v))
      BY <2>1, VersioningIsAsked DEF AskedInv
    <2> QED  BY <1>1, <1>4, <2>2, <2>3, AskAsked
  <1> QED  BY <1>2, <1>3, <1>4 DEF BucketPutVersioning

\* The identifier of a bucket is nothing that is asked for.
LEMMA PutLifecycleAsked ==
    ASSUME ConfigInv, AskedInv, NEW r \in Reqs, BucketPutLifecycle(r), scene' = scene
    PROVE  AskedInv'
  <1> DEFINE b == Set(bucket, "lifecycle", r)
             c == [b EXCEPT !.uid = IF @ = None THEN r ELSE @]
  <1>1. Sent(r, "bucketPutLifecycle") /\ pc[r] = "idle"
    BY SentAsked DEF BucketPutLifecycle
  <1>2. /\ KeysOfRecord(b) = KeysOfRecord(bucket)
        /\ scene.sequential => IsAsAsked(b, AskedBy("lifecycle", r))
    BY SetIsAsked, SetKeys DEF ConfigInv, AskedInv, bucket, Configs
  <1>3. Sound(b)
    BY SetSound DEF ConfigInv, bucket, Configs
  <1>4. /\ c.set = b.set /\ c.encryption = b.encryption /\ c.versioning = b.versioning
    BY <1>3 DEF Sound, Records
  <1>5. /\ KeysOfRecord(c) = KeysOfRecord(bucket)
        /\ scene.sequential => IsAsAsked(c, AskedBy("lifecycle", r))
    BY <1>2, <1>4 DEF KeysOfRecord, IsAsAsked, ShownOf
  <1>6. CASE Refuse(r)
    BY <1>1, <1>6, RefuseAsked
  <1>7. CASE Ask(r, "lifecycle", r, c)
    BY <1>1, <1>5, <1>7, AskAsked
  <1> QED  BY <1>6, <1>7 DEF BucketPutLifecycle

LEMMA DeleteTaggingAsked ==
    ASSUME ConfigInv, AskedInv, NEW r \in Reqs, BucketDeleteTagging(r), scene' = scene
    PROVE  AskedInv'
  <1> DEFINE b == Set(bucket, "tags", None)
  <1>1. Sent(r, "bucketDeleteTagging") /\ pc[r] = "idle"
    BY SentAsked DEF BucketDeleteTagging
  <1>2. /\ KeysOfRecord(b) = KeysOfRecord(bucket)
        /\ scene.sequential => IsAsAsked(b, AskedBy("tags", None))
    BY SetIsAsked, SetKeys DEF ConfigInv, AskedInv, bucket, Configs
  <1> HIDE DEF b
  <1>3. Refuse(r) \/ Ask(r, "tags", None, b)
    BY DEF BucketDeleteTagging, b
  <1> QED  BY <1>1, <1>2, <1>3, RefuseAsked, AskAsked

\* The key of a bucket that has one stays.
LEMMA ChangeEncryptionAsked ==
    ASSUME ConfigInv, AskedInv, NEW r \in Reqs, NEW op, Sent(r, op), scene' = scene,
           NEW v \in Reqs \cup {None}, NEW m \in BOOLEAN, v = IF m THEN r ELSE None,
           bucket.encryption # None,
           Ask(r, "encryption", v, [bucket EXCEPT !.encryption.by = v,
                                                  !.encryption.mandatory = m])
    PROVE  AskedInv'
  <1> DEFINE e == [bucket.encryption EXCEPT !.by = v, !.mandatory = m]
  <1>1. bucket.encryption \in Encryptions /\ Sound(bucket) /\ bucket = store.bucket
    BY DEF ConfigInv, Sound, Records, bucket
  <1>2. /\ e \in Encryptions /\ e.by = v /\ e.mandatory = m /\ e.key = bucket.encryption.key
        /\ v = IF e.mandatory THEN e.by ELSE None
    BY <1>1 DEF Encryptions
  <1>3. [bucket EXCEPT !.encryption.by = v, !.encryption.mandatory = m]
          = [bucket EXCEPT !.encryption = e]
    BY <1>1 DEF Sound, Records
  <1> HIDE DEF e
  <1>4. KeysOfRecord([bucket EXCEPT !.encryption = e]) = KeysOfRecord(bucket)
    BY <1>1, <1>2, NoneAssumption DEF Sound, Records, KeysOfRecord
  <1>5. scene.sequential
          => IsAsAsked([bucket EXCEPT !.encryption = e], AskedBy("encryption", v))
    BY <1>1, <1>2, EncryptionIsAsked DEF AskedInv
  <1>6. Ask(r, "encryption", v, [bucket EXCEPT !.encryption = e])
    BY <1>3
  <1> QED  BY <1>4, <1>5, <1>6, AskAsked

LEMMA EncryptionAsked ==
    ASSUME ConfigInv, AskedInv, NEW r \in Reqs, scene' = scene,
           \/ BucketPutEncryption(r)
           \/ BucketDeleteEncryption(r)
           \/ GetObjectSSEConfiguration(r)
    PROVE  AskedInv'
  <1>1. CASE BucketPutEncryption(r)
    <2>1. Sent(r, "bucketPutEncryption") /\ pc[r] = "idle"
      BY <1>1, SentAsked DEF BucketPutEncryption
    <2>2. CASE Refuse(r)
      BY <2>1, <2>2, RefuseAsked
    <2>3. CASE bucket.encryption = None /\ MakeKey(r, r, TRUE)
      BY <2>1, <2>3, MakeKeyAsked
    <2>4. CASE /\ bucket.encryption # None
               /\ Ask(r, "encryption", r, [bucket EXCEPT !.encryption.by = r,
                                                         !.encryption.mandatory = TRUE])
      BY <2>1, <2>4, ChangeEncryptionAsked
    <2> QED  BY <1>1, <2>2, <2>3, <2>4 DEF BucketPutEncryption
  <1>2. CASE BucketDeleteEncryption(r)
    <2>1. Sent(r, "bucketDeleteEncryption") /\ pc[r] = "idle"
      BY <1>2, SentAsked DEF BucketDeleteEncryption
    <2>2. CASE Refuse(r)
      BY <2>1, <2>2, RefuseAsked
    <2>3. CASE bucket.encryption = None /\ Nothing(r, "encryption")
      BY <2>1, <2>3, NothingAsked
    <2>4. CASE /\ bucket.encryption # None
               /\ Ask(r, "encryption", None, [bucket EXCEPT !.encryption.by = None,
                                                            !.encryption.mandatory = FALSE])
      BY <2>1, <2>4, ChangeEncryptionAsked
    <2> QED  BY <1>2, <2>2, <2>3, <2>4 DEF BucketDeleteEncryption
  <1>3. CASE GetObjectSSEConfiguration(r)
    <2>1. Sent(r, "objectPut")
      BY <1>3 DEF GetObjectSSEConfiguration
    <2>2. CASE bucket.encryption = None /\ MakeKey(r, None, FALSE)
      BY <2>1, <2>2, MakeKeyAsked
    <2>3. CASE Goto(r, "ok") /\ UNCHANGED <<store, ctx>>
      BY <2>1, <2>3, ReadAsked
    <2> QED  BY <1>3, <2>2, <2>3 DEF GetObjectSSEConfiguration
  <1> QED  BY <1>1, <1>2, <1>3

LEMMA PutsAsked ==
    ASSUME ConfigInv, AskedInv, NEW r \in Reqs, scene' = scene,
           \/ BucketPutObjectLock(r) \/ BucketPutReplication(r) \/ BucketPutCors(r)
           \/ BucketPutNotification(r) \/ BucketPutWebsite(r) \/ BucketPutPolicy(r)
           \/ BucketPutTagging(r) \/ BucketPutACL(r)
    PROVE  AskedInv'
  BY PutAsked
  DEF Configs, BucketPutObjectLock, BucketPutReplication, BucketPutCors,
      BucketPutNotification, BucketPutWebsite, BucketPutPolicy, BucketPutTagging,
      BucketPutACL

LEMMA RemovesAsked ==
    ASSUME ConfigInv, AskedInv, NEW r \in Reqs, scene' = scene,
           \/ BucketDeleteReplication(r) \/ BucketDeleteCors(r) \/ BucketDeleteWebsite(r)
           \/ BucketDeletePolicy(r) \/ BucketDeleteLifecycle(r)
    PROVE  AskedInv'
  BY RemoveAsked
  DEF Configs, BucketDeleteReplication, BucketDeleteCors, BucketDeleteWebsite,
      BucketDeletePolicy, BucketDeleteLifecycle

LEMMA VeeamFilesAsked ==
    ASSUME ConfigInv, AskedInv, NEW r \in Reqs, scene' = scene,
           PutVeeamFile(r) \/ DeleteVeeamCapabilities(r)
    PROVE  AskedInv'
  BY SentAsked, RefuseAsked, VeeamAsked
  DEF PutVeeamFile, DeleteVeeamCapabilities, DropVeeamField

LEMMA ReadsAsked ==
    ASSUME ConfigInv, AskedInv, NEW r \in Reqs, scene' = scene,
           \/ BucketGetVersioning(r) \/ BucketGetEncryption(r) \/ BucketGetObjectLock(r)
           \/ BucketGetReplication(r) \/ BucketGetLifecycle(r) \/ BucketGetCors(r)
           \/ BucketGetWebsite(r) \/ BucketGetPolicy(r) \/ BucketGetNotification(r)
           \/ BucketGetTagging(r) \/ BucketGetACL(r) \/ GetVeeamFile(r)
    PROVE  AskedInv'
  BY AnswerAsked
  DEF Get, BucketGetVersioning, BucketGetEncryption, BucketGetObjectLock,
      BucketGetReplication, BucketGetLifecycle, BucketGetCors, BucketGetWebsite,
      BucketGetPolicy, BucketGetNotification, BucketGetTagging, BucketGetACL, GetVeeamFile

LEMMA StepAsked ==
    ASSUME ConfigInv, AskedInv, NEW r \in Reqs, ConfigStep(r), scene' = scene
    PROVE  AskedInv'
  BY PutVersioningAsked, PutLifecycleAsked, DeleteTaggingAsked, EncryptionAsked,
     CreateKeyAsked, UpdateAsked, PutsAsked, RemovesAsked, VeeamFilesAsked, ReadsAsked
  DEF ConfigStep

LEMMA AskedInitially == ConfigInit => AskedInv
  <1> SUFFICES ASSUME ConfigInit  PROVE  AskedInv
    OBVIOUS
  <1>1. PICK l, i, n \in BOOLEAN :
          store = [bucket |-> Created(l, i, n), keys |-> {},
                   asked |-> [f \in Settings |-> None]]
    BY DEF ConfigInit
  <1>2. \A r \in Reqs : pc[r] = "idle"
    BY DEF ConfigInit
  <1>3. bucket = Created(l, i, n) /\ store.keys = {}
    BY <1>1 DEF bucket
  <1>4. IsAsAsked(bucket, store.asked)
    BY <1>1, <1>3 DEF IsAsAsked, ShownOf, Created, Settings
  <1>5. KeysKnown
    BY <1>2, <1>3 DEF KeysKnown, KeysOfRecord, Created
  <1> QED  BY <1>2, <1>4, <1>5 DEF AskedInv, OneConfigures, CarriesAsked, Running

LEMMA AskedSteps == ConfigInv /\ AskedInv /\ [ConfigNext]_vars => AskedInv'
  <1> SUFFICES ASSUME ConfigInv, AskedInv, [ConfigNext]_vars  PROVE  AskedInv'
    OBVIOUS
  <1>1. ASSUME NEW r \in Reqs, ConfigStep(r), scene' = scene  PROVE  AskedInv'
    BY <1>1, StepAsked
  <1>2. ASSUME NEW r \in Reqs, Die(r), scene' = scene  PROVE  AskedInv'
    BY <1>2, RefuseAsked DEF Die, Refuse
  <1>3. CASE UNCHANGED vars
    BY <1>3 DEF vars, AskedInv, OneConfigures, CarriesAsked, KeysKnown, Running, AskedBy,
                bucket
  <1> QED  BY <1>1, <1>2, <1>3 DEF ConfigNext

\* When nothing runs, the record is what was asked, and the keys are its own.
LEMMA AskedIsThere == AskedInv => ConfigIsAsAsked
  <1>1. AskedInv => AnswersAreLatest
    BY DEF AskedInv, AnswersAreLatest, IsAsAsked, ShownOf, ShownEncryption, bucket
  <1>2. AskedInv => NoStrayKey
    BY DEF AskedInv, NoStrayKey, KeysKnown, KeysOfRecord, Quiet, Running
  <1> QED  BY <1>1, <1>2 DEF ConfigIsAsAsked

-----------------------------------------------------------------------------
(* The link: one socket, one timer, and the token that is saved *)

SocketRec ==
    [state: {"none", "connecting", "open", "closed"}, pingDue: Nat, killDue: BOOLEAN,
     pinged: BOOLEAN, channels: [Channels -> {"none", "socket", "null"}]]

LinkRec ==
    [up: BOOLEAN, token: Reqs \cup {None}, confirmed: BOOLEAN,
     stage: {"getToken", "issue", "saveToken", "confirm", "start", "started", "retry"},
     issued: Reqs \cup {None}, used: Reqs \cup {None}, retries: Nat,
     ws: SocketRec,
     connected: BOOLEAN, access: BOOLEAN]

\* Before the listeners are started there is no socket and no token in use;
\* after, one socket is there or to come, and the token in use is the saved one.
Started ==
    IF store.stage = "started"
    THEN /\ store.retries + (IF ws.state \in {"connecting", "open"} THEN 1 ELSE 0) = 1
         /\ store.used = store.token
    ELSE /\ store.retries = 0
         /\ ws.state \notin {"connecting", "open"}
         /\ store.used = None

TokenIsSaved ==
    store.stage \in {"confirm", "start", "started"} => store.issued = store.token

\* A socket that is not open yet is fresh; one that is open has one timer, and
\* what waits for a pong is the timer that ends it.
Watched ==
    /\ ws.state = "connecting" => ws = Socket("connecting")
    /\ IsOpen => ws.pingDue + (IF ws.killDue THEN 1 ELSE 0) = 1
    /\ IsOpen /\ ws.pinged => ws.killDue
    /\ store.connected <=> IsOpen

Unasked == IsOpen /\ ~store.access => \A c \in Channels : ws.channels[c] # "socket"

LinkInv == store \in LinkRec /\ Started /\ TokenIsSaved /\ Watched /\ Unasked

\* The link starts down, with no socket.
LEMMA LinkInitially == LinkInit => LinkInv
  <1> SUFFICES ASSUME LinkInit  PROVE  LinkInv
    OBVIOUS
  <1>1. Socket("none") \in SocketRec
    BY DEF Socket, NoSockets, SocketRec
  <1>2. store \in LinkRec
    BY <1>1 DEF LinkInit, LinkRec
  <1> QED  BY <1>2
          DEF LinkInit, LinkInv, Started, TokenIsSaved, Watched, Unasked, ws,
              IsOpen, Socket

\* What a socket may become.
LEMMA SocketsStaySockets ==
    ASSUME NEW s \in SocketRec, NEW state \in {"none", "connecting", "open", "closed"},
           NEW n \in Nat, NEW b \in BOOLEAN, NEW b2 \in BOOLEAN
    PROVE  /\ Socket(state) \in SocketRec
           /\ [s EXCEPT !.state = state] \in SocketRec
           /\ [s EXCEPT !.pingDue = n] \in SocketRec
           /\ [s EXCEPT !.killDue = b] \in SocketRec
           /\ [s EXCEPT !.pinged = b2] \in SocketRec
  <1>1. Socket(state) \in SocketRec
    BY DEF Socket, NoSockets, SocketRec
  <1>2. [s EXCEPT !.state = state] \in SocketRec
    BY DEF SocketRec
  <1>3. [s EXCEPT !.pingDue = n] \in SocketRec
    BY DEF SocketRec
  <1>4. [s EXCEPT !.killDue = b] \in SocketRec
    BY DEF SocketRec
  <1>5. [s EXCEPT !.pinged = b2] \in SocketRec
    BY DEF SocketRec
  <1> QED  BY <1>1, <1>2, <1>3, <1>4, <1>5

\* Nor does a ping end that.
LEMMA PingedSockets == \A s \in SocketRec : InitiatePing(s) \in SocketRec
  <1> SUFFICES ASSUME NEW s \in SocketRec  PROVE  InitiatePing(s) \in SocketRec
    OBVIOUS
  <1>1. [s EXCEPT !.killDue = FALSE] \in SocketRec
    BY SocketsStaySockets
  <1>2. s.pingDue + 1 \in Nat
    BY DEF SocketRec
  <1>3. [[s EXCEPT !.killDue = FALSE] EXCEPT !.pingDue = s.pingDue + 1] \in SocketRec
    BY <1>1, <1>2, SocketsStaySockets
  <1>4. [[[s EXCEPT !.killDue = FALSE] EXCEPT !.pingDue = s.pingDue + 1]
            EXCEPT !.pinged = FALSE] \in SocketRec
    BY <1>3, SocketsStaySockets
  <1> QED  BY <1>4 DEF InitiatePing

\* What the state may become.
LEMMA LinksStayLinks ==
    ASSUME NEW s \in LinkRec
    PROVE  /\ \A x \in {"none", "connecting", "open", "closed"} :
                 /\ [s EXCEPT !.ws.state = x] \in LinkRec
                 /\ [s EXCEPT !.ws = Socket(x)] \in LinkRec
           /\ \A n \in Nat : /\ [s EXCEPT !.ws.pingDue = n] \in LinkRec
                             /\ [s EXCEPT !.retries = n] \in LinkRec
           /\ \A b \in BOOLEAN : /\ [s EXCEPT !.ws.killDue = b] \in LinkRec
                                 /\ [s EXCEPT !.ws.pinged = b] \in LinkRec
                                 /\ [s EXCEPT !.connected = b] \in LinkRec
           /\ \A w \in SocketRec : [s EXCEPT !.ws = w] \in LinkRec
  <1>1. s.ws \in SocketRec
    BY DEF LinkRec
  <1>2. \A w \in SocketRec : [s EXCEPT !.ws = w] \in LinkRec
    BY DEF LinkRec
  <1>3. \A x \in {"none", "connecting", "open", "closed"} :
            /\ [s EXCEPT !.ws.state = x] \in LinkRec
            /\ [s EXCEPT !.ws = Socket(x)] \in LinkRec
    BY <1>1, <1>2, SocketsStaySockets
  <1>4. \A n \in Nat : /\ [s EXCEPT !.ws.pingDue = n] \in LinkRec
                      /\ [s EXCEPT !.retries = n] \in LinkRec
    <2>1. \A n \in Nat : [s EXCEPT !.retries = n] \in LinkRec
      BY DEF LinkRec
    <2> QED  BY <2>1, <1>1, <1>2, SocketsStaySockets
  <1>5. \A b \in BOOLEAN :
            /\ [s EXCEPT !.ws.killDue = b] \in LinkRec
            /\ [s EXCEPT !.ws.pinged = b] \in LinkRec
    BY <1>1, <1>2, SocketsStaySockets
  <1>6. \A b \in BOOLEAN : [s EXCEPT !.connected = b] \in LinkRec
    BY DEF LinkRec
  <1> QED  BY <1>2, <1>3, <1>4, <1>5, <1>6

\* The link's invariant is kept by each event and each step of the process.
LEMMA LinkSteps == LinkInv /\ [LinkNext]_vars => LinkInv'
  <1> SUFFICES ASSUME LinkInv, [LinkNext]_vars  PROVE  LinkInv'
    OBVIOUS
  <1>0. /\ store \in LinkRec /\ ws \in SocketRec
        /\ Started /\ TokenIsSaved /\ Watched /\ Unasked
    BY DEF LinkInv, LinkRec, ws
  <1> USE DEF Own, Event
  <1>1. CASE UNCHANGED vars
    BY <1>1
       DEF vars, LinkInv, LinkRec, Started, TokenIsSaved, Watched, Unasked, ws,
           IsOpen, Socket
  <1>2. CASE GetStoredCredentials
    BY <1>2
       DEF GetStoredCredentials, LinkInv, LinkRec, Started, TokenIsSaved,
           Watched, Unasked, ws, IsOpen
  <1>3. CASE SaveToken
    BY <1>3
       DEF SaveToken, LinkInv, LinkRec, Started, TokenIsSaved, Watched, Unasked,
           ws, IsOpen
  <1>4. CASE ConfirmInstanceCredentials
    BY <1>4
       DEF ConfirmInstanceCredentials, LinkInv, LinkRec, Started, TokenIsSaved,
           Watched, Unasked, ws, IsOpen
  <1>5. CASE RetryInit
    BY <1>5
       DEF RetryInit, LinkInv, LinkRec, Started, TokenIsSaved, Watched, Unasked,
           ws, IsOpen
  <1>6. CASE StartManagementListeners
    <2>1. /\ store'.stage = "started"
          /\ store'.used = store.issued
          /\ store'.retries = 1
          /\ store'.up = store.up
          /\ store'.token = store.token
          /\ store'.confirmed = store.confirmed
          /\ store'.issued = store.issued
          /\ store'.connected = store.connected
          /\ store'.access = store.access
      BY <1>0, <1>6 DEF StartManagementListeners, ws, LinkRec
    <2>2. /\ ws'.state = ws.state
          /\ ws'.pingDue = ws.pingDue
          /\ ws'.killDue = ws.killDue
          /\ ws'.pinged = ws.pinged
          /\ ws'.channels = ws.channels
      BY <1>0, <1>6 DEF StartManagementListeners, ws, LinkRec, SocketRec, ws
    <2>3. store' \in LinkRec
      BY <1>0, <1>6 DEF StartManagementListeners, LinkRec
    <2>4. Started'
      BY <1>0, <1>6, <2>1, <2>2
         DEF StartManagementListeners, Started, Socket, NoSockets, IsOpen,
             TokenIsSaved, ws, LinkRec
    <2>5. TokenIsSaved'
      BY <1>0, <1>6, <2>1, <2>2
         DEF StartManagementListeners, TokenIsSaved, Socket, NoSockets, IsOpen,
             TokenIsSaved, ws, LinkRec
    <2>6. Watched'
      BY <1>0, <1>6, <2>1, <2>2, <2>3
         DEF StartManagementListeners, Watched, Socket, NoSockets, IsOpen,
             LinkRec, SocketRec, ws
    <2>7. Unasked'
      BY <1>0, <1>6, <2>1, <2>2
         DEF StartManagementListeners, Unasked, Socket, NoSockets, IsOpen,
             TokenIsSaved, ws, LinkRec
    <2> QED  BY <2>3, <2>4, <2>5, <2>6, <2>7 DEF LinkInv
  <1>7. CASE StartWSManagementClient
    <2>1. /\ store'.retries = store.retries - 1
          /\ store'.up = store.up
          /\ store'.token = store.token
          /\ store'.confirmed = store.confirmed
          /\ store'.stage = store.stage
          /\ store'.issued = store.issued
          /\ store'.used = store.used
          /\ store'.connected = store.connected
          /\ store'.access = store.access
      BY <1>0, <1>7 DEF StartWSManagementClient, Socket, LinkRec
    <2>2. /\ ws' = Socket("connecting")
          /\ ws'.state = "connecting"
          /\ ws'.pingDue = 0
          /\ ws'.killDue = FALSE
          /\ ws'.pinged = FALSE
          /\ ws'.channels = NoSockets
      BY <1>0, <1>7
         DEF StartWSManagementClient, Socket, NoSockets, LinkRec, SocketRec, ws
    <2>3. store' \in LinkRec
      <3>1. store.retries - 1 \in Nat
        BY <1>0, <1>7 DEF StartWSManagementClient, LinkRec
      <3>2. [store EXCEPT !.retries = @ - 1] \in LinkRec
        BY <1>0, <3>1, LinksStayLinks
      <3>3. [[store EXCEPT !.retries = @ - 1] EXCEPT !.ws = Socket("connecting")] \in LinkRec
        BY <3>2, LinksStayLinks
      <3> QED  BY <1>7, <3>3 DEF StartWSManagementClient
    <2>4. Started'
      BY <1>0, <1>7, <2>1, <2>2
         DEF StartWSManagementClient, Started, Socket, NoSockets, IsOpen,
             LinkRec
    <2>5. TokenIsSaved'
      BY <1>0, <1>7, <2>1, <2>2
         DEF StartWSManagementClient, TokenIsSaved, Socket, NoSockets, IsOpen,
             LinkRec
    <2>6. Watched'
      BY <1>0, <1>7, <2>1, <2>2, <2>3
         DEF StartWSManagementClient, Watched, Socket, NoSockets, IsOpen,
             Started, LinkRec, SocketRec, ws
    <2>7. Unasked'
      BY <1>0, <1>7, <2>1, <2>2
         DEF StartWSManagementClient, Unasked, Socket, NoSockets, IsOpen,
             LinkRec
    <2> QED  BY <2>3, <2>4, <2>5, <2>6, <2>7 DEF LinkInv
  <1>8. CASE OnOpen
    <2>1. /\ store'.connected = TRUE
          /\ store'.up = store.up
          /\ store'.token = store.token
          /\ store'.confirmed = store.confirmed
          /\ store'.stage = store.stage
          /\ store'.issued = store.issued
          /\ store'.used = store.used
          /\ store'.retries = store.retries
          /\ store'.access = store.access
      BY <1>0, <1>8 DEF OnOpen, InitiatePing, LinkRec
    <2>2. /\ ws'.state = "open"
          /\ ws'.pingDue = ws.pingDue + 1
          /\ ws'.killDue = FALSE
          /\ ws'.pinged = FALSE
          /\ ws'.channels = ws.channels
      BY <1>0, <1>8 DEF OnOpen, InitiatePing, LinkRec, SocketRec, ws
    <2>3. store' \in LinkRec
      <3>1. [store.ws EXCEPT !.state = "open"] \in SocketRec
        BY <1>0, SocketsStaySockets DEF ws
      <3>2. InitiatePing([store.ws EXCEPT !.state = "open"]) \in SocketRec
        BY <3>1, PingedSockets
      <3>3. [store EXCEPT !.connected = TRUE] \in LinkRec
        BY <1>0, LinksStayLinks
      <3>4. [[store EXCEPT !.connected = TRUE] EXCEPT
                !.ws = InitiatePing([store.ws EXCEPT !.state = "open"])] \in LinkRec
        BY <3>2, <3>3, LinksStayLinks
      <3> QED  BY <1>8, <3>4 DEF OnOpen
    <2>4. Started'
      BY <1>0, <1>8, <2>1, <2>2
         DEF OnOpen, Started, Socket, NoSockets, IsOpen, Watched, LinkRec
    <2>5. TokenIsSaved'
      BY <1>0, <1>8, <2>1, <2>2
         DEF OnOpen, TokenIsSaved, Socket, NoSockets, IsOpen, Watched, LinkRec
    <2>6. Watched'
      BY <1>0, <1>8, <2>1, <2>2, <2>3
         DEF OnOpen, Watched, Socket, NoSockets, IsOpen, LinkRec, SocketRec, ws
    <2>7. Unasked'
      BY <1>0, <1>8, <2>1, <2>2
         DEF OnOpen, Unasked, Socket, NoSockets, IsOpen, Watched, LinkRec
    <2> QED  BY <2>3, <2>4, <2>5, <2>6, <2>7 DEF LinkInv
  <1>9. CASE SendPing
    <2>1. /\ store'.up = store.up
          /\ store'.token = store.token
          /\ store'.confirmed = store.confirmed
          /\ store'.stage = store.stage
          /\ store'.issued = store.issued
          /\ store'.used = store.used
          /\ store'.retries = store.retries
          /\ store'.connected = store.connected
          /\ store'.access = store.access
      BY <1>0, <1>9 DEF SendPing, IsOpen, LinkRec
    <2>2. /\ ws'.state = ws.state
          /\ ws'.pingDue = ws.pingDue - 1
          /\ ws'.killDue = TRUE
          /\ ws'.pinged = IsOpen
          /\ ws'.channels = ws.channels
      BY <1>0, <1>9 DEF SendPing, IsOpen, LinkRec, SocketRec, ws
    <2>3. store' \in LinkRec
      <3>1. store.ws.pingDue - 1 \in Nat /\ IsOpen \in BOOLEAN
        BY <1>0, <1>9 DEF SendPing, ws, SocketRec, IsOpen
      <3>2. [store EXCEPT !.ws.pingDue = @ - 1] \in LinkRec
        BY <1>0, <3>1, LinksStayLinks
      <3>3. [[store EXCEPT !.ws.pingDue = @ - 1] EXCEPT !.ws.killDue = TRUE] \in LinkRec
        BY <3>2, LinksStayLinks
      <3>4. [[[store EXCEPT !.ws.pingDue = @ - 1] EXCEPT !.ws.killDue = TRUE]
                EXCEPT !.ws.pinged = IsOpen] \in LinkRec
        BY <3>1, <3>3, LinksStayLinks
      <3> QED  BY <1>9, <3>4 DEF SendPing
    <2>4. Started'
      BY <1>0, <1>9, <2>1, <2>2
         DEF SendPing, Started, Socket, NoSockets, IsOpen, LinkRec
    <2>5. TokenIsSaved'
      BY <1>0, <1>9, <2>1, <2>2
         DEF SendPing, TokenIsSaved, Socket, NoSockets, IsOpen, LinkRec
    <2>6. Watched'
      BY <1>0, <1>9, <2>1, <2>2, <2>3
         DEF SendPing, Watched, Socket, NoSockets, IsOpen, LinkRec, SocketRec,
             ws
    <2>7. Unasked'
      BY <1>0, <1>9, <2>1, <2>2
         DEF SendPing, Unasked, Socket, NoSockets, IsOpen, LinkRec
    <2> QED  BY <2>3, <2>4, <2>5, <2>6, <2>7 DEF LinkInv
  <1>10. CASE OnPong
    <2>1. /\ store'.up = store.up
          /\ store'.token = store.token
          /\ store'.confirmed = store.confirmed
          /\ store'.stage = store.stage
          /\ store'.issued = store.issued
          /\ store'.used = store.used
          /\ store'.retries = store.retries
          /\ store'.connected = store.connected
          /\ store'.access = store.access
      BY <1>0, <1>10 DEF OnPong, InitiatePing, LinkRec
    <2>2. /\ ws'.state = ws.state
          /\ ws'.pingDue = ws.pingDue + 1
          /\ ws'.killDue = FALSE
          /\ ws'.pinged = FALSE
          /\ ws'.channels = ws.channels
      BY <1>0, <1>10 DEF OnPong, InitiatePing, LinkRec, SocketRec, ws
    <2>3. store' \in LinkRec
      <3>1. InitiatePing(store.ws) \in SocketRec
        BY <1>0, PingedSockets DEF ws
      <3> QED  BY <1>0, <1>10, <3>1, LinksStayLinks DEF OnPong
    <2>4. Started'
      BY <1>0, <1>10, <2>1, <2>2
         DEF OnPong, Started, Socket, NoSockets, IsOpen, LinkRec
    <2>5. TokenIsSaved'
      BY <1>0, <1>10, <2>1, <2>2
         DEF OnPong, TokenIsSaved, Socket, NoSockets, IsOpen, LinkRec
    <2>6. Watched'
      BY <1>0, <1>10, <2>1, <2>2, <2>3
         DEF OnPong, Watched, Socket, NoSockets, IsOpen, LinkRec, SocketRec, ws
    <2>7. Unasked'
      BY <1>0, <1>10, <2>1, <2>2
         DEF OnPong, Unasked, Socket, NoSockets, IsOpen, LinkRec
    <2> QED  BY <2>3, <2>4, <2>5, <2>6, <2>7 DEF LinkInv
  <1>11. CASE Terminate /\ IsOpen
    <2>1. /\ store'.connected = FALSE
          /\ store'.retries = store.retries + 1
          /\ store'.up = store.up
          /\ store'.token = store.token
          /\ store'.confirmed = store.confirmed
          /\ store'.stage = store.stage
          /\ store'.issued = store.issued
          /\ store'.used = store.used
          /\ store'.access = store.access
      BY <1>0, <1>11 DEF Terminate, Closed, IsOpen, ws, LinkRec
    <2>2. /\ ws'.state = "closed"
          /\ ws'.pingDue = ws.pingDue
          /\ ws'.killDue = FALSE
          /\ ws'.pinged = ws.pinged
          /\ ws'.channels = ws.channels
      BY <1>0, <1>11 DEF Terminate, Closed, IsOpen, ws, LinkRec, SocketRec, ws
    <2>3. store' \in LinkRec
      <3>1. [store EXCEPT !.ws.state = "closed"] \in LinkRec
        BY <1>0, LinksStayLinks
      <3>0. store.retries + 1 \in Nat
        BY <1>0 DEF LinkRec
      <3>2. [[store EXCEPT !.ws.state = "closed"] EXCEPT !.connected = FALSE] \in LinkRec
        BY <3>1, LinksStayLinks
      <3>3. [[[store EXCEPT !.ws.state = "closed"] EXCEPT !.connected = FALSE]
                EXCEPT !.retries = store.retries + 1] \in LinkRec
        BY <3>0, <3>2, LinksStayLinks
      <3>4. Closed \in LinkRec
        BY <3>3 DEF Closed
      <3> QED  BY <3>4, <1>11, LinksStayLinks DEF Terminate, IsOpen
    <2>4. Started'
      BY <1>0, <1>11, <2>1, <2>2
         DEF Terminate, Started, Socket, NoSockets, IsOpen, LinkRec
    <2>5. TokenIsSaved'
      BY <1>0, <1>11, <2>1, <2>2
         DEF Terminate, TokenIsSaved, Socket, NoSockets, IsOpen, LinkRec
    <2>6. Watched'
      BY <1>0, <1>11, <2>1, <2>2, <2>3
         DEF Terminate, Watched, Socket, NoSockets, IsOpen, LinkRec, SocketRec,
             ws
    <2>7. Unasked'
      BY <1>0, <1>11, <2>1, <2>2
         DEF Terminate, Unasked, Socket, NoSockets, IsOpen, LinkRec
    <2> QED  BY <2>3, <2>4, <2>5, <2>6, <2>7 DEF LinkInv
  <1>12. CASE Terminate /\ ~IsOpen
    <2>1. /\ store'.up = store.up
          /\ store'.token = store.token
          /\ store'.confirmed = store.confirmed
          /\ store'.stage = store.stage
          /\ store'.issued = store.issued
          /\ store'.used = store.used
          /\ store'.retries = store.retries
          /\ store'.connected = store.connected
          /\ store'.access = store.access
      BY <1>0, <1>12 DEF Terminate, Closed, IsOpen, ws, LinkRec
    <2>2. /\ ws'.state = ws.state
          /\ ws'.pingDue = ws.pingDue
          /\ ws'.killDue = FALSE
          /\ ws'.pinged = ws.pinged
          /\ ws'.channels = ws.channels
      BY <1>0, <1>12 DEF Terminate, Closed, IsOpen, ws, LinkRec, SocketRec, ws
    <2>3. store' \in LinkRec
      BY <1>0, <1>12, LinksStayLinks DEF Terminate, IsOpen
    <2>4. Started'
      BY <1>0, <1>12, <2>1, <2>2
         DEF Terminate, Started, Socket, NoSockets, IsOpen, LinkRec
    <2>5. TokenIsSaved'
      BY <1>0, <1>12, <2>1, <2>2
         DEF Terminate, TokenIsSaved, Socket, NoSockets, IsOpen, LinkRec
    <2>6. Watched'
      BY <1>0, <1>12, <2>1, <2>2, <2>3
         DEF Terminate, Watched, Socket, NoSockets, IsOpen, LinkRec, SocketRec,
             ws
    <2>7. Unasked'
      BY <1>0, <1>12, <2>1, <2>2
         DEF Terminate, Unasked, Socket, NoSockets, IsOpen, LinkRec
    <2> QED  BY <2>3, <2>4, <2>5, <2>6, <2>7 DEF LinkInv
  <1>13. ASSUME NEW r \in Reqs, IssueCredentials(r)  PROVE  LinkInv'
    BY <1>13
       DEF IssueCredentials, LinkInv, LinkRec, Started, TokenIsSaved, Watched,
           Unasked, ws, IsOpen, Sent
  <1>14. ASSUME NEW r \in Reqs, InitFails(r)  PROVE  LinkInv'
    BY <1>14
       DEF InitFails, LinkInv, LinkRec, Started, TokenIsSaved, Watched, Unasked,
           ws, IsOpen, Sent
  <1>15. ASSUME NEW r \in Reqs, OnClose(r)  PROVE  LinkInv'
    <2>1. /\ store'.connected = FALSE
          /\ store'.retries = store.retries + 1
          /\ store'.up = store.up
          /\ store'.token = store.token
          /\ store'.confirmed = store.confirmed
          /\ store'.stage = store.stage
          /\ store'.issued = store.issued
          /\ store'.used = store.used
          /\ store'.access = store.access
      BY <1>0, <1>15 DEF OnClose, Closed, LinkRec
    <2>2. /\ ws'.state = "closed"
          /\ ws'.pingDue = ws.pingDue
          /\ ws'.killDue = ws.killDue
          /\ ws'.pinged = ws.pinged
          /\ ws'.channels = ws.channels
      BY <1>0, <1>15 DEF OnClose, Closed, LinkRec, SocketRec, ws
    <2>3. store' \in LinkRec
      <3>1. [store EXCEPT !.ws.state = "closed"] \in LinkRec
        BY <1>0, LinksStayLinks
      <3>0. store.retries + 1 \in Nat
        BY <1>0 DEF LinkRec
      <3>2. [[store EXCEPT !.ws.state = "closed"] EXCEPT !.connected = FALSE] \in LinkRec
        BY <3>1, LinksStayLinks
      <3>3. [[[store EXCEPT !.ws.state = "closed"] EXCEPT !.connected = FALSE]
                EXCEPT !.retries = store.retries + 1] \in LinkRec
        BY <3>0, <3>2, LinksStayLinks
      <3>4. Closed \in LinkRec
        BY <3>3 DEF Closed
      <3> QED  BY <3>4, <1>15 DEF OnClose
    <2>4. Started'
      BY <1>0, <1>15, <2>1, <2>2
         DEF OnClose, Started, Socket, NoSockets, IsOpen, LinkRec
    <2>5. TokenIsSaved'
      BY <1>0, <1>15, <2>1, <2>2
         DEF OnClose, TokenIsSaved, Socket, NoSockets, IsOpen, LinkRec
    <2>6. Watched'
      BY <1>0, <1>15, <2>1, <2>2, <2>3
         DEF OnClose, Watched, Socket, NoSockets, IsOpen, LinkRec, SocketRec, ws
    <2>7. Unasked'
      BY <1>0, <1>15, <2>1, <2>2
         DEF OnClose, Unasked, Socket, NoSockets, IsOpen, LinkRec
    <2> QED  BY <2>3, <2>4, <2>5, <2>6, <2>7 DEF LinkInv
  <1>16. ASSUME NEW r \in Reqs, ReceiveChannelData(r)  PROVE  LinkInv'
    <2>0. CASE UNCHANGED store
      BY <2>0
         DEF LinkInv, LinkRec, Started, TokenIsSaved, Watched, Unasked, ws,
             IsOpen, Socket
    <2>1. CASE ~UNCHANGED store
      <3>1. PICK c \in Channels :
              /\ IsOpen /\ store.access
              /\ store' = [store EXCEPT !.ws.channels[c] = "socket"]
        BY <1>16, <2>1 DEF ReceiveChannelData
      <3> DEFINE w == [ws EXCEPT !.channels[c] = "socket"]
      <3>2. w \in SocketRec /\ store' = [store EXCEPT !.ws = w]
        BY <1>0, <3>1 DEF SocketRec, ws, LinkRec
      <3>3. /\ w.state = ws.state
            /\ w.pingDue = ws.pingDue
            /\ w.killDue = ws.killDue
            /\ w.pinged = ws.pinged
            /\ \A d \in Channels : w.channels[d] = IF d = c THEN "socket" ELSE ws.channels[d]
        BY <1>0 DEF SocketRec
      <3> HIDE DEF w
      <3>4. store' \in LinkRec
        BY <1>0, <3>2 DEF LinkRec
      <3>5. /\ ws' = w
            /\ store'.up = store.up
            /\ store'.token = store.token
            /\ store'.confirmed = store.confirmed
            /\ store'.stage = store.stage
            /\ store'.issued = store.issued
            /\ store'.used = store.used
            /\ store'.retries = store.retries
            /\ store'.connected = store.connected
            /\ store'.access = store.access
        BY <1>0, <3>2 DEF LinkRec, ws
      <3>6. Started' /\ TokenIsSaved'
        BY <1>0, <3>3, <3>5 DEF Started, TokenIsSaved
      <3>7. Watched'
        BY <1>0, <3>1, <3>2, <3>3, <3>5
           DEF Watched, IsOpen, Socket, NoSockets, SocketRec
      <3>8. Unasked'
        BY <1>0, <3>1, <3>3, <3>5 DEF Unasked, IsOpen
      <3> QED  BY <3>4, <3>6, <3>7, <3>8 DEF LinkInv
    <2> QED  BY <2>0, <2>1
  <1>17. ASSUME NEW r \in Reqs, SocketEnds(r)  PROVE  LinkInv'
    <2>0. CASE UNCHANGED store
      BY <2>0
         DEF LinkInv, LinkRec, Started, TokenIsSaved, Watched, Unasked, ws,
             IsOpen, Socket
    <2>1. CASE ~UNCHANGED store
      <3>1. PICK c \in Channels :
              /\ ws.channels[c] = "socket"
              /\ store' = [store EXCEPT !.ws.channels[c] = "null"]
        BY <1>17, <2>1 DEF SocketEnds
      <3> DEFINE w == [ws EXCEPT !.channels[c] = "null"]
      <3>2. w \in SocketRec /\ store' = [store EXCEPT !.ws = w]
        BY <1>0, <3>1 DEF SocketRec, ws, LinkRec
      <3>3. /\ w.state = ws.state
            /\ w.pingDue = ws.pingDue
            /\ w.killDue = ws.killDue
            /\ w.pinged = ws.pinged
            /\ \A d \in Channels : w.channels[d] = IF d = c THEN "null" ELSE ws.channels[d]
        BY <1>0 DEF SocketRec
      <3> HIDE DEF w
      <3>4. store' \in LinkRec
        BY <1>0, <3>2 DEF LinkRec
      <3>5. /\ ws' = w
            /\ store'.up = store.up
            /\ store'.token = store.token
            /\ store'.confirmed = store.confirmed
            /\ store'.stage = store.stage
            /\ store'.issued = store.issued
            /\ store'.used = store.used
            /\ store'.retries = store.retries
            /\ store'.connected = store.connected
            /\ store'.access = store.access
        BY <1>0, <3>2 DEF LinkRec, ws
      <3>6. Started' /\ TokenIsSaved'
        BY <1>0, <3>3, <3>5 DEF Started, TokenIsSaved
      <3>7. Watched'
        BY <1>0, <3>1, <3>2, <3>3, <3>5
           DEF Watched, IsOpen, Socket, NoSockets, SocketRec
      <3>8. Unasked'
        BY <1>0, <3>1, <3>3, <3>5 DEF Unasked, IsOpen
      <3> QED  BY <3>4, <3>6, <3>7, <3>8 DEF LinkInv
    <2> QED  BY <2>0, <2>1
  <1>18. ASSUME NEW r \in Reqs, CloseChannel(r)  PROVE  LinkInv'
    <2>0. CASE UNCHANGED store
      BY <2>0
         DEF LinkInv, LinkRec, Started, TokenIsSaved, Watched, Unasked, ws,
             IsOpen, Socket
    <2>1. CASE ~UNCHANGED store
      <3>1. PICK c \in Channels :
              /\ IsOpen
              /\ store' = [store EXCEPT !.ws.channels[c] = IF @ = "socket" THEN "none" ELSE @]
        BY <1>18, <2>1 DEF CloseChannel
      <3> DEFINE w == [ws EXCEPT !.channels[c] = IF @ = "socket" THEN "none" ELSE @]
      <3>2. w \in SocketRec /\ store' = [store EXCEPT !.ws = w]
        BY <1>0, <3>1 DEF SocketRec, ws, LinkRec
      <3>3. /\ w.state = ws.state
            /\ w.pingDue = ws.pingDue
            /\ w.killDue = ws.killDue
            /\ w.pinged = ws.pinged
            /\ \A d \in Channels : w.channels[d] = 
                   IF d = c
                   THEN IF ws.channels[c] = "socket" THEN "none" ELSE ws.channels[c]
                   ELSE ws.channels[d]
        BY <1>0 DEF SocketRec
      <3> HIDE DEF w
      <3>4. store' \in LinkRec
        BY <1>0, <3>2 DEF LinkRec
      <3>5. /\ ws' = w
            /\ store'.up = store.up
            /\ store'.token = store.token
            /\ store'.confirmed = store.confirmed
            /\ store'.stage = store.stage
            /\ store'.issued = store.issued
            /\ store'.used = store.used
            /\ store'.retries = store.retries
            /\ store'.connected = store.connected
            /\ store'.access = store.access
        BY <1>0, <3>2 DEF LinkRec, ws
      <3>6. Started' /\ TokenIsSaved'
        BY <1>0, <3>3, <3>5 DEF Started, TokenIsSaved
      <3>7. Watched'
        BY <1>0, <3>1, <3>2, <3>3, <3>5
           DEF Watched, IsOpen, Socket, NoSockets, SocketRec
      <3>8. Unasked'
        BY <1>0, <3>1, <3>3, <3>5 DEF Unasked, IsOpen
      <3> QED  BY <3>4, <3>6, <3>7, <3>8 DEF LinkInv
    <2> QED  BY <2>0, <2>1
  <1>19. ASSUME NEW r \in Reqs, ChangeBrowserAccess(r)  PROVE  LinkInv'
    <2>1. CASE store' = [store EXCEPT !.up = FALSE]
      BY <1>0, <2>1
         DEF LinkInv, LinkRec, Started, TokenIsSaved, Watched, Unasked, ws,
             IsOpen
    <2>2. CASE /\ store' = [store EXCEPT !.access = ~@]
               /\ ~(store.access /\ IsOpen /\ ws.channels # NoSockets)
      BY <1>0, <2>2
         DEF LinkInv, LinkRec, Started, TokenIsSaved, Watched, Unasked, ws,
             IsOpen, NoSockets
    <2> QED  BY <1>19, <2>1, <2>2 DEF ChangeBrowserAccess
  <1>20. ASSUME NEW r \in Reqs, RestartProcess(r)  PROVE  LinkInv'
    <2>1. /\ store'.up = TRUE
          /\ store'.stage = "getToken"
          /\ store'.issued = None
          /\ store'.used = None
          /\ store'.retries = 0
          /\ store'.connected = FALSE
          /\ store'.access = TRUE
          /\ store'.token = store.token
          /\ store'.confirmed = store.confirmed
      BY <1>0, <1>20 DEF RestartProcess, Socket, LinkRec
    <2>2. /\ ws'.state = "none"
          /\ ws'.pingDue = 0
          /\ ws'.killDue = FALSE
          /\ ws'.pinged = FALSE
          /\ ws'.channels = NoSockets
      BY <1>0, <1>20 DEF RestartProcess, Socket, LinkRec, SocketRec, ws
    <2>3. store' \in LinkRec
      <3>1. Socket("none") \in SocketRec
        BY <1>0, SocketsStaySockets
      <3> QED  BY <1>0, <1>20, <3>1 DEF RestartProcess, LinkRec
    <2>4. Started'
      BY <1>0, <1>20, <2>1, <2>2
         DEF RestartProcess, Started, Socket, NoSockets, IsOpen, LinkRec
    <2>5. TokenIsSaved'
      BY <1>0, <1>20, <2>1, <2>2
         DEF RestartProcess, TokenIsSaved, Socket, NoSockets, IsOpen, LinkRec
    <2>6. Watched'
      BY <1>0, <1>20, <2>1, <2>2, <2>3
         DEF RestartProcess, Watched, Socket, NoSockets, IsOpen, LinkRec,
             SocketRec, ws
    <2>7. Unasked'
      BY <1>0, <1>20, <2>1, <2>2
         DEF RestartProcess, Unasked, Socket, NoSockets, IsOpen, LinkRec
    <2> QED  BY <2>3, <2>4, <2>5, <2>6, <2>7 DEF LinkInv
  <1> QED
    BY <1>1, <1>2, <1>3, <1>4, <1>5, <1>6, <1>7, <1>8, <1>9, <1>10, <1>11,
       <1>12, <1>13, <1>14, <1>15, <1>16, <1>17, <1>18, <1>19, <1>20
       DEF LinkNext, OwnStep, LinkStep

\* The invariant contains the property.
LEMMA LinkInvEnough == LinkInv => LinkIsSound
  BY DEF LinkInv, Started, TokenIsSaved, Watched, Unasked, LinkIsSound,
         OneConnection, ConnectionIsWatched, SavedTokenIsUsed, NoAccessNoChannel

-----------------------------------------------------------------------------
(* The overlay: what is live is one overlay, that is saved *)

Versions == 0..MaxVersion
OverlayCalls == {"getCredentials", "save", "saveVersion", "loadRemote", "patchRemote",
                 "savePushed", "loadNewOverlay"}
Thens == {"loadRemote", "patchRemote", "savePushed", "loadNewOverlay", "ok"}
OverlayCtx == [v: Versions, cached: Versions, then: Thens]

Places == {"us-east-1", "dc", "A"}
HostEnds == [Hosts -> Places \cup {None}]
LiveRec == [version: Versions, accounts: Versions, locs: SUBSET Places, ends: HostEnds]
DbRec == [saved: SUBSET Versions, latest: Versions]

OverlayStore ==
    [overlays: [1..MaxVersion -> Overlays], published: Versions,
     files: Files, clustered: BOOLEAN, polls: BOOLEAN, live: LiveRec, db: DbRec, loaded: Versions, inbox: Seq(Versions)]

RequestTypes ==
    /\ pc \in [Reqs -> OverlayCalls \cup {"idle", "ok", "failed"}]
    /\ ctx \in [Reqs -> OverlayCtx \cup {None}]
    /\ \A r \in Reqs : pc[r] \in OverlayCalls => ctx[r] \in OverlayCtx

OverlayTypes == store \in OverlayStore /\ RequestTypes

\* What is being applied is an overlay; what is about to be named is stored.
InHand ==
    \A r \in Reqs :
        /\ pc[r] = "getCredentials" => ctx[r].v # 0 /\ ctx[r].then # "loadNewOverlay"
        /\ pc[r] = "saveVersion" => ctx[r].v \in db.saved

LatestThere == db.latest # 0 => db.latest \in db.saved

\* What LiveIsWhole says of configuration c, of overlays ov and the files f.
IsWhole(ov, f, c) ==
    /\ LeadSomewhere(c.ends, c.locs)
    /\ c.version # 0 =>
          \A h \in Hosts : ov[c.version].ends[h] # None =>
                             c.ends[h] = ov[c.version].ends[h]
    /\ c.accounts # 0 =>
          /\ ov[c.accounts].locs # {} => c.locs = ov[c.accounts].locs
          /\ c.accounts # c.version => ~EndpointsFit(c, ov[c.accounts])
    /\ c.accounts = 0 => c = FromFiles(f)

Whole == IsWhole(store.overlays, store.files, live)

OverlayInv == OverlayTypes /\ InHand /\ LatestThere /\ Whole

-----------------------------------------------------------------------------
\* A server gets its overlays in one way: it polls, or is pushed to.
OneWay ==
    \A s \in Scenes : s.component = "overlay" /\ "poll" \in s.ops =>
                          s.ops \cap {"push", "agent"} = {}

\* Of requests that wait for one another one runs, and what it is about to
\* apply is newer than what is live.
Alone ==
    scene.sequential => \A q, r \in Reqs : Running(q) /\ Running(r) => q = r

Newer ==
    scene.sequential =>
        \A r \in Reqs :
            pc[r] = "getCredentials" => live.version = 0 \/ ctx[r].v > live.version

PollCalls == {"getCredentials", "loadRemote", "save", "saveVersion", "patchRemote"}

\* A poll that runs alone: it has in hand what was saved when it came, the live
\* configuration is brought there, and then to what the API offers.
PollInHand(r) ==
    LET c == ctx[r]
    IN  /\ pc[r] \in OverlayCalls => pc[r] \in PollCalls /\ c.then # "loadNewOverlay"
        /\ pc[r] = "getCredentials" =>
            /\ c.v = db.latest
            /\ c.then \in {"loadRemote", "ok"}
            /\ c.then = "loadRemote" => c.cached = db.latest
        /\ pc[r] \in {"loadRemote", "save", "saveVersion"} =>
            /\ c.cached = db.latest /\ live.version = db.latest
            /\ pc[r] # "loadRemote" => c.then = "patchRemote"
        /\ pc[r] = "saveVersion" => c.v > db.latest
        /\ pc[r] = "patchRemote" =>
            \/ c.v <= live.version /\ live.version = db.latest
            \/ c.v = db.latest

Polling ==
    scene.sequential /\ "poll" \in scene.ops =>
        /\ live.version <= db.latest
        /\ store.loaded = 0 /\ store.inbox = <<>>
        /\ \A r \in Reqs : PollInHand(r)

ForwardInv == OverlayInv /\ scene \in Scenes /\ Alone /\ Newer /\ Polling
-----------------------------------------------------------------------------
\* What the numbers and parts of overlays are.
LEMMA OverlayValues ==
    /\ MaxVersion \in Nat /\ 0 \in Versions
    /\ \A o \in Overlays : o.locs \in SUBSET Places /\ o.ends \in HostEnds
    /\ \A f \in Files : FromFiles(f) \in LiveRec /\ LeadSomewhere(f.ends, f.locs)
  <1>1. MaxVersion \in Nat /\ 0 \in Versions
    BY DEF MaxVersion, Versions
  <1>2. NoEnds \in HostEnds
    BY DEF NoEnds, HostEnds
  <1>3. ASSUME NEW h \in Hosts, NEW p \in Places  PROVE  [NoEnds EXCEPT ![h] = p] \in HostEnds
    BY <1>2, <1>3 DEF HostEnds
  <1>4. \A o \in Overlays : o.locs \in SUBSET Places /\ o.ends \in HostEnds
    <2>1. [NoEnds EXCEPT !["custom"] = "A"] \in HostEnds
      BY <1>3 DEF Hosts, Places
    <2> QED  BY <1>2, <2>1 DEF Overlays, Places
  <1>5. ASSUME NEW f \in Files
        PROVE  FromFiles(f) \in LiveRec /\ LeadSomewhere(f.ends, f.locs)
    <2>1. f.ends \in HostEnds /\ f.locs \in SUBSET Places
      <3>1. /\ [NoEnds EXCEPT !["s3"] = "us-east-1"] \in HostEnds
            /\ [NoEnds EXCEPT !["s3"] = "dc"] \in HostEnds
        BY <1>3 DEF Hosts, Places
      <3>2. CASE f = [locs |-> {"us-east-1"}, ends |-> [NoEnds EXCEPT !["s3"] = "us-east-1"]]
        BY <3>1, <3>2 DEF Places
      <3>3. CASE f = [locs |-> {"us-east-1", "dc"}, ends |-> [NoEnds EXCEPT !["s3"] = "dc"]]
        BY <3>1, <3>3 DEF Places
      <3> QED  BY <3>2, <3>3 DEF Files
    <2>2. FromFiles(f) \in LiveRec
      BY <1>1, <2>1 DEF FromFiles, LiveRec
    <2>3. LeadSomewhere(f.ends, f.locs)
      BY DEF Files, LeadSomewhere, NoEnds
    <2> QED  BY <2>2, <2>3
  <1> QED  BY <1>1, <1>4, <1>5

\* What is made of a configuration and an overlay is a configuration.
LEMMA PatchedValues ==
    ASSUME NEW c \in LiveRec, NEW o \in Overlays, NEW v \in Versions
    PROVE  Patched(c, o, v) \in LiveRec /\ HalfPatched(c, o, v) \in LiveRec
  <1>1. c.ends \in HostEnds /\ o.ends \in HostEnds /\ c.locs \in SUBSET Places
        /\ o.locs \in SUBSET Places
    BY OverlayValues DEF LiveRec
  <1>2. NewLocations(c, o) \in SUBSET Places
    BY <1>1 DEF NewLocations
  <1>3. NewEndpoints(c, o) \in HostEnds
    <2> DEFINE e == [h \in Hosts |-> IF o.ends[h] # None THEN o.ends[h] ELSE c.ends[h]]
    <2>1. e \in HostEnds
      BY <1>1 DEF HostEnds
    <2>2. [e EXCEPT !["replicator"] = "us-east-1"] \in HostEnds
      BY <2>1 DEF HostEnds, Hosts, Places
    <2> QED  BY <2>1, <2>2 DEF NewEndpoints
  <1> QED  BY <1>2, <1>3 DEF Patched, HalfPatched, LiveRec

\* The files' configuration is whole.
LEMMA FreshIsWhole ==
    ASSUME NEW ov, NEW f \in Files  PROVE  IsWhole(ov, f, FromFiles(f))
  BY OverlayValues DEF IsWhole, FromFiles

\* An overlay that fits leaves a whole configuration, ...
LEMMA PatchedIsWhole ==
    ASSUME NEW ov \in [1..MaxVersion -> Overlays], NEW f, NEW c \in LiveRec,
           NEW v \in 1..MaxVersion, EndpointsFit(c, ov[v])
    PROVE  IsWhole(ov, f, Patched(c, ov[v], v))
  <1> DEFINE o == ov[v]
             p == Patched(c, o, v)
  <1>1. /\ p.version = v /\ p.accounts = v
        /\ p.locs = NewLocations(c, o) /\ p.ends = NewEndpoints(c, o)
    BY DEF Patched
  <1>2. LeadSomewhere(p.ends, p.locs)
    BY <1>1 DEF EndpointsFit
  <1>3. \A h \in Hosts : o.ends[h] # None => NewEndpoints(c, o)[h] = o.ends[h]
    BY DEF NewEndpoints
  <1>4. o.locs # {} => p.locs = o.locs
    BY <1>1 DEF NewLocations
  <1>5. v # 0
    BY DEF MaxVersion
  <1> HIDE DEF o, p
  <1>6. IsWhole(ov, f, p)
    BY <1>1, <1>2, <1>3, <1>4, <1>5 DEF IsWhole, o
  <1> QED  BY <1>6 DEF o, p

\* ... and one whose endpoints do not, half of it.
LEMMA HalfIsWhole ==
    ASSUME NEW ov \in [1..MaxVersion -> Overlays], NEW f, NEW c \in LiveRec,
           NEW v \in 1..MaxVersion, IsWhole(ov, f, c),
           LocationsFit(c, ov[v]), ~EndpointsFit(c, ov[v])
    PROVE  IsWhole(ov, f, HalfPatched(c, ov[v], v))
  <1> DEFINE o == ov[v]
             p == HalfPatched(c, o, v)
  <1>1. /\ p.version = c.version /\ p.accounts = v
        /\ p.locs = NewLocations(c, o) /\ p.ends = c.ends
    BY DEF HalfPatched, LiveRec
  <1>2. LeadSomewhere(p.ends, p.locs)
    BY <1>1 DEF IsWhole, LocationsFit, NewLocations
  <1>3. o.locs # {} => p.locs = o.locs
    BY <1>1 DEF NewLocations
  <1>4. ~EndpointsFit(p, o)
    <2>1. NewEndpoints(p, o) = NewEndpoints(c, o)
      BY <1>1 DEF NewEndpoints
    <2>2. NewLocations(p, o) = NewLocations(c, o)
      BY <1>1 DEF NewLocations
    <2> QED  BY <2>1, <2>2 DEF EndpointsFit
  <1>5. v # 0
    BY DEF MaxVersion
  <1> HIDE DEF o, p
  <1>6. IsWhole(ov, f, p)
    BY <1>1, <1>2, <1>3, <1>4, <1>5 DEF IsWhole, o
  <1> QED  BY <1>6 DEF o, p

\* Nothing is saved, nothing is live.
LEMMA OverlayInitially == OverlayInit => OverlayInv
  <1> SUFFICES ASSUME OverlayInit  PROVE  OverlayInv
    OBVIOUS
  <1>0. PICK f \in Files : store.live = FromFiles(f) /\ store.files = f
    BY DEF OverlayInit
  <1>1. FromFiles(f) \in LiveRec /\ [saved |-> {}, latest |-> 0] \in DbRec
    BY OverlayValues DEF DbRec
  <1>2. store \in OverlayStore
    BY <1>0, <1>1, OverlayValues DEF OverlayInit, OverlayStore
  <1>3. Whole
    BY <1>0, FreshIsWhole DEF Whole, live
  <1> QED  BY <1>2, <1>3
          DEF OverlayInit, OverlayInv, OverlayTypes, RequestTypes, InHand,
              LatestThere, db, OverlayCalls

\* The parts of the state, and what each may become.
LEMMA StoreParts ==
    ASSUME NEW s \in OverlayStore
    PROVE  /\ s.live \in LiveRec /\ s.db \in DbRec /\ s.inbox \in Seq(Versions)
           /\ s.loaded \in Versions /\ s.db.latest \in Versions
           /\ s.db.saved \subseteq Versions
           /\ s.live.version \in Versions /\ s.published \in Versions
           /\ s.files \in Files /\ s.overlays \in [1..MaxVersion -> Overlays]
           /\ \A w \in LiveRec : [s EXCEPT !.live = w] \in OverlayStore
           /\ \A w \in BOOLEAN : [s EXCEPT !.polls = w] \in OverlayStore
           /\ \A w \in DbRec : [s EXCEPT !.db = w] \in OverlayStore
           /\ \A w \in Seq(Versions) : [s EXCEPT !.inbox = w] \in OverlayStore
           /\ \A w \in Versions : [s EXCEPT !.loaded = w] \in OverlayStore
           /\ \A w \in Versions : [s EXCEPT !.published = w] \in OverlayStore
  <1>1. s.live \in LiveRec /\ s.db \in DbRec /\ s.inbox \in Seq(Versions)
    BY DEF OverlayStore
  <1>2. /\ s.loaded \in Versions /\ s.db.latest \in Versions
        /\ s.db.saved \subseteq Versions
        /\ s.live.version \in Versions /\ s.published \in Versions
        /\ s.files \in Files /\ s.overlays \in [1..MaxVersion -> Overlays]
    BY DEF OverlayStore, LiveRec, DbRec
  <1>3. \A w \in LiveRec : [s EXCEPT !.live = w] \in OverlayStore
    BY DEF OverlayStore
  <1>8. \A w \in BOOLEAN : [s EXCEPT !.polls = w] \in OverlayStore
    BY DEF OverlayStore
  <1>4. \A w \in DbRec : [s EXCEPT !.db = w] \in OverlayStore
    BY DEF OverlayStore
  <1>5. \A w \in Seq(Versions) : [s EXCEPT !.inbox = w] \in OverlayStore
    BY DEF OverlayStore
  <1>6. \A w \in Versions : [s EXCEPT !.loaded = w] \in OverlayStore
    BY DEF OverlayStore
  <1>7. \A w \in Versions : [s EXCEPT !.published = w] \in OverlayStore
    BY DEF OverlayStore
  <1> QED  BY <1>1, <1>2, <1>3, <1>4, <1>5, <1>6, <1>7, <1>8

\* A server that starts has the files' configuration.
LEMMA StartedParts ==
    ASSUME store \in OverlayStore, ServerStarts
    PROVE  /\ store' \in OverlayStore /\ live' = Fresh /\ Fresh = FromFiles(store.files)
           /\ db' = db /\ store'.loaded = store.loaded
           /\ store'.inbox = IF store.loaded = 0 THEN <<>> ELSE <<store.loaded>>
           /\ store'.overlays = store.overlays /\ store'.files = store.files
  <1> DEFINE i == IF store.loaded = 0 THEN <<>> ELSE <<store.loaded>>
             s1 == [store EXCEPT !.live = Fresh]
             s2 == [s1 EXCEPT !.polls = TRUE]
  <1>1. i \in Seq(Versions) /\ Fresh \in LiveRec
    BY StoreParts, OverlayValues DEF Fresh
  <1>2. store' = [s2 EXCEPT !.inbox = i]
    BY DEF ServerStarts
  <1> HIDE DEF i
  <1>3. s1 \in OverlayStore
    BY <1>1, StoreParts
  <1>4. s2 \in OverlayStore
    BY <1>3, StoreParts
  <1>5. store' \in OverlayStore
    BY <1>1, <1>2, <1>4, StoreParts
  <1>6. /\ live' = Fresh /\ db' = db /\ store'.loaded = store.loaded /\ store'.inbox = i
        /\ store'.overlays = store.overlays /\ store'.files = store.files
    BY <1>2 DEF OverlayStore, live, db
  <1> QED  BY <1>5, <1>6 DEF i, Fresh

\* The overlay that is applied, and to what.
LEMMA AppliedValues ==
    ASSUME OverlayTypes, InHand, NEW r \in Reqs, pc[r] = "getCredentials"
    PROVE  /\ ctx[r].v \in 1..MaxVersion /\ ctx[r].v \in Versions
           /\ store.overlays \in [1..MaxVersion -> Overlays]
           /\ store.overlays[ctx[r].v] \in Overlays /\ live \in LiveRec
  <1>1. ctx[r].v \in 1..MaxVersion /\ ctx[r].v \in Versions
    BY DEF OverlayTypes, RequestTypes, OverlayCalls, OverlayCtx, InHand, Versions,
           MaxVersion
  <1>2. store.overlays \in [1..MaxVersion -> Overlays] /\ live \in LiveRec
    BY StoreParts DEF OverlayTypes, live
  <1> QED  BY <1>1, <1>2

\* What half an overlay, or one, changes.
LEMMA AppliedParts ==
    ASSUME OverlayTypes, InHand, NEW r \in Reqs, NEW w,
           \/ ApplyOverlay(r) /\ w = Patched(live, store.overlays[ctx[r].v], ctx[r].v)
           \/ /\ ApplyHalf(r) /\ ~ServerStarts
              /\ w = HalfPatched(live, store.overlays[ctx[r].v], ctx[r].v)
    PROVE  /\ store' \in OverlayStore /\ live' = w /\ db' = db
           /\ store'.loaded = store.loaded /\ store'.inbox = store.inbox
           /\ store'.overlays = store.overlays /\ store'.files = store.files
  <1>1. pc[r] = "getCredentials" /\ store \in OverlayStore
    BY DEF ApplyOverlay, ApplyHalf, OverlayTypes
  <1>2. w \in LiveRec
    BY <1>1, AppliedValues, PatchedValues
  <1> DEFINE s1 == [store EXCEPT !.live = w]
  <1>3. store' = s1 \/ store' = [s1 EXCEPT !.polls = FALSE]
    BY DEF ApplyOverlay, ApplyHalf
  <1>4. s1 \in OverlayStore
    BY <1>1, <1>2, StoreParts
  <1>5. store' \in OverlayStore
    BY <1>3, <1>4, StoreParts
  <1>6. /\ live' = w /\ db' = db
        /\ store'.loaded = store.loaded /\ store'.inbox = store.inbox
        /\ store'.overlays = store.overlays /\ store'.files = store.files
    BY <1>1, <1>3 DEF OverlayStore, live, db
  <1> QED  BY <1>5, <1>6

\* One that is applied brings its version, ...
LEMMA ApplyVersion ==
    ASSUME OverlayTypes, InHand, NEW r \in Reqs, ApplyOverlay(r)
    PROVE  /\ live'.version = ctx[r].v /\ db' = db
           /\ store'.loaded = store.loaded /\ store'.inbox = store.inbox
  <1>1. PICK w : w = Patched(live, store.overlays[ctx[r].v], ctx[r].v)
    OBVIOUS
  <1>2. live' = w /\ db' = db /\ store'.loaded = store.loaded /\ store'.inbox = store.inbox
    BY <1>1, AppliedParts
  <1> QED  BY <1>1, <1>2 DEF Patched

\* ... and half of one does not.
LEMMA HalfVersion ==
    ASSUME OverlayTypes, InHand, NEW r \in Reqs, ApplyHalf(r), ~ServerStarts
    PROVE  /\ live'.version = live.version /\ db' = db
           /\ store'.loaded = store.loaded /\ store'.inbox = store.inbox
  <1>1. PICK w : w = HalfPatched(live, store.overlays[ctx[r].v], ctx[r].v)
    OBVIOUS
  <1>2. live' = w /\ db' = db /\ store'.loaded = store.loaded /\ store'.inbox = store.inbox
    BY <1>1, AppliedParts
  <1>3. live \in LiveRec
    BY AppliedValues DEF ApplyHalf
  <1> QED  BY <1>1, <1>2, <1>3 DEF HalfPatched, LiveRec

\* Every step leaves a state of the store.
LEMMA OverlayStoreSteps ==
    (OverlayTypes /\ InHand) /\ [OverlayNext]_vars => store' \in OverlayStore
  <1> SUFFICES ASSUME OverlayTypes, InHand, [OverlayNext]_vars
               PROVE  store' \in OverlayStore
    OBVIOUS
  <1>0. store \in OverlayStore
    BY DEF OverlayTypes
  <1>1. CASE store' = store
    BY <1>0, <1>1
  <1>2. CASE Publish
    <2>0. store.published \in Versions
      BY <1>0, StoreParts
    <2>1. store.published + 1 \in Versions
      BY <1>2, <2>0 DEF Publish, Versions, MaxVersion
    <2> QED  BY <1>0, <1>2, <2>1, StoreParts DEF Publish
  <1>3. ASSUME NEW r \in Reqs, ApplyOverlay(r) \/ ApplyHalf(r)
        PROVE  store' \in OverlayStore
    <2>1. CASE ServerStarts
      BY <1>0, <2>1, StartedParts
    <2>2. CASE ~ServerStarts
      BY <1>3, <2>2, AppliedParts
    <2> QED  BY <2>1, <2>2
  <1>4. ASSUME NEW r \in Reqs, SaveOverlay(r)  PROVE  store' \in OverlayStore
    <2>1. ctx[r].v \in Versions
      BY <1>4
         DEF SaveOverlay, OverlayTypes, RequestTypes, OverlayCalls, OverlayCtx
    <2>2. [store.db EXCEPT !.saved = @ \cup {ctx[r].v}] \in DbRec
      BY <1>0, <2>1, StoreParts DEF DbRec
    <2>3. store' = [store EXCEPT !.db.saved = @ \cup {ctx[r].v}] \/ store' = store
      BY <1>4 DEF SaveOverlay
    <2> QED  BY <1>0, <2>2, <2>3, StoreParts
  <1>5. ASSUME NEW r \in Reqs, SaveVersion(r)  PROVE  store' \in OverlayStore
    <2>1. ctx[r].v \in Versions
      BY <1>5
         DEF SaveVersion, OverlayTypes, RequestTypes, OverlayCalls, OverlayCtx
    <2>2. [store.db EXCEPT !.latest = ctx[r].v] \in DbRec
      BY <1>0, <2>1, StoreParts DEF DbRec
    <2> QED  BY <1>0, <1>5, <2>2, StoreParts DEF SaveVersion
  <1>6. ASSUME NEW r \in Reqs, LoadNewOverlay(r)  PROVE  store' \in OverlayStore
    <2>1. ctx[r].v \in Versions
      BY <1>6
         DEF LoadNewOverlay, OverlayTypes, RequestTypes, OverlayCalls,
             OverlayCtx
    <2>2. Append(store.inbox, ctx[r].v) \in Seq(Versions)
      BY <1>0, <2>1, StoreParts
    <2>3. [store EXCEPT !.loaded = ctx[r].v] \in OverlayStore
      BY <1>0, <2>1, StoreParts
    <2>4. [[store EXCEPT !.loaded = ctx[r].v] EXCEPT !.inbox = Append(store.inbox, ctx[r].v)]
             \in OverlayStore
      BY <2>2, <2>3, StoreParts
    <2> QED  BY <1>6, <2>4 DEF LoadNewOverlay
  <1>7. ASSUME NEW r \in Reqs, ReceiveNewOverlay(r)  PROVE  store' \in OverlayStore
    <2>1. Tail(store.inbox) \in Seq(Versions)
      BY <1>0, <1>7, StoreParts DEF ReceiveNewOverlay
    <2> QED  BY <1>0, <1>7, <2>1, StoreParts DEF ReceiveNewOverlay
  <1>8. ASSUME NEW r \in Reqs, RestartServer(r)  PROVE  store' \in OverlayStore
    BY <1>0, <1>8, StartedParts DEF RestartServer
  <1>9. ASSUME NEW r \in Reqs, RestartAgent(r)  PROVE  store' \in OverlayStore
    <2> DEFINE i == IF Cached = 0 THEN <<>> ELSE <<Cached>>
    <2>0. Cached \in Versions
      BY <1>0, StoreParts, OverlayValues DEF Cached, db
    <2>1. i \in Seq(Versions)
      BY <2>0
    <2>3. store' = [[store EXCEPT !.loaded = Cached] EXCEPT !.inbox = i]
      BY <1>9 DEF RestartAgent
    <2> HIDE DEF i
    <2>4. [store EXCEPT !.loaded = Cached] \in OverlayStore
      BY <1>0, <2>0, StoreParts
    <2> QED  BY <2>1, <2>3, <2>4, StoreParts
  <1> QED
    BY <1>1, <1>2, <1>3, <1>4, <1>5, <1>6, <1>7, <1>8, <1>9
       DEF OverlayNext, OverlayStep, RefuseOverlay, Poll, LoadRemoteOverlay,
           PatchRemote, ReceivePush, SavePushed, OnNewOverlay,
           PatchConfiguration, Refuse, Die, vars

\* Every step keeps the types of the requests.
LEMMA RequestTypeSteps == OverlayTypes /\ [OverlayNext]_vars => RequestTypes'
  <1> SUFFICES ASSUME OverlayTypes, [OverlayNext]_vars  PROVE  RequestTypes'
    OBVIOUS
  <1>0. store \in OverlayStore /\ Offered \subseteq Versions
    <2>1. store \in OverlayStore
      BY DEF OverlayTypes
    <2>2. store.published \in Versions
      BY <2>1, StoreParts
    <2> QED  BY <2>1, <2>2 DEF Offered, Versions, MaxVersion
  <1> USE DEF RequestTypes, OverlayCalls, OverlayCtx, Thens, OverlayTypes, Goto,
              Carry, live, db
  <1>1. CASE UNCHANGED vars
    BY <1>1 DEF vars
  <1>2. CASE Publish
    BY <1>2 DEF Publish
  <1>3. ASSUME NEW r \in Reqs, RefuseOverlay(r) \/ ApplyOverlay(r) \/ ApplyHalf(r)
        PROVE  RequestTypes'
    BY <1>3 DEF RefuseOverlay, ApplyOverlay, ApplyHalf, Refuse, Kill
  <1>4. ASSUME NEW r \in Reqs, SaveOverlay(r)  PROVE  RequestTypes'
    BY <1>4, StoreParts, OverlayValues DEF SaveOverlay
  <1>5. ASSUME NEW r \in Reqs, SaveVersion(r)  PROVE  RequestTypes'
    BY <1>5, StoreParts, OverlayValues DEF SaveVersion
  <1>6. ASSUME NEW r \in Reqs, Poll(r)  PROVE  RequestTypes'
    BY <1>6, StoreParts, OverlayValues DEF Poll, PatchConfiguration, Cached, Sent
  <1>7. ASSUME NEW r \in Reqs, LoadRemoteOverlay(r)  PROVE  RequestTypes'
    <2>1. CASE Refuse(r)
      BY <2>1 DEF Refuse
    <2>2. CASE ~Refuse(r)
      <3>1. PICK v \in Offered :
              /\ ctx' = [ctx EXCEPT ![r] =
                             [ctx[r] EXCEPT !.v = v, !.then = "patchRemote"]]
              /\ pc' = [pc EXCEPT ![r] = "save"]
        BY <1>7, <2>2 DEF LoadRemoteOverlay
      <3>2. v \in Versions /\ ctx[r] \in OverlayCtx
        BY <1>0, <1>7, <3>1 DEF LoadRemoteOverlay
      <3>3. [ctx[r] EXCEPT !.v = v, !.then = "patchRemote"] \in OverlayCtx
        BY <3>2
      <3> QED  BY <3>1, <3>3
    <2> QED  BY <2>1, <2>2
  <1>8. ASSUME NEW r \in Reqs, PatchRemote(r)  PROVE  RequestTypes'
    BY <1>8, StoreParts, OverlayValues DEF PatchRemote, PatchConfiguration
  <1>9. ASSUME NEW r \in Reqs, ReceivePush(r)  PROVE  RequestTypes'
    <2>1. PICK v \in Offered \ {0} : PatchConfiguration(r, v, 0, "savePushed")
      BY <1>9 DEF ReceivePush
    <2>2. v \in Versions /\ 0 \in Versions
      BY <1>0, <2>1, OverlayValues
    <2> QED  BY <2>1, <2>2 DEF PatchConfiguration
  <1>10. ASSUME NEW r \in Reqs, SavePushed(r)  PROVE  RequestTypes'
    BY <1>10, StoreParts, OverlayValues DEF SavePushed
  <1>11. ASSUME NEW r \in Reqs, OnNewOverlay(r)  PROVE  RequestTypes'
    <2>1. PICK v \in Offered \ {0} :
            ctx' = [ctx EXCEPT ![r] =
                [v |-> v, cached |-> store.loaded, then |-> "loadNewOverlay"]]
      BY <1>11 DEF OnNewOverlay
    <2>2. v \in Versions /\ store.loaded \in Versions
      BY <1>0, <2>1, StoreParts
    <2>3. pc' = [pc EXCEPT ![r] = "save"]
      BY <1>11 DEF OnNewOverlay
    <2> QED  BY <2>1, <2>2, <2>3
  <1>12. ASSUME NEW r \in Reqs, LoadNewOverlay(r)  PROVE  RequestTypes'
    BY <1>12, StoreParts, OverlayValues DEF LoadNewOverlay
  <1>13. ASSUME NEW r \in Reqs, ReceiveNewOverlay(r)  PROVE  RequestTypes'
    BY <1>13, StoreParts, OverlayValues DEF ReceiveNewOverlay, Sent
  <1>14. ASSUME NEW r \in Reqs, RestartServer(r)  PROVE  RequestTypes'
    BY <1>14 DEF RestartServer, Kill
  <1>15. ASSUME NEW r \in Reqs, RestartAgent(r)  PROVE  RequestTypes'
    BY <1>15 DEF RestartAgent, Kill
  <1>16. ASSUME NEW r \in Reqs, Die(r)  PROVE  RequestTypes'
    BY <1>16, StoreParts, OverlayValues DEF Die, Running
  <1> QED
    BY <1>1, <1>2, <1>3, <1>4, <1>5, <1>6, <1>7, <1>8, <1>9, <1>10, <1>11,
       <1>12, <1>13, <1>14, <1>15, <1>16 DEF OverlayNext, OverlayStep

\* Every step names what is stored, and applies an overlay.
LEMMA InHandSteps == (OverlayTypes /\ InHand) /\ [OverlayNext]_vars => InHand'
  <1> SUFFICES ASSUME (OverlayTypes /\ InHand), [OverlayNext]_vars  PROVE  InHand'
    OBVIOUS
  <1> USE DEF OverlayTypes, RequestTypes, OverlayStore, DbRec, OverlayCalls,
              OverlayCtx, Thens, InHand, AlreadyApplied, Goto, Carry, live, db
  <1>1. CASE UNCHANGED vars
    BY <1>1 DEF vars
  <1>2. CASE Publish
    BY <1>2 DEF Publish
  <1>3. ASSUME NEW r \in Reqs, RefuseOverlay(r) \/ ApplyOverlay(r) \/ ApplyHalf(r)
        PROVE  InHand'
    <2>1. db' = db
      <3>1. CASE RefuseOverlay(r)
        BY <3>1 DEF RefuseOverlay, Refuse
      <3>2. CASE ServerStarts
        BY <3>2, StartedParts
      <3>3. CASE (ApplyOverlay(r) \/ ApplyHalf(r)) /\ ~ServerStarts
        BY <3>3, AppliedParts
      <3> QED  BY <1>3, <3>1, <3>2, <3>3
    <2>2. ctx' = ctx /\ \A q \in Reqs : pc'[q] \in {pc[q], "failed"} \cup Thens
      BY <1>3 DEF RefuseOverlay, ApplyOverlay, ApplyHalf, Refuse, Kill
    <2> QED  BY <2>1, <2>2
  <1>4. ASSUME NEW r \in Reqs, SaveOverlay(r)  PROVE  InHand'
    <2>1. CASE UNCHANGED store /\ pc' = [pc EXCEPT ![r] = ctx[r].then] /\ ctx' = ctx
      BY <1>4, <2>1 DEF SaveOverlay
    <2>2. CASE /\ store' = [store EXCEPT !.db.saved = @ \cup {ctx[r].v}] /\ ctx' = ctx
               /\ pc' = [pc EXCEPT ![r] = "saveVersion"]
      <3>1. db'.saved = db.saved \cup {ctx[r].v}
        BY <2>2
      <3>2. \A q \in Reqs : pc'[q] = IF q = r THEN "saveVersion" ELSE pc[q]
        BY <2>2
      <3> QED  BY <2>2, <3>1, <3>2 DEF InHand
    <2> QED  BY <1>4, <2>1, <2>2 DEF SaveOverlay
  <1>5. ASSUME NEW r \in Reqs, SaveVersion(r)  PROVE  InHand'
    BY <1>5, OverlayValues DEF SaveVersion
  <1>6. ASSUME NEW r \in Reqs, Poll(r)  PROVE  InHand'
    BY <1>6, OverlayValues DEF Poll, PatchConfiguration, Cached, Sent
  <1>7. ASSUME NEW r \in Reqs, LoadRemoteOverlay(r)  PROVE  InHand'
    BY <1>7, OverlayValues DEF LoadRemoteOverlay, Refuse, Offered
  <1>8. ASSUME NEW r \in Reqs, PatchRemote(r)  PROVE  InHand'
    BY <1>8, OverlayValues DEF PatchRemote, PatchConfiguration
  <1>9. ASSUME NEW r \in Reqs, ReceivePush(r)  PROVE  InHand'
    BY <1>9, OverlayValues DEF ReceivePush, PatchConfiguration, Offered, Sent
  <1>10. ASSUME NEW r \in Reqs, SavePushed(r)  PROVE  InHand'
    BY <1>10, OverlayValues DEF SavePushed
  <1>11. ASSUME NEW r \in Reqs, OnNewOverlay(r)  PROVE  InHand'
    BY <1>11, OverlayValues DEF OnNewOverlay, Offered, Sent
  <1>12. ASSUME NEW r \in Reqs, LoadNewOverlay(r)  PROVE  InHand'
    BY <1>12, OverlayValues DEF LoadNewOverlay
  <1>13. ASSUME NEW r \in Reqs, ReceiveNewOverlay(r)  PROVE  InHand'
    BY <1>13, OverlayValues DEF ReceiveNewOverlay, Sent
  <1>14. ASSUME NEW r \in Reqs, RestartServer(r)  PROVE  InHand'
    BY <1>14, StartedParts DEF RestartServer, Kill
  <1>15. ASSUME NEW r \in Reqs, RestartAgent(r)  PROVE  InHand'
    BY <1>15, StartedParts DEF RestartAgent, Kill
  <1>16. ASSUME NEW r \in Reqs, Die(r)  PROVE  InHand'
    BY <1>16, OverlayValues DEF Die, Running
  <1> QED
    BY <1>1, <1>2, <1>3, <1>4, <1>5, <1>6, <1>7, <1>8, <1>9, <1>10, <1>11,
       <1>12, <1>13, <1>14, <1>15, <1>16 DEF OverlayNext, OverlayStep

\* The overlay that is named the latest stays there.
LEMMA LatestSteps ==
    (OverlayTypes /\ InHand /\ LatestThere) /\ [OverlayNext]_vars => LatestThere'
  <1> SUFFICES ASSUME (OverlayTypes /\ InHand /\ LatestThere), [OverlayNext]_vars
               PROVE  LatestThere'
    OBVIOUS
  <1> USE DEF OverlayTypes, RequestTypes, OverlayStore, DbRec, InHand, LatestThere,
              Goto, Carry, live, db
  <1>1. CASE UNCHANGED vars
    BY <1>1 DEF vars
  <1>2. CASE Publish
    BY <1>2 DEF Publish
  <1>3. ASSUME NEW r \in Reqs, RefuseOverlay(r) \/ ApplyOverlay(r) \/ ApplyHalf(r)
        PROVE  LatestThere'
    <2>1. db' = db
      <3>1. CASE RefuseOverlay(r)
        BY <3>1 DEF RefuseOverlay, Refuse
      <3>2. CASE ServerStarts
        BY <3>2, StartedParts
      <3>3. CASE (ApplyOverlay(r) \/ ApplyHalf(r)) /\ ~ServerStarts
        BY <3>3, AppliedParts
      <3> QED  BY <1>3, <3>1, <3>2, <3>3
    <2> QED  BY <2>1
  <1>4. ASSUME NEW r \in Reqs, SaveOverlay(r)  PROVE  LatestThere'
    BY <1>4, OverlayValues DEF SaveOverlay
  <1>5. ASSUME NEW r \in Reqs, SaveVersion(r)  PROVE  LatestThere'
    BY <1>5, OverlayValues DEF SaveVersion
  <1>6. ASSUME NEW r \in Reqs, Poll(r)  PROVE  LatestThere'
    BY <1>6, OverlayValues DEF Poll, PatchConfiguration, Cached, Sent
  <1>7. ASSUME NEW r \in Reqs, LoadRemoteOverlay(r)  PROVE  LatestThere'
    BY <1>7, OverlayValues DEF LoadRemoteOverlay, Refuse, Offered
  <1>8. ASSUME NEW r \in Reqs, PatchRemote(r)  PROVE  LatestThere'
    BY <1>8, OverlayValues DEF PatchRemote, PatchConfiguration
  <1>9. ASSUME NEW r \in Reqs, ReceivePush(r)  PROVE  LatestThere'
    BY <1>9, OverlayValues DEF ReceivePush, PatchConfiguration, Offered, Sent
  <1>10. ASSUME NEW r \in Reqs, SavePushed(r)  PROVE  LatestThere'
    BY <1>10, OverlayValues DEF SavePushed
  <1>11. ASSUME NEW r \in Reqs, OnNewOverlay(r)  PROVE  LatestThere'
    BY <1>11, OverlayValues DEF OnNewOverlay, Offered, Sent
  <1>12. ASSUME NEW r \in Reqs, LoadNewOverlay(r)  PROVE  LatestThere'
    BY <1>12, OverlayValues DEF LoadNewOverlay
  <1>13. ASSUME NEW r \in Reqs, ReceiveNewOverlay(r)  PROVE  LatestThere'
    BY <1>13, OverlayValues DEF ReceiveNewOverlay, Sent
  <1>14. ASSUME NEW r \in Reqs, RestartServer(r)  PROVE  LatestThere'
    BY <1>14, StartedParts DEF RestartServer, Kill
  <1>15. ASSUME NEW r \in Reqs, RestartAgent(r)  PROVE  LatestThere'
    BY <1>15, StartedParts DEF RestartAgent, Kill
  <1>16. ASSUME NEW r \in Reqs, Die(r)  PROVE  LatestThere'
    BY <1>16, OverlayValues DEF Die, Running
  <1> QED
    BY <1>1, <1>2, <1>3, <1>4, <1>5, <1>6, <1>7, <1>8, <1>9, <1>10, <1>11,
       <1>12, <1>13, <1>14, <1>15, <1>16 DEF OverlayNext, OverlayStep

\* Only an overlay that is applied, or a restart, changes what is live.
LEMMA LiveStays ==
    ASSUME store \in OverlayStore, NEW r \in Reqs,
           \/ RefuseOverlay(r) \/ SaveOverlay(r) \/ SaveVersion(r) \/ Poll(r)
           \/ LoadRemoteOverlay(r) \/ PatchRemote(r) \/ ReceivePush(r) \/ SavePushed(r)
           \/ OnNewOverlay(r) \/ LoadNewOverlay(r) \/ ReceiveNewOverlay(r)
           \/ RestartAgent(r) \/ Die(r)
    PROVE  live' = live /\ store'.overlays = store.overlays /\ store'.files = store.files
  <1>1. CASE UNCHANGED store
    BY <1>1 DEF live
  <1>3. CASE SaveOverlay(r)
    BY <1>3 DEF SaveOverlay, live, OverlayStore
  <1>4. CASE SaveVersion(r)
    BY <1>4 DEF SaveVersion, live, OverlayStore
  <1>5. CASE LoadNewOverlay(r)
    BY <1>5 DEF LoadNewOverlay, live, OverlayStore
  <1>6. CASE ReceiveNewOverlay(r)
    BY <1>6 DEF ReceiveNewOverlay, live, OverlayStore
  <1>7. CASE RestartAgent(r)
    BY <1>7 DEF RestartAgent, live, OverlayStore
  <1> QED
    BY <1>1, <1>3, <1>4, <1>5, <1>6, <1>7
       DEF RefuseOverlay, Poll, LoadRemoteOverlay, PatchRemote, ReceivePush, SavePushed,
           OnNewOverlay, PatchConfiguration, Refuse, Die

\* What is live stays whole, or half of an overlay that does not fit.
LEMMA WholeSteps == (OverlayTypes /\ InHand /\ Whole) /\ [OverlayNext]_vars => Whole'
  <1> SUFFICES ASSUME OverlayTypes, InHand, Whole, [OverlayNext]_vars
               PROVE  Whole'
    OBVIOUS
  <1>0. store \in OverlayStore
    BY DEF OverlayTypes
  <1>1. CASE /\ live' = live /\ store'.overlays = store.overlays
             /\ store'.files = store.files
    BY <1>1 DEF Whole
  <1>2. CASE ServerStarts
    <2>1. store.files \in Files
      BY <1>0, StoreParts
    <2> QED  BY <1>0, <1>2, <2>1, StartedParts, FreshIsWhole DEF Whole
  <1>3. ASSUME NEW r \in Reqs, ApplyOverlay(r)  PROVE  Whole'
    <2>1. pc[r] = "getCredentials" /\ EndpointsFit(live, store.overlays[ctx[r].v])
      BY <1>3 DEF ApplyOverlay
    <2>2. IsWhole(store.overlays, store.files,
                  Patched(live, store.overlays[ctx[r].v], ctx[r].v))
      BY <2>1, AppliedValues, PatchedIsWhole
    <2> QED  BY <1>3, <2>2, AppliedParts DEF Whole
  <1>4. ASSUME NEW r \in Reqs, ApplyHalf(r), ~ServerStarts  PROVE  Whole'
    <2>1. /\ pc[r] = "getCredentials" /\ LocationsFit(live, store.overlays[ctx[r].v])
          /\ ~EndpointsFit(live, store.overlays[ctx[r].v])
      BY <1>4 DEF ApplyHalf
    <2>2. IsWhole(store.overlays, store.files,
                  HalfPatched(live, store.overlays[ctx[r].v], ctx[r].v))
      BY <2>1, AppliedValues, HalfIsWhole DEF Whole
    <2> QED  BY <1>4, <2>2, AppliedParts DEF Whole
  <1>5. CASE UNCHANGED store \/ Publish
    BY <1>0, <1>1, <1>5 DEF Publish, OverlayStore, live
  <1> QED
    BY <1>0, <1>1, <1>2, <1>3, <1>4, <1>5, LiveStays
       DEF OverlayNext, OverlayStep, RestartServer, vars

\* Every step keeps the invariant.
LEMMA OverlaySteps == OverlayInv /\ [OverlayNext]_vars => OverlayInv'
  BY OverlayStoreSteps, RequestTypeSteps, InHandSteps, LatestSteps, WholeSteps
     DEF OverlayInv, OverlayTypes

\* The invariant contains the property.
LEMMA OverlayInvEnough == OverlayInv => OverlayIsWhole
  BY DEF OverlayInv, LatestThere, Whole, IsWhole, OverlayIsWhole, LatestIsThere,
         LiveIsWhole, Fresh

-----------------------------------------------------------------------------
\* The numbers that are compared are numbers.
LEMMA NumbersInHand ==
    ASSUME OverlayTypes
    PROVE  /\ store \in OverlayStore /\ live.version \in Nat /\ db.latest \in Nat
           /\ Cached \in Nat /\ Offered \subseteq Nat
           /\ store.inbox # <<>> => Head(store.inbox) \in Nat
           /\ \A r \in Reqs : pc[r] \in OverlayCalls =>
                 /\ ctx[r] \in OverlayCtx
                 /\ ctx[r].v \in Nat /\ ctx[r].cached \in Nat /\ ctx[r].then \in Thens
  <1>1. store \in OverlayStore
    BY DEF OverlayTypes
  <1>2. Versions \subseteq Nat /\ 0 \in Nat
    BY DEF Versions, MaxVersion
  <1>3. /\ store.live.version \in Versions /\ store.db.latest \in Versions
        /\ store.published \in Versions /\ store.inbox \in Seq(Versions)
    BY <1>1, StoreParts
  <1>4. Cached \in Nat /\ Offered \subseteq Nat
    <2>1. Cached \in Nat
      BY <1>2, <1>3 DEF Cached, db
    <2>2. Offered \subseteq Nat
      BY DEF Offered
    <2> QED  BY <2>1, <2>2
  <1>5. store.inbox # <<>> => Head(store.inbox) \in Nat
    <2>1. store.inbox # <<>> => Head(store.inbox) \in Versions
      <3> DEFINE i == store.inbox
      <3>1. i \in Seq(Versions)
        BY <1>3
      <3> HIDE DEF i
      <3>2. i # <<>> => Head(i) \in Versions
        BY <3>1
      <3> QED  BY <3>2 DEF i
    <2> QED  BY <1>2, <2>1
  <1>6. \A r \in Reqs : pc[r] \in OverlayCalls => ctx[r] \in OverlayCtx
    BY DEF OverlayTypes, RequestTypes
  <1>7. \A c \in OverlayCtx : c.v \in Nat /\ c.cached \in Nat /\ c.then \in Thens
    BY <1>2 DEF OverlayCtx
  <1> QED  BY <1>1, <1>2, <1>3, <1>4, <1>5, <1>6, <1>7 DEF live, db

\* A request that moves on keeps the solitude it has.
LEMMA AloneKept ==
    ASSUME Alone, OverlayTypes, NEW r \in Reqs, Running(r) \/ (scene.sequential => Quiet),
           UNCHANGED scene, \A q \in Reqs \ {r} : pc'[q] = pc[q]
    PROVE  Alone'
  BY DEF Alone, Quiet, Running, OverlayTypes, RequestTypes

\* Requests that wait for one another run alone.
LEMMA AloneSteps == OverlayTypes /\ Alone /\ [OverlayNext]_vars => Alone'
  <1> SUFFICES ASSUME OverlayTypes, Alone, [OverlayNext]_vars  PROVE  Alone'
    OBVIOUS
  <1> USE DEF Goto, Sent
  <1>0. scene' = scene
    BY DEF OverlayNext, vars
  <1>1. CASE UNCHANGED pc
    BY <1>0, <1>1 DEF Alone, Running
  <1>2. ASSUME NEW r \in Reqs, RefuseOverlay(r) \/ ApplyOverlay(r) \/ ApplyHalf(r),
               pc' # Kill(OfServer)
        PROVE  Alone'
    <2>1. Running(r) \/ (scene.sequential => Quiet)
      BY <1>2 DEF RefuseOverlay, ApplyOverlay, ApplyHalf, Running
    <2>2. \A q \in Reqs \ {r} : pc'[q] = pc[q]
      BY <1>2
         DEF RefuseOverlay, ApplyOverlay, ApplyHalf, Refuse, OverlayTypes, RequestTypes
    <2> QED  BY <1>0, <2>1, <2>2, AloneKept
  <1>3. ASSUME NEW r \in Reqs, SaveOverlay(r)  PROVE  Alone'
    <2>1. Running(r) \/ (scene.sequential => Quiet)
      BY <1>3 DEF SaveOverlay, Running
    <2>2. \A q \in Reqs \ {r} : pc'[q] = pc[q]
      BY <1>3 DEF SaveOverlay, OverlayTypes, RequestTypes
    <2> QED  BY <1>0, <2>1, <2>2, AloneKept
  <1>4. ASSUME NEW r \in Reqs, SaveVersion(r)  PROVE  Alone'
    <2>1. Running(r) \/ (scene.sequential => Quiet)
      BY <1>4 DEF SaveVersion, Running
    <2>2. \A q \in Reqs \ {r} : pc'[q] = pc[q]
      BY <1>4 DEF SaveVersion, OverlayTypes, RequestTypes
    <2> QED  BY <1>0, <2>1, <2>2, AloneKept
  <1>5. ASSUME NEW r \in Reqs, Poll(r)  PROVE  Alone'
    <2>1. Running(r) \/ (scene.sequential => Quiet)
      BY <1>5 DEF Poll, Running
    <2>2. \A q \in Reqs \ {r} : pc'[q] = pc[q]
      BY <1>5
         DEF Poll, PatchConfiguration, Cached, Sent, OverlayTypes, RequestTypes
    <2> QED  BY <1>0, <2>1, <2>2, AloneKept
  <1>6. ASSUME NEW r \in Reqs, LoadRemoteOverlay(r)  PROVE  Alone'
    <2>1. Running(r) \/ (scene.sequential => Quiet)
      BY <1>6 DEF LoadRemoteOverlay, Running
    <2>2. \A q \in Reqs \ {r} : pc'[q] = pc[q]
      BY <1>6 DEF LoadRemoteOverlay, Refuse, Offered, OverlayTypes, RequestTypes
    <2> QED  BY <1>0, <2>1, <2>2, AloneKept
  <1>7. ASSUME NEW r \in Reqs, PatchRemote(r)  PROVE  Alone'
    <2>1. Running(r) \/ (scene.sequential => Quiet)
      BY <1>7 DEF PatchRemote, Running
    <2>2. \A q \in Reqs \ {r} : pc'[q] = pc[q]
      BY <1>7 DEF PatchRemote, PatchConfiguration, OverlayTypes, RequestTypes
    <2> QED  BY <1>0, <2>1, <2>2, AloneKept
  <1>8. ASSUME NEW r \in Reqs, ReceivePush(r)  PROVE  Alone'
    <2>1. Running(r) \/ (scene.sequential => Quiet)
      BY <1>8 DEF ReceivePush, Running
    <2>2. \A q \in Reqs \ {r} : pc'[q] = pc[q]
      BY <1>8
         DEF ReceivePush, PatchConfiguration, Offered, Sent, OverlayTypes,
             RequestTypes
    <2> QED  BY <1>0, <2>1, <2>2, AloneKept
  <1>9. ASSUME NEW r \in Reqs, SavePushed(r)  PROVE  Alone'
    <2>1. Running(r) \/ (scene.sequential => Quiet)
      BY <1>9 DEF SavePushed, Running
    <2>2. \A q \in Reqs \ {r} : pc'[q] = pc[q]
      BY <1>9 DEF SavePushed, OverlayTypes, RequestTypes
    <2> QED  BY <1>0, <2>1, <2>2, AloneKept
  <1>10. ASSUME NEW r \in Reqs, OnNewOverlay(r)  PROVE  Alone'
    <2>1. Running(r) \/ (scene.sequential => Quiet)
      BY <1>10 DEF OnNewOverlay, Running
    <2>2. \A q \in Reqs \ {r} : pc'[q] = pc[q]
      BY <1>10 DEF OnNewOverlay, Offered, Sent, OverlayTypes, RequestTypes
    <2> QED  BY <1>0, <2>1, <2>2, AloneKept
  <1>11. ASSUME NEW r \in Reqs, LoadNewOverlay(r)  PROVE  Alone'
    <2>1. Running(r) \/ (scene.sequential => Quiet)
      BY <1>11 DEF LoadNewOverlay, Running
    <2>2. \A q \in Reqs \ {r} : pc'[q] = pc[q]
      BY <1>11 DEF LoadNewOverlay, OverlayTypes, RequestTypes
    <2> QED  BY <1>0, <2>1, <2>2, AloneKept
  <1>12. ASSUME NEW r \in Reqs, ReceiveNewOverlay(r)  PROVE  Alone'
    <2>1. Running(r) \/ (scene.sequential => Quiet)
      BY <1>12 DEF ReceiveNewOverlay, Running
    <2>2. \A q \in Reqs \ {r} : pc'[q] = pc[q]
      BY <1>12 DEF ReceiveNewOverlay, Sent, OverlayTypes, RequestTypes
    <2> QED  BY <1>0, <2>1, <2>2, AloneKept
  <1>13. ASSUME NEW r \in Reqs, NEW S,
                pc' = Kill(S) \/ pc' = [Kill(S) EXCEPT ![r] = "ok"]
         PROVE  Alone'
    BY <1>0, <1>13 DEF Alone, Kill, Running
  <1>14. ASSUME NEW r \in Reqs, Die(r)  PROVE  Alone'
    <2>1. Running(r) /\ \A q \in Reqs \ {r} : pc'[q] = pc[q]
      BY <1>14 DEF Die, OverlayTypes, RequestTypes
    <2> QED  BY <1>0, <2>1, AloneKept
  <1> QED
    BY <1>1, <1>2, <1>3, <1>4, <1>5, <1>6, <1>7, <1>8, <1>9, <1>10, <1>11,
       <1>12, <1>13, <1>14
       DEF OverlayNext, OverlayStep, Publish, RestartServer, RestartAgent, vars

\* Who applies an overlay when a worker is killed is one of its requests.
LEMMA AppliesAlone ==
    ASSUME OverlayTypes, InHand, NEW r \in Reqs, ApplyHalf(r)
    PROVE  pc'[r] = "failed"
  BY DEF ApplyHalf, Kill, OfServer, Running, Goto, InHand, OverlayTypes, RequestTypes

\* What a lone request is about to apply is newer than what is live.
LEMMA NewerSteps ==
    (OverlayTypes /\ InHand /\ Alone /\ Newer) /\ [OverlayNext]_vars => Newer'
  <1> SUFFICES ASSUME (OverlayTypes /\ InHand /\ Alone /\ Newer), [OverlayNext]_vars
               PROVE  Newer'
    OBVIOUS
  <1>0. scene' = scene
    BY DEF OverlayNext, vars
  <1> USE DEF OverlayTypes, RequestTypes, OverlayCalls, Alone, Newer, Running,
              AlreadyApplied, Quiet, Sent, Thens, Goto, Carry, live, db
  <1>1. CASE UNCHANGED vars
    BY <1>0, <1>1 DEF vars
  <1>2. CASE Publish
    BY <1>0, <1>2 DEF Publish
  <1>3. ASSUME NEW r \in Reqs, RefuseOverlay(r) \/ ApplyOverlay(r) \/ ApplyHalf(r)
        PROVE  Newer'
    <2>1. CASE ~scene.sequential
      BY <1>0, <2>1
    <2>2. CASE scene.sequential
      <3>1. pc[r] = "getCredentials" /\ ctx[r].then \in Thens
        BY <1>3, NumbersInHand DEF RefuseOverlay, ApplyOverlay, ApplyHalf
      <3>2. \A q \in Reqs \ {r} : pc'[q] # "getCredentials"
        BY <1>3, <2>2, <3>1
           DEF RefuseOverlay, ApplyOverlay, ApplyHalf, Refuse, Kill
      <3>3. pc'[r] # "getCredentials"
        BY <1>3, <3>1, AppliesAlone
           DEF RefuseOverlay, ApplyOverlay, ApplyHalf, Refuse, Kill
      <3> QED  BY <3>2, <3>3
    <2> QED  BY <2>1, <2>2
  <1>4. ASSUME NEW r \in Reqs, SaveOverlay(r)  PROVE  Newer'
    BY <1>4, <1>0, NumbersInHand DEF SaveOverlay
  <1>5. ASSUME NEW r \in Reqs, SaveVersion(r)  PROVE  Newer'
    BY <1>5, <1>0, NumbersInHand DEF SaveVersion
  <1>6. ASSUME NEW r \in Reqs, Poll(r)  PROVE  Newer'
    BY <1>6, <1>0, NumbersInHand DEF Poll, PatchConfiguration, Cached, Sent
  <1>7. ASSUME NEW r \in Reqs, LoadRemoteOverlay(r)  PROVE  Newer'
    BY <1>7, <1>0, NumbersInHand DEF LoadRemoteOverlay, Refuse, Offered
  <1>8. ASSUME NEW r \in Reqs, PatchRemote(r)  PROVE  Newer'
    BY <1>8, <1>0, NumbersInHand DEF PatchRemote, PatchConfiguration
  <1>9. ASSUME NEW r \in Reqs, ReceivePush(r)  PROVE  Newer'
    BY <1>9, <1>0, NumbersInHand
       DEF ReceivePush, PatchConfiguration, Offered, Sent
  <1>10. ASSUME NEW r \in Reqs, SavePushed(r)  PROVE  Newer'
    BY <1>10, <1>0, NumbersInHand DEF SavePushed
  <1>11. ASSUME NEW r \in Reqs, OnNewOverlay(r)  PROVE  Newer'
    BY <1>11, <1>0, NumbersInHand DEF OnNewOverlay, Offered, Sent
  <1>12. ASSUME NEW r \in Reqs, LoadNewOverlay(r)  PROVE  Newer'
    BY <1>12, <1>0, NumbersInHand DEF LoadNewOverlay
  <1>13. ASSUME NEW r \in Reqs, ReceiveNewOverlay(r)  PROVE  Newer'
    BY <1>13, <1>0, NumbersInHand DEF ReceiveNewOverlay, Sent
  <1>14. ASSUME NEW r \in Reqs, RestartServer(r)  PROVE  Newer'
    <2>1. live'.version = 0
      BY <1>14, StartedParts DEF RestartServer, Fresh, FromFiles
    <2> QED  BY <2>1
  <1>15. ASSUME NEW r \in Reqs, RestartAgent(r)  PROVE  Newer'
    BY <1>15, <1>0, NumbersInHand DEF RestartAgent, Kill, OverlayStore
  <1>16. ASSUME NEW r \in Reqs, Die(r)  PROVE  Newer'
    BY <1>16, <1>0, NumbersInHand DEF Die, Running
  <1> QED
    BY <1>1, <1>2, <1>3, <1>4, <1>5, <1>6, <1>7, <1>8, <1>9, <1>10, <1>11,
       <1>12, <1>13, <1>14, <1>15, <1>16 DEF OverlayNext, OverlayStep

\* A server that polls is not pushed to.
LEMMA PollsAlone ==
    ASSUME OneWay, In("overlay"), scene \in Scenes, Polling, OverlayTypes,
           scene.sequential, "poll" \in scene.ops, NEW r \in Reqs, OverlayStep(r)
    PROVE  \/ RefuseOverlay(r) \/ ApplyOverlay(r) \/ ApplyHalf(r)
           \/ SaveOverlay(r) \/ SaveVersion(r) \/ Poll(r)
           \/ LoadRemoteOverlay(r) \/ PatchRemote(r) \/ RestartServer(r)
  <1>1. "push" \notin scene.ops /\ "agent" \notin scene.ops
    BY DEF OneWay, In
  <1>2. ~ReceivePush(r) /\ ~OnNewOverlay(r) /\ ~RestartAgent(r)
    BY <1>1 DEF ReceivePush, OnNewOverlay, RestartAgent, Sent
  <1>3. ~ReceiveNewOverlay(r)
    BY DEF ReceiveNewOverlay, Polling
  <1>4. ~SavePushed(r) /\ ~LoadNewOverlay(r)
    BY DEF SavePushed, LoadNewOverlay, Polling, PollInHand, OverlayCalls,
           PollCalls
  <1> QED  BY <1>2, <1>3, <1>4 DEF OverlayStep

\* Every step keeps what a lone poll has in hand.
LEMMA PollingSteps ==
    ASSUME OneWay, In("overlay"), scene \in Scenes, OverlayInv, Alone, Newer, Polling,
           [OverlayNext]_vars
    PROVE  Polling'
  <1> SUFFICES ASSUME scene'.sequential, "poll" \in scene'.ops  PROVE  Polling'
    BY DEF Polling
  <1>0. scene' = scene /\ scene.sequential /\ "poll" \in scene.ops
    BY DEF OverlayNext, vars
  <1>00. /\ OverlayTypes /\ store \in OverlayStore
         /\ live.version \in Nat /\ db.latest \in Nat /\ Cached = db.latest
         /\ \A r \in Reqs : pc[r] \in OverlayCalls =>
               ctx[r] \in OverlayCtx /\ ctx[r].v \in Nat /\ ctx[r].cached \in Nat
    <2>1. OverlayTypes /\ store \in OverlayStore
      BY DEF OverlayInv, OverlayTypes
    <2>2. Cached = db.latest
      BY DEF OverlayInv, LatestThere, Cached
    <2> QED  BY <2>1, <2>2, NumbersInHand
  <1>01. /\ live.version <= db.latest
         /\ store.loaded = 0 /\ store.inbox = <<>>
         /\ \A r \in Reqs : PollInHand(r)
    BY <1>0 DEF Polling
  <1>02. \A q, r \in Reqs : Running(q) /\ Running(r) => q = r
    BY <1>0 DEF Alone
  <1> USE DEF Goto, Carry, live, db
  <1>1. CASE UNCHANGED vars
    BY <1>01, <1>1 DEF vars, Polling, PollInHand
  <1>2. CASE Publish
    <2>1. /\ live' = live /\ db' = db
          /\ store'.loaded = store.loaded /\ store'.inbox = store.inbox
      BY <1>00, <1>2 DEF Publish
    <2> QED  BY <1>01, <1>2, <2>1 DEF Publish, Polling, PollInHand
  <1>3. ASSUME NEW r \in Reqs, RefuseOverlay(r) \/ ApplyOverlay(r) \/ ApplyHalf(r)
        PROVE  Polling'
    <2>0. pc[r] = "getCredentials"
      BY <1>3 DEF RefuseOverlay, ApplyOverlay, ApplyHalf
    <2>1. \A q \in Reqs \ {r} : pc'[q] \notin OverlayCalls
      BY <1>0, <1>00, <1>02, <1>3
         DEF RefuseOverlay, ApplyOverlay, ApplyHalf, Refuse, Running, OverlayTypes,
             RequestTypes, OverlayCalls, Kill
    <2>2. CASE RefuseOverlay(r)
      <3>1. store' = store /\ pc'[r] = "failed"
        BY <1>00, <2>2 DEF RefuseOverlay, Refuse, OverlayTypes, RequestTypes
      <3> QED  BY <1>01, <2>1, <3>1 DEF Polling, PollInHand, OverlayCalls
    <2>3. CASE ServerStarts /\ ApplyHalf(r)
      <3>1. live'.version = 0 /\ db' = db /\ store'.loaded = 0 /\ store'.inbox = <<>>
        BY <1>00, <1>01, <2>3, StartedParts DEF Fresh, FromFiles
      <3>2. pc'[r] = "failed"
        BY <1>00, <1>01, <2>0, <2>3
           DEF ApplyHalf, Kill, OfServer, PollInHand, OverlayCalls, Running,
               OverlayTypes, RequestTypes
      <3> QED  BY <1>00, <2>1, <3>1, <3>2 DEF Polling, PollInHand, OverlayCalls
    <2>4. CASE ~ServerStarts /\ ApplyHalf(r)
      <3>1. /\ live'.version = live.version /\ db' = db
            /\ store'.loaded = 0 /\ store'.inbox = <<>>
        BY <1>00, <1>01, <2>4, HalfVersion DEF OverlayInv
      <3>2. pc'[r] = "failed"
        BY <1>00, <1>01, <2>0, <2>4
           DEF ApplyHalf, Kill, OfServer, PollInHand, OverlayCalls, Running,
               OverlayTypes, RequestTypes
      <3> QED  BY <1>01, <2>1, <3>1, <3>2 DEF Polling, PollInHand, OverlayCalls
    <2>5. CASE ApplyOverlay(r)
      <3>1. /\ live'.version = ctx[r].v /\ db' = db
            /\ store'.loaded = 0 /\ store'.inbox = <<>>
        BY <1>00, <1>01, <2>5, ApplyVersion DEF OverlayInv
      <3>2. ctx' = ctx /\ pc'[r] = ctx[r].then
        BY <1>00, <2>5 DEF ApplyOverlay, OverlayTypes, RequestTypes
      <3>3. /\ ctx[r].v = db.latest /\ ctx[r].then \in {"loadRemote", "ok"}
            /\ ctx[r].then = "loadRemote" => ctx[r].cached = db.latest
        BY <1>01, <2>0 DEF PollInHand
      <3> QED
        BY <1>00, <2>1, <3>1, <3>2, <3>3 DEF Polling, PollInHand, OverlayCalls, PollCalls
    <2> QED  BY <1>3, <2>2, <2>3, <2>4, <2>5
  <1>4. ASSUME NEW r \in Reqs, SaveOverlay(r)  PROVE  Polling'
    <2>1. \A q \in Reqs \ {r} : pc'[q] \notin OverlayCalls
      BY <1>0, <1>00, <1>02, <1>4
         DEF SaveOverlay, Running, Quiet, Sent, OverlayTypes, RequestTypes,
             OverlayCalls
    <2>2. /\ live'.version <= db'.latest
          /\ store'.loaded = 0 /\ store'.inbox = <<>>
      BY <1>00, <1>01, <1>4
         DEF SaveOverlay, OverlayStore, LiveRec, DbRec, OverlayCtx,
             OverlayCalls, PollInHand
    <2>3. PollInHand(r)'
      <3> USE DEF OverlayCalls, PollInHand, PollCalls, OverlayTypes, RequestTypes
      <3>1. CASE RemoteOverlayIsNewer(ctx[r].cached, ctx[r].v)
        <4>1. /\ pc'[r] = "saveVersion" /\ ctx' = ctx /\ live' = live
              /\ db'.latest = db.latest
          BY <1>00, <1>4, <3>1 DEF SaveOverlay, OverlayStore, DbRec
        <4>2. ctx[r].v > db.latest
          BY <1>00, <1>01, <1>4, <3>1 DEF SaveOverlay, RemoteOverlayIsNewer
        <4> QED  BY <1>00, <1>01, <1>4, <4>1, <4>2 DEF SaveOverlay
      <3>2. CASE ~RemoteOverlayIsNewer(ctx[r].cached, ctx[r].v)
        <4>1. pc'[r] = "patchRemote" /\ ctx' = ctx /\ store' = store
          BY <1>00, <1>01, <1>4, <3>2 DEF SaveOverlay
        <4>2. ctx[r].v <= db.latest
          BY <1>00, <1>01, <1>4, <3>2 DEF SaveOverlay, RemoteOverlayIsNewer
        <4> QED  BY <1>00, <1>01, <1>4, <4>1, <4>2 DEF SaveOverlay
      <3> QED  BY <3>1, <3>2
    <2> QED  BY <2>1, <2>2, <2>3 DEF Polling, PollInHand, OverlayCalls
  <1>5. ASSUME NEW r \in Reqs, SaveVersion(r)  PROVE  Polling'
    <2>1. \A q \in Reqs \ {r} : pc'[q] \notin OverlayCalls
      BY <1>0, <1>00, <1>02, <1>5
         DEF SaveVersion, Running, Quiet, Sent, OverlayTypes, RequestTypes,
             OverlayCalls
    <2>2. /\ live'.version <= db'.latest
          /\ store'.loaded = 0 /\ store'.inbox = <<>>
      BY <1>00, <1>01, <1>5
         DEF SaveVersion, OverlayStore, LiveRec, DbRec, OverlayCtx,
             OverlayCalls, PollInHand
    <2>3. PollInHand(r)'
      BY <1>00, <1>01, <1>5
         DEF SaveVersion, OverlayStore, LiveRec, DbRec, OverlayCtx,
             OverlayCalls, PollInHand, OverlayTypes, RequestTypes,
             AlreadyApplied, PollCalls, Newer
    <2> QED  BY <2>1, <2>2, <2>3 DEF Polling, PollInHand, OverlayCalls
  <1>6. ASSUME NEW r \in Reqs, Poll(r)  PROVE  Polling'
    <2>1. \A q \in Reqs \ {r} : pc'[q] \notin OverlayCalls
      BY <1>0, <1>00, <1>02, <1>6
         DEF Poll, PatchConfiguration, Cached, Sent, Running, Quiet, Sent,
             OverlayTypes, RequestTypes, OverlayCalls
    <2>2. /\ live'.version <= db'.latest
          /\ store'.loaded = 0 /\ store'.inbox = <<>>
      BY <1>00, <1>01, <1>6
         DEF Poll, PatchConfiguration, Cached, Sent, OverlayStore, LiveRec,
             DbRec, OverlayCtx, OverlayCalls, PollInHand
    <2>3. PollInHand(r)'
      BY <1>00, <1>01, <1>6
         DEF Poll, PatchConfiguration, Cached, Sent, OverlayStore, LiveRec,
             DbRec, OverlayCtx, OverlayCalls, PollInHand, OverlayTypes,
             RequestTypes, AlreadyApplied, PollCalls, Newer
    <2> QED  BY <2>1, <2>2, <2>3 DEF Polling, PollInHand, OverlayCalls
  <1>7. ASSUME NEW r \in Reqs, LoadRemoteOverlay(r)  PROVE  Polling'
    <2>1. \A q \in Reqs \ {r} : pc'[q] \notin OverlayCalls
      BY <1>0, <1>00, <1>02, <1>7
         DEF LoadRemoteOverlay, Refuse, Offered, Running, Quiet, Sent,
             OverlayTypes, RequestTypes, OverlayCalls
    <2>2. /\ live'.version <= db'.latest
          /\ store'.loaded = 0 /\ store'.inbox = <<>>
      BY <1>00, <1>01, <1>7
         DEF LoadRemoteOverlay, Refuse, Offered, OverlayStore, LiveRec, DbRec,
             OverlayCtx, OverlayCalls, PollInHand
    <2>3. PollInHand(r)'
      <3> USE DEF OverlayCalls, PollInHand, PollCalls, OverlayTypes, RequestTypes
      <3>1. CASE Refuse(r)
        BY <1>00, <3>1 DEF Refuse
      <3>2. CASE ~Refuse(r)
        <4>1. PICK v \in Offered :
              /\ ctx' = [ctx EXCEPT ![r] =
                             [ctx[r] EXCEPT !.v = v, !.then = "patchRemote"]]
              /\ pc' = [pc EXCEPT ![r] = "save"] /\ UNCHANGED store
          BY <1>7, <3>2 DEF LoadRemoteOverlay
        <4>2. pc[r] = "loadRemote" /\ ctx[r] \in OverlayCtx
          BY <1>00, <1>7 DEF LoadRemoteOverlay
        <4>3. /\ pc'[r] = "save" /\ ctx'[r].then = "patchRemote"
              /\ ctx'[r].cached = ctx[r].cached
          BY <1>00, <4>1, <4>2 DEF OverlayCtx
        <4> QED  BY <1>01, <4>1, <4>2, <4>3
      <3> QED  BY <3>1, <3>2
    <2> QED  BY <2>1, <2>2, <2>3 DEF Polling, PollInHand, OverlayCalls
  <1>8. ASSUME NEW r \in Reqs, PatchRemote(r)  PROVE  Polling'
    <2>1. \A q \in Reqs \ {r} : pc'[q] \notin OverlayCalls
      BY <1>0, <1>00, <1>02, <1>8
         DEF PatchRemote, PatchConfiguration, Running, Quiet, Sent,
             OverlayTypes, RequestTypes, OverlayCalls
    <2>2. /\ live'.version <= db'.latest
          /\ store'.loaded = 0 /\ store'.inbox = <<>>
      BY <1>00, <1>01, <1>8
         DEF PatchRemote, PatchConfiguration, OverlayStore, LiveRec, DbRec,
             OverlayCtx, OverlayCalls, PollInHand
    <2>3. PollInHand(r)'
      BY <1>00, <1>01, <1>8
         DEF PatchRemote, PatchConfiguration, OverlayStore, LiveRec, DbRec,
             OverlayCtx, OverlayCalls, PollInHand, OverlayTypes, RequestTypes,
             AlreadyApplied, PollCalls, Newer
    <2> QED  BY <2>1, <2>2, <2>3 DEF Polling, PollInHand, OverlayCalls
  <1>9. ASSUME NEW r \in Reqs, Die(r)  PROVE  Polling'
    <2>1. \A q \in Reqs \ {r} : pc'[q] \notin OverlayCalls
      BY <1>0, <1>00, <1>02, <1>9
         DEF Die, Running, Running, Quiet, Sent, OverlayTypes, RequestTypes,
             OverlayCalls
    <2>2. /\ live'.version <= db'.latest
          /\ store'.loaded = 0 /\ store'.inbox = <<>>
      BY <1>00, <1>01, <1>9
         DEF Die, Running, OverlayStore, LiveRec, DbRec, OverlayCtx,
             OverlayCalls, PollInHand
    <2>3. PollInHand(r)'
      BY <1>00, <1>01, <1>9
         DEF Die, Running, OverlayStore, LiveRec, DbRec, OverlayCtx,
             OverlayCalls, PollInHand, OverlayTypes, RequestTypes,
             AlreadyApplied, PollCalls, Newer
    <2> QED  BY <2>1, <2>2, <2>3 DEF Polling, PollInHand, OverlayCalls
  <1>10. ASSUME NEW r \in Reqs, RestartServer(r)  PROVE  Polling'
    <2>1. \A q \in Reqs : pc'[q] \notin OverlayCalls
      BY <1>00, <1>01, <1>10
         DEF RestartServer, Kill, OfServer, Running, OverlayTypes, RequestTypes,
             OverlayCalls, PollInHand
    <2>2. live'.version = 0 /\ db' = db /\ store'.loaded = 0 /\ store'.inbox = <<>>
      BY <1>00, <1>01, <1>10, StartedParts DEF RestartServer, Fresh, FromFiles
    <2> QED  BY <1>00, <2>1, <2>2 DEF Polling, PollInHand, OverlayCalls
  <1> QED
    BY <1>1, <1>2, <1>3, <1>4, <1>5, <1>6, <1>7, <1>8, <1>9, <1>10, <1>0, <1>00,
       PollsAlone DEF OverlayNext

\* Nothing runs.
LEMMA ForwardInitially == OverlayInit /\ scene \in Scenes => ForwardInv
  <1> SUFFICES ASSUME OverlayInit, scene \in Scenes  PROVE  ForwardInv
    OBVIOUS
  <1>1. \A r \in Reqs : pc[r] = "idle"
    BY DEF OverlayInit
  <1>2. live.version = 0 /\ db.latest = 0 /\ store.loaded = 0 /\ store.inbox = <<>>
    BY DEF OverlayInit, FromFiles, live, db
  <1>3. Alone /\ Newer
    BY <1>1 DEF Alone, Newer, Running
  <1>4. Polling
    BY <1>1, <1>2 DEF Polling, PollInHand, OverlayCalls
  <1> QED  BY <1>3, <1>4, OverlayInitially DEF ForwardInv

\* Every step keeps the invariant of a server that gets its overlays one way.
LEMMA ForwardSteps ==
    ASSUME OneWay, In("overlay"), ForwardInv, [OverlayNext]_vars
    PROVE  ForwardInv'
  <1>1. OverlayInv' /\ Alone' /\ Newer'
    BY OverlaySteps, AloneSteps, NewerSteps DEF ForwardInv, OverlayInv
  <1>2. Polling'
    BY PollingSteps DEF ForwardInv
  <1>3. scene' \in Scenes
    BY DEF ForwardInv, OverlayNext, vars
  <1> QED  BY <1>1, <1>2, <1>3 DEF ForwardInv

\* Only a version that is saved changes the latest.
LEMMA SavedStays ==
    ASSUME store \in OverlayStore, NEW r \in Reqs,
           \/ RefuseOverlay(r) \/ ApplyOverlay(r) \/ ApplyHalf(r) \/ SaveOverlay(r)
           \/ Poll(r) \/ LoadRemoteOverlay(r) \/ PatchRemote(r) \/ ReceivePush(r) \/ SavePushed(r) \/ OnNewOverlay(r)
           \/ LoadNewOverlay(r) \/ ReceiveNewOverlay(r) \/ RestartServer(r) \/ RestartAgent(r)
           \/ Die(r)
    PROVE  db'.latest = db.latest
  <1>1. CASE UNCHANGED store
    BY <1>1 DEF db
  <1>3. CASE SaveOverlay(r)
    BY <1>3 DEF SaveOverlay, db, OverlayStore, DbRec
  <1>2. CASE ServerStarts
    BY <1>2, StartedParts
  <1>4. CASE (ApplyOverlay(r) \/ ApplyHalf(r)) /\ ~ServerStarts
    BY <1>4 DEF ApplyOverlay, ApplyHalf, db, OverlayStore
  <1>5. CASE LoadNewOverlay(r)
    BY <1>5 DEF LoadNewOverlay, db, OverlayStore
  <1>6. CASE ReceiveNewOverlay(r)
    BY <1>6 DEF ReceiveNewOverlay, db, OverlayStore
  <1>7. CASE RestartAgent(r)
    BY <1>7 DEF RestartAgent, db, OverlayStore
  <1> QED
    BY <1>1, <1>2, <1>3, <1>4, <1>5, <1>6, <1>7
       DEF RefuseOverlay, RestartServer, Poll, LoadRemoteOverlay, PatchRemote, ReceivePush, SavePushed,
           OnNewOverlay, PatchConfiguration, Refuse, Die

\* What is live goes forward.
LEMMA LiveForward ==
    ASSUME ForwardInv, OverlayNext, scene.sequential
    PROVE  live'.version >= live.version \/ live' = Fresh
  <1>1. OverlayTypes /\ store \in OverlayStore /\ live.version \in Nat
    BY NumbersInHand DEF ForwardInv, OverlayInv
  <1>2. CASE live' = live
    BY <1>1, <1>2
  <1>3. ASSUME NEW r \in Reqs, ApplyOverlay(r)  PROVE  live'.version >= live.version
    <2>1. /\ pc[r] = "getCredentials" /\ ctx[r].v \in Nat
          /\ live.version = 0 \/ ctx[r].v > live.version
      BY <1>1, <1>3, NumbersInHand
         DEF ApplyOverlay, OverlayCalls, ForwardInv, Newer
    <2>2. live'.version = ctx[r].v
      BY <1>3, ApplyVersion DEF ForwardInv, OverlayInv
    <2> QED  BY <1>1, <2>1, <2>2
  <1>4. CASE ServerStarts
    BY <1>1, <1>4, StartedParts
  <1>6. ASSUME NEW r \in Reqs, ApplyHalf(r), ~ServerStarts
        PROVE  live'.version >= live.version
    BY <1>1, <1>6, HalfVersion DEF ForwardInv, OverlayInv
  <1>5. CASE Publish
    BY <1>2, <1>5 DEF Publish, live, OverlayStore
  <1> QED
    BY <1>1, <1>2, <1>3, <1>4, <1>5, <1>6, LiveStays
       DEF OverlayNext, OverlayStep, RestartServer

\* What is saved goes forward.
LEMMA SavedForward ==
    ASSUME OneWay, In("overlay"), ForwardInv, OverlayNext, scene.sequential,
           "poll" \in scene.ops
    PROVE  db'.latest >= db.latest
  <1>1. OverlayTypes /\ store \in OverlayStore /\ db.latest \in Nat
    BY NumbersInHand DEF ForwardInv, OverlayInv
  <1>2. CASE db'.latest = db.latest
    BY <1>1, <1>2
  <1>3. ASSUME NEW r \in Reqs, SaveVersion(r)  PROVE  db'.latest >= db.latest
    <2>1. ctx[r].v \in Nat /\ ctx[r].v > db.latest
      BY <1>1, <1>3, NumbersInHand
         DEF SaveVersion, OverlayCalls, ForwardInv, Polling, PollInHand
    <2>2. db'.latest = ctx[r].v
      BY <1>1, <1>3 DEF SaveVersion, db, OverlayStore, DbRec
    <2> QED  BY <1>1, <2>1, <2>2
  <1>4. CASE Publish
    BY <1>1, <1>2, <1>4 DEF Publish, db, OverlayStore
  <1> QED  BY <1>1, <1>2, <1>3, <1>4, SavedStays DEF OverlayNext, OverlayStep

\* A poll that ends well has brought the two together.
LEMMA PolledIsSaved ==
    ASSUME OneWay, In("overlay"), ForwardInv, OverlayNext, scene.sequential,
           "poll" \in scene.ops,
           NEW q \in Reqs, Running(q), pc'[q] = "ok"
    PROVE  live'.version = db'.latest
  <1>1. /\ OverlayTypes /\ OverlayInv /\ store \in OverlayStore
        /\ live.version \in Nat /\ db.latest \in Nat /\ live.version <= db.latest
        /\ PollInHand(q) /\ pc[q] \in OverlayCalls /\ ctx[q].v \in Nat
    BY NumbersInHand
       DEF ForwardInv, OverlayInv, Polling, OverlayTypes, RequestTypes, Running
  <1>2. \A r \in Reqs \ {q} : ~Running(r)
    BY DEF ForwardInv, Alone
  <1>3. PICK r \in Reqs : OverlayStep(r) \/ Die(r)
    BY <1>1 DEF OverlayNext, Publish, OverlayCalls
  <1> USE DEF Goto
  <1>4. CASE ApplyOverlay(r)
    <2>1. r = q /\ ctx[r].v = db.latest
      BY <1>1, <1>2, <1>4 DEF ApplyOverlay, Running, PollInHand
    <2>2. live'.version = ctx[r].v /\ db' = db
      BY <1>4, ApplyVersion DEF ForwardInv, OverlayInv
    <2> QED  BY <2>1, <2>2
  <1>5. CASE PatchRemote(r)
    <2>1. r = q /\ AlreadyApplied(ctx[r].v) /\ UNCHANGED store
      BY <1>1, <1>2, <1>5
         DEF PatchRemote, PatchConfiguration, Running, OverlayTypes,
             RequestTypes
    <2>2. pc[q] = "patchRemote"
      BY <1>5, <2>1 DEF PatchRemote
    <2>3. live.version = db.latest
      BY <1>1, <2>1, <2>2 DEF PollInHand, AlreadyApplied
    <2> QED  BY <2>1, <2>3 DEF live, db
  <1>6. ~RestartServer(r)
    BY <1>1 DEF RestartServer, Kill, Running, OverlayCalls
  <1>7. ~Poll(r)
    BY <1>1, <1>2 DEF Poll, Sent, Quiet
  <1>9. ~RefuseOverlay(r) /\ ~ApplyHalf(r)
    <2>1. SUFFICES ASSUME RefuseOverlay(r) \/ ApplyHalf(r)  PROVE  FALSE
      OBVIOUS
    <2>2. r = q
      BY <1>2, <2>1 DEF RefuseOverlay, ApplyHalf, Running
    <2> QED
      BY <1>1, <2>1, <2>2
         DEF RefuseOverlay, ApplyHalf, Refuse, Kill, Running, OverlayCalls,
             OverlayTypes, RequestTypes
  <1>8. ~SaveOverlay(r) /\ ~SaveVersion(r) /\ ~LoadRemoteOverlay(r) /\ ~Die(r)
    <2>1. SUFFICES ASSUME SaveOverlay(r) \/ SaveVersion(r) \/ LoadRemoteOverlay(r) \/ Die(r)
                   PROVE  FALSE
      OBVIOUS
    <2>2. r = q
      BY <1>2, <2>1 DEF SaveOverlay, SaveVersion, LoadRemoteOverlay, Die, Running
    <2> QED
      BY <1>1, <2>1, <2>2
         DEF SaveOverlay, SaveVersion, LoadRemoteOverlay, Die, Refuse,
             PollInHand, OverlayTypes, RequestTypes
  <1> QED
    BY <1>3, <1>4, <1>5, <1>6, <1>7, <1>8, <1>9, PollsAlone DEF ForwardInv, OverlayInv

-----------------------------------------------------------------------------
(* Locks *)

Pending == {"checkBypass", "judge", "write"}

\* The version was created under COMPLIANCE, and its date has not come.
Protected == /\ store.born # None
             /\ store.born.mode = "COMPLIANCE"
             /\ now < store.born.date

\* Lock v is at least the one the version was created with.
StillHolds(v) == /\ v \in Locks
                 /\ v.mode = "COMPLIANCE"
                 /\ v.date \in Times
                 /\ v.date >= store.born.date

\* What a request will write, once it was judged.
Fair(c) == /\ c.kind \in {"retention", "hold"}
           /\ c.kind = "retention" =>
                c.ret.mode = "COMPLIANCE" /\ c.ret.date >= store.born.date

LockShape ==
    /\ store = [enabled |-> store.enabled, version |-> store.version, now |-> store.now,
                born |-> store.born, asked |-> store.asked]
    /\ store.now \in Nat
    /\ store.born \in {None} \cup Locks
    /\ store.born # None => (store.born.mode = None <=> store.born.date = None)
    /\ store.version \in {None} \cup Locks
    /\ store.born = None => store.version = None
    /\ pc = [r \in Reqs |-> pc[r]]
    /\ ctx = [r \in Reqs |-> ctx[r]]

\* A pending request carries the record it read of a version that was created.
Carrying ==
    \A r \in Reqs : pc[r] \in Pending =>
        /\ store.born # None
        /\ ctx[r].kind \in {"retention", "hold", "delete"}
        /\ ctx[r].read \in Locks
        /\ ctx[r].hold \in BOOLEAN
        /\ ctx[r].kind = "retention" => ctx[r].ret \in [mode: Modes, date: Times]

\* As long as the version is protected, it holds, every pending request has
\* read it holding, and none that was judged will weaken it.
Guarded ==
    Protected =>
        /\ StillHolds(store.version)
        /\ \A r \in Reqs : pc[r] \in Pending => StillHolds(ctx[r].read)
        /\ \A r \in Reqs : pc[r] = "write" => Fair(ctx[r])

LockInv == LockShape /\ Carrying /\ Guarded

-----------------------------------------------------------------------------
(* Judging a lock that holds *)

\* A lock that holds while the version is protected is in force.
LEMMA HoldsIsLocked ==
    ASSUME LockInv, Protected, NEW v, StillHolds(v)
    PROVE  IsLocked(v, now)
  <1>1. v.date # None /\ v.mode # None
    BY LockNoneAssumption DEF StillHolds, Modes
  <1>2. store.born.date \in Nat /\ now \in Nat /\ v.date \in Nat
    BY LockNoneAssumption, MaxTimeAssumption
    DEF LockInv, LockShape, Protected, StillHolds, Locks, Times, Modes, now
  <1> QED  BY <1>1, <1>2 DEF IsLocked, IsExpired, Protected, StillHolds

\* It is not deleted, whoever bypasses it.
LEMMA NoDelete ==
    ASSUME LockInv, Protected, NEW v, StillHolds(v), NEW bypass
    PROVE  ~CanModifyObject(v, bypass, now)
  BY HoldsIsLocked DEF CanModifyObject, StillHolds

\* It is only extended, in its mode.
LEMMA OnlyExtended ==
    ASSUME LockInv, Protected, NEW v, StillHolds(v), NEW bypass,
           NEW ret \in [mode: Modes, date: Times], CanModifyPolicy(v, ret, bypass, now)
    PROVE  ret.mode = "COMPLIANCE" /\ ret.date >= store.born.date
  <1>1. ret.mode = "COMPLIANCE" /\ IsExtended(v, ret.date)
    BY HoldsIsLocked DEF CanModifyPolicy, StillHolds
  <1>2. v.date # None
    BY LockNoneAssumption DEF StillHolds
  <1>3. store.born.date \in Nat /\ v.date \in Nat /\ ret.date \in Nat
    BY LockNoneAssumption, MaxTimeAssumption
    DEF LockInv, LockShape, Protected, StillHolds, Locks, Times, Modes
  <1> QED  BY <1>1, <1>2, <1>3 DEF IsExtended, StillHolds

-----------------------------------------------------------------------------
(* The requests *)

\* A request that ends without writing leaves all as it was.
LEMMA LockEndKeeps ==
    ASSUME LockInv, NEW r \in Reqs, NEW l \in {"ok", "failed"},
           Goto(r, l), UNCHANGED store, \A q \in Reqs \ {r} : ctx'[q] = ctx[q],
           ctx' = [q \in Reqs |-> ctx'[q]]
    PROVE  LockInv'
  <1>1. \A q \in Reqs : pc'[q] \in Pending => q # r /\ pc'[q] = pc[q] /\ ctx'[q] = ctx[q]
    BY DEF Goto, LockInv, LockShape, Pending
  <1>2. LockShape'
    BY DEF Goto, LockInv, LockShape
  <1>3. Carrying'
    BY <1>1 DEF LockInv, Carrying
  <1>4. Guarded'
    BY <1>1 DEF LockInv, Guarded, Protected, StillHolds, Fair, Pending, now
  <1> QED  BY <1>2, <1>3, <1>4 DEF LockInv

\* The lock of a new version is well formed.
LEMMA AskedIsLock ==
    ASSUME NEW ret \in Retentions, NEW hold \in BOOLEAN,
           NEW rule \in {None} \cup Retentions
    PROVE  LET lock == SetObjectLockInformation(With([Unlocked EXCEPT !.hold = hold], ret), rule)
           IN  lock \in Locks /\ (lock.mode = None <=> lock.date = None)
  <1> DEFINE plain == [mode |-> None, date |-> None, hold |-> hold]
             half == [mode |-> ret.mode, date |-> None, hold |-> hold]
             lock == [mode |-> ret.mode, date |-> ret.date, hold |-> hold]
  <1>1. With([Unlocked EXCEPT !.hold = hold], ret) = lock
    <2>1. [Unlocked EXCEPT !.hold = hold] = plain
      BY DEF Unlocked
    <2>2. [plain EXCEPT !.mode = ret.mode] = half
      OBVIOUS
    <2>3. [half EXCEPT !.date = ret.date] = lock
      OBVIOUS
    <2>4. [plain EXCEPT !.mode = ret.mode, !.date = ret.date] = lock
      <3> HIDE DEF plain, half, lock
      <3> QED  BY <2>2, <2>3
    <2> QED  BY <2>1, <2>4 DEF With
  <1>2. \A x \in Retentions : /\ x.mode \in {None} \cup Modes /\ x.date \in {None} \cup Times
                              /\ x.mode = None <=> x.date = None
    BY LockNoneAssumption DEF Retentions
  <1> QED  BY <1>1, <1>2 DEF SetObjectLockInformation, Locks

\* Nobody is pending when the version is created, and it is born as it is.
LEMMA CreationKeeps ==
    ASSUME LockInv, NEW r \in Reqs, PutLockedObject(r)
    PROVE  LockInv'
  <1>1. store.born = None /\ \A q \in Reqs : pc[q] \notin Pending
    BY DEF PutLockedObject, LockInv, Carrying
  <1>2. PICK lock \in Locks :
          /\ lock.mode = None <=> lock.date = None
          /\ store' = [store EXCEPT !.version = lock, !.born = lock, !.asked = lock]
    BY AskedIsLock DEF PutLockedObject
  <1>3. LockShape'
    BY <1>2, LockNoneAssumption DEF PutLockedObject, Goto, LockInv, LockShape
  <1>4. \A q \in Reqs : pc'[q] \notin Pending
    BY <1>1 DEF PutLockedObject, Goto, LockInv, LockShape, Pending
  <1>5. store'.version = lock /\ store'.born = lock
    BY <1>2 DEF LockInv, LockShape
  <1>6. lock.mode = "COMPLIANCE" => lock.date \in Times /\ lock.date >= lock.date
    BY <1>2, LockNoneAssumption, MaxTimeAssumption DEF Locks, Modes, Times
  <1>7. Guarded'
    BY <1>4, <1>5, <1>6 DEF Guarded, Protected, StillHolds, Pending
  <1> QED  BY <1>3, <1>4, <1>7 DEF LockInv, Carrying

\* A request that reads the version reads a lock that holds.
LEMMA ReadKeeps ==
    ASSUME LockInv, NEW r \in Reqs, NEW op, NEW kind \in {"retention", "hold", "delete"},
           NEW ret, kind = "retention" => ret \in [mode: Modes, date: Times],
           NEW hold \in BOOLEAN, NEW bypass, NEW user,
           Read(r, op, kind, ret, hold, bypass, user)
    PROVE  LockInv'
  <1>1. CASE Refuse(r)
    BY <1>1, LockEndKeeps DEF Refuse, LockInv, LockShape
  <1>2. CASE /\ store.version # None
             /\ Consider(r, [kind |-> kind, read |-> store.version, ret |-> ret,
                             hold |-> hold, bypass |-> bypass], user)
    <2>1. /\ UNCHANGED store
          /\ \E l \in {"checkBypass", "judge"} : pc' = [pc EXCEPT ![r] = l]
          /\ ctx' = [ctx EXCEPT ![r] = [kind |-> kind, read |-> store.version, ret |-> ret,
                                        hold |-> hold, bypass |-> bypass]]
      BY <1>2 DEF Consider, Carry, Goto
    <2>2. store.born # None /\ store.version \in Locks
      BY <1>2 DEF LockInv, LockShape
    <2>3. LockShape'
      BY <2>1 DEF LockInv, LockShape
    <2>4. Carrying'
      BY <2>1, <2>2 DEF LockInv, LockShape, Carrying
    <2>5. Guarded'
      BY <2>1
         DEF LockInv, LockShape, Guarded, Protected, StillHolds, Fair, Pending,
             now
    <2> QED  BY <2>3, <2>4, <2>5 DEF LockInv
  <1> QED  BY <1>1, <1>2 DEF Read

\* An answer about a bypass judges no lock.
LEMMA BypassKeeps ==
    ASSUME LockInv, NEW r \in Reqs, CheckUserGovernanceBypass(r)
    PROVE  LockInv'
  <1>1. CASE Refuse(r)
    BY <1>1, LockEndKeeps DEF Refuse, LockInv, LockShape
  <1>2. CASE Goto(r, "judge") /\ UNCHANGED <<store, ctx>>
    <2>1. LockShape'
      BY <1>2 DEF Goto, LockInv, LockShape
    <2>2. Carrying' /\ Guarded'
      BY <1>2
         DEF CheckUserGovernanceBypass, Goto, LockInv, LockShape, Carrying,
             Guarded, Protected, StillHolds, Fair, Pending, now
    <2> QED  BY <2>1, <2>2 DEF LockInv
  <1> QED  BY <1>1, <1>2 DEF CheckUserGovernanceBypass

\* What is judged fine while the version is protected does not weaken it.
LEMMA JudgeKeeps ==
    ASSUME LockInv, NEW r \in Reqs, Judge(r)
    PROVE  LockInv'
  <1> DEFINE c == ctx[r]
  <1>1. CASE Refuse(r)
    BY <1>1, LockEndKeeps DEF Refuse, LockInv, LockShape
  <1>2. CASE /\ pc[r] = "judge" /\ Goto(r, "write") /\ UNCHANGED <<store, ctx>>
             /\ c.kind = "retention" => CanModifyPolicy(c.read, c.ret, c.bypass, now)
             /\ c.kind = "delete" => CanModifyObject(c.read, c.bypass, now)
    <2>1. LockShape'
      BY <1>2 DEF Goto, LockInv, LockShape
    <2>2. Carrying'
      BY <1>2 DEF Goto, LockInv, LockShape, Carrying, Pending
    <2>3. ASSUME Protected  PROVE  Fair(c)
      <3>1. StillHolds(c.read)
        BY <1>2, <2>3 DEF LockInv, Guarded, Pending
      <3>2. c.kind # "delete"
        BY <1>2, <2>3, <3>1, NoDelete
      <3>3. c.kind = "retention" => c.ret \in [mode: Modes, date: Times]
        BY <1>2 DEF LockInv, Carrying, Pending
      <3>4. c.kind \in {"retention", "hold", "delete"}
        BY <1>2 DEF LockInv, Carrying, Pending
      <3> QED  BY <1>2, <2>3, <3>1, <3>2, <3>3, <3>4, OnlyExtended DEF Fair
    <2>4. Guarded'
      BY <1>2, <2>3
         DEF Goto, LockInv, LockShape, Guarded, Protected, StillHolds, Fair,
             Pending, now
    <2> QED  BY <2>1, <2>2, <2>4 DEF LockInv
  <1>3. pc[r] = "judge" /\ c.kind \in {"retention", "hold", "delete"}
    BY DEF Judge, LockInv, Carrying, Pending
  <1> QED  BY <1>1, <1>2, <1>3 DEF Judge

\* The record that is written back is that of a judged request.
LEMMA WriteKeeps ==
    ASSUME LockInv, NEW r \in Reqs, PutLockMD(r)
    PROVE  LockInv'
  <1> DEFINE c == ctx[r]
  <1>1. /\ store.born # None /\ c.read \in Locks /\ c.hold \in BOOLEAN
        /\ c.kind \in {"retention", "hold", "delete"}
        /\ c.kind = "retention" => c.ret \in [mode: Modes, date: Times]
    BY DEF PutLockMD, LockInv, Carrying, Pending
  <1>2. /\ store'.version = Written(c) /\ store'.born = store.born /\ store'.now = store.now
        /\ store'.enabled = store.enabled
        /\ store' = [enabled |-> store'.enabled, version |-> store'.version,
                     now |-> store'.now, born |-> store'.born, asked |-> store'.asked]
    BY DEF PutLockMD, LockInv, LockShape
  <1>3. Written(c) \in {None} \cup Locks
    BY <1>1 DEF Written, With, Locks
  <1>4. /\ pc' = [q \in Reqs |-> pc'[q]] /\ UNCHANGED ctx
        /\ \A q \in Reqs : pc'[q] \in Pending => pc'[q] = pc[q] /\ q # r
    BY DEF PutLockMD, Goto, LockInv, LockShape, Pending
  <1>5. LockShape'
    BY <1>1, <1>2, <1>3, <1>4 DEF LockInv, LockShape
  <1>6. Carrying'
    BY <1>2, <1>4 DEF LockInv, Carrying
  <1>7. ASSUME Protected  PROVE  StillHolds(Written(c))
    <2>1. StillHolds(c.read) /\ Fair(c)
      BY <1>7 DEF PutLockMD, LockInv, Guarded, Pending
    <2>2. CASE c.kind = "retention"
      BY <1>1, <2>1, <2>2 DEF Written, With, StillHolds, Fair, Locks
    <2>3. CASE c.kind = "hold"
      BY <1>1, <2>1, <2>3 DEF Written, StillHolds, Locks
    <2> QED  BY <2>1, <2>2, <2>3 DEF Fair
  <1>8. Protected' <=> Protected
    BY <1>2 DEF Protected, now
  <1>9. Guarded'
    BY <1>2, <1>4, <1>7, <1>8 DEF LockInv, Guarded, StillHolds, Fair, Pending
  <1> QED  BY <1>5, <1>6, <1>9 DEF LockInv

\* Time only takes protection away.
LEMMA TickKeeps ==
    ASSUME LockInv, Tick
    PROVE  LockInv'
  <1>1. /\ store'.now = store.now + 1 /\ store'.version = store.version
        /\ store'.born = store.born /\ UNCHANGED <<pc, ctx>>
        /\ store' = [enabled |-> store'.enabled, version |-> store'.version,
                     now |-> store'.now, born |-> store'.born, asked |-> store'.asked]
    BY DEF Tick, LockInv, LockShape
  <1>2. LockShape' /\ Carrying'
    BY <1>1 DEF LockInv, LockShape, Carrying
  <1>3. ASSUME Protected'  PROVE  Protected
    <2>1. store.born.date \in Nat
      BY <1>1, <1>3, LockNoneAssumption, MaxTimeAssumption
      DEF Protected, LockInv, LockShape, Locks, Modes, Times
    <2> QED  BY <1>1, <1>3, <2>1 DEF Protected, now, LockInv, LockShape
  <1>4. Guarded'
    BY <1>1, <1>3 DEF LockInv, Guarded, StillHolds, Fair
  <1> QED  BY <1>2, <1>4 DEF LockInv

\* Every call keeps the lock.
LEMMA LockStepKeeps ==
    ASSUME LockInv, NEW r \in Reqs, LockStep(r)
    PROVE  LockInv'
  <1>1. CASE ObjectPutRetention(r)
    <2>1. PICK ret \in Retentions, bypass \in BOOLEAN, user \in BOOLEAN :
            ret.mode # None /\ Read(r, "objectPutRetention", "retention", ret, FALSE, bypass, user)
      BY <1>1 DEF ObjectPutRetention
    <2>2. ret \in [mode: Modes, date: Times]
      BY <2>1 DEF Retentions
    <2> QED  BY <2>1, <2>2, ReadKeeps
  <1>2. CASE ObjectPutLegalHold(r)
    BY <1>2, ReadKeeps DEF ObjectPutLegalHold
  <1>3. CASE ObjectDeleteVersion(r)
    BY <1>3, ReadKeeps DEF ObjectDeleteVersion
  <1>4. CASE ObjectGetRetention(r) \/ ObjectGetLegalHold(r)
    <2>1. /\ \E l \in {"ok", "failed"} : Goto(r, l)
          /\ UNCHANGED store
          /\ \A q \in Reqs \ {r} : ctx'[q] = ctx[q]
          /\ ctx' = [q \in Reqs |-> ctx'[q]]
      BY <1>4
         DEF ObjectGetRetention, ObjectGetLegalHold, Refuse, Carry, LockInv,
             LockShape
    <2> QED  BY <2>1, LockEndKeeps
  <1> QED
    BY <1>1, <1>2, <1>3, <1>4, CreationKeeps, BypassKeeps, JudgeKeeps,
       WriteKeeps DEF LockStep

\* The version is created with its lock.
LEMMA LockInitially == LockInit => LockInv
  <1> SUFFICES ASSUME LockInit  PROVE  LockInv
    OBVIOUS
  <1>1. LockShape
    BY DEF LockInit, LockShape
  <1>2. Carrying /\ Guarded
    BY DEF LockInit, Carrying, Guarded, Protected, Pending
  <1> QED  BY <1>1, <1>2 DEF LockInv

\* Every step keeps the invariant.
LEMMA LockSteps == LockInv /\ [LockNext]_vars => LockInv'
  <1> SUFFICES ASSUME LockInv, [LockNext]_vars  PROVE  LockInv'
    OBVIOUS
  <1>1. CASE Tick
    BY <1>1, TickKeeps
  <1>2. ASSUME NEW r \in Reqs, LockStep(r)  PROVE  LockInv'
    BY <1>2, LockStepKeeps
  <1>3. ASSUME NEW r \in Reqs, Die(r)  PROVE  LockInv'
    BY <1>3, LockEndKeeps DEF Die, LockInv, LockShape
  <1>4. CASE UNCHANGED vars
    BY <1>4
       DEF vars, LockInv, LockShape, Carrying, Guarded, Protected, StillHolds,
           Fair, now
  <1> QED  BY <1>1, <1>2, <1>3, <1>4 DEF LockNext

\* The invariant contains the property.
LEMMA LockInvEnough == LockInv => BornLockStands
  <1>1. ASSUME LockInv, store.born # None, store.born.mode = "COMPLIANCE", now < store.born.date
        PROVE  /\ store.version # None
               /\ store.version.mode = "COMPLIANCE"
               /\ store.version.date >= store.born.date
    BY <1>1, LockNoneAssumption DEF LockInv, Guarded, Protected, StillHolds
  <1> QED  BY <1>1 DEF BornLockStands

-----------------------------------------------------------------------------
(* Lone requests about locks *)

\* A request that runs alone has read what it will replace; what was acknowledged
\* is what the version carries; and a deletion that was judged may still be done.
LoneLock ==
    scene.sequential =>
        /\ \A q, r \in Reqs : Running(q) /\ Running(r) => q = r
        /\ store.version = store.asked
        /\ \A r \in Reqs : pc[r] \in Pending => ctx[r].read = store.version
        /\ \A r \in Reqs : pc[r] = "write" /\ ctx[r].kind = "delete" =>
               CanModifyObject(ctx[r].read, ctx[r].bypass, now)

\* What must hold of the request that steps.
LEMMA LoneKept ==
    ASSUME LockInv, LoneLock, NEW r \in Reqs, NEW l,
           UNCHANGED scene, pc' = [pc EXCEPT ![r] = l],
           Running(r) \/ (scene.sequential => Quiet),
           scene.sequential =>
               /\ store'.version = store'.asked
               /\ l \in Pending => ctx'[r].read = store'.version
               /\ l = "write" /\ ctx'[r].kind = "delete" =>
                      CanModifyObject(ctx'[r].read, ctx'[r].bypass, store'.now)
    PROVE  LoneLock'
  <1> SUFFICES ASSUME scene.sequential
               PROVE  /\ \A p, q \in Reqs : Running(p)' /\ Running(q)' => p = q
                      /\ store'.version = store'.asked
                      /\ \A q \in Reqs : pc'[q] \in Pending => ctx'[q].read = store'.version
                      /\ \A q \in Reqs : pc'[q] = "write" /\ ctx'[q].kind = "delete" =>
                             CanModifyObject(ctx'[q].read, ctx'[q].bypass, store'.now)
    BY DEF LoneLock, now
  <1>1. pc'[r] = l /\ \A q \in Reqs \ {r} : pc'[q] = pc[q]
    BY DEF LockInv, LockShape
  <1>2. \A q \in Reqs \ {r} : ~Running(q)
    BY DEF LoneLock, Quiet
  <1>3. \A q \in Reqs \ {r} : pc'[q] \in {"idle", "ok", "failed"}
    BY <1>1, <1>2 DEF Running
  <1>4. \A p, q \in Reqs : Running(p)' /\ Running(q)' => p = q
    BY <1>3 DEF Running
  <1>5. \A q \in Reqs : pc'[q] \in Pending => q = r
    BY <1>3 DEF Pending
  <1>6. \A q \in Reqs : pc'[q] = "write" => q = r
    BY <1>3
  <1> QED  BY <1>1, <1>4, <1>5, <1>6

\* A version that is not locked is not locked later.
LEMMA UnlockedStays ==
    ASSUME NEW v \in Locks, NEW bypass, NEW t \in Nat, CanModifyObject(v, bypass, t)
    PROVE  CanModifyObject(v, bypass, t + 1)
  <1>1. IsExpired(v, t) => IsExpired(v, t + 1)
    <2>1. v.date # None => v.date \in Nat
      BY MaxTimeAssumption DEF Locks, Times
    <2> QED  BY <2>1 DEF IsExpired
  <1>2. ~IsLocked(v, t) => ~IsLocked(v, t + 1)
    BY <1>1 DEF IsLocked
  <1> QED  BY <1>2 DEF CanModifyObject

\* A request that reads the version carries it.
LEMMA LoneRead ==
    ASSUME LockInv, LoneLock, UNCHANGED scene, NEW r \in Reqs, NEW op, NEW kind, NEW ret,
           NEW hold, NEW bypass, NEW user, Read(r, op, kind, ret, hold, bypass, user)
    PROVE  LoneLock'
  <1>1. scene.sequential => Quiet
    BY DEF Read, Sent
  <1>2. CASE Refuse(r)
    <2>1. store' = store /\ pc' = [pc EXCEPT ![r] = "failed"]
      BY <1>2 DEF Refuse, Goto
    <2> QED  BY <1>1, <2>1, LoneKept DEF LoneLock, Pending
  <1>3. CASE Consider(r, [kind |-> kind, read |-> store.version, ret |-> ret,
                          hold |-> hold, bypass |-> bypass], user)
    <2>1. PICK c : c = [kind |-> kind, read |-> store.version, ret |-> ret,
                        hold |-> hold, bypass |-> bypass]
      OBVIOUS
    <2>2. store' = store /\ ctx' = [ctx EXCEPT ![r] = c]
      BY <1>3, <2>1 DEF Consider, Carry
    <2>3. PICK l \in {"checkBypass", "judge"} : pc' = [pc EXCEPT ![r] = l]
      BY <1>3 DEF Consider, Goto
    <2>4. ctx'[r] = c /\ c.read = store.version
      BY <2>1, <2>2 DEF LockInv, LockShape
    <2> QED  BY <1>1, <2>2, <2>3, <2>4, LoneKept DEF LoneLock
  <1> QED  BY <1>2, <1>3 DEF Read

\* What is written and what is asked for change alike.
LEMMA LoneWrite ==
    ASSUME LockInv, LoneLock, UNCHANGED scene, NEW r \in Reqs, PutLockMD(r)
    PROVE  LoneLock'
  <1>1. pc[r] = "write" /\ ctx' = ctx /\ pc' = [pc EXCEPT ![r] = "ok"]
    BY DEF PutLockMD, Goto
  <1>2. Running(r) /\ ctx[r].read \in Locks /\ ctx[r].kind \in {"retention", "hold", "delete"}
    BY <1>1 DEF Running, LockInv, Carrying, Pending
  <1>3. scene.sequential => store'.version = store'.asked
    <2> SUFFICES ASSUME scene.sequential  PROVE  store'.version = store'.asked
      OBVIOUS
    <2>1. ctx[r].read = store.asked /\ store.asked # None
      BY <1>1, <1>2, LockNoneAssumption DEF LoneLock, Pending
    <2>2. PICK m : m = Written(ctx[r])
      OBVIOUS
    <2>3. PICK w : w = CASE ctx[r].kind = "delete" \/ store.asked = None -> None
                         [] ctx[r].kind = "retention" -> With(store.asked, ctx[r].ret)
                         [] ctx[r].kind = "hold" -> [store.asked EXCEPT !.hold = ctx[r].hold]
      OBVIOUS
    <2>4. store' = [store EXCEPT !.version = m, !.asked = m]
      <3>1. store' = [store EXCEPT !.version = m, !.asked = w]
        BY <2>2, <2>3 DEF PutLockMD
      <3>2. m = w
        <4>1. CASE ctx[r].kind = "delete"
          BY <2>1, <2>2, <2>3, <4>1 DEF Written
        <4>2. CASE ctx[r].kind = "retention"
          BY <2>1, <2>2, <2>3, <4>2 DEF Written
        <4>3. CASE ctx[r].kind = "hold"
          BY <2>1, <2>2, <2>3, <4>3 DEF Written
        <4> QED  BY <1>2, <4>1, <4>2, <4>3
      <3> QED  BY <3>1, <3>2
    <2>5. PICK e, v, n, b, a : store = [enabled |-> e, version |-> v, now |-> n, born |-> b,
                                        asked |-> a]
      BY DEF LockInv, LockShape
    <2> DEFINE half == [enabled |-> e, version |-> m, now |-> n, born |-> b, asked |-> a]
    <2>6. [store EXCEPT !.version = m] = half
      BY <2>5
    <2>7. [half EXCEPT !.asked = m] = [enabled |-> e, version |-> m, now |-> n, born |-> b,
                                       asked |-> m]
      OBVIOUS
    <2>8. store' = [half EXCEPT !.asked = m]
      <3> HIDE DEF half
      <3> QED  BY <2>4, <2>6
    <2> QED  BY <2>7, <2>8
  <1> QED  BY <1>1, <1>2, <1>3, LoneKept DEF Pending

\* A version is created as it is asked for.
LEMMA LoneCreation ==
    ASSUME LockInv, LoneLock, UNCHANGED scene, NEW r \in Reqs, PutLockedObject(r)
    PROVE  LoneLock'
  <1>1. (scene.sequential => Quiet) /\ pc' = [pc EXCEPT ![r] = "ok"]
    BY DEF PutLockedObject, Sent, Goto
  <1>2. PICK m : store' = [store EXCEPT !.version = m, !.born = m, !.asked = m]
    BY DEF PutLockedObject
  <1>3. store'.version = store'.asked
    BY <1>2 DEF LockInv, LockShape
  <1> QED  BY <1>1, <1>3, LoneKept DEF Pending

\* Every call of a lone request.
LEMMA LoneStepKeeps ==
    ASSUME LockInv, LoneLock, UNCHANGED scene, NEW r \in Reqs, LockStep(r) \/ Die(r)
    PROVE  LoneLock'
  <1>1. CASE PutLockedObject(r)
    BY <1>1, LoneCreation
  <1>2. CASE ObjectPutRetention(r)
    BY <1>2, LoneRead DEF ObjectPutRetention
  <1>3. CASE ObjectPutLegalHold(r)
    BY <1>3, LoneRead DEF ObjectPutLegalHold
  <1>4. CASE ObjectDeleteVersion(r)
    BY <1>4, LoneRead DEF ObjectDeleteVersion
  <1>5. CASE CheckUserGovernanceBypass(r)
    <2>1. Running(r) /\ store' = store /\ ctx' = ctx /\ pc[r] \in Pending
      BY <1>5 DEF CheckUserGovernanceBypass, Refuse, Running, Pending
    <2>2. PICK l \in {"failed", "judge"} : pc' = [pc EXCEPT ![r] = l]
      BY <1>5 DEF CheckUserGovernanceBypass, Refuse, Goto
    <2> QED  BY <2>1, <2>2, LoneKept DEF LoneLock, Pending
  <1>6. CASE Judge(r)
    <2>1. pc[r] = "judge" /\ Running(r) /\ store' = store /\ ctx' = ctx /\ pc[r] \in Pending
      BY <1>6 DEF Judge, Refuse, Running, Pending
    <2>2. ctx[r].kind \in {"retention", "hold", "delete"}
      BY <2>1 DEF LockInv, Carrying
    <2>3. \/ pc' = [pc EXCEPT ![r] = "failed"]
          \/ /\ pc' = [pc EXCEPT ![r] = "write"]
             /\ ctx[r].kind = "delete" => CanModifyObject(ctx[r].read, ctx[r].bypass, now)
      BY <1>6, <2>2 DEF Judge, Refuse, Goto
    <2>4. CASE pc' = [pc EXCEPT ![r] = "failed"]
      BY <2>1, <2>4, LoneKept DEF LoneLock, Pending
    <2>5. CASE /\ pc' = [pc EXCEPT ![r] = "write"]
               /\ ctx[r].kind = "delete" => CanModifyObject(ctx[r].read, ctx[r].bypass, now)
      BY <2>1, <2>5, LoneKept DEF LoneLock, now
    <2> QED  BY <2>3, <2>4, <2>5
  <1>7. CASE PutLockMD(r)
    BY <1>7, LoneWrite
  <1>8. CASE ObjectGetRetention(r) \/ ObjectGetLegalHold(r)
    <2>1. (scene.sequential => Quiet) /\ store' = store
      BY <1>8 DEF ObjectGetRetention, ObjectGetLegalHold, Sent, Refuse
    <2>2. PICK l \in {"failed", "ok"} : pc' = [pc EXCEPT ![r] = l]
      BY <1>8 DEF ObjectGetRetention, ObjectGetLegalHold, Refuse, Goto
    <2> QED  BY <2>1, <2>2, LoneKept DEF LoneLock, Pending
  <1>9. CASE Die(r)
    <2>1. Running(r) /\ store' = store /\ pc' = [pc EXCEPT ![r] = "failed"]
      BY <1>9 DEF Die, Goto
    <2> QED  BY <2>1, LoneKept DEF LoneLock, Pending
  <1> QED  BY <1>1, <1>2, <1>3, <1>4, <1>5, <1>6, <1>7, <1>8, <1>9 DEF LockStep

\* Time makes no judged deletion wrong.
LEMMA LoneTick ==
    ASSUME LockInv, LoneLock, UNCHANGED scene, Tick
    PROVE  LoneLock'
  <1>1. /\ store'.now = store.now + 1 /\ store'.version = store.version
        /\ store'.asked = store.asked /\ UNCHANGED <<pc, ctx>>
    BY DEF Tick, LockInv, LockShape
  <1>2. store.now \in Nat
    BY DEF LockInv, LockShape
  <1>3. ASSUME scene.sequential, NEW r \in Reqs, pc[r] = "write", ctx[r].kind = "delete"
        PROVE  CanModifyObject(ctx[r].read, ctx[r].bypass, store.now + 1)
    <2>1. ctx[r].read \in Locks
      BY <1>3 DEF LockInv, Carrying, Pending
    <2>2. CanModifyObject(ctx[r].read, ctx[r].bypass, store.now)
      BY <1>3 DEF LoneLock, now
    <2> QED  BY <1>2, <2>1, <2>2, UnlockedStays
  <1> QED  BY <1>1, <1>3 DEF LoneLock, Running, now

\* So lone requests stay so.
LEMMA LoneLockSteps ==
    ASSUME LockInv, LoneLock, [LockNext]_vars
    PROVE  LoneLock'
  <1>1. CASE UNCHANGED vars
    BY <1>1 DEF vars, LoneLock, Running, now
  <1>2. CASE LockNext
    <2>1. UNCHANGED scene /\ (Tick \/ \E r \in Reqs : LockStep(r) \/ Die(r))
      BY <1>2 DEF LockNext
    <2> QED  BY <2>1, LoneStepKeeps, LoneTick
  <1> QED  BY <1>1, <1>2

\* Nothing is asked for at first.
LEMMA LoneInitially ==
    ASSUME LockInit
    PROVE  LoneLock
  BY DEF LockInit, LoneLock, Running, Pending

\* A version that goes was judged, and may still go.
LEMMA LockedForNowHolds ==
    ASSUME LockInv, LoneLock, [LockNext]_vars, scene.sequential,
           store.version # None, store'.version = None, IsLocked(store.version, now)
    PROVE  /\ ~store.version.hold
           /\ store.version.mode = "GOVERNANCE"
           /\ \E r \in Reqs : pc[r] = "write" /\ ctx[r].bypass
  <1>1. LockNext /\ store' # store
    BY DEF vars
  <1>2. ~Tick
    BY DEF Tick, LockInv, LockShape
  <1>3. PICK r \in Reqs : LockStep(r) \/ Die(r)
    BY <1>1, <1>2 DEF LockNext
  <1>4. ~PutLockedObject(r)
    BY DEF PutLockedObject, LockInv, LockShape
  <1>5. PutLockMD(r)
    BY <1>1, <1>3, <1>4
    DEF LockStep, ObjectPutRetention, ObjectPutLegalHold, ObjectDeleteVersion, Read, Consider,
        CheckUserGovernanceBypass, Judge, ObjectGetRetention, ObjectGetLegalHold, Refuse, Die
  <1>6. /\ pc[r] = "write" /\ ctx[r].read \in Locks /\ ctx[r].hold \in BOOLEAN
        /\ ctx[r].kind \in {"retention", "hold", "delete"}
        /\ ctx[r].kind = "retention" => ctx[r].ret \in [mode: Modes, date: Times]
    BY <1>5 DEF PutLockMD, LockInv, Carrying, Pending
  <1>7. store'.version = Written(ctx[r])
    BY <1>5 DEF PutLockMD, LockInv, LockShape
  <1>8. ctx[r].kind = "delete"
    <2>1. ctx[r].kind = "retention" => Written(ctx[r]) \in Locks
      BY <1>6 DEF Written, With, Locks
    <2>2. ctx[r].kind = "hold" => Written(ctx[r]) \in Locks
      BY <1>6 DEF Written, Locks
    <2> QED  BY <1>6, <1>7, <2>1, <2>2, LockNoneAssumption
  <1>9. CanModifyObject(store.version, ctx[r].bypass, now)
    BY <1>6, <1>8 DEF LoneLock, Pending
  <1> QED  BY <1>6, <1>9 DEF CanModifyObject

-----------------------------------------------------------------------------
(* Websites *)

Earliest(T) == CHOOSE x \in T : \A y \in T : x <= y

\* The first of some positions of a sequence, which CHOOSE finds.
LEMMA EarliestIs ==
    ASSUME NEW n \in Nat, NEW T \in SUBSET (1..n), T # {}
    PROVE  Earliest(T) \in T /\ \A y \in T : Earliest(T) <= y
  <1>1. T \in SUBSET Nat
    OBVIOUS
  <1> DEFINE R == OpToRel(<, Nat)
  <1>2. PICK x \in T : \A y \in T : x <= y
    <2>1. IsWellFoundedOn(R, Nat)
      BY NatLessThanWellFounded
    <2>2. \A m, k \in Nat : m < k => <<m, k>> \in R
      BY DEF OpToRel
    <2> HIDE DEF R
    <2>3. PICK x \in T : \A y \in T : ~(<<y, x>> \in R)
      BY <1>1, <2>1, WFMin
    <2>4. ASSUME NEW y \in T PROVE x <= y
      <3>1. ~(y < x)
        BY <1>1, <2>2, <2>3
      <3> QED  BY <1>1, <2>3, <3>1
    <2> QED  BY <2>3, <2>4
  <1> QED  BY <1>2 DEF Earliest

\* The positions of the rules that apply.
Applying(rules, key, code) == {i \in DOMAIN rules : RuleApplies(rules[i], key, code)}

\* The rule found is the first that applies.
LEMMA FindsFirst ==
    ASSUME NEW rules \in Seq(RoutingRules), NEW key, NEW code
    PROVE  LET applies == Applying(rules, key, code)
           IN  FindRoutingRule(rules, key, code)
                 = IF applies = {} THEN None
                   ELSE rules[Earliest(applies)]
  <1> DEFINE applies == Applying(rules, key, code)
             chosen == {i \in 1..Len(rules) :
                          ~Conditional(rules[i]) \/ RuleApplies(rules[i], key, code)}
  <1>1. chosen = applies /\ Len(rules) \in Nat /\ DOMAIN rules = 1..Len(rules)
    BY DEF Applying, Conditional, RuleApplies
  <1>2. FindRoutingRule(rules, key, code)
          = IF WX!SelectInSeq(rules, LAMBDA rule : ~Conditional(rule) \/ RuleApplies(rule, key, code)) = 0
            THEN None ELSE rules[WX!SelectInSeq(rules, LAMBDA rule : ~Conditional(rule) \/ RuleApplies(rule, key, code))]
    BY DEF FindRoutingRule
  <1>3. WX!SelectInSeq(rules, LAMBDA rule : ~Conditional(rule) \/ RuleApplies(rule, key, code))
          = IF chosen # {} THEN WX!Min(chosen) ELSE 0
    BY DEF WX!SelectInSeq
  <1> HIDE DEF chosen
  <1>4. WX!Min(applies) = Earliest(applies)
    BY DEF WX!Min, Earliest
  <1>5. applies # {} => WX!Min(applies) \in 1..Len(rules)
    <2> HIDE DEF applies
    <2>1. applies \in SUBSET (1..Len(rules))
      BY <1>1 DEF applies, Applying
    <2>2. applies # {} => Earliest(applies) \in applies
      BY <1>1, <2>1, EarliestIs
    <2>3. QED
      BY <1>4, <2>1, <2>2
  <1> HIDE DEF applies
  <1>6. FindRoutingRule(rules, key, code) = IF applies = {} THEN None ELSE rules[WX!Min(applies)]
    BY <1>1, <1>2, <1>3, <1>5
  <1>7. FindRoutingRule(rules, key, code)
          = IF applies = {} THEN None ELSE rules[Earliest(applies)]
    BY <1>4, <1>6
  <1> QED  BY <1>7 DEF applies

\* What a CORS rule says of a request.
Matching(rule, origin, method) ==
    method \in rule.methods /\ \E o \in rule.origins : MatchesValue(o, origin)

HeadersMatch(rule, headers) == headers # None => rule.headers # None /\ headers \subseteq rule.headers

\* The rule found for a CORS request is one that matches, if there is one.
LEMMA FindsCorsRule ==
    ASSUME NEW rules \in Seq(CorsRules), NEW origin, NEW method, NEW headers
    PROVE  LET rule == FindCorsRule(rules, origin, method, headers)
               matches(i) == Matching(rules[i], origin, method) /\ HeadersMatch(rules[i], headers)
           IN  \/ rule = None /\ \A i \in DOMAIN rules : ~matches(i)
               \/ rule # None /\ \E i \in DOMAIN rules : matches(i) /\ rule = rules[i]
  <1> DEFINE chosen == {i \in 1..Len(rules) :
                /\ method \in rules[i].methods
                /\ \E o \in rules[i].origins : MatchesValue(o, origin)
                /\ headers # None => rules[i].headers # None /\ headers \subseteq rules[i].headers}
             test(rule) == /\ method \in rule.methods
                           /\ \E o \in rule.origins : MatchesValue(o, origin)
                           /\ headers # None => rule.headers # None /\ headers \subseteq rule.headers
             found == WX!SelectInSeq(rules, LAMBDA rule :
                /\ method \in rule.methods
                /\ \E o \in rule.origins : MatchesValue(o, origin)
                /\ headers # None => rule.headers # None /\ headers \subseteq rule.headers)
  <1>1. Len(rules) \in Nat /\ DOMAIN rules = 1..Len(rules) /\ \A i \in 1..Len(rules) : rules[i] # None
    BY SiteAssumption
  <1>2. FindCorsRule(rules, origin, method, headers) = IF found = 0 THEN None ELSE rules[found]
    BY DEF FindCorsRule
  <1>3. found = IF chosen # {} THEN WX!Min(chosen) ELSE 0
    BY DEF WX!SelectInSeq
  <1>4. \A i \in DOMAIN rules : i \in chosen <=> Matching(rules[i], origin, method)
                                                 /\ HeadersMatch(rules[i], headers)
    BY <1>1 DEF Matching, HeadersMatch
  <1>5. chosen \in SUBSET (1..Len(rules))
    OBVIOUS
  <1> HIDE DEF chosen, found
  <1>6. chosen # {} => WX!Min(chosen) \in chosen
    <2>1. WX!Min(chosen) = Earliest(chosen)
      BY DEF WX!Min, Earliest
    <2>2. QED
      BY <1>1, <1>5, <2>1, EarliestIs
  <1>7. \A i \in chosen : i \in 1..Len(rules) /\ i # 0
    BY <1>1, <1>5
  <1> QED  BY <1>1, <1>2, <1>3, <1>4, <1>6, <1>7

\* A directory and its index document have the same rule, if none is for the
\* document alone.
LEMMA SameRule ==
    ASSUME NEW rules \in Seq(RoutingRules), NEW key \in Pages, NEW code,
           \A i \in DOMAIN rules : rules[i].prefix # "docs/index"
    PROVE  FindRoutingRule(rules, WithIndex(key), code) = FindRoutingRule(rules, key, code)
  <1>1. \A i \in DOMAIN rules : rules[i] \in RoutingRules
    OBVIOUS
  <1>2. \A i \in DOMAIN rules : RuleApplies(rules[i], WithIndex(key), code)
                                <=> RuleApplies(rules[i], key, code)
    BY <1>1 DEF RuleApplies, Prefixed, WithIndex, Pages, RoutingRules
  <1>3. Applying(rules, WithIndex(key), code) = Applying(rules, key, code)
    BY <1>2 DEF Applying
  <1> QED  BY <1>3, FindsFirst

-----------------------------------------------------------------------------

Looked(op, key) == IF op = "websiteHead" THEN WithIndex(key) ELSE key
ErrorCodes == {NoSuchKey, AccessDenied, PreconditionFailed}
CodeOf(status) == IF status \in ErrorCodes THEN status ELSE None
RedirectBy(rule) == IF rule = None THEN None ELSE <<"rule", rule>>

Visit(op, key, site, status, redirect, page) ==
    [op |-> op, key |-> key, site |-> site,
     status |-> status, redirect |-> redirect, page |-> page]

\* What the server holds of a site.
SiteSound(site) ==
    /\ site = [config |-> site.config, cors |-> site.cors,
               listed |-> site.listed, objects |-> site.objects]
    /\ site.config.rules \in Seq(RoutingRules)
    /\ site.cors \in Seq(CorsRules)
    /\ site.objects \in [Pages -> SiteObjects \cup {None}]

ErrorOutcome(rules, key, code) == <<code, RedirectBy(FindRoutingRule(rules, key, code))>>

\* The status and the redirection, while nothing changes.
Outcome(op, key, site) ==
    LET rules == site.config.rules
        first == FindRoutingRule(rules, Looked(op, key), None)
        object == site.objects[WithIndex(key)]
    IN  IF site.config.all THEN <<301, <<"all">>>>
        ELSE IF first # None THEN <<301, <<"rule", first>>>>
        ELSE IF object = None
        THEN ErrorOutcome(rules, key, IF site.listed THEN NoSuchKey ELSE AccessDenied)
        ELSE IF ~object.public THEN ErrorOutcome(rules, key, AccessDenied)
        ELSE IF object.redirect THEN <<301, <<"object">>>> ELSE <<200, None>>

NothingChanges(ops) == "changeObject" \notin ops
NothingFails(ops) == NothingChanges(ops) /\ "conditions" \notin ops

\* A visitor's request, that has read the record of the bucket.
IsVisit(c, site, ops) ==
    /\ c.op \in {"websiteGet", "websiteHead"}
    /\ c = Visit(c.op, c.key, c.site, c.status, c.redirect, c.page)
    /\ c.key \in Pages
    /\ SiteSound(c.site)
    /\ NothingChanges(ops) => c.site = site

\* It goes on to the object.
Searched(c) ==
    /\ ~c.site.config.all
    /\ FindRoutingRule(c.site.config.rules, Looked(c.op, c.key), None) = None

\* It has this answer, or has it but for the page.
AnswerSound(c, ops) ==
    /\ c.page # None =>
           /\ c.page.of.public
           /\ IF c.status = 200 THEN c.page.key = WithIndex(c.key)
              ELSE c.page.key = "error" /\ c.status \in ErrorCodes
    /\ c.op = "websiteGet" =>
           \/ c.redirect \in {<<"all">>, <<"object">>}
           \/ c.redirect = RedirectBy(FindRoutingRule(c.site.config.rules, c.key, CodeOf(c.status)))
    /\ NothingFails(ops) => <<c.status, c.redirect>> = Outcome(c.op, c.key, c.site)

\* A script's request, that some rule allows.
IsPreflight(c) ==
    /\ c = [op |-> "preflight", origin |-> c.origin, method |-> c.method,
            told |-> c.told, answer |-> c.answer]
    /\ c.origin \in Origins /\ c.method \in Methods

PreflightSound(c, rules) ==
    /\ IsPreflight(c)
    /\ \E i \in DOMAIN rules : Matching(rules[i], c.origin, c.method)

HonouredSound(c) ==
    /\ IsPreflight(c)
    /\ c.answer # None
    /\ c.answer.origin \in {<<"*">>, c.origin}
    /\ c.method \in c.answer.methods

VisitorSound(r) ==
    LET c == ctx[r]
    IN  /\ pc[r] = "idle" => c = None
        /\ pc[r] = "getObjectMD" =>
               IsVisit(c, store, scene.ops) /\ Searched(c) /\ c.redirect = None /\ c.page = None
        /\ pc[r] = "getErrorDocument" =>
               /\ IsVisit(c, store, scene.ops) /\ AnswerSound(c, scene.ops) /\ c.op = "websiteGet"
               /\ c.status \in ErrorCodes /\ c.redirect = None /\ c.page = None
        /\ pc[r] = "request" => PreflightSound(c, store.cors)
        /\ pc[r] = "ok" => \/ c = None
                           \/ IsVisit(c, store, scene.ops) /\ AnswerSound(c, scene.ops)
                           \/ HonouredSound(c)

SiteInv ==
    /\ pc = [r \in Reqs |-> pc[r]] /\ ctx = [r \in Reqs |-> ctx[r]]
    /\ SiteSound(store)
    /\ \A r \in Reqs : VisitorSound(r)

\* Of the others nothing changes but the objects.
LEMMA OthersVisit ==
    ASSUME SiteInv, UNCHANGED scene, NEW q \in Reqs, pc'[q] = pc[q], ctx'[q] = ctx[q],
           store'.cors = store.cors, NothingChanges(scene.ops) => store' = store
    PROVE  VisitorSound(q)'
  <1>1. VisitorSound(q)
    BY DEF SiteInv
  <1>2. \A c : IsVisit(c, store, scene.ops) => IsVisit(c, store', scene'.ops)
    BY DEF IsVisit
  <1> QED  BY <1>1, <1>2 DEF VisitorSound

\* A step of a request leaves the others alone.
LEMMA VisitorKept ==
    ASSUME SiteInv, UNCHANGED scene, NEW r \in Reqs, VisitorSound(r)',
           NEW call, Goto(r, call), UNCHANGED ctx \/ (\E c : Carry(r, c)),
           SiteSound(store'), store'.cors = store.cors,
           NothingChanges(scene.ops) => store' = store
    PROVE  SiteInv'
  <1>1. /\ pc' = [q \in Reqs |-> pc'[q]] /\ ctx' = [q \in Reqs |-> ctx'[q]]
        /\ \A q \in Reqs : q # r => pc'[q] = pc[q] /\ ctx'[q] = ctx[q]
    BY DEF Goto, Carry, SiteInv
  <1>2. \A q \in Reqs : q # r => VisitorSound(q)'
    BY <1>1, OthersVisit
  <1> QED  BY <1>1, <1>2 DEF SiteInv

\* A request ends without having changed anything.
LEMMA VisitorFails ==
    ASSUME SiteInv, UNCHANGED <<scene, store, ctx>>, NEW r \in Reqs, Goto(r, "failed")
    PROVE  SiteInv'
  <1>1. pc'[r] = "failed" /\ SiteSound(store') /\ store'.cors = store.cors
    BY DEF SiteInv, Goto
  <1>2. VisitorSound(r)'
    BY <1>1 DEF VisitorSound
  <1> QED  BY <1>1, <1>2, VisitorKept

\* A request has its answer, or goes on.
LEMMA VisitorGoes ==
    ASSUME SiteInv, UNCHANGED <<scene, store>>, NEW r \in Reqs,
           NEW call \in {"ok", "getObjectMD", "getErrorDocument"}, Goto(r, call),
           NEW op \in {"websiteGet", "websiteHead"}, NEW key \in Pages, NEW site, SiteSound(site),
           NothingChanges(scene.ops) => site = store,
           NEW status, NEW redirect, NEW page,
           Carry(r, Visit(op, key, site, status, redirect, page)),
           LET c == Visit(op, key, site, status, redirect, page)
           IN  /\ call = "ok" => AnswerSound(c, scene.ops)
               /\ call = "getObjectMD" => Searched(c) /\ redirect = None /\ page = None
               /\ call = "getErrorDocument" =>
                      /\ AnswerSound(c, scene.ops) /\ op = "websiteGet"
                      /\ status \in ErrorCodes /\ redirect = None /\ page = None
    PROVE  SiteInv'
  <1> DEFINE c == Visit(op, key, site, status, redirect, page)
  <1>1. /\ c.op = op /\ c.key = key /\ c.site = site
        /\ c.status = status /\ c.redirect = redirect /\ c.page = page
        /\ c = Visit(c.op, c.key, c.site, c.status, c.redirect, c.page)
    BY DEF Visit
  <1>2. pc'[r] = call /\ ctx'[r] = c /\ SiteSound(store') /\ store'.cors = store.cors
    BY DEF SiteInv, Goto, Carry
  <1> HIDE DEF c
  <1>3. IsVisit(c, store', scene'.ops)
    BY <1>1 DEF IsVisit
  <1>4. /\ call = "ok" => AnswerSound(c, scene.ops)
        /\ call = "getObjectMD" => Searched(c) /\ redirect = None /\ page = None
        /\ call = "getErrorDocument" =>
               /\ AnswerSound(c, scene.ops) /\ op = "websiteGet"
               /\ status \in ErrorCodes /\ redirect = None /\ page = None
    BY DEF c
  <1>5. VisitorSound(r)'
    BY <1>1, <1>2, <1>3, <1>4 DEF VisitorSound
  <1>6. \E x : Carry(r, x)
    OBVIOUS
  <1> QED  BY <1>2, <1>5, <1>6, VisitorKept

\* The record of the bucket is read.
LEMMA ReadSiteKeeps ==
    ASSUME SiteInv, UNCHANGED scene, NEW r \in Reqs, NEW op \in {"websiteGet", "websiteHead"},
           ReadSite(r, op)
    PROVE  SiteInv'
  <1>1. PICK key \in Pages :
        LET site == store.config
            looked == IF op = "websiteHead" THEN WithIndex(key) ELSE key
            rule == FindRoutingRule(site.rules, looked, None)
            start == [op |-> op, key |-> key, site |-> store,
                      status |-> 0, redirect |-> None, page |-> None]
        IN  IF site.all
            THEN /\ Carry(r, [start EXCEPT !.status = 301, !.redirect = <<"all">>])
                 /\ Goto(r, "ok")
            ELSE IF rule = None THEN Carry(r, start) /\ Goto(r, "getObjectMD")
            ELSE IF Conditional(rule)
            THEN /\ Carry(r, [start EXCEPT !.status = 301, !.redirect = <<"rule", rule>>])
                 /\ Goto(r, "ok")
            ELSE Goto(r, "failed") /\ UNCHANGED ctx
    BY DEF ReadSite
  <1>2. UNCHANGED store /\ SiteSound(store)
    BY DEF ReadSite, SiteInv
  <1> DEFINE rule == FindRoutingRule(store.config.rules, Looked(op, key), None)
             start == [op |-> op, key |-> key, site |-> store,
                       status |-> 0, redirect |-> None, page |-> None]
             v(status, redirect) == Visit(op, key, store, status, redirect, None)
  <1>3. start = v(0, None)
    BY DEF Visit
  <1> HIDE DEF start
  <1>4. /\ [start EXCEPT !.status = 301, !.redirect = <<"all">>] = v(301, <<"all">>)
        /\ [start EXCEPT !.status = 301, !.redirect = <<"rule", rule>>] = v(301, <<"rule", rule>>)
    <2> HIDE DEF v
    <2>1. [start EXCEPT !.status = 301] = v(301, None)
      BY <1>3 DEF v, Visit
    <2>2. /\ [v(301, None) EXCEPT !.redirect = <<"all">>] = v(301, <<"all">>)
          /\ [v(301, None) EXCEPT !.redirect = <<"rule", rule>>] = v(301, <<"rule", rule>>)
      BY DEF v, Visit
    <2>3. [start EXCEPT !.status = 301, !.redirect = <<"all">>] = v(301, <<"all">>)
      BY <2>1, <2>2
    <2>4. [start EXCEPT !.status = 301, !.redirect = <<"rule", rule>>] = v(301, <<"rule", rule>>)
      BY <2>1, <2>2
    <2>5. QED
      BY <2>3, <2>4
  <1>5. rule = FindRoutingRule(store.config.rules,
                               IF op = "websiteHead" THEN WithIndex(key) ELSE key, None)
    BY DEF Looked
  <1> HIDE DEF rule
  <1>6. \/ store.config.all /\ Carry(r, v(301, <<"all">>)) /\ Goto(r, "ok")
        \/ ~store.config.all /\ rule = None /\ Carry(r, v(0, None)) /\ Goto(r, "getObjectMD")
        \/ ~store.config.all /\ rule # None /\ Carry(r, v(301, <<"rule", rule>>)) /\ Goto(r, "ok")
        \/ Goto(r, "failed") /\ UNCHANGED ctx
    <2>1. IF store.config.all
          THEN Carry(r, [start EXCEPT !.status = 301, !.redirect = <<"all">>]) /\ Goto(r, "ok")
          ELSE IF rule = None THEN Carry(r, start) /\ Goto(r, "getObjectMD")
          ELSE IF Conditional(rule)
          THEN Carry(r, [start EXCEPT !.status = 301, !.redirect = <<"rule", rule>>]) /\ Goto(r, "ok")
          ELSE Goto(r, "failed") /\ UNCHANGED ctx
      BY <1>1, <1>5 DEF start
    <2> HIDE DEF v
    <2>2. QED
      BY <1>3, <1>4, <2>1
  <1>7. \A status, redirect :
           LET c == v(status, redirect)
           IN  /\ c.op = op /\ c.key = key /\ c.site = store
               /\ c.status = status /\ c.redirect = redirect /\ c.page = None
    BY DEF Visit
  <1>8. store.config.all => AnswerSound(v(301, <<"all">>), scene.ops)
    <2> HIDE DEF v
    <2>1. store.config.all => Outcome(op, key, store) = <<301, <<"all">>>>
      BY DEF Outcome
    <2>2. QED
      BY <1>7, <2>1 DEF AnswerSound
  <1>9. ~store.config.all /\ rule # None => AnswerSound(v(301, <<"rule", rule>>), scene.ops)
    <2> HIDE DEF v
    <2>1. ~store.config.all /\ rule # None => Outcome(op, key, store) = <<301, <<"rule", rule>>>>
      BY DEF Outcome, rule
    <2>2. CodeOf(301) = None
      BY DEF CodeOf, ErrorCodes, NoSuchKey, AccessDenied, PreconditionFailed
    <2>3. op = "websiteGet" => rule = FindRoutingRule(store.config.rules, key, CodeOf(301))
      BY <2>2 DEF Looked, rule
    <2>4. QED
      BY <1>7, <2>1, <2>3 DEF AnswerSound, RedirectBy
  <1>10. ~store.config.all /\ rule = None => Searched(v(0, None))
    <2> HIDE DEF v
    <2>1. QED
      BY <1>7 DEF Searched, rule
  <1>11. QED
    BY <1>2, <1>6, <1>8, <1>9, <1>10, VisitorGoes, VisitorFails

\* An error is answered by a rule, by the error document or by the server.
LEMMA ErrorActionsKeep ==
    ASSUME SiteInv, UNCHANGED scene, NEW r \in Reqs, pc[r] = "getObjectMD",
           NEW code \in ErrorCodes, ErrorActions(r, code),
           LET c == ctx[r]
           IN  NothingFails(scene.ops) =>
                   Outcome(c.op, c.key, c.site) = ErrorOutcome(c.site.config.rules, c.key, code)
    PROVE  SiteInv'
  <1> DEFINE c == ctx[r]
             rule == FindRoutingRule(c.site.config.rules, c.key, code)
             v(status, redirect) == Visit(c.op, c.key, c.site, status, redirect, None)
  <1>1. /\ IsVisit(c, store, scene.ops) /\ c.redirect = None /\ c.page = None
        /\ CodeOf(code) = code
    BY DEF SiteInv, VisitorSound, CodeOf
  <1>2. /\ c = Visit(c.op, c.key, c.site, c.status, None, None)
        /\ c.op \in {"websiteGet", "websiteHead"} /\ c.key \in Pages /\ SiteSound(c.site)
        /\ NothingChanges(scene.ops) => c.site = store
    BY <1>1 DEF IsVisit
  <1> HIDE DEF rule, c
  <1>3. [c EXCEPT !.status = code] = v(code, None)
    BY <1>2 DEF Visit
  <1>4. /\ [c EXCEPT !.status = code, !.redirect = None, !.page = None] = v(code, None)
        /\ [c EXCEPT !.status = code, !.redirect = <<"rule", rule>>, !.page = None]
              = v(code, <<"rule", rule>>)
    <2> HIDE DEF v
    <2>1. \A d : [v(code, None) EXCEPT !.redirect = d] = v(code, d)
      BY DEF v, Visit
    <2>2. \A d : [v(code, d) EXCEPT !.page = None] = v(code, d)
      BY DEF v, Visit
    <2>3. QED
      BY <1>3, <2>1, <2>2
  <1> USE DEF c
  <1>5. /\ \/ rule # None /\ Carry(r, v(code, <<"rule", rule>>)) /\ Goto(r, "ok")
           \/ rule = None /\ c.op = "websiteGet" /\ Carry(r, v(code, None)) /\ Goto(r, "getErrorDocument")
           \/ rule = None /\ Carry(r, v(code, None)) /\ Goto(r, "ok")
           \/ Goto(r, "failed") /\ UNCHANGED ctx
        /\ UNCHANGED store
    BY <1>3, <1>4 DEF ErrorActions, Redirect, SiteAnswer, Refuse, rule
  <1>6. \A redirect :
           LET x == v(code, redirect)
           IN  /\ x.op = c.op /\ x.key = c.key /\ x.site = c.site
               /\ x.status = code /\ x.redirect = redirect /\ x.page = None
    BY DEF Visit
  <1>7. AnswerSound(v(code, RedirectBy(rule)), scene.ops)
    <2> HIDE DEF v
    <2>1. QED
      BY <1>1, <1>6 DEF AnswerSound, ErrorOutcome, rule
  <1>8. RedirectBy(rule) = IF rule = None THEN None ELSE <<"rule", rule>>
    BY DEF RedirectBy
  <1> HIDE DEF c, v
  <1>9. QED
    BY <1>2, <1>5, <1>7, <1>8, VisitorGoes, VisitorFails DEF v

\* A request that is answered after the object was looked for.
LEMMA VisitAnswered ==
    ASSUME SiteInv, UNCHANGED scene, NEW r \in Reqs, pc[r] \in {"getObjectMD", "getErrorDocument"},
           NEW status, NEW redirect, NEW page, SiteAnswer(r, status, redirect, page),
           AnswerSound(Visit(ctx[r].op, ctx[r].key, ctx[r].site, status, redirect, page), scene.ops)
    PROVE  SiteInv'
  <1> DEFINE c == ctx[r]
             v(s, d, p) == Visit(c.op, c.key, c.site, s, d, p)
  <1>1. IsVisit(c, store, scene.ops)
    BY DEF SiteInv, VisitorSound
  <1>2. /\ c = v(c.status, c.redirect, c.page)
        /\ c.op \in {"websiteGet", "websiteHead"} /\ c.key \in Pages /\ SiteSound(c.site)
        /\ NothingChanges(scene.ops) => c.site = store
    BY <1>1 DEF IsVisit
  <1> HIDE DEF c
  <1>3. [c EXCEPT !.status = status, !.redirect = redirect, !.page = page] = v(status, redirect, page)
    <2>1. [c EXCEPT !.status = status] = v(status, c.redirect, c.page)
      BY <1>2 DEF Visit
    <2>2. [v(status, c.redirect, c.page) EXCEPT !.redirect = redirect] = v(status, redirect, c.page)
      BY DEF Visit
    <2>3. [v(status, redirect, c.page) EXCEPT !.page = page] = v(status, redirect, page)
      BY DEF Visit
    <2>4. QED
      BY <2>1, <2>2, <2>3
  <1>4. Carry(r, v(status, redirect, page)) /\ Goto(r, "ok") /\ UNCHANGED store
    BY <1>3 DEF SiteAnswer, c
  <1>5. AnswerSound(v(status, redirect, page), scene.ops)
    BY DEF c
  <1> QED  BY <1>2, <1>4, <1>5, VisitorGoes

\* The object is looked at.
LEMMA LookAtObjectKeeps ==
    ASSUME SiteInv, UNCHANGED scene, NEW r \in Reqs, LookAtObject(r)
    PROVE  SiteInv'
  <1> DEFINE c == ctx[r]
             object == store.objects[WithIndex(c.key)]
             shown == [of |-> object, key |-> WithIndex(c.key)]
             v(s, d, p) == Visit(c.op, c.key, c.site, s, d, p)
             quiet(outcome) == NothingFails(scene.ops) => Outcome(c.op, c.key, c.site) = outcome
             error(code) == ErrorOutcome(c.site.config.rules, c.key, code)
  <1>1. /\ pc[r] = "getObjectMD" /\ IsVisit(c, store, scene.ops) /\ Searched(c)
        /\ c.op \in {"websiteGet", "websiteHead"}
        /\ NothingChanges(scene.ops) => c.site = store
    BY DEF SiteInv, VisitorSound, LookAtObject, IsVisit
  <1>2. /\ object = None => quiet(error(Missing(r)))
        /\ object # None /\ ~object.public => quiet(error(AccessDenied))
        /\ object # None /\ object.public /\ object.redirect => quiet(<<301, <<"object">>>>)
        /\ object # None /\ object.public /\ ~object.redirect => quiet(<<200, None>>)
    BY <1>1 DEF Outcome, Searched, NothingFails, Missing
  <1>3. Missing(r) \in ErrorCodes /\ AccessDenied \in ErrorCodes /\ PreconditionFailed \in ErrorCodes
        /\ CodeOf(200) = None /\ 200 \notin ErrorCodes
    BY DEF Missing, ErrorCodes, NoSuchKey, AccessDenied, PreconditionFailed, CodeOf
  <1>4. \A s, d, p :
           LET x == v(s, d, p)
           IN  /\ x.op = c.op /\ x.key = c.key /\ x.site = c.site
               /\ x.status = s /\ x.redirect = d /\ x.page = p
    BY DEF Visit
  <1>5. \/ object = None /\ ErrorActions(r, Missing(r))
        \/ object # None /\ ~object.public /\ ErrorActions(r, AccessDenied)
        \/ "conditions" \in scene.ops /\ ErrorActions(r, PreconditionFailed)
        \/ object # None /\ object.public /\ object.redirect /\ SiteAnswer(r, 301, <<"object">>, None)
        \/ object # None /\ object.public /\ ~object.redirect /\ SiteAnswer(r, 200, None, shown)
    BY DEF LookAtObject
  <1>6. shown.of = object /\ shown.key = WithIndex(c.key)
    OBVIOUS
  <1> HIDE DEF object, shown
  <1>7. CASE object = None /\ ErrorActions(r, Missing(r))
    BY <1>1, <1>2, <1>3, <1>7, ErrorActionsKeep
  <1>8. CASE object # None /\ ~object.public /\ ErrorActions(r, AccessDenied)
    BY <1>1, <1>2, <1>3, <1>8, ErrorActionsKeep
  <1>9. CASE "conditions" \in scene.ops /\ ErrorActions(r, PreconditionFailed)
    BY <1>1, <1>3, <1>9, ErrorActionsKeep DEF NothingFails
  <1>10. CASE object # None /\ object.public /\ object.redirect
              /\ SiteAnswer(r, 301, <<"object">>, None)
    <2>1. AnswerSound(v(301, <<"object">>, None), scene.ops)
      <3> HIDE DEF v
      <3>1. QED
        BY <1>2, <1>4, <1>10 DEF AnswerSound
    <2>2. QED
      BY <1>1, <1>10, <2>1, VisitAnswered
  <1>11. CASE object # None /\ object.public /\ ~object.redirect /\ SiteAnswer(r, 200, None, shown)
    <2>1. AnswerSound(v(200, None, shown), scene.ops)
      <3> HIDE DEF v
      <3>1. c.op = "websiteGet" => None = RedirectBy(FindRoutingRule(c.site.config.rules, c.key, None))
        BY <1>1 DEF Searched, Looked, RedirectBy
      <3>2. QED
        BY <1>2, <1>3, <1>4, <1>6, <1>11, <3>1 DEF AnswerSound
    <2>2. QED
      BY <1>1, <1>11, <2>1, VisitAnswered
  <1> QED  BY <1>5, <1>7, <1>8, <1>9, <1>10, <1>11

\* The error document is shown to whom may read it.
LEMMA GetErrorDocumentKeeps ==
    ASSUME SiteInv, UNCHANGED scene, NEW r \in Reqs, GetErrorDocument(r)
    PROVE  SiteInv'
  <1> DEFINE c == ctx[r]
             document == store.objects["error"]
             shown == [of |-> document, key |-> "error"]
             v(p) == Visit(c.op, c.key, c.site, c.status, None, p)
  <1>1. /\ pc[r] = "getErrorDocument" /\ AnswerSound(c, scene.ops) /\ c.op = "websiteGet"
        /\ c.status \in ErrorCodes /\ c.redirect = None /\ c.page = None
    BY DEF SiteInv, VisitorSound, GetErrorDocument
  <1>2. \/ SiteAnswer(r, c.status, None, None)
        \/ document.public /\ SiteAnswer(r, c.status, None, shown)
    BY DEF GetErrorDocument
  <1>3. \A p : LET x == v(p)
               IN  /\ x.op = c.op /\ x.key = c.key /\ x.site = c.site
                   /\ x.status = c.status /\ x.redirect = None /\ x.page = p
    BY DEF Visit
  <1>4. shown.of = document /\ shown.key = "error" /\ 200 \notin ErrorCodes
    BY DEF ErrorCodes, NoSuchKey, AccessDenied, PreconditionFailed
  <1> HIDE DEF c, document, shown, v
  <1>5. AnswerSound(v(None), scene.ops)
    BY <1>1, <1>3 DEF AnswerSound
  <1>6. document.public => AnswerSound(v(shown), scene.ops)
    BY <1>1, <1>3, <1>4 DEF AnswerSound
  <1> USE DEF c, v
  <1> QED  BY <1>1, <1>2, <1>5, <1>6, VisitAnswered

\* Objects come and go.
LEMMA ChangeSiteObjectKeeps ==
    ASSUME SiteInv, UNCHANGED scene, NEW r \in Reqs, ChangeSiteObject(r)
    PROVE  SiteInv'
  <1>1. PICK k \in {"docs/index", "error"}, o \in {None} \cup SiteObjects :
            store' = [store EXCEPT !.objects[k] = o]
    BY DEF ChangeSiteObject
  <1>2. /\ pc[r] = "idle" /\ ~NothingChanges(scene.ops) /\ Goto(r, "ok") /\ UNCHANGED ctx
        /\ ctx[r] = None /\ SiteSound(store)
    BY DEF ChangeSiteObject, Sent, NothingChanges, SiteInv, VisitorSound
  <1>3. SiteSound(store') /\ store'.cors = store.cors
    <2> DEFINE objects == [store.objects EXCEPT ![k] = o]
    <2>1. objects \in [Pages -> SiteObjects \cup {None}]
      BY <1>2 DEF SiteSound, Pages
    <2>2. store' = [store EXCEPT !.objects = objects]
      BY <1>1
    <2> HIDE DEF objects
    <2>3. QED
      BY <1>2, <2>1, <2>2 DEF SiteSound
  <1>4. VisitorSound(r)'
    BY <1>2 DEF VisitorSound, Goto, SiteInv
  <1> QED  BY <1>2, <1>3, <1>4, VisitorKept

\* A preflight is answered by a rule that matches.
LEMMA CorsPreflightKeeps ==
    ASSUME SiteInv, UNCHANGED scene, NEW r \in Reqs, CorsPreflight(r)
    PROVE  SiteInv'
  <1>1. PICK origin \in Origins, method \in Methods, headers \in {None, {"x"}, {"x", "y"}} :
        LET rule == FindCorsRule(store.cors, origin, method, headers)
        IN  IF rule = None THEN Refuse(r)
            ELSE /\ Carry(r, [op |-> "preflight", origin |-> origin, method |-> method,
                              told |-> GenerateCorsResHeaders(rule, origin), answer |-> None])
                 /\ Goto(r, "request")
                 /\ UNCHANGED store
    BY DEF CorsPreflight
  <1> DEFINE rule == FindCorsRule(store.cors, origin, method, headers)
             told == GenerateCorsResHeaders(rule, origin)
             c == [op |-> "preflight", origin |-> origin, method |-> method,
                   told |-> told, answer |-> None]
  <1>2. CASE rule = None
    BY <1>1, <1>2, VisitorFails DEF Refuse
  <1>3. CASE rule # None
    <2>1. \E i \in DOMAIN store.cors : Matching(store.cors[i], origin, method)
      BY <1>3, FindsCorsRule DEF SiteInv, SiteSound
    <2>2. Carry(r, c) /\ Goto(r, "request") /\ UNCHANGED store
      BY <1>1, <1>3
    <2>3. PreflightSound(c, store.cors)
      BY <2>1 DEF PreflightSound, IsPreflight
    <2> HIDE DEF c
    <2>4. pc'[r] = "request" /\ ctx'[r] = c /\ SiteSound(store') /\ store'.cors = store.cors
      BY <2>2 DEF Goto, Carry, SiteInv
    <2>5. VisitorSound(r)'
      BY <2>3, <2>4 DEF VisitorSound
    <2>6. \E x : Carry(r, x)
      BY <2>2
    <2> QED  BY <2>2, <2>4, <2>5, <2>6, VisitorKept
  <1> QED  BY <1>2, <1>3

\* And so is the request that follows.
LEMMA CorsRequestKeeps ==
    ASSUME SiteInv, UNCHANGED scene, NEW r \in Reqs, CorsRequest(r)
    PROVE  SiteInv'
  <1> DEFINE c == ctx[r]
             rule == FindCorsRule(store.cors, c.origin, c.method, None)
             answer == CollectCorsHeaders(c.origin, c.method, store.cors)
             d == [c EXCEPT !.answer = answer]
  <1>1. PreflightSound(c, store.cors) /\ store.cors \in Seq(CorsRules)
    BY DEF CorsRequest, SiteInv, VisitorSound, SiteSound
  <1>2. rule # None /\ \E i \in DOMAIN store.cors : Matching(rule, c.origin, c.method) /\ rule = store.cors[i]
    BY <1>1, FindsCorsRule DEF PreflightSound, HeadersMatch
  <1>3. rule \in CorsRules
    BY <1>1, <1>2
  <1>4. answer = GenerateCorsResHeaders(rule, c.origin)
    BY <1>2 DEF CollectCorsHeaders
  <1>5. IsPreflight(c)
    BY <1>1 DEF PreflightSound
  <1> HIDE DEF rule, answer
  <1>6. /\ answer # None /\ answer.origin \in {<<"*">>, c.origin} /\ answer.methods = rule.methods
    <2>1. answer \in [origin : Origins \cup {<<"*">>}, credentials : BOOLEAN, methods : SUBSET Methods]
      BY <1>3, <1>4, <1>5 DEF GenerateCorsResHeaders, IsPreflight, CorsRules, Methods
    <2>2. QED
      BY <1>4, <2>1, SiteAssumption DEF GenerateCorsResHeaders
  <1>7. d = [op |-> "preflight", origin |-> c.origin, method |-> c.method,
             told |-> c.told, answer |-> answer]
    BY <1>5 DEF IsPreflight
  <1>8. HonouredSound(d)
    BY <1>2, <1>5, <1>6, <1>7 DEF HonouredSound, IsPreflight, Matching
  <1>9. Carry(r, d) /\ Goto(r, "ok") /\ UNCHANGED store
    BY DEF CorsRequest, answer
  <1> HIDE DEF d
  <1>10. pc'[r] = "ok" /\ ctx'[r] = d /\ SiteSound(store') /\ store'.cors = store.cors
    BY <1>9 DEF Goto, Carry, SiteInv
  <1>11. VisitorSound(r)'
    BY <1>8, <1>10 DEF VisitorSound
  <1>12. \E x : Carry(r, x)
    BY <1>9
  <1> QED  BY <1>9, <1>10, <1>11, <1>12, VisitorKept

\* The enumerated sequences are sequences.
LEMMA BoundedSequences ==
    ASSUME NEW S, NEW n \in Nat, NEW s \in WX!BoundedSeq(S, n)
    PROVE  s \in Seq(S)
  <1>1. PICK m \in 0..n : s \in [1..m -> S]
    BY DEF WX!BoundedSeq, WX!SeqOf
  <1> QED  BY <1>1

\* No request has been sent.
LEMMA SiteInitially == ASSUME SiteInit PROVE SiteInv
  <1>1. PICK config \in IF "cors" \in scene.ops
                        THEN {[all |-> TRUE, error |-> FALSE, rules |-> <<>>]} ELSE ValidSites,
             index \in {None} \cup [public : BOOLEAN, redirect : {FALSE}],
             error \in {None} \cup [public : BOOLEAN, redirect : {FALSE}],
             cors \in IF "cors" \in scene.ops THEN WX!BoundedSeq(CorsRules, 2) ELSE {<<>>},
             listed \in BOOLEAN :
        /\ "websiteHead" \in scene.ops => error = None
        /\ "cors" \in scene.ops => <<index, error, listed>> = <<None, None, TRUE>>
        /\ store = [config |-> config, cors |-> cors, listed |-> listed,
                    objects |-> [k \in Pages |-> CASE k = "docs/index" -> index
                                                   [] k = "error" -> error [] OTHER -> None]]
    BY Zenon DEF SiteInit
  <1>2. config.rules \in Seq(RoutingRules)
    <2>1. \A e \in BOOLEAN, s \in Seq(RoutingRules) :
             [all |-> FALSE, error |-> e, rules |-> s].rules \in Seq(RoutingRules)
      OBVIOUS
    <2>2. (IF "changeObject" \in scene.ops THEN 1 ELSE 2) \in Nat /\ <<>> \in Seq(RoutingRules)
      OBVIOUS
    <2>3. config = [all |-> TRUE, error |-> FALSE, rules |-> <<>>] \/ config \in ValidSites
      OBVIOUS
    <2>4. CASE config = [all |-> TRUE, error |-> FALSE, rules |-> <<>>]
      BY <2>2, <2>4
    <2>5. CASE \E e \in BOOLEAN, s \in WX!BoundedSeq(RoutingRules, IF "changeObject" \in scene.ops THEN 1 ELSE 2) :
                   config = [all |-> FALSE, error |-> e, rules |-> s]
      BY <2>1, <2>2, <2>5, BoundedSequences
    <2> QED  BY <2>3, <2>4, <2>5 DEF ValidSites
  <1>3. cors \in Seq(CorsRules)
    <2>1. <<>> \in Seq(CorsRules) /\ 2 \in Nat
      OBVIOUS
    <2>2. cors = <<>> \/ cors \in WX!BoundedSeq(CorsRules, 2)
      OBVIOUS
    <2>3. QED
      BY <2>1, <2>2, BoundedSequences
  <1>4. store.objects \in [Pages -> SiteObjects \cup {None}]
    <2>1. \A o \in [public : BOOLEAN, redirect : {FALSE}] : o \in SiteObjects
      BY DEF SiteObjects
    <2>2. QED
      BY <1>1, <2>1
  <1>5. SiteSound(store)
    BY <1>1, <1>2, <1>3, <1>4 DEF SiteSound
  <1> QED  BY <1>5 DEF SiteInv, VisitorSound, SiteInit

\* Every step of the component keeps the invariant.
LEMMA SiteSteps == ASSUME SiteInv, [SiteNext]_vars PROVE SiteInv'
  <1>1. CASE UNCHANGED vars
    <2>1. \A r \in Reqs : VisitorSound(r)'
      BY <1>1, OthersVisit DEF vars
    <2>2. QED
      BY <1>1, <2>1 DEF SiteInv, vars
  <1>2. CASE SiteNext
    <2>1. UNCHANGED scene
      BY <1>2 DEF SiteNext
    <2>2. PICK r \in Reqs : \/ WebsiteGet(r) \/ WebsiteHead(r) \/ GetSiteObject(r) \/ HeadSiteObject(r)
                            \/ GetErrorDocument(r) \/ ChangeSiteObject(r)
                            \/ CorsPreflight(r) \/ CorsRequest(r)
      BY <1>2 DEF SiteNext
    <2>3. CASE WebsiteGet(r) \/ WebsiteHead(r)
      BY <2>1, <2>3, ReadSiteKeeps DEF WebsiteGet, WebsiteHead
    <2>4. CASE GetSiteObject(r) \/ HeadSiteObject(r)
      BY <2>1, <2>4, LookAtObjectKeeps DEF GetSiteObject, HeadSiteObject
    <2>5. CASE GetErrorDocument(r)
      BY <2>1, <2>5, GetErrorDocumentKeeps
    <2>6. CASE ChangeSiteObject(r)
      BY <2>1, <2>6, ChangeSiteObjectKeeps
    <2>7. CASE CorsPreflight(r)
      BY <2>1, <2>7, CorsPreflightKeeps
    <2>8. CASE CorsRequest(r)
      BY <2>1, <2>8, CorsRequestKeeps
    <2> QED  BY <2>2, <2>3, <2>4, <2>5, <2>6, <2>7, <2>8
  <1> QED  BY <1>1, <1>2

\* A request that was answered has what the invariant says.
LEMMA AnsweredVisits ==
    ASSUME SiteInv, NEW r \in Reqs, SiteAnswered(r)
    PROVE  IsVisit(ctx[r], store, scene.ops) /\ AnswerSound(ctx[r], scene.ops)
  BY DEF SiteInv, VisitorSound, SiteAnswered, Answered, HonouredSound, IsPreflight

\* GET and HEAD have the same outcome.
LEMMA SameOutcome ==
    ASSUME NEW key \in Pages, NEW site, SiteSound(site),
           \A i \in DOMAIN site.config.rules : site.config.rules[i].prefix # "docs/index"
    PROVE  Outcome("websiteGet", key, site) = Outcome("websiteHead", key, site)
  <1>1. FindRoutingRule(site.config.rules, Looked("websiteGet", key), None)
          = FindRoutingRule(site.config.rules, Looked("websiteHead", key), None)
    BY SameRule DEF Looked, SiteSound
  <1> QED  BY <1>1 DEF Outcome

\* The parts of what visitors see.
LEMMA SiteShows == SiteInv => SiteIsAsConfigured
  <1> SUFFICES ASSUME SiteInv PROVE SiteIsAsConfigured
    OBVIOUS
  <1>1. ShownPagesArePublic
    BY AnsweredVisits DEF ShownPagesArePublic, AnswerSound, ErrorCodes,
       NoSuchKey, AccessDenied, PreconditionFailed
  <1>2. FirstRuleIsUsed
    <2> SUFFICES ASSUME NEW r \in Reqs, SiteAnswered(r), ctx[r].op = "websiteGet",
                        ctx[r].redirect \notin {<<"all">>, <<"object">>}
                 PROVE  LET rules == ctx[r].site.config.rules
                            code == IF ctx[r].status \in {403, 404, 412} THEN ctx[r].status ELSE None
                            applies == {i \in DOMAIN rules :
                              /\ rules[i].prefix # None => Prefixed(ctx[r].key, rules[i].prefix)
                              /\ rules[i].code # None => rules[i].code = code}
                        IN  IF applies = {} THEN ctx[r].redirect = None
                            ELSE ctx[r].redirect
                                   = <<"rule", rules[CHOOSE i \in applies : \A j \in applies : i <= j]>>
      BY DEF FirstRuleIsUsed
    <2> DEFINE rules == ctx[r].site.config.rules
               code == IF ctx[r].status \in {403, 404, 412} THEN ctx[r].status ELSE None
               applies == {i \in DOMAIN rules :
                              /\ rules[i].prefix # None => Prefixed(ctx[r].key, rules[i].prefix)
                              /\ rules[i].code # None => rules[i].code = code}
    <2>1. rules \in Seq(RoutingRules)
      BY AnsweredVisits DEF IsVisit, SiteSound
    <2>2. ctx[r].redirect = RedirectBy(FindRoutingRule(rules, ctx[r].key, code))
      <3>1. code = CodeOf(ctx[r].status)
        BY DEF CodeOf, ErrorCodes, NoSuchKey, AccessDenied, PreconditionFailed
      <3> HIDE DEF code
      <3>2. QED
        BY <3>1, AnsweredVisits DEF AnswerSound
    <2>3. applies = Applying(rules, ctx[r].key, code)
      BY DEF Applying, RuleApplies
    <2>4. Earliest(applies) = CHOOSE i \in applies : \A j \in applies : i <= j
      BY DEF Earliest
    <2>5. applies # {} => Earliest(applies) \in DOMAIN rules
      <3>1. Len(rules) \in Nat /\ DOMAIN rules = 1..Len(rules)
        BY <2>1
      <3>2. applies \in SUBSET (1..Len(rules))
        BY <3>1
      <3> HIDE DEF applies
      <3>3. QED
        BY <3>1, <3>2, EarliestIs
    <2> HIDE DEF applies, rules, code
    <2>6. FindRoutingRule(rules, ctx[r].key, code)
            = IF applies = {} THEN None ELSE rules[Earliest(applies)]
      BY <2>1, <2>3, FindsFirst
    <2>7. applies # {} => rules[Earliest(applies)] # None
      BY <2>1, <2>5, SiteAssumption
    <2>8. IF applies = {} THEN ctx[r].redirect = None
          ELSE ctx[r].redirect = <<"rule", rules[Earliest(applies)]>>
      BY <2>2, <2>6, <2>7 DEF RedirectBy
    <2>9. IF applies = {} THEN ctx[r].redirect = None
          ELSE ctx[r].redirect = <<"rule", rules[CHOOSE i \in applies : \A j \in applies : i <= j]>>
      BY <2>4, <2>8
    <2> QED  BY <2>9 DEF applies, rules, code
  <1>3. HeadIsLikeGet
    <2> SUFFICES ASSUME NEW r \in Reqs, NEW q \in Reqs, SiteAnswered(r), SiteAnswered(q),
                        ctx[r].op = "websiteGet", ctx[q].op = "websiteHead",
                        ctx[r].key = ctx[q].key, ctx[r].site = ctx[q].site,
                        "changeObject" \notin scene.ops, "conditions" \notin scene.ops,
                        \A i \in DOMAIN ctx[r].site.config.rules :
                            ctx[r].site.config.rules[i].prefix \notin {"docs/index"}
                 PROVE  ctx[r].status = ctx[q].status /\ ctx[r].redirect = ctx[q].redirect
      BY DEF HeadIsLikeGet
    <2>1. /\ NothingFails(scene.ops)
          /\ ctx[r].key \in Pages /\ SiteSound(ctx[r].site)
          /\ <<ctx[r].status, ctx[r].redirect>> = Outcome("websiteGet", ctx[r].key, ctx[r].site)
          /\ <<ctx[q].status, ctx[q].redirect>> = Outcome("websiteHead", ctx[r].key, ctx[r].site)
      BY AnsweredVisits DEF NothingFails, NothingChanges, IsVisit, AnswerSound
    <2>2. <<ctx[r].status, ctx[r].redirect>> = <<ctx[q].status, ctx[q].redirect>>
      BY <2>1, SameOutcome
    <2> QED  BY <2>2
  <1>4. PreflightIsHonoured
    BY DEF PreflightIsHonoured, Answered, SiteInv, VisitorSound, IsVisit, HonouredSound
  <1> QED  BY <1>1, <1>2, <1>3, <1>4 DEF SiteIsAsConfigured
=============================================================================
