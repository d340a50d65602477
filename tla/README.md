# A specification of Zenko CloudServer

CloudServer is an S3 server in node.js. Its workers keep no state of their own
between requests: everything that lasts is in three places, reached through the
`arsenal` library, and every handler is a chain of asynchronous calls to them.

* the **metadata** backend: bucket attributes, one metadata record per object
  key and per version, the shadow bucket `mpuShadowBucket...` of the multipart
  uploads, the `users..bucket` that lists each account's buckets;
* the **data** backend: opaque blobs under keys it chooses;
* **redis** (metrics, utapi) and **vault/KMS** (accounts, encryption keys).

No call spans two of them and none is transactional over two records. What can
go wrong is therefore almost always of one kind: a handler reads something,
makes calls during which other requests run, and acts on what it read; or it
dies between two of its calls. The modules here are built around that.

## How to run

In this directory, `tlc -config X.cfg M` checks a run (the table of runs below
gives `M` and `X`) and `tlapm M.tla` checks the proofs of a module whose name
ends in `Proofs`. `PROJECT.json` relates each definition to the lines of code
it translates, lists the hazards of the code with the properties that guard
them, and gives, for each property of a passing run, a mutant of the model: a
plausible bug under which TLC finds that property violated. The mutants' bodies
stand in the modules, before the definition they replace, under a comment that
starts with `Mutant`; no action uses them.

## Inventory

The components of the server, most important first. "Correct when" is what one
would want to check of each; the last column says where it is checked.

| component | state it keeps | operations | hard behaviour | correct when | module |
|---|---|---|---|---|---|
| multipart upload (`lib/api/*Multipart*`, `objectPutPart`, `objectPutCopyPart`, `services.js`) | overview key and part keys in the shadow bucket, part data | initiate, put part, copy part, list, complete, abort | a part replaced during a complete, retries of a complete, aborts, orphans | versions have all their data, never share it, ended uploads stay ended, nothing is orphaned | `Multipart` |
| object versioning (`versioning.js`, `createAndStoreObject`, `objectPut`, `objectDelete`, `objectPutTagging`/`ACL`) | a master key and version keys per object, data | put, delete, delete of a version, delete of version `null`, edits of tags and ACL | null versions handed from master to master, several calls per put, whole records written back | clients see the version history AWS describes; one null version; no dangling data | `ObjectVersioning`, `S3Versions` |
| bucket lifecycle (`bucketCreation`, `bucketDeletion`, `bucketShield`, `invisiblyDelete`, `bucketPut`, `bucketDelete`) | the bucket record with its marks, the users bucket, the shadow bucket | create, delete, and what every other request does to a marked bucket | each operation is three or four calls and is finished, or undone, by later requests | an acknowledged bucket stands; a deleted one is empty | `BucketLifecycle` |
| object lock (`objectLockHelpers`, `objectPutRetention`, `objectPutLegalHold`) | retention and hold of a version | set retention, set hold, read them, checks in put and delete | whole records written back; a check and the write it allows are apart; time passes | a compliance lock stands until its date, a hold until it is taken off | `ObjectLock` |
| bucket configuration (`bucketPut*`/`bucketDelete*`/`bucketGet*` of cors, lifecycle, policy, replication, tagging, website, encryption, notification, ACL, versioning, object lock; `routes/veeam`) | attributes of the bucket record | read, change one attribute, write all | two configurations at once; the master key is made and destroyed in calls of their own | attributes that need each other agree; what was acknowledged is what is read | `BucketConfig` |
| multi-object delete (`multiObjectDelete`) | as versioning | up to 1000 deletions in one request | read-ahead cache, bounded concurrency, one late data deletion for all | each entry is answered once, truly; data and records name each other | `MultiObjectDelete` |
| object copy (`objectCopy`, `locationConstraintCheck`) | as versioning | read one, put the other | a copy onto itself keeps the location | no two versions share data, none is lost | `ObjectCopy` |
| access control (`permissionChecks`, `acl`, `aclUtils`, `prepareRequestContexts`) | ACLs and policies in records | set and tell lists, decide | three forms of a list, two sources of a decision | what is asked is stored, told and enforced; a Deny stands | `AccessControl` |
| streaming V4 authentication (`V4Transform`) | the parser's buffers | feed a piece of the stream | input cut anywhere | only and all of what was signed passes | `StreamingV4` |
| internal replication routes (`routeBackbeat`) | as versioning | put data, put metadata, batch delete, remote uploads, conditional deletes | records written back after a long time; locations that move | records have their data, none is kept beyond them; a changed object is not expired | `Backbeat` |
| cold storage and restore (`objectRestore`, `coldStorage`) | archive state in the record | request a restore, put the restored data, expire, delete | shared with external services; retries; scaled days | dates agree, restored data is there, requests are not forgotten | `ColdStorage` |
| key management (`kms/*`) | keys in the KMS | create, destroy | created before the bucket's record, destroyed before it changes | no key but the bucket's, no bucket without its key | `BucketConfig`; one bit in `BucketLifecycle` |
| management agent (`management/*`) | overlay saved and live; registration; the push connection, its timers and channels | push, poll, agent, save, load, patch; connect, ping, close, open channels | messages out of order, crash between two keys, timers that race | the newest overlay wins, also after a restart; one watched connection | `ManagementOverlay`, `ManagementLink` |
| reads and listings (`objectGet`, `objectHead`, `objectPutCopyPart`, `setPartRanges`, `partInfo`; `bucketGet`, `listParts`, ...) | none | range and part arithmetic, page after page of a listing | boundaries; data read after its record | a read returns the bytes asked for, all of one object; a listing tells everything once | `ObjectRead`, `Listings` |
| usage metering (`utapi/*`) | none here | translate a request into a metric | - | - | not modelled |
| motion data client (`motionClient.js`, `motionserver.js`) | none | a stub: the calls never answer and nothing uses it | - | - | not modelled |
| websites and CORS (`websiteGet`, `websiteHead`, `websiteServing`, `corsPreflight`, `corsResponse`) | the website and CORS rules of the bucket | serve a page, redirect, answer a preflight | three records read one after the other; rules for errors | only public pages are shown; the first rule that applies is used; preflights are honoured | `Website` |
| routes for metadata and the workflow engine; NFS; health, monitoring and reports; configuration; `server.js`, `api.js`; `bin/` | none of their own | proxying, parsing, wiring | - | - | not modelled |

How they interact. `api.js` authenticates a request and calls one handler. A
handler first calls `metadataValidateBucketAndObj` (or a variant), which reads
the bucket record and the object's; `bucketShield` then decides whether a
marked bucket is treated as missing, is repaired (`cleanUpBucket`) or is
finished off in the background (`invisiblyDelete`). Writers go through
`createAndStoreObject` and `versioningPreprocessing`, completes through
`services.js`; all of them delete the data they replaced after the metadata
that replaced it was written. Handlers share nothing but the backends, so the
components meet in the records: a complete is one more writer of the versioned
object, a first upload makes the shadow bucket that a bucket deletion has to
empty, and so on.

## What is modelled

Conventions common to all modules:

* a request is an element of `Reqs` and runs one handler once; `pc[r]` is the
  backend call it makes next, `ctx[r]` the closure variables it carries, named
  as in the code where there is a name;
* every metadata or data call, with the computing that follows it up to the
  next call, is one action. Between two of them any other request may step.
  A handler that only reads, or whose calls do not meet another request's
  (`Website`'s redirections, a settings GET), is one action;
* a backend call is atomic and its answer is not lost: a lost answer, a backend
  error that ends the handler and a dead worker are one action, `Abandon` in
  the first three models and `Die` in those of the services;
* a request stores data at most once, so its identity serves as the fresh
  location key that the data backend gives it, and as the value it puts in a
  setting;
* what clients wait for is part of the model (`Discipline`, or `sequential` in a
  scene). The properties that hold for any clients are stated without it; those
  that do not are stated under the weakest discipline found under which they
  hold, and where the code, a document or a test promises more, a violation run
  shows the difference.

### `Multipart`: uploads of one key

`overview[u]` is the overview key (`new`, `open`, `completing` when it has
`completeInProgress`, `gone`), `partMD[u][p]` the location in a part key,
`data` the stored locations, `versions[r]` the locations of the version request
`r` wrote and `master` the current one. The actions are the calls of
`initiateMultipartUpload` (`Initiate`), `objectPutPart` and `objectPutCopyPart`
(`StartPart` ... `DeleteOldPart`), `completeMultipartUpload` (`StartComplete`,
`ValidateMultipart`, `MarkForCompletion`, `RetrieveParts`, `StoreObject`,
`DeleteOverwritten`, `DeleteMultipartKey`, `DeleteExtraParts`),
`abortMultipartUpload` (`StartAbort`, `GetPartLocations`, `DeletePartsData`)
and the plain PUT of the same key (`StartPut`, `StoreData`). The batch deletion
of the shadow bucket's keys is one action per key, in any order.

Who sends what is a variable that no step changes: `client` is one of the
constant `Clients`, each with the kinds of requests it sends, the lists of parts
it completes with, how many requests there are, whether data deletions may fail
(`lossy`) and a discipline. One run thereby checks several kinds of clients, and
a property that needs one names it.

Left out: external backends that run the upload themselves, listings, ETag and
size checks, access checks, the overwrite of a named version.

### `ObjectVersioning` and `S3Versions`: the versions of one key

`S3Versions` is what a client sees: the bucket's versioning status and a set of
versions, of which one may be the null version. `ObjectVersioning` is how the
code stores that: a `master` record, records under version keys (`vkeys`), the
`nullVid` reference that the master carries to a null version stored apart, and
the data. `RecordsInOrder` says that there is one null version, that
it can be reached and that the master is the latest; `DataStands` that records
and data name each other. Its actions are the calls of a PUT (`StoreData`, `StoreNull`,
`GetNull`, `DelNull`, `PutMD`, `DelData`), a DELETE with and without a version
(`DelMD`, or the put of a delete marker), a DELETE of version `null`
(`FindNull`), an edit of the current version's record (`EditMD`: tagging and
ACL handlers) and PutBucketVersioning (`SetStatus`). The operators of the
metadata engine (`PutMaster`, `PutNewVersion`, `PutVersion`, `DeleteVersion`,
...) are external code, taken from how the handlers use it and from
`docs/ARCHITECTURE.rst`.

`lib/Config.js:1612-1615` sets `nullVersionCompatMode` whatever the file says,
so only that mode is modelled. Left out: edits of a named version,
`x-scal-s3-version-id`, copies, NFS buckets.

The refinement (`Implements`) maps `versions` to the set of versions found in
the master and the version keys, copies of the same version counted once. It
shows that storing a null version apart, removing an old one and repairing the
master are invisible, and that each request takes effect in one step.

### `BucketLifecycle`: one bucket name

`bucket` is the record (owner, marks `transient` and `deleted`, whether it is
encrypted), `objects` its keys, `shadow` the uploads in its shadow bucket,
`entries` the accounts under which the users bucket lists it. `kept` is a
history variable: what the last acknowledged creation answered, until a
deletion marks the bucket. `pc` follows the request, `bg` the deletion
`invisiblyDelete` leaves running after the answer. The kinds of request are
creation, deletion, object PUT, PutBucketACL, initiation of an upload, object
DELETE, and `get`, which stands for every request type that `bucketShield`
treats as a read. `Encrypts`, `Legacy` (`legacyAWSBehavior` and the us-east-1
answer to creating one's own bucket) and `Upserts` (whether an update of a
missing record creates it) are the code's or the backend's alternatives.

Left out: the users bucket of past releases, service accounts, KMS keys, the
other attributes.

`DeletionTakesNothing` says of deletions that the bucket they remove is empty
and that no object a client was told is stored goes with it.

### The services: `Requests`, and one module per component

The other components of the API meet in the records of one bucket or one object
as well, but each of their hazards needs only its own handlers. They are
modelled side by side over one set of variables, declared by `Requests`:
`store` is what the backends hold, `pc` and `ctx` are as above, and `scene`
says which component a behaviour is about, which operations (`ops`) its clients
send, how many `requests` there are, whether clients wait for each answer
(`sequential`) and whether requests may die (`deaths`). No step changes the
scene. `Services` is the disjunction of the components, and `MCServices` lists
the scenes of the runs (`AllScenes`, `RestoreScenes`): small ones in which a
client sends every operation in every order, and for each component with
hazards of interleaving at least one in which requests overlap, most of them
with deaths.

| module | `store` holds | actions | properties |
|---|---|---|---|
| `BucketConfig` | the bucket record (`bucket`), the master keys of the KMS, and what the last acknowledged request asked of each setting | the puts and deletes of each setting (`Put`, `Remove`, `BucketPutVersioning`, `BucketPutObjectLock`, `BucketPutReplication`, `BucketPutEncryption`, ...), the making of a key (`MakeKey`), the write of the whole record (`UpdateBucket`), Veeam's files, an object PUT with the default key | `SettingsAgree`, always; `ConfigIsAsAsked` (reads give what was asked, no key is left over) when clients wait |
| `ObjectLock` | the lock of one version, the lock it was created with, the clock | PUT with a default or header lock, PutObjectRetention, PutObjectLegalHold, DELETE, each reading, judging and writing in calls of its own; time passes in between | `BornLockStands`, always; `LockAsAsked`, `LockedForNow` when clients wait |
| `MultiObjectDelete` | the records of the keys, their data | the read-ahead, an entry (read, judge, delete) under bounded concurrency, the deletion of all data at the end; PUTs beside it | `BatchDataStands`, `BatchAnswers` |
| `ObjectCopy` | versions of two keys, data | a copy (read, data, put, removal of what was replaced), deletions | `CopyDataStands`; `RestoredOwnsData` is violated |
| `Backbeat` | the record of a version and its data; an object of another service | tasks of the replication and lifecycle services, made of the routes they call: data, metadata, locations that move, batch deletion, uploads, conditional tagging and deletion | `ReplicaDataStands`, `UnmodifiedOnly` |
| `ColdStorage` | an archived version, data, the clock and the length of a day | RestoreObject, the put of the restored data, expiry, DELETE, GET, HEAD | `RestorationStands`, `AskingAgainExtends` |
| `ManagementOverlay` | the live configuration, the configuration files, the management database, the published overlays | poll, push, the agent's two halves, save, patch (refused, whole or half-way), restart | `OverlayIsWhole`, `OverlayGoesForward` |
| `ManagementLink` | registration, the web socket with its timers, the channels | initialisation and its retries, ping, pong, kill timer, close, reconnection, channel messages | `LinkIsSound` |
| `StreamingV4` | the parser's fields, what it passed on | a piece of the stream that ends anywhere (`Transform`), the verification of a chunk | `StreamIsSigned` |
| `ObjectRead` | the object's locations and data | GET and HEAD with a range or a part number, UploadPartCopy, the streaming of one location after the other, an overwrite | `ReadsAreTrue` |
| `AccessControl` | the lists of a bucket and an object (which may have none), whether the bucket is whitelisted for public reads, a policy of up to two statements | PUT acl (canned, headers, body), an object PUT with a list, GET acl; the decision as operators, for accounts, users, anybody, the log-delivery group and services | `AccessIsAsAsked` |
| `Website` | the website and CORS configuration, the pages | website GET and HEAD in three reads, preflight, changes in between | `SiteIsAsConfigured` |
| `Listings` | the versions of three keys, uploads, parts | the listings of objects (1, 2, search), versions, uploads, parts and lifecycle candidates, page after page; writes, deletes and uploads in between | `ListingsAreWhole` |

A property of these modules begins with `In("...")`: it is about the behaviours
of its component. Most are conjunctions of named parts, each with a comment:
`ListingsAreWhole`, for example, is `PagesAreComplete` (a listing followed to its
end told, once and in order, everything that was there all the while) and
`LatestIsToldOnce` (no key has two latest versions in one listing).

History variables are kept in `store` and read by properties only: what was
asked and acknowledged (`asked`), the lock a version was born with (`born`),
locations once named (`retired`), what has left a listing (`lapsed`).

Two of the properties hold with exceptions, which they name:

* `OverlayIsWhole`. `patchConfiguration` sets locations and accounts
  (`configuration.js:86`, `:116`) before `setRestEndpoints` (`:117`) looks
  whether every endpoint, `replicatorEndpoint` with its default `us-east-1`
  included (`:79-81`), leads to a location (`Config.js:1784`). If one does not,
  it throws, no callback is called and nobody catches (`ApplyHalf`): a worker of
  a cluster is killed and started again, a single process goes on
  (`server.js:273-287`) with the new locations and accounts, the old endpoints
  and the old version, and polls no more. The property says what holds all the
  same: no endpoint of a server that runs leads to a location that is gone, the
  endpoints are those of the live version, and only such an overlay is left
  half-way. It takes overlays to carry an instance id, and the listeners of the
  `Config` object not to throw.
* `AccessIsAsAsked`. Services may do everything (`permissionChecks.js:301`,
  `:339`). Buckets of `ALLOW_PUBLIC_READ_BUCKETS` that are `public-read` let
  everybody read their objects (`:187-195`). `log-delivery-write` is told as
  WRITE and READ_ACP for the log-delivery group (`aclUtils.js:64-73`), while only
  READ_ACP is enforced (`permissionChecks.js:54`, `:87-98`); `constants.js:51`
  says that the rest is to come. An object whose metadata has no list
  (`permissionChecks.js:121-123`) is its owner's and the services', and whoever's
  a policy allows; to put a list on it fails (`AddToNoACL`).

External code, taken from how the handlers use it: the metadata engine's
listings and conditional updates, the data backends, the KMS, Vault's decision
on a bypass of governance (a choice), the management API and push server, the
replication, lifecycle and restore services.

## The runs

| run | module, configuration | asks | result |
|---|---|---|---|
| `multipart_clients` | `MCMultipart`, `MultipartClients` | clients that retry their completes, with and without versioning, and clients that wait: is every version whole (`NoDangling`), is data never shared (`NoSharedData`), is nothing orphaned when all succeed (`NoOrphanWhenAllSucceed`), does an ended upload stay ended (`GoneForGood`) | holds, 467 675 states |
| `multipart_live` | `MultipartLive` | any requests in any order, crashes, deletions that fail: are part uploads harmless to completed objects (`PutPartSparesCommitted`), does a complete that reached the object remove the upload (`CompletionRemovesUpload`) | holds, 150 360 |
| `multipart_duplicate` | `MultipartDuplicate` | `NoSharedData` when another PUT comes between a complete and its retry | **violated** |
| `versioning_history` | `MCObjectVersioning`, `VersioningHistory` | every sequence of five requests and three status changes: the refinement of `S3Versions` (`Implements`), the records in order (`RecordsInOrder`), no dangling and no orphaned data (`DataStands`) | holds, 322 380 |
| `versioning_concurrent` | `VersioningConcurrent` | four overlapping writers and deleters that may die, while the status is quiet: records in order, no dangling data, acknowledged versions stay, overwritten ones do not return | holds, 124 073 |
| `versioning_edit_race` | `VersioningEditRace` | `OverwrittenForGood` with tagging or ACL edits | **violated** |
| `versioning_delete_null_race` | `VersioningDeleteNullRace` | `MasterIsLatestAtRest` with deletes of version `null` beside PUTs | **violated** |
| `bucket_recovery` | `MCBucketLifecycle`, `BucketRecovery` | creations, writes, reads, deletions and crashes: does an acknowledged bucket stand, does a deletion take nothing that was acknowledged, is a bucket listed only for its owner, does only its owner revive it | holds, 565 218 |
| `bucket_invisible_delete` | `BucketInvisibleDelete` | `KeptStands` when clients wait for answers only | **violated** |
| `bucket_encryption_retry` | `BucketEncryptionRetry` | `EncryptionAsAsked` when a creation is retried | **violated** |
| `services` | `MCServices`, `Services` | all scenes of the thirteen components: the properties of the table above | holds, 1 072 023 |
| `services_restore` | `ServicesRestore` | `RestoredOwnsData` when a version is copied on its own key | **violated** |

The six violations are disagreements between the code and what its documents,
comments or tests say; each is a finding of `PROJECT.json`, which quotes both
sides.

* *A retried complete duplicates a version.* The replay check
  (`completeMultipartUpload.js:433`) compares with the version that is current
  when the retry starts. If another PUT became current in between, the retry
  makes a second version over the same data.
* *An edit brings back overwritten content.* Tagging and ACL handlers write the
  whole record they read at the start; a PUT that ran in between has replaced
  it and deleted its data.
* *Deleting version `null` loses the master.* The deletion is planned on a
  master that a PUT then stores apart under a version key.
* *The background deletion removes a new bucket.* The shield answers before
  `invisiblyDelete` has run; the owner may have created the bucket again.
* *A retried creation is not encrypted.* The retry finds the transient record
  its first attempt left and finishes it with a record that lacks the
  encryption asked.
* *A restored version shares its data.* While versioning is suspended, a copy
  of an older version on its own key takes over the location instead of copying
  the data (`objectCopy.js:400`), and both versions then hold it.

### Bounds, and why they are enough

Each of the first three models has one key or one bucket name: handlers of
different keys share no record other than the bucket's, which they do not write.
`Reqs` is the bound that matters. A hazard of this code takes a victim, an
intruder between two of its calls, and at most a retry and a request that sets
the scene: every violation above needs two to four requests, and the passing
runs have up to five. Two parts are enough for a part that is listed and one
that is not; two accounts for an owner and somebody else; two uploads of a key
interact only through the current version, on which the PUT stands for the
other upload. `MaxCompletes` (three attempts: the first, a retry, a retry of a
retry) and `MaxChanges` (enable, suspend, enable) are named in guards. The
version identifiers are the integers from 1 in the order of generation; the
engine's real identifiers sort the other way and are compared only with each
other. Requests are interchangeable, so safety runs declare them symmetric; the
run with a liveness property does not.

The scenes of the services have at most four requests. Their data bounds:

* `MaxTime` (`ObjectLock`): two ticks, for a date in the past, now and later;
* `LastDay`, `DaysAsked`, `UnscaledDay` (`ColdStorage`): three days, one or two
  asked for, a day of full or half length: enough to ask again before and after
  the end;
* `MaxEntries`, `Concurrency` (`MultiObjectDelete`): up to three entries with
  two in work, so that one waits; a key named twice. The module also has a key
  whose name is what the read-ahead cache makes of another key without a version
  (`"aundefined"`); no scene uses it, because a hit of the cache then takes one
  object for the other (`metadataUtils.js:72`): what is shown of batches is
  shown of those without such a pair of keys (`KeysApart`, below);
* `MaxVersion` (`ManagementOverlay`): two published versions, of overlays with
  locations of their own or none, with or without an endpoint, where the
  endpoint, an old one or the default one (`us-east-1`) may lead nowhere; two
  configuration files to start from;
* `Channels` (`ManagementLink`): two channels;
* `Sizes` (`StreamingV4`): chunks of two, one and no bytes, with headers and
  line breaks of two pieces each, cut everywhere; five ways to tamper with them;
* `Shapes` (`ObjectRead`): up to three locations of one or three bytes in up to
  three parts, and every range over them;
* `ListingHardLimit` (`Listings`): two rows a page in place of 1000, for three
  keys of which two share a prefix and up to two versions each, so that a page
  ends between keys, between the versions of a key and in a prefix.

The disciplines are assumptions on clients, and the violation runs show they
are needed: `serialEnd` (one complete or abort of an upload at a time),
`sequential` (clients wait for each answer), `quietStatus` (the status does not
change while a request runs) and `deletesAlone` (no request overlaps a bucket
deletion, in the background or not). The runs of
`ObjectVersioning` check for deadlock, with a final state in which all requests
ended; the others may stop because their requests are used up.

### Fairness

`CompletionRemovesUpload` is checked under weak fairness of each request's
steps: node runs the continuation of a call that has returned, and a call that
never returns is `Abandon`, which is not fair and may happen at any point. No
fairness is assumed between requests or of clients. The services are safety
models and state none.

## What is proved

TLC decides each property on small instances; the theorems below say it for
every value of the constants, that is for any number of requests, uploads,
parts, accounts or scenes. None of the invariants that the runs check is
inductive by itself. Each proof finds the reason why the property survives every
step, states it as an inductive invariant, shows that the initial states satisfy
it and that every action keeps it, one step per action and below it one per
conjunct that the action can disturb; each invariant was first checked by TLC on
the runs. Hypotheses of a theorem are stated with it, and described with the
reason why the code needs them.

| module | theorem | says | of |
|---|---|---|---|
| `MultipartProofs` | `TypeCorrect`, `PartUploadsSpareObjects` | `[]TypeOK`, `[]PutPartSparesCommitted` | any clients |
| | `UploadsGoneForGood` | `GoneForGood` | no client of discipline `"free"` |
| | `VersionsKeepData` | `[]NoDangling` | one upload; clients that neither abort nor PUT are `Tame` |
| | `VersionsShareNothing` | `[]NoSharedData` | one upload; clients of versioned buckets are `Tame` |
| | `NothingIsOrphaned` | `[]NoOrphanWhenAllSucceed` | any clients (the property names those that wait) |
| `S3VersionsProofs` | `HistoryIsSound` | `[](OneNullVersion /\ DistinctIds)` | any number of writes |
| `ObjectVersioningProofs` | `TypeCorrect` | `[]TypeOK` | any clients |
| | `HistoryIsS3` | `Implements`, the refinement of `S3Versions` | `Orderly` |
| | `VersionsInOrder`, `VersionsHaveData` | `[]RecordsInOrder`, `[]NoDangling` | `Orderly` |
| | `VersionsNameData` | `[]DataStands` | `Orderly`, no request dies |
| | `VersionsInOrderBeside`, `VersionsHaveDataBeside`, `AcknowledgedVersionsStay`, `OverwrittenStaysGone` | `[]RecordsInOrder`, `[]NoDangling`, `[]AcknowledgedKept`, `[]OverwrittenForGood` | `Interleaved` |
| `BucketLifecycleProofs` | `TypeCorrect` | `[]TypeOK` | any clients |
| | `AcknowledgedBucketStands`, `DeletionsTakeNothing`, `ListingsShowOwners`, `OwnersRevive` | `[]KeptStands`, `[]DeletionTakesNothing`, `[]ListedOnlyWhileOwned`, `OnlyOwnerRevives` | deletions that run alone |
| `ServicesProofs` | `SettingsAlwaysAgree`, `CreatedLockStands`, `LinksAreSound`, `OverlaysAreWhole` | `[]SettingsAgree`, `[]BornLockStands`, `[]LinkIsSound`, `[]OverlayIsWhole` | any scenes |
| | `SettingsAreAsAsked`, `LocksAreAsAsked`, `LockedVersionsAreKept`, `BatchesAnswer` | `[]ConfigIsAsAsked`, `[]LockAsAsked`, `LockedForNow`, `BatchAnswers` | any scenes |
| | `CopiesKeepData`, `RestorationsStand`, `AskingNeverShortens` | `[]CopyDataStands`, `[]RestorationStands`, `AskingAgainExtends` | any scenes |
| | `ReplicasKeepData`, `ChangedObjectsStay` | `[]ReplicaDataStands`, `UnmodifiedOnly` | any scenes |
| | `SitesAreAsConfigured`, `AccessIsEnforced` | `[]SiteIsAsConfigured`, `[]AccessIsAsAsked` | any scenes |
| | `StreamIsAlwaysSigned` | `[]StreamIsSigned` | any cuts of the streams of `StreamingV4` |
| | `ReadsAreAlwaysTrue` | `[]ReadsAreTrue` | any scenes, the `Shapes` of `ObjectRead` |
| | `ListingsAreAlwaysWhole` | `[]ListingsAreWhole` | any scenes, the `Names` and `Uploads` of `Listings` |
| | `BatchesKeepData` | `[]BatchDataStands` | `KeysApart` |
| | `OverlaysGoForward` | `OverlayGoesForward` | `OneWay` |

**Multipart.** `PartUploadsSpareObjects`: the part upload checks
`completeInProgress` without any lock, so this is the place where the code
relies on an order: the part key is written before the flag is read, the flag is
written before the parts are listed. `SpareInv` has one conjunct for each link
of that argument: an upload with requests was initiated (`Initiated`); a
location in a part key, one about to be deleted and one chosen by a complete was
written (`KeysWritten`, `OldWritten`, `ChosenWritten`); a replaced location is
in no part key any more (`OldReplaced`); once a complete has listed the parts
the overview is not `open` again (`ListedNotOpen`); what a version holds a
complete has chosen (`VersionsChosen`); what a part upload is about to delete
none has chosen (`OldNotChosen`).

`UploadsGoneForGood` needs clients that do not end an upload while it is being
ended: a complete that validated the upload marks it, which puts the overview
back, and neither looks again. Under that hypothesis one request at a time ends
an upload (`EndsAlone`), and what it validated is there when it marks it
(`MarkExists`); the other requests, retries after an answer and deaths are
unrestricted. `VersionsKeepData` and `VersionsShareNothing` are about the retry
of a complete, which the code recognises by comparing the parts with the current
version (`completeMultipartUpload.js:433`). That comparison is by location, so
it works as long as the list is the whole list and nobody puts another version
in between: `Tame` clients. `HeldInv` carries the argument: what a complete
compares with is the current version until it writes (`SnapIsCurrent`), a
location that has been read in a version is in no part key again (`SnapWritten`,
`PickedIsNew`), so a complete either finds itself done or commits new data,
deletes only what is nobody's (`DroppedIsOld`), and what a part, a version or a
request still needs is there (`NeededHeld`). Requests die and are sent again at
any point. The findings and the violation runs show what the clients left out
can do.

`NothingIsOrphaned` is the converse: what is stored is also referred to, as long
as every request has succeeded. That condition speaks of everything that ever
happened, but a request that failed stays so (`pc` does not leave `failed`), so
`Calm` can say it of the present state, and where it holds it held in every
state before. `CalmInv` says of calm states that one request runs (`Solo`), that
what is stored is what a version, a part that is not being wiped or that request
accounts for (`Balanced`), that a location is a version's and a part's only
between the two writes of a complete (`Apart`), that the flag of an upload is up
only while its complete runs (`FlagIsLive`), and of the request that runs what
it has read and listed, which is still so, and what it will delete, which is
nobody's (`Keeps`). The step lemmas state this around one request
(`Around`), so that no step reasons about the others. TLC checked `CalmInv` on
2.6 million states of two further instances before the proof.

**Versions of an object.** `Orderly` says that clients wait for each answer, and
that, where requests may die, the metadata engine lets a version overwrite an
unversioned master (`Follows`); it may leave it, and then a request that died
between the copy it stored and its write leaves two. `OrderInv` is the inductive
invariant: the keys are in order (`KeyInv`: a version is filed under its
identifier, a null version stored apart has the old form, the master is the
newest, it refers to the null version whenever there is one elsewhere, no two
versions share data), one request runs (`Solo`) with the status the bucket has
(`Current`), and at each of its calls what its plan read is still so
(`Labelled`, `Ready`). That is enough for `RecordsInOrder`. The refinement
`HistoryIsS3` is proved from it step by step: the version set shown to clients
(`Shown`) is left alone by every call but the one that writes the master
(`ReplaceShows`), the deletion of a version and the deletion of a null version
that the next write replaces, each of which is one step of `S3Versions`. With
`HistoryIsSound` the claims of `docs/ARCHITECTURE.rst` on null versions are
thereby proved of the handlers. `DataInv` adds data to it: what a running
request wrote or is about to write is stored (`Backed`), and what it will delete
no version names (`Dooms`); unless requests die, stored data is named by a
version or owed by the request that runs (`NothingLost`). The greatest
identifier of a set of versions exists by the library's theorems on finite sets
and well-founded orders.

**Requests on one object beside one another.** `Interleaved` lets any number of
PUTs, DELETEs and deletions of a version overlap and die anywhere, while the
status stays what it is as long as one of them runs, over an engine that lets a
version overwrite an unversioned master. Deletions of version `null` and edits
are not among them: the violation runs show what those do. A record that such a
request has read may be long replaced when the request acts on it, so
`BesideInv` says what remains true of it (`Knows`): each version that is still
there under its identifier, data or null reference is the same version. While
versioning is enabled the null version, if there is one, is no newer than any
record in hand, and it has a key of its own by the time the master that carries
it goes (`KeepsNull`); while it is suspended, a null version with a key of its
own is the one that every running write found, and is on its way to be deleted
before the write (`ReplacesNull`). The proof has one argument for all steps: a
call keeps each record that is there, or adds the record of its request, or is a
copy of the null version, or removes what it was told to (`RecordsKept`,
`WriteShows`), and whatever other requests know survives that (`KnowsStill`,
`KeepsStill`, `ReplacesStill`). `AckedKept` and `OverwrittenGone` extend the two
properties to the calls before the answer.

**A bucket.** `Discipline = "deletesAlone"` lets any number of requests run, die
and be finished in the background by others, but no request beside a deletion:
the violation runs show that the handlers promise nothing otherwise
(`bucketDeletion.js` looks whether the bucket is empty and deletes it four calls
later). `LoneInv` says of the requests that create or mend a bucket
(`MendSound`), write into it (`WriteSound`) or remove it (`RemoveSound`,
`BackSound`) what they have made sure of at each call. Most of the proof is
about dead requests: a record with a mark is picked up by whoever comes next,
and the invariant shows that it carries what they need.

**Settings.** The handlers take no lock and write back whole records read long
before, so that the settings agree rests on each handler judging the record it
will write and not the one it will replace. `ConfigInv` says so: the stored
record is sound (`Sound`), and so is the record that any request is about to
write (`Carried`), over the shape that updates need (`Shape`).
`ConfigurationProofs` has a lemma for each kind of change to a sound record, and
then one step per handler. `AskedInv` is about requests that wait for one
another: the record that the one that runs carries is what will have been asked
once it is written (`CarriesAsked`), so that no handler drops what another set,
and the KMS holds the key of the record that is there or that is about to be
written (`KeysKnown`). A request that dies between the creation of the key and
the record leaves a key that no record names: `NoStrayKey` is about scenes
without deaths, `AnswersAreLatest` about all.

**Locks** (`ConfigurationProofs`). Between judging and writing, other requests may
lengthen the lock and time may pass, and what is written was judged against an
old record. `LockInv` says why the lock the version was born with survives:
while it is in force, the stored version and every record that a pending request
has read hold at least that lock, and what a request was allowed to write keeps
it (`Guarded`), over what pending requests carry (`Carrying`) and the shape of
records (`LockShape`). `LoneLock` adds, for a request that runs alone, that it
has read what it will replace, that the version carries what was acknowledged,
and that a deletion that was judged may still be done: a version that is not
locked does not become so as time passes.

**Batches of deletions** (`ObjectProofs`). The data of a batch is deleted after
all its entries, long after their records were read. It is safe because data
belongs to one key: `RecordsOwn` says that a record has its data and shares it
with no other key's record, `InHands` that what a PUT has read or a batch has
opened can only be named by that key, and that what is doomed no record names,
nor will. `Exact` is the converse for requests that wait for one another: what
is stored is what the records name and what the one that runs has in hand.
`AnswerInv` is about the answers. An entry that was asked for is to be read,
open, deleted or refused, and one of these (`Account`); an open entry is not of
a locked version and does not become so, because locks come with versions and a
PUT beside the batch replaces unversioned records only (`LocksVersioned`,
`Answering`); and what a lone batch calls deleted is gone or hidden. It needs no
hypothesis on keys, but `BatchesKeepData` does:
`KeysApart` excludes a batch in which one key is another followed by
`undefined`: the read-ahead files a record under the key and the version, and
the lookup asks for the key alone (`metadataUtils.js:72`, `:119`), so that the
batch would take one object for the other.

**Copies** (`ObjectProofs`). A copy deletes the data of the version it replaced,
which it read as its first call, before it read the source. That this is still
nobody's when it goes is `HeldIsLeft`: what a request may delete later
(`MayDelete`) is named by one record at most, the one which that request
replaces or removes before it deletes (`LeftAt`). So interleaved copies to one
key may all hold the same old version, and the first to write takes it from the
others. A copy's own data is nobody's before it writes (`FreshUntilWritten`),
what it writes is there, and is its own or taken over from the record it
replaces (`CopyInHand`), and records have data of their own (`CopiesOwn`). For
lone copies between keys, `ReadIsCurrent` says that what was read is what will
be replaced, and `NoCopyLost` that data without a record is on its way to one,
or away. A copy that dies between its data and its record leaves the data: that
part of the property is about scenes without deaths.

**Restorations** (`ObjectProofs`). `objectRestore` and the put of restored data
write back a whole record read earlier. `ColdInv` says what they carry
(`ColdCarries`), that it is of a version that still exists with the same data
when requests wait for one another (`WrittenBack`), or that nothing is taken
away (`RestoredStays`), and that data without a record is on its way
(`NoneForgotten`). The dates of a record always agree (`ColdVersion`), also in
the hands of a request. `AskingAgainExtends` compares two ways to count days, of
the configured length at the restoration, of the calendar when it is asked for
again. `ColdStay` is the reason why the second never falls short: a restoration
ends no later than its days, of the calendar, from now.

**Replication** (`ObjectProofs`). A task reads the record, stores data and writes
the record, in requests of its own; what the record named is deleted after. Data
that a task stored is its own until its record names it: nobody else may name it
or take it away (`Untold`), so an interleaved clean-up or deletion cannot reach
it. `ReplicaKept` has what a task is about to write (`Brings`): locations that
are there, its own or, when it runs alone, those of the record; and that what
is about to be deleted is not named. A task that writes back locations it read
may violate this beside others, which is why `ReplicaHasData` excludes them
(`WritesBackStale`). For the absence of data that no record names, `KnowsRecord`
says that the record found is still the one replaced, and that the locations of
a record come and go together unless a move replaces some: then those that the
test of `locationKeysHaveChanged` leaves behind are among the retired ones
(`ReplicaClean`). `SawUnmodified` is the reason for `UnmodifiedOnly`: the
change counter of an object never goes back, so one that is no later than what
was seen is the same.

**Management** (`ConfigurationProofs`). `LinkInv` relates the stage of the
registration, the socket and its two timers: before the listeners are started
there is no socket and no token in use; after, there is one socket or one retry,
and an open socket has one timer. `OverlayInv` says that what is about to be
named is stored (`InHand`). `IsWhole` is what `LiveIsWhole` says, of any
configuration: it holds of what comes from the files (`FreshIsWhole`), of an
overlay applied as a whole (`PatchedIsWhole`), and of one left half-way, because
`setLocationConstraints` has looked at the old endpoints beforehand. For `OverlaysGoForward`, `ForwardInv` says that a
request that runs alone applies nothing older than what is live (`Newer`), and
of a poll what it has in hand at each call (`PollInHand`). `OneWay` excludes a
server that both polls and is pushed to; `management/index.js:51-59` starts one
or the other.

**Websites** (`ConfigurationProofs`). `SiteInv` says of each request what it has
found at its call: no rule applies to the key it goes on with (`Searched`), its status
and redirection are those of the first rule for the key and the error
(`AnswerSound`), some CORS rule lets its origin and method through
(`PreflightSound`). `FindRoutingRule` selects the least position whose rule
applies; that such a position exists is `EarliestIs`, from the library's theorem
that the natural numbers are well-founded (`FindsFirst`, `FindsCorsRule`). GET and HEAD are
compared through `Outcome`, what either answers while nothing changes:
they differ in the key they look the first rule up by, and `SameRule` shows that
this matters only for a rule on the index document.

**Recursive functions.** The loops over lists (the statements of a policy, the
grants of a request, the locations of an object) are recursive functions in the
modules. The induction theorems of the library cannot be used here, as they are
about an arbitrary operator, so the proofs reason with sets: a set of numbers
has a least one (`LeastNumber`, from the library's theorem that the natural
numbers are well-founded), hence one that holds 0, and with each number below
`n` the next, holds all up to `n` (`StepByStep`), and a function with the
recursion's equations exists (`Recursion`). The lemmas on such loops hold for
lists of any length.

**Access control** (`BoundaryProofs`). `AccessInv` says that stored lists, and
those that a request is about to store, fit their kind of resource and are what
was wanted, and that what a request was told belongs to the record it read.
`RecordFits` admits an object without a list. `BucketEnforces` and
`ObjectEnforces` say of a bucket and of an object what the checks of services,
whitelist and lists come to.
`ToldIsEnforced` then compares two translations of a list, into the grants that
GET tells and into the decision; `ListedCovers` and `CoveredIs` relate each to
the grantees listed. `PolicySteps` and `DenyDecides` are about the loop of
`checkBucketPolicy`: once a statement has denied, no later one allows.
`AclAskedInv` is about requests that wait: the list that is to be stored is what
was asked, whatever order the client wrote it in (`GranteesListed`,
`SortedLists`). `UnchangedSaysSame` says that `isAclUnchanged`, which compares
lengths and looks up the grantees of one list in the other, is right for lists
that name nobody twice: as many names, each found in the other list, are all its
names. Lists and policies have any length in the lemmas; in the behaviours,
those of `Bodies` and `AccessInit`. A first attempt at the proof failed for an
anonymous owner, whom the model told as the group of all users and the code by
identifier (`objectGetACL.js:115`); the model was corrected.

**Signed streams** (`ObjectProofs`). `V4Inv` is about any stream: what was
passed is the data of as many chunks as were found authentic (`PassedUpTo`).
`AsSignedInv` is about a stream that is as the client signed it: what the parser
holds, the piece at hand and what is yet to come are consecutive stretches of
that stream, which of them being told by the phase (`AwaitsHeader`,
`AwaitsData`, ...), and no phase has an error. `CutStretch` says that cutting a
stretch anywhere gives two stretches, which is all that the steps need; so every
way to deliver the stream in pieces is covered. The chunks themselves are those
of `Sizes`.

**Reads** (`BoundaryProofs`). A record is `WellLaid` if its locations follow one
another from byte 0, uncut, with parts that ascend; writers store such records
(`LocationsAreLaid`, for any sizes and parts). `Spans(locs, p, b, e)` says that
what is read of `locs` are the bytes of object `p` from `b` to before `e`, in
order. `RangeIsKept` is the loop of `setPartRanges`: with `Gathers` for its
invariant (`AddLocationGathers` has the cases, among them a range that begins
and ends in one location), the locations it leaves span the range, for any range
and any number and sizes of locations. `PartIsStretch` does the same for a part
number. `ReadInv` then says of a read that what was returned are the bytes up to
some byte and what is left spans the others (`ReadsUpTo`), of the record that
was read: an overwrite takes data away, so that the read may fail, but not
return other bytes. HEAD agrees with GET because HEAD adds up the sizes of the
same stretch (`HeadIsPart`; part numbers without gaps are counted).

**Listings** (`BoundaryProofs`). A page is a recursive function as well: at each
step, the first of the rows that are left (`PutNext`). `FirstRowsPaged` says for
any set of rows of a listing and any size what it is: rows in their order, none
of them missing before the last. `ListingInv` then has two halves. Backwards:
what was told so far is in order, and a version is said to be the latest if it
is the first told of its key (`TellsInOrder`), over all pages, since the key of
the marker is what a page compares its first version with. Forwards: every entry
that was there all the while was told, itself or in its prefix, or comes after
the marker that the client holds (`ListsOn`). `MarkerIs` is why: the marker that
is read back, through whichever encoding of its name and version, is the
position of the last row told; the exceptions are a prefix, after which nothing
below it is to be told, and the null version, whose marker stands for the end of
its key because nothing is older (`FollowsLast`). `ListedChanges` says that a
change to the bucket takes away only what `lapsed` then holds. What goes on from
the marker comes after what was told (`ListingGoesOn`), so the next page keeps
the order (`TellsMore`), and one that is not truncated leaves nothing untold
(`TellPageKeeps`). When nothing changes, the first version told of a key is the
newest, as all of its versions were told (`LatestIsIt`).

What is proved of a component's handlers holds of `Services`.
`OneComponentSteps` is the link: a step of `Next` is a step of the scene's
component and leaves the scene, so an invariant `In(c) => Inv` of the whole
needs only the steps of `c`.

**Assumptions on constants.** That `None` is none of the values it stands in for
the absence of (`ConstantsAssumption` of `Multipart`, `VersioningAssumption`,
`BucketAssumption`, `NoneAssumption`, `LockNoneAssumption`, `BatchAssumption`,
`AccessAssumption`, `ReadAssumption`, `ListingAssumption`, `SiteAssumption`,
`CopyAssumption`, `ColdAssumption`, `BackbeatAssumption`; the last three and `BatchAssumption`
also have requests' names differ from those of keys, versions, the cold location
and the locations that a version had, since all of them name data); that
requests are finitely many, in `VersioningAssumption` and `BucketAssumption`;
that the alternatives are among those the code has; the shape of a scene
(`ScenesAssumption`) and `MaxTimeAssumption`. `S3Versions` needs none. TLC
evaluates them in the runs.

**Only model-checked.** Liveness (`CompletionRemovesUpload`), since the provers
handle neither fairness nor `ENABLED`. Every invariant and every action property
of a passing run is also a theorem. The provers cannot unfold the library's
`SelectSeq`, `FoldLeft` and `SetToSortSeq`, whose definitions are recursive with
an operator for a parameter; the loops of `AccessControl`, `ObjectRead` and
`Listings` are recursive functions for that reason.

## Plan

Theorems next: deletions of version `null` beside one another in
`ObjectVersioning`; signed streams of any chunks; listings of any names.

Models next: object lock, copies and edits of a named version in
`ObjectVersioning` itself, so that locks and history meet; the data keys of the
KMS backends; the listing of a user's buckets.

## Hazards without a property of their own

Besides those of `PROJECT.json`, these were met while translating the code. They
are local (a reader sees them in the lines given, once told), or lie where the
models promise nothing.

* Requests: `objectPutPart.js:316` (two uploads of one part both find the same
  old part), `services.js:834` (two first uploads create the shadow bucket),
  `bucketDeletion.js:62` (an object stored between the listing that finds the
  bucket empty and its deletion goes with it) and `:143`, `bucketCreation.js:93`,
  `bucketPutACL.js:285`, `objectPut.js:138`, `versioning.js:213` and `:375`,
  `createAndStoreObject.js:33`.
* Edits: `objectPutRetention.js:134`, `objectPutLegalHold.js:103`,
  `objectRestore.js:120` and `routeBackbeat.js:562` write back what they read,
  over what was set or moved in between; `createAndStoreObject.js:269` drops
  locks, ACL and tags from a restored version.
* Answers: `routeBackbeat.js:1040` may answer twice; `bucketPutACL.js:190` and
  `objectPutACL.js:209` may call `next` twice; `bucketDeleteTagging.js:31` and
  `multiObjectDelete.js:363` throw where they should answer an error;
  `tagConditionKeys.js:48` looks for `err.NoSuchKey`, and `objectCopy.js:132`
  returns another error than the one it met.
* Batches: the read-ahead cache is filled under one key and read under another
  (`metadataUtils.js:72`, `:119`); `multiObjectDelete.js:520` has two arguments
  in each other's place.
* Copies: `objectCopy.js:395` never sets the encryption's algorithm, and `:525`
  leaves the data of a record it replaced by itself.
* Sites: `websiteGet.js:135` and `websiteHead.js:97` look for the rule of
  different keys; a rule without a condition ends the process
  (`websiteServing.js:26`); `bucketCors.js:266` drops a MaxAgeSeconds of 0;
  `corsResponse.js:17` lets the two ends of a wildcard overlap.
* Lists: `acl.js:32` takes lists with a grantee named twice for unchanged.
* Management: `configuration.js:44`, `:72`, `:117`, `:220`, `poll.js:43` and `:48`,
  `managementAgent.js:157`, `index.js:100`, `push.js:190` and `:208`.
* Reads: part numbers with gaps (`partInfo.js:28`); `bucketGet.js:118` echoes the
  version-id-marker as it decoded it, only the next one is encoded; KeyCount
  counts no common prefixes; `services.js:24` lists one page of buckets.
* Dates: `coldStorage.js:148` scales days and `versioning.js:464` does not.

## What is not modelled

The table of components gives each part left out; the reasons are of three
kinds. Parts without state or decisions of their own (wrappers, routes that
proxy, start-up, metering, command-line tools) have nothing to check. The
backends and services the server calls (metadata engine, data backends, vault,
KMS, redis, replication and lifecycle services) are not in this repository and
appear as atomic calls with the answers the handlers expect. Data that no
property distinguishes (names, ETags, sizes, headers, XML, log lines) is left
out everywhere.

Of the components that are modelled: metadata search is modelled as version 1
of the listing, without its version 2 and its listing of versions
(`metadataSearch.js:96-121`) and without the queries it refuses. The uploads
and the taggings that the replication service asks for (`Backbeat`) are actions
beside which the properties of the others must hold; they have no property of
their own.
