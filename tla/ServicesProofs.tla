---------------------------- MODULE ServicesProofs ----------------------------
(***************************************************************************)
(* What is proved of one component holds of the whole: a behaviour keeps   *)
(* its scene, and in a scene only its component's handlers step.           *)
(***************************************************************************)
EXTENDS Services, ConfigurationProofs, ObjectProofs, BoundaryProofs

-----------------------------------------------------------------------------
(* All components *)

\* Every step is a step of one component's handlers, and keeps the scene.
LEMMA OneComponentSteps ==
    ASSUME Next
    PROVE  /\ ConfigNext \/ ~In("config")
           /\ LockNext \/ ~In("lock")
           /\ BatchNext \/ ~In("batch")
           /\ OverlayNext \/ ~In("overlay")
           /\ LinkNext \/ ~In("link")
           /\ CopyNext \/ ~In("copy")
           /\ ColdNext \/ ~In("cold")
           /\ BackbeatNext \/ ~In("backbeat")
           /\ SiteNext \/ ~In("site")
           /\ AccessNext \/ ~In("access")
           /\ V4Next \/ ~In("v4")
           /\ ReadNext \/ ~In("read")
           /\ ListingNext \/ ~In("listing")
           /\ UNCHANGED scene
  <1>1. CASE ConfigNext
    BY <1>1 DEF ConfigNext, In
  <1>2. CASE LockNext
    BY <1>2 DEF LockNext, In
  <1>3. CASE BatchNext
    BY <1>3 DEF BatchNext, In
  <1>4. CASE OverlayNext
    BY <1>4 DEF OverlayNext, In
  <1>5. CASE LinkNext
    BY <1>5 DEF LinkNext, In
  <1>6. CASE CopyNext
    BY <1>6 DEF CopyNext, In
  <1>7. CASE ColdNext
    BY <1>7 DEF ColdNext, In
  <1>8. CASE BackbeatNext
    BY <1>8 DEF BackbeatNext, In
  <1>9. CASE V4Next \/ ReadNext \/ AccessNext \/ ListingNext
    BY <1>9 DEF In, V4Next, ReadNext, AccessNext, ListingNext
  <1>10. CASE SiteNext
    BY <1>10 DEF SiteNext, In
  <1> QED  BY <1>1, <1>2, <1>3, <1>4, <1>5, <1>6, <1>7, <1>8, <1>9, <1>10 DEF Next

\* A behaviour starts as its component does.
LEMMA OneComponentStarts ==
    ASSUME Init
    PROVE  /\ In("config") => ConfigInit
           /\ In("lock") => LockInit
           /\ In("batch") => BatchInit
           /\ In("overlay") => OverlayInit
           /\ In("link") => LinkInit
           /\ In("copy") => CopyInit
           /\ In("cold") => ColdInit
           /\ In("backbeat") => BackbeatInit
           /\ In("site") => SiteInit
           /\ In("access") => AccessInit
           /\ In("v4") => V4Init
           /\ In("read") => ReadInit
           /\ In("listing") => ListingInit
           /\ scene \in Scenes
  BY DEF Init, In, ConfigInit, LockInit, BatchInit, CopyInit, BackbeatInit, ColdInit,
         OverlayInit, LinkInit, V4Init, ReadInit, AccessInit, SiteInit, ListingInit

\* In every scene of the handlers, with any requests, interleaved and dying, the
\* settings of a bucket's record agree: object lock and ingestion keep versioning
\* enabled, replication needs it (bucketPutVersioning.js, bucketPutObjectLock.js,
\* bucketPutReplication.js).
THEOREM SettingsAlwaysAgree == Spec => []SettingsAgree
  <1> DEFINE Inv == In("config") => ConfigInv
  <1>1. Init => Inv
    BY OneComponentStarts, ConfigInitially
  <1>2. Inv /\ [Next]_vars => Inv'
    <2> SUFFICES ASSUME Inv, [Next]_vars, In("config")'  PROVE  ConfigInv'
      OBVIOUS
    <2>1. In("config")
      BY OneComponentSteps DEF In, vars
    <2>2. [ConfigNext]_vars
      BY <2>1, OneComponentSteps
    <2> QED  BY <2>1, <2>2, ConfigSteps
  <1>3. Inv => SettingsAgree
    BY DEF ConfigInv, Sound, SettingsAgree
  <1> QED  BY <1>1, <1>2, <1>3, PTL DEF Spec

\* When clients wait for each answer, reading a setting back gives what the latest
\* acknowledged request asked for, although each handler writes back all settings,
\* and the KMS holds no key but the bucket's (metadataUtils.js, bucketEncryption.js,
\* and the handlers bucketPut*.js and bucketDelete*.js).
THEOREM SettingsAreAsAsked == Spec => []ConfigIsAsAsked
  <1> DEFINE Inv == In("config") => ConfigInv /\ AskedInv
  <1>1. Init => Inv
    BY OneComponentStarts, ConfigInitially, AskedInitially
  <1>2. Inv /\ [Next]_vars => Inv'
    <2> SUFFICES ASSUME Inv, [Next]_vars, In("config")'  PROVE  ConfigInv' /\ AskedInv'
      OBVIOUS
    <2>1. In("config")
      BY OneComponentSteps DEF In, vars
    <2>2. [ConfigNext]_vars
      BY <2>1, OneComponentSteps
    <2> QED  BY <2>1, <2>2, ConfigSteps, AskedSteps
  <1>3. Inv => ConfigIsAsAsked
    BY AskedIsThere DEF ConfigIsAsAsked, AnswersAreLatest, NoStrayKey
  <1> QED  BY <1>1, <1>2, <1>3, PTL DEF Spec

\* A version that was created under a COMPLIANCE lock keeps at least that lock,
\* and is not deleted, until its date has come: whoever asks, with whatever
\* bypass, in whatever order the requests read, judge and write back
\* (objectLockHelpers.js, objectPutRetention.js, objectPutLegalHold.js, objectDelete.js).
THEOREM CreatedLockStands == Spec => []BornLockStands
  <1> DEFINE Inv == In("lock") => LockInv
  <1>1. Init => Inv
    BY OneComponentStarts, LockInitially
  <1>2. Inv /\ [Next]_vars => Inv'
    <2> SUFFICES ASSUME Inv, [Next]_vars, In("lock")'  PROVE  LockInv'
      OBVIOUS
    <2>1. In("lock")
      BY OneComponentSteps DEF In, vars
    <2>2. [LockNext]_vars
      BY <2>1, OneComponentSteps
    <2> QED  BY <2>1, <2>2, LockSteps
  <1>3. Inv => BornLockStands
    BY LockInvEnough DEF BornLockStands
  <1> QED  BY <1>1, <1>2, <1>3, PTL DEF Spec

\* However batches of deletions interleave with one another and with PUTs,
\* whatever fails or dies, a record that stands has its data; and requests that
\* wait for one another leave no data that no record names.  No key of a batch is
\* another one followed by what the read-ahead puts behind it, where the batch
\* takes one record for the other (multiObjectDelete.js, createAndStoreObject.js).
THEOREM BatchesKeepData == ASSUME KeysApart PROVE Spec => []BatchDataStands
  <1> DEFINE Inv == scene \in Scenes /\ (In("batch") => BatchInv)
  <1>1. Init => Inv
    BY OneComponentStarts, BatchInitially
  <1>2. Inv /\ [Next]_vars => Inv'
    <2> SUFFICES ASSUME Inv, [Next]_vars
                 PROVE  scene' \in Scenes /\ (In("batch")' => BatchInv')
      OBVIOUS
    <2>1. scene' = scene
      BY OneComponentSteps DEF vars
    <2>2. ASSUME In("batch")'  PROVE  BatchInv'
      <3>1. In("batch")
        BY <2>1, <2>2 DEF In
      <3>2. [BatchNext]_vars
        BY <3>1, OneComponentSteps
      <3> QED  BY <3>1, <3>2, BatchSteps
    <2> QED  BY <2>1, <2>2
  <1>3. Inv => BatchDataStands
    BY BatchInvEnough DEF BatchDataStands, BatchKeepsData, BatchLeavesNoData
  <1> QED  BY <1>1, <1>2, <1>3, PTL DEF Spec

\* The agent has one socket at most, watched by one timer, with the token that is
\* saved; and a channel that was not asked for carries nothing
\* (management/index.js, agentClient.js, push.js, credentials.js).
THEOREM LinksAreSound == Spec => []LinkIsSound
  <1> DEFINE Inv == In("link") => LinkInv
  <1>1. Init => Inv
    BY OneComponentStarts, LinkInitially
  <1>2. Inv /\ [Next]_vars => Inv'
    <2> SUFFICES ASSUME Inv, [Next]_vars, In("link")'  PROVE  LinkInv'
      OBVIOUS
    <2>1. In("link")
      BY OneComponentSteps DEF In, vars
    <2>2. [LinkNext]_vars
      BY <2>1, OneComponentSteps
    <2> QED  BY <2>1, <2>2, LinkSteps
  <1>3. Inv => LinkIsSound
    BY LinkInvEnough
       DEF LinkIsSound, OneConnection, ConnectionIsWatched, SavedTokenIsUsed, NoAccessNoChannel
  <1> QED  BY <1>1, <1>2, <1>3, PTL DEF Spec

\* Whatever dies between two calls, and however overlays arrive, the overlay that
\* is named the latest is saved, every endpoint that is live leads to a location,
\* and the live endpoints are those of the overlay whose version is live.  Accounts
\* and locations are of one overlay, the same one unless setRestEndpoints threw
\* half-way, which it does only for an overlay with an endpoint, or with
\* replicatorEndpoint to us-east-1, whose location is not there
\* (management/configuration.js, poll.js, push.js, Config.js).
THEOREM OverlaysAreWhole == Spec => []OverlayIsWhole
  <1> DEFINE Inv == In("overlay") => OverlayInv
  <1>1. Init => Inv
    BY OneComponentStarts, OverlayInitially
  <1>2. Inv /\ [Next]_vars => Inv'
    <2> SUFFICES ASSUME Inv, [Next]_vars, In("overlay")'  PROVE  OverlayInv'
      OBVIOUS
    <2>1. In("overlay")
      BY OneComponentSteps DEF In, vars
    <2>2. [OverlayNext]_vars
      BY <2>1, OneComponentSteps
    <2> QED  BY <2>1, <2>2, OverlaySteps
  <1>3. Inv => OverlayIsWhole
    BY OverlayInvEnough DEF OverlayIsWhole, LatestIsThere, LiveIsWhole
  <1> QED  BY <1>1, <1>2, <1>3, PTL DEF Spec

\* A server that handles overlays one at a time, and gets them in one way, polls
\* or pushes, never goes back to an older one; one that polls saves none over a
\* newer one, and a poll that ends well leaves it with what it would load after a
\* restart (management/configuration.js, poll.js).
THEOREM OverlaysGoForward == ASSUME OneWay PROVE Spec => OverlayGoesForward
  <1> DEFINE Inv == scene \in Scenes /\ (In("overlay") => ForwardInv)
  <1>1. Init => Inv
    BY OneComponentStarts, ForwardInitially
  <1>2. Inv /\ [Next]_vars => Inv'
    <2> SUFFICES ASSUME Inv, [Next]_vars
                 PROVE  scene' \in Scenes /\ (In("overlay")' => ForwardInv')
      OBVIOUS
    <2>1. scene' = scene
      BY OneComponentSteps DEF vars
    <2>2. ASSUME In("overlay")'  PROVE  ForwardInv'
      <3>1. In("overlay")
        BY <2>1, <2>2 DEF In
      <3>2. [OverlayNext]_vars
        BY <3>1, OneComponentSteps
      <3> QED  BY <3>1, <3>2, ForwardSteps
    <2> QED  BY <2>1, <2>2
  <1>3. ASSUME Inv, [Next]_vars
        PROVE  [/\ In("overlay") /\ scene.sequential =>
                     live'.version >= live.version \/ live' = Fresh
                /\ In("overlay") /\ "poll" \in scene.ops /\ scene.sequential =>
                     /\ db'.latest >= db.latest
                     /\ \A r \in Reqs : Running(r) /\ pc'[r] = "ok" =>
                            live'.version = db'.latest]_vars
    BY <1>3, OneComponentSteps, LiveForward, SavedForward, PolledIsSaved
  <1> QED  BY <1>1, <1>2, <1>3, PTL
           DEF Spec, OverlayGoesForward, LiveGoesForward, SavedGoesForward, PolledRunsTheSaved

\* However copies between keys interleave with one another and with deletions, and
\* die, and whatever copies on themselves do one at a time, every version names
\* data that is there and that no other version names; and copies between keys,
\* one at a time, leave none behind (objectCopy.js, versioning.js,
\* createAndStoreObject.js, services.js).
THEOREM CopiesKeepData == Spec => []CopyDataStands
  <1> DEFINE Inv == In("copy") => CopyInv
  <1>1. Init => Inv
    BY OneComponentStarts, CopyInitially
  <1>2. Inv /\ [Next]_vars => Inv'
    <2> SUFFICES ASSUME Inv, [Next]_vars, In("copy")'  PROVE  CopyInv'
      OBVIOUS
    <2>1. In("copy")
      BY OneComponentSteps DEF In, vars
    <2>2. [CopyNext]_vars
      BY <2>1, OneComponentSteps
    <2> QED  BY <2>1, <2>2, CopySteps
  <1>3. Inv => CopyDataStands
    BY CopyInvEnough DEF CopyDataStands, CopyOwnsData, CopyLeavesNoData
  <1> QED  BY <1>1, <1>2, <1>3, PTL DEF Spec

\* An archived version that clients ask for, that the restore service puts back and
\* that the lifecycle service or a client takes away: a record that may be read
\* names data that is there, the dates agree, and no restored data is forgotten
\* (coldStorage.js, objectRestore.js, objectPut.js, objectDelete.js).
THEOREM RestorationsStand == Spec => []RestorationStands
  <1> DEFINE Inv == In("cold") => ColdInv
  <1>1. Init => Inv
    BY OneComponentStarts, ColdInitially
  <1>2. Inv /\ [Next]_vars => Inv'
    <2> SUFFICES ASSUME Inv, [Next]_vars, In("cold")'  PROVE  ColdInv'
      OBVIOUS
    <2>1. In("cold")
      BY OneComponentSteps DEF In, vars
    <2>2. [ColdNext]_vars
      BY <2>1, OneComponentSteps
    <2> QED  BY <2>1, <2>2, ColdSteps
  <1>3. Inv => RestorationStands
    BY ColdInvEnough
       DEF RestorationStands, ColdTypeOK, RestoredHasData, RestoredIsNamed, RestoreRemembered
  <1> QED  BY <1>1, <1>2, <1>3, PTL DEF Spec

\* A client that asks for a restored version again, for no fewer days, never brings
\* the end of the restoration forward, however short the configured day is
\* (coldStorage.js, objectRestore.js).
THEOREM AskingNeverShortens == Spec => AskingAgainExtends
  <1> DEFINE Inv == In("cold") => ColdInv /\ ColdStay
  <1>1. Init => Inv
    BY OneComponentStarts, ColdInitially, ColdStayInitially
  <1>2. Inv /\ [Next]_vars => Inv'
    <2> SUFFICES ASSUME Inv, [Next]_vars, In("cold")'  PROVE  ColdInv' /\ ColdStay'
      OBVIOUS
    <2>1. In("cold")
      BY OneComponentSteps DEF In, vars
    <2>2. [ColdNext]_vars
      BY <2>1, OneComponentSteps
    <2> QED  BY <2>1, <2>2, ColdSteps, ColdStaySteps
  <1>3. ASSUME Inv, [Next]_vars
        PROVE  [\A r \in Reqs :
                    /\ In("cold") /\ scene.sequential
                    /\ pc[r] = "putRestoreInfo" /\ pc'[r] = "ok"
                    /\ IsRestored(ctx[r].read) /\ ctx[r].record.days >= ctx[r].read.days
                    => store'.version.willExpireAt >= store.version.willExpireAt]_vars
    <2> SUFFICES ASSUME NEW r \in Reqs, In("cold"), scene.sequential,
                        pc[r] = "putRestoreInfo", pc'[r] = "ok", IsRestored(ctx[r].read),
                        ctx[r].record.days >= ctx[r].read.days
                 PROVE  store'.version.willExpireAt >= store.version.willExpireAt
      OBVIOUS
    <2>1. [ColdNext]_vars
      BY <1>3, OneComponentSteps
    <2> QED  BY <1>3, <2>1, ColdStaysAsAsked
  <1> QED  BY <1>1, <1>2, <1>3, PTL DEF Spec, AskingAgainExtends

\* However the tasks of the replication and lifecycle services interleave with
\* expirations and clean-ups and die, a record names data that is there, unless
\* tasks write back what they read before others wrote; and tasks whose requests
\* wait for one another keep no data but what the record names
\* (routeBackbeat.js, locationKeysHaveChanged.js).
THEOREM ReplicasKeepData == Spec => []ReplicaDataStands
  <1> DEFINE Inv == In("backbeat") => BackbeatInv /\ SawUnmodified
  <1>1. Init => Inv
    BY OneComponentStarts, BackbeatInitially
  <1>2. Inv /\ [Next]_vars => Inv'
    <2> SUFFICES ASSUME Inv, [Next]_vars, In("backbeat")'
                 PROVE  BackbeatInv' /\ SawUnmodified'
      OBVIOUS
    <2>1. In("backbeat")
      BY OneComponentSteps DEF In, vars
    <2>2. [BackbeatNext]_vars
      BY <2>1, OneComponentSteps
    <2> QED  BY <2>1, <2>2, BackbeatSteps
  <1>3. Inv => ReplicaDataStands
    BY BackbeatInvEnough DEF ReplicaDataStands, ReplicaHasData, ReplicaLeavesNoData
  <1> QED  BY <1>1, <1>2, <1>3, PTL DEF Spec

\* A conditional deletion takes or marks no object that was changed since the
\* lifecycle service saw it: on azure, which compares and deletes in one step,
\* whatever runs beside it; elsewhere, where the date is asked for first, when the
\* tasks wait for one another (routeBackbeat.js).
THEOREM ChangedObjectsStay == Spec => UnmodifiedOnly
  <1> DEFINE Inv == In("backbeat") => BackbeatInv /\ SawUnmodified
  <1>1. Init => Inv
    BY OneComponentStarts, BackbeatInitially
  <1>2. Inv /\ [Next]_vars => Inv'
    <2> SUFFICES ASSUME Inv, [Next]_vars, In("backbeat")'
                 PROVE  BackbeatInv' /\ SawUnmodified'
      OBVIOUS
    <2>1. In("backbeat")
      BY OneComponentSteps DEF In, vars
    <2>2. [BackbeatNext]_vars
      BY <2>1, OneComponentSteps
    <2> QED  BY <2>1, <2>2, BackbeatSteps
  <1>3. ASSUME Inv, [Next]_vars
        PROVE  [In("backbeat") /\ (store.backend = "azure" \/ scene.sequential) =>
                    \A r \in Reqs :
                        /\ pc[r] \in {"azureDelete", "tagUnmodified"} /\ pc'[r] = "ok"
                        /\ store'.remote # store.remote
                        => store.remote.changed = ctx[r].seen]_vars
    <2> SUFFICES ASSUME In("backbeat"), store.backend = "azure" \/ scene.sequential,
                        NEW r \in Reqs, pc[r] \in {"azureDelete", "tagUnmodified"},
                        pc'[r] = "ok", store'.remote # store.remote
                 PROVE  store.remote.changed = ctx[r].seen
      OBVIOUS
    <2>1. [BackbeatNext]_vars
      BY <1>3, OneComponentSteps
    <2> QED  BY <1>3, <2>1, DeletesUnmodified
  <1> QED  BY <1>1, <1>2, <1>3, PTL DEF Spec, UnmodifiedOnly

\* However batches interleave, no locked version is deleted; and a batch that ends
\* has answered each entry once, as deleted only what is gone or hidden when no
\* other request runs beside it, also where the batch takes one key's record for
\* another's (multiObjectDelete.js, objectLockHelpers.js).
THEOREM BatchesAnswer == Spec => BatchAnswers
  <1> DEFINE Inv == In("batch") => AnswerInv
  <1>1. Init => Inv
    BY OneComponentStarts, AnswerInitially
  <1>2. Inv /\ [Next]_vars => Inv'
    <2> SUFFICES ASSUME Inv, [Next]_vars, In("batch")'  PROVE  AnswerInv'
      OBVIOUS
    <2>1. In("batch")
      BY OneComponentSteps DEF In, vars
    <2>2. [BatchNext]_vars
      BY <2>1, OneComponentSteps
    <2> QED  BY <2>1, <2>2, AnswerSteps
  <1>3. ASSUME Inv, [Next]_vars
        PROVE  [In("batch") => \A k \in AllKeys :
                    store.md[k] # None /\ store.md[k].locked =>
                        store'.md[k] # None /\ store'.md[k].loc = store.md[k].loc]_vars
    <2> SUFFICES ASSUME In("batch"), NEW k \in AllKeys, store.md[k] # None, store.md[k].locked
                 PROVE  store'.md[k] # None /\ store'.md[k].loc = store.md[k].loc
      OBVIOUS
    <2>1. [BatchNext]_vars
      BY <1>3, OneComponentSteps
    <2> QED  BY <1>3, <2>1, LockedVersionsStand
  <1>4. ASSUME Inv, [Next]_vars
        PROVE  [In("batch") => \A r \in Reqs : pc[r] = "batch" /\ pc'[r] = "ok" =>
                    /\ ctx[r].deleted \cup ctx[r].errors = ctx[r].asked
                    /\ ctx[r].deleted \cap ctx[r].errors = {}
                    /\ scene.sequential => \A e \in ctx[r].deleted :
                           store'.md[e.key] = None \/ store'.md[e.key].marker]_vars
    <2> SUFFICES ASSUME In("batch"), NEW r \in Reqs, pc[r] = "batch", pc'[r] = "ok"
                 PROVE  /\ ctx[r].deleted \cup ctx[r].errors = ctx[r].asked
                        /\ ctx[r].deleted \cap ctx[r].errors = {}
                        /\ scene.sequential => \A e \in ctx[r].deleted :
                               store'.md[e.key] = None \/ store'.md[e.key].marker
      OBVIOUS
    <2>1. [BatchNext]_vars
      BY <1>4, OneComponentSteps
    <2> QED  BY <1>4, <2>1, EntriesAnswered
  <1> QED  BY <1>1, <1>2, <1>3, <1>4, PTL
           DEF Spec, BatchAnswers, BatchKeepsLocked, EachEntryAnswered

\* When clients wait for each answer, a version carries the retention and the hold
\* that were last acknowledged, whoever was refused or died in between
\* (objectPutRetention.js, objectPutLegalHold.js, objectDelete.js).
THEOREM LocksAreAsAsked == Spec => []LockAsAsked
  <1> DEFINE Inv == In("lock") => LockInv /\ LoneLock
  <1>1. Init => Inv
    BY OneComponentStarts, LockInitially, LoneInitially
  <1>2. Inv /\ [Next]_vars => Inv'
    <2> SUFFICES ASSUME Inv, [Next]_vars, In("lock")'  PROVE  LockInv' /\ LoneLock'
      OBVIOUS
    <2>1. In("lock")
      BY OneComponentSteps DEF In, vars
    <2>2. [LockNext]_vars
      BY <2>1, OneComponentSteps
    <2> QED  BY <2>1, <2>2, LockSteps, LoneLockSteps
  <1>3. Inv => LockAsAsked
    BY DEF LoneLock, LockAsAsked
  <1> QED  BY <1>1, <1>2, <1>3, PTL DEF Spec

\* When clients wait for each answer, a version that is locked at the time it goes
\* goes by a request that bypasses its GOVERNANCE retention, however long ago the
\* request was judged (objectLockHelpers.js, objectDelete.js).
THEOREM LockedVersionsAreKept == Spec => LockedForNow
  <1> DEFINE Inv == In("lock") => LockInv /\ LoneLock
  <1>1. Init => Inv
    BY OneComponentStarts, LockInitially, LoneInitially
  <1>2. Inv /\ [Next]_vars => Inv'
    <2> SUFFICES ASSUME Inv, [Next]_vars, In("lock")'  PROVE  LockInv' /\ LoneLock'
      OBVIOUS
    <2>1. In("lock")
      BY OneComponentSteps DEF In, vars
    <2>2. [LockNext]_vars
      BY <2>1, OneComponentSteps
    <2> QED  BY <2>1, <2>2, LockSteps, LoneLockSteps
  <1>3. ASSUME Inv, [Next]_vars
        PROVE  [In("lock") /\ scene.sequential
                /\ store.version # None /\ store'.version = None
                /\ IsLocked(store.version, now)
                => /\ ~store.version.hold
                   /\ store.version.mode = "GOVERNANCE"
                   /\ \E r \in Reqs : pc[r] = "write" /\ ctx[r].bypass]_vars
    <2> SUFFICES ASSUME In("lock"), scene.sequential, store.version # None,
                        store'.version = None, IsLocked(store.version, now)
                 PROVE  /\ ~store.version.hold
                        /\ store.version.mode = "GOVERNANCE"
                        /\ \E r \in Reqs : pc[r] = "write" /\ ctx[r].bypass
      OBVIOUS
    <2>1. [LockNext]_vars
      BY <1>3, OneComponentSteps
    <2> QED  BY <1>3, <2>1, LockedForNowHolds
  <1> QED  BY <1>1, <1>2, <1>3, PTL DEF Spec, LockedForNow

\* Visitors of a site see what its owner published and everybody may read, by the
\* first rule that applies, and scripts may do what their preflight was promised
\* (websiteGet.js, websiteServing.js, websiteHead.js, corsPreflight.js).
THEOREM SitesAreAsConfigured == Spec => []SiteIsAsConfigured
  <1> DEFINE Inv == In("site") => SiteInv
  <1>1. Init => Inv
    BY OneComponentStarts, SiteInitially
  <1>2. Inv /\ [Next]_vars => Inv'
    <2> SUFFICES ASSUME Inv, [Next]_vars, In("site")'  PROVE  SiteInv'
      OBVIOUS
    <2>1. In("site")
      BY OneComponentSteps DEF In, vars
    <2>2. [SiteNext]_vars
      BY <2>1, OneComponentSteps
    <2> QED  BY <2>1, <2>2, SiteSteps
  <1>3. Inv => SiteIsAsConfigured
    <2>1. CASE In("site")
      BY <2>1, SiteShows
    <2>2. CASE ~In("site")
      BY <2>2 DEF SiteIsAsConfigured, ShownPagesArePublic, FirstRuleIsUsed, HeadIsLikeGet,
                  PreflightIsHonoured
    <2> QED  BY <2>1, <2>2
  <1> QED  BY <1>1, <1>2, <1>3, PTL DEF Spec

\* Who was told a list sees what is enforced, for accounts, their users, the
\* anonymous and the group that delivers logs, but that services may do all, that
\* everybody reads the objects of a whitelisted public-read bucket, and that the
\* permission to write of log-delivery-write is told only.  A Deny keeps everybody
\* else than the owning account and services out, wherever it stands, and when
\* clients wait for each answer the list that is stored says what the latest
\* acknowledged request asked (bucketPutACL.js, objectPutACL.js, metadata/acl.js,
\* permissionChecks.js, aclUtils.js).
THEOREM AccessIsEnforced == Spec => []AccessIsAsAsked
  <1> DEFINE Inv == In("access") => AccessInv /\ AclAskedInv
  <1>1. Init => Inv
    BY OneComponentStarts, AccessInitially
  <1>2. Inv /\ [Next]_vars => Inv'
    <2> SUFFICES ASSUME Inv, [Next]_vars, In("access")'  PROVE  AccessInv' /\ AclAskedInv'
      OBVIOUS
    <2>1. In("access")
      BY OneComponentSteps DEF In, vars
    <2>2. CASE AccessNext
      BY <2>1, <2>2, AccessSteps
    <2>3. CASE UNCHANGED vars
      BY <2>1, <2>3 DEF vars, AccessInv, AclAskedInv, PutsList, Running
    <2> QED  BY <2>1, <2>2, <2>3, OneComponentSteps
  <1>3. Inv => AccessIsAsAsked
    <2>1. CASE In("access")
      BY <2>1, AccessHolds
    <2>2. CASE ~In("access")
      BY <2>2 DEF AccessIsAsAsked, ToldIsEnforced, DenyStands, AclAsAsked
    <2> QED  BY <2>1, <2>2
  <1> QED  BY <1>1, <1>2, <1>3, PTL DEF Spec

\* However the connection cuts the body into pieces, only data whose chunk was
\* found authentic is passed on, in its order, and a body that is as the client
\* signed it passes whole and without an error (V4Transform.js).
THEOREM StreamIsAlwaysSigned == Spec => []StreamIsSigned
  <1> DEFINE Inv == In("v4") => V4Inv /\ AsSignedInv
  <1>1. Init => Inv
    BY OneComponentStarts, V4Initially, AsSignedInitially
  <1>2. Inv /\ [Next]_vars => Inv'
    <2> SUFFICES ASSUME Inv, [Next]_vars, In("v4")'  PROVE  V4Inv' /\ AsSignedInv'
      OBVIOUS
    <2>1. In("v4")
      BY OneComponentSteps DEF In, vars
    <2>2. CASE V4Next
      BY <2>1, <2>2, V4InvSteps, AsSignedSteps
    <2>3. CASE UNCHANGED vars
      <3>1. V4Inv'
        BY <2>1, <2>3 DEF vars, V4Inv, PassedUpTo
      <3>2. AsSignedInv'
        BY <2>1, <2>3 DEF vars, AsSignedInv, V4Phase, AllPassed, AwaitsHeader, AwaitsData,
                          Reading, Taking, Gathered, ParsesAt, TakesAt, ChecksAt, ChecksLast
      <3> QED  BY <3>1, <3>2
    <2> QED  BY <2>1, <2>2, <2>3, OneComponentSteps
  <1>3. Inv => StreamIsSigned
    <2>1. CASE In("v4")
      BY <2>1, OnlySignedHolds, SignedStreamHolds DEF StreamIsSigned
    <2>2. CASE ~In("v4")
      BY <2>2 DEF StreamIsSigned, OnlySignedDataPasses, SignedStreamPasses
    <2> QED  BY <2>1, <2>2
  <1> QED  BY <1>1, <1>2, <1>3, PTL DEF Spec

\* A read that ends well returned the bytes it was asked for, in order, all of
\* the one object whose record it read, into however many locations of whatever
\* sizes that is cut; the sizes a copied part records are those of its data; and
\* HEAD of a part tells the size that GET of it returns (setPartRanges.js,
\* objectGet.js, objectHead.js, objectPutCopyPart.js).
THEOREM ReadsAreAlwaysTrue == Spec => []ReadsAreTrue
  <1> DEFINE Inv == In("read") => ReadInv
  <1>1. Init => Inv
    BY OneComponentStarts, ReadInitially
  <1>2. Inv /\ [Next]_vars => Inv'
    <2> SUFFICES ASSUME Inv, [Next]_vars, In("read")'  PROVE  ReadInv'
      OBVIOUS
    <2>1. In("read")
      BY OneComponentSteps DEF In, vars
    <2>2. CASE ReadNext
      BY <2>1, <2>2, ReadSteps
    <2>3. CASE UNCHANGED vars
      BY <2>1, <2>3 DEF vars, ReadInv
    <2> QED  BY <2>1, <2>2, <2>3, OneComponentSteps
  <1>3. Inv => ReadsAreTrue
    <2>1. CASE In("read")
      BY <2>1, ReadsHold
    <2>2. CASE ~In("read")
      BY <2>2 DEF ReadsAreTrue, GotWhatWasAsked, CopiedSizesAreTrue, HeadAgreesWithGet
    <2> QED  BY <2>1, <2>2
  <1> QED  BY <1>1, <1>2, <1>3, PTL DEF Spec

\* A client that follows the markers of a listing to its end was told, once and in
\* order, everything that was there all the while, however many requests wrote,
\* deleted and uploaded between its pages; and the versions told as the latest
\* are, one of each key (bucketGet.js, listMultipartUploads.js, listParts.js,
\* metadataSearch.js, the listings of the lifecycle service).
THEOREM ListingsAreAlwaysWhole == Spec => []ListingsAreWhole
  <1> DEFINE Inv == In("listing") => ListingInv
  <1>1. Init => Inv
    BY OneComponentStarts, ListingInitially
  <1>2. Inv /\ [Next]_vars => Inv'
    <2> SUFFICES ASSUME Inv, [Next]_vars, In("listing")'  PROVE  ListingInv'
      OBVIOUS
    <2>1. In("listing")
      BY OneComponentSteps DEF In, vars
    <2>2. CASE ListingNext
      BY <2>1, <2>2, ListingSteps
    <2>3. CASE UNCHANGED vars
      BY <2>1, <2>3 DEF vars, ListingInv, ListingFits, ListsOn, ListedWhole, StoodAll, BucketFits,
         Running
    <2> QED  BY <2>1, <2>2, <2>3, OneComponentSteps
  <1>3. Inv => ListingsAreWhole
    BY ListingHolds
  <1> QED  BY <1>1, <1>2, <1>3, PTL DEF Spec
=============================================================================
