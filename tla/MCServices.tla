------------------------------ MODULE MCServices ------------------------------
(***************************************************************************)
(* Scenes for TLC.                                                         *)
(***************************************************************************)
EXTENDS Services, TLC

Scene(c, ops, n) == [component |-> c, ops |-> ops, sequential |-> TRUE,
                     deaths |-> FALSE, requests |-> n]
Concurrent(s) == [s EXCEPT !.sequential = FALSE, !.deaths = TRUE]

\* The settings that depend on each other, the encryption, the others.
LinkedOps == {"bucketPutVersioning", "bucketPutObjectLock", "bucketPutReplication",
              "bucketDeleteReplication"}
EncryptionOps == {"bucketPutEncryption", "bucketDeleteEncryption", "objectPut"}
OtherOps == {"bucketPutCors", "bucketPutNotification", "bucketPutWebsite",
             "bucketPutPolicy", "bucketPutTagging", "bucketPutACL",
             "bucketDeleteCors", "bucketDeleteWebsite", "bucketDeletePolicy",
             "bucketDeleteLifecycle", "bucketPutLifecycle", "bucketDeleteTagging",
             "putVeeamFile", "deleteVeeamFile"}
ReadOps == {"bucketGetVersioning", "bucketGetEncryption", "bucketGet"}

ConfigScenes ==
    {Scene("config", EncryptionOps \cup {"bucketGetEncryption"}, 4),
     Scene("config", OtherOps \cup EncryptionOps \cup {"bucketPutReplication"}, 2),
     Scene("config", {"bucketPutLifecycle", "bucketDeleteLifecycle", "bucketPutCors",
                      "putVeeamFile", "deleteVeeamFile"}, 3),
     Scene("config", {"bucketPutCors"} \cup LinkedOps \cup ReadOps, 2),
     Concurrent(Scene("config", LinkedOps \cup {"bucketPutCors"}, 4)),
     Concurrent(Scene("config", EncryptionOps \cup OtherOps, 2))}

LockOps == {"objectPut", "objectPutRetention", "objectPutLegalHold", "objectDelete"}

LockScenes ==
    {Scene("lock", LockOps, 3),
     Scene("lock", {"objectPut", "objectPutRetention", "objectPutLegalHold",
                    "objectGetRetention", "objectGetLegalHold"}, 3),
     Concurrent(Scene("lock", LockOps, 3))}

BatchOps == {"multiObjectDelete", "a", "b"}

BatchScenes ==
    {Scene("batch", BatchOps \cup {"objectPut"}, 2),
     Concurrent(Scene("batch", BatchOps, 1)),
     Concurrent(Scene("batch", BatchOps \cup {"objectPut"}, 2))}

CopyScenes ==
    {Scene("copy", {"copyAcross", "objectDelete"}, 2),
     Scene("copy", {"copyOnItself", "restoreVersion", "objectDelete"}, 2),
     [Concurrent(Scene("copy", {"copyAcross", "objectDelete"}, 2)) EXCEPT !.deaths = FALSE],
     Concurrent(Scene("copy", {"copyAcross"}, 1))}

RemoteOps == {"putobject", "deleteobject", "puttagging", "deletetagging", "headobject",
              "conditionalDelete", "readOnly"}
UploadOps == {"initiatempu", "putpart", "completempu", "abortmpu"}
MoveOps == {"move", "expiration", "batchDelete"}

BackbeatScenes ==
    {Scene("backbeat", RemoteOps, 3),
     Scene("backbeat", UploadOps, 4),
     Scene("backbeat", MoveOps \cup {"metadataOnly", "updateStatus"}, 3),
     Scene("backbeat", {"move", "moveSome", "expiration", "batchDelete"}, 3),
     [Concurrent(Scene("backbeat", MoveOps \cup {"metadataOnly", "oneRequest"}, 3))
         EXCEPT !.deaths = FALSE],
     Concurrent(Scene("backbeat", MoveOps, 3)),
     Concurrent(Scene("backbeat", {"putobject", "conditionalDelete"}, 3))}

ArchiveOps == {"restoreObject", "putVersion", "expire", "objectDelete"}
RestoredOps == {"restoreObject", "putVersion", "objectGet", "objectHead"}

ColdScenes ==
    {Scene("cold", ArchiveOps, 4), Scene("cold", RestoredOps, 3),
     Concurrent(Scene("cold", {"restoreObject", "putVersion", "objectGet"}, 3)),
     Concurrent(Scene("cold", ArchiveOps, 2))}

OverlayScenes ==
    {[Scene("overlay", {"poll", "restart"}, 3) EXCEPT !.deaths = TRUE],
     Scene("overlay", {"push", "restart"}, 3),
     Scene("overlay", {"agent", "receive", "restart"}, 3),
     Concurrent(Scene("overlay", {"push"}, 2)),
     Concurrent(Scene("overlay", {"agent", "receive"}, 3))}

InitEvents == {"register", "initFails", "restart"}
ChannelEvents == {"payload", "socketEnd", "closeChannel", "access", "register", "close"}

LinkScenes ==
    {Scene("link", InitEvents \cup {"agent"}, 4), Scene("link", InitEvents \cup {"close"}, 4),
     Scene("link", ChannelEvents, 4)}

V4Scenes == {Scene("v4", {"putStreaming", "wellFormed", "swapped", "changed", "cutOff",
                          "longer"}, 1)}

ReadScenes ==
    {Scene("read", {"getObject", "getPart", "copyPart", "headPart"}, 1),
     Concurrent(Scene("read", {"getObject", "putObject"}, 3))}

AclOps == {"bucketPutACL", "objectPutACL", "bucketGetACL", "objectGetACL"}

AccessScenes ==
    {Scene("access", AclOps \cup {"putObject"}, 2),
     Scene("access", {"objectPutACL"}, 2),
     Scene("access", AclOps \cup {"putObject", "canned"}, 3),
     Scene("access", {"bucketPutACL", "putObject", "bucketGetACL", "objectGetACL", "pairs"}, 1),
     Scene("access", {"policies", "publicRead", "noAcl", "objectGetACL"}, 1),
     Scene("access", AclOps \cup {"putObject", "canned", "publicRead", "noAcl"}, 2),
     Concurrent(Scene("access", {"objectPutACL"}, 2))}

SiteScenes ==
    {Scene("site", {"websiteGet", "websiteHead"}, 2),
     Scene("site", {"websiteGet", "conditions"}, 1),
     [Scene("site", {"websiteGet", "changeObject"}, 2) EXCEPT !.sequential = FALSE],
     Scene("site", {"cors"}, 1)}

ListingScenes ==
    {Scene("listing", ObjectListings \cup LifecycleListings, 1),
     Scene("listing", {"listUploads", "listParts"}, 1),
     [Scene("listing", {"listUploads", "upload"}, 2) EXCEPT !.sequential = FALSE],
     [Scene("listing", {"listParts", "upload"}, 2) EXCEPT !.sequential = FALSE],
     [Scene("listing", {"listObjects", "listVersions", "putObject", "deleteObject"}, 2)
         EXCEPT !.sequential = FALSE]}

AllScenes ==
    ConfigScenes \cup LockScenes \cup BatchScenes \cup CopyScenes \cup BackbeatScenes
    \cup ColdScenes \cup OverlayScenes \cup LinkScenes \cup V4Scenes \cup ReadScenes
    \cup AccessScenes \cup SiteScenes \cup ListingScenes

\* A version of a key is copied on that key, to restore it.
RestoreScenes == {Scene("copy", {"restoreVersion"}, 2)}

Symmetry == Permutations(Reqs)
=============================================================================
