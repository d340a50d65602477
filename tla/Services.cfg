SPECIFICATION Spec
CONSTANTS
    Reqs = {r1, r2, r3, r4}
    None = None
    MaxTime = 2
    Scenes <- AllScenes
SYMMETRY Symmetry
\* A behaviour ends when all its requests have.
CHECK_DEADLOCK FALSE
INVARIANTS
    SettingsAgree
    ConfigIsAsAsked
    BornLockStands
    LockAsAsked
    BatchDataStands
    CopyDataStands
    ReplicaDataStands
    RestorationStands
    OverlayIsWhole
    LinkIsSound
    StreamIsSigned
    ReadsAreTrue
    AccessIsAsAsked
    SiteIsAsConfigured
    ListingsAreWhole
PROPERTIES
    LockedForNow
    BatchAnswers
    UnmodifiedOnly
    AskingAgainExtends
    OverlayGoesForward
