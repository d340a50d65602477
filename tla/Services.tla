------------------------------- MODULE Services -------------------------------
(***************************************************************************)
(* The handlers of the components that Requests underlies, side by side: a *)
(* behaviour is a behaviour of the component of its scene.                 *)
(***************************************************************************)
EXTENDS BucketConfig, ObjectLock, MultiObjectDelete, ObjectCopy,
        Backbeat, ColdStorage, ManagementOverlay,
        ManagementLink, StreamingV4, ObjectRead, AccessControl,
        Website, Listings

Init ==
    /\ scene \in Scenes
    /\ ConfigInit \/ LockInit \/ BatchInit \/ CopyInit \/ BackbeatInit
       \/ ColdInit \/ OverlayInit \/ LinkInit \/ V4Init \/ ReadInit \/ AccessInit \/ SiteInit
       \/ ListingInit

Next == ConfigNext \/ LockNext \/ BatchNext \/ CopyNext \/ BackbeatNext
        \/ ColdNext \/ OverlayNext \/ LinkNext \/ V4Next \/ ReadNext \/ AccessNext \/ SiteNext
        \/ ListingNext

Spec == Init /\ [][Next]_vars
=============================================================================
