------------------------------ MODULE S3Versions ------------------------------
(***************************************************************************)
(* What a client of the versioning API sees of one object key: the bucket's *)
(* versioning status and a set of versions, of which the one with the      *)
(* greatest identifier is current.  docs/ARCHITECTURE.rst describes it;    *)
(* ObjectVersioning, which stores it as a master key and version keys, is  *)
(* shown to implement it.                                                  *)
(***************************************************************************)
EXTENDS Integers

CONSTANTS
    Locs,   \* the data locations
    None    \* no location: a delete marker

\* The identifier of what is written while versioning was never configured:
\* older than every identifier generated since.
Inf == 0

VARIABLES
    status,    \* "none", "Enabled" or "Suspended"
    versions,  \* the versions of the key
    clock      \* the last identifier generated

absVars == <<status, versions, clock>>

Version == [vid: Nat, null: BOOLEAN, dm: BOOLEAN, loc: Locs \cup {None}]

AbsInit ==
    /\ status = "none"
    /\ versions = {}
    /\ clock = Inf

\* Before versioning the key has one, unversioned, content.
PutUnversioned(loc) ==
    /\ status = "none"
    /\ versions' = {[vid |-> Inf, null |-> TRUE, dm |-> FALSE, loc |-> loc]}
    /\ UNCHANGED <<status, clock>>

\* While versioning is suspended a write replaces the null version.
PutNull(loc, dm) ==
    /\ status = "Suspended"
    /\ clock' = clock + 1
    /\ versions' = {v \in versions : ~v.null}
                   \cup {[vid |-> clock', null |-> TRUE, dm |-> dm, loc |-> loc]}
    /\ UNCHANGED status

\* While versioning is enabled a write adds a version.
PutNew(loc, dm) ==
    /\ status = "Enabled"
    /\ clock' = clock + 1
    /\ versions' = versions
                   \cup {[vid |-> clock', null |-> FALSE, dm |-> dm, loc |-> loc]}
    /\ UNCHANGED status

Remove(v) ==
    /\ versions' = versions \ {v}
    /\ UNCHANGED <<status, clock>>

SetStatus(s) ==
    /\ status' = s
    /\ UNCHANGED <<versions, clock>>

AbsNext ==
    \/ \E loc \in Locs : \/ PutUnversioned(loc)
                         \/ PutNull(loc, FALSE)
                         \/ PutNew(loc, FALSE)
    \/ PutNull(None, TRUE)
    \/ PutNew(None, TRUE)
    \/ \E v \in versions : Remove(v)
    \/ \E s \in {"Enabled", "Suspended"} : SetStatus(s)

AbsSpec == AbsInit /\ [][AbsNext]_absVars

-----------------------------------------------------------------------------
AbsTypeOK ==
    /\ status \in {"none", "Enabled", "Suspended"}
    /\ versions \in SUBSET Version
    /\ clock \in Nat

\* "Only one null version should exist at any given time"
\* (docs/ARCHITECTURE.rst, Null Version Management).
OneNullVersion == \A v, w \in versions : v.null /\ w.null => v = w

\* An identifier names one version, and none is ahead of the clock.
DistinctIds ==
    /\ \A v, w \in versions : v.vid = w.vid => v = w
    /\ \A v \in versions : v.vid <= clock
=============================================================================
