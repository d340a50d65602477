--------------------------- MODULE S3VersionsProofs ---------------------------
(* What every history S3Versions allows has in common. *)
EXTENDS S3Versions, TLAPS

\* Unversioned content is a null version with the oldest identifier, and
\* there is only one while versioning was never configured.
Unversioned == status = "none" => /\ \A v \in versions : v.null
                                  /\ \A v, w \in versions : v = w

HistoryInv == AbsTypeOK /\ OneNullVersion /\ DistinctIds /\ Unversioned

LEMMA InitHistory == AbsInit => HistoryInv
BY DEF AbsInit, HistoryInv, AbsTypeOK, OneNullVersion, DistinctIds, Unversioned, Inf

LEMMA NextHistory == HistoryInv /\ [AbsNext]_absVars => HistoryInv'
<1> SUFFICES ASSUME HistoryInv, [AbsNext]_absVars PROVE HistoryInv'
    OBVIOUS
<1> USE DEF HistoryInv, AbsTypeOK, OneNullVersion, DistinctIds, Unversioned, Version, Inf
<1>1. ASSUME NEW loc \in Locs, PutUnversioned(loc) PROVE HistoryInv'
    BY <1>1 DEF PutUnversioned
<1>2. ASSUME NEW loc \in Locs \cup {None}, NEW dm \in BOOLEAN, PutNull(loc, dm)
      PROVE  HistoryInv'
  <2> DEFINE new == [vid |-> clock', null |-> TRUE, dm |-> dm, loc |-> loc]
             kept == {v \in versions : ~v.null}
  <2>1. /\ clock' = clock + 1 /\ versions' = kept \cup {new}
        /\ status' = status /\ status # "none" /\ kept \subseteq versions
    BY <1>2 DEF PutNull
  <2>2. new \in Version /\ new.vid = clock' /\ new.null = TRUE
    BY <2>1
  <2> HIDE DEF new
  <2>3. AbsTypeOK'
    BY <2>1, <2>2
  <2>4. DistinctIds'
    BY <2>1, <2>2
  <2>5. OneNullVersion'
    BY <2>1, <2>2
  <2>. QED
    BY <2>1, <2>3, <2>4, <2>5
<1>3. ASSUME NEW loc \in Locs \cup {None}, NEW dm \in BOOLEAN, PutNew(loc, dm)
      PROVE  HistoryInv'
  <2> DEFINE new == [vid |-> clock', null |-> FALSE, dm |-> dm, loc |-> loc]
             kept == versions
  <2>1. /\ clock' = clock + 1 /\ versions' = kept \cup {new}
        /\ status' = status /\ status # "none" /\ kept \subseteq versions
    BY <1>3 DEF PutNew
  <2>2. new \in Version /\ new.vid = clock' /\ new.null = FALSE
    BY <2>1
  <2> HIDE DEF new
  <2>3. AbsTypeOK'
    BY <2>1, <2>2
  <2>4. DistinctIds'
    BY <2>1, <2>2
  <2>5. OneNullVersion'
    BY <2>1, <2>2
  <2>. QED
    BY <2>1, <2>3, <2>4, <2>5
<1>4. ASSUME NEW v \in versions, Remove(v) PROVE HistoryInv'
    BY <1>4 DEF Remove
<1>5. ASSUME NEW s \in {"Enabled", "Suspended"}, SetStatus(s) PROVE HistoryInv'
    BY <1>5 DEF SetStatus
<1>6. CASE UNCHANGED absVars
    BY <1>6 DEF absVars
<1>. QED
    BY <1>1, <1>2, <1>3, <1>4, <1>5, <1>6 DEF AbsNext

\* Every history has at most one null version and no identifier twice, for any
\* set of data and any number of writes.
THEOREM HistoryIsSound == AbsSpec => [](OneNullVersion /\ DistinctIds)
<1>1. HistoryInv => OneNullVersion /\ DistinctIds
    BY DEF HistoryInv
<1>. QED
    BY <1>1, InitHistory, NextHistory, PTL DEF AbsSpec
=============================================================================
