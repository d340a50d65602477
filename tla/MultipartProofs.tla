---------------------------- MODULE MultipartProofs ----------------------------
(***************************************************************************)
(* Proofs about Multipart, for every set of requests, uploads and parts,   *)
(* every discipline of the clients and both kinds of bucket.               *)
(***************************************************************************)
EXTENDS Multipart, TLAPS

PartKinds == {"putPart", "copyPart"}
PartLabels == {"getPart", "storePart", "putPartMD", "checkFlag", "delOld"}
UploadLabels == {"validate", "mark", "list", "delKeys", "delExtra",
                 "listAbort", "abortData"}

\* A request at a label of a handler carries what that handler was called with.
RightContext ==
    \A r \in Reqs :
        /\ pc[r] \in PartLabels => /\ ctx[r].kind \in PartKinds
                                   /\ ctx[r].upload \in Uploads
                                   /\ ctx[r].part \in Parts
        /\ pc[r] \in UploadLabels => /\ ctx[r].kind \in {"complete", "abort"}
                                     /\ ctx[r].upload \in Uploads
        /\ pc[r] \in {"validate", "mark", "list"} => ctx[r].kind = "complete"
        /\ pc[r] = "storeData" => ctx[r].kind = "put"
        /\ pc[r] \in {"storeObj", "delSnap"} => ctx[r].kind \in {"put", "complete"}
        /\ ctx[r].kind = "complete" => ctx[r].upload \in Uploads

TypeInv == TypeOK /\ RightContext

-----------------------------------------------------------------------------
(* Type correctness *)

\* What an arriving request carries.
LEMMA OpenedType ==
    ASSUME NEW kind \in AllKinds \cup {None}, NEW u \in Uploads \cup {None},
           NEW p \in Parts \cup {None}, NEW snap \in SUBSET Reqs
    PROVE  Opened(kind, u, p, snap) \in Context
  BY DEF Opened, Context

\* Changing fields of one context.
LEMMA OldType ==
    ASSUME NEW f \in [Reqs -> Context], NEW r \in Reqs,
           NEW x \in Reqs \cup {None}
    PROVE  [f EXCEPT ![r].old = x] \in [Reqs -> Context]
  BY DEF Context

\* A request that chooses among the parts.
LEMMA ChosenType ==
    ASSUME NEW f \in [Reqs -> Context], NEW r \in Reqs, NEW s \in SUBSET Reqs
    PROVE  [f EXCEPT ![r].chosen = s] \in [Reqs -> Context]
  BY DEF Context

\* A request that leaves parts out.
LEMMA ExtraType ==
    ASSUME NEW f \in [Reqs -> Context], NEW r \in Reqs, NEW s \in SUBSET Reqs
    PROVE  [f EXCEPT ![r].extra = s] \in [Reqs -> Context]
  BY DEF Context

\* A request that has keys to delete.
LEMMA KeysType ==
    ASSUME NEW f \in [Reqs -> Context], NEW r \in Reqs,
           NEW k \in SUBSET (Parts \cup {"overview"})
    PROVE  [f EXCEPT ![r].keys = k] \in [Reqs -> Context]
  BY DEF Context

\* A request that has listed the parts.
LEMMA ListingType ==
    ASSUME NEW f \in [Reqs -> Context], NEW r \in Reqs, NEW s \in SUBSET Reqs,
           NEW t \in SUBSET Reqs, NEW k \in SUBSET (Parts \cup {"overview"})
    PROVE  [f EXCEPT ![r].chosen = s, ![r].extra = t, ![r].keys = k]
               \in [Reqs -> Context]
  <1>1. [f EXCEPT ![r].chosen = s] \in [Reqs -> Context]
    BY ChosenType
  <1>2. [f EXCEPT ![r].chosen = s, ![r].extra = t] \in [Reqs -> Context]
    BY <1>1, ExtraType
  <1>3. QED
    BY <1>2, KeysType

\* What is deleted with an upload are keys and locations.
LEMMA StoredType ==
    ASSUME TypeOK, NEW u \in Uploads, NEW ps \in SUBSET Stored(u)
    PROVE  /\ KeysToDelete(u) \in SUBSET (Parts \cup {"overview"})
           /\ LocationsOf(u, ps) \in SUBSET Reqs
  BY DEF TypeOK, Stored, LocationsOf, KeysToDelete

\* No request has arrived.
LEMMA InitType == Init => TypeInv
  <1>1. Init => TypeOK
    BY ConstantsAssumption, OpenedType
       DEF Init, TypeOK, OverviewStates, Labels, Done
  <1>2. Init => RightContext
    BY ConstantsAssumption DEF Init, RightContext, PartLabels, UploadLabels,
                               PartKinds, Opened, AllKinds
  <1>3. QED
    BY <1>1, <1>2 DEF TypeInv

\* An arriving request keeps the types.
LEMMA ArriveType ==
    ASSUME TypeInv, NEW r \in Reqs, Arrive(r),
           UNCHANGED client
    PROVE  TypeInv'
  <1> USE ConstantsAssumption, OpenedType
      DEF TypeInv, TypeOK, store, Labels, Done, MayStart, AllKinds,
          PartKinds, PartLabels, UploadLabels
  <1>1. CurrentLocations \in SUBSET Reqs
    BY DEF CurrentLocations
  <1>2. ASSUME NEW u \in Uploads, NEW p \in Parts, NEW k \in Kinds,
               StartPart(r, u, p, k)
        PROVE  TypeInv'
    <2>1. TypeOK'
      BY <1>2 DEF StartPart
    <2>2. RightContext'
      BY <1>2 DEF StartPart, RightContext, Opened
    <2>3. QED
      BY <2>1, <2>2
  <1>3. ASSUME NEW u \in Uploads, StartComplete(r, u)
        PROVE  TypeInv'
    <2>1. TypeOK'
      BY <1>1, <1>3 DEF StartComplete
    <2>2. RightContext'
      BY <1>3 DEF StartComplete, RightContext, Opened
    <2>3. QED
      BY <2>1, <2>2
  <1>4. ASSUME NEW u \in Uploads, StartAbort(r, u)
        PROVE  TypeInv'
    <2>1. TypeOK'
      BY <1>4 DEF StartAbort
    <2>2. RightContext'
      BY <1>4 DEF StartAbort, RightContext, Opened
    <2>3. QED
      BY <2>1, <2>2
  <1>5. CASE StartPut(r)
    <2>1. TypeOK'
      BY <1>1, <1>5 DEF StartPut
    <2>2. RightContext'
      BY <1>5 DEF StartPut, RightContext, Opened
    <2>3. QED
      BY <2>1, <2>2
  <1>6. QED
    BY <1>2, <1>3, <1>4, <1>5 DEF Arrive

\* Each call of a running request keeps the types.
LEMMA StepType ==
    ASSUME TypeInv, NEW r \in Reqs, Step(r),
           UNCHANGED client
    PROVE  TypeOK'
  <1> USE DEF TypeOK, store, Labels, Done
  <1> TypeOK
    BY DEF TypeInv
  <1>0. /\ pc[r] \in PartLabels => ctx[r].upload \in Uploads /\ ctx[r].part \in Parts
        /\ pc[r] \in UploadLabels => ctx[r].upload \in Uploads
        /\ ctx[r].extra \in SUBSET Reqs
        /\ ctx[r].chosen \in SUBSET Reqs
        /\ ctx[r].keys \in SUBSET (Parts \cup {"overview"})
    BY DEF TypeInv, RightContext, Context
  <1>1. CASE GetExistingPart(r)
    <2>1. partMD[ctx[r].upload][ctx[r].part] \in Reqs \cup {None}
      BY <1>0, <1>1 DEF GetExistingPart, PartLabels
    <2>2. ctx' \in [Reqs -> Context]
      BY <1>1, <2>1, OldType DEF GetExistingPart
    <2>3. QED
      BY <1>1, <2>2 DEF GetExistingPart
  <1>2. CASE StorePart(r)
    BY <1>2 DEF StorePart
  <1>3. CASE PutPartMD(r)
    BY <1>0, <1>3 DEF PutPartMD
  <1>4. CASE CheckCompleteInProgress(r)
    BY <1>4 DEF CheckCompleteInProgress
  <1>5. CASE DeleteOldPart(r)
    BY <1>5 DEF DeleteOldPart, TryDelete
  <1>6. CASE ValidateMultipart(r)
    BY <1>6 DEF ValidateMultipart
  <1>7. CASE MarkForCompletion(r)
    BY <1>7 DEF MarkForCompletion, OverviewStates
  <1>8. ASSUME NEW list \in PartLists, RetrieveParts(r, list)
        PROVE  TypeOK'
    <2>1. ctx[r].upload \in Uploads
      BY <1>0, <1>8 DEF RetrieveParts, UploadLabels
    <2>2. ctx' \in [Reqs -> Context]
      <3> DEFINE u == ctx[r].upload
      <3>1. CASE list \subseteq Stored(u)
        <4>1. /\ LocationsOf(u, list) \in SUBSET Reqs
              /\ LocationsOf(u, Stored(u) \ list) \in SUBSET Reqs
              /\ KeysToDelete(u) \in SUBSET (Parts \cup {"overview"})
          BY <2>1, <3>1, StoredType
        <4>2. ctx' = [ctx EXCEPT ![r].chosen = LocationsOf(u, list),
                                 ![r].extra = LocationsOf(u, Stored(u) \ list),
                                 ![r].keys = KeysToDelete(u)]
          BY <1>8, <3>1 DEF RetrieveParts
        <4>3. QED
          BY <4>1, <4>2, ListingType
      <3>2. CASE ~(list \subseteq Stored(u))
        BY <1>8, <3>2 DEF RetrieveParts
      <3>3. QED
        BY <3>1, <3>2
    <2>3. pc' \in [Reqs -> Labels]
      BY <1>8 DEF RetrieveParts
    <2>4. QED
      BY <1>8, <2>2, <2>3 DEF RetrieveParts
  <1>9. CASE StoreData(r)
    <2>1. {r} \in SUBSET Reqs
      OBVIOUS
    <2>2. ctx' \in [Reqs -> Context]
      BY <1>9, <2>1, ChosenType DEF StoreData
    <2>3. QED
      BY <1>9, <2>2 DEF StoreData
  <1>10. CASE StoreObject(r)
    BY <1>0, <1>10 DEF StoreObject, AfterStore
  <1>11. CASE DeleteOverwritten(r)
    BY <1>11 DEF DeleteOverwritten, DeleteLocations, AfterStore
  <1>12. ASSUME NEW k \in Parts \cup {"overview"}, DeleteMultipartKey(r, k)
         PROVE  TypeOK'
    <2>1. ctx[r].upload \in Uploads
      BY <1>0, <1>12 DEF DeleteMultipartKey, UploadLabels
    <2>2. ctx' \in [Reqs -> Context]
      BY <1>0, <1>12, KeysType DEF DeleteMultipartKey
    <2>3. pc' \in [Reqs -> Labels]
      BY <1>12 DEF DeleteMultipartKey, AfterKeys
    <2>4. overview' \in [Uploads -> OverviewStates]
      BY <1>12 DEF DeleteMultipartKey, OverviewStates
    <2>5. partMD' \in [Uploads -> [Parts -> Reqs \cup {None}]]
      <3>1. CASE k = "overview"
        BY <1>12, <3>1 DEF DeleteMultipartKey
      <3>2. CASE k # "overview"
        <4>1. partMD' = [partMD EXCEPT ![ctx[r].upload][k] = None] /\ k \in Parts
          BY <1>12, <3>2 DEF DeleteMultipartKey
        <4>2. QED
          BY <2>1, <4>1
      <3>3. QED
        BY <3>1, <3>2
    <2>6. QED
      BY <1>12, <2>2, <2>3, <2>4, <2>5 DEF DeleteMultipartKey
  <1>13. CASE DeleteExtraParts(r)
    BY <1>13 DEF DeleteExtraParts, DeleteLocations
  <1>14. CASE GetPartLocations(r)
    <2>1. ctx[r].upload \in Uploads
      BY <1>0, <1>14 DEF GetPartLocations, UploadLabels
    <2> DEFINE u == ctx[r].upload
    <2>2. /\ LocationsOf(u, Stored(u)) \in SUBSET Reqs
          /\ KeysToDelete(u) \in SUBSET (Parts \cup {"overview"})
      BY <2>1, StoredType
    <2>3. [ctx EXCEPT ![r].extra = LocationsOf(u, Stored(u))] \in [Reqs -> Context]
      BY <2>2, ExtraType
    <2>4. ctx' = [ctx EXCEPT ![r].extra = LocationsOf(u, Stored(u)),
                             ![r].keys = KeysToDelete(u)]
      BY <1>14 DEF GetPartLocations
    <2>5. ctx' \in [Reqs -> Context]
      BY <2>2, <2>3, <2>4, KeysType
    <2>6. QED
      BY <1>14, <2>5 DEF GetPartLocations
  <1>15. CASE DeletePartsData(r)
    <2>1. ctx' \in [Reqs -> Context]
      BY <1>15, ExtraType DEF DeletePartsData
    <2>2. QED
      BY <1>15, <2>1 DEF DeletePartsData, TryDelete
  <1>16. QED
    BY <1>1, <1>2, <1>3, <1>4, <1>5, <1>6, <1>7, <1>8, <1>9, <1>10, <1>11,
       <1>12, <1>13, <1>14, <1>15 DEF Step

\* A step of r leaves the other requests and what r was called with alone.
StepFrame(r) ==
    /\ \A q \in Reqs \ {r} : ctx'[q] = ctx[q] /\ pc'[q] = pc[q]
    /\ ctx'[r].kind = ctx[r].kind
    /\ ctx'[r].upload = ctx[r].upload
    /\ ctx'[r].part = ctx[r].part

\* A running request changes its own label and context alone.
LEMMA StepFrames ==
    ASSUME TypeInv, NEW r \in Reqs, Step(r),
           UNCHANGED client
    PROVE  StepFrame(r)
  <1> USE DEF StepFrame, store, Context
  <1>0. ctx \in [Reqs -> Context] /\ pc \in [Reqs -> Labels]
    BY DEF TypeInv, TypeOK
  <1>1. CASE GetExistingPart(r)
    BY <1>0, <1>1 DEF GetExistingPart
  <1>2. CASE StorePart(r)
    BY <1>0, <1>2 DEF StorePart
  <1>3. CASE PutPartMD(r)
    BY <1>0, <1>3 DEF PutPartMD
  <1>4. CASE CheckCompleteInProgress(r)
    BY <1>0, <1>4 DEF CheckCompleteInProgress
  <1>5. CASE DeleteOldPart(r)
    BY <1>0, <1>5 DEF DeleteOldPart
  <1>6. CASE ValidateMultipart(r)
    BY <1>0, <1>6 DEF ValidateMultipart
  <1>7. CASE MarkForCompletion(r)
    BY <1>0, <1>7 DEF MarkForCompletion
  <1>8. ASSUME NEW list \in PartLists, RetrieveParts(r, list)
        PROVE  StepFrame(r)
    BY <1>0, <1>8 DEF RetrieveParts
  <1>9. CASE StoreData(r)
    BY <1>0, <1>9 DEF StoreData
  <1>10. CASE StoreObject(r)
    BY <1>0, <1>10 DEF StoreObject, AfterStore
  <1>11. CASE DeleteOverwritten(r)
    BY <1>0, <1>11 DEF DeleteOverwritten, DeleteLocations, AfterStore
  <1>12. ASSUME NEW k \in Parts \cup {"overview"}, DeleteMultipartKey(r, k)
         PROVE  StepFrame(r)
    BY <1>0, <1>12 DEF DeleteMultipartKey, AfterKeys
  <1>13. CASE DeleteExtraParts(r)
    BY <1>0, <1>13 DEF DeleteExtraParts, DeleteLocations
  <1>14. CASE GetPartLocations(r)
    BY <1>0, <1>14 DEF GetPartLocations
  <1>15. CASE DeletePartsData(r)
    BY <1>0, <1>15 DEF DeletePartsData
  <1>16. QED
    BY <1>1, <1>2, <1>3, <1>4, <1>5, <1>6, <1>7, <1>8, <1>9, <1>10, <1>11,
       <1>12, <1>13, <1>14, <1>15 DEF Step

\* What a request carries goes with its label.
LEMMA StepContext ==
    ASSUME TypeInv, NEW r \in Reqs, Step(r),
           UNCHANGED client
    PROVE  RightContext'
  <1> USE DEF RightContext, PartKinds, PartLabels, UploadLabels, Done
  <1>0. pc \in [Reqs -> Labels] /\ RightContext /\ StepFrame(r)
    BY StepFrames DEF TypeInv, TypeOK
  <1> USE <1>0 DEF StepFrame
  <1>1. CASE GetExistingPart(r)
    BY <1>1 DEF GetExistingPart
  <1>2. CASE StorePart(r)
    BY <1>2 DEF StorePart
  <1>3. CASE PutPartMD(r)
    BY <1>3 DEF PutPartMD
  <1>4. CASE CheckCompleteInProgress(r)
    BY <1>4 DEF CheckCompleteInProgress
  <1>5. CASE DeleteOldPart(r)
    BY <1>5 DEF DeleteOldPart
  <1>6. CASE ValidateMultipart(r)
    BY <1>6 DEF ValidateMultipart
  <1>7. CASE MarkForCompletion(r)
    BY <1>7 DEF MarkForCompletion
  <1>8. ASSUME NEW list \in PartLists, RetrieveParts(r, list)
        PROVE  RightContext'
    BY <1>8 DEF RetrieveParts
  <1>9. CASE StoreData(r)
    BY <1>9 DEF StoreData
  <1>10. CASE StoreObject(r)
    BY <1>10 DEF StoreObject, AfterStore
  <1>11. CASE DeleteOverwritten(r)
    BY <1>11 DEF DeleteOverwritten, DeleteLocations, AfterStore
  <1>12. ASSUME NEW k \in Parts \cup {"overview"}, DeleteMultipartKey(r, k)
         PROVE  RightContext'
    BY <1>12 DEF DeleteMultipartKey, AfterKeys
  <1>13. CASE DeleteExtraParts(r)
    BY <1>13 DEF DeleteExtraParts, DeleteLocations
  <1>14. CASE GetPartLocations(r)
    BY <1>14 DEF GetPartLocations
  <1>15. CASE DeletePartsData(r)
    BY <1>15 DEF DeletePartsData
  <1>16. QED
    BY <1>1, <1>2, <1>3, <1>4, <1>5, <1>6, <1>7, <1>8, <1>9, <1>10, <1>11,
       <1>12, <1>13, <1>14, <1>15 DEF Step

\* Every step keeps the types.
LEMMA NextType == TypeInv /\ [Next]_vars => TypeInv'
  <1> SUFFICES ASSUME TypeInv, [Next]_vars PROVE TypeInv'
    OBVIOUS
  <1>1. ASSUME NEW u \in Uploads, Initiate(u), UNCHANGED client PROVE TypeInv'
    BY <1>1 DEF TypeInv, TypeOK, RightContext, Initiate, OverviewStates
  <1>2. ASSUME NEW r \in Reqs, Abandon(r), UNCHANGED client PROVE TypeInv'
    BY <1>2 DEF TypeInv, TypeOK, RightContext, Abandon, store, Labels, Done,
                PartLabels, UploadLabels
  <1>3. ASSUME NEW r \in Reqs, Step(r), UNCHANGED client PROVE TypeInv'
    BY <1>3, StepType, StepContext DEF TypeInv
  <1>4. CASE UNCHANGED vars
    BY <1>4 DEF TypeInv, TypeOK, RightContext, vars
  <1>5. QED
    BY <1>1, <1>2, <1>3, <1>4, ArriveType DEF Next

\* In every reachable state the variables hold what the code puts in them.
THEOREM TypeCorrect == Spec => []TypeOK
  <1>1. TypeInv => TypeOK
    BY DEF TypeInv
  <1>2. QED
    BY InitType, NextType, <1>1, PTL DEF Spec

-----------------------------------------------------------------------------
(* A part upload never deletes what an object holds *)

\* The request x has written its location in the part key (u, p).
PartWritten(x, u, p) ==
    /\ pc[x] \in {"checkFlag", "delOld", "ok", "failed"}
    /\ ctx[x].kind \in PartKinds
    /\ ctx[x].upload = u
    /\ ctx[x].part = p

\* Requests only name uploads that were initiated.
Initiated ==
    \A r \in Reqs, u \in Uploads : ctx[r].upload = u => overview[u] # "new"

\* A part key holds the location of a request that wrote that key.
KeysWritten ==
    \A u \in Uploads, p \in Parts :
        partMD[u][p] # None => PartWritten(partMD[u][p], u, p)

\* So does the location a part upload found before it wrote.
OldWritten ==
    \A r \in Reqs : ctx[r].old # None =>
        /\ ctx[r].kind \in PartKinds
        /\ PartWritten(ctx[r].old, ctx[r].upload, ctx[r].part)

\* Once the part upload has written, the key holds something else for good.
OldReplaced ==
    \A r \in Reqs : pc[r] \in {"checkFlag", "delOld"} =>
        /\ ctx[r].old # None
        /\ partMD[ctx[r].upload][ctx[r].part] # ctx[r].old

\* A writer of the object picks its own data, or written parts of its upload.
ChosenWritten ==
    \A r \in Reqs : \A x \in ctx[r].chosen :
        \/ ctx[r].kind = "put" /\ x = r
        \/ ctx[r].kind = "complete" /\ PartWritten(x, ctx[r].upload, ctx[x].part)

\* An upload whose parts were listed for completion is not open any more.
ListedNotOpen ==
    \A r \in Reqs :
        ctx[r].kind = "complete" /\ (pc[r] = "list" \/ ctx[r].chosen # {})
            => overview[ctx[r].upload] # "open"

\* Object versions hold what their writer picked.
VersionsChosen ==
    \A r \in Reqs : versions[r] # {} =>
        /\ versions[r] \subseteq ctx[r].chosen
        /\ pc[r] \in {"delSnap", "delKeys", "delExtra", "ok", "failed"}

\* What a part upload is about to delete was picked by nobody.
OldNotChosen ==
    \A r \in Reqs : pc[r] = "delOld" =>
        \A q \in Reqs : ctx[r].old \notin ctx[q].chosen

SpareInv ==
    /\ TypeInv
    /\ Initiated
    /\ KeysWritten
    /\ OldWritten
    /\ OldReplaced
    /\ ChosenWritten
    /\ ListedNotOpen
    /\ VersionsChosen
    /\ OldNotChosen

\* The invariant contains the property.
LEMMA SpareInvImplies == SpareInv => PutPartSparesCommitted
  BY DEF SpareInv, OldNotChosen, VersionsChosen, PutPartSparesCommitted

\* Nothing is committed.
LEMMA InitSpare == Init => SpareInv
  BY InitType, ConstantsAssumption
     DEF SpareInv, Init, Opened, Initiated, KeysWritten, OldWritten,
         OldReplaced, ChosenWritten, ListedNotOpen, VersionsChosen, OldNotChosen

\* The changes a running request can make, by the label it is at.
StepEffect(r) ==
    /\ pc[r] \notin {"idle", "ok", "failed"}
    /\ pc[r] # "getPart" => ctx'[r].old = ctx[r].old
    /\ pc[r] \notin {"list", "storeData"} => ctx'[r].chosen = ctx[r].chosen
    /\ pc[r] # "storeObj" => versions' = versions
    /\ \A u \in Uploads : /\ overview'[u] = "open" => overview[u] = "open"
                          /\ overview'[u] = "new" => overview[u] = "new"
    /\ pc[r] # "putPartMD" => \A u \in Uploads, p \in Parts :
                                 partMD'[u][p] \in {partMD[u][p], None}
    /\ pc[r] = "checkFlag" => pc'[r] \in {"delOld", "ok", "failed"}
    /\ pc[r] = "delOld" => pc'[r] \in {"ok", "failed"}
    /\ pc'[r] = "checkFlag" => pc[r] = "putPartMD" /\ ctx[r].old # None
    /\ pc'[r] = "delOld" => /\ pc[r] = "checkFlag"
                            /\ overview[ctx[r].upload] = "open"
    /\ pc'[r] = "list" => /\ pc[r] = "mark"
                          /\ overview'[ctx[r].upload] = "completing"
    /\ pc[r] \in {"delSnap", "delKeys", "delExtra"} =>
           pc'[r] \in {"delSnap", "delKeys", "delExtra", "ok", "failed"}

\* What a call may do to parts, data and the object.
LEMMA StepEffects ==
    ASSUME TypeInv, NEW r \in Reqs, Step(r),
           UNCHANGED client
    PROVE  StepEffect(r)
  <1> USE DEF StepEffect, store, Context
  <1>0. /\ ctx \in [Reqs -> Context] /\ pc \in [Reqs -> Labels]
        /\ overview \in [Uploads -> OverviewStates]
        /\ partMD \in [Uploads -> [Parts -> Reqs \cup {None}]]
        /\ pc[r] \in PartLabels => ctx[r].upload \in Uploads /\ ctx[r].part \in Parts
        /\ pc[r] \in UploadLabels => ctx[r].upload \in Uploads
    BY DEF TypeInv, TypeOK, RightContext
  <1> USE <1>0 DEF PartLabels, UploadLabels
  <1>1. CASE GetExistingPart(r)
    BY <1>1 DEF GetExistingPart
  <1>2. CASE StorePart(r)
    BY <1>2 DEF StorePart
  <1>3. CASE PutPartMD(r)
    BY <1>3 DEF PutPartMD
  <1>4. CASE CheckCompleteInProgress(r)
    BY <1>4 DEF CheckCompleteInProgress
  <1>5. CASE DeleteOldPart(r)
    BY <1>5 DEF DeleteOldPart
  <1>6. CASE ValidateMultipart(r)
    BY <1>6 DEF ValidateMultipart
  <1>7. CASE MarkForCompletion(r)
    BY <1>7 DEF MarkForCompletion
  <1>8. ASSUME NEW list \in PartLists, RetrieveParts(r, list)
        PROVE  StepEffect(r)
    BY <1>8 DEF RetrieveParts
  <1>9. CASE StoreData(r)
    BY <1>9 DEF StoreData
  <1>10. CASE StoreObject(r)
    BY <1>10 DEF StoreObject, AfterStore
  <1>11. CASE DeleteOverwritten(r)
    BY <1>11 DEF DeleteOverwritten, DeleteLocations, AfterStore
  <1>12. ASSUME NEW k \in Parts \cup {"overview"}, DeleteMultipartKey(r, k)
         PROVE  StepEffect(r)
    <2>1. \A u \in Uploads : overview'[u] \in {overview[u], "gone"}
      BY <1>12 DEF DeleteMultipartKey
    <2>2. \A u \in Uploads, p \in Parts : partMD'[u][p] \in {partMD[u][p], None}
      <3>1. CASE k = "overview"
        BY <1>12, <3>1 DEF DeleteMultipartKey
      <3>2. CASE k # "overview"
        BY <1>12, <3>2 DEF DeleteMultipartKey
      <3>3. QED
        BY <3>1, <3>2
    <2>3. /\ ctx'[r].old = ctx[r].old /\ ctx'[r].chosen = ctx[r].chosen
          /\ versions' = versions /\ pc[r] = "delKeys"
      BY <1>12 DEF DeleteMultipartKey
    <2>4. pc'[r] \in {"delKeys", "delExtra", "ok"}
      BY <1>12 DEF DeleteMultipartKey, AfterKeys
    <2>5. QED
      BY <2>1, <2>2, <2>3, <2>4
  <1>13. CASE DeleteExtraParts(r)
    BY <1>13 DEF DeleteExtraParts, DeleteLocations
  <1>14. CASE GetPartLocations(r)
    BY <1>14 DEF GetPartLocations
  <1>15. CASE DeletePartsData(r)
    BY <1>15 DEF DeletePartsData
  <1>16. QED
    BY <1>1, <1>2, <1>3, <1>4, <1>5, <1>6, <1>7, <1>8, <1>9, <1>10, <1>11,
       <1>12, <1>13, <1>14, <1>15 DEF Step

\* The label tells which action a step is.
LEMMA LabelAction ==
    ASSUME NEW r \in Reqs, Step(r)
    PROVE  /\ pc[r] = "getPart" => GetExistingPart(r)
           /\ pc[r] = "putPartMD" => PutPartMD(r)
           /\ pc[r] = "list" => \E list \in PartLists : RetrieveParts(r, list)
           /\ pc[r] = "storeData" => StoreData(r)
           /\ pc[r] = "storeObj" => StoreObject(r)
  BY DEF Step, GetExistingPart, StorePart, PutPartMD, CheckCompleteInProgress,
         DeleteOldPart, ValidateMultipart, MarkForCompletion, RetrieveParts,
         StoreData, StoreObject, DeleteOverwritten, DeleteMultipartKey,
         DeleteExtraParts, GetPartLocations, DeletePartsData

\* A written part key stays written.
LEMMA WrittenStable ==
    ASSUME NEW r \in Reqs, StepFrame(r), StepEffect(r),
           NEW x \in Reqs, NEW u, NEW p, PartWritten(x, u, p)
    PROVE  PartWritten(x, u, p)'
  <1>1. CASE x = r
    BY <1>1 DEF StepFrame, StepEffect, PartWritten
  <1>2. CASE x # r
    BY <1>2 DEF StepFrame, PartWritten
  <1>3. QED
    BY <1>1, <1>2

\* No call dooms data that was committed.
LEMMA StepSpare ==
    ASSUME SpareInv, NEW r \in Reqs, Step(r),
           UNCHANGED client
    PROVE  SpareInv'
  <1> USE DEF SpareInv
  <1>1. TypeInv' /\ StepFrame(r) /\ StepEffect(r)
    BY StepType, StepContext, StepFrames, StepEffects DEF TypeInv
  <1>2. /\ ctx \in [Reqs -> Context] /\ ctx' \in [Reqs -> Context]
        /\ pc \in [Reqs -> Labels] /\ partMD \in [Uploads -> [Parts -> Reqs \cup {None}]]
        /\ partMD' \in [Uploads -> [Parts -> Reqs \cup {None}]]
    BY <1>1 DEF TypeInv, TypeOK
  <1>3. \A q \in Reqs : /\ ctx'[q].upload = ctx[q].upload
                        /\ ctx'[q].kind = ctx[q].kind
                        /\ ctx'[q].part = ctx[q].part
    BY <1>1 DEF StepFrame
  <1>4. Initiated'
    BY <1>1, <1>3 DEF Initiated, StepEffect
  <1>5. KeysWritten'
    <2> SUFFICES ASSUME NEW u \in Uploads, NEW p \in Parts, partMD'[u][p] # None
                 PROVE  PartWritten(partMD[u][p], u, p)'
      BY DEF KeysWritten
    <2>1. CASE partMD'[u][p] = partMD[u][p]
      BY <1>1, <1>2, <2>1, WrittenStable DEF KeysWritten
    <2>2. CASE partMD'[u][p] # partMD[u][p]
      <3>1. pc[r] = "putPartMD" /\ PutPartMD(r)
        BY <1>1, <2>2, LabelAction DEF StepEffect
      <3>2. QED
        BY <1>2, <2>2, <3>1
           DEF PutPartMD, PartWritten, TypeInv, RightContext, PartLabels
    <2>3. QED
      BY <2>1, <2>2
  <1>6. OldWritten'
    <2> SUFFICES ASSUME NEW q \in Reqs, ctx'[q].old # None
                 PROVE  /\ ctx'[q].kind \in PartKinds
                        /\ PartWritten(ctx[q].old, ctx[q].upload, ctx[q].part)'
      BY DEF OldWritten
    <2>1. CASE ctx'[q].old = ctx[q].old
      <3>1. /\ ctx[q].old \in Reqs
            /\ ctx[q].kind \in PartKinds
            /\ PartWritten(ctx[q].old, ctx[q].upload, ctx[q].part)
        BY <1>2, <2>1 DEF OldWritten, Context
      <3>2. PartWritten(ctx[q].old, ctx[q].upload, ctx[q].part)'
        BY <1>1, <1>3, <2>1, <3>1, WrittenStable
      <3>3. QED
        BY <1>3, <3>1, <3>2
    <2>2. CASE ctx'[q].old # ctx[q].old
      <3>1. q = r /\ GetExistingPart(r)
        BY <1>1, <2>2, LabelAction DEF StepFrame, StepEffect
      <3>2. /\ ctx[r].kind \in PartKinds
            /\ ctx[r].upload \in Uploads
            /\ ctx[r].part \in Parts
        BY <3>1 DEF GetExistingPart, TypeInv, RightContext, PartLabels
      <3>3. ctx'[r].old = partMD[ctx[r].upload][ctx[r].part]
        BY <1>2, <3>1 DEF GetExistingPart, Context
      <3>4. /\ ctx'[r].old \in Reqs
            /\ PartWritten(ctx'[r].old, ctx[r].upload, ctx[r].part)
        BY <1>2, <2>2, <3>1, <3>2, <3>3 DEF KeysWritten
      <3>5. QED
        BY <1>1, <1>3, <3>1, <3>2, <3>4, WrittenStable
    <2>3. QED
      BY <2>1, <2>2
  <1>7. OldReplaced'
    <2> SUFFICES ASSUME NEW q \in Reqs, pc'[q] \in {"checkFlag", "delOld"}
                 PROVE  /\ ctx'[q].old # None
                        /\ partMD'[ctx'[q].upload][ctx'[q].part] # ctx'[q].old
      BY DEF OldReplaced
    <2> DEFINE u == ctx[q].upload
               p == ctx[q].part
               x == ctx[q].old
    <2>1. /\ pc[q] \in {"putPartMD", "checkFlag", "delOld"}
          /\ q # r => pc[q] = pc'[q]
          /\ x # None
          /\ ctx'[q].old = x
      BY <1>1, <1>2 DEF StepFrame, StepEffect, OldReplaced
    <2>2. u \in Uploads /\ p \in Parts /\ x \in Reqs
      BY <1>2, <2>1 DEF TypeInv, RightContext, PartLabels, Context
    <2>3. pc[x] \in {"checkFlag", "delOld", "ok", "failed"}
      BY <2>1 DEF OldWritten, PartWritten
    <2>4. CASE pc[r] = "putPartMD"
      <3>1. PutPartMD(r) /\ x # r
        BY <2>3, <2>4, LabelAction
      <3>2. CASE q = r
        BY <1>2, <1>3, <2>1, <2>2, <3>1, <3>2 DEF PutPartMD
      <3>3. CASE q # r
        <4>1. partMD[u][p] # x
          BY <2>1, <3>3 DEF OldReplaced
        <4>2. partMD'[u][p] \in {partMD[u][p], r}
          BY <1>2, <2>2, <3>1 DEF PutPartMD
        <4>3. QED
          BY <1>3, <2>1, <3>1, <4>1, <4>2
      <3>4. QED
        BY <3>2, <3>3
    <2>5. CASE pc[r] # "putPartMD"
      <3>1. partMD'[u][p] \in {partMD[u][p], None}
        BY <1>1, <2>2, <2>5 DEF StepEffect
      <3>2. partMD[u][p] # x
        BY <1>1, <2>1, <2>5 DEF StepEffect, OldReplaced
      <3>3. QED
        BY <1>3, <2>1, <3>1, <3>2
    <2>6. QED
      BY <2>4, <2>5
  <1>8. ChosenWritten'
    <2> SUFFICES ASSUME NEW q \in Reqs, NEW x \in ctx'[q].chosen
                 PROVE  \/ ctx[q].kind = "put" /\ x = q
                        \/ /\ ctx[q].kind = "complete"
                           /\ PartWritten(x, ctx[q].upload, ctx[x].part)'
      BY <1>3 DEF ChosenWritten
    <2>1. x \in Reqs
      BY <1>2 DEF Context
    <2>2. CASE x \in ctx[q].chosen
      BY <1>1, <1>3, <2>1, <2>2, WrittenStable DEF ChosenWritten
    <2>3. CASE x \notin ctx[q].chosen
      <3>1. q = r /\ pc[r] \in {"list", "storeData"}
        BY <1>1, <2>3 DEF StepFrame, StepEffect
      <3>2. CASE pc[r] = "storeData"
        BY <1>2, <2>3, <3>1, <3>2, LabelAction
           DEF StoreData, Context, TypeInv, RightContext
      <3>3. CASE pc[r] = "list"
        <4>1. PICK list \in PartLists : RetrieveParts(r, list)
          BY <3>3, LabelAction
        <4>2. list \subseteq Stored(ctx[r].upload)
              /\ ctx'[r].chosen = LocationsOf(ctx[r].upload, list)
          BY <1>2, <2>3, <3>1, <4>1 DEF RetrieveParts, Context
        <4>3. PICK p \in list : x = partMD[ctx[r].upload][p]
          BY <3>1, <4>2 DEF LocationsOf
        <4>4. ctx[r].upload \in Uploads /\ ctx[r].kind = "complete"
          BY <3>3 DEF TypeInv, RightContext, UploadLabels
        <4>5. p \in Parts /\ partMD[ctx[r].upload][p] # None
          BY <4>2, <4>3 DEF Stored
        <4>6. PartWritten(x, ctx[r].upload, p)
          BY <4>3, <4>4, <4>5 DEF KeysWritten
        <4>7. PartWritten(x, ctx[r].upload, p)' /\ ctx[x].part = p
          BY <1>1, <1>3, <2>1, <4>6, WrittenStable DEF PartWritten
        <4>8. QED
          BY <1>3, <2>1, <3>1, <4>4, <4>7
      <3>4. QED
        BY <3>1, <3>2, <3>3
    <2>4. QED
      BY <2>2, <2>3
  <1>9. ListedNotOpen'
    <2> SUFFICES ASSUME NEW q \in Reqs, ctx[q].kind = "complete",
                        pc'[q] = "list" \/ ctx'[q].chosen # {}
                 PROVE  overview'[ctx[q].upload] # "open"
      BY <1>3 DEF ListedNotOpen
    <2>1. ctx[q].upload \in Uploads
      BY DEF TypeInv, RightContext
    <2>2. CASE pc[q] = "list" \/ ctx[q].chosen # {}
      BY <1>1, <2>1, <2>2 DEF ListedNotOpen, StepEffect
    <2>3. CASE pc[q] # "list" /\ ctx[q].chosen = {}
      <3>1. q = r /\ pc[r] # "storeData"
        BY <1>1, <2>3 DEF StepFrame, TypeInv, RightContext
      <3>2. pc'[r] = "list"
        BY <1>1, <2>3, <3>1 DEF StepEffect
      <3>3. QED
        BY <1>1, <3>1, <3>2 DEF StepEffect
    <2>4. QED
      BY <2>2, <2>3
  <1>10. VersionsChosen'
    <2> SUFFICES ASSUME NEW q \in Reqs, versions'[q] # {}
                 PROVE  /\ versions'[q] \subseteq ctx'[q].chosen
                        /\ pc'[q] \in {"delSnap", "delKeys", "delExtra", "ok", "failed"}
      BY DEF VersionsChosen
    <2>1. CASE pc[r] = "storeObj"
      <3>1. StoreObject(r) /\ ctx'[r].chosen = ctx[r].chosen
        BY <1>1, <2>1, LabelAction DEF StepEffect
      <3>2. CASE q = r
        BY <1>2, <3>1, <3>2 DEF StoreObject, AfterStore
      <3>3. CASE q # r
        <4>1. versions'[q] = versions[q]
          BY <3>1, <3>3 DEF StoreObject
        <4>2. QED
          BY <1>1, <3>3, <4>1 DEF StepFrame, VersionsChosen
      <3>4. QED
        BY <3>2, <3>3
    <2>2. CASE pc[r] # "storeObj"
      <3>1. versions'[q] = versions[q]
        BY <1>1, <2>2 DEF StepEffect
      <3>2. QED
        BY <1>1, <3>1 DEF StepFrame, StepEffect, VersionsChosen
    <2>3. QED
      BY <2>1, <2>2
  <1>11. OldNotChosen'
    <2> SUFFICES ASSUME NEW q \in Reqs, pc'[q] = "delOld",
                        NEW c \in Reqs, ctx'[q].old \in ctx'[c].chosen
                 PROVE  FALSE
      BY DEF OldNotChosen
    <2> DEFINE u == ctx[q].upload
               p == ctx[q].part
               x == ctx[q].old
    <2>1. /\ \/ q # r /\ pc[q] = "delOld"
             \/ q = r /\ pc[r] = "checkFlag" /\ overview[u] = "open"
          /\ ctx'[q].old = x
      BY <1>1 DEF StepFrame, StepEffect
    <2>2. /\ u \in Uploads /\ p \in Parts /\ x \in Reqs
          /\ PartWritten(x, u, p)
          /\ partMD[u][p] # x
      BY <1>2, <2>1 DEF TypeInv, RightContext, PartLabels, Context,
                        OldWritten, OldReplaced
    <2>3. CASE x \in ctx[c].chosen
      <3>1. q = r /\ overview[u] = "open"
        BY <2>1, <2>3 DEF OldNotChosen
      <3>2. ctx[c].kind = "complete" /\ ctx[c].upload = u
        BY <2>2, <2>3 DEF ChosenWritten, PartWritten, PartKinds
      <3>3. QED
        BY <2>3, <3>1, <3>2 DEF ListedNotOpen
    <2>4. CASE x \notin ctx[c].chosen
      <3>1. c = r /\ pc[r] \in {"list", "storeData"} /\ x \in ctx'[r].chosen
        BY <1>1, <2>1, <2>4 DEF StepFrame, StepEffect
      <3>2. CASE pc[r] = "storeData"
        <4>1. ctx'[r].chosen = {r}
          BY <1>2, <3>2, LabelAction DEF StoreData, Context
        <4>2. QED
          BY <2>2, <3>1, <3>2, <4>1 DEF PartWritten
      <3>3. CASE pc[r] = "list"
        <4>1. PICK list \in PartLists : RetrieveParts(r, list)
          BY <3>3, LabelAction
        <4>2. list \subseteq Stored(ctx[r].upload)
              /\ ctx'[r].chosen = LocationsOf(ctx[r].upload, list)
          BY <1>2, <2>4, <3>1, <4>1 DEF RetrieveParts, Context
        <4>3. PICK n \in list : x = partMD[ctx[r].upload][n]
          BY <3>1, <4>2 DEF LocationsOf
        <4>4. ctx[r].upload \in Uploads /\ n \in Parts
              /\ partMD[ctx[r].upload][n] # None
          BY <3>3, <4>2, <4>3 DEF TypeInv, RightContext, UploadLabels, Stored
        <4>5. PartWritten(x, ctx[r].upload, n)
          BY <4>3, <4>4 DEF KeysWritten
        <4>6. QED
          BY <2>2, <4>3, <4>5 DEF PartWritten
      <3>4. QED
        BY <3>1, <3>2, <3>3
    <2>5. QED
      BY <2>3, <2>4
  <1>12. QED
    BY <1>1, <1>4, <1>5, <1>6, <1>7, <1>8, <1>9, <1>10, <1>11

\* A request that arrives starts with an empty context.
Arrival(r) ==
    /\ pc[r] = "idle"
    /\ UNCHANGED store
    /\ \A q \in Reqs \ {r} : ctx'[q] = ctx[q] /\ pc'[q] = pc[q]
    /\ pc'[r] \notin {"checkFlag", "delOld", "list"}
    /\ ctx'[r].old = None /\ ctx'[r].chosen = {}
    /\ ctx'[r].upload \in Uploads => overview[ctx'[r].upload] # "new"

\* What an arriving request may do.
LEMMA ArriveArrival ==
    ASSUME TypeInv, NEW r \in Reqs, Arrive(r),
           UNCHANGED client
    PROVE  Arrival(r)
  <1> USE ConstantsAssumption DEF Arrival, Opened, MayStart
  <1>0. ctx \in [Reqs -> Context] /\ pc \in [Reqs -> Labels]
    BY DEF TypeInv, TypeOK
  <1>1. ASSUME NEW u \in Uploads, NEW p \in Parts, NEW k \in Kinds,
               StartPart(r, u, p, k)
        PROVE  Arrival(r)
    BY <1>0, <1>1 DEF StartPart
  <1>2. ASSUME NEW u \in Uploads, StartComplete(r, u)
        PROVE  Arrival(r)
    BY <1>0, <1>2 DEF StartComplete
  <1>3. ASSUME NEW u \in Uploads, StartAbort(r, u)
        PROVE  Arrival(r)
    BY <1>0, <1>3 DEF StartAbort
  <1>4. CASE StartPut(r)
    BY <1>0, <1>4 DEF StartPut
  <1>5. QED
    BY <1>1, <1>2, <1>3, <1>4 DEF Arrive

\* An arriving request dooms nothing.
LEMMA ArriveSpare ==
    ASSUME SpareInv, NEW r \in Reqs, Arrive(r),
           UNCHANGED client
    PROVE  SpareInv'
  <1> USE DEF SpareInv, store
  <1>1. TypeInv' /\ Arrival(r)
    BY ArriveType, ArriveArrival
  <1>2. /\ ctx \in [Reqs -> Context] /\ ctx' \in [Reqs -> Context]
        /\ partMD \in [Uploads -> [Parts -> Reqs \cup {None}]]
    BY <1>1 DEF TypeInv, TypeOK
  <1>3. ASSUME NEW x \in Reqs, NEW u, NEW p, PartWritten(x, u, p)
        PROVE  x # r /\ PartWritten(x, u, p)'
    BY <1>1, <1>3 DEF Arrival, PartWritten
  <1>4. Initiated'
    BY <1>1 DEF Initiated, Arrival
  <1>5. KeysWritten'
    BY <1>1, <1>2, <1>3 DEF KeysWritten, Arrival
  <1>6. OldWritten'
    <2> SUFFICES ASSUME NEW q \in Reqs, ctx'[q].old # None
                 PROVE  /\ ctx'[q].kind \in PartKinds
                        /\ PartWritten(ctx[q].old, ctx[q].upload, ctx[q].part)'
      BY DEF OldWritten
    <2>1. q # r /\ ctx'[q] = ctx[q] /\ ctx[q].old \in Reqs
      BY <1>1, <1>2 DEF Arrival, Context
    <2>2. PartWritten(ctx[q].old, ctx[q].upload, ctx[q].part)
      BY <2>1 DEF OldWritten
    <2>3. QED
      BY <1>3, <2>1, <2>2 DEF OldWritten
  <1>7. OldReplaced'
    BY <1>1 DEF OldReplaced, Arrival
  <1>8. ChosenWritten'
    <2> SUFFICES ASSUME NEW q \in Reqs, NEW x \in ctx'[q].chosen
                 PROVE  \/ ctx'[q].kind = "put" /\ x = q
                        \/ /\ ctx'[q].kind = "complete"
                           /\ PartWritten(x, ctx[q].upload, ctx[x].part)'
      BY DEF ChosenWritten
    <2>1. q # r /\ ctx'[q] = ctx[q] /\ x \in Reqs
      BY <1>1, <1>2 DEF Arrival, Context
    <2>2. ASSUME PartWritten(x, ctx[q].upload, ctx[x].part)
          PROVE  PartWritten(x, ctx[q].upload, ctx[x].part)'
      BY <1>1, <1>3, <2>1, <2>2 DEF Arrival
    <2>3. QED
      BY <2>1, <2>2 DEF ChosenWritten
  <1>9. ListedNotOpen'
    BY <1>1 DEF ListedNotOpen, Arrival
  <1>10. VersionsChosen'
    BY <1>1 DEF VersionsChosen, Arrival
  <1>11. OldNotChosen'
    BY <1>1 DEF OldNotChosen, Arrival
  <1>12. QED
    BY <1>1, <1>4, <1>5, <1>6, <1>7, <1>8, <1>9, <1>10, <1>11

\* Nor does a new upload.
LEMMA InitiateSpare ==
    ASSUME SpareInv, NEW u \in Uploads, Initiate(u),
           UNCHANGED client
    PROVE  SpareInv'
  <1> USE DEF SpareInv
  <1>1. /\ TypeInv'
        /\ overview[u] = "new"
        /\ overview' = [overview EXCEPT ![u] = "open"]
        /\ UNCHANGED <<partMD, data, master, versions, pc, ctx>>
    BY NextType DEF Initiate, Next
  <1>2. \A r \in Reqs : ctx[r].kind = "complete" =>
            ctx[r].upload \in Uploads \ {u}
    BY <1>1 DEF Initiated, TypeInv, RightContext
  <1>3. Initiated' /\ ListedNotOpen'
    BY <1>1, <1>2 DEF Initiated, ListedNotOpen, TypeInv, TypeOK
  <1>4. /\ KeysWritten' /\ OldWritten' /\ OldReplaced' /\ ChosenWritten'
        /\ VersionsChosen' /\ OldNotChosen'
    BY <1>1 DEF KeysWritten, OldWritten, OldReplaced, ChosenWritten,
                VersionsChosen, OldNotChosen, PartWritten
  <1>5. QED
    BY <1>1, <1>3, <1>4

\* Nor does a request that dies.
LEMMA AbandonSpare ==
    ASSUME SpareInv, NEW r \in Reqs, Abandon(r),
           UNCHANGED client
    PROVE  SpareInv'
  <1> USE DEF SpareInv
  <1>1. /\ TypeInv'
        /\ pc[r] # "idle"
        /\ pc' = [pc EXCEPT ![r] = "failed"]
        /\ UNCHANGED <<overview, partMD, data, master, versions, ctx>>
    BY NextType DEF Abandon, Next, store, Running
  <1>2. pc \in [Reqs -> Labels]
    BY DEF TypeInv, TypeOK
  <1>3. \A x \in Reqs : pc[x] \in {"checkFlag", "delOld", "ok", "failed"}
            => pc'[x] \in {"checkFlag", "delOld", "ok", "failed"}
    BY <1>1, <1>2
  <1>4. KeysWritten' /\ OldWritten' /\ ChosenWritten'
    BY <1>1, <1>3 DEF KeysWritten, OldWritten, ChosenWritten, PartWritten,
                      TypeInv, TypeOK, Context
  <1>5. /\ Initiated' /\ OldReplaced' /\ ListedNotOpen' /\ VersionsChosen'
        /\ OldNotChosen'
    BY <1>1, <1>2 DEF Initiated, OldReplaced, ListedNotOpen, VersionsChosen,
                      OldNotChosen
  <1>6. QED
    BY <1>1, <1>4, <1>5

\* Every step keeps the invariant.
LEMMA NextSpare == SpareInv /\ [Next]_vars => SpareInv'
  <1> SUFFICES ASSUME SpareInv, [Next]_vars PROVE SpareInv'
    OBVIOUS
  <1>1. CASE UNCHANGED vars
    BY <1>1 DEF vars, SpareInv, TypeInv, TypeOK, RightContext, Initiated,
                KeysWritten, OldWritten, OldReplaced, ChosenWritten,
                ListedNotOpen, VersionsChosen, OldNotChosen, PartWritten
  <1>2. QED
    BY <1>1, InitiateSpare, ArriveSpare, StepSpare, AbandonSpare DEF Next

\* Whatever the clients do, and whichever requests die, a part upload that
\* replaces a part deletes nothing that an object holds or is about to hold.
THEOREM PartUploadsSpareObjects == Spec => []PutPartSparesCommitted
  BY InitSpare, SpareInvImplies, NextSpare, PTL DEF Spec

-----------------------------------------------------------------------------
(* An upload that is gone never comes back *)

Ending(r) == Running(r) /\ ctx[r].kind \in {"complete", "abort"}

\* One request at a time ends an upload.
EndsAlone ==
    \A q, r \in Reqs : Ending(q) /\ Ending(r) /\ ctx[q].upload = ctx[r].upload => q = r

\* The upload that a complete has validated is still there when it marks it.
MarkExists == \A r \in Reqs : pc[r] = "mark" => Exists(ctx[r].upload)

EndsInv ==
    /\ SpareInv
    /\ Discipline # "free" => EndsAlone /\ MarkExists

\* The requests at the labels that touch the overview are ending the upload.
LEMMA EndingLabels ==
    ASSUME TypeInv, NEW r \in Reqs, pc[r] \in UploadLabels
    PROVE  Ending(r) /\ ctx[r].upload \in Uploads
  BY DEF TypeInv, RightContext, UploadLabels, Ending, Running, Done

\* Only the overview of the upload that a request is ending changes.
LEMMA OverviewSteps ==
    ASSUME TypeInv, NEW r \in Reqs, Step(r), NEW u \in Uploads,
           overview'[u] # overview[u]
    PROVE  /\ Ending(r) /\ u = ctx[r].upload
           /\ \/ pc[r] = "mark" /\ overview'[u] = "completing"
              \/ pc[r] = "delKeys" /\ overview'[u] = "gone"
  <1>0. overview \in [Uploads -> OverviewStates]
    BY DEF TypeInv, TypeOK
  <1>1. CASE MarkForCompletion(r)
    BY <1>0, <1>1, EndingLabels DEF MarkForCompletion, UploadLabels
  <1>2. ASSUME NEW k \in Parts \cup {"overview"}, DeleteMultipartKey(r, k)
        PROVE  /\ Ending(r) /\ u = ctx[r].upload
               /\ pc[r] = "delKeys" /\ overview'[u] = "gone"
    BY <1>0, <1>2, EndingLabels DEF DeleteMultipartKey, UploadLabels
  <1>3. QED
    BY <1>1, <1>2
       DEF Step, GetExistingPart, StorePart, PutPartMD, CheckCompleteInProgress,
           DeleteOldPart, RetrieveParts, ValidateMultipart, StoreData,
           StoreObject, DeleteOverwritten, DeleteExtraParts, GetPartLocations,
           DeletePartsData, store

\* An arriving request revives no upload.
LEMMA ArriveEnds ==
    ASSUME EndsInv, NEW r \in Reqs, Arrive(r), UNCHANGED client
    PROVE  EndsInv'
  <1>1. SpareInv' /\ Arrival(r) /\ TypeInv
    BY ArriveSpare, ArriveArrival DEF EndsInv, SpareInv
  <1> SUFFICES ASSUME Discipline # "free", EndsAlone, MarkExists
               PROVE  EndsAlone' /\ MarkExists'
    BY <1>1 DEF EndsInv, Discipline
  <1>2. /\ pc \in [Reqs -> Labels] /\ ctx \in [Reqs -> Context]
        /\ Discipline \in {"serialEnd", "sequential"}
    BY <1>1, ConstantsAssumption DEF TypeInv, TypeOK, Discipline
  <1>3. pc'[r] # "mark"
    BY <1>2 DEF Arrive, StartPart, StartComplete, StartAbort, StartPut
  <1>4. ASSUME NEW q \in Reqs, q # r, Ending(q), Ending(r)',
               ctx[q].upload = ctx'[r].upload
        PROVE  FALSE
    <2>1. \A k : MayStart(r, k) => Discipline # "sequential"
      BY <1>4 DEF MayStart, Ending
    <2>2. ASSUME NEW u \in Uploads, MayEnd(u) PROVE ctx[q].upload # u
      BY <1>2, <1>4, <2>1, <2>2
         DEF MayEnd, Ending, Arrive, StartPart, StartComplete, StartAbort,
             StartPut
    <2>3. ASSUME NEW u \in Uploads, NEW p \in Parts, NEW k \in Kinds,
                 StartPart(r, u, p, k)
          PROVE  FALSE
      BY <1>2, <1>4, <2>3 DEF StartPart, Opened, Ending
    <2>4. ASSUME NEW u \in Uploads, StartComplete(r, u) \/ StartAbort(r, u)
          PROVE  FALSE
      BY <1>2, <1>4, <2>2, <2>4 DEF StartComplete, StartAbort, Opened
    <2>5. CASE StartPut(r)
      BY <1>2, <1>4, <2>5 DEF StartPut, Opened, Ending
    <2>6. QED
      BY <2>3, <2>4, <2>5 DEF Arrive
  <1>5. EndsAlone'
    BY <1>1, <1>4 DEF EndsAlone, Arrival, Ending, Running
  <1>6. MarkExists'
    BY <1>1, <1>3 DEF MarkExists, Arrival, Exists, store
  <1>7. QED
    BY <1>5, <1>6

\* Nor does any call of a running one.
LEMMA StepEnds ==
    ASSUME EndsInv, NEW r \in Reqs, Step(r), UNCHANGED client
    PROVE  EndsInv'
  <1>1. SpareInv' /\ StepFrame(r) /\ StepEffect(r) /\ TypeInv
    BY StepSpare, StepFrames, StepEffects DEF EndsInv, SpareInv
  <1> SUFFICES ASSUME Discipline # "free", EndsAlone, MarkExists
               PROVE  EndsAlone' /\ MarkExists'
    BY <1>1 DEF EndsInv, Discipline
  <1>2. EndsAlone'
    BY <1>1 DEF EndsAlone, StepFrame, StepEffect, Ending, Running, Done
  <1>3. MarkExists'
    <2> SUFFICES ASSUME NEW q \in Reqs, pc'[q] = "mark"
                 PROVE  Exists(ctx[q].upload)'
      BY DEF MarkExists
    <2>1. /\ ctx'[q].upload = ctx[q].upload /\ overview \in [Uploads -> OverviewStates]
          /\ pc \in [Reqs -> Labels]
      BY <1>1 DEF StepFrame, TypeInv, TypeOK
    <2>2. CASE q = r
      BY <2>1, <2>2
         DEF Step, GetExistingPart, StorePart, PutPartMD, CheckCompleteInProgress,
             DeleteOldPart, ValidateMultipart, MarkForCompletion, RetrieveParts,
             StoreData, StoreObject, DeleteOverwritten, DeleteLocations,
             DeleteMultipartKey, AfterKeys, AfterStore, DeleteExtraParts,
             GetPartLocations, DeletePartsData, store, Exists
    <2>3. CASE q # r
      <3>1. pc[q] = "mark" /\ Exists(ctx[q].upload) /\ Ending(q) /\ ctx[q].upload \in Uploads
        BY <1>1, <2>3, EndingLabels DEF StepFrame, MarkExists, UploadLabels
      <3>2. overview'[ctx[q].upload] = overview[ctx[q].upload]
        BY <1>1, <2>3, <3>1, OverviewSteps DEF EndsAlone, Exists
      <3>3. QED
        BY <2>1, <3>1, <3>2 DEF Exists
    <2>4. QED
      BY <2>2, <2>3
  <1>4. QED
    BY <1>2, <1>3

\* Every step leaves the uploads that ended alone.
LEMMA NextEnds == EndsInv /\ [Next]_vars => EndsInv'
  <1> SUFFICES ASSUME EndsInv, [Next]_vars PROVE EndsInv'
    OBVIOUS
  <1>0. SpareInv'
    BY NextSpare DEF EndsInv
  <1>1. CASE UNCHANGED vars
    BY <1>0, <1>1
       DEF vars, EndsInv, EndsAlone, MarkExists, Ending, Running, Exists,
           Discipline
  <1>2. ASSUME NEW u \in Uploads, Initiate(u), UNCHANGED client PROVE EndsInv'
    <2>1. \A x \in Uploads : Exists(x) => Exists(x)'
      BY <1>2 DEF EndsInv, SpareInv, TypeInv, TypeOK, Initiate, Exists
    <2>2. \A r \in Reqs : pc[r] = "mark" => ctx[r].upload \in Uploads
      BY EndingLabels DEF EndsInv, SpareInv, UploadLabels
    <2>3. QED
      BY <1>0, <1>2, <2>1, <2>2
         DEF Initiate, EndsInv, EndsAlone, MarkExists, Ending, Running,
             Discipline
  <1>3. ASSUME NEW r \in Reqs, Abandon(r), UNCHANGED client PROVE EndsInv'
    <2>1. pc \in [Reqs -> Labels]
      BY DEF EndsInv, SpareInv, TypeInv, TypeOK
    <2>2. \A q \in Reqs : pc'[q] = pc[q] \/ pc'[q] = "failed"
      BY <1>3, <2>1 DEF Abandon
    <2>3. QED
      BY <1>0, <1>3, <2>2
         DEF Abandon, store, EndsInv, EndsAlone, MarkExists, Ending, Running,
             Done, Exists, Discipline
  <1>4. QED
    BY <1>1, <1>2, <1>3, ArriveEnds, StepEnds DEF Next

\* No upload has ended.
LEMMA InitEnds == Init => EndsInv
  BY InitSpare DEF Init, EndsInv, EndsAlone, MarkExists, Ending, Running

\* Whatever dies between two calls, and whatever is retried, an upload that was
\* completed or aborted never comes back, as long as its clients do not
\* complete or abort it while a complete or an abort of it runs.
THEOREM UploadsGoneForGood ==
    ASSUME \A c \in Clients : c.discipline # "free"
    PROVE  Spec => GoneForGood
  <1> DEFINE Stays == \A u \in Uploads : overview[u] = "gone" => overview'[u] = "gone"
  <1>1. EndsInv /\ [Next]_vars => [Stays]_vars
    <2> SUFFICES ASSUME EndsInv, Next, NEW u \in Uploads, overview[u] = "gone"
                 PROVE  overview'[u] = "gone"
      OBVIOUS
    <2>1. Discipline # "free" /\ TypeInv
      BY DEF EndsInv, SpareInv, TypeInv, TypeOK, Discipline
    <2>2. ASSUME NEW v \in Uploads, Initiate(v) PROVE overview'[u] = "gone"
      BY <2>1, <2>2 DEF Initiate, TypeInv, TypeOK
    <2>3. ASSUME NEW r \in Reqs, Arrive(r) \/ Abandon(r) PROVE overview'[u] = "gone"
      BY <2>3
         DEF Arrive, Abandon, StartPart, StartComplete, StartAbort, StartPut,
             store
    <2>4. ASSUME NEW r \in Reqs, Step(r) PROVE overview'[u] = "gone"
      BY <2>1, <2>4, OverviewSteps DEF EndsInv, MarkExists, Exists
    <2>5. QED
      BY <2>2, <2>3, <2>4 DEF Next
  <1>2. QED
    BY InitEnds, NextEnds, <1>1, PTL DEF Spec, GoneForGood

-----------------------------------------------------------------------------
(* Versions keep their data, and share none *)

\* Clients that only upload parts and complete, always list all the parts, and
\* wait for the answer of a complete before they send it again.
Tame(c) ==
    /\ c.discipline # "free"
    /\ c.lists = {Parts}
    /\ c.kinds \cap {"abort", "put"} = {}

\* They never reach the labels of the others, and leave no part out.
OnlyCompletes ==
    \A r \in Reqs : /\ ctx[r].extra = {}
                    /\ ctx[r].kind \notin {"abort", "put"}
                    /\ pc[r] \notin {"listAbort", "abortData", "storeData", "delExtra"}

\* What a complete read at validation is the current version until it writes.
SnapIsCurrent ==
    \A r \in Reqs : pc[r] \in {"validate", "mark", "list", "storeObj"} =>
        ctx[r].snap = CurrentLocations

\* No request will write what it read in a part key again.
SnapWritten ==
    \A r \in Reqs : \A x \in ctx[r].snap :
        pc[x] \in {"checkFlag", "delOld", "ok", "failed"}

InPart(x) == \E u \in Uploads, p \in Parts : partMD[u][p] = x

AboutToWrite(r) == pc[r] = "putPartMD" \/ (pc[r] = "getPart" /\ ctx[r].kind = "copyPart")

\* The data that a part, a version or a request still needs is there.
Needed(x) ==
    \/ InPart(x)
    \/ AboutToWrite(x)
    \/ \E v \in Reqs : x \in versions[v]
    \/ \E q \in Reqs : pc[q] = "storeObj" /\ x \in ctx[q].chosen

NeededHeld == \A x \in Reqs : Needed(x) => x \in data

\* What a complete is about to commit is new, and no part is old any more.
PickedIsNew ==
    \A r \in Reqs : pc[r] = "storeObj" =>
        /\ \A x \in ctx[r].snap : ~InPart(x)
        /\ \A v \in Reqs : ctx[r].chosen \cap versions[v] = {}

\* What a complete deletes after it overwrote a version is nobody's.
DroppedIsOld ==
    \A r \in Reqs : pc[r] = "delSnap" =>
        \A x \in ctx[r].snap : /\ ~InPart(x)
                               /\ \A v \in Reqs : x \notin versions[v]

\* Versions that are not current hold no part, and without versioning nothing.
Superseded ==
    \A v \in Reqs \ {master} :
        /\ \A x \in versions[v] : ~InPart(x)
        /\ ~Versioned => versions[v] = {}

HeldInv ==
    /\ OnlyCompletes /\ SnapIsCurrent /\ SnapWritten
    /\ NeededHeld /\ PickedIsNew /\ DroppedIsOld /\ Superseded
    /\ NoSharedData

TameInv == EndsInv /\ (Tame(client) => HeldInv)

\* The data of a version was written in a part key, once and for all.
LEMMA VersionWritten ==
    ASSUME SpareInv, OnlyCompletes, NEW v \in Reqs, NEW x \in versions[v]
    PROVE  x \in Reqs /\ pc[x] \in {"checkFlag", "delOld", "ok", "failed"}
  <1>1. x \in ctx[v].chosen /\ x \in Reqs
    BY DEF SpareInv, VersionsChosen, TypeInv, TypeOK
  <1>2. QED
    BY <1>1 DEF SpareInv, ChosenWritten, PartWritten, OnlyCompletes

\* What a part upload deletes nobody needs.
LEMMA OldNotNeeded ==
    ASSUME SpareInv, NEW r \in Reqs, pc[r] = "delOld"
    PROVE  ctx[r].old \in Reqs /\ ~Needed(ctx[r].old)
  <1> DEFINE x == ctx[r].old
  <1>1. x # None /\ x \in Reqs
    BY DEF SpareInv, OldReplaced, TypeInv, TypeOK, Context
  <1>2. PartWritten(x, ctx[r].upload, ctx[r].part)
    BY <1>1 DEF SpareInv, OldWritten
  <1>3. ~InPart(x)
    <2> SUFFICES ASSUME NEW u \in Uploads, NEW p \in Parts, partMD[u][p] = x
                 PROVE  FALSE
      BY DEF InPart
    <2>1. PartWritten(x, u, p)
      BY <1>1 DEF SpareInv, KeysWritten
    <2>2. QED
      BY <1>2, <2>1 DEF PartWritten, SpareInv, OldReplaced
  <1>4. ~AboutToWrite(x)
    BY <1>2 DEF PartWritten, AboutToWrite
  <1>5. \A q \in Reqs : x \notin ctx[q].chosen
    BY DEF SpareInv, OldNotChosen
  <1>6. \A v \in Reqs : x \notin versions[v]
    BY <1>5 DEF SpareInv, VersionsChosen
  <1>7. QED
    BY <1>1, <1>3, <1>4, <1>5, <1>6 DEF Needed

\* With one upload, one complete at a time.
LEMMA OneComplete ==
    ASSUME EndsInv, Tame(client), \A u, v \in Uploads : u = v,
           NEW q \in Reqs, NEW r \in Reqs,
           pc[q] \in UploadLabels \cup {"storeObj", "delSnap"},
           pc[r] \in UploadLabels \cup {"storeObj", "delSnap"},
           OnlyCompletes
    PROVE  q = r
  <1>1. \A x \in {q, r} : Ending(x) /\ ctx[x].upload \in Uploads
    BY EndingLabels DEF EndsInv, SpareInv, TypeInv, RightContext, OnlyCompletes,
                        Ending, Running, Done, UploadLabels
  <1>2. QED
    BY <1>1 DEF EndsInv, EndsAlone, Tame, Discipline

\* An arriving request leaves versions and parts as they are.
LEMMA ArriveHeld ==
    ASSUME TameInv, Tame(client), NEW r \in Reqs, Arrive(r), UNCHANGED client
    PROVE  HeldInv'
  <1>1. SpareInv /\ TypeInv /\ HeldInv /\ Arrival(r)
    BY ArriveArrival DEF TameInv, EndsInv, SpareInv
  <1>2. /\ UNCHANGED <<partMD, data, master, versions>>
        /\ \A q \in Reqs \ {r} : ctx'[q] = ctx[q] /\ pc'[q] = pc[q]
        /\ pc[r] = "idle"
    BY <1>1 DEF Arrival, store
  <1>3. /\ ctx'[r].extra = {} /\ ctx'[r].chosen = {}
        /\ ctx'[r].kind \notin {"abort", "put"}
        /\ pc'[r] \in {"getPart", "storePart", "failed", "validate"}
        /\ pc'[r] = "getPart" => ctx'[r].kind = "putPart"
        /\ ctx'[r].snap \in {{}, CurrentLocations}
        /\ pc'[r] = "validate" => ctx'[r].snap = CurrentLocations
    <2>0. /\ pc \in [Reqs -> Labels] /\ ctx \in [Reqs -> Context]
          /\ Kinds \cap {"abort", "put"} = {}
      BY <1>1 DEF TypeInv, TypeOK, Tame, Kinds
    <2>1. CASE \E u \in Uploads, p \in Parts, k \in Kinds : StartPart(r, u, p, k)
      BY <2>0, <2>1 DEF StartPart, Opened
    <2>2. CASE \E u \in Uploads : StartComplete(r, u)
      BY <2>0, <2>2 DEF StartComplete, Opened
    <2>3. QED
      BY <2>0, <2>1, <2>2 DEF Arrive, StartAbort, StartPut, MayStart
  <1>4. CurrentLocations' = CurrentLocations
    BY <1>2 DEF CurrentLocations
  <1>5. \A x \in CurrentLocations : pc[x] \in {"checkFlag", "delOld", "ok", "failed"}
    BY <1>1, VersionWritten DEF CurrentLocations, HeldInv, TypeInv, TypeOK
  <1>6. OnlyCompletes' /\ SnapIsCurrent'
    BY <1>1, <1>2, <1>3, <1>4 DEF HeldInv, OnlyCompletes, SnapIsCurrent
  <1>7. SnapWritten'
    <2> SUFFICES ASSUME NEW q \in Reqs, NEW x \in ctx'[q].snap
                 PROVE  pc'[x] \in {"checkFlag", "delOld", "ok", "failed"}
      BY DEF SnapWritten
    <2>1. pc[x] \in {"checkFlag", "delOld", "ok", "failed"}
      BY <1>1, <1>2, <1>3, <1>5 DEF HeldInv, SnapWritten
    <2>2. x \in Reqs /\ ctx' \in [Reqs -> Context]
      BY ArriveType, <1>1 DEF TypeInv, TypeOK, Context
    <2>3. QED
      BY <1>2, <2>1, <2>2
  <1>8. NeededHeld'
    BY <1>1, <1>2, <1>3 DEF HeldInv, NeededHeld, Needed, InPart, AboutToWrite
  <1>9. PickedIsNew' /\ DroppedIsOld' /\ Superseded' /\ NoSharedData'
    BY <1>1, <1>2, <1>3
       DEF HeldInv, PickedIsNew, DroppedIsOld, Superseded, NoSharedData, InPart,
           Versioned
  <1>10. QED
    BY <1>6, <1>7, <1>8, <1>9 DEF HeldInv

\* What one step of a tame request changes.
LEMMA TameStep ==
    ASSUME TameInv, Tame(client), NEW r \in Reqs, Step(r), UNCHANGED client
    PROVE  /\ ctx'[r].snap = ctx[r].snap /\ ctx'[r].extra = {}
           /\ pc'[r] \notin {"listAbort", "abortData", "storeData", "delExtra", "validate"}
           /\ pc'[r] = "storeObj" => pc[r] = "list"
           /\ pc'[r] = "delSnap" => pc[r] = "storeObj"
           /\ pc[r] # "storeObj" => UNCHANGED <<master, versions>>
           /\ AboutToWrite(r)' => pc[r] = "storePart" \/ AboutToWrite(r)
           /\ pc[r] = "storePart" => r \in data'
           /\ \A x \in data \ data' : \/ pc[r] = "delOld" /\ x = ctx[r].old
                                      \/ pc[r] = "delSnap" /\ x \in ctx[r].snap
           /\ \A x \in Reqs : InPart(x)' => InPart(x) \/ (pc[r] = "putPartMD" /\ x = r)
  <1>1. /\ TypeInv /\ HeldInv /\ StepFrame(r) /\ StepEffect(r)
        /\ ctx \in [Reqs -> Context] /\ pc \in [Reqs -> Labels]
        /\ partMD \in [Uploads -> [Parts -> Reqs \cup {None}]]
    BY StepFrames, StepEffects DEF TameInv, EndsInv, SpareInv, TypeInv, TypeOK
  <1>2. /\ pc[r] \notin {"listAbort", "abortData", "storeData", "delExtra"}
        /\ ctx[r].extra = {}
    BY <1>1 DEF HeldInv, OnlyCompletes
  <1>3. UNCHANGED ctx
          \/ GetExistingPart(r)
          \/ (\E list \in PartLists : RetrieveParts(r, list))
          \/ (\E k \in Parts \cup {"overview"} : DeleteMultipartKey(r, k))
    BY <1>2
       DEF Step, StorePart, PutPartMD, CheckCompleteInProgress, DeleteOldPart,
           ValidateMultipart, MarkForCompletion, StoreData, StoreObject,
           DeleteOverwritten, DeleteExtraParts, GetPartLocations,
           DeletePartsData
  <1>4. ctx'[r].snap = ctx[r].snap /\ ctx'[r].extra = {}
    <2>1. CASE GetExistingPart(r)
      BY <1>1, <1>2, <2>1 DEF GetExistingPart, Context
    <2>2. ASSUME NEW list \in PartLists, RetrieveParts(r, list)
          PROVE  ctx'[r].snap = ctx[r].snap /\ ctx'[r].extra = {}
      <3>1. LocationsOf(ctx[r].upload, Stored(ctx[r].upload) \ list) = {}
        BY DEF Tame, PartLists, LocationsOf, Stored
      <3>2. QED
        BY <1>1, <1>2, <2>2, <3>1 DEF RetrieveParts, Context
    <2>3. ASSUME NEW k \in Parts \cup {"overview"}, DeleteMultipartKey(r, k)
          PROVE  ctx'[r].snap = ctx[r].snap /\ ctx'[r].extra = {}
      BY <1>1, <1>2, <2>3 DEF DeleteMultipartKey, Context
    <2>4. QED
      BY <1>2, <1>3, <2>1, <2>2, <2>3
  <1>5. /\ pc'[r] \notin {"listAbort", "abortData", "storeData", "delExtra", "validate"}
        /\ pc'[r] = "storeObj" => pc[r] = "list"
        /\ pc'[r] = "delSnap" => pc[r] = "storeObj"
        /\ pc'[r] = "putPartMD" => /\ pc[r] \in {"storePart", "getPart"}
                                   /\ pc[r] = "getPart" => ctx[r].kind # "putPart"
        /\ pc'[r] = "getPart" => pc[r] = "storePart"
    BY <1>1, <1>2
       DEF Step, GetExistingPart, StorePart, PutPartMD, CheckCompleteInProgress,
           DeleteOldPart, ValidateMultipart, MarkForCompletion, RetrieveParts,
           StoreData, StoreObject, DeleteOverwritten, DeleteLocations,
           DeleteMultipartKey, AfterKeys, AfterStore, DeleteExtraParts,
           GetPartLocations, DeletePartsData
  <1>6. pc[r] # "storeObj" => UNCHANGED <<master, versions>>
    BY DEF Step, GetExistingPart, StorePart, PutPartMD, CheckCompleteInProgress,
           DeleteOldPart, ValidateMultipart, MarkForCompletion, RetrieveParts,
           StoreData, StoreObject, DeleteOverwritten, DeleteMultipartKey,
           DeleteExtraParts, GetPartLocations, DeletePartsData, store
  <1>7. pc[r] = "storePart" => r \in data'
    BY DEF Step, GetExistingPart, StorePart, PutPartMD, CheckCompleteInProgress,
           DeleteOldPart, ValidateMultipart, MarkForCompletion, RetrieveParts,
           StoreData, StoreObject, DeleteOverwritten, DeleteMultipartKey,
           DeleteExtraParts, GetPartLocations, DeletePartsData
  <1>8. AboutToWrite(r)' => pc[r] = "storePart" \/ AboutToWrite(r)
    <2>1. pc[r] = "getPart" => ctx[r].kind \in PartKinds
      BY <1>1 DEF TypeInv, RightContext, PartLabels
    <2>2. QED
      BY <1>1, <1>5, <2>1 DEF AboutToWrite, StepFrame, PartKinds
  <1>9. \A x \in data \ data' : \/ pc[r] = "delOld" /\ x = ctx[r].old
                                \/ pc[r] = "delSnap" /\ x \in ctx[r].snap
    BY <1>2
       DEF Step, GetExistingPart, StorePart, PutPartMD, CheckCompleteInProgress,
           DeleteOldPart, TryDelete, ValidateMultipart, MarkForCompletion,
           RetrieveParts, StoreData, StoreObject, DeleteOverwritten,
           DeleteLocations, DeleteMultipartKey, DeleteExtraParts,
           GetPartLocations, DeletePartsData, store
  <1>10. \A x \in Reqs : InPart(x)' => InPart(x) \/ (pc[r] = "putPartMD" /\ x = r)
    <2>1. CASE pc[r] # "putPartMD"
      BY <1>1, <2>1, ConstantsAssumption DEF StepEffect, InPart
    <2>2. CASE pc[r] = "putPartMD"
      <3>1. PutPartMD(r) /\ partMD \in [Uploads -> [Parts -> Reqs \cup {None}]]
        BY <1>1, <2>2, LabelAction
      <3>2. ASSUME NEW u \in Uploads, NEW p \in Parts
            PROVE  partMD'[u][p] \in {partMD[u][p], r}
        BY <3>1 DEF PutPartMD
      <3>3. QED
        BY <2>2, <3>2 DEF InPart
    <2>3. QED
      BY <2>1, <2>2
  <1>11. QED
    BY <1>4, <1>5, <1>6, <1>7, <1>8, <1>9, <1>10

\* Each part of the invariant in turn.
LEMMA StepNeeded ==
    ASSUME TameInv, Tame(client), \A u, v \in Uploads : u = v,
           NEW r \in Reqs, Step(r), UNCHANGED client
    PROVE  NeededHeld'
  <1>1. /\ TypeInv /\ TypeInv' /\ SpareInv /\ HeldInv /\ StepFrame(r) /\ StepEffect(r)
        /\ ctx \in [Reqs -> Context] /\ pc \in [Reqs -> Labels]
    BY StepFrames, StepEffects, StepSpare
       DEF TameInv, EndsInv, SpareInv, TypeInv, TypeOK
  <1> SUFFICES ASSUME NEW x \in Reqs, Needed(x)' PROVE x \in data'
    BY DEF NeededHeld
  <1>2. CASE pc[r] = "storePart" /\ x = r
    BY <1>2, TameStep
  <1>3. CASE ~(pc[r] = "storePart" /\ x = r)
    <2>1. Needed(x)
      <3>1. InPart(x)' => Needed(x)
        BY TameStep DEF Needed, AboutToWrite
      <3>2. AboutToWrite(x)' => Needed(x)
        BY <1>1, <1>3, TameStep DEF Needed, AboutToWrite, StepFrame
      <3>3. (\E v \in Reqs : x \in versions[v])' => Needed(x)
        BY <1>1, TameStep, LabelAction DEF Needed, StoreObject
      <3>4. ASSUME NEW q \in Reqs, pc'[q] = "storeObj", x \in ctx'[q].chosen
            PROVE  Needed(x)
        <4>1. CASE q # r
          BY <1>1, <3>4, <4>1 DEF StepFrame, Needed
        <4>2. CASE q = r
          <5>1. PICK list \in PartLists : RetrieveParts(r, list)
            BY <3>4, <4>2, TameStep, LabelAction
          <5>2. x \in LocationsOf(ctx[r].upload, list)
            BY <1>1, <3>4, <4>2, <5>1 DEF RetrieveParts, Context
          <5>3. ctx[r].upload \in Uploads /\ list \subseteq Parts
            BY <1>1, <5>1, EndingLabels
               DEF RetrieveParts, UploadLabels, Tame, PartLists
          <5>4. QED
            BY <5>2, <5>3 DEF LocationsOf, Needed, InPart
        <4>3. QED
          BY <4>1, <4>2
      <3>5. QED
        BY <3>1, <3>2, <3>3, <3>4 DEF Needed
    <2>2. x \in data
      BY <1>1, <2>1 DEF HeldInv, NeededHeld
    <2>3. ~(pc[r] = "delOld" /\ x = ctx[r].old)
      BY <1>1, <2>1, OldNotNeeded
    <2>4. ~(pc[r] = "delSnap" /\ x \in ctx[r].snap)
      <3> SUFFICES ASSUME pc[r] = "delSnap", x \in ctx[r].snap PROVE FALSE
        OBVIOUS
      <3>1. ~InPart(x) /\ \A v \in Reqs : x \notin versions[v]
        BY <1>1 DEF HeldInv, DroppedIsOld
      <3>2. ~AboutToWrite(x)
        BY <1>1 DEF HeldInv, SnapWritten, AboutToWrite
      <3>3. \A q \in Reqs : pc[q] # "storeObj"
        BY <1>1, OneComplete DEF TameInv, HeldInv
      <3>4. QED
        BY <2>1, <3>1, <3>2, <3>3 DEF Needed
    <2>5. QED
      BY <2>2, <2>3, <2>4, TameStep
  <1>4. QED
    BY <1>2, <1>3

\* Where one upload is completed, what its complete has read stays true.
LEMMA StepContextHeld ==
    ASSUME TameInv, Tame(client), \A u, v \in Uploads : u = v,
           NEW r \in Reqs, Step(r), UNCHANGED client
    PROVE  OnlyCompletes' /\ SnapIsCurrent' /\ SnapWritten'
  <1>1. /\ TypeInv /\ TypeInv' /\ HeldInv /\ StepFrame(r) /\ StepEffect(r)
        /\ ctx \in [Reqs -> Context] /\ pc \in [Reqs -> Labels]
    BY StepFrames, StepEffects, StepSpare
       DEF TameInv, EndsInv, SpareInv, TypeInv, TypeOK
  <1>2. \A q \in Reqs : ctx'[q].snap = ctx[q].snap
    BY <1>1, TameStep DEF StepFrame
  <1>3. OnlyCompletes'
    BY <1>1, TameStep DEF HeldInv, OnlyCompletes, StepFrame
  <1>4. SnapIsCurrent'
    <2>1. CASE pc[r] = "storeObj"
      <3>1. \A q \in Reqs : pc'[q] \notin {"validate", "mark", "list", "storeObj"}
        <4>1. pc'[r] \in {"delSnap", "delKeys", "ok"}
          BY <1>1, <2>1, LabelAction DEF StoreObject, AfterStore
        <4>2. \A q \in Reqs \ {r} : pc[q] \notin UploadLabels \cup {"storeObj"}
          BY <1>1, <2>1, OneComplete DEF TameInv, HeldInv
        <4>3. QED
          BY <1>1, <4>1, <4>2 DEF StepFrame, UploadLabels
      <3>2. QED
        BY <3>1 DEF SnapIsCurrent
    <2>2. CASE pc[r] # "storeObj"
      <3>1. CurrentLocations' = CurrentLocations
        BY <2>2, TameStep DEF CurrentLocations
      <3>2. pc'[r] \in {"mark", "list", "storeObj"} =>
                pc[r] \in {"validate", "mark", "list"}
        BY <1>1
           DEF Step, GetExistingPart, StorePart, PutPartMD,
               CheckCompleteInProgress, DeleteOldPart, ValidateMultipart,
               MarkForCompletion, RetrieveParts, StoreData, StoreObject,
               DeleteOverwritten, DeleteLocations, DeleteMultipartKey,
               AfterKeys, AfterStore, DeleteExtraParts, GetPartLocations,
               DeletePartsData, HeldInv, OnlyCompletes
      <3>3. QED
        BY <1>1, <1>2, <3>1, <3>2, TameStep DEF HeldInv, SnapIsCurrent, StepFrame
    <2>3. QED
      BY <2>1, <2>2
  <1>5. SnapWritten'
    <2> SUFFICES ASSUME NEW q \in Reqs, NEW x \in ctx[q].snap
                 PROVE  pc'[x] \in {"checkFlag", "delOld", "ok", "failed"}
      BY <1>2 DEF SnapWritten
    <2>1. x \in Reqs /\ pc[x] \in {"checkFlag", "delOld", "ok", "failed"}
      BY <1>1 DEF HeldInv, SnapWritten, Context
    <2>2. QED
      BY <1>1, <2>1 DEF StepFrame, StepEffect
  <1>6. QED
    BY <1>3, <1>4, <1>5

\* Where one upload is completed, its versions have their own data.
LEMMA StepVersions ==
    ASSUME TameInv, Tame(client), \A u, v \in Uploads : u = v,
           NEW r \in Reqs, Step(r), UNCHANGED client
    PROVE  PickedIsNew' /\ DroppedIsOld' /\ Superseded' /\ NoSharedData'
  <1>1. /\ TypeInv /\ SpareInv /\ HeldInv /\ StepFrame(r) /\ StepEffect(r)
        /\ ctx \in [Reqs -> Context] /\ pc \in [Reqs -> Labels]
        /\ versions \in [Reqs -> SUBSET Reqs]
    BY StepFrames, StepEffects DEF TameInv, EndsInv, SpareInv, TypeInv, TypeOK
  <1>2. \A q \in Reqs : ctx'[q].snap = ctx[q].snap
    BY <1>1, TameStep DEF StepFrame
  \* What was read, or is in a version, is not what a part upload writes now.
  <1>3. \A x \in Reqs : /\ \E v \in Reqs : x \in versions[v] \/ x \in ctx[v].snap
                        /\ ~InPart(x)
                        => ~InPart(x)'
    BY <1>1, TameStep, VersionWritten DEF HeldInv, SnapWritten
  <1>4. CASE pc[r] = "storeObj"
    <2>1. /\ StoreObject(r) /\ UNCHANGED partMD
          /\ ctx[r].snap = CurrentLocations
          /\ \A x \in ctx[r].snap : ~InPart(x)
          /\ \A v \in Reqs : ctx[r].chosen \cap versions[v] = {}
      BY <1>1, <1>4, LabelAction
         DEF StoreObject, HeldInv, SnapIsCurrent, PickedIsNew
    <2>2. /\ master' = r /\ versions'[r] = ctx[r].chosen
          /\ \A v \in Reqs \ {r} :
                 versions'[v] = IF Versioned THEN versions[v] ELSE {}
      BY <2>1 DEF StoreObject
    <2>3. \A x : InPart(x)' => InPart(x)
      BY <2>1 DEF InPart
    <2>4. \A q \in Reqs \ {r} : pc'[q] \notin {"storeObj", "delSnap"}
      BY <1>1, <1>4, OneComplete DEF StepFrame, TameInv, HeldInv
    <2>5. /\ pc'[r] \in {"delSnap", "delKeys", "ok"}
          /\ pc'[r] = "delSnap" => ~Versioned
      BY <1>1, <2>1 DEF StoreObject, AfterStore
    <2>6. PickedIsNew'
      BY <2>4, <2>5 DEF PickedIsNew
    <2>7. DroppedIsOld'
      <3> SUFFICES ASSUME pc'[r] = "delSnap", NEW x \in ctx[r].snap
                   PROVE  ~InPart(x)' /\ \A v \in Reqs : x \notin versions'[v]
        BY <1>2, <2>4 DEF DroppedIsOld
      <3>1. master \in Reqs /\ x \in versions[master]
        BY <1>1, <2>1 DEF CurrentLocations, TypeInv, TypeOK
      <3>2. x \notin ctx[r].chosen
        BY <2>1, <3>1
      <3>3. QED
        BY <2>1, <2>2, <2>3, <2>5, <3>2
    <2>8. Superseded'
      <3> SUFFICES ASSUME NEW v \in Reqs \ {r}
                   PROVE  /\ \A x \in versions'[v] : ~InPart(x)'
                          /\ ~Versioned => versions'[v] = {}
        BY <2>2 DEF Superseded, Versioned
      <3>1. CASE v = master
        BY <2>1, <2>2, <2>3, <3>1, ConstantsAssumption DEF CurrentLocations
      <3>2. CASE v # master
        BY <1>1, <2>2, <2>3, <3>2 DEF HeldInv, Superseded
      <3>3. QED
        BY <3>1, <3>2
    <2>9. NoSharedData'
      BY <1>1, <2>1, <2>2 DEF HeldInv, NoSharedData
    <2>10. QED
      BY <2>6, <2>7, <2>8, <2>9
  <1>5. CASE pc[r] # "storeObj"
    <2>1. UNCHANGED <<master, versions>>
      BY <1>5, TameStep
    <2>2. NoSharedData' /\ Superseded'
      BY <1>1, <1>3, <2>1 DEF HeldInv, NoSharedData, Superseded, Versioned
    <2>3. DroppedIsOld'
      BY <1>1, <1>2, <1>3, <1>5, <2>1, TameStep
         DEF HeldInv, DroppedIsOld, StepFrame, Context
    <2>4. PickedIsNew'
      <3> SUFFICES ASSUME NEW q \in Reqs, pc'[q] = "storeObj"
                   PROVE  /\ \A x \in ctx[q].snap : ~InPart(x)'
                          /\ \A v \in Reqs : ctx'[q].chosen \cap versions[v] = {}
        BY <1>2, <2>1 DEF PickedIsNew
      <3>1. CASE q # r
        BY <1>1, <1>3, <3>1 DEF HeldInv, PickedIsNew, StepFrame, Context
      <3>2. CASE q = r
        <4>1. PICK list \in PartLists : RetrieveParts(r, list)
          BY <3>2, TameStep, LabelAction
        <4> DEFINE u == ctx[r].upload
                   picked == LocationsOf(u, list)
        <4>2. /\ list = Parts /\ u \in Uploads
          BY <1>1, <4>1, EndingLabels
             DEF RetrieveParts, UploadLabels, Tame, PartLists
        <4>3. /\ ctx'[r].chosen = picked /\ UNCHANGED partMD
              /\ ctx[r].snap \cap picked = {} /\ Parts \subseteq Stored(u)
          BY <1>1, <3>2, <4>1, <4>2
             DEF RetrieveParts, LocationKeysHaveChanged, Context, store
        <4>4. \A x : InPart(x) <=> x \in picked
          BY <4>2 DEF InPart, LocationsOf
        <4>5. \A x \in ctx[r].snap : ~InPart(x)'
          BY <4>3, <4>4 DEF InPart
        <4>6. ASSUME NEW v \in Reqs PROVE picked \cap versions[v] = {}
          <5>1. CASE v = master
            <6>1. ctx[r].snap = versions[v]
              BY <1>1, <4>1, <5>1, ConstantsAssumption
                 DEF RetrieveParts, HeldInv, SnapIsCurrent, CurrentLocations
            <6>2. QED
              BY <4>3, <6>1
          <5>2. CASE v # master
            BY <1>1, <4>4, <5>2 DEF HeldInv, Superseded
          <5>3. QED
            BY <5>1, <5>2
        <4>7. QED
          BY <3>2, <4>3, <4>5, <4>6
      <3>3. QED
        BY <3>1, <3>2
    <2>5. QED
      BY <2>2, <2>3, <2>4
  <1>6. QED
    BY <1>4, <1>5

\* A step of a request of tame clients.
LEMMA StepHeld ==
    ASSUME TameInv, Tame(client), \A u, v \in Uploads : u = v,
           NEW r \in Reqs, Step(r), UNCHANGED client
    PROVE  HeldInv'
  BY StepNeeded, StepContextHeld, StepVersions DEF HeldInv

\* An upload that is initiated, and a request that is abandoned, take nothing.
LEMMA InitiateHeld ==
    ASSUME TameInv, Tame(client), NEW u \in Uploads, Initiate(u), UNCHANGED client
    PROVE  HeldInv'
  BY DEF TameInv, HeldInv, Initiate, OnlyCompletes, SnapIsCurrent,
         CurrentLocations, SnapWritten, NeededHeld, Needed, InPart,
         AboutToWrite, PickedIsNew, DroppedIsOld, Superseded, NoSharedData,
         Versioned

\* A request that dies leaves versions and parts as they are.
LEMMA AbandonHeld ==
    ASSUME TameInv, Tame(client), NEW r \in Reqs, Abandon(r), UNCHANGED client
    PROVE  HeldInv'
  <1>1. /\ HeldInv /\ UNCHANGED <<partMD, data, master, versions, ctx, client>>
        /\ \A q \in Reqs : pc'[q] = pc[q] \/ pc'[q] = "failed"
        /\ ctx \in [Reqs -> Context]
    BY DEF TameInv, EndsInv, SpareInv, TypeInv, TypeOK, Abandon, store
  <1>2. OnlyCompletes' /\ SnapIsCurrent'
    BY <1>1 DEF HeldInv, OnlyCompletes, SnapIsCurrent, CurrentLocations
  <1>3. SnapWritten'
    BY <1>1 DEF HeldInv, SnapWritten, Context
  <1>4. NeededHeld'
    BY <1>1 DEF HeldInv, NeededHeld, Needed, InPart, AboutToWrite
  <1>5. PickedIsNew' /\ DroppedIsOld'
    BY <1>1 DEF HeldInv, PickedIsNew, DroppedIsOld, InPart
  <1>6. Superseded' /\ NoSharedData'
    BY <1>1 DEF HeldInv, Superseded, NoSharedData, InPart, Versioned
  <1>7. QED
    BY <1>2, <1>3, <1>4, <1>5, <1>6 DEF HeldInv

\* So does a step that changes nothing.
LEMMA StutterHeld == HeldInv /\ UNCHANGED vars => HeldInv'
  BY DEF vars, HeldInv, OnlyCompletes, SnapIsCurrent, CurrentLocations,
         SnapWritten, NeededHeld, Needed, InPart, AboutToWrite, PickedIsNew,
         DroppedIsOld, Superseded, NoSharedData, Versioned

\* Every step keeps the invariant of tame clients.
LEMMA NextTame ==
    ASSUME \A u, v \in Uploads : u = v
    PROVE  TameInv /\ [Next]_vars => TameInv'
  <1> SUFFICES ASSUME TameInv, [Next]_vars, Tame(client)'
               PROVE  HeldInv'
    BY NextEnds DEF TameInv
  <1>1. UNCHANGED client /\ Tame(client)
    BY DEF Next, vars, Tame
  <1>2. QED
    BY <1>1, ArriveHeld, StepHeld, InitiateHeld, AbandonHeld, StutterHeld
       DEF Next, TameInv

\* Nothing is stored.
LEMMA InitTame == Init => TameInv
  <1> SUFFICES ASSUME Init PROVE HeldInv
    BY InitEnds DEF TameInv
  <1>1. /\ \A r \in Reqs : /\ pc[r] = "idle" /\ ctx[r] = Opened(None, None, None, {})
                          /\ versions[r] = {}
        /\ master = None
        /\ \A x \in Reqs : ~InPart(x)
        /\ None \notin AllKinds
    BY ConstantsAssumption DEF Init, InPart
  <1>2. \A r \in Reqs : /\ ctx[r].kind = None /\ ctx[r].snap = {}
                       /\ ctx[r].chosen = {} /\ ctx[r].extra = {}
    BY <1>1 DEF Opened
  <1>3. OnlyCompletes /\ SnapIsCurrent /\ SnapWritten
    BY <1>1, <1>2 DEF OnlyCompletes, SnapIsCurrent, SnapWritten, AllKinds
  <1>4. NeededHeld
    BY <1>1, <1>2 DEF NeededHeld, Needed, AboutToWrite
  <1>5. PickedIsNew /\ DroppedIsOld /\ Superseded /\ NoSharedData
    BY <1>1, <1>2 DEF PickedIsNew, DroppedIsOld, Superseded, NoSharedData
  <1>6. QED
    BY <1>3, <1>4, <1>5 DEF HeldInv

\* Every version of the object keeps all its data, whatever is abandoned,
\* retried or overtaken, for clients of one upload that list all its parts and
\* do not end it while a complete of theirs runs.
THEOREM VersionsKeepData ==
    ASSUME \A u, v \in Uploads : u = v,
           \A c \in Clients : c.kinds \cap {"abort", "put"} = {} => Tame(c)
    PROVE  Spec => []NoDangling
  <1>1. TameInv => NoDangling
    <2> SUFFICES ASSUME TameInv, OnlyUpload PROVE \A v \in Reqs : versions[v] \subseteq data
      BY DEF NoDangling
    <2>1. TypeInv /\ HeldInv
      BY DEF TameInv, EndsInv, SpareInv, TypeInv, TypeOK, OnlyUpload, Kinds
    <2>2. QED
      BY <2>1 DEF HeldInv, NeededHeld, Needed, TypeInv, TypeOK
  <1>2. QED
    BY InitTame, NextTame, <1>1, PTL DEF Spec

\* Without versioning only the current version holds data.
CurrentOnly == ~Versioned => \A v \in Reqs : v # master => versions[v] = {}

\* Only the write of the object changes the versions.
LEMMA CurrentStays ==
    ASSUME CurrentOnly, [Next]_vars
    PROVE  CurrentOnly'
  <1> SUFFICES ASSUME ~Versioned' PROVE CurrentOnly'
    BY DEF CurrentOnly
  <1>1. ~Versioned
    BY DEF Versioned, Next, vars
  <1>2. ASSUME NEW r \in Reqs, Step(r) PROVE CurrentOnly'
    <2>1. CASE StoreObject(r)
      BY <1>1, <2>1 DEF StoreObject, CurrentOnly
    <2>2. CASE UNCHANGED <<master, versions>>
      BY <1>1, <2>2 DEF CurrentOnly
    <2>3. QED
      BY <1>2, <2>1, <2>2
         DEF Step, GetExistingPart, StorePart, PutPartMD,
             CheckCompleteInProgress, DeleteOldPart, ValidateMultipart,
             MarkForCompletion, RetrieveParts, StoreData, DeleteOverwritten,
             DeleteMultipartKey, DeleteExtraParts, GetPartLocations,
             DeletePartsData, store
  <1>3. ASSUME NEW r \in Reqs, Arrive(r) \/ Abandon(r)
        PROVE  UNCHANGED <<master, versions>>
    BY <1>3 DEF Arrive, StartPart, StartComplete, StartAbort, StartPut, Abandon, store
  <1>4. ASSUME NEW u \in Uploads, Initiate(u) PROVE UNCHANGED <<master, versions>>
    BY <1>4 DEF Initiate
  <1>5. QED
    BY <1>1, <1>2, <1>3, <1>4 DEF Next, vars, CurrentOnly

\* No two versions share data, where the clients that have versions to keep are
\* those of one upload that list all its parts and do not end it while a
\* complete of theirs runs: a complete that is sent again is told apart from
\* one that was never done.
THEOREM VersionsShareNothing ==
    ASSUME \A u, v \in Uploads : u = v,
           \A c \in Clients : c.versioned => Tame(c)
    PROVE  Spec => []NoSharedData
  <1> DEFINE Inv == TameInv /\ CurrentOnly
  <1>1. Init => Inv
    BY InitTame DEF Init, CurrentOnly
  <1>2. Inv /\ [Next]_vars => Inv'
    BY NextTame, CurrentStays
  <1>3. Inv => NoSharedData
    <2> SUFFICES ASSUME Inv PROVE NoSharedData
      OBVIOUS
    <2>1. CASE Versioned
      BY <2>1 DEF TameInv, HeldInv, EndsInv, SpareInv, TypeInv, TypeOK, Versioned
    <2>2. CASE ~Versioned
      BY <2>2 DEF CurrentOnly, NoSharedData
    <2>3. QED
      BY <2>1, <2>2
  <1>4. QED
    BY <1>1, <1>2, <1>3, PTL DEF Spec

-----------------------------------------------------------------------------
(* Nothing is orphaned *)

\* Clients that wait for each answer, and every request so far has succeeded.
Calm ==
    /\ Discipline = "sequential" /\ ~LossyDeletes
    /\ \A r \in Reqs : pc[r] # "failed"

Solo == \A q, r \in Reqs : Running(q) /\ Running(r) => q = r

Held(x) == \E v \in Reqs : x \in versions[v]
InPartOf(u, x) == \E p \in Parts : partMD[u][p] = x

\* An abort of u has deleted the data and is deleting the keys.
Wiped(u) ==
    \E r \in Reqs : pc[r] = "delKeys" /\ ctx[r].kind = "abort" /\ ctx[r].upload = u

\* A complete of u has written the object, and the part keys are still there.
Committed(r) == pc[r] \in {"delSnap", "delKeys"} /\ ctx[r].kind = "complete"

\* The data that r stored and has not written in the metadata yet, or has
\* still to delete after it changed the metadata.
Carries(r, x) ==
    \/ AboutToWrite(r) /\ x = r
    \/ pc[r] \in {"checkFlag", "delOld"} /\ x = ctx[r].old
    \/ pc[r] = "storeObj" /\ ctx[r].kind = "put" /\ x = r
    \/ pc[r] = "delSnap" /\ x \in ctx[r].snap
    \/ pc[r] \in {"delSnap", "delKeys", "delExtra"} /\ x \in ctx[r].extra

\* The metadata refer to x, or a request carries it.
Accounted(x) ==
    \/ Held(x)
    \/ \E u \in Uploads : InPartOf(u, x) /\ ~Wiped(u)
    \/ \E r \in Reqs : Carries(r, x)

\* The backend holds that and nothing else.
Balanced == \A x \in Reqs : x \in data <=> Accounted(x)

\* A location is that of a version or that of a part, and of both only between
\* the two writes of a complete.
Apart ==
    \A u \in Uploads, x \in Reqs : InPartOf(u, x) /\ Held(x) =>
        \E r \in Reqs : Committed(r) /\ ctx[r].upload = u

\* The flag is up only while the complete that set it runs.
FlagIsLive ==
    \A u \in Uploads : overview[u] = "completing" =>
        \E r \in Reqs : /\ pc[r] \in {"list", "storeObj", "delSnap", "delKeys"}
                        /\ ctx[r].kind = "complete" /\ ctx[r].upload = u

\* A part upload runs on an open upload, and what it replaces is no version's.
PartRuns(r) ==
    /\ pc[r] \in PartLabels => overview[ctx[r].upload] = "open"
    /\ pc[r] = "putPartMD" \/ (pc[r] = "storePart" /\ ctx[r].kind = "putPart")
           => ctx[r].old = partMD[ctx[r].upload][ctx[r].part]
    /\ pc[r] \in {"checkFlag", "delOld"} => ~Held(ctx[r].old)

\* What a writer of the object has read is still the current version.
ReadsCurrent(r) ==
    pc[r] \in {"validate", "mark", "list", "storeData", "storeObj"} =>
        ctx[r].snap = CurrentLocations

\* What is left of the upload is what the request has listed.
ListedAll(r) ==
    (pc[r] \in {"storeObj", "delSnap", "delKeys"} /\ ctx[r].kind = "complete")
        \/ pc[r] = "abortData" \/ pc[r] = "delKeys" =>
            /\ \A p \in Parts : partMD[ctx[r].upload][p] # None => p \in ctx[r].keys
            /\ "overview" \notin ctx[r].keys => overview[ctx[r].upload] = "gone"

\* A complete splits the parts into the chosen and the extra ones.
SplitsParts(r) ==
    pc[r] \in {"storeObj", "delSnap", "delKeys"} /\ ctx[r].kind = "complete" =>
        /\ \A x \in Reqs : InPartOf(ctx[r].upload, x) =>
                               x \in ctx[r].chosen \cup ctx[r].extra
        /\ ctx[r].chosen \cap ctx[r].extra = {}
        /\ pc[r] = "storeObj" =>
               \A x \in ctx[r].chosen \cup ctx[r].extra : InPartOf(ctx[r].upload, x)
        /\ pc[r] # "storeObj" => versions[r] = ctx[r].chosen

\* What is to be deleted is nobody's.
DropsOwn(r) ==
    /\ pc[r] \in {"listAbort", "abortData"} => ctx[r].kind = "abort"
    /\ pc[r] \in {"storeData", "storeObj", "delSnap"} /\ ctx[r].kind = "put"
           => ctx[r].extra = {}
    /\ pc[r] = "storeObj" /\ ctx[r].kind = "put" => ctx[r].chosen = {r}
    /\ pc[r] = "delSnap" => \A x \in ctx[r].snap : /\ ~Held(x)
                                                   /\ ~InPart(x)
                                                   /\ x \notin ctx[r].extra
    /\ pc[r] \in {"delSnap", "delKeys", "delExtra"} =>
           \A x \in ctx[r].extra :
               /\ ~Held(x)
               /\ \A u \in Uploads : InPartOf(u, x) =>
                      u = ctx[r].upload /\ pc[r] # "delExtra"
    /\ pc[r] = "delKeys" /\ ctx[r].kind = "abort" => ctx[r].extra = {}
    /\ pc[r] = "abortData" =>
           \A x \in Reqs : x \in ctx[r].extra <=> InPartOf(ctx[r].upload, x)

Keeps(r) ==
    /\ PartRuns(r) /\ ReadsCurrent(r) /\ ListedAll(r)
    /\ SplitsParts(r) /\ DropsOwn(r)

Order == Solo /\ Balanced /\ Apart /\ FlagIsLive /\ \A r \in Reqs : Keeps(r)

CalmInv == Calm => Order

-----------------------------------------------------------------------------
Alone(r) == \A q \in Reqs \ {r} : ~Running(q)

\* The invariant as it is where only r may be running.
WipedBy(r, u) == pc[r] = "delKeys" /\ ctx[r].kind = "abort" /\ ctx[r].upload = u

AccountedFor(r, x) ==
    \/ Held(x)
    \/ \E u \in Uploads : InPartOf(u, x) /\ ~WipedBy(r, u)
    \/ Carries(r, x)

BalancedFor(r) == \A x \in Reqs : x \in data <=> AccountedFor(r, x)

ApartFor(r) ==
    \A u \in Uploads, x \in Reqs :
        InPartOf(u, x) /\ Held(x) => Committed(r) /\ ctx[r].upload = u

FlagFor(r) ==
    \A u \in Uploads : overview[u] = "completing" =>
        /\ pc[r] \in {"list", "storeObj", "delSnap", "delKeys"}
        /\ ctx[r].kind = "complete" /\ ctx[r].upload = u

Around(r) == BalancedFor(r) /\ ApartFor(r) /\ FlagFor(r) /\ Keeps(r)


\* A request that does not run keeps nothing and carries nothing.
LEMMA RestKeeps ==
    ASSUME NEW r \in Reqs, ~Running(r)
    PROVE  Keeps(r) /\ (\A x : ~Carries(r, x)) /\ ~Committed(r)
  BY DEF Running, Done, Keeps, PartRuns, ReadsCurrent, ListedAll, SplitsParts,
         DropsOwn, Carries, Committed, AboutToWrite, PartLabels

\* Nor does it after a step.
LEMMA RestKeepsNext ==
    ASSUME NEW r \in Reqs, ~Running(r)'
    PROVE  Keeps(r)' /\ (\A x : ~Carries(r, x)') /\ ~Committed(r)'
  BY DEF Running, Done, Keeps, PartRuns, ReadsCurrent, ListedAll, SplitsParts,
         DropsOwn, Carries, Committed, AboutToWrite, PartLabels

\* Where only r may run, the invariant is about r.
LEMMA OrderAround ==
    ASSUME Order, NEW r \in Reqs, Alone(r)
    PROVE  Around(r)
  <1>1. \A q \in Reqs \ {r} : (\A x : ~Carries(q, x)) /\ ~Committed(q) /\ ~Running(q)
    BY RestKeeps DEF Alone
  <1>2. BalancedFor(r)
    BY <1>1 DEF Order, Balanced, Accounted, BalancedFor, AccountedFor, Wiped, WipedBy,
           Running, Done
  <1>3. ApartFor(r)
    BY <1>1 DEF Order, Apart, ApartFor
  <1>4. FlagFor(r)
    BY <1>1 DEF Order, FlagIsLive, FlagFor, Running, Done
  <1>5. QED
    BY <1>2, <1>3, <1>4 DEF Order, Around

\* And after a step it is enough to look at r.
LEMMA AroundOrder ==
    ASSUME NEW r \in Reqs, Alone(r)', Around(r)'
    PROVE  Order'
  <1>1. \A q \in Reqs \ {r} : ~Running(q)'
    BY DEF Alone
  <1>2. \A q \in Reqs \ {r} : (\A x : ~Carries(q, x)') /\ Keeps(q)'
    BY <1>1, RestKeepsNext
  <1>3. Solo'
    BY <1>1 DEF Solo
  <1>4. Balanced'
    <2> SUFFICES ASSUME NEW x \in Reqs PROVE (x \in data <=> Accounted(x))'
      BY DEF Balanced
    <2>1. \A u : Wiped(u)' <=> WipedBy(r, u)'
      BY <1>1 DEF Wiped, WipedBy, Running, Done
    <2>2. (\E q \in Reqs : Carries(q, x)') <=> Carries(r, x)'
      BY <1>2
    <2>3. Accounted(x)' <=> AccountedFor(r, x)'
      BY <2>1, <2>2 DEF Accounted, AccountedFor
    <2>4. QED
      BY <2>3 DEF Around, BalancedFor
  <1>5. Apart'
    BY DEF Around, Apart, ApartFor
  <1>6. FlagIsLive'
    BY DEF Around, FlagIsLive, FlagFor
  <1>7. \A q \in Reqs : Keeps(q)'
    BY <1>2 DEF Around
  <1>8. QED
    BY <1>3, <1>4, <1>5, <1>6, <1>7 DEF Order

\* A request that has not yet written its location is in no version or part.
LEMMA NotYetWritten ==
    ASSUME SpareInv, NEW r \in Reqs,
           pc[r] \in {"getPart", "storePart", "putPartMD", "storeData", "storeObj"}
    PROVE  ~Held(r) /\ ~InPart(r) /\ versions[r] = {}
  <1>1. \A u, p : ~PartWritten(r, u, p)
    BY DEF PartWritten
  <1>2. ~Held(r)
    <2> SUFFICES ASSUME NEW v \in Reqs, r \in versions[v] PROVE FALSE
      BY DEF Held
    <2>1. r \in ctx[v].chosen /\ pc[v] \in {"delSnap", "delKeys", "delExtra", "ok", "failed"}
      BY DEF SpareInv, VersionsChosen
    <2>2. QED
      BY <1>1, <2>1 DEF SpareInv, ChosenWritten
  <1>3. ~InPart(r)
    BY <1>1, ConstantsAssumption DEF SpareInv, KeysWritten, InPart
  <1>4. versions[r] = {}
    BY DEF SpareInv, VersionsChosen
  <1>5. QED
    BY <1>2, <1>3, <1>4

\* A location is that of one part of one upload.
LEMMA OnePart ==
    ASSUME SpareInv, NEW x \in Reqs,
           NEW u \in Uploads, NEW p \in Parts, partMD[u][p] = x,
           NEW v \in Uploads, NEW q \in Parts, partMD[v][q] = x
    PROVE  u = v /\ p = q
  <1>1. PartWritten(x, u, p) /\ PartWritten(x, v, q)
    BY ConstantsAssumption DEF SpareInv, KeysWritten
  <1>2. QED
    BY <1>1 DEF PartWritten

\* The calls of a part upload.
LEMMA OrderGetPart ==
    ASSUME SpareInv, NEW r \in Reqs, Around(r), GetExistingPart(r)
    PROVE  Around(r)'
  <1> DEFINE c == ctx[r]
  <1>1. /\ UNCHANGED <<overview, partMD, data, versions, master>>
        /\ pc[r] = "getPart" /\ c.kind \in PartKinds
        /\ c.upload \in Uploads /\ c.part \in Parts
        /\ pc'[r] = IF c.kind = "putPart" THEN "storePart" ELSE "putPartMD"
        /\ ctx'[r].kind = c.kind /\ ctx'[r].upload = c.upload
        /\ ctx'[r].part = c.part /\ ctx'[r].old = partMD[c.upload][c.part]
    BY DEF GetExistingPart, store, SpareInv, TypeInv, TypeOK, RightContext,
           PartLabels, Context
  <1>2. /\ \A x : Held(x)' <=> Held(x)
        /\ \A u, x : InPartOf(u, x)' <=> InPartOf(u, x)
    BY <1>1 DEF Held, InPartOf
  <1>3. BalancedFor(r)'
    BY <1>1, <1>2 DEF Around, BalancedFor, AccountedFor, WipedBy, Carries, AboutToWrite, PartKinds
  <1>4. ApartFor(r)' /\ FlagFor(r)'
    BY <1>1, <1>2 DEF Around, ApartFor, FlagFor, Committed
  <1>5. Keeps(r)'
    BY <1>1, <1>2 DEF Around, Keeps, PartRuns, ReadsCurrent, ListedAll, SplitsParts,
         DropsOwn, PartLabels, PartKinds
  <1>6. QED
    BY <1>3, <1>4, <1>5 DEF Around

\* The data of a part is stored: the request carries it.
LEMMA OrderStorePart ==
    ASSUME SpareInv, NEW r \in Reqs, Around(r), StorePart(r)
    PROVE  Around(r)'
  <1> DEFINE c == ctx[r]
  <1>1. /\ UNCHANGED <<overview, partMD, versions, master, ctx>>
        /\ data' = data \cup {r}
        /\ pc[r] = "storePart" /\ c.kind \in PartKinds
        /\ pc'[r] = IF c.kind = "putPart" THEN "putPartMD" ELSE "getPart"
    BY DEF StorePart, store, SpareInv, TypeInv, TypeOK, RightContext, PartLabels
  <1>2. /\ \A x : Held(x)' <=> Held(x)
        /\ \A u, x : InPartOf(u, x)' <=> InPartOf(u, x)
    BY <1>1 DEF Held, InPartOf
  <1>3. BalancedFor(r)'
    BY <1>1, <1>2 DEF Around, BalancedFor, AccountedFor, WipedBy, Carries, AboutToWrite, PartKinds
  <1>4. ApartFor(r)' /\ FlagFor(r)'
    BY <1>1, <1>2 DEF Around, ApartFor, FlagFor, Committed
  <1>5. Keeps(r)'
    BY <1>1, <1>2 DEF Around, Keeps, PartRuns, ReadsCurrent, ListedAll, SplitsParts,
         DropsOwn, PartLabels, PartKinds
  <1>6. QED
    BY <1>3, <1>4, <1>5 DEF Around

\* The part key is written: the request carries what the key held before.
LEMMA OrderPutPartMD ==
    ASSUME SpareInv, SpareInv', NEW r \in Reqs, Around(r), PutPartMD(r)
    PROVE  Around(r)'
  <1> DEFINE c == ctx[r]
  <1>1. /\ UNCHANGED <<overview, data, versions, master, ctx>>
        /\ pc[r] = "putPartMD" /\ c.kind \in PartKinds
        /\ c.upload \in Uploads /\ c.part \in Parts
        /\ pc'[r] = IF c.old = None THEN "ok" ELSE "checkFlag"
        /\ partMD' = [partMD EXCEPT ![c.upload][c.part] = r]
        /\ partMD \in [Uploads -> [Parts -> Reqs \cup {None}]]
    BY DEF PutPartMD, store, SpareInv, TypeInv, TypeOK, RightContext, PartLabels
  <1>2. \A x : Held(x)' <=> Held(x)
    BY <1>1 DEF Held
  <1>3. c.old = partMD[c.upload][c.part]
    BY <1>1 DEF Around, Keeps, PartRuns
  <1>4. ASSUME NEW u \in Uploads, NEW x \in Reqs
        PROVE  InPartOf(u, x)' <=> \/ InPartOf(u, x) /\ x # c.old
                                   \/ u = c.upload /\ x = r
    <2>1. u = c.upload /\ x = r => InPartOf(u, x)'
      BY <1>1 DEF InPartOf
    <2>2. ASSUME NEW p \in Parts, partMD[u][p] = x, x # c.old PROVE InPartOf(u, x)'
      BY <1>1, <1>3, <2>2 DEF InPartOf
    <2>3. ASSUME NEW p \in Parts, partMD'[u][p] = x, ~(u = c.upload /\ x = r)
          PROVE  partMD[u][p] = x /\ x # c.old
      <3>1. partMD[u][p] = x /\ ~(u = c.upload /\ p = c.part)
        BY <1>1, <2>3
      <3>2. QED
        BY <1>1, <1>3, <3>1, OnePart
    <2>4. ASSUME InPartOf(u, x)'
          PROVE  (InPartOf(u, x) /\ x # c.old) \/ (u = c.upload /\ x = r)
      <3>1. PICK p \in Parts : partMD'[u][p] = x
        BY <2>4 DEF InPartOf
      <3>2. CASE u = c.upload /\ x = r
        BY <3>2
      <3>3. CASE ~(u = c.upload /\ x = r)
        BY <2>3, <3>1, <3>3 DEF InPartOf
      <3>4. QED
        BY <3>2, <3>3
    <2>5. ASSUME InPartOf(u, x), x # c.old PROVE InPartOf(u, x)'
      BY <2>2, <2>5 DEF InPartOf
    <2>6. QED
      BY <1>1, <2>1, <2>4, <2>5
  <1>5. ~Held(r)
    BY <1>1, NotYetWritten
  <1>6. c.old \in Reqs => InPartOf(c.upload, c.old) /\ ~Held(c.old)
    BY <1>1, <1>3 DEF InPartOf, Around, ApartFor, Committed
  <1>7. BalancedFor(r)'
    <2> SUFFICES ASSUME NEW x \in Reqs
                 PROVE  (x \in data <=> AccountedFor(r, x))'
      BY DEF BalancedFor
    <2>1. x \in data <=> \/ Held(x) \/ (\E u \in Uploads : InPartOf(u, x)) \/ x = r
      BY <1>1 DEF Around, BalancedFor, AccountedFor, WipedBy, Carries, AboutToWrite
    <2>2. AccountedFor(r, x)' <=> \/ Held(x)
                                  \/ \E u \in Uploads : InPartOf(u, x)'
                                  \/ x = c.old
      BY <1>1, <1>2, ConstantsAssumption
         DEF AccountedFor, WipedBy, Carries, AboutToWrite
    <2>3. QED
      BY <1>1, <1>4, <1>6, <2>1, <2>2
  <1>8. ApartFor(r)' /\ FlagFor(r)'
    BY <1>1, <1>2, <1>4, <1>5 DEF Around, ApartFor, FlagFor, Committed
  <1>9. Keeps(r)'
    <2>1. c.old \in Reqs \cup {None}
      BY DEF SpareInv, TypeInv, TypeOK, Context
    <2>2. QED
      BY <1>1, <1>2, <1>6, <2>1
         DEF Around, Keeps, PartRuns, ReadsCurrent, ListedAll, SplitsParts,
             DropsOwn, PartLabels
  <1>10. QED
    BY <1>7, <1>8, <1>9 DEF Around

\* The flag is down, so the replaced data goes.
LEMMA OrderCheckFlag ==
    ASSUME SpareInv, NEW r \in Reqs, Around(r), CheckCompleteInProgress(r)
    PROVE  Around(r)'
  <1>1. /\ UNCHANGED <<overview, partMD, data, versions, master, ctx>>
        /\ pc[r] = "checkFlag" /\ pc'[r] = "delOld"
    BY DEF CheckCompleteInProgress, store, SpareInv, TypeInv, TypeOK, Around,
           Keeps, PartRuns, PartLabels
  <1>2. /\ \A x : Held(x)' <=> Held(x)
        /\ \A u, x : InPartOf(u, x)' <=> InPartOf(u, x)
    BY <1>1 DEF Held, InPartOf
  <1>3. BalancedFor(r)'
    BY <1>1, <1>2 DEF Around, BalancedFor, AccountedFor, WipedBy, Carries, AboutToWrite
  <1>4. ApartFor(r)' /\ FlagFor(r)'
    BY <1>1, <1>2 DEF Around, ApartFor, FlagFor, Committed
  <1>5. Keeps(r)'
    BY <1>1, <1>2
       DEF Around, Keeps, PartRuns, ReadsCurrent, ListedAll, SplitsParts, DropsOwn, PartLabels
  <1>6. QED
    BY <1>3, <1>4, <1>5 DEF Around

\* The replaced data is deleted: it was nobody's.
LEMMA OrderDeleteOld ==
    ASSUME SpareInv, ~LossyDeletes, NEW r \in Reqs, Around(r), DeleteOldPart(r)
    PROVE  Around(r)'
  <1> DEFINE c == ctx[r]
  <1>1. /\ UNCHANGED <<overview, partMD, versions, master, ctx>>
        /\ pc[r] = "delOld" /\ pc'[r] = "ok"
        /\ c.upload \in Uploads /\ c.part \in Parts
        /\ data' = data \ {c.old}
    BY DEF DeleteOldPart, TryDelete, SpareInv, TypeInv, TypeOK, RightContext, PartLabels
  <1>2. /\ \A x : Held(x)' <=> Held(x)
        /\ \A u, x : InPartOf(u, x)' <=> InPartOf(u, x)
    BY <1>1 DEF Held, InPartOf
  <1>3. /\ c.old \in Reqs /\ ~Held(c.old)
        /\ \A u \in Uploads : ~InPartOf(u, c.old)
    BY <1>1, OldNotNeeded DEF Needed, InPart, InPartOf, Held
  <1>4. BalancedFor(r)'
    BY <1>1, <1>2, <1>3
       DEF Around, BalancedFor, AccountedFor, WipedBy, Carries, AboutToWrite
  <1>5. ApartFor(r)' /\ FlagFor(r)'
    BY <1>1, <1>2 DEF Around, ApartFor, FlagFor, Committed
  <1>6. Keeps(r)'
    BY <1>1, <1>2 DEF Around, Keeps, PartRuns, ReadsCurrent, ListedAll, SplitsParts,
         DropsOwn, PartLabels
  <1>7. QED
    BY <1>4, <1>5, <1>6 DEF Around

\* The calls of a complete up to its write of the object.
LEMMA OrderValidate ==
    ASSUME SpareInv, NEW r \in Reqs, Around(r), ValidateMultipart(r), pc'[r] # "failed"
    PROVE  Around(r)'
  <1>1. /\ UNCHANGED <<overview, partMD, data, versions, master, ctx>>
        /\ pc[r] = "validate" /\ pc'[r] = "mark"
    BY DEF ValidateMultipart, store, SpareInv, TypeInv, TypeOK
  <1>2. /\ \A x : Held(x)' <=> Held(x)
        /\ \A u, x : InPartOf(u, x)' <=> InPartOf(u, x)
    BY <1>1 DEF Held, InPartOf
  <1>3. BalancedFor(r)'
    BY <1>1, <1>2 DEF Around, BalancedFor, AccountedFor, WipedBy, Carries, AboutToWrite
  <1>4. ApartFor(r)' /\ FlagFor(r)'
    BY <1>1, <1>2 DEF Around, ApartFor, FlagFor, Committed
  <1>5. Keeps(r)'
    BY <1>1, <1>2 DEF Around, Keeps, PartRuns, ReadsCurrent, CurrentLocations,
                      ListedAll, SplitsParts, DropsOwn, PartLabels
  <1>6. QED
    BY <1>3, <1>4, <1>5 DEF Around

\* The flag goes up.
LEMMA OrderMark ==
    ASSUME SpareInv, NEW r \in Reqs, Around(r), MarkForCompletion(r)
    PROVE  Around(r)'
  <1>1. /\ UNCHANGED <<partMD, data, versions, master, ctx>>
        /\ pc[r] = "mark" /\ pc'[r] = "list" /\ ctx[r].kind = "complete"
        /\ ctx[r].upload \in Uploads
        /\ overview' = [overview EXCEPT ![ctx[r].upload] = "completing"]
        /\ overview \in [Uploads -> OverviewStates]
    BY DEF MarkForCompletion, SpareInv, TypeInv, TypeOK, RightContext
  <1>2. /\ \A x : Held(x)' <=> Held(x)
        /\ \A u, x : InPartOf(u, x)' <=> InPartOf(u, x)
    BY <1>1 DEF Held, InPartOf
  <1>3. BalancedFor(r)'
    BY <1>1, <1>2 DEF Around, BalancedFor, AccountedFor, WipedBy, Carries, AboutToWrite
  <1>4. ApartFor(r)' /\ FlagFor(r)'
    BY <1>1, <1>2 DEF Around, ApartFor, FlagFor, Committed
  <1>5. Keeps(r)'
    BY <1>1, <1>2 DEF Around, Keeps, PartRuns, ReadsCurrent, CurrentLocations,
                      ListedAll, SplitsParts, DropsOwn, PartLabels
  <1>6. QED
    BY <1>3, <1>4, <1>5 DEF Around

\* What is current is held.
LEMMA CurrentHeld ==
    ASSUME TypeInv, NEW x \in CurrentLocations
    PROVE  x \in Reqs /\ Held(x)
  BY DEF CurrentLocations, Held, TypeInv, TypeOK

\* The parts are split into those of the list and the others: none is one of
\* the current version, so it is not taken for a replay.
LEMMA OrderRetrieve ==
    ASSUME SpareInv, NEW r \in Reqs, NEW list \in PartLists, Around(r),
           RetrieveParts(r, list), pc'[r] # "failed"
    PROVE  Around(r)'
  <1> DEFINE c == ctx[r]
             u == c.upload
             chosen == LocationsOf(u, list)
             extra == LocationsOf(u, Stored(u) \ list)
  <1>1. /\ UNCHANGED <<overview, partMD, data, versions, master>>
        /\ pc[r] = "list" /\ c.kind = "complete" /\ u \in Uploads
        /\ list \subseteq Stored(u)
        /\ ctx' = [ctx EXCEPT ![r].chosen = chosen, ![r].extra = extra,
                              ![r].keys = KeysToDelete(u)]
        /\ pc'[r] = IF LocationKeysHaveChanged(c.snap, chosen)
                    THEN "storeObj" ELSE "delKeys"
    BY DEF RetrieveParts, store, SpareInv, TypeInv, TypeOK, RightContext
  <1>2. /\ ctx'[r].kind = c.kind /\ ctx'[r].upload = u /\ ctx'[r].snap = c.snap
        /\ ctx'[r].chosen = chosen /\ ctx'[r].extra = extra
        /\ ctx'[r].keys = KeysToDelete(u)
    BY <1>1 DEF SpareInv, TypeInv, TypeOK, Context
  <1>3. /\ \A x : Held(x)' <=> Held(x)
        /\ \A v, x : InPartOf(v, x)' <=> InPartOf(v, x)
        /\ CurrentLocations' = CurrentLocations
    BY <1>1 DEF Held, InPartOf, CurrentLocations
  <1>4. /\ \A x \in chosen \cup extra : x \in Reqs /\ InPartOf(u, x)
        /\ chosen \cap extra = {}
        /\ \A x \in Reqs : InPartOf(u, x) => x \in chosen \cup extra
    <2>1. \A p \in Stored(u) : partMD[u][p] \in Reqs /\ p \in Parts
      <3>1. partMD[u] \in [Parts -> Reqs \cup {None}]
        BY <1>1 DEF SpareInv, TypeInv, TypeOK
      <3>2. QED
        BY <3>1 DEF Stored
    <2>2. \A x \in chosen \cup extra : x \in Reqs /\ InPartOf(u, x)
      BY <1>1, <2>1 DEF LocationsOf, InPartOf
    <2>3. chosen \cap extra = {}
      <3> SUFFICES ASSUME NEW p \in list, NEW q \in Stored(u) \ list,
                          partMD[u][p] = partMD[u][q]
                   PROVE  FALSE
        BY DEF LocationsOf
      <3>1. p = q
        BY <1>1, <2>1, OnePart
      <3>2. QED
        BY <3>1
    <2>4. \A x \in Reqs : InPartOf(u, x) => x \in chosen \cup extra
      BY ConstantsAssumption DEF LocationsOf, InPartOf, Stored
    <2>5. QED
      BY <2>2, <2>3, <2>4
  <1>5. pc'[r] = "storeObj"
    <2>1. c.snap = CurrentLocations
      BY <1>1 DEF Around, Keeps, ReadsCurrent
    <2>2. \A x \in chosen : x \notin c.snap
      BY <1>1, <1>4, <2>1, CurrentHeld DEF Around, ApartFor, Committed, SpareInv
    <2>3. QED
      BY <1>1, <2>2 DEF LocationKeysHaveChanged
  <1> HIDE DEF chosen, extra
  <1>6. BalancedFor(r)'
    BY <1>1, <1>2, <1>3, <1>5
       DEF Around, BalancedFor, AccountedFor, WipedBy, Carries, AboutToWrite
  <1>7. ApartFor(r)' /\ FlagFor(r)'
    BY <1>1, <1>2, <1>3, <1>5 DEF Around, ApartFor, FlagFor, Committed
  <1>8. PartRuns(r)' /\ ReadsCurrent(r)' /\ DropsOwn(r)'
    BY <1>1, <1>2, <1>3, <1>5
       DEF Around, Keeps, PartRuns, ReadsCurrent, DropsOwn, PartLabels
  <1>9. ListedAll(r)'
    BY <1>1, <1>2, <1>5 DEF ListedAll, KeysToDelete, Stored
  <1>10. SplitsParts(r)'
    BY <1>1, <1>2, <1>3, <1>4, <1>5 DEF SplitsParts
  <1>11. QED
    BY <1>6, <1>7, <1>8, <1>9, <1>10 DEF Around, Keeps

\* A plain PUT stores its data: the request carries it.
LEMMA OrderStoreData ==
    ASSUME SpareInv, NEW r \in Reqs, Around(r), StoreData(r)
    PROVE  Around(r)'
  <1> DEFINE c == ctx[r]
  <1>1. /\ UNCHANGED <<overview, partMD, versions, master>>
        /\ data' = data \cup {r}
        /\ pc[r] = "storeData" /\ pc'[r] = "storeObj" /\ c.kind = "put"
        /\ ctx'[r].kind = c.kind /\ ctx'[r].snap = c.snap
        /\ ctx'[r].extra = c.extra /\ ctx'[r].chosen = {r}
    BY DEF StoreData, SpareInv, TypeInv, TypeOK, RightContext, Context
  <1>2. /\ \A x : Held(x)' <=> Held(x)
        /\ \A u, x : InPartOf(u, x)' <=> InPartOf(u, x)
        /\ CurrentLocations' = CurrentLocations
    BY <1>1 DEF Held, InPartOf, CurrentLocations
  <1>3. BalancedFor(r)'
    BY <1>1, <1>2 DEF Around, BalancedFor, AccountedFor, WipedBy, Carries, AboutToWrite
  <1>4. ApartFor(r)' /\ FlagFor(r)'
    BY <1>1, <1>2 DEF Around, ApartFor, FlagFor, Committed
  <1>5. Keeps(r)'
    BY <1>1, <1>2 DEF Around, Keeps, PartRuns, ReadsCurrent, ListedAll, SplitsParts,
         DropsOwn, PartLabels
  <1>6. QED
    BY <1>3, <1>4, <1>5 DEF Around

\* The object is written: it takes over what was picked, and without versioning
\* the request carries what the former version held.
LEMMA OrderStoreObject ==
    ASSUME SpareInv, CurrentOnly, NEW r \in Reqs, Around(r), StoreObject(r)
    PROVE  Around(r)'
  <1> DEFINE c == ctx[r]
  <1>1. /\ UNCHANGED <<overview, partMD, data, ctx>>
        /\ master' = r
        /\ versions' = [q \in Reqs |-> CASE q = r -> c.chosen
                                         [] q # r /\ Versioned -> versions[q]
                                         [] OTHER -> {}]
        /\ pc[r] = "storeObj" /\ c.kind \in {"put", "complete"}
        /\ pc'[r] = IF ~Versioned /\ c.snap # {} THEN "delSnap" ELSE AfterStore(r)
        /\ c.kind = "complete" => c.upload \in Uploads
    BY DEF StoreObject, SpareInv, TypeInv, TypeOK, RightContext
  <1>2. /\ \A u, x : InPartOf(u, x)' <=> InPartOf(u, x)
        /\ \A q \in Reqs \ {r} : versions'[q] = IF Versioned THEN versions[q] ELSE {}
        /\ versions'[r] = c.chosen
    BY <1>1 DEF InPartOf
  <1>3. \A x : Held(x)' <=> x \in c.chosen \/ (Versioned /\ Held(x))
    BY <1>1, <1>2, NotYetWritten DEF Held
  <1>4. \A x : x \in c.snap => Held(x)
    BY <1>1, CurrentHeld DEF Around, Keeps, ReadsCurrent, SpareInv
  <1>5. ~Versioned => \A x : Held(x) => x \in c.snap
    <2>1. c.snap = CurrentLocations
      BY <1>1 DEF Around, Keeps, ReadsCurrent
    <2>2. None \notin Reqs
      BY ConstantsAssumption
    <2>3. QED
      BY <2>1, <2>2 DEF CurrentOnly, Held, CurrentLocations
  <1>6. \A u \in Uploads, x \in Reqs : InPartOf(u, x) => ~Held(x)
    BY <1>1 DEF Around, ApartFor, Committed
  <1>7. \A x \in c.chosen \cup c.extra \cup c.snap : x \in Reqs
    BY DEF SpareInv, TypeInv, TypeOK, Context
  <1>8. ~Held(r) /\ ~InPart(r)
    BY <1>1, NotYetWritten
  <1>9. CASE c.kind = "put"
    <2>1. c.chosen = {r} /\ c.extra = {}
      BY <1>1, <1>9 DEF Around, Keeps, DropsOwn
    <2>2. pc'[r] = IF ~Versioned /\ c.snap # {} THEN "delSnap" ELSE "ok"
      BY <1>1, <1>9 DEF AfterStore
    <2>3. \A u \in Uploads : ~InPartOf(u, r)
      BY <1>8 DEF InPart, InPartOf
    <2>4. BalancedFor(r)'
      <3> SUFFICES ASSUME NEW x \in Reqs
                   PROVE  (x \in data <=> AccountedFor(r, x))'
        BY DEF BalancedFor
      <3>1. x \in data <=> \/ Held(x)
                           \/ \E u \in Uploads : InPartOf(u, x)
                           \/ x = r
        BY <1>1, <1>9 DEF Around, BalancedFor, AccountedFor, WipedBy, Carries, AboutToWrite
      <3>2. AccountedFor(r, x)' <=> \/ Held(x)'
                                    \/ \E u \in Uploads : InPartOf(u, x)
                                    \/ ~Versioned /\ x \in c.snap
        BY <1>1, <1>2, <2>1, <2>2 DEF AccountedFor, WipedBy, Carries, AboutToWrite
      <3>3. QED
        BY <1>1, <1>3, <1>4, <1>5, <2>1, <3>1, <3>2
    <2>5. ApartFor(r)' /\ FlagFor(r)'
      BY <1>1, <1>2, <1>3, <1>6, <1>9, <2>1, <2>3 DEF Around, ApartFor, FlagFor, Committed
    <2>6. DropsOwn(r)'
      BY <1>1, <1>2, <1>3, <1>4, <1>6, <1>7, <1>8, <1>9, <2>1, <2>2
         DEF DropsOwn, InPart, InPartOf
    <2>7. Keeps(r)'
      BY <1>1, <1>9, <2>2, <2>6
         DEF Keeps, PartRuns, ReadsCurrent, ListedAll, SplitsParts, PartLabels
    <2>8. QED
      BY <2>4, <2>5, <2>7 DEF Around
  <1>10. CASE c.kind = "complete"
    <2>1. /\ \A x \in Reqs : InPartOf(c.upload, x) <=> x \in c.chosen \cup c.extra
          /\ c.chosen \cap c.extra = {}
      BY <1>1, <1>7, <1>10 DEF Around, Keeps, SplitsParts
    <2>2. pc'[r] = IF ~Versioned /\ c.snap # {} THEN "delSnap" ELSE "delKeys"
      BY <1>1, <1>10 DEF AfterStore
    <2>3. ASSUME NEW u \in Uploads, NEW x \in Reqs, InPartOf(u, x),
                 InPartOf(c.upload, x)
          PROVE  u = c.upload
      BY <1>1, <1>10, <2>3, OnePart DEF InPartOf
    <2>4. BalancedFor(r)'
      <3> SUFFICES ASSUME NEW x \in Reqs
                   PROVE  (x \in data <=> AccountedFor(r, x))'
        BY DEF BalancedFor
      <3>1. x \in data <=> \/ Held(x)
                           \/ \E u \in Uploads : InPartOf(u, x)
        BY <1>1, <1>10 DEF Around, BalancedFor, AccountedFor, WipedBy, Carries, AboutToWrite
      <3>2. AccountedFor(r, x)' <=> \/ Held(x)'
                                    \/ \E u \in Uploads : InPartOf(u, x)
                                    \/ ~Versioned /\ x \in c.snap
                                    \/ x \in c.extra
        BY <1>1, <1>2, <1>10, <2>2 DEF AccountedFor, WipedBy, Carries, AboutToWrite
      <3>3. QED
        BY <1>1, <1>3, <1>4, <1>5, <1>10, <2>1, <3>1, <3>2
    <2>5. ApartFor(r)' /\ FlagFor(r)'
      BY <1>1, <1>2, <1>3, <1>6, <1>10, <2>1, <2>2, <2>3
         DEF Around, ApartFor, FlagFor, Committed
    <2>6. DropsOwn(r)'
      <3>1. \A x \in c.snap : ~InPart(x) /\ x \notin c.extra /\ x \notin c.chosen
        BY <1>1, <1>4, <1>6, <1>7, <1>10, <2>1 DEF InPart, InPartOf
      <3>2. \A x \in c.extra : ~Held(x) /\ x \notin c.chosen
        BY <1>1, <1>6, <1>7, <1>10, <2>1
      <3>3. \A x \in c.extra : \A u \in Uploads : InPartOf(u, x) => u = c.upload
        BY <1>7, <2>1, <2>3
      <3>4. QED
        BY <1>1, <1>2, <1>3, <1>10, <2>2, <3>1, <3>2, <3>3 DEF DropsOwn, InPart
    <2>7. ListedAll(r)' /\ SplitsParts(r)'
      BY <1>1, <1>2, <1>10, <2>1, <2>2 DEF Around, Keeps, ListedAll, SplitsParts
    <2>8. PartRuns(r)' /\ ReadsCurrent(r)'
      BY <1>1, <2>2 DEF PartRuns, ReadsCurrent, PartLabels
    <2>9. QED
      BY <2>4, <2>5, <2>6, <2>7, <2>8 DEF Around, Keeps
  <1>11. QED
    BY <1>1, <1>9, <1>10

\* A deletion that succeeds has deleted everything.
LEMMA OrderDeleteOverwritten ==
    ASSUME SpareInv, NEW r \in Reqs, Around(r), DeleteOverwritten(r), pc'[r] # "failed"
    PROVE  Around(r)'
  <1> DEFINE c == ctx[r]
  <1>1. /\ UNCHANGED <<overview, partMD, master, versions, ctx>>
        /\ pc[r] = "delSnap" /\ c.kind \in {"put", "complete"}
        /\ data' = data \ c.snap
        /\ pc'[r] = IF c.kind = "complete" THEN "delKeys" ELSE "ok"
        /\ c.kind = "complete" => c.upload \in Uploads
    BY DEF DeleteOverwritten, DeleteLocations, AfterStore, SpareInv, TypeInv,
           TypeOK, RightContext
  <1>2. /\ \A x : Held(x)' <=> Held(x)
        /\ \A u, x : InPartOf(u, x)' <=> InPartOf(u, x)
    BY <1>1 DEF Held, InPartOf
  <1>3. \A x \in c.snap : /\ ~Held(x) /\ x \notin c.extra
                          /\ \A u \in Uploads : ~InPartOf(u, x)
    BY <1>1 DEF Around, Keeps, DropsOwn, InPart, InPartOf
  <1>4. c.kind = "put" => c.extra = {}
    BY <1>1 DEF Around, Keeps, DropsOwn
  <1>5. BalancedFor(r)'
    BY <1>1, <1>2, <1>3, <1>4
       DEF Around, BalancedFor, AccountedFor, WipedBy, Carries, AboutToWrite
  <1>6. ApartFor(r)' /\ FlagFor(r)'
    BY <1>1, <1>2 DEF Around, ApartFor, FlagFor, Committed
  <1>7. ListedAll(r)' /\ SplitsParts(r)'
    BY <1>1, <1>2 DEF Around, Keeps, ListedAll, SplitsParts
  <1>8. PartRuns(r)' /\ ReadsCurrent(r)' /\ DropsOwn(r)'
    BY <1>1, <1>2 DEF Around, Keeps, PartRuns, ReadsCurrent, DropsOwn, PartLabels
  <1>9. QED
    BY <1>5, <1>6, <1>7, <1>8 DEF Around, Keeps

\* The data of the parts left out goes last.
LEMMA OrderDeleteExtra ==
    ASSUME SpareInv, NEW r \in Reqs, Around(r), DeleteExtraParts(r), pc'[r] # "failed"
    PROVE  Around(r)'
  <1> DEFINE c == ctx[r]
  <1>1. /\ UNCHANGED <<overview, partMD, master, versions, ctx>>
        /\ pc[r] = "delExtra" /\ pc'[r] = "ok"
        /\ data' = data \ c.extra
    BY DEF DeleteExtraParts, DeleteLocations, SpareInv, TypeInv, TypeOK
  <1>2. /\ \A x : Held(x)' <=> Held(x)
        /\ \A u, x : InPartOf(u, x)' <=> InPartOf(u, x)
    BY <1>1 DEF Held, InPartOf
  <1>3. \A x \in c.extra : ~Held(x) /\ \A u \in Uploads : ~InPartOf(u, x)
    BY <1>1 DEF Around, Keeps, DropsOwn
  <1>4. BalancedFor(r)'
    BY <1>1, <1>2, <1>3
       DEF Around, BalancedFor, AccountedFor, WipedBy, Carries, AboutToWrite
  <1>5. ApartFor(r)' /\ FlagFor(r)'
    BY <1>1, <1>2 DEF Around, ApartFor, FlagFor, Committed
  <1>6. Keeps(r)'
    BY <1>1 DEF Keeps, PartRuns, ReadsCurrent, ListedAll, SplitsParts, DropsOwn, PartLabels
  <1>7. QED
    BY <1>4, <1>5, <1>6 DEF Around

\* An abort lists the parts.
LEMMA OrderGetLocations ==
    ASSUME SpareInv, NEW r \in Reqs, Around(r), GetPartLocations(r)
    PROVE  Around(r)'
  <1> DEFINE c == ctx[r]
             u == c.upload
             extra == LocationsOf(u, Stored(u))
  <1>1. /\ UNCHANGED <<overview, partMD, data, versions, master>>
        /\ pc[r] = "listAbort" /\ pc'[r] = "abortData" /\ u \in Uploads
        /\ ctx' = [ctx EXCEPT ![r].extra = extra, ![r].keys = KeysToDelete(u)]
    BY DEF GetPartLocations, store, SpareInv, TypeInv, TypeOK, RightContext, UploadLabels
  <1>2. /\ ctx'[r].kind = c.kind /\ ctx'[r].upload = u
        /\ ctx'[r].extra = extra /\ ctx'[r].keys = KeysToDelete(u)
    BY <1>1 DEF SpareInv, TypeInv, TypeOK, Context
  <1>3. /\ \A x : Held(x)' <=> Held(x)
        /\ \A v, x : InPartOf(v, x)' <=> InPartOf(v, x)
    BY <1>1 DEF Held, InPartOf
  <1>4. \A x \in Reqs : x \in extra <=> InPartOf(u, x)
    BY ConstantsAssumption DEF LocationsOf, Stored, InPartOf
  <1> HIDE DEF extra
  <1>5. BalancedFor(r)'
    BY <1>1, <1>3 DEF Around, BalancedFor, AccountedFor, WipedBy, Carries, AboutToWrite
  <1>6. ApartFor(r)' /\ FlagFor(r)'
    BY <1>1, <1>3 DEF Around, ApartFor, FlagFor, Committed
  <1>7. ListedAll(r)'
    BY <1>1, <1>2 DEF ListedAll, KeysToDelete, Stored
  <1>8. DropsOwn(r)'
    BY <1>1, <1>2, <1>3, <1>4 DEF Around, Keeps, DropsOwn
  <1>9. PartRuns(r)' /\ ReadsCurrent(r)' /\ SplitsParts(r)'
    BY <1>1 DEF PartRuns, ReadsCurrent, SplitsParts, PartLabels
  <1>10. QED
    BY <1>5, <1>6, <1>7, <1>8, <1>9 DEF Around, Keeps

\* It deletes their data first.
LEMMA OrderDeleteParts ==
    ASSUME SpareInv, ~LossyDeletes, NEW r \in Reqs, Around(r), DeletePartsData(r)
    PROVE  Around(r)'
  <1> DEFINE c == ctx[r]
             u == c.upload
  <1>1. /\ UNCHANGED <<overview, partMD, versions, master>>
        /\ data' = data \ c.extra
        /\ pc[r] = "abortData" /\ pc'[r] = "delKeys" /\ u \in Uploads
        /\ c.kind \in {"complete", "abort"}
        /\ ctx'[r].kind = c.kind /\ ctx'[r].upload = u
        /\ ctx'[r].extra = {} /\ ctx'[r].keys = c.keys
    BY DEF DeletePartsData, TryDelete, SpareInv, TypeInv, TypeOK, RightContext,
           UploadLabels, Context
  <1>2. /\ \A x : Held(x)' <=> Held(x)
        /\ \A v, x : InPartOf(v, x)' <=> InPartOf(v, x)
    BY <1>1 DEF Held, InPartOf
  <1>3. c.kind = "abort"
    BY <1>1 DEF Around, Keeps, DropsOwn
  <1>4. \A x \in Reqs : x \in c.extra <=> InPartOf(u, x)
    BY <1>1 DEF Around, Keeps, DropsOwn
  <1>5. \A v \in Uploads, x \in Reqs : InPartOf(v, x) /\ InPartOf(u, x) => v = u
    BY <1>1, OnePart DEF InPartOf
  <1>6. \A v \in Uploads, x \in Reqs : InPartOf(v, x) => ~Held(x)
    BY <1>1 DEF Around, ApartFor, Committed
  <1>7. BalancedFor(r)'
    <2> SUFFICES ASSUME NEW x \in Reqs
                 PROVE  (x \in data <=> AccountedFor(r, x))'
      BY DEF BalancedFor
    <2>1. x \in data <=> Held(x) \/ \E v \in Uploads : InPartOf(v, x)
      BY <1>1 DEF Around, BalancedFor, AccountedFor, WipedBy, Carries, AboutToWrite
    <2>2. AccountedFor(r, x)' <=> Held(x) \/ \E v \in Uploads : InPartOf(v, x) /\ v # u
      BY <1>1, <1>2, <1>3 DEF AccountedFor, WipedBy, Carries, AboutToWrite
    <2>3. QED
      BY <1>1, <1>4, <1>5, <1>6, <2>1, <2>2
  <1>8. ApartFor(r)' /\ FlagFor(r)'
    BY <1>1, <1>2 DEF Around, ApartFor, FlagFor, Committed
  <1>9. ListedAll(r)' /\ SplitsParts(r)'
    BY <1>1, <1>3 DEF Around, Keeps, ListedAll, SplitsParts
  <1>10. PartRuns(r)' /\ ReadsCurrent(r)' /\ DropsOwn(r)'
    BY <1>1, <1>2 DEF PartRuns, ReadsCurrent, DropsOwn, PartLabels
  <1>11. QED
    BY <1>7, <1>8, <1>9, <1>10 DEF Around, Keeps

\* A key of the upload is deleted.  After a complete, what it held is in the
\* object or carried; after an abort, it was deleted.
LEMMA OrderDeleteKey ==
    ASSUME SpareInv, NEW r \in Reqs, NEW k \in Parts \cup {"overview"},
           NEW u \in Uploads, u = ctx[r].upload,
           Around(r), DeleteMultipartKey(r, k)
    PROVE  Around(r)'
  <1> DEFINE c == ctx[r]
             left == c.keys \ {k}
  <1>1. /\ UNCHANGED <<data, versions, master>>
        /\ pc[r] = "delKeys" /\ c.upload = u /\ k \in c.keys
        /\ c.kind \in {"complete", "abort"}
        /\ ctx'[r].kind = c.kind /\ ctx'[r].upload = u
        /\ ctx'[r].chosen = c.chosen /\ ctx'[r].extra = c.extra
        /\ ctx'[r].keys = left
        /\ pc'[r] = IF left # {} THEN "delKeys"
                    ELSE IF c.extra = {} THEN "ok" ELSE "delExtra"
    BY DEF DeleteMultipartKey, AfterKeys, SpareInv, TypeInv, TypeOK,
           RightContext, UploadLabels, Context
  <1>2. /\ overview \in [Uploads -> OverviewStates]
        /\ partMD \in [Uploads -> [Parts -> Reqs \cup {None}]]
        /\ None \notin Reqs /\ "overview" \notin Parts
        /\ c.keys \subseteq Parts \cup {"overview"}
        /\ c.extra \subseteq Reqs
    BY ConstantsAssumption DEF SpareInv, TypeInv, TypeOK, Context
  <1>3. /\ \A v \in Uploads : overview'[v] = IF k = "overview" /\ v = u THEN "gone"
                                             ELSE overview[v]
        /\ \A v \in Uploads, p \in Parts :
              partMD'[v][p] = IF k = p /\ v = u THEN None ELSE partMD[v][p]
    <2>1. CASE k = "overview"
      BY <1>1, <1>2, <2>1 DEF DeleteMultipartKey
    <2>2. CASE k # "overview"
      BY <1>1, <1>2, <2>2 DEF DeleteMultipartKey
    <2>3. QED
      BY <2>1, <2>2
  <1>4. \A x : Held(x)' <=> Held(x)
    BY <1>1 DEF Held
  <1>5. /\ \A v \in Uploads, x \in Reqs : InPartOf(v, x)' => InPartOf(v, x)
        /\ \A v \in Uploads \ {u}, x \in Reqs : InPartOf(v, x) => InPartOf(v, x)'
    BY <1>2, <1>3 DEF InPartOf
  <1>6. left = {} => \A x \in Reqs : ~InPartOf(u, x)'
    <2> SUFFICES ASSUME left = {}, NEW p \in Parts PROVE partMD'[u][p] \notin Reqs
      BY DEF InPartOf
    <2>1. partMD[u][p] # None => p = k
      BY <1>1 DEF Around, Keeps, ListedAll
    <2>2. QED
      BY <1>1, <1>2, <1>3, <2>1
  <1>7. ListedAll(r)'
    <2> SUFFICES /\ \A p \in Parts : partMD'[u][p] # None => p \in left
                 /\ "overview" \notin left => overview'[u] = "gone"
      BY <1>1 DEF ListedAll
    <2>1. /\ \A p \in Parts : partMD[u][p] # None => p \in c.keys
          /\ "overview" \notin c.keys => overview[u] = "gone"
      BY <1>1 DEF Around, Keeps, ListedAll
    <2>2. QED
      BY <1>1, <1>3, <2>1
  <1>8. FlagFor(r)'
    <2>1. left = {} => overview'[u] = "gone"
      BY <1>1, <1>3, <1>2 DEF Around, Keeps, ListedAll
    <2>2. QED
      BY <1>1, <1>3, <2>1 DEF Around, FlagFor
  <1>9. ApartFor(r)'
    BY <1>1, <1>4, <1>5, <1>6 DEF Around, ApartFor, Committed
  <1>10. c.kind = "abort" => c.extra = {}
    BY <1>1 DEF Around, Keeps, DropsOwn
  <1>11. DropsOwn(r)'
    BY <1>1, <1>2, <1>4, <1>5, <1>6, <1>10 DEF Around, Keeps, DropsOwn
  <1>12. SplitsParts(r)'
    BY <1>1, <1>5 DEF Around, Keeps, SplitsParts
  <1>13. PartRuns(r)' /\ ReadsCurrent(r)'
    BY <1>1 DEF PartRuns, ReadsCurrent, PartLabels
  <1>14. BalancedFor(r)'
    <2> SUFFICES ASSUME NEW x \in Reqs
                 PROVE  (x \in data <=> AccountedFor(r, x))'
      BY DEF BalancedFor
    <2>1. CASE c.kind = "complete"
      <3>1. x \in data <=> \/ Held(x)
                           \/ \E v \in Uploads : InPartOf(v, x)
                           \/ x \in c.extra
        BY <1>1, <2>1 DEF Around, BalancedFor, AccountedFor, WipedBy, Carries, AboutToWrite
      <3>2. AccountedFor(r, x)' <=> \/ Held(x)
                                    \/ \E v \in Uploads : InPartOf(v, x)'
                                    \/ x \in c.extra
        BY <1>1, <1>4, <2>1 DEF AccountedFor, WipedBy, Carries, AboutToWrite
      <3>3. InPartOf(u, x) => Held(x) \/ x \in c.extra
        BY <1>1, <2>1 DEF Around, Keeps, SplitsParts, Held
      <3>4. QED
        BY <1>1, <1>5, <3>1, <3>2, <3>3
    <2>2. CASE c.kind = "abort"
      <3>1. x \in data <=> Held(x) \/ \E v \in Uploads : InPartOf(v, x) /\ v # u
        BY <1>1, <1>10, <2>2
           DEF Around, BalancedFor, AccountedFor, WipedBy, Carries, AboutToWrite
      <3>2. AccountedFor(r, x)' <=>
                Held(x) \/ \E v \in Uploads : InPartOf(v, x)' /\ (v # u \/ left = {})
        BY <1>1, <1>4, <1>10, <2>2
           DEF AccountedFor, WipedBy, Carries, AboutToWrite
      <3>3. QED
        BY <1>1, <1>5, <1>6, <3>1, <3>2
    <2>3. QED
      BY <1>1, <2>1, <2>2
  <1>15. QED
    BY <1>7, <1>8, <1>9, <1>11, <1>12, <1>13, <1>14 DEF Around, Keeps

\* A client that waits starts a request where none runs.
LEMMA ArriveOrder ==
    ASSUME SpareInv, Order, Discipline = "sequential", NEW r \in Reqs, Arrive(r),
           pc'[r] # "failed"
    PROVE  Order'
  <1>1. /\ UNCHANGED <<overview, partMD, data, versions, master>>
        /\ pc[r] = "idle"
        /\ \A q \in Reqs \ {r} : pc'[q] = pc[q]
        /\ pc \in [Reqs -> Labels] /\ ctx \in [Reqs -> Context]
        /\ overview \in [Uploads -> OverviewStates]
    BY DEF SpareInv, TypeInv, TypeOK, Arrive, StartPart, StartComplete,
           StartAbort, StartPut, MayStart, store
  <1>2. \A q \in Reqs : ~Running(q)
    BY DEF Arrive, StartPart, StartComplete, StartAbort, StartPut, MayStart
  <1>3. Around(r) /\ Alone(r)'
    BY <1>1, <1>2, OrderAround DEF Alone, Running
  <1>4. \A u \in Uploads : Exists(u) => overview[u] = "open"
    BY <1>1, <1>3 DEF Around, FlagFor, Exists
  <1>5. /\ \/ /\ pc'[r] = "getPart" /\ ctx'[r].kind = "putPart"
              /\ overview[ctx'[r].upload] = "open"
           \/ /\ pc'[r] = "storePart" /\ ctx'[r].kind = "copyPart"
              /\ overview[ctx'[r].upload] = "open"
           \/ pc'[r] = "validate"
           \/ pc'[r] \in {"listAbort", "ok"} /\ ctx'[r].kind = "abort"
           \/ pc'[r] = "storeData"
        /\ pc'[r] \in {"validate", "storeData"} => ctx'[r].snap = CurrentLocations
        /\ ctx'[r].extra = {}
    <2>1. ASSUME NEW u \in Uploads, NEW p \in Parts, NEW k \in Kinds,
                 StartPart(r, u, p, k)
          PROVE  /\ \/ pc'[r] = "getPart" /\ ctx'[r].kind = "putPart"
                    \/ pc'[r] = "storePart" /\ ctx'[r].kind = "copyPart"
                 /\ overview[ctx'[r].upload] = "open"
                 /\ ctx'[r].extra = {}
      <3>1. /\ ctx'[r] = Opened(k, u, p, {}) /\ k \in {"putPart", "copyPart"}
            /\ pc'[r] = CASE ~Exists(u) -> "failed"
                          [] Exists(u) /\ k = "putPart" -> "getPart"
                          [] OTHER -> "storePart"
        BY <1>1, <2>1 DEF StartPart
      <3>2. /\ ctx'[r].kind = k /\ ctx'[r].upload = u /\ ctx'[r].extra = {}
        BY <3>1 DEF Opened
      <3>3. Exists(u)
        BY <3>1
      <3>4. overview[u] = "open"
        BY <1>4, <3>3
      <3>5. QED
        BY <3>1, <3>2, <3>3, <3>4
    <2>2. ASSUME NEW u \in Uploads, StartComplete(r, u)
          PROVE  /\ pc'[r] = "validate" /\ ctx'[r].snap = CurrentLocations
                 /\ ctx'[r].extra = {}
      BY <1>1, <2>2 DEF StartComplete, Opened
    <2>3. ASSUME NEW u \in Uploads, StartAbort(r, u)
          PROVE  pc'[r] \in {"listAbort", "ok"} /\ ctx'[r].kind = "abort" /\ ctx'[r].extra = {}
      BY <1>1, <2>3 DEF StartAbort, Opened
    <2>4. CASE StartPut(r)
      BY <1>1, <2>4 DEF StartPut, Opened
    <2>5. QED
      BY <2>1, <2>2, <2>3, <2>4 DEF Arrive
  <1>6. /\ \A x : Held(x)' <=> Held(x)
        /\ \A u, x : InPartOf(u, x)' <=> InPartOf(u, x)
        /\ CurrentLocations' = CurrentLocations
    BY <1>1 DEF Held, InPartOf, CurrentLocations
  <1>7. BalancedFor(r)'
    BY <1>1, <1>3, <1>5, <1>6
       DEF Around, BalancedFor, AccountedFor, WipedBy, Carries, AboutToWrite
  <1>8. ApartFor(r)' /\ FlagFor(r)'
    BY <1>1, <1>3, <1>6 DEF Around, ApartFor, FlagFor, Committed
  <1>9. Keeps(r)'
    BY <1>1, <1>5, <1>6
       DEF Keeps, PartRuns, ReadsCurrent, ListedAll, SplitsParts, DropsOwn, PartLabels
  <1>10. QED
    BY <1>3, <1>7, <1>8, <1>9, AroundOrder DEF Around

\* Each call of the running request.
LEMMA StepOrder ==
    ASSUME SpareInv, SpareInv', CurrentOnly, Order, ~LossyDeletes,
           NEW r \in Reqs, Step(r), UNCHANGED client, pc'[r] # "failed"
    PROVE  Order'
  <1>1. TypeInv /\ StepFrame(r) /\ Running(r) /\ (pc[r] = "delKeys" => ctx[r].upload \in Uploads)
    BY StepFrames, StepEffects, EndingLabels
       DEF SpareInv, StepEffect, Running, Done, UploadLabels
  <1>2. Alone(r) /\ Alone(r)'
    BY <1>1 DEF Order, Solo, Alone, StepFrame, Running
  <1>3. Around(r)
    BY <1>2, OrderAround
  <1>4. Around(r)'
    <2>1. ASSUME NEW k \in Parts \cup {"overview"}, DeleteMultipartKey(r, k)
          PROVE  Around(r)'
      BY <1>1, <1>3, <2>1, OrderDeleteKey DEF DeleteMultipartKey
    <2>2. ASSUME NEW list \in PartLists, RetrieveParts(r, list) PROVE Around(r)'
      BY <1>3, <2>2, OrderRetrieve
    <2>3. QED
      BY <1>3, <2>1, <2>2, OrderGetPart, OrderStorePart, OrderPutPartMD,
         OrderCheckFlag, OrderDeleteOld, OrderValidate, OrderMark,
         OrderStoreData, OrderStoreObject, OrderDeleteOverwritten,
         OrderDeleteExtra, OrderGetLocations, OrderDeleteParts
         DEF Step
  <1>5. QED
    BY <1>2, <1>4, AroundOrder

\* Every step keeps the order, as long as every request succeeds: one that
\* failed stays failed.
LEMMA NextCalm ==
    ASSUME SpareInv, CurrentOnly, CalmInv, [Next]_vars
    PROVE  CalmInv'
  <1> SUFFICES ASSUME Calm' PROVE Order'
    BY DEF CalmInv
  <1>1. SpareInv' /\ pc \in [Reqs -> Labels]
    BY NextSpare DEF SpareInv, TypeInv, TypeOK
  <1>2. UNCHANGED client
    BY DEF Next, vars
  <1>3. /\ Discipline = "sequential" /\ ~LossyDeletes
        /\ \A r \in Reqs : pc'[r] # "failed"
    BY <1>2 DEF Calm, Discipline, LossyDeletes
  <1>4. \A r \in Reqs : pc[r] # "failed"
    <2> SUFFICES ASSUME NEW r \in Reqs, pc[r] = "failed" PROVE pc'[r] = "failed"
      BY <1>3
    <2>1. ASSUME NEW q \in Reqs, Arrive(q) PROVE pc'[r] = "failed"
      BY <2>1, ArriveArrival, <1>2 DEF SpareInv, Arrival
    <2>2. ASSUME NEW q \in Reqs, Step(q) PROVE pc'[r] = "failed"
      BY <1>2, <2>2, StepFrames, StepEffects DEF SpareInv, StepFrame, StepEffect
    <2>3. ASSUME NEW q \in Reqs, Abandon(q) PROVE pc'[r] = "failed"
      BY <1>1, <2>3 DEF Abandon
    <2>4. QED
      BY <2>1, <2>2, <2>3 DEF Next, Initiate, vars
  <1>5. Order
    BY <1>3, <1>4 DEF CalmInv, Calm
  <1>6. ASSUME NEW r \in Reqs, Arrive(r) PROVE Order'
    BY <1>3, <1>5, <1>6, ArriveOrder
  <1>7. ASSUME NEW r \in Reqs, Step(r) PROVE Order'
    BY <1>1, <1>2, <1>3, <1>5, <1>7, StepOrder
  <1>8. ASSUME NEW r \in Reqs, Abandon(r) PROVE FALSE
    BY <1>1, <1>3, <1>8 DEF Abandon
  <1>9. ASSUME NEW u \in Uploads, Initiate(u) PROVE Order'
    <2>1. /\ UNCHANGED <<partMD, data, master, versions, pc, ctx>>
          /\ \A v \in Uploads : overview'[v] = IF v = u THEN "open" ELSE overview[v]
          /\ overview[u] = "new"
      BY <1>9 DEF Initiate, SpareInv, TypeInv, TypeOK
    <2>2. Solo' /\ Balanced' /\ Apart' /\ FlagIsLive'
      BY <1>5, <2>1
         DEF Order, Solo, Running, Balanced, Accounted, Held, InPartOf, Wiped,
             Carries, AboutToWrite, Apart, Committed, FlagIsLive
    <2>3. ASSUME NEW r \in Reqs PROVE Keeps(r)'
      <3>1. Keeps(r)
        BY <1>5 DEF Order
      <3>2. PartRuns(r)' /\ ListedAll(r)'
        <4>1. /\ pc[r] \in PartLabels => ctx[r].upload \in Uploads
              /\ pc[r] \in UploadLabels \/ ctx[r].kind = "complete" => ctx[r].upload \in Uploads
          BY DEF SpareInv, TypeInv, RightContext
        <4>2. QED
          BY <2>1, <3>1, <4>1
             DEF Keeps, PartRuns, ListedAll, Held, PartLabels, UploadLabels
      <3>3. ReadsCurrent(r)' /\ SplitsParts(r)' /\ DropsOwn(r)'
        BY <2>1, <3>1
           DEF Keeps, ReadsCurrent, CurrentLocations, SplitsParts, DropsOwn, Held,
               InPart, InPartOf
      <3>4. QED
        BY <3>2, <3>3 DEF Keeps
    <2>4. QED
      BY <2>2, <2>3 DEF Order
  <1>10. CASE UNCHANGED vars
    BY <1>5, <1>10
       DEF vars, Order, Solo, Running, Balanced, Accounted, Held, InPartOf,
           InPart, Wiped, Carries, AboutToWrite, Apart, Committed, FlagIsLive,
           Keeps, PartRuns, ListedAll, ReadsCurrent, CurrentLocations,
           SplitsParts, DropsOwn
  <1>11. QED
    BY <1>6, <1>7, <1>8, <1>9, <1>10 DEF Next

\* When clients wait for each answer, no deletion is lost and every request so
\* far has succeeded, the backend holds, whenever none runs, what the versions
\* and the pending parts refer to and nothing else: no sequence of uploads,
\* overwritten parts, completes, aborts and PUTs leaves data behind.
THEOREM NothingIsOrphaned == Spec => []NoOrphanWhenAllSucceed
  <1> DEFINE Inv == SpareInv /\ CurrentOnly /\ CalmInv
  <1>1. Init => Inv
    <2> SUFFICES ASSUME Init PROVE CurrentOnly /\ CalmInv
      BY InitSpare
    <2>1. /\ \A r \in Reqs : ~Running(r) /\ versions[r] = {}
          /\ \A u \in Uploads : overview[u] = "new"
          /\ \A u \in Uploads, p \in Parts : partMD[u][p] \notin Reqs
          /\ data = {}
      BY ConstantsAssumption DEF Init, Running
    <2>2. CurrentOnly
      BY <2>1 DEF CurrentOnly
    <2>3. Solo /\ Balanced /\ Apart /\ FlagIsLive
      BY <2>1, RestKeeps
         DEF Solo, Balanced, Accounted, Held, InPartOf, Apart, FlagIsLive
    <2>4. QED
      BY <2>1, <2>2, <2>3, RestKeeps DEF CalmInv, Order
  <1>2. Inv /\ [Next]_vars => Inv'
    BY NextSpare, CurrentStays, NextCalm
  <1>3. Inv => NoOrphanWhenAllSucceed
    <2> SUFFICES ASSUME Inv, Discipline = "sequential", ~LossyDeletes,
                        \A r \in Reqs : pc[r] \in {"idle", "ok"}
                 PROVE  data = (UNION {versions[v] : v \in Reqs})
                               \cup (UNION {LocationsOf(u, Stored(u)) : u \in Uploads})
      BY DEF NoOrphanWhenAllSucceed
    <2>1. Balanced /\ \A r \in Reqs : ~Running(r)
      BY DEF CalmInv, Calm, Order, Running, Done
    <2>2. \A x \in Reqs : x \in data <=> Held(x) \/ \E u \in Uploads : InPartOf(u, x)
      BY <2>1, RestKeeps DEF Balanced, Accounted, Wiped, Running
    <2>3. /\ data \subseteq Reqs /\ \A v \in Reqs : versions[v] \subseteq Reqs
          /\ partMD \in [Uploads -> [Parts -> Reqs \cup {None}]]
      BY DEF SpareInv, TypeInv, TypeOK
    <2>4. \A u \in Uploads : \A x : x \in LocationsOf(u, Stored(u)) <=> x \in Reqs /\ InPartOf(u, x)
      BY <2>3, ConstantsAssumption DEF LocationsOf, Stored, InPartOf
    <2>5. \A x : x \in UNION {versions[v] : v \in Reqs} <=> x \in Reqs /\ Held(x)
      BY <2>3 DEF Held
    <2>6. \A x : x \in UNION {LocationsOf(u, Stored(u)) : u \in Uploads}
                     <=> x \in Reqs /\ \E u \in Uploads : InPartOf(u, x)
      BY <2>4
    <2> DEFINE ofVersions == UNION {versions[v] : v \in Reqs}
               ofParts == UNION {LocationsOf(u, Stored(u)) : u \in Uploads}
    <2>7. \A x : x \in data <=> x \in ofVersions \/ x \in ofParts
      BY <2>2, <2>3, <2>5, <2>6
    <2> HIDE DEF ofVersions, ofParts
    <2>8. data = ofVersions \cup ofParts
      BY <2>7
    <2>9. QED
      BY <2>8 DEF ofVersions, ofParts
  <1>4. QED
    BY <1>1, <1>2, <1>3, PTL DEF Spec
=============================================================================
