------------------------- MODULE ObjectVersioningProofs -------------------------
(***************************************************************************)
(* Proofs about ObjectVersioning.  The types hold whatever clients do.     *)
(* For clients that wait for each answer the records of a key stay in      *)
(* order, every behaviour is a history of S3Versions and versions have     *)
(* their data, also when requests die between two calls; where none dies,  *)
(* no data is left that no version names.                                  *)
(* For clients that do not wait, and write and delete versions beside one  *)
(* another, the records stay in order and have their data, what was        *)
(* acknowledged stays and what was overwritten stays gone.                 *)
(***************************************************************************)
EXTENDS ObjectVersioning, FiniteSetTheorems, TLAPS

-----------------------------------------------------------------------------
(* The greatest of some identifiers *)

Above(T, x) == {y \in T : x < y}

\* A non-empty set of numbers up to n has a greatest one: of the sets of those
\* above one of them, one contains no other.
LEMMA Greatest ==
    ASSUME NEW n \in Nat, NEW T \in SUBSET (0..n), T # {}
    PROVE  \E x \in T : \A y \in T : y <= x
  <1> DEFINE S == 0..n
             family == {Above(T, x) : x \in T}
  <1>1. IsFiniteSet(S) /\ T \subseteq Int /\ T \subseteq S
    BY FS_Interval
  <1>2. /\ IsWellFoundedOn(StrictSubsetOrdering(S), SUBSET S)
        /\ family \in SUBSET (SUBSET S) /\ family # {}
    <2>1. FiniteSubsetsOf(S) = SUBSET S
      BY <1>1, FS_FiniteSubsetsOfFinite
    <2>2. IsWellFoundedOn(StrictSubsetOrdering(S), FiniteSubsetsOf(S))
      BY FS_StrictSubsetOrderingWellFounded
    <2>3. \A x \in T : Above(T, x) \in SUBSET S
      BY <1>1 DEF Above
    <2>4. family \in SUBSET (SUBSET S) /\ family # {}
      BY <2>3
    <2>5. QED
      BY <2>1, <2>2, <2>4
  <1> HIDE DEF family
  <1>3. PICK U \in family : \A V \in family : <<V, U>> \notin StrictSubsetOrdering(S)
    BY <1>2, WFMin
  <1>4. PICK x \in T : U = Above(T, x)
    BY <1>3 DEF family
  <1>5. ASSUME NEW y \in T, x < y PROVE FALSE
    <2>1. Above(T, y) \in family
      BY DEF family
    <2>2. \A i, j, k \in Int : (i < j /\ j < k => i < k) /\ ~ i < i
      OBVIOUS
    <2>3. Above(T, y) \subseteq U /\ y \in U /\ y \notin Above(T, y)
      BY <1>1, <1>4, <1>5, <2>2 DEF Above
    <2>4. <<Above(T, y), U>> \in StrictSubsetOrdering(S)
      BY <1>2, <2>1, <2>3 DEF StrictSubsetOrdering
    <2>5. QED
      BY <1>3, <2>1, <2>4
  <1>6. QED
    BY <1>1, <1>5

-----------------------------------------------------------------------------
(* Types *)

\* The labels of a request that will write a version, before it has.
Writing == {"storeData", "storeNull", "getNull", "delNull", "putMD"}

\* What the label of a request says of what it carries.
RightContext ==
    \A r \in Reqs :
        /\ pc[r] \in Writing => \/ ctx[r].kind = "put"
                                \/ ctx[r].kind = "delete" /\ ctx[r].status # "none"
        /\ pc[r] = "storeNull" => ctx[r].obj # None /\ MyPlan(r).store # None
        /\ pc[r] \in {"getNull", "delNull"} => MyPlan(r).del # None
        /\ pc[r] \in {"delMD", "editMD", "findNull"} => ctx[r].obj # None
        /\ pc[r] = "findNull" => ctx[r].obj.nullVid # None

\* The engine has generated no more identifiers than requests have written.
Wrote == {r \in Reqs : pc[r] \in {"delData"} \cup Done}
ClockBehind == clock <= Cardinality(Wrote)

TypeInv == TypeOK /\ RightContext /\ ClockBehind

Plans == [store: Vids \cup {None}, del: Vids \cup {None}, delData: BOOLEAN,
          doomed: SUBSET Reqs, nullVid: Vids \cup {None}]

\* Identifiers are numbers, and None is none of the values it stands for.
LEMMA VidsAre == /\ Cardinality(Reqs) \in Nat /\ Vids \subseteq Nat /\ Inf \in Vids
                 /\ \A v \in Nat : v \in Vids <=> v <= Cardinality(Reqs)
                 /\ None \notin Vids /\ None \notin Rec /\ None \notin Reqs
  BY FS_CardinalityType, VersioningAssumption DEF Vids, Inf

\* A plan names identifiers and locations, and has a first call.
LEMMA PlanType ==
    ASSUME NEW stat \in {"none", "Enabled", "Suspended"}, NEW mst \in Rec \cup {None}
    PROVE  /\ PlanOf(stat, mst) \in Plans
           /\ FirstCall(PlanOf(stat, mst)) \in Writing \ {"storeData"}
           /\ FirstCall(PlanOf(stat, mst)) = "storeNull" =>
                  mst # None /\ PlanOf(stat, mst).store # None
           /\ FirstCall(PlanOf(stat, mst)) \in {"getNull", "delNull"} =>
                  PlanOf(stat, mst).del # None
  <1>1. PlanOf(stat, mst) \in Plans
    BY VidsAre
       DEF PlanOf, SuspendedPlan, EnabledPlan, Plan, IsNull, NullVersionId,
           LocationOf, Plans, Rec
  <1>2. PlanOf(stat, mst).store # None => mst # None
    BY VidsAre DEF PlanOf, SuspendedPlan, EnabledPlan, Plan, IsNull
  <1>3. QED
    BY <1>1, <1>2 DEF FirstCall, Writing, Plans

\* The latest of some version keys is the one with the greatest identifier.
LEMMA LatestType ==
    ASSUME NEW keys \in [Vids -> Rec \cup {None}]
    PROVE  \/ Latest(keys) = None /\ \A v \in Vids : keys[v] = None
           \/ \E v \in Vids : /\ keys[v] # None /\ Latest(keys) = keys[v]
                              /\ \A w \in Vids : keys[w] # None => w <= v
  <1> DEFINE live == {v \in Vids : keys[v] # None}
  <1>1. CASE live = {}
    BY <1>1 DEF Latest
  <1>2. CASE live # {}
    <2>1. \E v \in live : \A w \in live : w <= v
      BY <1>2, VidsAre, Greatest DEF Vids, Inf
    <2>2. PICK v \in live : /\ \A w \in live : w <= v
                            /\ v = CHOOSE x \in live : \A w \in live : w <= x
      BY <2>1
    <2>3. Latest(keys) = keys[v]
      BY <1>2, <2>2 DEF Latest
    <2>4. QED
      BY <2>2, <2>3
  <1>3. QED
    BY <1>1, <1>2

\* What the engine writes are records.
EngineOK == /\ master \in Rec \cup {None}
            /\ vkeys \in [Vids -> Rec \cup {None}]
            /\ clock \in Vids

\* A GET returns a record or nothing.
LEMMA GetType == ASSUME EngineOK, NEW v \in Vids PROVE GetVersion(v) \in Rec \cup {None}
  BY DEF EngineOK, GetVersion

\* A PUT of a version writes records.
LEMMA PutVersionType ==
    ASSUME EngineOK, NEW v \in Vids, NEW rec \in Rec, PutVersion(v, rec)
    PROVE  EngineOK'
  BY DEF EngineOK, PutVersion

\* A DELETE of a version leaves records.
LEMMA DeleteVersionType ==
    ASSUME EngineOK, NEW v \in Vids, DeleteVersion(v)
    PROVE  EngineOK'
  <1>1. vkeys' \in [Vids -> Rec \cup {None}] /\ UNCHANGED clock
    BY DEF EngineOK, DeleteVersion
  <1>2. Latest(vkeys') \in Rec \cup {None}
    BY <1>1, LatestType
  <1>3. QED
    BY <1>1, <1>2 DEF EngineOK, DeleteVersion

\* One request steps and may write; the others do nothing.
Beside(r) == /\ pc' \in [Reqs -> Labels] /\ ctx' \in [Reqs -> Context]
             /\ \A q \in Reqs \ {r} : pc'[q] = pc[q] /\ ctx'[q] = ctx[q]

\* A request that starts carries what validation read.
LEMMA EnterIs ==
    ASSUME TypeInv, NEW r \in Reqs, NEW kind \in AllKinds, NEW obj \in Rec \cup {None},
           NEW label \in Labels, Enter(r, kind, obj, label)
    PROVE  /\ Beside(r) /\ UNCHANGED <<status, changes, data, engine>>
           /\ pc'[r] = label
           /\ ctx'[r].kind = kind /\ ctx'[r].obj = obj
           /\ ctx'[r].status = status /\ ctx'[r].doomed = {}
  <1> DEFINE new == [kind |-> kind, status |-> status, obj |-> obj, doomed |-> {}]
  <1>1. new \in Context
    BY DEF Context, TypeInv, TypeOK
  <1>2. pc' = [pc EXCEPT ![r] = label] /\ ctx' = [ctx EXCEPT ![r] = new]
    BY DEF Enter
  <1>3. ctx'[r] = new /\ Beside(r) /\ pc'[r] = label
    BY <1>1, <1>2 DEF TypeInv, TypeOK, Beside
  <1>4. QED
    BY <1>3 DEF Enter

\* How each kind of request starts.
Starting(r) ==
    \/ /\ ctx'[r].kind = "put" /\ ctx'[r].obj = master
       /\ pc'[r] = "storeData"
    \/ /\ ctx'[r].kind = "delete" /\ ctx'[r].obj = master
       /\ \/ pc'[r] = "failed"
          \/ status = "none" /\ master # None /\ pc'[r] = "delMD"
          \/ status # "none" /\ pc'[r] = FirstCall(PlanOf(status, master))
    \/ /\ ctx'[r].kind = "deleteVersion" /\ pc'[r] = "delMD"
       /\ \E v \in Vids : /\ ctx'[r].obj = GetVersion(v) /\ GetVersion(v) # None
                          /\ ~GetVersion(v).null
    \/ /\ ctx'[r].kind = "deleteNull" /\ ctx'[r].obj = master
       /\ \/ pc'[r] = "failed"
          \/ IsNull(master) /\ pc'[r] = "delMD"
          \/ /\ master # None /\ ~IsNull(master) /\ master.nullVid # None
             /\ pc'[r] = "findNull"
    \/ /\ ctx'[r].kind = "edit" /\ ctx'[r].obj = master
       /\ pc'[r] = "failed" \/ (master # None /\ pc'[r] = "editMD")

\* Every request that arrives starts one of these ways.
LEMMA StartIs ==
    ASSUME TypeInv, NEW r \in Reqs, Start(r)
    PROVE  /\ Beside(r) /\ UNCHANGED <<status, changes, data, engine>>
           /\ pc[r] = "idle" /\ ctx'[r].status = status /\ ctx'[r].doomed = {}
           /\ Starting(r)
  <1>1. EngineOK /\ status \in {"none", "Enabled", "Suspended"}
    BY DEF TypeInv, TypeOK, EngineOK
  <1>2. CASE StartPut(r)
    BY <1>1, <1>2, EnterIs
       DEF StartPut, EngineOK, AllKinds, Labels, MayStart, Starting
  <1>3. CASE StartDelete(r)
    <2> DEFINE label == CASE status = "none" /\ master = None -> "failed"
                          [] status = "none" /\ master # None -> "delMD"
                          [] status # "none" -> FirstCall(PlanOf(status, master))
    <2>1. label \in Labels
      BY <1>1, PlanType DEF EngineOK, Labels, Writing, Done
    <2>2. /\ Beside(r) /\ UNCHANGED <<status, changes, data, engine>>
          /\ pc'[r] = label
          /\ ctx'[r].kind = "delete" /\ ctx'[r].obj = master
          /\ ctx'[r].status = status /\ ctx'[r].doomed = {}
      <3>1. Enter(r, "delete", master, label)
        BY <1>3 DEF StartDelete
      <3> HIDE DEF label
      <3>2. QED
        BY <1>1, <2>1, <3>1, EnterIs DEF EngineOK, AllKinds
    <2>3. QED
      BY <1>3, <2>2 DEF StartDelete, MayStart, Starting
  <1>4. ASSUME NEW v \in Vids, StartDeleteVersion(r, v)
        PROVE  /\ Beside(r) /\ UNCHANGED <<status, changes, data, engine>>
               /\ pc[r] = "idle" /\ ctx'[r].status = status /\ ctx'[r].doomed = {}
               /\ Starting(r)
    BY <1>1, <1>4, EnterIs, GetType
       DEF StartDeleteVersion, AllKinds, Labels, MayStart, Starting
  <1>5. CASE StartDeleteNull(r)
    <2> DEFINE label == CASE master = None -> "failed"
                          [] IsNull(master) -> "delMD"
                          [] master # None /\ ~IsNull(master) ->
                               IF master.nullVid = None THEN "failed" ELSE "findNull"
    <2>1. /\ label \in Labels
          /\ \/ label = "failed"
             \/ IsNull(master) /\ label = "delMD"
             \/ /\ master # None /\ ~IsNull(master) /\ master.nullVid # None
                /\ label = "findNull"
      BY DEF Labels, Done, IsNull
    <2>2. Enter(r, "deleteNull", master, label)
      BY <1>5 DEF StartDeleteNull
    <2> HIDE DEF label
    <2>3. /\ Beside(r) /\ UNCHANGED <<status, changes, data, engine>>
          /\ pc'[r] = label
          /\ ctx'[r].kind = "deleteNull" /\ ctx'[r].obj = master
          /\ ctx'[r].status = status /\ ctx'[r].doomed = {}
      BY <1>1, <2>1, <2>2, EnterIs DEF EngineOK, AllKinds
    <2>4. QED
      BY <1>5, <2>1, <2>3 DEF StartDeleteNull, MayStart, Starting
  <1>6. CASE StartEdit(r)
    <2> DEFINE label == IF master = None \/ master.dm THEN "failed" ELSE "editMD"
    <2>1. /\ label \in Labels
          /\ label = "failed" \/ (master # None /\ label = "editMD")
      BY DEF Labels, Done
    <2>2. Enter(r, "edit", master, label)
      BY <1>6 DEF StartEdit
    <2> HIDE DEF label
    <2>3. QED
      BY <1>1, <1>6, <2>1, <2>2, EnterIs
         DEF EngineOK, AllKinds, StartEdit, MayStart, Starting
  <1>7. QED
    BY <1>2, <1>3, <1>4, <1>5, <1>6 DEF Start

\* The record a request writes.
Written(r) == [vid |-> None, null |-> ctx[r].status = "Suspended",
               nullVid |-> MyPlan(r).nullVid, dm |-> ctx[r].kind = "delete",
               loc |-> IF ctx[r].kind = "delete" THEN None ELSE r]
NewRec(r) == [Written(r) EXCEPT !.vid = clock + 1]

\* There is always an identifier left for a request that has not written yet.
LEMMA ClockRoom ==
    ASSUME TypeInv, NEW r \in Reqs, pc[r] = "putMD"
    PROVE  clock + 1 \in Vids /\ clock \in Nat /\ Cardinality(Wrote) \in Nat
  <1>1. IsFiniteSet(Wrote) /\ Wrote \cup {r} \in SUBSET Reqs /\ r \notin Wrote
    BY FS_Subset, VersioningAssumption DEF Wrote, Done
  <1>2. Cardinality(Wrote \cup {r}) = Cardinality(Wrote) + 1 /\ Cardinality(Wrote) \in Nat
    BY <1>1, FS_AddElement, FS_CardinalityType
  <1>3. Cardinality(Wrote) + 1 <= Cardinality(Reqs)
    BY <1>1, <1>2, FS_Subset, VersioningAssumption
  <1>4. clock \in Nat /\ clock <= Cardinality(Wrote)
    BY VidsAre DEF TypeInv, TypeOK, ClockBehind
  <1>5. clock + 1 <= Cardinality(Reqs) /\ clock + 1 \in Nat
    BY <1>2, <1>3, <1>4, VidsAre
  <1>6. QED
    BY <1>2, <1>4, <1>5, VidsAre

\* A request that moves on moves alone.
LEMMA GoIs ==
    ASSUME TypeInv, NEW r \in Reqs, NEW from, NEW to \in Labels, Go(r, from, to)
    PROVE  /\ pc' \in [Reqs -> Labels] /\ pc[r] = from /\ pc'[r] = to
           /\ \A q \in Reqs \ {r} : pc'[q] = pc[q]
  BY DEF TypeInv, TypeOK, Go

\* A request that dooms locations carries the rest on.
LEMMA DoomIs ==
    ASSUME TypeInv, NEW r \in Reqs, NEW locs \in SUBSET Reqs,
           ctx' = [ctx EXCEPT ![r].doomed = locs]
    PROVE  /\ ctx' \in [Reqs -> Context]
           /\ \A q \in Reqs \ {r} : ctx'[q] = ctx[q]
           /\ ctx'[r].kind = ctx[r].kind /\ ctx'[r].status = ctx[r].status
           /\ ctx'[r].obj = ctx[r].obj /\ ctx'[r].doomed = locs
  BY DEF TypeInv, TypeOK, Context

\* What a request writes is a record.
LEMMA WrittenIs ==
    ASSUME TypeInv, NEW r \in Reqs, pc[r] = "putMD"
    PROVE  /\ Written(r) \in Rec /\ NewRec(r) \in Rec
           /\ Written(r).vid = None /\ NewRec(r).vid = clock + 1
           /\ \A rec \in {Written(r), NewRec(r)} :
                /\ rec.null = (ctx[r].status = "Suspended")
                /\ rec.nullVid = MyPlan(r).nullVid
                /\ rec.loc = IF ctx[r].kind = "delete" THEN None ELSE r
  <1>1. MyPlan(r).nullVid \in Vids \cup {None}
    BY PlanType DEF TypeInv, TypeOK, Context, MyPlan, Plans
  <1>2. Written(r) \in Rec
    BY <1>1 DEF Written, Rec
  <1>3. NewRec(r) \in Rec
    BY <1>2, ClockRoom DEF NewRec, Rec
  <1>4. QED
    BY <1>2, <1>3 DEF Written, NewRec, Rec

\* The write of a PUT or a delete marker, in the three statuses.
LEMMA PutMDIs ==
    ASSUME TypeInv, NEW r \in Reqs, PutMD(r)
    PROVE  /\ pc[r] = "putMD" /\ pc'[r] \in {"delData", "ok"}
           /\ pc'[r] = "ok" => ctx'[r].doomed = {}
           /\ ctx'[r].doomed = ctx[r].doomed \cup MyPlan(r).doomed
           /\ ctx'[r].kind = ctx[r].kind /\ ctx'[r].status = ctx[r].status
           /\ ctx'[r].obj = ctx[r].obj
           /\ Beside(r) /\ UNCHANGED <<status, changes, data>>
           /\ \/ /\ ctx[r].status = "none" /\ master' = Written(r)
                 /\ UNCHANGED <<vkeys, clock>>
              \/ /\ ctx[r].status = "Suspended" /\ master' = NewRec(r)
                 /\ clock' = clock + 1 /\ UNCHANGED vkeys
              \/ /\ ctx[r].status = "Enabled" /\ master' = NewRec(r)
                 /\ clock' = clock + 1 /\ vkeys' = [vkeys EXCEPT ![clock + 1] = NewRec(r)]
  <1> DEFINE doomed == ctx[r].doomed \cup MyPlan(r).doomed
  <1>1. MyPlan(r).doomed \subseteq Reqs /\ pc \in [Reqs -> Labels]
        /\ ctx \in [Reqs -> Context]
    BY PlanType DEF TypeInv, TypeOK, Context, MyPlan, Plans
  <1>2. doomed \in SUBSET Reqs
    BY <1>1 DEF Context
  <1>3. /\ pc[r] = "putMD" /\ pc' = [pc EXCEPT ![r] = AfterMD(doomed)]
        /\ ctx' = [ctx EXCEPT ![r].doomed = doomed]
        /\ UNCHANGED <<status, changes, data>>
    BY DEF PutMD, Go
  <1>4. /\ pc'[r] \in {"delData", "ok"} /\ (pc'[r] = "ok" => doomed = {})
        /\ \A q \in Reqs \ {r} : pc'[q] = pc[q]
        /\ pc' \in [Reqs -> Labels]
    BY <1>1, <1>3 DEF AfterMD, Labels, Done
  <1>5. /\ ctx' \in [Reqs -> Context] /\ ctx'[r].doomed = doomed
        /\ \A q \in Reqs \ {r} : ctx'[q] = ctx[q]
        /\ ctx'[r].kind = ctx[r].kind /\ ctx'[r].status = ctx[r].status
        /\ ctx'[r].obj = ctx[r].obj
    BY <1>1, <1>2, <1>3 DEF Context
  <1>6. \/ /\ ctx[r].status = "none" /\ master' = Written(r)
           /\ UNCHANGED <<vkeys, clock>>
        \/ /\ ctx[r].status = "Suspended" /\ master' = NewRec(r)
           /\ clock' = clock + 1 /\ UNCHANGED vkeys
        \/ /\ ctx[r].status = "Enabled" /\ master' = NewRec(r)
           /\ clock' = clock + 1 /\ vkeys' = [vkeys EXCEPT ![clock + 1] = NewRec(r)]
    BY DEF PutMD, PutMaster, PutNullMaster, PutNewVersion, Written, NewRec
  <1>7. QED
    BY <1>3, <1>4, <1>5, <1>6 DEF Beside

\* What every step of a running request leaves alone.
Advance(r) ==
    /\ Beside(r) /\ UNCHANGED <<status, changes>>
    /\ ctx'[r].kind = ctx[r].kind /\ ctx'[r].status = ctx[r].status
    /\ pc[r] # "findNull" => ctx'[r].obj = ctx[r].obj

\* A step moves one request on, which carries on what it read.
LEMMA StepAdvances ==
    ASSUME TypeInv, NEW r \in Reqs, Step(r)
    PROVE  Advance(r)
  <1>1. /\ pc \in [Reqs -> Labels] /\ ctx \in [Reqs -> Context] /\ EngineOK
        /\ ctx[r].obj \in Rec \cup {None} /\ ctx[r].status \in {"none", "Enabled", "Suspended"}
    BY DEF TypeInv, TypeOK, Context, EngineOK
  <1>2. MyPlan(r) \in Plans /\ FirstCall(MyPlan(r)) \in Labels
    BY <1>1, PlanType DEF MyPlan, Labels, Writing, Done
  <1>3. CASE StoreData(r)
    BY <1>1, <1>2, <1>3, GoIs DEF StoreData, Advance, Beside
  <1>4. CASE StoreNull(r) \/ DelNull(r) \/ EditMD(r) \/ DelData(r)
    <2>1. "putMD" \in Labels /\ "ok" \in Labels
      BY DEF Labels, Done
    <2>2. QED
      BY <1>1, <1>4, <2>1, GoIs
         DEF StoreNull, DelNull, EditMD, DelData, Advance, Beside
  <1>5. CASE GetNull(r)
    <2> DEFINE nullMD == GetVersion(MyPlan(r).del)
               to == IF nullMD = None THEN "putMD" ELSE "delNull"
    <2>1. Go(r, "getNull", to) /\ ctx' = [ctx EXCEPT ![r].doomed = LocationOf(nullMD)]
          /\ UNCHANGED <<status, changes>>
      BY <1>5 DEF GetNull
    <2>2. MyPlan(r).del \in Vids
      BY <1>2, <2>1 DEF Go, TypeInv, RightContext, Plans
    <2>3. to \in Labels /\ LocationOf(nullMD) \in SUBSET Reqs
      BY <1>1, <2>2, GetType DEF LocationOf, Rec, Labels
    <2> HIDE DEF to, nullMD
    <2>4. QED
      BY <2>1, <2>3, GoIs, DoomIs DEF Advance, Beside
  <1>6. CASE PutMD(r)
    BY <1>6, PutMDIs DEF Advance
  <1>7. CASE FindNull(r)
    <2> DEFINE nullMD == GetVersion(ctx[r].obj.nullVid)
               to == IF nullMD = None THEN "failed" ELSE "delMD"
    <2>1. Go(r, "findNull", to) /\ ctx' = [ctx EXCEPT ![r].obj = nullMD]
          /\ UNCHANGED <<status, changes>>
      BY <1>7 DEF FindNull
    <2>2. to \in Labels /\ nullMD \in Rec \cup {None}
      BY <1>1, <2>1, GetType DEF Go, TypeInv, RightContext, Labels, Done, Rec
    <2> HIDE DEF to, nullMD
    <2>3. /\ ctx' \in [Reqs -> Context]
          /\ \A q \in Reqs \ {r} : ctx'[q] = ctx[q]
          /\ ctx'[r].kind = ctx[r].kind /\ ctx'[r].status = ctx[r].status
      BY <1>1, <2>1, <2>2 DEF Context
    <2>4. QED
      BY <2>1, <2>2, <2>3, GoIs DEF Advance, Beside
  <1>8. CASE DelMD(r)
    <2>1. LocationOf(ctx[r].obj) \in SUBSET Reqs
      BY <1>1 DEF LocationOf, Rec
    <2>2. PICK to \in Labels : Go(r, "delMD", to)
      BY <1>8 DEF DelMD, AfterMD, Labels, Done
    <2>3. /\ ctx' = [ctx EXCEPT ![r].doomed = LocationOf(ctx[r].obj)]
          /\ UNCHANGED <<status, changes>>
      BY <1>8 DEF DelMD
    <2>4. QED
      BY <2>1, <2>2, <2>3, GoIs, DoomIs DEF Advance, Beside
  <1>9. QED
    BY <1>3, <1>4, <1>5, <1>6, <1>7, <1>8 DEF Step

\* The engine keeps its types.
LEMMA StepEngine ==
    ASSUME TypeInv, NEW r \in Reqs, Step(r)
    PROVE  EngineOK' /\ data' \subseteq Reqs
  <1>1. /\ EngineOK /\ data \subseteq Reqs /\ ctx \in [Reqs -> Context]
        /\ ctx[r].obj \in Rec \cup {None} /\ MyPlan(r) \in Plans
    BY PlanType DEF TypeInv, TypeOK, EngineOK, Context, MyPlan
  <1>2. data' \subseteq Reqs
    BY <1>1
       DEF Step, StoreData, StoreNull, GetNull, DelNull, PutMD, FindNull, DelMD,
           EditMD, DelData
  <1>3. CASE StoreNull(r)
    <2> DEFINE v == MyPlan(r).store
               copy == [ctx[r].obj EXCEPT !.vid = v, !.null = TRUE]
    <2>1. v \in Vids /\ ctx[r].obj \in Rec
      BY <1>1, <1>3 DEF StoreNull, Go, TypeInv, RightContext, Plans
    <2>2. copy \in Rec
      BY <2>1 DEF Rec
    <2>3. QED
      BY <1>1, <1>2, <1>3, <2>1, <2>2, PutVersionType DEF StoreNull
  <1>4. CASE DelNull(r)
    <2>1. MyPlan(r).del \in Vids
      BY <1>1, <1>4 DEF DelNull, Go, TypeInv, RightContext, Plans
    <2>2. QED
      BY <1>1, <1>2, <1>4, <2>1, DeleteVersionType DEF DelNull
  <1>5. CASE PutMD(r)
    BY <1>1, <1>2, <1>5, PutMDIs, WrittenIs, ClockRoom DEF EngineOK
  <1>6. CASE DelMD(r)
    <2> DEFINE vid == IF ctx[r].status = "none" THEN None ELSE ctx[r].obj.vid
    <2>1. ctx[r].obj \in Rec
      BY <1>1, <1>6 DEF DelMD, Go, TypeInv, RightContext
    <2>2. vid \in Vids \cup {None}
      BY <2>1 DEF Rec
    <2>3. CASE DeleteMaster
      BY <1>1, <1>2, <2>3 DEF DeleteMaster, EngineOK
    <2>4. CASE vid \in Vids /\ DeleteVersion(vid)
      BY <1>1, <1>2, <2>4, DeleteVersionType
    <2>5. QED
      BY <1>6, <2>2, <2>3, <2>4 DEF DelMD
  <1>7. CASE EditMD(r)
    <2>1. ctx[r].obj \in Rec
      BY <1>1, <1>7 DEF EditMD, Go, TypeInv, RightContext
    <2>2. CASE PutMaster(ctx[r].obj)
      BY <1>1, <1>2, <2>1, <2>2 DEF PutMaster, EngineOK
    <2>3. CASE ctx[r].obj.vid \in Vids /\ PutVersion(ctx[r].obj.vid, ctx[r].obj)
      BY <1>1, <1>2, <2>1, <2>3, PutVersionType
    <2>4. QED
      BY <1>7, <2>1, <2>2, <2>3 DEF EditMD, Rec
  <1>8. CASE UNCHANGED engine
    BY <1>1, <1>2, <1>8 DEF engine, EngineOK
  <1>9. QED
    BY <1>3, <1>4, <1>5, <1>6, <1>7, <1>8
       DEF Step, StoreData, GetNull, FindNull, DelData

\* Where a step takes a request.
LEMMA StepGoes ==
    ASSUME TypeInv, NEW r \in Reqs, Step(r)
    PROVE  \/ pc[r] = "storeData" /\ pc'[r] = FirstCall(MyPlan(r))
           \/ pc[r] = "getNull" /\ pc'[r] \in {"putMD", "delNull"}
           \/ pc[r] \in {"storeNull", "delNull"} /\ pc'[r] = "putMD"
           \/ /\ pc[r] = "findNull"
              /\ pc'[r] = "failed" \/ (pc'[r] = "delMD" /\ ctx'[r].obj # None)
           \/ /\ pc[r] \in {"putMD", "delMD", "editMD", "delData"}
              /\ pc'[r] \in {"delData"} \cup Done
  <1>1. pc \in [Reqs -> Labels] /\ ctx \in [Reqs -> Context]
    BY DEF TypeInv, TypeOK
  <1>2. CASE FindNull(r)
    BY <1>1, <1>2 DEF FindNull, Go, Context
  <1>3. QED
    BY <1>1, <1>2 DEF Step, StoreData, StoreNull, GetNull, DelNull, PutMD, DelMD,
                      EditMD, DelData, Go, AfterMD, Done

\* The labels of a request follow from what it carries.
LEMMA StepContext ==
    ASSUME TypeInv, NEW r \in Reqs, Step(r)
    PROVE  RightContext'
  <1>1. /\ Advance(r) /\ RightContext /\ ctx[r].obj \in Rec \cup {None}
        /\ ctx[r].status \in {"none", "Enabled", "Suspended"}
    BY StepAdvances DEF TypeInv, TypeOK, Context
  <1>2. /\ \A q \in Reqs \ {r} : MyPlan(q)' = MyPlan(q)
        /\ pc[r] # "findNull" => MyPlan(r)' = MyPlan(r)
    BY <1>1 DEF MyPlan, Advance, Beside
  <1>3. CASE pc[r] = "storeData"
    <2>1. /\ pc'[r] = FirstCall(MyPlan(r)) /\ ctx'[r].obj = ctx[r].obj
          /\ \/ ctx'[r].kind = "put"
             \/ ctx'[r].kind = "delete" /\ ctx'[r].status # "none"
      BY <1>1, <1>3, StepGoes DEF Advance, RightContext, Writing
    <2>2. /\ pc'[r] \in Writing \ {"storeData"}
          /\ pc'[r] = "storeNull" => ctx[r].obj # None /\ MyPlan(r).store # None
          /\ pc'[r] \in {"getNull", "delNull"} => MyPlan(r).del # None
      BY <1>1, <2>1, PlanType DEF MyPlan
    <2>3. QED
      BY <1>1, <1>2, <1>3, <2>1, <2>2 DEF RightContext, Advance, Beside, Writing
  <1>4. CASE pc[r] # "storeData"
    BY <1>1, <1>2, <1>4, StepGoes DEF RightContext, Advance, Beside, Writing, Done
  <1>5. QED
    BY <1>3, <1>4

\* A request generates one identifier at most, when it writes.
LEMMA StepClock ==
    ASSUME TypeInv, NEW r \in Reqs, Step(r)
    PROVE  ClockBehind'
  <1>1. Wrote \in SUBSET Reqs /\ Wrote' \in SUBSET Reqs
    BY DEF Wrote
  <1>2. /\ IsFiniteSet(Wrote) /\ Cardinality(Wrote) \in Nat
        /\ IsFiniteSet(Wrote') /\ Cardinality(Wrote') \in Nat
    BY <1>1, FS_Subset, FS_CardinalityType, VersioningAssumption
  <1>3. Advance(r) /\ clock \in Nat /\ clock <= Cardinality(Wrote)
    BY StepAdvances, VidsAre DEF TypeInv, TypeOK, ClockBehind
  <1>4. CASE PutMD(r)
    <2>1. Wrote' = Wrote \cup {r} /\ r \notin Wrote
      BY <1>4, PutMDIs DEF Wrote, Beside, Done
    <2>2. Cardinality(Wrote') = Cardinality(Wrote) + 1
      BY <1>2, <2>1, FS_AddElement
    <2>3. clock' \in {clock, clock + 1}
      BY <1>4, PutMDIs
    <2>4. QED
      BY <1>2, <1>3, <2>2, <2>3 DEF ClockBehind
  <1>5. CASE ~PutMD(r)
    <2>1. clock' = clock
      BY <1>5
         DEF Step, StoreData, StoreNull, GetNull, DelNull, FindNull, DelMD,
             EditMD, DelData, engine, PutVersion, DeleteVersion, DeleteMaster,
             PutMaster
    <2>2. pc[r] \in {"delData"} \cup Done => pc'[r] \in {"delData"} \cup Done
      BY StepGoes DEF Done
    <2>3. Wrote \subseteq Wrote'
      BY <1>3, <2>2 DEF Wrote, Advance, Beside
    <2>4. Cardinality(Wrote) <= Cardinality(Wrote')
      BY <1>2, <2>3, FS_Subset
    <2>5. QED
      BY <1>2, <1>3, <2>1, <2>4 DEF ClockBehind
  <1>6. QED
    BY <1>4, <1>5

\* A request that starts, or dies, generates no identifier.
LEMMA RestClock ==
    ASSUME TypeInv, NEW r \in Reqs, pc[r] \notin {"delData"} \cup Done \/ pc'[r] = "failed",
           pc' \in [Reqs -> Labels], \A q \in Reqs \ {r} : pc'[q] = pc[q], UNCHANGED clock
    PROVE  ClockBehind'
  <1>1. Wrote \subseteq Wrote' /\ Wrote \in SUBSET Reqs /\ Wrote' \in SUBSET Reqs
    BY DEF Wrote, Done
  <1>2. /\ IsFiniteSet(Wrote') /\ Cardinality(Wrote') \in Nat /\ Cardinality(Wrote) \in Nat
    BY <1>1, FS_Subset, FS_CardinalityType, VersioningAssumption
  <1>3. Cardinality(Wrote) <= Cardinality(Wrote')
    BY <1>1, <1>2, FS_Subset
  <1>4. QED
    BY <1>2, <1>3, VidsAre DEF TypeInv, TypeOK, ClockBehind

\* A request that arrives keeps the types.
LEMMA StartType ==
    ASSUME TypeInv, NEW r \in Reqs, Start(r)
    PROVE  TypeInv'
  <1>1. /\ Beside(r) /\ UNCHANGED <<status, changes, data, engine>>
        /\ pc[r] = "idle" /\ ctx'[r].status = status /\ Starting(r)
        /\ status \in {"none", "Enabled", "Suspended"} /\ master \in Rec \cup {None}
    BY StartIs DEF TypeInv, TypeOK
  <1>2. TypeOK'
    BY <1>1 DEF TypeInv, TypeOK, Beside, engine
  <1>3. ClockBehind'
    BY <1>1, RestClock DEF Beside, engine, Done
  <1>4. \A q \in Reqs \ {r} : MyPlan(q)' = MyPlan(q)
    BY <1>1 DEF MyPlan, Beside
  <1>5. /\ pc'[r] \in Writing => \/ ctx'[r].kind = "put"
                                 \/ ctx'[r].kind = "delete" /\ ctx'[r].status # "none"
        /\ pc'[r] = "storeNull" => ctx'[r].obj # None /\ MyPlan(r)'.store # None
        /\ pc'[r] \in {"getNull", "delNull"} => MyPlan(r)'.del # None
        /\ pc'[r] \in {"delMD", "editMD", "findNull"} => ctx'[r].obj # None
        /\ pc'[r] = "findNull" => ctx'[r].obj.nullVid # None
    <2>1. ctx'[r].obj = master => MyPlan(r)' = PlanOf(status, master)
      BY <1>1 DEF MyPlan
    <2>2. CASE pc'[r] = FirstCall(PlanOf(status, master)) /\ ctx'[r].kind = "delete"
               /\ ctx'[r].obj = master /\ status # "none"
      BY <1>1, <2>1, <2>2, PlanType DEF Writing
    <2>3. QED
      BY <1>1, <2>2 DEF Starting, Writing, IsNull
  <1>6. RightContext'
    BY <1>1, <1>4, <1>5 DEF RightContext, Beside, TypeInv
  <1>7. QED
    BY <1>2, <1>3, <1>6 DEF TypeInv

\* Every step keeps the types.
LEMMA NextType == TypeInv /\ [Next]_vars => TypeInv'
  <1> SUFFICES ASSUME TypeInv, [Next]_vars PROVE TypeInv'
    OBVIOUS
  <1>1. ASSUME NEW r \in Reqs, Step(r) PROVE TypeInv'
    <2>1. TypeOK'
      BY <1>1, StepAdvances, StepEngine
         DEF TypeInv, TypeOK, Advance, Beside, EngineOK
    <2>2. QED
      BY <1>1, <2>1, StepContext, StepClock DEF TypeInv
  <1>2. ASSUME NEW r \in Reqs, Abandon(r) PROVE TypeInv'
    <2>1. /\ pc' \in [Reqs -> Labels] /\ pc'[r] = "failed"
          /\ \A q \in Reqs \ {r} : pc'[q] = pc[q]
          /\ UNCHANGED <<status, changes, data, engine, ctx>>
      BY <1>2 DEF TypeInv, TypeOK, Abandon, Labels, Done
    <2>2. TypeOK'
      BY <2>1 DEF TypeInv, TypeOK, engine
    <2>3. ClockBehind'
      BY <2>1, RestClock DEF engine
    <2>4. \A q \in Reqs : MyPlan(q)' = MyPlan(q)
      BY <2>1 DEF MyPlan
    <2>5. RightContext'
      BY <2>1, <2>4 DEF RightContext, TypeInv, Writing
    <2>6. QED
      BY <2>2, <2>3, <2>5 DEF TypeInv
  <1>3. ASSUME NEW s \in Statuses, SetStatus(s) PROVE TypeInv'
    <2>1. TypeOK'
      BY <1>3, VersioningAssumption DEF TypeInv, TypeOK, SetStatus, engine
    <2>2. RightContext' /\ ClockBehind'
      BY <1>3
         DEF TypeInv, RightContext, ClockBehind, Wrote, SetStatus, engine,
             MyPlan
    <2>3. QED
      BY <2>1, <2>2 DEF TypeInv
  <1>4. CASE UNCHANGED vars
    BY <1>4 DEF vars, TypeInv, TypeOK, RightContext, MyPlan, ClockBehind, Wrote
  <1>5. QED
    BY <1>1, <1>2, <1>3, <1>4, StartType DEF Next

\* No request has arrived.
LEMMA InitType == Init => TypeInv
  <1> SUFFICES ASSUME Init PROVE TypeInv
    OBVIOUS
  <1> DEFINE none == [kind |-> None, status |-> "none", obj |-> None, doomed |-> {}]
  <1>1. none \in Context
    BY DEF Context
  <1>2. TypeOK
    BY <1>1, VidsAre, VersioningAssumption DEF Init, TypeOK, Labels
  <1>3. Wrote = {} /\ clock = 0
    BY DEF Init, Wrote, Done, Inf
  <1>4. ClockBehind
    BY <1>3, FS_EmptySet DEF ClockBehind
  <1>5. RightContext
    BY DEF Init, RightContext, Writing
  <1>6. QED
    BY <1>2, <1>4, <1>5 DEF TypeInv

\* Whatever clients do and whatever dies, the variables hold what the code puts
\* in them: in particular no request runs out of identifiers.
THEOREM TypeCorrect == Spec => []TypeOK
  <1>1. TypeInv => TypeOK
    BY DEF TypeInv
  <1>2. QED
    BY InitType, NextType, <1>1, PTL DEF Spec

-----------------------------------------------------------------------------
(* The records of a key *)

\* The identifier a client sees, and the copy of a null version in its own key.
Id(rec) == IF rec.vid = None THEN Inf ELSE rec.vid
CopyOf(rec) == [rec EXCEPT !.vid = NullVersionId(rec), !.null = TRUE]

\* Each version key holds the version it names.
Filed == \A v \in Vids : vkeys[v] # None => vkeys[v].vid = v /\ v <= clock

\* An unversioned master has no version beside it but its own copy.
OldForm ==
    master # None /\ master.vid = None =>
        /\ ~master.null /\ master.nullVid = None
        /\ \A v \in Vids : vkeys[v] # None => v = Inf /\ vkeys[v] = CopyOf(master)

\* The master is the latest version, and has a key of its own unless it is null.
Newest ==
    /\ master = None => \A v \in Vids : vkeys[v] = None
    /\ master # None /\ master.vid # None =>
           /\ master.vid <= clock
           /\ vkeys[master.vid] # None => vkeys[master.vid] = master
           /\ ~master.null => vkeys[master.vid] = master
           /\ \A v \in Vids : vkeys[v] # None => v <= master.vid

\* The versions after a null version refer to it, and references name no other
\* version: those of a null version that is gone name nothing.
NullRefs ==
    \A a \in Records :
        /\ IsNull(a) => a.nullVid = None
        /\ a.nullVid # None => a.nullVid < Id(a)
        /\ \A b \in Records :
               /\ IsNull(a) /\ Id(a) < Id(b) => b.nullVid = Id(a)
               /\ a.nullVid # None /\ Id(b) = a.nullVid => IsNull(b)

\* Data is of one version.
OneLoc == \A a, b \in Records : a.loc # None /\ a.loc = b.loc => Id(a) = Id(b)

KeyInv == Filed /\ OldForm /\ Newest /\ NullRefs /\ OneLoc

NoNull == \A a \in Records : ~IsNull(a)
Shown == {Seen(a) : a \in Records}

\* The records of a key are those under the master key and the version keys.
LEMMA RecordsAre ==
    ASSUME EngineOK
    PROVE  /\ \A a : a \in Records <=> /\ a # None
                                       /\ a = master \/ \E v \in Vids : a = vkeys[v]
           /\ Records \subseteq Rec
           /\ \A a \in Records : Id(a) \in Vids /\ Id(a) \in Nat
           /\ \A a \in Records : a.nullVid \in Vids \cup {None} /\ a.null \in BOOLEAN
           /\ clock \in Nat
  <1>1. Records \subseteq Rec
    BY DEF EngineOK, Records
  <1>2. clock \in Nat
    BY VidsAre DEF EngineOK
  <1>3. QED
    BY <1>1, <1>2, VidsAre DEF Records, Rec, Id

\* The copy of a null version is the same version.
LEMMA CopyIs ==
    ASSUME NEW rec \in Rec, IsNull(rec), rec.vid = None => ~rec.null
    PROVE  LET copy == CopyOf(rec)
           IN  /\ copy \in Rec /\ copy # None /\ copy.vid = NullVersionId(rec)
               /\ copy.vid \in Vids /\ copy.vid = Id(rec) /\ copy.vid # None
               /\ copy.null = TRUE /\ copy.nullVid = rec.nullVid
               /\ copy.dm = rec.dm /\ copy.loc = rec.loc
               /\ IsNull(copy) /\ Id(copy) = Id(rec) /\ Seen(copy) = Seen(rec)
               /\ rec.vid # None => copy = rec
  <1> DEFINE copy == CopyOf(rec)
  <1>1. NullVersionId(rec) \in Vids /\ NullVersionId(rec) = Id(rec)
    BY VidsAre DEF NullVersionId, IsNull, Id, Rec
  <1>2. /\ copy \in Rec /\ copy # None /\ copy.vid = NullVersionId(rec)
        /\ copy.null = TRUE /\ copy.nullVid = rec.nullVid
        /\ copy.dm = rec.dm /\ copy.loc = rec.loc
        /\ rec.vid = copy.vid /\ rec.null => copy = rec
    BY <1>1, VidsAre DEF CopyOf, Rec
  <1>3. rec.vid # None => rec.null = TRUE /\ copy.vid = rec.vid
    BY <1>2 DEF IsNull, Rec, NullVersionId
  <1> HIDE DEF copy
  <1>4. IsNull(copy) /\ Id(copy) = Id(rec)
    BY <1>1, <1>2, VidsAre DEF IsNull, Id
  <1>5. Seen(copy) = Seen(rec)
    BY <1>1, <1>2, <1>3, <1>4, VidsAre DEF Seen, Id, IsNull, Rec
  <1>6. QED
    BY <1>1, <1>2, <1>3, <1>4, <1>5, VidsAre DEF copy

\* Records of one identifier are one version to a client.
LEMMA OneSeen ==
    ASSUME EngineOK, Filed, OldForm, Newest, NEW a \in Records, NEW b \in Records,
           Id(a) = Id(b)
    PROVE  Seen(a) = Seen(b) /\ a.nullVid = b.nullVid /\ (IsNull(a) <=> IsNull(b))
  <1>1. a \in Rec /\ b \in Rec /\ a # None /\ b # None
    BY RecordsAre, VidsAre
  <1>2. CASE a.vid = b.vid
    <2>1. a = b
      BY <1>1, <1>2, RecordsAre, VidsAre DEF Filed, OldForm, Newest, Rec
    <2>2. QED
      BY <2>1
  <1>3. ASSUME NEW x \in Records, NEW y \in Records, x.vid = None, y.vid # None,
               Id(x) = Id(y)
        PROVE  x = master /\ IsNull(x) /\ y = CopyOf(x)
    <2>1. /\ x \in Rec /\ y \in Rec /\ x # None /\ y # None
          /\ x = master \/ \E v \in Vids : x = vkeys[v]
          /\ y = master \/ \E v \in Vids : y = vkeys[v]
      BY RecordsAre, VidsAre
    <2>2. x = master
      BY <1>3, <2>1, VidsAre DEF Filed
    <2>3. y = CopyOf(master)
      BY <1>3, <2>1, <2>2 DEF OldForm
    <2>4. QED
      BY <1>3, <2>1, <2>2, <2>3 DEF IsNull
  <1>4. ASSUME NEW x \in Records, NEW y \in Records, x.vid = None, y.vid # None,
               Id(x) = Id(y)
        PROVE  Seen(x) = Seen(y) /\ x.nullVid = y.nullVid /\ IsNull(x) /\ IsNull(y)
    <2>1. x = master /\ IsNull(x) /\ y = CopyOf(x) /\ x \in Rec /\ ~x.null
      BY <1>3, <1>4, RecordsAre, VidsAre DEF OldForm
    <2>2. QED
      BY <2>1, CopyIs
  <1>5. QED
    BY <1>2, <1>4, VidsAre DEF Id

\* DELETE of a version takes the records of that version, and no others.
LEMMA DeleteKeeps ==
    ASSUME EngineOK, KeyInv, NEW v \in Vids, master # None => master.vid # None,
           DeleteVersion(v)
    PROVE  /\ Records' = {a \in Records : a.vid # v} /\ KeyInv'
           /\ master' # None => master'.vid # None
           /\ ~ (master # None /\ master.vid = v) => master' = master
  <1>1. /\ vkeys' = [vkeys EXCEPT ![v] = None] /\ clock' = clock
        /\ master' = IF master # None /\ master.vid = v THEN Latest(vkeys') ELSE master
        /\ vkeys' \in [Vids -> Rec \cup {None}]
        /\ EngineOK'
    BY DeleteVersionType DEF DeleteVersion, EngineOK
  <1>2. \A w \in Vids : vkeys'[w] = IF w = v THEN None ELSE vkeys[w]
    BY <1>1 DEF EngineOK
  <1>3. /\ master # None => master \in Rec
        /\ \A w \in Vids : vkeys[w] # None => vkeys[w] \in Rec /\ vkeys[w].vid = w
    BY DEF EngineOK, KeyInv, Filed
  <1>4. CASE master # None /\ master.vid = v
    <2>1. \/ master' = None /\ \A w \in Vids : vkeys'[w] = None
          \/ \E w \in Vids : /\ vkeys'[w] # None /\ master' = vkeys'[w]
                             /\ \A x \in Vids : vkeys'[x] # None => x <= w
      BY <1>1, <1>4, LatestType
    <2>2. Records' = {a \in Records : a.vid # v}
      <3>1. \A a : a \in Records' <=> a # None /\ \E w \in Vids : a = vkeys'[w]
        BY <2>1 DEF Records
      <3>2. \A a : a \in Records' <=> a # None /\ \E w \in Vids \ {v} : a = vkeys[w]
        BY <1>2, <3>1
      <3>3. \A a : a \in Records <=> a # None /\ (a = master \/ \E w \in Vids : a = vkeys[w])
        BY RecordsAre
      <3>4. QED
        BY <1>3, <1>4, <3>2, <3>3
    <2>3. Filed'
      BY <1>1, <1>2, <1>3 DEF KeyInv, Filed
    <2>4. OldForm' /\ Newest'
      <3>1. CASE master' = None /\ \A w \in Vids : vkeys'[w] = None
        BY <3>1 DEF OldForm, Newest
      <3>2. ASSUME NEW w \in Vids, vkeys'[w] # None, master' = vkeys'[w],
                   \A x \in Vids : vkeys'[x] # None => x <= w
            PROVE  OldForm' /\ Newest'
        <4>1. master'.vid = w /\ w # None /\ w <= clock'
          BY <1>1, <1>2, <1>3, <3>2, VidsAre DEF KeyInv, Filed
        <4>2. QED
          BY <3>2, <4>1 DEF OldForm, Newest
      <3>3. QED
        BY <2>1, <3>1, <3>2
    <2>5. master' # None => master'.vid # None
      BY <1>2, <1>3, <2>1, VidsAre
    <2>6. NullRefs' /\ OneLoc'
      BY <2>2 DEF KeyInv, NullRefs, OneLoc
    <2>7. QED
      BY <1>4, <2>2, <2>3, <2>4, <2>5, <2>6 DEF KeyInv
  <1>5. CASE ~ (master # None /\ master.vid = v)
    <2>1. Records' = {a \in Records : a.vid # v}
      BY <1>1, <1>2, <1>3, <1>5, RecordsAre DEF Records
    <2>2. Filed' /\ OldForm' /\ Newest'
      BY <1>1, <1>2, <1>3, <1>5, VidsAre DEF KeyInv, Filed, OldForm, Newest
    <2>3. QED
      BY <1>1, <1>5, <2>1, <2>2 DEF KeyInv, NullRefs, OneLoc
  <1>6. QED
    BY <1>4, <1>5

\* Storing a null version apart changes nothing that clients see.
LEMMA StoreKeeps ==
    ASSUME EngineOK, KeyInv, IsNull(master), master.vid = None => vkeys[Inf] = None,
           PutVersion(NullVersionId(master), CopyOf(master))
    PROVE  /\ KeyInv' /\ Shown' = Shown
           /\ vkeys'[NullVersionId(master)] = CopyOf(master)
           /\ master' \in {master, CopyOf(master)}
           /\ \A a \in Records' : a = CopyOf(master) \/ a \in Records
  <1> DEFINE v == NullVersionId(master)
             copy == CopyOf(master)
  <1>1. master \in Rec /\ (master.vid = None => ~master.null) /\ master # None
    BY DEF EngineOK, IsNull, KeyInv, OldForm
  <1>2. /\ v \in Vids /\ copy \in Rec /\ copy.vid = v
        /\ IsNull(copy) /\ Id(copy) = Id(master) /\ Seen(copy) = Seen(master)
        /\ copy # None /\ copy.nullVid = master.nullVid /\ copy.loc = master.loc
        /\ v = Id(master) /\ copy.null = TRUE /\ v # None
        /\ master.vid # None => copy = master
    BY <1>1, CopyIs
  <1> HIDE DEF copy, v
  <1>3. /\ vkeys' = [vkeys EXCEPT ![v] = copy] /\ clock' = clock
        /\ master' \in {master, copy}
    BY DEF PutVersion, copy, v
  <1>4. \A w \in Vids : vkeys'[w] = IF w = v THEN copy ELSE vkeys[w]
    BY <1>2, <1>3 DEF EngineOK
  <1>5. EngineOK'
    BY <1>2, PutVersionType DEF copy, v
  <1>6. /\ \A a : a \in Records <=> a # None /\ (a = master \/ \E w \in Vids : a = vkeys[w])
        /\ \A a : a \in Records' <=> a # None /\ (a = master' \/ \E w \in Vids : a = vkeys'[w])
    BY RecordsAre DEF Records
  <1>7. /\ Records' \subseteq Records \cup {copy} /\ copy \in Records'
        /\ master \in Records
    BY <1>1, <1>2, <1>3, <1>4, <1>6
  <1>8. Records \subseteq Records' \cup {master}
    <2>1. CASE master.vid # None
      BY <1>1, <1>2, <1>3, <1>4, <1>6, <2>1 DEF KeyInv, Newest, Id
    <2>2. CASE master.vid = None
      BY <1>1, <1>2, <1>3, <1>4, <1>6, <2>2 DEF KeyInv, OldForm, Id
    <2>3. QED
      BY <2>1, <2>2
  <1>9. Shown' = Shown
    BY <1>2, <1>7, <1>8 DEF Shown, Seen
  <1>10. clock \in Nat /\ v <= clock
    BY <1>1, <1>2, RecordsAre, VidsAre DEF KeyInv, Newest, Id, Inf
  <1>11. Filed'
    BY <1>2, <1>3, <1>4, <1>10 DEF KeyInv, Filed
  <1>12. OldForm' /\ Newest'
    <2>1. CASE master.vid # None
      BY <1>2, <1>3, <1>4, <2>1, VidsAre DEF KeyInv, OldForm, Newest, Id
    <2>2. CASE master.vid = None
      BY <1>1, <1>2, <1>3, <1>4, <1>10, <2>2, VidsAre
         DEF KeyInv, OldForm, Newest, Id, copy
    <2>3. QED
      BY <2>1, <2>2
  <1>13. NullRefs' /\ OneLoc'
    <2>1. \A a \in Records' : \E b \in Records :
             /\ Id(a) = Id(b) /\ a.nullVid = b.nullVid /\ a.loc = b.loc
             /\ IsNull(a) <=> IsNull(b)
      BY <1>1, <1>2, <1>7
    <2>2. QED
      BY <2>1 DEF KeyInv, NullRefs, OneLoc
  <1>14. QED
    BY <1>1, <1>3, <1>4, <1>7, <1>9, <1>11, <1>12, <1>13, <1>2 DEF KeyInv, copy, v

\* Before versioning there is one record, which is overwritten or deleted.
LEMMA PutMasterKeeps ==
    ASSUME EngineOK, \A v \in Vids : vkeys[v] = None, UNCHANGED <<vkeys, clock>>,
           \/ master' = None
           \/ /\ master' \in Rec /\ master'.vid = None /\ ~master'.null
              /\ master'.nullVid = None
    PROVE  KeyInv' /\ Records' = {master'} \ {None}
  <1>1. Records' = {master'} \ {None}
    BY DEF Records
  <1>2. Filed' /\ OldForm' /\ Newest'
    BY DEF Filed, OldForm, Newest
  <1>3. NullRefs' /\ OneLoc'
    BY <1>1, VidsAre DEF NullRefs, OneLoc, Id, Inf
  <1>4. QED
    BY <1>1, <1>2, <1>3 DEF KeyInv

\* The identifier of a record is not ahead of the clock.
LEMMA IdsBehind ==
    ASSUME EngineOK, KeyInv, NEW a \in Records
    PROVE  /\ Id(a) <= clock /\ Id(a) \in Nat /\ clock \in Nat
           /\ master # None /\ Id(a) <= Id(master)
  <1>1. a # None /\ (a = master \/ \E v \in Vids : a = vkeys[v]) /\ Id(a) \in Nat
        /\ clock \in Nat
    BY RecordsAre
  <1>2. master # None
    BY <1>1 DEF KeyInv, Newest
  <1>3. CASE master.vid = None
    BY <1>1, <1>2, <1>3, VidsAre
       DEF KeyInv, OldForm, CopyOf, NullVersionId, Id, Inf, Filed
  <1>4. CASE master.vid # None
    BY <1>1, <1>2, <1>4, VidsAre DEF KeyInv, Newest, Filed, Id, Inf
  <1>5. QED
    BY <1>1, <1>2, <1>3, <1>4

\* A write while versioning is suspended takes the place of the null version.
LEMMA PutNullKeeps ==
    ASSUME EngineOK, KeyInv, NEW rec \in Rec, rec.vid = clock + 1, clock + 1 \in Vids,
           rec.null = TRUE, rec.nullVid = None,
           \A a \in Records : a.loc # None => a.loc # rec.loc,
           \A v \in Vids : vkeys[v] # None => ~IsNull(vkeys[v]),
           master' = rec, clock' = clock + 1, UNCHANGED vkeys
    PROVE  /\ KeyInv' /\ Records' = {a \in Records : ~IsNull(a)} \cup {rec}
           /\ Id(rec) = clock + 1 /\ IsNull(rec)
  <1>1. /\ rec # None /\ rec.vid # None /\ Id(rec) = clock + 1 /\ IsNull(rec)
        /\ clock \in Nat
    BY VidsAre, RecordsAre DEF Id, IsNull
  <1>2. \A a : a \in Records <=> a # None /\ (a = master \/ \E w \in Vids : a = vkeys[w])
    BY RecordsAre
  <1>3. \A a : a \in Records' <=> a = rec \/ (a # None /\ \E w \in Vids : a = vkeys[w])
    BY <1>1 DEF Records
  <1>4. \A v \in Vids : vkeys[v] # None => ~IsNull(vkeys[v])
    OBVIOUS
  <1>5. Records' = {a \in Records : ~IsNull(a)} \cup {rec}
    <2>1. master # None /\ ~IsNull(master) => vkeys[master.vid] = master /\ master.vid \in Vids
      BY DEF KeyInv, Newest, IsNull, EngineOK, Rec
    <2>2. QED
      BY <1>2, <1>3, <1>4, <2>1
  <1>6. \A a \in Records : Id(a) \in Nat /\ Id(a) <= clock /\ a.nullVid \in Vids \cup {None}
    BY IdsBehind, RecordsAre
  <1>7. vkeys[clock + 1] = None
    BY <1>1, <1>2, <1>6, VidsAre DEF KeyInv, Filed
  <1>8. Filed'
    BY <1>1, VidsAre DEF KeyInv, Filed
  <1>9. OldForm' /\ Newest'
    BY <1>1, <1>7, VidsAre DEF KeyInv, OldForm, Newest, Filed
  <1>10. OneLoc'
    BY <1>5 DEF KeyInv, OneLoc
  <1>11. NullRefs'
    BY <1>1, <1>5, <1>6, VidsAre DEF KeyInv, NullRefs
  <1>12. QED
    BY <1>1, <1>5, <1>8, <1>9, <1>10, <1>11 DEF KeyInv

\* What an enabled write saves of the record it read, before it writes.
Saved(obj) ==
    /\ obj = None \/ ~IsNull(obj) => master = obj
    /\ obj # None /\ IsNull(obj) =>
           /\ vkeys[NullVersionId(obj)] = CopyOf(obj)
           /\ master \in {obj, CopyOf(obj)}

\* A write while versioning is enabled adds a version.
LEMMA PutNewKeeps ==
    ASSUME EngineOK, KeyInv, NEW rec \in Rec, rec.vid = clock + 1, clock + 1 \in Vids,
           rec.null = FALSE, NEW obj \in Rec \cup {None}, Saved(obj),
           obj # None /\ obj.vid = None => ~obj.null,
           rec.nullVid = EnabledPlan(obj).nullVid,
           \A a \in Records : a.loc # None => a.loc # rec.loc,
           master' = rec, clock' = clock + 1, vkeys' = [vkeys EXCEPT ![clock + 1] = rec]
    PROVE  /\ KeyInv' /\ Shown' = Shown \cup {Seen(rec)}
           /\ Records' \subseteq Records \cup {rec} /\ rec \in Records'
           /\ Id(rec) = clock + 1 /\ ~IsNull(rec)
  <1>1. /\ rec # None /\ rec.vid # None /\ Id(rec) = clock + 1 /\ ~IsNull(rec)
        /\ clock \in Nat /\ \A w \in Vids : vkeys'[w] = IF w = clock + 1 THEN rec ELSE vkeys[w]
    BY VidsAre, RecordsAre DEF Id, IsNull, EngineOK
  <1>2. \A a : a \in Records <=> a # None /\ (a = master \/ \E w \in Vids : a = vkeys[w])
    BY RecordsAre
  <1>3. \A a \in Records : Id(a) \in Nat /\ Id(a) <= clock /\ a.nullVid \in Vids \cup {None}
    BY IdsBehind, RecordsAre
  <1>4. vkeys[clock + 1] = None
    BY <1>1, <1>2, <1>3, VidsAre DEF KeyInv, Filed, Id
  <1>5. \A a : a \in Records' <=> a = rec \/ (a # None /\ \E w \in Vids : a = vkeys[w])
    BY <1>1, <1>4 DEF Records
  <1>6. Records' \subseteq Records \cup {rec} /\ rec \in Records'
    BY <1>2, <1>5
  \* The master is kept under its own key, or its copy.
  <1>7. master # None => \E a \in Records' : Seen(a) = Seen(master)
    <2>1. CASE master # None /\ ~IsNull(master)
      <3>1. master.vid \in Vids /\ vkeys[master.vid] = master
        BY <2>1 DEF KeyInv, Newest, IsNull, EngineOK, Rec
      <3>2. QED
        BY <1>5, <2>1, <3>1
    <2>2. CASE master # None /\ IsNull(master)
      <3>1. IsNull(obj) /\ obj \in Rec
        BY <2>2 DEF Saved, IsNull
      <3>2. /\ vkeys[NullVersionId(obj)] = CopyOf(obj) /\ master \in {obj, CopyOf(obj)}
            /\ NullVersionId(obj) \in Vids /\ CopyOf(obj) # None
            /\ Seen(CopyOf(obj)) = Seen(obj)
        BY <3>1, CopyIs, VidsAre DEF Saved
      <3>3. QED
        BY <1>5, <3>2
    <2>3. QED
      BY <2>1, <2>2
  <1>8. Shown' = Shown \cup {Seen(rec)}
    <2>1. Shown = {Seen(a) : a \in Records} /\ Shown' = {Seen(a) : a \in Records'}
      BY DEF Shown, Seen
    <2>2. \A a \in Records : a = master \/ a \in Records'
      BY <1>2, <1>5
    <2>3. QED
      BY <1>2, <1>6, <1>7, <2>1, <2>2
  <1>9. Filed'
    BY <1>1, VidsAre DEF KeyInv, Filed
  <1>10. OldForm' /\ Newest'
    BY <1>1, <1>2, <1>3, VidsAre DEF OldForm, Newest, KeyInv, Filed
  <1>11. OneLoc'
    BY <1>6 DEF KeyInv, OneLoc
  <1>12. /\ rec.nullVid # None => rec.nullVid < Id(rec)
         /\ \A a \in Records : /\ IsNull(a) => rec.nullVid = Id(a)
                               /\ rec.nullVid # None /\ Id(a) = rec.nullVid => IsNull(a)
    <2>1. CASE obj = None
      <3>1. rec.nullVid = None
        BY <2>1 DEF EnabledPlan, Plan, IsNull
      <3>2. Records = {}
        BY <1>2, <2>1 DEF Saved, KeyInv, Newest
      <3>3. QED
        BY <3>1, <3>2
    <2>2. CASE obj # None /\ ~IsNull(obj)
      <3>1. master = obj /\ master \in Records /\ rec.nullVid = master.nullVid
        BY <1>2, <2>2 DEF Saved, EnabledPlan, Plan
      <3>2. \A a \in Records : IsNull(a) => Id(a) < Id(master)
        <4>1. \A a \in Records : Id(a) = Id(master) => ~IsNull(a)
          BY <2>2, <3>1, OneSeen DEF KeyInv
        <4>2. QED
          BY <1>3, <3>1, <4>1, IdsBehind
      <3>3. \A a \in Records : /\ IsNull(a) => rec.nullVid = Id(a)
                               /\ rec.nullVid # None /\ Id(a) = rec.nullVid => IsNull(a)
        BY <3>1, <3>2 DEF KeyInv, NullRefs
      <3>4. master.nullVid # None => master.nullVid < Id(master) /\ master.nullVid \in Nat
        BY <1>3, <3>1, VidsAre DEF KeyInv, NullRefs
      <3>5. rec.nullVid # None => rec.nullVid < Id(rec)
        <4>1. Id(master) \in Nat /\ Id(master) <= clock
          BY <1>3, <3>1
        <4>2. QED
          BY <1>1, <3>1, <3>4, <4>1
      <3>6. QED
        BY <3>3, <3>5
    <2>3. CASE obj # None /\ IsNull(obj)
      <3>1. /\ obj \in Rec /\ master \in {obj, CopyOf(obj)} /\ rec.nullVid = NullVersionId(obj)
        BY <2>3 DEF Saved, EnabledPlan, Plan
      <3>2. /\ master # None /\ IsNull(master) /\ Id(master) = rec.nullVid
            /\ master \in Records
        <4>1. /\ CopyOf(obj) # None /\ IsNull(CopyOf(obj)) /\ Id(CopyOf(obj)) = Id(obj)
              /\ NullVersionId(obj) = Id(obj)
          BY <2>3, <3>1, CopyIs
        <4>2. QED
          BY <1>2, <2>3, <3>1, <4>1
      <3>3. master.nullVid = None
        BY <3>2 DEF KeyInv, NullRefs
      <3>4. \A a \in Records : IsNull(a) => Id(a) = Id(master)
        BY <1>3, <3>2, <3>3, IdsBehind, RecordsAre, VidsAre DEF KeyInv, NullRefs
      <3>5. \A a \in Records : Id(a) = Id(master) => IsNull(a)
        BY <3>2, OneSeen DEF KeyInv
      <3>6. Id(master) < Id(rec)
        BY <1>1, <1>3, <3>2
      <3>7. QED
        BY <3>2, <3>4, <3>5, <3>6
    <2>4. QED
      BY <2>1, <2>2, <2>3
  <1>13. NullRefs'
    BY <1>1, <1>3, <1>6, <1>12, VidsAre DEF KeyInv, NullRefs
  <1>14. QED
    BY <1>1, <1>6, <1>8, <1>9, <1>10, <1>11, <1>13 DEF KeyInv

\* Writing the master back changes nothing.
LEMMA EditKeeps ==
    ASSUME EngineOK, KeyInv, master # None,
           IF master.vid = None THEN PutMaster(master) ELSE PutVersion(master.vid, master)
    PROVE  KeyInv' /\ Records' = Records /\ UNCHANGED <<master, clock>>
  <1>1. CASE master.vid = None
    BY <1>1
       DEF PutMaster, KeyInv, Filed, OldForm, Newest, NullRefs, OneLoc, Records
  <1>2. CASE master.vid # None
    <2>1. /\ vkeys' = [vkeys EXCEPT ![master.vid] = master] /\ master' = master
          /\ clock' = clock /\ master.vid \in Vids
      BY <1>2 DEF PutVersion, EngineOK, Rec
    <2>2. \A w \in Vids : vkeys'[w] = IF w = master.vid THEN master ELSE vkeys[w]
      BY <2>1 DEF EngineOK
    <2>3. \A a : a \in Records <=> a # None /\ (a = master \/ \E w \in Vids : a = vkeys[w])
      BY RecordsAre
    <2>4. \A a : a \in Records' <=> a # None /\ (a = master \/ \E w \in Vids : a = vkeys'[w])
      BY <2>1 DEF Records
    <2>5. Records' = Records
      BY <1>2, <2>1, <2>2, <2>3, <2>4 DEF KeyInv, Newest
    <2>6. QED
      BY <1>2, <2>1, <2>2, <2>5, VidsAre
         DEF KeyInv, Filed, OldForm, Newest, NullRefs, OneLoc
  <1>3. QED
    BY <1>1, <1>2

-----------------------------------------------------------------------------
(* Requests one after the other *)

\* Clients wait for each answer.  A request that dies between two calls does no
\* harm where the copy of an unversioned master overwrites it.
Orderly == Discipline = "sequential" /\ (Crashes => Follows = {TRUE})

Solo == \A q, r \in Reqs : Running(q) /\ Running(r) => q = r
Current == \A r \in Reqs : Running(r) => ctx[r].status = status

\* Before versioning was configured there is one unversioned record.
Unversioned ==
    status = "none" => /\ \A v \in Vids : vkeys[v] = None
                       /\ clock = Inf
                       /\ master # None => master.vid = None

\* Only a request about to write has left a copy beside an unversioned master.
Calm ==
    master # None /\ master.vid = None /\ vkeys[Inf] # None =>
        ~Crashes /\ \E r \in Reqs : pc[r] = "putMD"

\* The data a record names was stored by a request that has written since.
Early == {"idle"} \cup Writing
LocWritten == \A a \in Records : a.loc # None => a.loc \in Reqs /\ pc[a.loc] \notin Early

\* Nothing stands in the way of the record a request is about to write.
Ready(r) ==
    /\ ctx[r].status = "none" => master = ctx[r].obj
    /\ ctx[r].status = "Enabled" =>
           /\ Saved(ctx[r].obj)
           /\ ctx[r].obj # None /\ ctx[r].obj.vid = None => ~ctx[r].obj.null
    /\ ctx[r].status = "Suspended" =>
           \/ NoNull
           \/ /\ master = ctx[r].obj /\ master # None /\ master.vid = None
              /\ \A v \in Vids : vkeys[v] = None

\* What a running request knows at its label.
AtLabel(r) ==
    LET obj == ctx[r].obj
        stat == ctx[r].status
    IN  /\ pc[r] \in {"storeData", "storeNull", "getNull", "delNull", "editMD", "findNull"}
               => obj = master
        /\ pc[r] = "storeNull" =>
               /\ stat = "Enabled" /\ IsNull(obj)
               /\ obj.vid = None => vkeys[Inf] = None
        /\ pc[r] \in {"getNull", "delNull"} => stat = "Suspended" /\ obj # None
        /\ pc[r] \in {"getNull", "findNull"} => ~IsNull(obj)
        /\ pc[r] = "putMD" => Ready(r)
        /\ pc[r] = "delMD" => /\ obj \in Records
                              /\ stat = "none" \/ obj.vid = None =>
                                     master = obj /\ obj.vid = None
Labelled == \A r \in Reqs : Running(r) => AtLabel(r)

OrderInv ==
    /\ TypeInv /\ KeyInv /\ Solo /\ Current /\ Unversioned /\ Calm
    /\ LocWritten /\ Labelled

\* Where the versions of a key are in order, the null one is the one that the
\* master is, or refers to.
LEMMA NullIs ==
    ASSUME EngineOK, KeyInv, NEW a \in Records, IsNull(a)
    PROVE  /\ master # None
           /\ IsNull(master) => Id(a) = Id(master)
           /\ ~IsNull(master) => /\ master.nullVid = Id(a) /\ Id(a) # None
                                 /\ Id(a) < Id(master)
  <1>1. /\ master # None /\ master \in Records /\ Id(a) \in Vids /\ Id(a) <= Id(master)
        /\ Id(a) \in Nat /\ Id(master) \in Nat
    BY IdsBehind, RecordsAre
  <1>2. Id(a) < Id(master) => master.nullVid = Id(a) /\ master.nullVid # None
    BY <1>1, VidsAre DEF KeyInv, NullRefs
  <1>3. Id(a) = Id(master) => IsNull(master)
    BY <1>1, OneSeen DEF KeyInv
  <1>4. IsNull(master) => master.nullVid = None
    BY <1>1 DEF KeyInv, NullRefs
  <1>5. QED
    BY <1>1, <1>2, <1>3, <1>4, VidsAre

\* A reference finds the null version, if there is one.
LEMMA NullFoundBy ==
    ASSUME EngineOK, KeyInv, master # None, ~IsNull(master), NEW a \in Records, IsNull(a)
    PROVE  /\ master.nullVid \in Vids /\ a.vid = master.nullVid
           /\ vkeys[master.nullVid] = a /\ GetVersion(master.nullVid) = a
  <1>1. /\ master.nullVid = Id(a) /\ Id(a) \in Vids /\ Id(a) < Id(master)
        /\ a # None /\ (a = master \/ \E v \in Vids : a = vkeys[v])
        /\ Id(a) \in Nat /\ Id(master) \in Nat
    BY NullIs, RecordsAre
  <1>2. a # master
    BY <1>1
  <1>3. PICK v \in Vids : a = vkeys[v]
    BY <1>1, <1>2
  <1>4. a.vid = v /\ v # None
    BY <1>1, <1>3, VidsAre DEF KeyInv, Filed
  <1>5. QED
    BY <1>1, <1>3, <1>4, VidsAre DEF Id, GetVersion

\* The first call of a write finds what it relies on.
LEMMA FirstCallReady ==
    ASSUME EngineOK, KeyInv, Unversioned, status \in {"none", "Enabled", "Suspended"},
           master # None /\ master.vid = None => vkeys[Inf] = None
    PROVE  LET plan == PlanOf(status, master)
               call == FirstCall(plan)
           IN  /\ call = "storeNull" => status = "Enabled" /\ IsNull(master)
               /\ call \in {"getNull", "delNull"} => status = "Suspended" /\ master # None
               /\ call = "getNull" => ~IsNull(master)
               /\ call = "putMD" /\ status = "Enabled" => master = None \/ ~IsNull(master)
               /\ call = "putMD" /\ status = "Suspended" =>
                      \/ NoNull
                      \/ /\ master # None /\ master.vid = None
                         /\ \A v \in Vids : vkeys[v] = None
  <1>1. master # None => master \in Rec /\ master.null \in BOOLEAN
    BY DEF EngineOK, Rec
  <1>2. CASE status = "none"
    BY <1>2 DEF PlanOf, Plan, FirstCall
  <1>3. CASE status = "Enabled"
    <2>1. CASE IsNull(master)
      <3>1. NullVersionId(master) # None /\ master # None
        BY <2>1, VidsAre DEF IsNull, NullVersionId, KeyInv, OldForm
      <3>2. QED
        BY <1>3, <2>1, <3>1 DEF PlanOf, Plan, FirstCall, EnabledPlan
    <2>2. CASE ~IsNull(master)
      BY <1>3, <2>2 DEF PlanOf, Plan, FirstCall, EnabledPlan, IsNull
    <2>3. QED
      BY <2>1, <2>2
  <1>4. CASE status = "Suspended"
    <2>1. CASE master = None
      <3>1. NoNull
        BY <2>1, RecordsAre DEF KeyInv, Newest, NoNull
      <3>2. QED
        BY <1>4, <2>1, <3>1 DEF PlanOf, Plan, FirstCall, SuspendedPlan, IsNull
    <2>2. CASE IsNull(master) /\ ~master.null
      <3>1. master # None /\ master.vid = None
        BY <2>2 DEF IsNull
      <3>2. \A v \in Vids : vkeys[v] = None
        BY <3>1 DEF KeyInv, OldForm
      <3>3. QED
        BY <1>4, <2>2, <3>1, <3>2 DEF PlanOf, Plan, FirstCall, SuspendedPlan
    <2>3. CASE IsNull(master) /\ master.null
      <3>1. master # None /\ master.vid # None
        BY <2>3 DEF IsNull, KeyInv, OldForm
      <3>2. QED
        BY <1>4, <2>3, <3>1 DEF PlanOf, Plan, FirstCall, SuspendedPlan
    <2>4. CASE master # None /\ ~IsNull(master)
      <3>1. master.nullVid = None => NoNull
        BY <2>4, NullIs DEF NoNull
      <3>2. QED
        BY <1>4, <2>4, <3>1 DEF PlanOf, Plan, FirstCall, SuspendedPlan
    <2>5. QED
      BY <1>1, <2>1, <2>2, <2>3, <2>4 DEF IsNull
  <1>5. QED
    BY <1>2, <1>3, <1>4

\* What the invariant says of types.
LEMMA OrderTypes ==
    ASSUME OrderInv
    PROVE  /\ TypeInv /\ EngineOK /\ KeyInv /\ RightContext
           /\ pc \in [Reqs -> Labels] /\ ctx \in [Reqs -> Context]
           /\ status \in {"none", "Enabled", "Suspended"}
           /\ \A r \in Reqs : /\ ctx[r].obj \in Rec \cup {None}
                              /\ ctx[r].status \in {"none", "Enabled", "Suspended"}
                              /\ ctx[r].doomed \in SUBSET Reqs
                              /\ MyPlan(r) \in Plans
  BY PlanType DEF OrderInv, TypeInv, TypeOK, EngineOK, Context, MyPlan

\* While a request runs the others are idle or have answered.
LEMMA StepSolo ==
    ASSUME OrderInv, NEW r \in Reqs, Step(r)
    PROVE  /\ Running(r) /\ \A q \in Reqs \ {r} : ~Running(q) /\ ~Running(q)'
           /\ ctx[r].status = status /\ ctx'[r].status = status /\ AtLabel(r)
           /\ Solo' /\ Current'
           /\ (Running(r)' => AtLabel(r)') => Labelled'
           /\ pc[r] \in Early \/ pc'[r] \notin Early
           /\ Advance(r) /\ status' = status
  <1>1. TypeInv /\ Advance(r) /\ pc[r] \in Labels /\ pc'[r] \in Labels
    BY StepAdvances DEF OrderInv, TypeInv, TypeOK, Advance, Beside
  <1>2. Running(r)
    BY <1>1, StepGoes DEF Running, Done
  <1>3. \A q \in Reqs \ {r} : ~Running(q) /\ ~Running(q)'
    BY <1>1, <1>2 DEF OrderInv, Solo, Running, Advance, Beside
  <1>4. ctx[r].status = status /\ AtLabel(r)
    BY <1>2 DEF OrderInv, Current, Labelled
  <1>5. Solo' /\ Current' /\ ((Running(r)' => AtLabel(r)') => Labelled')
    BY <1>1, <1>3, <1>4 DEF Solo, Current, Labelled, Advance
  <1>6. pc[r] \in Early \/ pc'[r] \notin Early
    BY <1>1, StepGoes DEF Early, Writing, Done
  <1>7. QED
    BY <1>1, <1>2, <1>3, <1>4, <1>5, <1>6 DEF Advance

\* Only a request that is about to write may find an unversioned master copied.
LEMMA CalmStep ==
    ASSUME OrderInv, NEW r \in Reqs, Step(r), pc[r] # "putMD"
    PROVE  master # None /\ master.vid = None => vkeys[Inf] = None
  BY StepSolo DEF OrderInv, Calm, Running, Done

\* Calls that do not reach the engine leave the records as they are.
LEMMA EngineRests ==
    ASSUME OrderInv, NEW r \in Reqs, Step(r), UNCHANGED engine, pc[r] # "putMD"
    PROVE  KeyInv' /\ Unversioned' /\ Calm' /\ LocWritten' /\ Records' = Records
  <1>1. UNCHANGED <<master, vkeys, clock, status>> /\ Advance(r)
        /\ (pc[r] \in Early \/ pc'[r] \notin Early)
    BY StepSolo DEF engine
  <1>2. Records' = Records
    BY <1>1 DEF Records
  <1>3. KeyInv'
    BY <1>1, <1>2 DEF OrderInv, KeyInv, Filed, OldForm, Newest, NullRefs, OneLoc
  <1>4. Unversioned' /\ Calm'
    BY <1>1, CalmStep DEF OrderInv, Unversioned, Calm
  <1>5. LocWritten'
    BY <1>1, <1>2 DEF OrderInv, LocWritten, Advance, Beside
  <1>6. QED
    BY <1>2, <1>3, <1>4, <1>5

\* A request that has read the current master and goes on to write.
LEMMA FirstCallAt ==
    ASSUME OrderInv, NEW r \in Reqs, pc'[r] = FirstCall(PlanOf(status, master)),
           ctx'[r].obj = master, ctx'[r].status = status, UNCHANGED <<status, engine>>,
           master # None /\ master.vid = None => vkeys[Inf] = None
    PROVE  AtLabel(r)'
  <1>1. EngineOK /\ KeyInv /\ Unversioned /\ status \in {"none", "Enabled", "Suspended"}
        /\ master \in Rec \cup {None}
    BY OrderTypes DEF OrderInv, EngineOK
  <1>2. UNCHANGED <<master, vkeys, clock>> /\ Records' = Records
    BY DEF engine, Records
  <1>3. pc'[r] \in Writing \ {"storeData"}
    BY <1>1, PlanType
  <1>4. /\ pc'[r] = "storeNull" => status = "Enabled" /\ IsNull(master)
        /\ pc'[r] \in {"getNull", "delNull"} => status = "Suspended" /\ master # None
        /\ pc'[r] = "getNull" => ~IsNull(master)
    BY <1>1, FirstCallReady
  <1>5. ASSUME pc'[r] = "putMD" PROVE Ready(r)'
    <2>1. /\ status = "Enabled" => master = None \/ ~IsNull(master)
          /\ status = "Suspended" => \/ NoNull
                                     \/ /\ master # None /\ master.vid = None
                                        /\ \A v \in Vids : vkeys[v] = None
      BY <1>1, <1>5, FirstCallReady
    <2>2. NoNull => NoNull'
      BY <1>2 DEF NoNull
    <2>3. status = "Enabled" => Saved(master)'
      BY <1>2, <2>1 DEF Saved, IsNull
    <2>4. master # None /\ master.vid = None => ~master.null
      BY <1>1 DEF KeyInv, OldForm
    <2>5. QED
      BY <1>2, <2>1, <2>2, <2>3, <2>4 DEF Ready, Saved, IsNull
  <1>6. QED
    BY <1>2, <1>3, <1>4, <1>5 DEF AtLabel, Writing, IsNull

\* What each step keeps, and what of the versions it changes.
OrderKept(r) ==
    /\ KeyInv' /\ Unversioned' /\ Calm' /\ LocWritten'
    /\ Running(r)' => AtLabel(r)'

\* Storing data leaves the records as they are.
LEMMA StoreDataOrder ==
    ASSUME OrderInv, NEW r \in Reqs, StoreData(r)
    PROVE  OrderKept(r) /\ Shown' = Shown /\ UNCHANGED clock
  <1>1. Step(r) /\ UNCHANGED engine /\ pc[r] = "storeData"
    BY DEF Step, StoreData, Go
  <1>2. /\ Advance(r) /\ status' = status /\ ctx'[r].status = status
        /\ ctx[r].status = status /\ ctx[r].obj = master /\ ctx'[r].obj = master
    BY <1>1, StepSolo DEF AtLabel, Advance
  <1>3. pc'[r] = FirstCall(PlanOf(status, master))
    BY <1>1, <1>2, OrderTypes DEF StoreData, Go, MyPlan
  <1>4. AtLabel(r)'
    BY <1>1, <1>2, <1>3, CalmStep, FirstCallAt
  <1>5. QED
    BY <1>1, <1>4, EngineRests DEF OrderKept, Shown, Seen, engine

\* Storing the null version apart shows clients nothing, and makes way for the
\* write that follows.
LEMMA StoreNullOrder ==
    ASSUME Orderly, OrderInv, NEW r \in Reqs, StoreNull(r)
    PROVE  OrderKept(r) /\ Shown' = Shown /\ UNCHANGED clock
  <1>1. Step(r) /\ pc[r] = "storeNull" /\ pc'[r] = "putMD"
    BY OrderTypes DEF Step, StoreNull, Go
  <1>2. /\ Advance(r) /\ status' = status /\ ctx'[r].status = status
        /\ ctx[r].status = status /\ ctx[r].obj = master /\ ctx'[r].obj = master
        /\ status = "Enabled" /\ IsNull(master)
        /\ master.vid = None => vkeys[Inf] = None
    BY <1>1, StepSolo DEF AtLabel, Advance
  <1>3. MyPlan(r).store = NullVersionId(master)
    BY <1>2 DEF MyPlan, PlanOf, EnabledPlan, Plan, IsNull
  <1>4. PutVersion(NullVersionId(master), CopyOf(master)) /\ UNCHANGED clock
    BY <1>2, <1>3 DEF StoreNull, CopyOf, PutVersion
  <1>5. /\ KeyInv' /\ Shown' = Shown
        /\ vkeys'[NullVersionId(master)] = CopyOf(master)
        /\ master' \in {master, CopyOf(master)}
        /\ \A a \in Records' : a = CopyOf(master) \/ a \in Records
    BY <1>2, <1>4, StoreKeeps, OrderTypes
  <1>6. Unversioned'
    BY <1>2 DEF Unversioned
  <1>7. master \in Rec /\ master # None /\ (master.vid = None => ~master.null)
        /\ master \in Records
    BY <1>2, OrderTypes, RecordsAre DEF IsNull, EngineOK, KeyInv, OldForm
  <1>8. CopyOf(master).vid # None /\ CopyOf(master).loc = master.loc
    BY <1>2, <1>7, CopyIs
  <1>9. Calm'
    <2> SUFFICES ASSUME master' # None, master'.vid = None, vkeys'[Inf] # None
                 PROVE  ~Crashes
      BY <1>1 DEF Calm
    <2>1. master' = master /\ master.vid = None
      BY <1>5, <1>8
    <2>2. MasterFollows(NullVersionId(master)) = Follows
      BY <2>1, <1>7 DEF MasterFollows
    <2>3. \E follows \in Follows :
             master' = IF follows THEN CopyOf(master) ELSE master
      BY <1>4, <2>2 DEF PutVersion
    <2>4. master # CopyOf(master)
      BY <1>8, <2>1
    <2>5. FALSE \in Follows
      BY <2>1, <2>3, <2>4, VersioningAssumption
    <2>6. QED
      BY <2>5 DEF Orderly
  <1>10. LocWritten'
    BY <1>1, <1>2, <1>5, <1>7, <1>8
       DEF OrderInv, LocWritten, Advance, Beside, Early, Writing
  <1>11. Ready(r)'
    BY <1>2, <1>5, <1>7 DEF Ready, Saved
  <1>12. QED
    BY <1>1, <1>4, <1>5, <1>6, <1>9, <1>10, <1>11 DEF OrderKept, AtLabel

\* Removing the records of a version removes that version, if it is there.
Removes == Shown' = Shown \/ \E a \in Records : Shown' = Shown \ {Seen(a)}

\* The engine's DELETE of a version shows clients that it is gone.
LEMMA DeleteShown ==
    ASSUME EngineOK, KeyInv, NEW v \in Vids, master # None => master.vid # None,
           DeleteVersion(v)
    PROVE  Removes
  <1>1. Records' = {a \in Records : a.vid # v}
    BY DeleteKeeps
  <1>2. \A a \in Records : a.vid # None /\ a # None /\ Id(a) = a.vid
    <2>1. \A a \in Records : a # None /\ (a = master \/ \E w \in Vids : a = vkeys[w])
      BY RecordsAre
    <2>2. \A a \in Records : a.vid # None
      BY <2>1, VidsAre DEF KeyInv, Filed
    <2>3. QED
      BY <2>1, <2>2 DEF Id
  <1>3. \A a, b \in Records : Seen(a) = Seen(b) <=> a.vid = b.vid
    <2>1. \A a, b \in Records : Id(a) = Id(b) => Seen(a) = Seen(b)
      BY OneSeen DEF KeyInv
    <2>2. \A a \in Records : Seen(a).vid = Id(a)
      BY DEF Seen, Id
    <2>3. QED
      BY <1>2, <2>1, <2>2
  <1>4. Shown = {Seen(a) : a \in Records} /\ Shown' = {Seen(a) : a \in Records'}
    BY DEF Shown, Seen
  <1>5. CASE \A a \in Records : a.vid # v
    BY <1>1, <1>4, <1>5 DEF Removes
  <1>6. ASSUME NEW b \in Records, b.vid = v PROVE Removes
    <2>1. Shown' = Shown \ {Seen(b)}
      BY <1>1, <1>3, <1>4, <1>6
    <2>2. QED
      BY <2>1 DEF Removes
  <1>7. QED
    BY <1>5, <1>6

\* A null version that is not found is not there.
LEMMA GetNullOrder ==
    ASSUME OrderInv, NEW r \in Reqs, GetNull(r)
    PROVE  OrderKept(r) /\ Shown' = Shown /\ UNCHANGED clock
  <1>1. Step(r) /\ UNCHANGED engine /\ pc[r] = "getNull"
        /\ pc'[r] = IF GetVersion(MyPlan(r).del) = None THEN "putMD" ELSE "delNull"
    BY OrderTypes DEF Step, GetNull, Go
  <1>2. /\ Advance(r) /\ status' = status /\ ctx'[r].status = status
        /\ ctx[r].status = status /\ ctx[r].obj = master /\ ctx'[r].obj = master
        /\ status = "Suspended" /\ ~IsNull(master) /\ master # None
    BY <1>1, StepSolo DEF AtLabel, Advance
  <1>3. MyPlan(r).del = master.nullVid
    BY <1>2 DEF MyPlan, PlanOf, SuspendedPlan, Plan
  <1>4. KeyInv' /\ Unversioned' /\ Calm' /\ LocWritten' /\ Records' = Records
        /\ UNCHANGED <<master, vkeys, clock>>
    BY <1>1, EngineRests DEF engine
  <1>5. pc'[r] = "putMD" => NoNull'
    <2>1. GetVersion(master.nullVid) = None => NoNull
      BY <1>2, NullFoundBy, OrderTypes, RecordsAre DEF NoNull
    <2>2. QED
      BY <1>1, <1>3, <1>4, <2>1 DEF NoNull
  <1>6. AtLabel(r)'
    BY <1>1, <1>2, <1>4, <1>5 DEF AtLabel, Ready
  <1>7. QED
    BY <1>4, <1>6 DEF OrderKept, Shown, Seen

\* After the null version is deleted there is none.
LEMMA DelNullOrder ==
    ASSUME OrderInv, NEW r \in Reqs, DelNull(r)
    PROVE  OrderKept(r) /\ Removes /\ UNCHANGED clock
  <1>1. Step(r) /\ pc[r] = "delNull" /\ pc'[r] = "putMD" /\ DeleteVersion(MyPlan(r).del)
    BY OrderTypes DEF Step, DelNull, Go
  <1>2. /\ Advance(r) /\ status' = status /\ ctx'[r].status = status
        /\ ctx[r].status = status /\ ctx[r].obj = master
        /\ status = "Suspended" /\ master # None /\ ctx'[r].obj = master
    BY <1>1, StepSolo DEF AtLabel, Advance
  <1>3. /\ EngineOK /\ KeyInv /\ MyPlan(r).del \in Vids
        /\ master.vid = None => ~master.null
    BY <1>1, <1>2, OrderTypes DEF RightContext, Plans, KeyInv, OldForm
  <1>4. /\ IsNull(master) => master.null /\ MyPlan(r).del = master.vid
        /\ ~IsNull(master) => MyPlan(r).del = master.nullVid
    BY <1>2, <1>3, VidsAre DEF MyPlan, PlanOf, SuspendedPlan, Plan
  <1>5. master.vid # None
    BY <1>2, <1>3, <1>4 DEF IsNull
  <1>6. /\ KeyInv' /\ Records' = {a \in Records : a.vid # MyPlan(r).del}
        /\ master' # None => master'.vid # None
        /\ Removes /\ UNCHANGED clock
    BY <1>1, <1>3, <1>5, DeleteKeeps, DeleteShown DEF DeleteVersion
  <1>7. NoNull'
    <2>1. \A a \in Records : a.vid # None
      BY <1>3, <1>5, RecordsAre, VidsAre DEF KeyInv, Filed
    <2>2. ASSUME NEW a \in Records, IsNull(a) PROVE a.vid = MyPlan(r).del
      <3>1. CASE IsNull(master)
        BY <1>3, <1>4, <1>5, <2>1, <2>2, <3>1, NullIs DEF Id
      <3>2. CASE ~IsNull(master)
        BY <1>2, <1>3, <1>4, <2>2, <3>2, NullFoundBy
      <3>3. QED
        BY <3>1, <3>2
    <2>3. QED
      BY <1>6, <2>2 DEF NoNull
  <1>8. Unversioned' /\ Calm'
    BY <1>2, <1>6 DEF Unversioned, Calm
  <1>9. LocWritten'
    BY <1>1, <1>2, <1>6 DEF OrderInv, LocWritten, Advance, Beside, Early, Writing
  <1>10. AtLabel(r)'
    BY <1>1, <1>2, <1>7 DEF AtLabel, Ready
  <1>11. QED
    BY <1>6, <1>8, <1>9, <1>10 DEF OrderKept

\* The reference of the master finds a version to delete.
LEMMA FindNullOrder ==
    ASSUME OrderInv, NEW r \in Reqs, FindNull(r)
    PROVE  OrderKept(r) /\ Shown' = Shown /\ UNCHANGED clock
  <1> DEFINE nullMD == GetVersion(ctx[r].obj.nullVid)
  <1>1. /\ Step(r) /\ UNCHANGED engine /\ pc[r] = "findNull"
        /\ pc'[r] = IF nullMD = None THEN "failed" ELSE "delMD"
        /\ ctx'[r].obj = nullMD
    BY OrderTypes DEF Step, FindNull, Go
  <1>2. /\ Advance(r) /\ status' = status /\ ctx'[r].status = status
        /\ ctx[r].status = status /\ ctx[r].obj = master /\ ~IsNull(master)
        /\ ctx[r].obj # None /\ ctx[r].obj.nullVid # None
    BY <1>1, StepSolo, OrderTypes DEF AtLabel, Advance, RightContext
  <1>3. KeyInv' /\ Unversioned' /\ Calm' /\ LocWritten' /\ Records' = Records
        /\ UNCHANGED <<master, vkeys, clock>>
    BY <1>1, EngineRests DEF engine
  <1>4. nullMD # None => /\ nullMD \in Records /\ nullMD.vid # None
                         /\ status # "none"
    <2>1. EngineOK /\ KeyInv /\ Unversioned /\ master \in Rec /\ master.nullVid \in Vids
      BY <1>2, OrderTypes DEF OrderInv, EngineOK, Rec
    <2>2. nullMD # None => nullMD \in Records /\ nullMD.vid # None
      BY <1>2, <2>1, RecordsAre, VidsAre DEF GetVersion, KeyInv, Filed
    <2>3. status # "none"
      BY <1>2, <2>1 DEF Unversioned, IsNull
    <2>4. QED
      BY <2>2, <2>3
  <1>5. Running(r)' => AtLabel(r)'
    BY <1>1, <1>2, <1>3, <1>4 DEF AtLabel, Running, Done
  <1>6. QED
    BY <1>3, <1>5 DEF OrderKept, Shown, Seen

\* An edit of metadata writes the master back.
LEMMA EditMDOrder ==
    ASSUME OrderInv, NEW r \in Reqs, EditMD(r)
    PROVE  OrderKept(r) /\ Shown' = Shown /\ UNCHANGED clock
  <1>1. /\ Step(r) /\ pc[r] = "editMD" /\ pc'[r] = "ok"
        /\ ctx[r].obj # None
    BY OrderTypes DEF Step, EditMD, Go, RightContext
  <1>2. Advance(r) /\ status' = status /\ ctx[r].obj = master
    BY <1>1, StepSolo DEF AtLabel, Advance
  <1>3. KeyInv' /\ Records' = Records /\ UNCHANGED <<master, clock>>
    BY <1>1, <1>2, OrderTypes, EditKeeps DEF EditMD
  <1>4. \A v \in Vids : vkeys'[v] # None => vkeys[v] # None \/ v = master.vid
    BY <1>2, OrderTypes DEF EditMD, PutMaster, PutVersion, EngineOK
  <1>5. Unversioned' /\ Calm'
    <2>1. master # None /\ master.vid = None => UNCHANGED vkeys
      BY <1>2 DEF EditMD, PutMaster
    <2>2. QED
      BY <1>1, <1>2, <1>3, <2>1, CalmStep DEF OrderInv, Unversioned, Calm
  <1>6. LocWritten'
    BY <1>1, <1>2, <1>3 DEF OrderInv, LocWritten, Advance, Beside, Early, Writing
  <1>7. QED
    BY <1>1, <1>3, <1>5, <1>6 DEF OrderKept, Shown, Seen, Running, Done

\* Deleting data leaves the records as they are.
LEMMA DelDataOrder ==
    ASSUME OrderInv, NEW r \in Reqs, DelData(r)
    PROVE  OrderKept(r) /\ Shown' = Shown /\ UNCHANGED clock
  <1>1. Step(r) /\ UNCHANGED engine /\ pc[r] = "delData" /\ pc'[r] = "ok"
    BY OrderTypes DEF Step, DelData, Go
  <1>2. QED
    BY <1>1, EngineRests DEF OrderKept, Shown, Seen, engine, Running, Done

\* A DELETE removes the version it read.
LEMMA DelMDOrder ==
    ASSUME OrderInv, NEW r \in Reqs, DelMD(r)
    PROVE  OrderKept(r) /\ Removes /\ UNCHANGED clock
  <1> DEFINE vid == IF ctx[r].status = "none" THEN None ELSE ctx[r].obj.vid
  <1>1. /\ Step(r) /\ pc[r] = "delMD" /\ pc'[r] \in {"ok", "failed", "delData"}
        /\ IF vid = None THEN DeleteMaster ELSE DeleteVersion(vid)
    BY OrderTypes DEF Step, DelMD, Go, AfterMD
  <1>2. /\ Advance(r) /\ status' = status /\ ctx[r].status = status
        /\ ctx[r].obj \in Records /\ ctx[r].obj \in Rec /\ ctx[r].obj # None
        /\ vid = None => master = ctx[r].obj /\ ctx[r].obj.vid = None
        /\ master # None /\ master.vid = None => vkeys[Inf] = None
        /\ EngineOK /\ KeyInv
    BY <1>1, StepSolo, CalmStep, OrderTypes, RecordsAre
       DEF AtLabel, Advance, RightContext
  <1>3. Records' \subseteq Records => LocWritten'
    BY <1>1, <1>2 DEF OrderInv, LocWritten, Advance, Beside, Early, Writing
  <1>4. Running(r)' => AtLabel(r)'
    BY <1>1 DEF AtLabel, Running, Done
  <1>5. CASE vid = None
    <2>1. /\ \A v \in Vids : vkeys[v] = None
          /\ Records = {master} /\ master # None
      BY <1>2, <1>5, RecordsAre DEF KeyInv, OldForm
    <2>2. master' = None /\ UNCHANGED <<vkeys, clock>>
      BY <1>1, <1>5 DEF DeleteMaster
    <2>3. KeyInv' /\ Records' = {}
      BY <1>2, <2>1, <2>2, PutMasterKeeps
    <2>4. Shown' = Shown \ {Seen(master)}
      BY <2>1, <2>3 DEF Shown, Seen
    <2>5. Removes
      BY <2>1, <2>4 DEF Removes
    <2>6. Unversioned' /\ Calm'
      BY <1>2, <2>1, <2>2 DEF OrderInv, Unversioned, Calm
    <2>7. QED
      BY <1>3, <1>4, <2>2, <2>3, <2>5, <2>6 DEF OrderKept
  <1>6. CASE vid # None
    <2>1. vid \in Vids /\ vid = ctx[r].obj.vid /\ status # "none"
      BY <1>2, <1>6 DEF Rec
    <2>2. master # None => master.vid # None
      BY <1>2, <2>1, RecordsAre, VidsAre DEF KeyInv, OldForm
    <2>3. DeleteVersion(vid)
      BY <1>1, <1>6
    <2> HIDE DEF vid
    <2>4. /\ KeyInv' /\ Records' = {a \in Records : a.vid # vid}
          /\ master' # None => master'.vid # None
          /\ Removes /\ UNCHANGED clock
      BY <1>2, <2>1, <2>2, <2>3, DeleteKeeps, DeleteShown DEF DeleteVersion
    <2>5. Unversioned' /\ Calm'
      BY <1>2, <2>1, <2>4 DEF Unversioned, Calm
    <2>6. QED
      BY <1>3, <1>4, <2>4, <2>5 DEF OrderKept
  <1>7. QED
    BY <1>5, <1>6

\* A write puts its version in the place of what its status replaces.
Replaces(r) ==
    \/ /\ status = "none" /\ ctx[r].kind = "put" /\ UNCHANGED clock
       /\ Shown' = {Seen(Written(r))}
    \/ /\ status = "Suspended" /\ clock' = clock + 1
       /\ Shown' = {v \in Shown : ~v.null} \cup {Seen(NewRec(r))}
    \/ /\ status = "Enabled" /\ clock' = clock + 1
       /\ Shown' = Shown \cup {Seen(NewRec(r))}

\* A write keeps the records in order, whatever the status.
LEMMA PutMDOrder ==
    ASSUME OrderInv, NEW r \in Reqs, PutMD(r)
    PROVE  OrderKept(r) /\ Replaces(r)
  <1>1. /\ Step(r) /\ pc[r] = "putMD" /\ pc'[r] \in {"ok", "delData"}
        /\ EngineOK /\ KeyInv /\ TypeInv /\ Unversioned /\ LocWritten
    BY OrderTypes, PutMDIs DEF Step, OrderInv
  <1>2. /\ Advance(r) /\ status' = status /\ ctx[r].status = status /\ Ready(r)
        /\ ctx[r].obj \in Rec \cup {None}
        /\ ctx[r].kind = "put" \/ (ctx[r].kind = "delete" /\ status # "none")
    BY <1>1, StepSolo, OrderTypes DEF AtLabel, Advance, RightContext, Writing
  <1>3. /\ Written(r) \in Rec /\ NewRec(r) \in Rec
        /\ Written(r).vid = None /\ NewRec(r).vid = clock + 1
        /\ \A rec \in {Written(r), NewRec(r)} :
                /\ rec.null = (status = "Suspended")
                /\ rec.nullVid = MyPlan(r).nullVid
                /\ rec.loc \in {None, r}
        /\ clock + 1 \in Vids /\ clock \in Nat
    BY <1>1, <1>2, WrittenIs, ClockRoom
  <1>4. \A a \in Records : a.loc # None => a.loc \notin {None, r}
    BY <1>1 DEF LocWritten, Early, Writing
  <1>5. ASSUME NEW rec \in {Written(r), NewRec(r)}, Records' \subseteq Records \cup {rec}
        PROVE  LocWritten'
    BY <1>1, <1>2, <1>3, <1>5 DEF LocWritten, Advance, Beside, Early, Writing
  <1>6. Running(r)' => AtLabel(r)'
    BY <1>1 DEF AtLabel, Running, Done
  <1>7. \A a \in Records : Seen(a).null = IsNull(a)
    <2>1. \A a \in Records : a # None /\ a.null \in BOOLEAN
      BY <1>1, RecordsAre
    <2>2. QED
      BY <2>1 DEF Seen, IsNull
  <1>8. CASE status = "none"
    <2>1. master' = Written(r) /\ UNCHANGED <<vkeys, clock>>
      BY <1>1, <1>2, <1>8, PutMDIs
    <2>2. Written(r).nullVid = None /\ ~Written(r).null
      BY <1>2, <1>3, <1>8 DEF MyPlan, PlanOf, Plan
    <2>3. KeyInv' /\ Records' = {Written(r)}
      BY <1>1, <1>3, <1>8, <2>1, <2>2, PutMasterKeeps, VidsAre DEF Unversioned
    <2>4. Unversioned' /\ Calm' /\ LocWritten'
      BY <1>1, <1>2, <1>3, <1>5, <1>8, <2>1, <2>3, VidsAre DEF Unversioned, Calm
    <2>5. Shown' = {Seen(Written(r))}
      BY <2>3 DEF Shown, Seen
    <2>6. QED
      BY <1>2, <1>6, <1>8, <2>1, <2>3, <2>4, <2>5 DEF OrderKept, Replaces
  <1>9. CASE status = "Suspended"
    <2>1. master' = NewRec(r) /\ clock' = clock + 1 /\ UNCHANGED vkeys
      BY <1>1, <1>2, <1>9, PutMDIs
    <2>2. NewRec(r).nullVid = None /\ NewRec(r).null = TRUE
      BY <1>2, <1>3, <1>9 DEF MyPlan, PlanOf, Plan, SuspendedPlan, IsNull
    <2>3. \A v \in Vids : vkeys[v] # None => ~IsNull(vkeys[v])
      BY <1>1, <1>2, <1>9, RecordsAre DEF Ready, NoNull
    <2>4. /\ KeyInv' /\ Records' = {a \in Records : ~IsNull(a)} \cup {NewRec(r)}
      BY <1>1, <1>3, <1>4, <2>1, <2>2, <2>3, PutNullKeeps
    <2>5. Unversioned' /\ Calm' /\ LocWritten'
      BY <1>2, <1>3, <1>5, <1>9, <2>1, <2>4, VidsAre DEF Unversioned, Calm
    <2>6. Shown' = {v \in Shown : ~v.null} \cup {Seen(NewRec(r))}
      <3>1. Shown = {Seen(a) : a \in Records} /\ Shown' = {Seen(a) : a \in Records'}
        BY DEF Shown, Seen
      <3>2. QED
        BY <1>7, <2>4, <3>1
    <2>7. QED
      BY <1>2, <1>6, <1>9, <2>1, <2>4, <2>5, <2>6 DEF OrderKept, Replaces
  <1>10. CASE status = "Enabled"
    <2>1. /\ master' = NewRec(r) /\ clock' = clock + 1
          /\ vkeys' = [vkeys EXCEPT ![clock + 1] = NewRec(r)]
      BY <1>1, <1>2, <1>10, PutMDIs
    <2>2. NewRec(r).nullVid = EnabledPlan(ctx[r].obj).nullVid /\ NewRec(r).null = FALSE
      BY <1>2, <1>3, <1>10 DEF MyPlan, PlanOf
    <2>3. /\ Saved(ctx[r].obj)
          /\ ctx[r].obj # None /\ ctx[r].obj.vid = None => ~ctx[r].obj.null
      BY <1>2, <1>10 DEF Ready
    <2>4. /\ KeyInv' /\ Shown' = Shown \cup {Seen(NewRec(r))}
          /\ Records' \subseteq Records \cup {NewRec(r)}
      BY <1>1, <1>2, <1>3, <1>4, <2>1, <2>2, <2>3, PutNewKeeps
    <2>5. Unversioned' /\ Calm' /\ LocWritten'
      BY <1>2, <1>3, <1>5, <1>10, <2>1, <2>4, VidsAre DEF Unversioned, Calm
    <2>6. QED
      BY <1>2, <1>6, <1>10, <2>1, <2>4, <2>5 DEF OrderKept, Replaces
  <1>11. QED
    BY <1>2, <1>8, <1>9, <1>10, OrderTypes

\* Of each step of a running request clients see at most one change, which the
\* abstract specification makes.
LEMMA StepOrder ==
    ASSUME Orderly, OrderInv, NEW r \in Reqs, Step(r)
    PROVE  /\ OrderInv'
           /\ \/ Shown' = Shown /\ UNCHANGED clock
              \/ Removes /\ UNCHANGED clock
              \/ Replaces(r) /\ PutMD(r)
  <1>1. /\ OrderKept(r)
        /\ \/ Shown' = Shown /\ UNCHANGED clock
           \/ Removes /\ UNCHANGED clock
           \/ Replaces(r) /\ PutMD(r)
    BY StoreDataOrder, StoreNullOrder, GetNullOrder, DelNullOrder, PutMDOrder,
       FindNullOrder, DelMDOrder, EditMDOrder, DelDataOrder DEF Step
  <1>2. TypeInv'
    BY NextType DEF OrderInv, Next
  <1>3. QED
    BY <1>1, <1>2, StepSolo DEF OrderInv, OrderKept

\* What does not touch the engine leaves the records of a key in order.
LEMMA RecordsRest ==
    ASSUME OrderInv, UNCHANGED engine
    PROVE  KeyInv' /\ Records' = Records /\ Shown' = Shown
  <1>1. UNCHANGED <<master, vkeys, clock>>
    BY DEF engine
  <1>2. Records' = Records
    BY <1>1 DEF Records
  <1>3. QED
    BY <1>1, <1>2
       DEF OrderInv, KeyInv, Filed, OldForm, Newest, NullRefs, OneLoc, Shown, Seen

\* A request that arrives finds the records in order and leaves them so.
LEMMA StartOrder ==
    ASSUME Orderly, OrderInv, NEW r \in Reqs, Start(r)
    PROVE  OrderInv' /\ Shown' = Shown /\ UNCHANGED clock
  <1>1. /\ Beside(r) /\ UNCHANGED <<status, changes, data, engine>>
        /\ pc[r] = "idle" /\ ctx'[r].status = status /\ Starting(r)
        /\ TypeInv /\ EngineOK /\ KeyInv /\ Unversioned
        /\ status \in {"none", "Enabled", "Suspended"} /\ master \in Rec \cup {None}
    BY StartIs, OrderTypes DEF OrderInv, EngineOK
  <1>2. Quiet
    BY DEF Start, StartPut, StartDelete, StartDeleteVersion, StartDeleteNull,
           StartEdit, MayStart, Orderly
  <1>3. KeyInv' /\ Records' = Records /\ Shown' = Shown /\ UNCHANGED <<master, vkeys, clock>>
    BY <1>1, RecordsRest DEF engine
  <1>4. master # None /\ master.vid = None => vkeys[Inf] = None
    BY <1>2 DEF OrderInv, Calm, Quiet, Running, Done
  <1>5. TypeInv'
    BY <1>1, StartType
  <1>6. Solo' /\ Current'
    BY <1>1, <1>2 DEF Solo, Current, Quiet, Running, Beside
  <1>7. Unversioned' /\ Calm'
    BY <1>1, <1>3, <1>4 DEF Unversioned, Calm
  <1>8. LocWritten'
    BY <1>1, <1>3 DEF OrderInv, LocWritten, Beside, Early
  <1>9. AtLabel(r)' \/ ~Running(r)'
    <2>1. CASE pc'[r] = FirstCall(PlanOf(status, master)) /\ ctx'[r].obj = master
      BY <1>1, <1>4, <2>1, FirstCallAt
    <2>2. CASE pc'[r] = "delMD" /\ ctx'[r].kind = "deleteVersion"
      <3>1. PICK v \in Vids : ctx'[r].obj = GetVersion(v) /\ GetVersion(v) # None
        BY <1>1, <2>2 DEF Starting
      <3>2. GetVersion(v) \in Records /\ GetVersion(v).vid # None /\ status # "none"
        BY <1>1, <3>1, RecordsAre, VidsAre
           DEF GetVersion, KeyInv, Filed, Unversioned
      <3>3. QED
        BY <1>1, <1>3, <2>2, <3>1, <3>2 DEF AtLabel
    <2>3. CASE pc'[r] = "delMD" /\ ctx'[r].obj = master /\ master # None
               /\ (status = "none" \/ IsNull(master))
      <3>1. master \in Records /\ (status = "none" => master.vid = None)
        BY <1>1, <2>3, RecordsAre DEF Unversioned
      <3>2. QED
        BY <1>1, <1>3, <2>3, <3>1 DEF AtLabel
    <2>4. CASE pc'[r] \in {"storeData", "editMD"} /\ ctx'[r].obj = master
      BY <1>1, <1>3, <2>4 DEF AtLabel
    <2>5. CASE pc'[r] = "findNull" /\ ctx'[r].obj = master /\ ~IsNull(master)
      BY <1>1, <1>3, <2>5 DEF AtLabel, IsNull
    <2>6. QED
      BY <1>1, <2>1, <2>2, <2>3, <2>4, <2>5 DEF Starting, Running, Done, IsNull
  <1>10. Labelled'
    BY <1>1, <1>2, <1>9 DEF Labelled, Quiet, Running, Beside
  <1>11. QED
    BY <1>3, <1>5, <1>6, <1>7, <1>8, <1>10 DEF OrderInv

\* So does one that dies, where the engine overwrites an unversioned master.
LEMMA AbandonOrder ==
    ASSUME Orderly, OrderInv, NEW r \in Reqs, Abandon(r)
    PROVE  OrderInv' /\ Shown' = Shown /\ UNCHANGED clock
  <1>1. /\ Crashes /\ UNCHANGED <<status, changes, data, engine, ctx>>
        /\ Running(r) /\ pc'[r] = "failed"
        /\ \A q \in Reqs \ {r} : pc'[q] = pc[q] /\ ~Running(q)
        /\ pc' \in [Reqs -> Labels]
    BY OrderTypes DEF Abandon, OrderInv, Solo, Labels, Done
  <1>2. KeyInv' /\ Records' = Records /\ Shown' = Shown /\ UNCHANGED <<master, vkeys, clock>>
    BY <1>1, RecordsRest DEF engine
  <1>3. TypeInv'
    BY NextType DEF OrderInv, Next
  <1>4. Solo' /\ Current' /\ Labelled'
    BY <1>1 DEF Solo, Current, Labelled, Running, Done
  <1>5. Unversioned' /\ Calm'
    BY <1>1, <1>2 DEF OrderInv, Unversioned, Calm
  <1>6. LocWritten'
    BY <1>1, <1>2 DEF OrderInv, LocWritten, Early, Writing
  <1>7. QED
    BY <1>2, <1>3, <1>4, <1>5, <1>6 DEF OrderInv

\* Setting the status changes no record.
LEMMA SetStatusOrder ==
    ASSUME Orderly, OrderInv, NEW s \in Statuses, SetStatus(s)
    PROVE  OrderInv' /\ Shown' = Shown /\ UNCHANGED clock
  <1>1. Quiet /\ UNCHANGED <<engine, data, pc, ctx>> /\ status' = s /\ s # "none"
    BY VersioningAssumption DEF SetStatus, Orderly
  <1>2. KeyInv' /\ Records' = Records /\ Shown' = Shown /\ UNCHANGED <<master, vkeys, clock>>
    BY <1>1, RecordsRest DEF engine
  <1>3. TypeInv'
    BY NextType DEF OrderInv, Next
  <1>4. Solo' /\ Current' /\ Labelled'
    BY <1>1 DEF Quiet, Solo, Current, Labelled, Running
  <1>5. Unversioned' /\ Calm' /\ LocWritten'
    BY <1>1, <1>2 DEF OrderInv, Unversioned, Calm, LocWritten
  <1>6. QED
    BY <1>2, <1>3, <1>4, <1>5 DEF OrderInv

\* Nor does a step that changes nothing.
LEMMA RestOrder ==
    ASSUME OrderInv, UNCHANGED vars
    PROVE  OrderInv' /\ Shown' = Shown /\ UNCHANGED clock
  <1>1. UNCHANGED engine /\ UNCHANGED <<status, changes, data, pc, ctx>>
    BY DEF vars, engine
  <1>2. KeyInv' /\ Records' = Records /\ Shown' = Shown /\ UNCHANGED <<master, vkeys, clock>>
    BY <1>1, RecordsRest DEF engine
  <1>3. TypeInv'
    BY NextType DEF OrderInv
  <1>4. Solo' /\ Current' /\ Unversioned' /\ Calm' /\ LocWritten'
    BY <1>1, <1>2
       DEF OrderInv, Solo, Current, Running, Unversioned, Calm, LocWritten
  <1>5. NoNull => NoNull'
    BY <1>2 DEF NoNull
  <1>6. Labelled'
    BY <1>1, <1>2, <1>5 DEF OrderInv, Labelled, AtLabel, Ready, Saved, Running
  <1>7. QED
    BY <1>2, <1>3, <1>4, <1>6 DEF OrderInv

\* There is no record.
LEMMA InitOrder == Init => OrderInv
  <1> SUFFICES ASSUME Init PROVE OrderInv
    OBVIOUS
  <1>1. /\ TypeInv /\ master = None /\ \A v \in Vids : vkeys[v] = None
        /\ Records = {} /\ clock = Inf /\ \A r \in Reqs : pc[r] = "idle"
    BY InitType DEF Init, Records
  <1>2. KeyInv
    BY <1>1 DEF KeyInv, Filed, OldForm, Newest, NullRefs, OneLoc
  <1>3. QED
    BY <1>1, <1>2
       DEF OrderInv, Solo, Current, Running, Unversioned, Calm, LocWritten,
           Labelled

\* Every step keeps the records in order.
LEMMA NextOrder == ASSUME Orderly PROVE OrderInv /\ [Next]_vars => OrderInv'
  BY StepOrder, StartOrder, AbandonOrder, SetStatusOrder, RestOrder DEF Next

\* Where the records of a key are in order, clients see an order of versions.
LEMMA OrderShows ==
    ASSUME EngineOK, KeyInv
    PROVE  OneNull /\ MasterIsLatest /\ NullReachable
  <1>1. \A a \in Records : a # None /\ a \in Rec /\ Seen(a).vid = Id(a)
                           /\ Seen(a).null = IsNull(a) /\ a.null \in BOOLEAN
    <2>1. \A a \in Records : a # None /\ a \in Rec /\ a.null \in BOOLEAN
      BY RecordsAre, VidsAre
    <2>2. QED
      BY <2>1 DEF Seen, Id, IsNull
  <1>2. \A a, b \in Records : Id(a) = Id(b) => Seen(a) = Seen(b)
    BY OneSeen DEF KeyInv
  <1>3. \A a, b \in Records : IsNull(a) /\ IsNull(b) => Id(a) = Id(b)
    BY NullIs
  <1>4. OneNull
    BY <1>1, <1>2, <1>3 DEF OneNull, Abstract!OneNullVersion
  <1>5. MasterIsLatest
    <2>1. \A a \in Records : master # None /\ Id(a) <= Id(master)
      BY IdsBehind
    <2>2. master # None => master \in Records
      BY RecordsAre
    <2>3. QED
      BY <1>1, <2>1, <2>2 DEF MasterIsLatest
  <1>6. ASSUME NEW a \in Records, Seen(a).null
        PROVE  NullFound # None /\ Seen(NullFound) = Seen(a)
    <2>1. IsNull(a) /\ master # None /\ a # None
      BY <1>1, <1>6, NullIs
    <2>2. CASE IsNull(master)
      <3>1. NullFound = master /\ master \in Records
        BY <2>1, <2>2, RecordsAre DEF NullFound
      <3>2. QED
        BY <1>2, <2>1, <2>2, <3>1, NullIs
    <2>3. CASE ~IsNull(master)
      <3>1. /\ master.nullVid \in Vids /\ GetVersion(master.nullVid) = a
        BY <2>1, <2>3, NullFoundBy
      <3>2. NullFound = a
        BY <2>1, <2>3, <3>1, VidsAre DEF NullFound
      <3>3. QED
        BY <2>1, <3>2
    <2>4. QED
      BY <2>2, <2>3
  <1>7. QED
    BY <1>4, <1>5, <1>6 DEF NullReachable

\* For clients that wait for each answer the latest version is the master,
\* there is one null version at most, and it can be found.
THEOREM VersionsInOrder == ASSUME Orderly PROVE Spec => []RecordsInOrder
  <1>1. OrderInv => RecordsInOrder
    BY OrderTypes, OrderShows DEF RecordsInOrder
  <1>2. QED
    BY InitOrder, NextOrder, <1>1, PTL DEF Spec

\* What a step shows clients is a step of the abstract specification.
LEMMA InitShows == Init => Abstract!AbsInit
  <1> SUFFICES ASSUME Init PROVE Abstract!AbsInit
    OBVIOUS
  <1>1. Records = {}
    BY DEF Init, Records
  <1>2. {Seen(rec) : rec \in Records} = {}
    BY <1>1
  <1>3. QED
    BY <1>2 DEF Init, Abstract!AbsInit, Abstract!Inf, Inf

\* A write is a write of the abstract specification.
LEMMA ReplaceShows ==
    ASSUME OrderInv, NEW r \in Reqs, PutMD(r), Replaces(r)
    PROVE  Abstract!AbsNext
  <1>1. /\ ctx[r].kind = "put" \/ (ctx[r].kind = "delete" /\ status # "none")
        /\ ctx[r].status = status /\ status' = status /\ r # None
        /\ TypeInv /\ pc[r] = "putMD" /\ clock \in Nat
        /\ clock + 1 # None
    BY OrderTypes, PutMDIs, ClockRoom, StepSolo, VidsAre, VersioningAssumption
       DEF RightContext, Writing, Step
  <1> DEFINE marker == ctx[r].kind = "delete"
             loc == IF marker THEN None ELSE r
  <1>2. /\ Seen(Written(r)) = [vid |-> 0, null |-> TRUE, dm |-> marker, loc |-> loc]
        /\ Seen(NewRec(r)) = [vid |-> clock + 1, null |-> status = "Suspended",
                              dm |-> marker, loc |-> loc]
    BY <1>1 DEF Seen, Written, NewRec, Inf
  <1>3. Shown = {Seen(rec) : rec \in Records} /\ Shown' = {Seen(rec) : rec \in Records'}
    BY DEF Shown, Seen
  <1>4. QED
    BY <1>1, <1>2, <1>3
       DEF Replaces, Abstract!AbsNext, Abstract!PutUnversioned, Abstract!PutNull,
           Abstract!PutNew, Abstract!Inf

\* Every step is a step of the abstract specification, or shows nothing.
LEMMA NextShows ==
    ASSUME Orderly, OrderInv, [Next]_vars
    PROVE  [Abstract!AbsNext]_(Abstract!absVars)
  <1>1. Shown = {Seen(rec) : rec \in Records} /\ Shown' = {Seen(rec) : rec \in Records'}
    BY DEF Shown, Seen
  <1>2. ASSUME UNCHANGED <<status, clock>>, Shown' = Shown
        PROVE  UNCHANGED Abstract!absVars
    BY <1>1, <1>2 DEF Abstract!absVars
  <1>3. ASSUME UNCHANGED <<status, clock>>, Removes
        PROVE  [Abstract!AbsNext]_(Abstract!absVars)
    <2>1. CASE Shown' = Shown
      BY <1>2, <1>3, <2>1
    <2>2. ASSUME NEW a \in Records, Shown' = Shown \ {Seen(a)}
          PROVE  Abstract!AbsNext
      <3>1. Seen(a) \in {Seen(rec) : rec \in Records}
        OBVIOUS
      <3>2. Abstract!Remove(Seen(a))
        BY <1>1, <1>3, <2>2 DEF Abstract!Remove
      <3>3. QED
        BY <3>1, <3>2 DEF Abstract!AbsNext
    <2>3. QED
      BY <1>3, <2>1, <2>2 DEF Removes
  <1>4. ASSUME NEW r \in Reqs, Step(r) PROVE [Abstract!AbsNext]_(Abstract!absVars)
    BY <1>2, <1>3, <1>4, StepOrder, StepSolo, ReplaceShows
  <1>5. ASSUME NEW r \in Reqs, Start(r) PROVE UNCHANGED Abstract!absVars
    BY <1>2, <1>5, StartOrder, StartIs, OrderTypes
  <1>6. ASSUME NEW r \in Reqs, Abandon(r) PROVE UNCHANGED Abstract!absVars
    BY <1>2, <1>6, AbandonOrder DEF Abandon
  <1>7. ASSUME NEW s \in Statuses, SetStatus(s) PROVE Abstract!AbsNext
    <2>1. status' = s /\ s \in {"Enabled", "Suspended"} /\ Shown' = Shown /\ UNCHANGED clock
      BY <1>7, SetStatusOrder, VersioningAssumption DEF SetStatus
    <2>2. Abstract!SetStatus(s)
      BY <1>1, <2>1 DEF Abstract!SetStatus
    <2>3. QED
      BY <2>1, <2>2 DEF Abstract!AbsNext
  <1>8. CASE UNCHANGED vars
    BY <1>2, <1>8, RestOrder DEF vars
  <1>9. QED
    BY <1>4, <1>5, <1>6, <1>7, <1>8 DEF Next

\* For clients that wait for each answer, the records of a key implement the
\* history of versions docs/ARCHITECTURE.rst describes.
THEOREM HistoryIsS3 == ASSUME Orderly PROVE Spec => Implements
  <1>1. Init => Abstract!AbsInit
    BY InitShows
  <1>2. OrderInv /\ [Next]_vars => [Abstract!AbsNext]_(Abstract!absVars)
    BY NextShows
  <1>3. QED
    BY InitOrder, NextOrder, <1>1, <1>2, PTL
       DEF Spec, Implements, Abstract!AbsSpec

-----------------------------------------------------------------------------
(* Versions and their data *)

Locs == {a.loc : a \in Records} \ {None}

\* The data a running request stored, or will delete.
Owes(r) ==
    ctx[r].doomed \cup
    IF pc[r] \in Writing
    THEN MyPlan(r).doomed \cup IF ctx[r].kind = "put" THEN {r} ELSE {}
    ELSE {}

\* A PUT has its data before it writes a version of it.
Backed(r) ==
    /\ pc[r] = "storeData" => ctx[r].kind = "put"
    /\ pc[r] \in Writing \ {"storeData"} /\ ctx[r].kind = "put" => r \in data

\* What a request is to delete belongs to no version, or to the one that it
\* overwrites or removes first.
Dooms(r) ==
    /\ pc[r] \in {"storeData", "storeNull", "getNull", "delMD", "findNull", "editMD"}
           => ctx[r].doomed = {}
    /\ pc[r] = "delNull" =>
           ctx[r].doomed = IF IsNull(ctx[r].obj) THEN {}
                           ELSE LocationOf(GetVersion(ctx[r].obj.nullVid))
    /\ pc[r] \in {"putMD", "delData"} => ctx[r].doomed \cap Locs = {}
    /\ pc[r] = "putMD" => \A a \in Records :
           a.loc \in MyPlan(r).doomed => a = master /\ master.vid = None
    /\ pc[r] \in Writing => \A x \in ctx[r].doomed \cup MyPlan(r).doomed :
           pc[x] \notin Early

NothingLost ==
    \A x \in data : x \in Locs \/ \E r \in Reqs : Running(r) /\ x \in Owes(r)

DataInv ==
    /\ NoDangling
    /\ \A r \in Reqs : Running(r) => Backed(r) /\ Dooms(r)
    /\ Crashes \/ NothingLost

\* What the plan of a write dooms.
LEMMA PlanDooms ==
    ASSUME NEW stat \in {"none", "Enabled", "Suspended"}, NEW mst \in Rec \cup {None}
    PROVE  LET plan == PlanOf(stat, mst)
           IN  /\ stat = "none" => plan.doomed = LocationOf(mst)
               /\ stat = "Enabled" => plan.doomed = {}
               /\ stat = "Suspended" =>
                      plan.doomed = IF IsNull(mst) THEN LocationOf(mst) ELSE {}
               /\ FirstCall(plan) = "delNull" => IsNull(mst)
  BY DEF PlanOf, Plan, SuspendedPlan, EnabledPlan, FirstCall, IsNull

\* The locations of the records are those that clients see.
LEMMA LocsShow == /\ Locs = {v.loc : v \in Shown} \ {None}
                  /\ Shown' = Shown => Locs' = Locs
  <1>1. \A a : Seen(a).loc = a.loc
    BY DEF Seen
  <1>2. Shown = {Seen(a) : a \in Records} /\ Shown' = {Seen(a) : a \in Records'}
    BY DEF Shown, Seen
  <1>3. Locs = {v.loc : v \in Shown} \ {None}
    BY <1>1, <1>2 DEF Locs
  <1>4. Locs' = {v.loc : v \in Shown'} \ {None}
    BY <1>1, <1>2 DEF Locs
  <1>5. QED
    BY <1>3, <1>4

\* A location belongs to one version.
LEMMA LocsAre ==
    ASSUME OrderInv
    PROVE  /\ \A x : x \in Locs <=> x # None /\ \E a \in Records : x = a.loc
           /\ \A a, b \in Records : a.loc = b.loc /\ a.loc # None => Id(a) = Id(b)
           /\ \A a, b \in Records : Id(a) = Id(b) => a.loc = b.loc
           /\ \A x \in Locs : x \in Reqs /\ pc[x] \notin Early
           /\ \A rec \in Records : LocationOf(rec) = {rec.loc} \ {None}
           /\ LocationOf(None) = {}
  <1>1. \A a, b \in Records : Id(a) = Id(b) => Seen(a) = Seen(b)
    BY OrderTypes, OneSeen DEF KeyInv
  <1>2. \A a, b \in Records : Id(a) = Id(b) => a.loc = b.loc
    BY <1>1 DEF Seen
  <1>3. \A rec \in Records : rec # None
    BY DEF Records
  <1>4. QED
    BY <1>2, <1>3 DEF OrderInv, KeyInv, OneLoc, LocWritten, Locs, LocationOf

\* The first call of a write finds what the write is to delete.
LEMMA FirstDooms ==
    ASSUME OrderInv, NEW r \in Reqs, pc'[r] = FirstCall(PlanOf(status, master)),
           ctx'[r].obj = master, ctx'[r].status = status, ctx'[r].doomed = {},
           UNCHANGED <<status, engine>>,
           master # None /\ master.vid = None => vkeys[Inf] = None,
           \A x \in Reqs : pc[x] \notin Early => pc'[x] \notin Early
    PROVE  Dooms(r)'
  <1>1. /\ EngineOK /\ KeyInv /\ Unversioned /\ status \in {"none", "Enabled", "Suspended"}
        /\ master \in Rec \cup {None}
    BY OrderTypes DEF OrderInv, EngineOK
  <1>2. UNCHANGED <<master, vkeys, clock>> /\ Records' = Records /\ Locs' = Locs
    BY DEF engine, Records, Locs
  <1>3. pc'[r] \in Writing \ {"storeData"}
    BY <1>1, PlanType
  <1>4. MyPlan(r)' = PlanOf(status, master)
    BY DEF MyPlan
  <1>5. PlanOf(status, master).doomed \subseteq LocationOf(master)
    BY <1>1, PlanDooms
  <1>6. \A x \in LocationOf(master) : pc'[x] \notin Early
    BY <1>1, LocsAre, RecordsAre DEF LocationOf
  <1>7. pc'[r] = "delNull" => IsNull(ctx'[r].obj)
    <2>1. FirstCall(PlanOf(status, master)) = "delNull" => IsNull(master)
      BY <1>1, PlanDooms
    <2>2. QED
      BY <2>1 DEF IsNull
  <1>8. ASSUME pc'[r] = "putMD", NEW a \in Records, a.loc \in PlanOf(status, master).doomed
        PROVE  a = master /\ master.vid = None
    <2>1. master # None /\ master \in Records
      BY <1>1, <1>5, <1>8, RecordsAre DEF LocationOf
    <2>2. CASE status = "none"
      BY <1>1, <1>8, <2>1, <2>2, RecordsAre DEF Unversioned
    <2>3. CASE status = "Suspended"
      <3>1. IsNull(master)
        BY <1>1, <1>8, <2>3, PlanDooms
      <3>2. master.vid = None /\ \A v \in Vids : vkeys[v] = None
        BY <1>1, <1>8, <2>1, <2>3, <3>1, FirstCallReady DEF NoNull
      <3>3. QED
        BY <1>1, <3>2, RecordsAre
    <2>4. QED
      BY <1>1, <1>8, <2>2, <2>3, PlanDooms
  <1>9. QED
    BY <1>2, <1>3, <1>4, <1>5, <1>6, <1>7, <1>8 DEF Dooms, Writing

\* What a step finds of versions and data, and what it leaves.
LEMMA StepData ==
    ASSUME OrderInv, DataInv, NEW r \in Reqs, Step(r)
    PROVE  /\ Advance(r) /\ status' = status /\ ctx[r].status = status
           /\ Running(r) /\ AtLabel(r) /\ Backed(r) /\ Dooms(r) /\ Backed(r)'
           /\ pc[r] # "findNull" => MyPlan(r)' = MyPlan(r)
           /\ \A x \in Reqs : pc[x] \notin Early => pc'[x] \notin Early
           /\ \A x \in Locs : x \in data
  <1>1. /\ Advance(r) /\ status' = status /\ ctx[r].status = status
        /\ Running(r) /\ AtLabel(r) /\ Backed(r) /\ Dooms(r)
    BY StepSolo DEF DataInv
  <1>2. pc[r] # "findNull" => MyPlan(r)' = MyPlan(r)
    BY <1>1 DEF MyPlan, Advance
  <1>3. \A x \in Reqs : pc[x] \notin Early => pc'[x] \notin Early
    BY <1>1, StepSolo DEF Advance, Beside
  <1>4. Backed(r)'
    <2>1. CASE StoreData(r)
      BY <1>1, <2>1, OrderTypes, StepGoes, PlanType
         DEF Backed, Advance, StoreData, Go, Writing, MyPlan
    <2>2. CASE pc[r] # "storeData" /\ pc[r] \in Writing
      <3>1. data' = data
        BY <2>2, OrderTypes
           DEF Step, StoreData, StoreNull, GetNull, DelNull, PutMD, FindNull,
               DelMD, EditMD, DelData, Go, Writing
      <3>2. pc'[r] # "storeData"
        BY <2>2, OrderTypes, StepGoes DEF Writing, Done
      <3>3. QED
        BY <1>1, <2>2, <3>1, <3>2 DEF Backed, Advance
    <2>3. CASE pc[r] \notin Writing
      BY <2>3, OrderTypes, StepGoes DEF Backed, Writing, Done
    <2>4. QED
      BY <2>1, <2>2, <2>3, OrderTypes
         DEF Step, StoreNull, GetNull, DelNull, PutMD, FindNull, DelMD, EditMD,
             DelData, Go, Writing
  <1>5. \A x \in Locs : x \in data
    BY LocsAre DEF DataInv, NoDangling
  <1>6. QED
    BY <1>1, <1>2, <1>3, <1>4, <1>5

\* What a step keeps of versions and data.
DataKept(r) ==
    /\ \A x \in Locs' : x \in data'
    /\ Running(r)' => Dooms(r)'
    /\ (\A x \in data : x \in Locs \/ x \in Owes(r)) =>
           \A x \in data' : x \in Locs' \/ (Running(r)' /\ x \in Owes(r)')

\* The data that is stored belongs to a request that will write.
LEMMA StoreDataData ==
    ASSUME OrderInv, DataInv, NEW r \in Reqs, StoreData(r)
    PROVE  DataKept(r)
  <1>1. /\ Step(r) /\ pc[r] = "storeData" /\ pc'[r] = FirstCall(MyPlan(r))
        /\ data' = data \cup {r} /\ UNCHANGED <<engine, ctx>>
    BY OrderTypes DEF Step, StoreData, Go
  <1>2. /\ Advance(r) /\ ctx[r].status = status /\ ctx[r].obj = master
        /\ ctx[r].doomed = {} /\ ctx[r].kind = "put"
        /\ MyPlan(r)' = MyPlan(r) /\ MyPlan(r) = PlanOf(status, master)
        /\ UNCHANGED status
    BY <1>1, StepData DEF AtLabel, Dooms, Backed, MyPlan
  <1>3. Locs' = Locs
    BY <1>1 DEF Locs, Records, engine
  <1>4. Dooms(r)'
    BY <1>1, <1>2, StepData, CalmStep, FirstDooms
  <1>5. pc'[r] \in Writing /\ pc[r] \in Writing
    BY <1>1, <1>2, OrderTypes, PlanType DEF Writing, MyPlan
  <1>6. Running(r)'
    BY <1>5 DEF Running, Writing, Done
  <1>7. r \in Owes(r)' /\ \A x \in Owes(r) : x \in Owes(r)'
    BY <1>1, <1>2, <1>5 DEF Owes
  <1>8. QED
    BY <1>1, <1>3, <1>4, <1>6, <1>7, StepData DEF DataKept

\* The null version stored apart keeps its data.
LEMMA StoreNullData ==
    ASSUME Orderly, OrderInv, DataInv, NEW r \in Reqs, StoreNull(r)
    PROVE  DataKept(r)
  <1>1. /\ Step(r) /\ pc[r] = "storeNull" /\ pc'[r] = "putMD" /\ UNCHANGED <<data, ctx>>
        /\ Shown' = Shown
    BY OrderTypes, StoreNullOrder DEF Step, StoreNull, Go
  <1>2. /\ Advance(r) /\ ctx[r].status = "Enabled" /\ ctx[r].doomed = {}
        /\ MyPlan(r)' = MyPlan(r)
    BY <1>1, StepData DEF AtLabel, Dooms
  <1>3. MyPlan(r).doomed = {}
    BY <1>2, OrderTypes, PlanDooms DEF MyPlan
  <1>4. Locs' = Locs
    BY <1>1, LocsShow
  <1>5. Dooms(r)'
    BY <1>1, <1>2, <1>3 DEF Dooms
  <1>6. Running(r)' /\ Owes(r)' = Owes(r)
    BY <1>1, <1>2 DEF Running, Done, Owes, Writing
  <1>7. QED
    BY <1>1, <1>4, <1>5, <1>6, StepData DEF DataKept

\* The data of the null version is doomed with it.
LEMMA GetNullData ==
    ASSUME OrderInv, DataInv, NEW r \in Reqs, GetNull(r)
    PROVE  DataKept(r)
  <1> DEFINE nullMD == GetVersion(MyPlan(r).del)
  <1>1. /\ Step(r) /\ pc[r] = "getNull" /\ UNCHANGED <<data, engine>>
        /\ pc'[r] = IF nullMD = None THEN "putMD" ELSE "delNull"
        /\ ctx'[r].doomed = LocationOf(nullMD)
    BY OrderTypes DEF Step, GetNull, Go, Context
  <1>2. /\ Advance(r) /\ ctx[r].status = "Suspended" /\ ctx[r].obj = master
        /\ ctx'[r].obj = master /\ ~IsNull(master) /\ master # None
        /\ ctx[r].doomed = {} /\ MyPlan(r)' = MyPlan(r)
        /\ master \in Rec
    BY <1>1, StepData, OrderTypes DEF AtLabel, Dooms, Advance, EngineOK
  <1>3. MyPlan(r).doomed = {}
    BY <1>2, PlanDooms DEF MyPlan
  <1>4. MyPlan(r).del = master.nullVid
    BY <1>2 DEF MyPlan, PlanOf, SuspendedPlan, Plan
  <1>5. UNCHANGED <<master, vkeys>> /\ Locs' = Locs /\ Records' = Records
    BY <1>1 DEF Locs, Records, engine
  <1>6. \A x \in LocationOf(nullMD) : pc'[x] \notin Early
    <2>1. nullMD = None \/ nullMD \in Records
      BY <1>1, OrderTypes, RecordsAre DEF RightContext, Plans, GetVersion
    <2>2. QED
      BY <1>1, <2>1, LocsAre, StepData
  <1>7. Dooms(r)'
    <2>1. pc'[r] = "putMD" => ctx'[r].doomed = {}
      BY <1>1, LocsAre
    <2>2. /\ ctx'[r].doomed = LocationOf(GetVersion(ctx[r].obj.nullVid))'
          /\ ~IsNull(ctx'[r].obj)
      BY <1>1, <1>2, <1>4, <1>5 DEF GetVersion, IsNull, LocationOf
    <2>3. QED
      BY <1>1, <1>2, <1>3, <1>6, <2>1, <2>2 DEF Dooms
  <1>8. Running(r)' /\ \A x \in Owes(r) : x \in Owes(r)'
    BY <1>1, <1>2, <1>3 DEF Running, Done, Owes, Writing, Advance
  <1>9. QED
    BY <1>1, <1>5, <1>7, <1>8, StepData DEF DataKept

\* The null version goes, and its data is doomed.
LEMMA DelNullData ==
    ASSUME OrderInv, DataInv, NEW r \in Reqs, DelNull(r)
    PROVE  DataKept(r)
  <1> DEFINE del == MyPlan(r).del
             nullMD == GetVersion(ctx[r].obj.nullVid)
  <1>1. /\ Step(r) /\ pc[r] = "delNull" /\ pc'[r] = "putMD" /\ UNCHANGED <<data, ctx>>
        /\ DeleteVersion(del)
    BY OrderTypes DEF Step, DelNull, Go
  <1>2. /\ Advance(r) /\ ctx[r].status = "Suspended" /\ ctx[r].obj = master
        /\ master # None /\ MyPlan(r)' = MyPlan(r) /\ master \in Rec /\ master \in Records
        /\ ctx[r].doomed = IF IsNull(master) THEN {} ELSE LocationOf(nullMD)
    BY <1>1, StepData, OrderTypes, RecordsAre DEF AtLabel, Dooms, EngineOK
  <1>3. /\ EngineOK /\ KeyInv /\ del \in Vids
        /\ master.vid = None => ~master.null
    BY <1>1, <1>2, OrderTypes DEF RightContext, Plans, KeyInv, OldForm
  <1>4. /\ IsNull(master) => master.null /\ del = master.vid
        /\ ~IsNull(master) => del = master.nullVid
    BY <1>2, <1>3, VidsAre DEF MyPlan, PlanOf, SuspendedPlan, Plan
  <1>5. /\ master.vid # None
        /\ Records' = {a \in Records : a.vid # del}
    BY <1>1, <1>2, <1>3, <1>4, DeleteKeeps DEF IsNull
  <1>6. \A a \in Records : a.vid # None /\ Id(a) = a.vid
    BY <1>3, <1>5, RecordsAre, VidsAre DEF KeyInv, Filed, Id
  <1>7. MyPlan(r).doomed = IF IsNull(master) THEN {master.loc} \ {None} ELSE {}
    BY <1>2, PlanDooms DEF MyPlan, LocationOf
  <1>8. ~IsNull(master) => /\ nullMD # None => nullMD \in Records /\ nullMD.vid = del
                           /\ nullMD = None => \A a \in Records : a.vid # del
    <2>1. ASSUME ~IsNull(master), nullMD # None
          PROVE  nullMD \in Records /\ nullMD.vid = del
      BY <1>2, <1>3, <1>4, <2>1, RecordsAre DEF GetVersion, KeyInv, Filed
    <2>2. ASSUME ~IsNull(master), NEW a \in Records, a.vid = del
          PROVE  nullMD # None
      <3>1. a # None /\ (a = master \/ \E v \in Vids : a = vkeys[v])
        BY <1>3, RecordsAre
      <3>2. QED
        BY <1>2, <1>3, <1>4, <2>2, <3>1 DEF GetVersion, KeyInv, Filed
    <2>3. QED
      BY <2>1, <2>2
  <1> DEFINE doomed == ctx[r].doomed \cup MyPlan(r).doomed
  \* What is doomed is the data of the null version, which goes.
  <1>9. \A a \in Records : a.loc # None => (a.vid = del <=> a.loc \in doomed)
    <2>1. CASE IsNull(master)
      BY <1>2, <1>4, <1>6, <1>7, <2>1, LocsAre
    <2>2. CASE ~IsNull(master) /\ nullMD = None
      BY <1>2, <1>7, <1>8, <2>2, LocsAre
    <2>3. CASE ~IsNull(master) /\ nullMD # None
      BY <1>2, <1>6, <1>7, <1>8, <2>3, LocsAre
    <2>4. QED
      BY <2>1, <2>2, <2>3
  <1>10. \A x : x \in Locs' <=> x \in Locs /\ x \notin doomed
    <2>1. \A x : x \in Locs' <=> x # None /\ \E a \in Records' : x = a.loc
      BY DEF Locs
    <2>2. QED
      BY <1>5, <1>9, <2>1, LocsAre
  <1>11. \A x \in doomed : pc'[x] \notin Early
    <2>1. \A x \in doomed : pc[x] \notin Early /\ x \in Reqs
      BY <1>1, OrderTypes, StepData DEF Dooms, Writing, Plans
    <2>2. QED
      BY <1>1, <2>1, StepData
  <1> HIDE DEF nullMD
  <1>12. Dooms(r)'
    <2>1. ctx'[r].doomed \cap Locs' = {}
      BY <1>1, <1>10
    <2>2. \A a \in Records' : a.loc \notin MyPlan(r)'.doomed
      BY <1>2, <1>5, <1>7, <1>9
    <2>3. QED
      BY <1>1, <1>2, <1>11, <2>1, <2>2 DEF Dooms
  <1>13. Running(r)' /\ Owes(r)' = Owes(r) /\ \A x \in doomed : x \in Owes(r)
    BY <1>1, <1>2 DEF Running, Done, Owes, Writing
  <1>14. QED
    BY <1>1, <1>10, <1>12, <1>13, StepData DEF DataKept

\* A write has its data, and dooms that of what it takes the place of.
LEMMA PutMDData ==
    ASSUME OrderInv, DataInv, NEW r \in Reqs, PutMD(r)
    PROVE  DataKept(r)
  <1> DEFINE doomed == ctx[r].doomed \cup MyPlan(r).doomed
             rec == IF status = "none" THEN Written(r) ELSE NewRec(r)
  <1>1. /\ Step(r) /\ pc[r] = "putMD" /\ UNCHANGED data
        /\ pc'[r] \in {"ok", "delData"} /\ (pc'[r] = "ok" => doomed = {})
        /\ ctx'[r].doomed = doomed
        /\ EngineOK /\ KeyInv /\ TypeInv /\ Unversioned /\ LocWritten
    BY OrderTypes, PutMDIs DEF Step, OrderInv
  <1>2. /\ Advance(r) /\ status' = status /\ ctx[r].status = status /\ Ready(r)
        /\ ctx[r].obj \in Rec \cup {None} /\ Backed(r) /\ Dooms(r)
        /\ MyPlan(r) = PlanOf(status, ctx[r].obj)
        /\ status \in {"none", "Enabled", "Suspended"}
    BY <1>1, StepData, OrderTypes DEF AtLabel, Advance, MyPlan
  <1>3. /\ rec.loc = IF ctx[r].kind = "delete" THEN None ELSE r
        /\ ctx[r].kind \in {"put", "delete"}
        /\ rec # None
    BY <1>1, <1>2, WrittenIs, VidsAre, OrderTypes DEF RightContext, Writing
  <1> HIDE DEF rec
  <1>4. /\ ctx[r].doomed \cap Locs = {}
        /\ \A a \in Records : a.loc \in MyPlan(r).doomed => a = master /\ master.vid = None
        /\ \A x \in doomed : pc[x] \notin Early /\ x # None
    BY <1>1, <1>2, OrderTypes, VidsAre DEF Dooms, Writing, Plans
  <1>5. r \notin doomed /\ None \notin doomed
    BY <1>1, <1>4 DEF Early, Writing
  \* What the write leaves of the records, and what it takes the place of.
  <1>6. /\ rec \in Records'
        /\ \A a \in Records' : a = rec \/ (a \in Records /\ a.loc \notin doomed)
        /\ \A a \in Records : a.loc # None =>
               a.loc \in doomed \/ \E b \in Records' : b.loc = a.loc
    <2>1. \A a \in Records : a.loc # None => a.loc \in Locs
      BY LocsAre
    <2>2. CASE status = "none"
      <3>1. Records' = {rec} /\ Records \subseteq {master}
        BY <1>1, <1>2, <1>3, <2>2, PutMDIs, RecordsAre
           DEF Unversioned, Records, rec
      <3>2. master = ctx[r].obj /\ MyPlan(r).doomed = LocationOf(ctx[r].obj)
        BY <1>2, <2>2, PlanDooms DEF Ready
      <3>3. QED
        BY <3>1, <3>2 DEF LocationOf, Records
    <2>3. CASE status = "Suspended"
      <3>1. /\ master' = rec /\ UNCHANGED vkeys
        BY <1>1, <1>2, <2>3, PutMDIs DEF rec
      <3>2. MyPlan(r).doomed = IF IsNull(ctx[r].obj) THEN LocationOf(ctx[r].obj) ELSE {}
        BY <1>2, <2>3, PlanDooms
      <3>3. \/ NoNull
            \/ /\ master = ctx[r].obj /\ master # None /\ master.vid = None
               /\ \A v \in Vids : vkeys[v] = None
        BY <1>2, <2>3 DEF Ready
      <3>4. /\ \A a : a \in Records <=> a # None /\ (a = master \/ \E v \in Vids : a = vkeys[v])
            /\ \A a : a \in Records' <=> a = rec \/ (a # None /\ \E v \in Vids : a = vkeys[v])
        BY <1>1, <1>3, <3>1, RecordsAre DEF Records
      <3>5. CASE NoNull
        <4>1. master # None => \E v \in Vids : master = vkeys[v]
          BY <1>1, <3>4, <3>5 DEF KeyInv, Newest, NoNull, IsNull, EngineOK, Rec
        <4>2. Records' = Records \cup {rec}
          BY <3>4, <4>1
        <4>3. \A a \in Records : a.loc # None => a.loc \notin doomed
          BY <1>1, <1>4, <2>1, <3>4, <3>5 DEF NoNull, IsNull
        <4>4. QED
          BY <1>5, <4>2, <4>3
      <3>6. CASE /\ master = ctx[r].obj /\ master # None /\ master.vid = None
                 /\ \A v \in Vids : vkeys[v] = None
        <4>1. Records' = {rec} /\ Records = {master}
          BY <3>4, <3>6
        <4>2. MyPlan(r).doomed = {master.loc} \ {None}
          BY <3>2, <3>6 DEF IsNull, LocationOf
        <4>3. QED
          BY <4>1, <4>2
      <3>7. QED
        BY <3>3, <3>5, <3>6
    <2>4. CASE status = "Enabled"
      <3>1. MyPlan(r).doomed = {}
        BY <1>2, <2>4, PlanDooms
      <3>2. Shown' = Shown \cup {Seen(rec)}
        BY <1>1, <2>4, PutMDOrder DEF Replaces, rec
      <3>3. rec \in Records' /\ Records' \subseteq Records \cup {rec}
        <4>1. /\ master' = rec /\ vkeys' = [vkeys EXCEPT ![clock + 1] = rec]
          BY <1>1, <1>2, <2>4, PutMDIs DEF rec
        <4>2. \A v \in Vids : vkeys'[v] \in {vkeys[v], rec}
          BY <1>1, <4>1 DEF EngineOK
        <4>3. QED
          BY <1>3, <4>1, <4>2 DEF Records
      <3>4. \A a \in Records : \E b \in Records' : b.loc = a.loc
        <4>1. \A a \in Records : Seen(a) \in Shown'
          BY <3>2 DEF Shown
        <4>2. Shown' = {Seen(b) : b \in Records'}
          BY DEF Shown, Seen
        <4>3. \A a \in Records : \E b \in Records' : Seen(b) = Seen(a)
          BY <4>1, <4>2
        <4>4. \A a, b : Seen(a) = Seen(b) => a.loc = b.loc
          BY DEF Seen
        <4>5. QED
          BY <4>3, <4>4
      <3>5. \A a \in Records : a.loc # None => a.loc \notin doomed
        BY <1>4, <2>1, <3>1
      <3>6. QED
        BY <1>5, <3>3, <3>4, <3>5
    <2>5. QED
      BY <1>2, <2>2, <2>3, <2>4
  <1>7. \A x : x \in Locs' <=> x # None /\ \E a \in Records' : x = a.loc
    BY DEF Locs
  <1>8. \A x \in Locs' : x = r \/ (x \in Locs /\ x \notin doomed)
    BY <1>3, <1>6, <1>7, LocsAre
  <1>9. \A x \in Locs : x \in doomed \/ x \in Locs'
    BY <1>6, <1>7, LocsAre
  <1>10. Dooms(r)'
    BY <1>1, <1>5, <1>8 DEF Dooms, Writing
  <1>11. \A x \in Locs' : x \in data'
    <2>1. r \in Locs' => ctx[r].kind = "put"
      BY <1>3, <1>6, <1>7, <1>1 DEF LocWritten, Early, Writing
    <2>2. QED
      BY <1>1, <1>2, <1>8, <2>1, StepData DEF Backed, Writing
  <1>12. \A x \in Owes(r) : x \in doomed \/ x \in Locs'
    BY <1>1, <1>3, <1>6, <1>7, VidsAre DEF Owes
  <1>13. \A x \in doomed : Running(r)' /\ x \in Owes(r)'
    BY <1>1 DEF Running, Done, Owes
  <1>14. QED
    BY <1>1, <1>9, <1>10, <1>11, <1>12, <1>13 DEF DataKept

\* A version that is removed leaves its data doomed.
LEMMA DelMDData ==
    ASSUME OrderInv, DataInv, NEW r \in Reqs, DelMD(r)
    PROVE  DataKept(r)
  <1> DEFINE vid == IF ctx[r].status = "none" THEN None ELSE ctx[r].obj.vid
             doomed == LocationOf(ctx[r].obj)
  <1>1. /\ Step(r) /\ pc[r] = "delMD" /\ UNCHANGED data
        /\ IF vid = None THEN DeleteMaster ELSE DeleteVersion(vid)
        /\ \/ pc'[r] = AfterMD(doomed)
           \/ ~ (IF vid = None THEN master # None ELSE GetVersion(vid) # None)
    BY OrderTypes DEF Step, DelMD, Go
  <1>2. ctx'[r].doomed = doomed
    BY OrderTypes DEF DelMD, Context
  <1>3. /\ Advance(r) /\ status' = status /\ ctx[r].status = status
        /\ ctx[r].obj \in Records /\ ctx[r].obj \in Rec /\ ctx[r].obj # None
        /\ vid = None => master = ctx[r].obj /\ ctx[r].obj.vid = None
        /\ master # None /\ master.vid = None => vkeys[Inf] = None
        /\ EngineOK /\ KeyInv /\ ctx[r].doomed = {}
    BY <1>1, StepData, CalmStep, OrderTypes, RecordsAre
       DEF AtLabel, Advance, RightContext, Dooms
  <1>4. doomed = {ctx[r].obj.loc} \ {None}
    BY <1>3, LocsAre
  <1>5. /\ IF vid = None THEN master # None ELSE GetVersion(vid) # None
        /\ Records' = {a \in Records : Id(a) # Id(ctx[r].obj)}
    <2>1. CASE vid = None
      <3>1. Records = {master} /\ Records' = {}
        BY <1>1, <1>3, <2>1, RecordsAre DEF KeyInv, OldForm, DeleteMaster, Records
      <3>2. QED
        BY <1>3, <2>1, <3>1
    <2>2. CASE vid # None
      <3>1. vid \in Vids /\ vid = ctx[r].obj.vid
        BY <1>3, <2>2 DEF Rec
      <3>2. master # None => master.vid # None
        BY <1>3, <3>1, RecordsAre, VidsAre DEF KeyInv, OldForm
      <3>3. \A a \in Records : a.vid # None /\ Id(a) = a.vid
        BY <1>3, <3>2, RecordsAre, VidsAre DEF KeyInv, Filed, Id
      <3>4. GetVersion(vid) # None
        BY <1>3, <3>1, <3>2, RecordsAre, VidsAre DEF GetVersion, KeyInv, Filed
      <3>5. DeleteVersion(vid)
        BY <1>1, <2>2
      <3> HIDE DEF vid
      <3>6. Records' = {a \in Records : a.vid # vid}
        BY <1>3, <3>1, <3>2, <3>5, DeleteKeeps
      <3>7. QED
        BY <1>3, <2>2, <3>1, <3>3, <3>4, <3>6
    <2>3. QED
      BY <2>1, <2>2
  <1>6. pc'[r] = AfterMD(doomed)
    BY <1>1, <1>5
  <1>7. \A x : x \in Locs' <=> x \in Locs /\ x \notin doomed
    <2>1. \A x : x \in Locs' <=> x # None /\ \E a \in Records' : x = a.loc
      BY DEF Locs
    <2>2. QED
      BY <1>3, <1>4, <1>5, <2>1, LocsAre
  <1> HIDE DEF doomed, vid
  <1>8. Dooms(r)'
    BY <1>2, <1>6, <1>7 DEF Dooms, AfterMD, Writing
  <1>9. \A x \in doomed : Running(r)' /\ x \in Owes(r)'
    BY <1>2, <1>6 DEF Owes, AfterMD, Running, Done
  <1>10. Owes(r) = {}
    BY <1>1, <1>3 DEF Owes, Writing
  <1>11. QED
    BY <1>1, <1>7, <1>8, <1>9, <1>10, StepData DEF DataKept

\* The other calls keep versions and data.
LEMMA OtherData ==
    ASSUME OrderInv, DataInv, NEW r \in Reqs, FindNull(r) \/ EditMD(r) \/ DelData(r)
    PROVE  DataKept(r)
  <1>1. Step(r) /\ Shown' = Shown
    BY FindNullOrder, EditMDOrder, DelDataOrder DEF Step
  <1>2. Locs' = Locs /\ Dooms(r) /\ \A x \in Locs : x \in data
    BY <1>1, LocsShow, StepData
  <1>3. CASE FindNull(r)
    <2>1. /\ pc[r] = "findNull" /\ pc'[r] \in {"failed", "delMD"} /\ UNCHANGED data
          /\ ctx'[r].doomed = ctx[r].doomed
      BY <1>3, OrderTypes DEF FindNull, Go, Context
    <2>2. QED
      BY <1>2, <2>1 DEF DataKept, Dooms, Running, Done, Owes, Writing
  <1>4. CASE EditMD(r)
    <2>1. pc[r] = "editMD" /\ pc'[r] = "ok" /\ UNCHANGED data
      BY <1>4, OrderTypes DEF EditMD, Go
    <2>2. QED
      BY <1>2, <2>1 DEF DataKept, Dooms, Running, Done, Owes, Writing
  <1>5. CASE DelData(r)
    <2>1. pc[r] = "delData" /\ pc'[r] = "ok" /\ data' = data \ ctx[r].doomed
      BY <1>5, OrderTypes DEF DelData, Go
    <2>2. QED
      BY <1>2, <2>1 DEF DataKept, Dooms, Running, Done, Owes, Writing
  <1>6. QED
    BY <1>3, <1>4, <1>5

\* What does not step leaves versions and data as they are.
LEMMA StartData ==
    ASSUME Orderly, OrderInv, DataInv, NEW r \in Reqs, Start(r)
    PROVE  DataInv'
  <1>1. /\ Beside(r) /\ UNCHANGED <<status, changes, data, engine>>
        /\ pc[r] = "idle" /\ ctx'[r].status = status /\ ctx'[r].doomed = {} /\ Starting(r)
    BY StartIs, OrderTypes
  <1>2. Quiet
    BY DEF Start, StartPut, StartDelete, StartDeleteVersion, StartDeleteNull,
           StartEdit, MayStart, Orderly
  <1>3. Records' = Records /\ Locs' = Locs
    BY <1>1, RecordsRest, StartOrder, LocsShow DEF engine
  <1>4. master # None /\ master.vid = None => vkeys[Inf] = None
    BY <1>2 DEF OrderInv, Calm, Quiet, Running, Done
  <1>5. \A x \in Reqs : pc[x] \notin Early => pc'[x] \notin Early
    BY <1>1 DEF Beside, Early
  <1>6. Running(r)' => Backed(r)' /\ Dooms(r)'
    <2>1. CASE pc'[r] = FirstCall(PlanOf(status, master)) /\ ctx'[r].obj = master
               /\ ctx'[r].kind = "delete"
      <3>1. Dooms(r)'
        BY <1>1, <1>4, <1>5, <2>1, FirstDooms
      <3>2. pc'[r] # "storeData"
        BY <2>1, OrderTypes, PlanType DEF EngineOK
      <3>3. QED
        BY <2>1, <3>1, <3>2 DEF Backed
    <2>2. CASE pc'[r] = "storeData" /\ ctx'[r].kind = "put" /\ ctx'[r].obj = master
      <3>1. MyPlan(r)' = PlanOf(status, master)
        BY <1>1, <2>2 DEF MyPlan
      <3>2. PlanOf(status, master).doomed \subseteq LocationOf(master)
        BY OrderTypes, PlanDooms DEF EngineOK
      <3>3. \A x \in LocationOf(master) : pc'[x] \notin Early
        BY <1>5, OrderTypes, RecordsAre, LocsAre DEF LocationOf
      <3>4. QED
        BY <1>1, <2>2, <3>1, <3>2, <3>3 DEF Backed, Dooms, Writing
    <2>3. CASE pc'[r] \in {"delMD", "editMD", "findNull"}
      BY <1>1, <2>3 DEF Backed, Dooms, Writing
    <2>4. QED
      BY <1>1, <2>1, <2>2, <2>3 DEF Starting, Running, Done
  <1>7. \A q \in Reqs \ {r} : ~Running(q)'
    BY <1>1, <1>2 DEF Quiet, Running, Beside
  <1>8. NothingLost => NothingLost'
    BY <1>1, <1>2, <1>3 DEF NothingLost, Quiet
  <1>9. NoDangling'
    BY <1>1, <1>3 DEF DataInv, NoDangling
  <1>10. QED
    BY <1>6, <1>7, <1>8, <1>9 DEF DataInv

\* What does not touch the engine or the data backend keeps them.
LEMMA RestData ==
    ASSUME OrderInv, DataInv, UNCHANGED <<engine, data, ctx>>,
           \/ UNCHANGED pc
           \/ \E r \in Reqs : Abandon(r)
    PROVE  DataInv'
  <1>1. Records' = Records /\ Locs' = Locs /\ UNCHANGED <<master, vkeys>>
    BY RecordsRest, LocsShow DEF engine
  <1>2. NoDangling'
    BY <1>1 DEF DataInv, NoDangling
  <1>3. \A q \in Reqs : MyPlan(q)' = MyPlan(q)
    BY DEF MyPlan
  <1>4. \A v : GetVersion(v)' = GetVersion(v)
    BY <1>1 DEF GetVersion
  <1>5. CASE UNCHANGED pc
    <2>1. \A q \in Reqs : /\ Running(q)' = Running(q) /\ Owes(q)' = Owes(q)
                          /\ Backed(q)' = Backed(q)
      BY <1>3, <1>5 DEF Running, Owes, Backed
    <2>2. \A q \in Reqs : Dooms(q) => Dooms(q)'
      BY <1>1, <1>3, <1>4, <1>5 DEF Dooms, IsNull, LocationOf
    <2>3. NothingLost => NothingLost'
      BY <1>1, <2>1 DEF NothingLost
    <2>4. QED
      BY <1>2, <2>1, <2>2, <2>3 DEF DataInv
  <1>6. ASSUME NEW r \in Reqs, Abandon(r) PROVE DataInv'
    <2>1. Crashes /\ \A q \in Reqs : ~Running(q)'
      BY <1>6, OrderTypes DEF Abandon, OrderInv, Solo, Running, Done
    <2>2. QED
      BY <1>2, <2>1 DEF DataInv
  <1>7. QED
    BY <1>5, <1>6

\* Every step keeps versions and data.
LEMMA NextData ==
    ASSUME Orderly, OrderInv, DataInv, [Next]_vars
    PROVE  DataInv'
  <1>1. ASSUME NEW r \in Reqs, Step(r) PROVE DataInv'
    <2>1. DataKept(r)
      BY <1>1, StoreDataData, StoreNullData, GetNullData, DelNullData, PutMDData,
         DelMDData, OtherData DEF Step
    <2>2. /\ Backed(r)' /\ \A q \in Reqs \ {r} : ~Running(q) /\ ~Running(q)'
      BY <1>1, StepData, StepSolo
    <2>3. NoDangling'
      <3>1. \A a \in Records' : a.loc # None => a.loc \in Locs'
        BY DEF Locs
      <3>2. QED
        BY <2>1, <3>1 DEF DataKept, NoDangling
    <2>4. NothingLost => NothingLost'
      BY <2>1, <2>2 DEF DataKept, NothingLost
    <2>5. QED
      BY <2>1, <2>2, <2>3, <2>4 DEF DataInv, DataKept
  <1>2. ASSUME NEW s \in Statuses, SetStatus(s) PROVE DataInv'
    BY <1>2, RestData DEF SetStatus
  <1>3. CASE UNCHANGED vars
    BY <1>3, RestData DEF vars, engine
  <1>4. QED
    BY <1>1, <1>2, <1>3, StartData, RestData DEF Next, Abandon

\* There is no version and no data.
LEMMA InitData == Init => DataInv
  <1> SUFFICES ASSUME Init PROVE DataInv
    OBVIOUS
  <1>1. Records = {} /\ data = {} /\ \A r \in Reqs : ~Running(r)
    BY DEF Init, Records, Running
  <1>2. QED
    BY <1>1 DEF DataInv, NoDangling, NothingLost

\* For clients that wait for each answer every version has its data, also when
\* requests die between two calls.
THEOREM VersionsHaveData == ASSUME Orderly PROVE Spec => []NoDangling
  <1>1. OrderInv /\ DataInv /\ [Next]_vars => DataInv'
    BY NextData
  <1>2. DataInv => NoDangling
    BY DEF DataInv
  <1>3. QED
    BY InitOrder, NextOrder, InitData, <1>1, <1>2, PTL DEF Spec

\* And when none dies, data that no version names is gone once they are answered.
THEOREM VersionsNameData == ASSUME Orderly, ~Crashes PROVE Spec => []DataStands
  <1>1. OrderInv /\ DataInv /\ [Next]_vars => DataInv'
    BY NextData
  <1>2. DataInv => DataStands
    <2> SUFFICES ASSUME DataInv, Quiet, NEW x \in data
                 PROVE  x \in {rec.loc : rec \in Records}
      BY DEF DataInv, DataStands, NoOrphans
    <2>1. x \in Locs
      BY DEF DataInv, NothingLost, Quiet
    <2>2. QED
      BY <2>1 DEF Locs
  <1>3. QED
    BY InitOrder, NextOrder, InitData, <1>1, <1>2, PTL DEF Spec

-----------------------------------------------------------------------------
(* Requests beside one another *)

\* Clients write new versions and delete versions by their identifiers, any number
\* of them at a time, and set the status of the bucket when none of that is running.
\* The metadata engine lets a version overwrite an unversioned master.
Interleaved ==
    /\ Discipline # "free"
    /\ Kinds \subseteq {"put", "delete", "deleteVersion"}
    /\ Follows = {TRUE}

\* An unversioned master is alone.
MasterAlone == master # None /\ master.vid = None => \A v \in Vids : vkeys[v] = None

\* Before versioning was configured there are no version keys.
NoVersionsYet ==
    status = "none" => /\ \A v \in Vids : vkeys[v] = None
                       /\ master # None => master.vid = None

\* A record that a request has read is of a version that is there unchanged, or
\* gone; a null version that is older it refers to.
Knows(obj) ==
    /\ Id(obj) <= clock
    /\ obj.nullVid # None => obj.nullVid < Id(obj)
    /\ obj.vid = None => ~obj.null
    /\ IsNull(obj) => obj.nullVid = None
    /\ \A b \in Records :
        /\ IsNull(b) /\ Id(b) < Id(obj) => obj.nullVid = Id(b)
        /\ obj.nullVid # None /\ Id(b) = obj.nullVid => IsNull(b)
        /\ obj.vid # None /\ Id(b) = Id(obj) =>
               Seen(b) = Seen(obj) /\ b.nullVid = obj.nullVid
        /\ obj.loc # None /\ b.loc = obj.loc =>
               Id(b) = Id(obj) /\ (IsNull(b) <=> IsNull(obj))

\* Null versions have keys of their own.
NullsApart == \A a \in Records : IsNull(a) => vkeys[NullVersionId(a)] = CopyOf(a)

\* While versioning is enabled the null version is the one that writes have read,
\* or older; it stays, and has its own key when the master is about to go.
KeepsNull(r) ==
    LET obj == ctx[r].obj
    IN  /\ \A a \in Records : IsNull(a) => obj # None /\ Id(a) <= Id(obj)
        /\ IsNull(obj) => obj \in Records \/ CopyOf(obj) \in Records
        /\ ~IsNull(obj) \/ pc[r] = "putMD" => NullsApart

\* While it is suspended, a null version with its own key is deleted before the
\* write, and what is doomed is of a null version.
ReplacesNull(r) ==
    /\ \A v \in Vids : vkeys[v] # None /\ IsNull(vkeys[v]) =>
           /\ pc[r] \in {"storeData", "getNull", "delNull"}
           /\ MyPlan(r).del = v
    /\ \A a \in Records : a.loc \in ctx[r].doomed => IsNull(a)

\* What a running request has in hand.
InHand(r) ==
    LET c == ctx[r]
    IN  /\ c.status = status
        /\ pc[r] \notin {"findNull", "editMD"}
        /\ c.obj # None => Knows(c.obj) /\ (status = "none" => c.obj.vid = None)
        /\ pc[r] = "storeNull" => status = "Enabled"
        /\ pc[r] \in {"getNull", "delNull"} => status = "Suspended" /\ c.obj # None
        /\ pc[r] = "getNull" => ~IsNull(c.obj)
        /\ pc[r] = "delMD" =>
               IF status = "none" THEN c.kind = "delete"
               ELSE c.kind = "deleteVersion" /\ c.obj.vid # None /\ ~c.obj.null
        /\ pc[r] \in Writing /\ status = "Enabled" => KeepsNull(r)
        /\ pc[r] \in Writing /\ status = "Suspended" => ReplacesNull(r)
        /\ pc[r] \in Writing \cup {"delMD"} /\ status # "Suspended" => c.doomed = {}
        /\ pc[r] \in Writing \ {"storeData"} /\ c.kind = "put" => r \in data
        /\ pc[r] = "delData" => \A a \in Records : a.loc \notin c.doomed

\* What a request has read or dooms was written.
ReadWritten ==
    \A r \in Reqs :
        /\ ctx[r].obj # None /\ ctx[r].obj.loc # None => pc[ctx[r].obj.loc] \notin Early
        /\ \A x \in ctx[r].doomed : pc[x] \notin Early

BesideInv ==
    /\ TypeInv /\ KeyInv /\ MasterAlone /\ NoVersionsYet /\ LocWritten /\ ReadWritten
    /\ NoDangling
    /\ \A r \in Reqs : /\ pc[r] = "idle" => ctx[r].kind = None
                       /\ Running(r) => InHand(r)

\* A version whose PUT was acknowledged has its key, unless a request named it.
AckedKept ==
    \A r \in Reqs :
        ctx[r].kind = "put" /\ ctx[r].status = "Enabled" /\ pc[r] \in {"delData", "ok"} =>
            \/ \E v \in Vids : vkeys[v] # None /\ ~vkeys[v].null /\ vkeys[v].loc = r
            \/ \E q \in Reqs : ctx[q].kind = "deleteVersion" /\ ctx[q].obj.loc = r

\* What was overwritten is gone.
OverwrittenGone ==
    \A r \in Reqs :
        /\ ctx[r].kind = "put" /\ ctx[r].status # "Enabled"
        /\ pc[r] \in {"delData", "ok"} /\ IsNull(ctx[r].obj)
        => \A a \in Records : a.loc = None \/ a.loc # ctx[r].obj.loc

\* Two records of one version.
SameVersion(a, b) ==
    /\ Id(b) = Id(a) /\ b.nullVid = a.nullVid /\ b.loc = a.loc
    /\ Seen(b) = Seen(a) /\ (IsNull(b) <=> IsNull(a))

\* The record of a version that a request has just written.
FreshVersion(b, r) ==
    /\ pc[r] = "putMD" /\ b.loc \in {None, r}
    /\ Id(b) = IF status = "none" THEN Inf ELSE clock + 1
    /\ IsNull(b) <=> status # "Enabled"

\* What a step of a running request leaves of the records.
RecordsKept(r) ==
    /\ KeyInv' /\ MasterAlone' /\ NoVersionsYet' /\ clock' \in {clock, clock + 1}
    /\ \A b \in Records' : FreshVersion(b, r) \/ \E a \in Records : SameVersion(a, b)
    /\ status = "Enabled" =>
           /\ NullsApart => NullsApart'
           /\ \A a \in Records : IsNull(a) => a \in Records' \/ CopyOf(a) \in Records'
    /\ status = "Suspended" => \A v \in Vids : vkeys'[v] \in {vkeys[v], None}
    /\ \A v \in Vids : vkeys[v] # None /\ ~vkeys[v].null =>
           \/ vkeys'[v] = vkeys[v]
           \/ ctx[r].kind = "deleteVersion" /\ ctx[r].obj.loc = vkeys[v].loc

\* And of the data.
DataLeft(r) ==
    /\ NoDangling'
    /\ \A x \in data : pc[x] \in Early => x \in data'
    /\ \A x \in ctx'[r].doomed : pc[x] \notin Early

\* What is said of the versions, engine call by engine call: the copy of a null
\* version is its own copy, and its only one.
LEMMA CopyOnce ==
    ASSUME NEW a \in Rec, NEW b \in Rec, IsNull(a), IsNull(b),
           a.vid = None => ~a.null, b.vid = None => ~b.null,
           Seen(a) = Seen(b), a.nullVid = b.nullVid
    PROVE  CopyOf(a) = CopyOf(b) /\ CopyOf(CopyOf(a)) = CopyOf(a)
  <1>1. \A x \in {a, b} : /\ CopyOf(x) \in Rec /\ CopyOf(x).vid = Id(x) /\ CopyOf(x).null = TRUE
                          /\ CopyOf(x).nullVid = x.nullVid /\ CopyOf(x).dm = x.dm
                          /\ CopyOf(x).loc = x.loc /\ CopyOf(x).vid # None
                          /\ IsNull(CopyOf(x))
    BY CopyIs
  <1>2. Id(a) = Id(b) /\ a.dm = b.dm /\ a.loc = b.loc
    BY DEF Seen, Id
  <1>3. CopyOf(a) = CopyOf(b)
    BY <1>1, <1>2 DEF Rec
  <1>4. CopyOf(CopyOf(a)) = CopyOf(a)
    BY <1>1, CopyIs
  <1>5. QED
    BY <1>3, <1>4

\* Null versions are well formed and are one version.
LEMMA NullsAreOne ==
    ASSUME EngineOK, KeyInv, NEW a \in Records, NEW b \in Records, IsNull(a), IsNull(b)
    PROVE  /\ Id(a) = Id(b) /\ Seen(a) = Seen(b) /\ a.nullVid = None
           /\ a \in Rec /\ (a.vid = None => ~a.null)
           /\ CopyOf(a) = CopyOf(b) /\ NullVersionId(a) = NullVersionId(b)
           /\ NullVersionId(a) = Id(a) /\ CopyOf(CopyOf(a)) = CopyOf(a)
           /\ a.vid # None => CopyOf(a) = a
  <1>1. \A x \in {a, b} : x \in Rec /\ (x.vid = None => ~x.null) /\ x.nullVid = None
    <2>1. \A x \in {a, b} : /\ x \in Rec /\ x \in Records /\ IsNull(x)
                            /\ x = master \/ \E v \in Vids : x = vkeys[v]
      BY RecordsAre
    <2>2. \A x \in {a, b} : x.vid = None => x = master
      BY <2>1, VidsAre, RecordsAre DEF KeyInv, Filed
    <2>3. QED
      BY <2>1, <2>2, VidsAre DEF KeyInv, OldForm, NullRefs
  <1>2. Id(a) = Id(b)
    BY NullIs
  <1>3. Seen(a) = Seen(b)
    BY <1>2, OneSeen DEF KeyInv
  <1>4. \A x \in {a, b} : NullVersionId(x) = Id(x) /\ (x.vid # None => CopyOf(x) = x)
    BY <1>1, CopyIs
  <1>5. QED
    BY <1>1, <1>2, <1>3, <1>4, CopyOnce

\* DELETE of a version takes the records of that version, and no others, also
\* where the master is unversioned and alone.
LEMMA DeleteAlone ==
    ASSUME EngineOK, KeyInv, MasterAlone, NEW v \in Vids, DeleteVersion(v)
    PROVE  /\ KeyInv' /\ MasterAlone' /\ Records' = {a \in Records : a.vid # v}
           /\ \A w \in Vids : vkeys'[w] = IF w = v THEN None ELSE vkeys[w]
           /\ clock' = clock
           /\ NullsApart /\ (\A a \in Records : a.vid = v => ~IsNull(a)) => NullsApart'
  <1>1. /\ clock' = clock /\ \A w \in Vids : vkeys'[w] = IF w = v THEN None ELSE vkeys[w]
        /\ vkeys' = [vkeys EXCEPT ![v] = None]
    BY DEF DeleteVersion, EngineOK
  <1>2. KeyInv' /\ MasterAlone' /\ Records' = {a \in Records : a.vid # v}
    <2>1. CASE master # None => master.vid # None
      <3>1. /\ Records' = {a \in Records : a.vid # v} /\ KeyInv'
            /\ master' # None => master'.vid # None
        BY <2>1, DeleteKeeps
      <3>2. QED
        BY <3>1 DEF MasterAlone
    <2>2. CASE master # None /\ master.vid = None
      <3>1. /\ \A w \in Vids : vkeys[w] = None
            /\ vkeys' = vkeys /\ v # None
        BY <1>1, <2>2, VidsAre DEF MasterAlone, EngineOK
      <3>2. master' = master
        BY <2>2, <3>1 DEF DeleteVersion
      <3>3. Records' = Records /\ \A a \in Records : a = master
        BY <3>1, <3>2, RecordsAre DEF Records
      <3>4. Records' = {a \in Records : a.vid # v}
        BY <2>2, <3>1, <3>3
      <3>5. QED
        BY <1>1, <3>1, <3>2, <3>3, <3>4
           DEF KeyInv, Filed, OldForm, Newest, NullRefs, OneLoc, MasterAlone
    <2>3. QED
      BY <2>1, <2>2
  <1>3. ASSUME NullsApart, \A a \in Records : a.vid = v => ~IsNull(a),
               NEW a \in Records', IsNull(a)
        PROVE  vkeys'[NullVersionId(a)] = CopyOf(a)
    <2>1. /\ a \in Records /\ a.vid # v /\ vkeys[NullVersionId(a)] = CopyOf(a)
          /\ NullVersionId(a) = Id(a) /\ a \in Rec /\ (a.vid = None => ~a.null)
          /\ Id(a) \in Vids
      BY <1>2, <1>3, NullsAreOne, RecordsAre DEF NullsApart
    <2>2. a.vid # None
      <3>1. CopyOf(a) # None
        BY <1>3, <2>1, CopyIs
      <3>2. a = master \/ \E w \in Vids : a = vkeys[w]
        BY <2>1, RecordsAre
      <3>3. a.vid = None => a = master /\ master # None
        BY <2>1, <3>2, VidsAre DEF KeyInv, Filed
      <3>4. QED
        BY <2>1, <3>1, <3>3 DEF MasterAlone
    <2>3. NullVersionId(a) # v
      BY <2>1, <2>2 DEF Id
    <2>4. QED
      BY <1>1, <2>1, <2>3
  <1>4. QED
    BY <1>1, <1>2, <1>3 DEF NullsApart

\* Storing a null version apart keeps it where it is, and gives it its key.
LEMMA StoreBeside ==
    ASSUME EngineOK, KeyInv, MasterAlone, Follows = {TRUE}, NEW obj \in Rec, IsNull(obj),
           obj.vid = None => ~obj.null, obj \in Records \/ CopyOf(obj) \in Records,
           PutVersion(NullVersionId(obj), CopyOf(obj))
    PROVE  /\ KeyInv' /\ MasterAlone' /\ NullsApart' /\ clock' = clock
           /\ CopyOf(obj) \in Records'
           /\ \A b \in Records' : b = CopyOf(obj) \/ b \in Records
           /\ \A v \in Vids : vkeys'[v] = IF v = NullVersionId(obj) THEN CopyOf(obj)
                                                                    ELSE vkeys[v]
           /\ \A v \in Vids : v = NullVersionId(obj) /\ vkeys[v] # None => IsNull(vkeys[v])
  <1> DEFINE copy == CopyOf(obj)
             at == NullVersionId(obj)
  <1>1. /\ copy \in Rec /\ copy # None /\ IsNull(copy) /\ Id(copy) = Id(obj) /\ copy.vid = at
        /\ at \in Vids /\ at = Id(obj) /\ copy.null = TRUE /\ copy.vid # None
        /\ Seen(copy) = Seen(obj) /\ copy.nullVid = obj.nullVid
        /\ obj.vid # None => copy = obj
        /\ CopyOf(copy) = copy /\ NullVersionId(copy) = at
    <2>1. /\ copy \in Rec /\ copy # None /\ IsNull(copy) /\ Id(copy) = Id(obj) /\ copy.vid = at
          /\ at \in Vids /\ at = Id(obj) /\ copy.null = TRUE /\ copy.vid # None
          /\ Seen(copy) = Seen(obj) /\ copy.nullVid = obj.nullVid
          /\ obj.vid # None => copy = obj
      BY CopyIs
    <2>2. CopyOf(copy) = copy /\ NullVersionId(copy) = at
      BY <2>1, CopyIs DEF NullVersionId
    <2>3. QED
      BY <2>1, <2>2
  <1>2. PICK x \in Records : x \in {obj, copy}
    OBVIOUS
  <1>3. /\ IsNull(x) /\ Id(x) = at /\ CopyOf(x) = copy /\ NullVersionId(x) = at
    BY <1>1, <1>2
  <1>4. /\ vkeys' = [vkeys EXCEPT ![at] = copy] /\ clock' = clock
        /\ \E follows \in MasterFollows(at) : master' = IF follows THEN copy ELSE master
    BY DEF PutVersion
  <1> HIDE DEF copy, at
  <1>5. \A v \in Vids : vkeys'[v] = IF v = at THEN copy ELSE vkeys[v]
    BY <1>1, <1>4 DEF EngineOK
  <1>6. copy \in Records'
    BY <1>1, <1>5 DEF Records
  <1>7. ASSUME NEW v \in Vids, v = at, vkeys[v] # None PROVE IsNull(vkeys[v])
    <2>1. vkeys[v] \in Records /\ Id(vkeys[v]) = v
      BY <1>7, RecordsAre, VidsAre DEF KeyInv, Filed, Id
    <2>2. QED
      BY <1>3, <1>7, <2>1, OneSeen DEF KeyInv
  <1>8. /\ KeyInv' /\ MasterAlone' /\ NullsApart'
        /\ \A b \in Records' : b = copy \/ b \in Records
    <2>1. CASE IsNull(master)
      <3>1. master \in Records
        BY <2>1, RecordsAre DEF IsNull
      <3>2. CopyOf(master) = copy /\ NullVersionId(master) = at
        BY <1>3, <2>1, <3>1, NullsAreOne
      <3>3. master.vid = None => vkeys[Inf] = None
        BY <2>1, VidsAre DEF MasterAlone, IsNull
      <3>4. PutVersion(NullVersionId(master), CopyOf(master))
        BY <3>2 DEF copy, at
      <3>5. /\ KeyInv' /\ vkeys'[at] = copy /\ master' \in {master, copy}
            /\ \A a \in Records' : a = copy \/ a \in Records
        BY <2>1, <3>2, <3>3, <3>4, StoreKeeps
      <3>6. MasterAlone'
        <4>1. master.vid = None => MasterFollows(at) = {TRUE}
          BY <2>1 DEF MasterFollows, IsNull
        <4>2. ASSUME master.vid = None PROVE master' = copy
          <5>1. MasterFollows(at) = {TRUE}
            BY <4>1, <4>2
          <5>2. \E follows \in {TRUE} : master' = IF follows THEN copy ELSE master
            BY <1>4, <5>1, Zenon
          <5>3. QED
            BY <5>2
        <4>3. master'.vid # None
          BY <1>1, <3>5, <4>2
        <4>4. QED
          BY <4>3 DEF MasterAlone
      <3>7. NullsApart'
        <4> SUFFICES ASSUME NEW a \in Records', IsNull(a)
                     PROVE  vkeys'[NullVersionId(a)] = CopyOf(a)
          BY DEF NullsApart
        <4>1. NullVersionId(a) = at /\ CopyOf(a) = copy
          <5>1. CASE a = copy
            BY <1>1, <5>1
          <5>2. CASE a \in Records
            BY <1>3, <5>2, NullsAreOne
          <5>3. QED
            BY <3>5, <5>1, <5>2
        <4>2. QED
          BY <3>5, <4>1
      <3>8. QED
        BY <3>5, <3>6, <3>7
    <2>2. CASE ~IsNull(master)
      <3>1. /\ master # None /\ master.vid # None /\ master.vid \in Vids
            /\ vkeys[master.nullVid] = x /\ x.vid = master.nullVid
            /\ master.nullVid \in Vids
            /\ Id(x) < Id(master)
        BY <1>3, <2>2, NullIs, NullFoundBy, RecordsAre DEF IsNull, EngineOK, Rec
      <3>2. x = copy /\ x.vid = at /\ at < master.vid
        BY <1>1, <1>2, <1>3, <3>1, VidsAre DEF Id
      <3>3. vkeys' = vkeys
        BY <1>4, <3>1, <3>2 DEF EngineOK
      <3>4. (at >= master.vid) = FALSE
        BY <1>1, <3>1, <3>2, VidsAre
      <3>5. master' = master
        <4>1. MasterFollows(at) = {FALSE}
          BY <3>1, <3>4, Zenon DEF MasterFollows
        <4>2. \E follows \in {FALSE} : master' = IF follows THEN copy ELSE master
          BY <1>4, <4>1, Zenon
        <4>3. QED
          BY <4>2
      <3>6. Records' = Records
        BY <3>3, <3>5 DEF Records
      <3>7. KeyInv' /\ MasterAlone'
        BY <1>4, <3>3, <3>5, <3>6
           DEF KeyInv, Filed, OldForm, Newest, NullRefs, OneLoc, MasterAlone
      <3>8. NullsApart'
        <4> SUFFICES ASSUME NEW a \in Records, IsNull(a)
                     PROVE  vkeys[NullVersionId(a)] = CopyOf(a)
          BY <3>3, <3>6 DEF NullsApart
        <4>1. NullVersionId(a) = at /\ CopyOf(a) = copy
          BY <1>3, NullsAreOne
        <4>2. QED
          BY <3>1, <3>2, <4>1
      <3>9. QED
        BY <3>6, <3>7, <3>8
    <2>3. QED
      BY <2>1, <2>2
  <1>9. QED
    BY <1>4, <1>5, <1>6, <1>7, <1>8 DEF copy, at

\* A write while versioning is enabled adds a version, whatever was written since
\* the master was read, if it refers to the null version.
LEMMA PutNewBeside ==
    ASSUME EngineOK, KeyInv, NullsApart, NEW rec \in Rec, rec.vid = clock + 1,
           clock + 1 \in Vids, rec.null = FALSE,
           rec.nullVid # None => rec.nullVid < clock + 1,
           \A a \in Records : /\ IsNull(a) => rec.nullVid = Id(a)
                              /\ rec.nullVid # None /\ Id(a) = rec.nullVid => IsNull(a),
           \A a \in Records : a.loc # None => a.loc # rec.loc,
           master' = rec, clock' = clock + 1, vkeys' = [vkeys EXCEPT ![clock + 1] = rec]
    PROVE  /\ KeyInv' /\ NullsApart'
           /\ Records' \subseteq Records \cup {rec}
           /\ Id(rec) = clock + 1 /\ ~IsNull(rec)
           /\ \A a \in Records : IsNull(a) => CopyOf(a) \in Records'
           /\ vkeys[clock + 1] = None
           /\ \A w \in Vids : vkeys'[w] = IF w = clock + 1 THEN rec ELSE vkeys[w]
  <1>1. /\ rec # None /\ rec.vid # None /\ Id(rec) = clock + 1 /\ ~IsNull(rec)
        /\ clock \in Nat /\ \A w \in Vids : vkeys'[w] = IF w = clock + 1 THEN rec ELSE vkeys[w]
    BY VidsAre, RecordsAre DEF Id, IsNull, EngineOK
  <1>2. \A a : a \in Records <=> a # None /\ (a = master \/ \E w \in Vids : a = vkeys[w])
    BY RecordsAre
  <1>3. \A a \in Records : Id(a) \in Nat /\ Id(a) <= clock /\ a.nullVid \in Vids \cup {None}
    BY IdsBehind, RecordsAre
  <1>4. vkeys[clock + 1] = None
    BY <1>1, <1>2, <1>3, VidsAre DEF KeyInv, Filed, Id
  <1>5. \A a : a \in Records' <=> a = rec \/ (a # None /\ \E w \in Vids : a = vkeys[w])
    BY <1>1, <1>4 DEF Records
  <1>6. Records' \subseteq Records \cup {rec} /\ rec \in Records'
    BY <1>2, <1>5
  <1>7. Filed'
    BY <1>1, VidsAre DEF KeyInv, Filed
  <1>8. OldForm' /\ Newest'
    BY <1>1, <1>2, <1>3, VidsAre DEF OldForm, Newest, KeyInv, Filed
  <1>9. OneLoc'
    BY <1>6 DEF KeyInv, OneLoc
  <1>10. NullRefs'
    BY <1>1, <1>3, <1>6, VidsAre DEF KeyInv, NullRefs
  <1>11. ASSUME NEW a \in Records, IsNull(a)
         PROVE  /\ vkeys'[NullVersionId(a)] = CopyOf(a) /\ CopyOf(a) \in Records'
    <2>1. /\ NullVersionId(a) = Id(a) /\ a \in Rec /\ (a.vid = None => ~a.null)
          /\ Id(a) \in Vids /\ Id(a) # clock + 1
      BY <1>1, <1>3, <1>11, NullsAreOne, RecordsAre
    <2>2. CopyOf(a) # None /\ vkeys[NullVersionId(a)] = CopyOf(a)
      BY <1>11, <2>1, CopyIs DEF NullsApart
    <2>3. QED
      BY <1>1, <1>5, <2>1, <2>2
  <1>12. NullsApart'
    BY <1>1, <1>6, <1>11 DEF NullsApart
  <1>13. QED
    BY <1>1, <1>4, <1>6, <1>7, <1>8, <1>9, <1>10, <1>11, <1>12 DEF KeyInv

\* What the invariant says of types.
LEMMA BesideTypes ==
    ASSUME BesideInv
    PROVE  /\ TypeInv /\ EngineOK /\ KeyInv /\ RightContext
           /\ pc \in [Reqs -> Labels] /\ ctx \in [Reqs -> Context]
           /\ status \in {"none", "Enabled", "Suspended"}
           /\ \A r \in Reqs : /\ ctx[r].obj \in Rec \cup {None}
                              /\ ctx[r].status \in {"none", "Enabled", "Suspended"}
                              /\ ctx[r].doomed \in SUBSET Reqs
                              /\ MyPlan(r) \in Plans
  BY PlanType DEF BesideInv, TypeInv, TypeOK, EngineOK, Context, MyPlan

\* While a request steps, what another one has read stays true.
LEMMA KnowsStill ==
    ASSUME BesideInv, NEW r \in Reqs, RecordsKept(r), NEW obj \in Rec, Knows(obj),
           obj.loc # None => pc[obj.loc] \notin Early,
           status = "none" => obj.vid = None
    PROVE  Knows(obj)'
  <1>1. /\ clock \in Nat /\ clock <= clock' /\ clock' \in Nat /\ Id(obj) \in Nat
        /\ obj.nullVid # None => obj.nullVid \in Nat
        /\ Id(obj) <= clock
    <2>1. EngineOK /\ clock \in Nat
      BY BesideTypes, RecordsAre
    <2>2. clock' \in {clock, clock + 1} /\ Id(obj) <= clock
      BY DEF RecordsKept, Knows
    <2>3. Id(obj) \in Nat /\ (obj.nullVid # None => obj.nullVid \in Nat)
      BY VidsAre DEF Id, Rec
    <2>4. QED
      BY <2>1, <2>2, <2>3
  <1>2. ASSUME NEW b \in Records'
        PROVE  /\ IsNull(b) /\ Id(b) < Id(obj) => obj.nullVid = Id(b)
               /\ obj.nullVid # None /\ Id(b) = obj.nullVid => IsNull(b)
               /\ obj.vid # None /\ Id(b) = Id(obj) =>
                     Seen(b) = Seen(obj) /\ b.nullVid = obj.nullVid
               /\ obj.loc # None /\ b.loc = obj.loc =>
                     Id(b) = Id(obj) /\ (IsNull(b) <=> IsNull(obj))
    <2>1. CASE \E a \in Records : SameVersion(a, b)
      BY <2>1 DEF SameVersion, Knows
    <2>2. CASE FreshVersion(b, r)
      <3>1. r \in Reqs /\ pc[r] \in Early /\ b.loc \in {None, r}
        BY <2>2 DEF FreshVersion, Early, Writing
      <3>2. obj.loc # None => b.loc # obj.loc
        BY <3>1
      <3>3. CASE status = "none"
        <4>1. Id(b) = Inf /\ Id(obj) = Inf /\ obj.vid = None
          BY <2>2, <3>3 DEF FreshVersion, Id
        <4>2. QED
          BY <1>1, <3>2, <4>1 DEF Knows, Inf
      <3>4. CASE status # "none"
        <4>1. Id(b) = clock + 1
          BY <2>2, <3>4 DEF FreshVersion
        <4>2. QED
          BY <1>1, <3>2, <4>1 DEF Knows
      <3>5. QED
        BY <3>3, <3>4
    <2>3. QED
      BY <2>1, <2>2 DEF RecordsKept
  <1>3. QED
    BY <1>1, <1>2 DEF Knows

\* While versioning is enabled it leaves the null version to it.
LEMMA KeepsStill ==
    ASSUME BesideInv, NEW r \in Reqs, RecordsKept(r), status = "Enabled", NEW q \in Reqs,
           KeepsNull(q), ctx'[q].obj = ctx[q].obj, pc'[q] = pc[q],
           ctx[q].obj # None => Knows(ctx[q].obj)
    PROVE  KeepsNull(q)'
  <1> DEFINE obj == ctx[q].obj
  <1>1. EngineOK /\ KeyInv /\ obj \in Rec \cup {None} /\ obj' = obj
    BY BesideTypes
  <1>2. \A b \in Records' : IsNull(b) => \E a \in Records : SameVersion(a, b)
    BY DEF RecordsKept, FreshVersion
  <1>3. \A b \in Records' : IsNull(b) => obj # None /\ Id(b) <= Id(obj)
    BY <1>2 DEF SameVersion, KeepsNull
  <1>4. ASSUME IsNull(obj) PROVE obj \in Records' \/ CopyOf(obj) \in Records'
    <2>1. obj \in Rec /\ (obj.vid = None => ~obj.null)
      BY <1>1, <1>4 DEF IsNull, Knows
    <2>2. IsNull(CopyOf(obj)) /\ CopyOf(obj).vid # None
      BY <1>4, <2>1, CopyIs
    <2>3. CopyOf(obj) \in Records => CopyOf(CopyOf(obj)) = CopyOf(obj)
      BY <1>1, <2>2, NullsAreOne
    <2>4. obj \in Records \/ CopyOf(obj) \in Records
      BY <1>4 DEF KeepsNull
    <2>5. QED
      BY <1>4, <2>2, <2>3, <2>4 DEF RecordsKept
  <1>5. ~IsNull(obj) \/ pc[q] = "putMD" => NullsApart'
    BY DEF KeepsNull, RecordsKept
  <1>6. IsNull(obj') <=> IsNull(obj)
    BY <1>1
  <1>7. QED
    BY <1>1, <1>3, <1>4, <1>5, <1>6 DEF KeepsNull

\* While it is suspended it leaves the null version to it, or takes it away.
LEMMA ReplacesStill ==
    ASSUME BesideInv, NEW r \in Reqs, RecordsKept(r), status = "Suspended", NEW q \in Reqs,
           ReplacesNull(q), ctx'[q] = ctx[q], pc'[q] = pc[q]
    PROVE  ReplacesNull(q)'
  <1>1. MyPlan(q)' = MyPlan(q)
    BY DEF MyPlan
  <1>2. \A v \in Vids : vkeys'[v] \in {vkeys[v], None}
    BY DEF RecordsKept
  <1>3. \A v \in Vids : vkeys'[v] # None /\ IsNull(vkeys'[v]) =>
           pc'[q] \in {"storeData", "getNull", "delNull"} /\ MyPlan(q)'.del = v
    BY <1>1, <1>2 DEF ReplacesNull
  <1>4. \A b \in Records' : b.loc \in ctx'[q].doomed => IsNull(b)
    BY DEF RecordsKept, FreshVersion, SameVersion, ReplacesNull
  <1>5. QED
    BY <1>3, <1>4 DEF ReplacesNull

\* So do all the requests that run beside it.
LEMMA OthersStill ==
    ASSUME BesideInv, NEW r \in Reqs, RecordsKept(r), DataLeft(r), UNCHANGED status,
           NEW q \in Reqs, Running(q), InHand(q), ctx'[q] = ctx[q], pc'[q] = pc[q]
    PROVE  InHand(q)'
  <1> DEFINE obj == ctx[q].obj
             doomed == ctx[q].doomed
  <1>1. /\ obj \in Rec \cup {None} /\ obj' = obj /\ doomed' = doomed
        /\ ctx'[q].kind = ctx[q].kind /\ ctx'[q].status = ctx[q].status
    BY BesideTypes
  <1>2. obj # None => Knows(obj)'
    <2>1. /\ obj # None /\ obj.loc # None => pc[obj.loc] \notin Early
          /\ obj # None => Knows(obj) /\ (status = "none" => obj.vid = None)
      BY DEF BesideInv, ReadWritten, InHand
    <2>2. \A o \in Rec : o = obj => Knows(o)'
      <3> SUFFICES ASSUME NEW o \in Rec, o = obj PROVE Knows(o)'
        OBVIOUS
      <3>1. /\ Knows(o) /\ (o.loc # None => pc[o.loc] \notin Early)
            /\ status = "none" => o.vid = None
        BY <2>1, VidsAre
      <3>2. QED
        BY <3>1, KnowsStill
    <2>3. QED
      BY <1>1, <2>2 DEF Knows
  <1>3. pc[q] \in Writing /\ status = "Enabled" => KeepsNull(q)'
    BY <1>1, KeepsStill DEF InHand
  <1>4. pc[q] \in Writing /\ status = "Suspended" => ReplacesNull(q)'
    BY ReplacesStill DEF InHand
  <1>5. pc[q] \in Writing \ {"storeData"} /\ ctx[q].kind = "put" => q \in data'
    BY DEF InHand, DataLeft, Early
  <1>6. ASSUME pc[q] = "delData", NEW b \in Records' PROVE b.loc \notin doomed
    <2>1. CASE \E a \in Records : SameVersion(a, b)
      BY <1>6, <2>1 DEF SameVersion, InHand
    <2>2. CASE FreshVersion(b, r)
      <3>1. b.loc \in {None, r} /\ pc[r] \in Early
        BY <2>2 DEF FreshVersion, Early, Writing
      <3>2. None \notin doomed /\ \A x \in doomed : pc[x] \notin Early
        BY BesideTypes, VidsAre DEF BesideInv, ReadWritten
      <3>3. QED
        BY <3>1, <3>2
    <2>3. QED
      BY <2>1, <2>2 DEF RecordsKept
  <1>7. QED
    BY <1>1, <1>2, <1>3, <1>4, <1>5, <1>6 DEF InHand

\* What the write of a PUT leaves: its version has its key, or what it overwrote
\* is gone.
WriteShows(r) ==
    pc[r] = "putMD" /\ ctx[r].kind = "put" =>
        /\ status = "Enabled" =>
               \E v \in Vids : vkeys'[v] # None /\ ~vkeys'[v].null /\ vkeys'[v].loc = r
        /\ status # "Enabled" /\ IsNull(ctx[r].obj) =>
               \A a \in Records' : a.loc = None \/ a.loc # ctx[r].obj.loc

\* What each call of a running request keeps.
BesideKept(r) ==
    RecordsKept(r) /\ DataLeft(r) /\ WriteShows(r) /\ (Running(r)' => InHand(r)')

\* What a step finds, and what it leaves of requests.
LEMMA StepFinds ==
    ASSUME BesideInv, NEW r \in Reqs, Step(r)
    PROVE  /\ Advance(r) /\ UNCHANGED status /\ Running(r) /\ InHand(r)
           /\ ctx'[r].obj = ctx[r].obj /\ ctx[r].status = status
           /\ pc[r] \notin {"findNull", "editMD", "idle"} /\ pc'[r] # "idle"
           /\ \A x \in Reqs : pc[x] \notin Early => pc'[x] \notin Early
           /\ pc'[r] \in Writing \/ pc'[r] \notin Early
           /\ \A x \in ctx[r].doomed : pc[x] \notin Early
           /\ ctx[r].obj # None => Knows(ctx[r].obj)
           /\ pc[r] \in Writing => \/ ctx[r].kind = "put"
                                   \/ ctx[r].kind = "delete" /\ status # "none"
           /\ MyPlan(r)' = MyPlan(r)
  <1>1. TypeInv /\ RightContext /\ MyPlan(r) \in Plans
        /\ ctx[r].obj \in Rec \cup {None} /\ ctx[r].status \in {"none", "Enabled", "Suspended"}
    BY BesideTypes
  <1>2. Advance(r) /\ UNCHANGED status
    BY <1>1, StepAdvances DEF Advance
  <1>3. Running(r)
    BY <1>1, <1>2, StepGoes DEF Running, Done
  <1>4. /\ InHand(r) /\ ctx[r].status = status /\ pc[r] \notin {"findNull", "editMD"}
        /\ ctx[r].obj # None => Knows(ctx[r].obj)
    BY <1>3 DEF BesideInv, InHand
  <1>5. FirstCall(MyPlan(r)) \in Writing
    BY <1>1, PlanType DEF MyPlan
  <1>6. /\ pc'[r] \in Writing \/ pc'[r] \notin Early
        /\ pc[r] \in Early \/ pc'[r] \notin Early
        /\ pc'[r] # "idle"
    BY <1>1, <1>5, StepGoes DEF Early, Writing, Done
  <1>7. \A x \in Reqs : pc[x] \notin Early => pc'[x] \notin Early
    BY <1>2, <1>6 DEF Advance, Beside
  <1>8. ctx'[r].obj = ctx[r].obj /\ MyPlan(r)' = MyPlan(r)
    BY <1>2, <1>4 DEF Advance, MyPlan
  <1>9. QED
    BY <1>1, <1>2, <1>3, <1>4, <1>6, <1>7, <1>8
       DEF BesideInv, ReadWritten, RightContext, Running, Done

\* A call that keeps what each has to keep keeps the invariant.
LEMMA KeptBeside ==
    ASSUME BesideInv, NEW r \in Reqs, Step(r), BesideKept(r), TypeInv'
    PROVE  BesideInv'
  <1>1. /\ Advance(r) /\ UNCHANGED status /\ ctx'[r].obj = ctx[r].obj
        /\ pc'[r] # "idle"
        /\ \A x \in Reqs : pc[x] \notin Early => pc'[x] \notin Early
        /\ RecordsKept(r) /\ DataLeft(r) /\ (Running(r)' => InHand(r)')
    BY StepFinds DEF BesideKept
  <1>2. LocWritten'
    <2> SUFFICES ASSUME NEW b \in Records', b.loc # None
                 PROVE  b.loc \in Reqs /\ pc'[b.loc] \notin Early
      BY DEF LocWritten
    <2>1. CASE \E a \in Records : SameVersion(a, b)
      BY <1>1, <2>1 DEF SameVersion, BesideInv, LocWritten
    <2>2. CASE FreshVersion(b, r)
      <3>1. b.loc = r /\ pc[r] = "putMD"
        BY <2>2 DEF FreshVersion
      <3>2. pc'[r] \notin Early
        BY <3>1, StepGoes, BesideTypes DEF Early, Writing, Done
      <3>3. QED
        BY <3>1, <3>2
    <2>3. QED
      BY <1>1, <2>1, <2>2 DEF RecordsKept
  <1>3. ReadWritten'
    <2> SUFFICES ASSUME NEW q \in Reqs
                 PROVE  /\ ctx'[q].obj # None /\ ctx'[q].obj.loc # None =>
                               pc'[ctx'[q].obj.loc] \notin Early
                        /\ \A x \in ctx'[q].doomed : pc'[x] \notin Early
      BY DEF ReadWritten
    <2>1. ctx'[q].obj = ctx[q].obj /\ (q # r => ctx'[q] = ctx[q])
      BY <1>1 DEF Advance, Beside
    <2>2. /\ ctx[q].obj # None /\ ctx[q].obj.loc # None => pc[ctx[q].obj.loc] \notin Early
          /\ \A x \in ctx'[q].doomed : pc[x] \notin Early
      BY <1>1, <2>1 DEF BesideInv, ReadWritten, DataLeft
    <2>3. ctx[q].obj # None /\ ctx[q].obj.loc # None => ctx[q].obj.loc \in Reqs
      BY BesideTypes DEF Rec
    <2>4. ctx'[q].doomed \subseteq Reqs
      BY <1>1 DEF Advance, Beside, Context
    <2>5. QED
      BY <1>1, <2>1, <2>2, <2>3, <2>4
  <1>4. ASSUME NEW q \in Reqs
        PROVE  /\ pc'[q] = "idle" => ctx'[q].kind = None
               /\ Running(q)' => InHand(q)'
    <2>1. CASE q = r
      BY <1>1, <2>1
    <2>2. CASE q # r
      <3>1. ctx'[q] = ctx[q] /\ pc'[q] = pc[q]
        BY <1>1, <2>2 DEF Advance, Beside
      <3>2. Running(q)' => Running(q)
        BY <3>1 DEF Running
      <3>3. Running(q) => InHand(q)'
        BY <1>1, <3>1, OthersStill DEF BesideInv
      <3>4. QED
        BY <3>1, <3>2, <3>3 DEF BesideInv
    <2>3. QED
      BY <2>1, <2>2
  <1>5. QED
    BY <1>1, <1>2, <1>3, <1>4 DEF BesideInv, RecordsKept, DataLeft

\* Versions acknowledged keep their keys.
LEMMA KeptAcked ==
    ASSUME BesideInv, AckedKept, NEW r \in Reqs, Step(r), BesideKept(r)
    PROVE  AckedKept'
  <1>1. /\ Advance(r) /\ ctx'[r].obj = ctx[r].obj /\ InHand(r) /\ ctx[r].status = status
        /\ RecordsKept(r) /\ WriteShows(r) /\ pc[r] \notin {"findNull", "editMD"}
        /\ TypeInv
    BY StepFinds, BesideTypes DEF BesideKept
  <1>2. \A q \in Reqs : /\ ctx'[q].kind = ctx[q].kind /\ ctx'[q].obj = ctx[q].obj
                        /\ ctx'[q].status = ctx[q].status
                        /\ q # r => pc'[q] = pc[q]
    BY <1>1 DEF Advance, Beside
  <1> SUFFICES ASSUME NEW q \in Reqs, ctx[q].kind = "put", ctx[q].status = "Enabled",
                      pc'[q] \in {"delData", "ok"}
               PROVE  \/ \E v \in Vids : /\ vkeys'[v] # None /\ ~vkeys'[v].null
                                         /\ vkeys'[v].loc = q
                      \/ \E p \in Reqs : ctx[p].kind = "deleteVersion" /\ ctx[p].obj.loc = q
    BY <1>2 DEF AckedKept
  <1>3. CASE pc[q] \in {"delData", "ok"}
    <2>1. \/ \E v \in Vids : vkeys[v] # None /\ ~vkeys[v].null /\ vkeys[v].loc = q
          \/ \E p \in Reqs : ctx[p].kind = "deleteVersion" /\ ctx[p].obj.loc = q
      BY <1>3 DEF AckedKept
    <2>2. QED
      BY <1>1, <2>1 DEF RecordsKept
  <1>4. CASE pc[q] \notin {"delData", "ok"}
    <2>1. q = r
      BY <1>2, <1>4
    <2>2. pc[r] \in {"putMD", "delMD"}
      BY <1>1, <1>4, <2>1, StepGoes, PlanType, BesideTypes DEF Writing, Done, MyPlan
    <2>3. pc[r] # "delMD"
      BY <1>1, <2>1 DEF InHand
    <2>4. QED
      BY <1>1, <2>1, <2>2, <2>3 DEF WriteShows
  <1>5. QED
    BY <1>3, <1>4

\* What was overwritten stays gone.
LEMMA KeptGone ==
    ASSUME BesideInv, OverwrittenGone, NEW r \in Reqs, Step(r), BesideKept(r)
    PROVE  OverwrittenGone'
  <1>1. /\ Advance(r) /\ ctx'[r].obj = ctx[r].obj /\ InHand(r) /\ ctx[r].status = status
        /\ RecordsKept(r) /\ WriteShows(r) /\ pc[r] \notin {"findNull", "editMD"}
        /\ TypeInv
    BY StepFinds, BesideTypes DEF BesideKept
  <1>2. \A q \in Reqs : /\ ctx'[q].kind = ctx[q].kind /\ ctx'[q].obj = ctx[q].obj
                        /\ ctx'[q].status = ctx[q].status
                        /\ q # r => pc'[q] = pc[q]
    BY <1>1 DEF Advance, Beside
  <1> SUFFICES ASSUME NEW q \in Reqs, ctx[q].kind = "put", ctx[q].status # "Enabled",
                      pc'[q] \in {"delData", "ok"}, IsNull(ctx[q].obj),
                      NEW b \in Records', b.loc # None
               PROVE  b.loc # ctx[q].obj.loc
    BY <1>2 DEF OverwrittenGone, IsNull
  <1>3. CASE pc[q] \in {"delData", "ok"}
    <2>1. CASE \E a \in Records : SameVersion(a, b)
      BY <1>3, <2>1 DEF OverwrittenGone, SameVersion
    <2>2. CASE FreshVersion(b, r)
      <3>1. b.loc = r /\ pc[r] \in Early
        BY <2>2 DEF FreshVersion, Early, Writing
      <3>2. ctx[q].obj # None /\ (ctx[q].obj.loc # None => pc[ctx[q].obj.loc] \notin Early)
        BY DEF BesideInv, ReadWritten, IsNull
      <3>3. QED
        BY <3>1, <3>2
    <2>3. QED
      BY <1>1, <2>1, <2>2 DEF RecordsKept
  <1>4. CASE pc[q] \notin {"delData", "ok"}
    <2>1. q = r
      BY <1>2, <1>4
    <2>2. pc[r] \in {"putMD", "delMD"}
      BY <1>1, <1>4, <2>1, StepGoes, PlanType, BesideTypes DEF Writing, Done, MyPlan
    <2>3. pc[r] # "delMD"
      BY <1>1, <2>1 DEF InHand
    <2>4. QED
      BY <1>1, <2>1, <2>2, <2>3 DEF WriteShows
  <1>5. QED
    BY <1>3, <1>4

\* The first call of a write says what the plan is.
LEMMA FirstCallIs ==
    ASSUME NEW stat \in {"none", "Enabled", "Suspended"}, NEW obj \in Rec \cup {None},
           obj # None /\ obj.vid = None => ~obj.null
    PROVE  LET plan == PlanOf(stat, obj)
               call == FirstCall(plan)
           IN  /\ call \in Writing \ {"storeData"}
               /\ call = "storeNull" => /\ stat = "Enabled" /\ IsNull(obj)
                                        /\ plan.store = NullVersionId(obj)
               /\ call \in {"getNull", "delNull"} =>
                      /\ stat = "Suspended" /\ obj # None /\ plan.del \in Vids
                      /\ plan.del = IF IsNull(obj) THEN obj.vid ELSE obj.nullVid
               /\ call = "getNull" => ~IsNull(obj)
               /\ stat = "Enabled" /\ call = "putMD" => ~IsNull(obj)
               /\ stat = "Suspended" /\ plan.del # None => call \in {"getNull", "delNull"}
               /\ stat = "none" => call = "putMD"
  <1>1. FirstCall(PlanOf(stat, obj)) \in Writing \ {"storeData"}
    BY PlanType
  <1>2. obj # None => obj.null \in BOOLEAN /\ obj.vid \in Vids \cup {None}
                      /\ obj.nullVid \in Vids \cup {None}
    BY DEF Rec
  <1>3. CASE stat = "none"
    BY <1>1, <1>3 DEF PlanOf, Plan, FirstCall
  <1>4. CASE stat = "Enabled"
    <2>1. CASE IsNull(obj)
      <3>1. NullVersionId(obj) # None /\ obj # None
        BY <1>2, <2>1, VidsAre DEF IsNull, NullVersionId
      <3>2. PlanOf(stat, obj) = Plan(NullVersionId(obj), None, FALSE, {}, NullVersionId(obj))
        BY <1>4, <2>1, <3>1 DEF PlanOf, EnabledPlan
      <3>3. FirstCall(PlanOf(stat, obj)) = "storeNull"
        BY <3>1, <3>2 DEF Plan, FirstCall
      <3>4. QED
        BY <1>1, <1>4, <2>1, <3>2, <3>3 DEF Plan
    <2>2. CASE ~IsNull(obj)
      <3>1. PlanOf(stat, obj).store = None /\ PlanOf(stat, obj).del = None
        BY <1>4, <2>2 DEF PlanOf, Plan, EnabledPlan, IsNull
      <3>2. FirstCall(PlanOf(stat, obj)) = "putMD"
        BY <3>1 DEF FirstCall
      <3>3. QED
        BY <1>1, <1>4, <2>2, <3>2
    <2>3. QED
      BY <2>1, <2>2
  <1>5. CASE stat = "Suspended"
    <2>1. CASE obj = None
      BY <1>1, <1>5, <2>1 DEF PlanOf, Plan, FirstCall, SuspendedPlan, IsNull
    <2>2. CASE IsNull(obj)
      <3>1. PlanOf(stat, obj) = Plan(None, IF obj.null THEN obj.vid ELSE None, FALSE,
                                     LocationOf(obj), None)
        BY <1>5, <2>2 DEF PlanOf, SuspendedPlan, IsNull
      <3>2. obj # None /\ (obj.null => obj.vid \in Vids /\ obj.vid # None)
        BY <1>2, <2>2, VidsAre DEF IsNull
      <3>3. CASE obj.null
        BY <1>1, <1>5, <2>2, <3>1, <3>2, <3>3 DEF Plan, FirstCall
      <3>4. CASE ~obj.null
        BY <1>1, <1>5, <2>2, <3>1, <3>2, <3>4 DEF Plan, FirstCall
      <3>5. QED
        BY <3>3, <3>4
    <2>3. CASE obj # None /\ ~IsNull(obj)
      <3>1. PlanOf(stat, obj) = Plan(None, obj.nullVid, TRUE, {}, None)
        BY <1>5, <2>3 DEF PlanOf, SuspendedPlan
      <3>2. QED
        BY <1>1, <1>2, <1>5, <2>3, <3>1, VidsAre DEF Plan, FirstCall
    <2>4. QED
      BY <2>1, <2>2, <2>3 DEF IsNull
  <1>6. QED
    BY <1>3, <1>4, <1>5

\* Calls that do not reach the engine leave the records as they are.
LEMMA RestsBeside ==
    ASSUME BesideInv, NEW r \in Reqs, UNCHANGED <<status, engine>>
    PROVE  /\ RecordsKept(r) /\ Records' = Records /\ UNCHANGED <<master, vkeys, clock>>
           /\ NullsApart <=> NullsApart'
           /\ \A obj \in Rec : Knows(obj) <=> Knows(obj)'
  <1>1. UNCHANGED <<master, vkeys, clock>>
    BY DEF engine
  <1>2. Records' = Records
    BY <1>1 DEF Records
  <1>3. KeyInv' /\ MasterAlone' /\ NoVersionsYet'
    BY <1>1, <1>2
       DEF BesideInv, KeyInv, Filed, OldForm, Newest, NullRefs, OneLoc,
           MasterAlone, NoVersionsYet
  <1>4. \A b \in Records' : \E a \in Records : SameVersion(a, b)
    BY <1>2 DEF SameVersion
  <1>5. NullsApart <=> NullsApart'
    BY <1>1, <1>2 DEF NullsApart
  <1>6. \A obj \in Rec : Knows(obj) <=> Knows(obj)'
    BY <1>1, <1>2 DEF Knows
  <1>7. QED
    BY <1>1, <1>2, <1>3, <1>4, <1>5, <1>6 DEF RecordsKept

\* What a request has read stays true while it steps itself.
LEMMA OwnStill ==
    ASSUME BesideInv, NEW r \in Reqs, Step(r), RecordsKept(r)
    PROVE  /\ ctx[r].obj # None => Knows(ctx[r].obj)'
           /\ ctx'[r].status = status'
           /\ ctx'[r].obj # None /\ status' = "none" => ctx'[r].obj.vid = None
           /\ pc'[r] \notin {"findNull", "editMD"}
  <1>1. /\ Advance(r) /\ UNCHANGED status /\ ctx'[r].obj = ctx[r].obj /\ InHand(r)
        /\ ctx[r].status = status
        /\ ctx[r].obj \in Rec \cup {None}
        /\ pc'[r] \in Writing \/ pc'[r] \notin Early
    BY StepFinds, BesideTypes
  <1>2. /\ ctx[r].obj # None /\ ctx[r].obj.loc # None => pc[ctx[r].obj.loc] \notin Early
        /\ ctx[r].obj # None =>
               Knows(ctx[r].obj) /\ (status = "none" => ctx[r].obj.vid = None)
    BY <1>1 DEF BesideInv, ReadWritten, InHand
  <1>3. \A o \in Rec : o = ctx[r].obj => Knows(o)'
    <2> SUFFICES ASSUME NEW o \in Rec, o = ctx[r].obj PROVE Knows(o)'
      OBVIOUS
    <2>1. /\ Knows(o) /\ (o.loc # None => pc[o.loc] \notin Early)
          /\ status = "none" => o.vid = None
      BY <1>2, VidsAre
    <2>2. QED
      BY <2>1, KnowsStill
  <1>4. ctx[r].obj # None => Knows(ctx[r].obj)'
    BY <1>1, <1>3 DEF Knows
  <1>5. pc'[r] \notin {"findNull", "editMD"}
    BY <1>1, StepGoes, PlanType, BesideTypes DEF Writing, Done, MyPlan
  <1>6. QED
    BY <1>1, <1>2, <1>4, <1>5 DEF Advance

\* A PUT stores its data, and has it when it writes.
LEMMA StoreDataBeside ==
    ASSUME BesideInv, NEW r \in Reqs, StoreData(r)
    PROVE  BesideKept(r)
  <1> DEFINE obj == ctx[r].obj
  <1>1. /\ Step(r) /\ pc[r] = "storeData" /\ pc'[r] = FirstCall(MyPlan(r))
        /\ data' = data \cup {r} /\ UNCHANGED <<status, engine, ctx>>
    BY BesideTypes DEF Step, StoreData, Go
  <1>2. /\ RecordsKept(r) /\ Records' = Records /\ vkeys' = vkeys
        /\ NullsApart <=> NullsApart'
    BY <1>1, RestsBeside
  <1>3. DataLeft(r)
    BY <1>1, <1>2, StepFinds DEF DataLeft, NoDangling, BesideInv
  <1>4. WriteShows(r)
    BY <1>1 DEF WriteShows
  <1>5. /\ InHand(r) /\ ctx[r].status = status /\ MyPlan(r)' = MyPlan(r)
        /\ MyPlan(r) = PlanOf(status, obj) /\ status \in {"none", "Enabled", "Suspended"}
        /\ obj \in Rec \cup {None} /\ (obj # None /\ obj.vid = None => ~obj.null)
    BY <1>1, StepFinds, BesideTypes DEF Knows, MyPlan
  <1>6. /\ pc'[r] \in Writing \ {"storeData"}
        /\ pc'[r] = "storeNull" => status = "Enabled"
        /\ pc'[r] \in {"getNull", "delNull"} => status = "Suspended" /\ obj # None
        /\ pc'[r] = "getNull" => ~IsNull(obj)
        /\ status = "Enabled" /\ pc'[r] = "putMD" => ~IsNull(obj)
        /\ status = "Suspended" /\ MyPlan(r).del # None => pc'[r] \in {"getNull", "delNull"}
    BY <1>1, <1>5, FirstCallIs
  <1>7. status = "Enabled" => KeepsNull(r)'
    <2>1. status = "Enabled" => KeepsNull(r)
      BY <1>1, <1>5 DEF InHand, Writing
    <2>2. obj' = obj /\ (IsNull(obj') <=> IsNull(obj))
      BY <1>1
    <2>3. QED
      BY <1>1, <1>2, <1>6, <2>1, <2>2 DEF KeepsNull
  <1>8. status = "Suspended" => ReplacesNull(r)'
    <2>1. status = "Suspended" => ReplacesNull(r)
      BY <1>1, <1>5 DEF InHand, Writing
    <2>2. \A v \in Vids : v # None
      BY VidsAre
    <2>3. QED
      BY <1>1, <1>2, <1>5, <1>6, <2>1, <2>2 DEF ReplacesNull
  <1>9. status # "Suspended" => ctx[r].doomed = {}
    BY <1>1, <1>5 DEF InHand, Writing
  <1>10. InHand(r)'
    BY <1>1, <1>2, <1>5, <1>6, <1>7, <1>8, <1>9, OwnStill DEF InHand, Writing, IsNull
  <1>11. QED
    BY <1>2, <1>3, <1>4, <1>10 DEF BesideKept

\* The data of the null version is doomed with it.
LEMMA GetNullBeside ==
    ASSUME BesideInv, NEW r \in Reqs, GetNull(r)
    PROVE  BesideKept(r)
  <1> DEFINE obj == ctx[r].obj
             at == MyPlan(r).del
             nullMD == GetVersion(at)
  <1>1. /\ Step(r) /\ pc[r] = "getNull"
        /\ pc'[r] = IF nullMD = None THEN "putMD" ELSE "delNull"
        /\ ctx' = [ctx EXCEPT ![r].doomed = LocationOf(nullMD)]
        /\ UNCHANGED <<status, engine, data>>
    BY BesideTypes DEF Step, GetNull, Go
  <1>2. /\ RecordsKept(r) /\ Records' = Records /\ UNCHANGED <<master, vkeys>>
    BY <1>1, RestsBeside
  <1>3. WriteShows(r)
    BY <1>1 DEF WriteShows
  <1>4. /\ InHand(r) /\ ctx[r].status = status /\ MyPlan(r)' = MyPlan(r) /\ Advance(r)
        /\ MyPlan(r) = PlanOf(status, obj) /\ status = "Suspended" /\ ReplacesNull(r)
        /\ obj \in Rec /\ ~IsNull(obj) /\ Knows(obj) /\ obj' = obj
        /\ EngineOK /\ KeyInv
    BY <1>1, StepFinds, BesideTypes DEF MyPlan, InHand, Writing
  <1>5. at = obj.nullVid /\ at \in Vids /\ at # None
    BY <1>1, <1>4, BesideTypes, VidsAre
       DEF PlanOf, SuspendedPlan, Plan, RightContext, Plans, IsNull
  <1>6. nullMD # None => nullMD \in Records /\ Id(nullMD) = at /\ IsNull(nullMD)
    <2>1. nullMD # None => nullMD \in Records /\ Id(nullMD) = at
      BY <1>4, <1>5, RecordsAre, VidsAre DEF GetVersion, KeyInv, Filed, Id
    <2>2. QED
      BY <1>4, <1>5, <2>1 DEF Knows
  <1>7. nullMD = None => vkeys[at] = None
    BY DEF GetVersion
  <1>8. ctx'[r].doomed = LocationOf(nullMD) /\ ctx'[r].kind = ctx[r].kind
    BY <1>1, BesideTypes DEF Context
  <1>9. \A x \in LocationOf(nullMD) :
           /\ x # None /\ nullMD # None /\ x = nullMD.loc /\ pc[x] \notin Early
    BY <1>6 DEF LocationOf, BesideInv, LocWritten
  <1>10. DataLeft(r)
    BY <1>1, <1>2, <1>8, <1>9 DEF DataLeft, NoDangling, BesideInv
  <1>11. \A a \in Records : a.loc \in LocationOf(nullMD) => IsNull(a)
    BY <1>4, <1>6, <1>9, OneSeen DEF KeyInv, OneLoc
  <1> HIDE DEF nullMD, at
  <1>12. ReplacesNull(r)'
    <2>1. \A v \in Vids : vkeys'[v] # None /\ IsNull(vkeys'[v]) =>
             pc'[r] = "delNull" /\ MyPlan(r)'.del = v
      <3>1. \A v \in Vids : vkeys[v] # None /\ IsNull(vkeys[v]) => at = v
        BY <1>4 DEF ReplacesNull, at
      <3>2. QED
        BY <1>1, <1>2, <1>4, <1>7, <3>1 DEF at
    <2>2. \A a \in Records' : a.loc \in ctx'[r].doomed => IsNull(a)
      BY <1>2, <1>8, <1>11
    <2>3. QED
      BY <2>1, <2>2 DEF ReplacesNull
  <1>13. pc'[r] \in {"putMD", "delNull"}
    BY <1>1
  <1>14. ctx[r].kind = "put" => r \in data'
    BY <1>1, <1>4 DEF InHand, Writing
  <1>15. InHand(r)'
    BY <1>1, <1>4, <1>8, <1>12, <1>13, <1>14, <1>2, OwnStill, VidsAre DEF InHand, Writing
  <1>16. QED
    BY <1>2, <1>3, <1>10, <1>15 DEF BesideKept

\* What is deleted in the end no version names.
LEMMA DelDataBeside ==
    ASSUME BesideInv, NEW r \in Reqs, DelData(r)
    PROVE  BesideKept(r)
  <1>1. /\ Step(r) /\ pc[r] = "delData" /\ pc'[r] = "ok"
        /\ data' = data \ ctx[r].doomed /\ UNCHANGED <<status, engine, ctx>>
    BY BesideTypes DEF Step, DelData, Go
  <1>2. RecordsKept(r) /\ Records' = Records
    BY <1>1, RestsBeside
  <1>3. /\ \A a \in Records : a.loc \notin ctx[r].doomed
        /\ \A x \in ctx[r].doomed : pc[x] \notin Early
    BY <1>1, StepFinds DEF InHand
  <1>4. DataLeft(r)
    BY <1>1, <1>2, <1>3 DEF DataLeft, NoDangling, BesideInv
  <1>5. WriteShows(r) /\ ~Running(r)'
    BY <1>1 DEF WriteShows, Running, Done
  <1>6. QED
    BY <1>2, <1>4, <1>5 DEF BesideKept

\* A request that has written, or removed a version, has only data to delete.
LEMMA WroteBeside ==
    ASSUME BesideInv, NEW r \in Reqs, Step(r), RecordsKept(r),
           pc'[r] \in {"delData"} \cup Done,
           \A a \in Records' : a.loc \notin ctx'[r].doomed
    PROVE  InHand(r)'
  <1>1. /\ ctx[r].obj # None => Knows(ctx[r].obj)'
        /\ ctx'[r].status = status' /\ ctx'[r].obj = ctx[r].obj
        /\ ctx'[r].obj # None /\ status' = "none" => ctx'[r].obj.vid = None
    BY OwnStill, StepFinds
  <1>2. pc'[r] \notin Writing \cup {"delMD", "findNull", "editMD"}
    BY DEF Writing, Done
  <1>3. (ctx[r].obj # None => Knows(ctx[r].obj))'
    BY <1>1
  <1>4. QED
    BY <1>1, <1>2, <1>3 DEF InHand, Writing

\* The null version that is stored apart is the one that there is.
LEMMA StoreNullBeside ==
    ASSUME Interleaved, BesideInv, NEW r \in Reqs, StoreNull(r)
    PROVE  BesideKept(r)
  <1> DEFINE obj == ctx[r].obj
             copy == CopyOf(obj)
             at == NullVersionId(obj)
  <1>1. /\ Step(r) /\ pc[r] = "storeNull" /\ pc'[r] = "putMD"
        /\ UNCHANGED <<status, data, ctx>>
    BY BesideTypes DEF Step, StoreNull, Go
  <1>2. /\ InHand(r) /\ ctx[r].status = status /\ MyPlan(r)' = MyPlan(r)
        /\ MyPlan(r) = PlanOf(status, obj) /\ status = "Enabled"
        /\ KeepsNull(r) /\ EngineOK /\ KeyInv /\ MasterAlone
        /\ obj \in Rec \cup {None} /\ obj # None /\ MyPlan(r).store # None
        /\ Knows(obj)
    BY <1>1, StepFinds, BesideTypes
       DEF MyPlan, InHand, Writing, BesideInv, RightContext
  <1>3. IsNull(obj) /\ MyPlan(r).store = at /\ obj \in Rec /\ (obj.vid = None => ~obj.null)
    BY <1>2 DEF PlanOf, EnabledPlan, Plan, Knows
  <1>4. PutVersion(at, copy) /\ (obj \in Records \/ copy \in Records)
    BY <1>2, <1>3 DEF StoreNull, CopyOf, KeepsNull
  <1>5. /\ KeyInv' /\ MasterAlone' /\ NullsApart' /\ clock' = clock
        /\ copy \in Records'
        /\ \A b \in Records' : b = copy \/ b \in Records
        /\ \A v \in Vids : vkeys'[v] = IF v = at THEN copy ELSE vkeys[v]
        /\ \A v \in Vids : v = at /\ vkeys[v] # None => IsNull(vkeys[v])
    BY <1>2, <1>3, <1>4, StoreBeside DEF Interleaved
  <1>6. /\ IsNull(copy) /\ Id(copy) = Id(obj) /\ SameVersion(obj, copy)
        /\ SameVersion(copy, copy)
        /\ copy.vid # None
    BY <1>3, CopyIs DEF SameVersion
  <1> HIDE DEF copy, at
  <1>7. PICK x \in Records : x \in {obj, copy}
    BY <1>4
  <1>8. \A b \in Records' : \E a \in Records : SameVersion(a, b)
    BY <1>5, <1>6, <1>7 DEF SameVersion
  <1>9. \A a \in Records : IsNull(a) => CopyOf(a) = copy
    <2>1. CopyOf(x) = copy
      <3>1. CASE x = obj
        BY <3>1 DEF copy
      <3>2. CASE x = copy
        BY <1>2, <1>6, <1>7, <3>2, NullsAreOne
      <3>3. QED
        BY <1>7, <3>1, <3>2
    <2>2. IsNull(x)
      BY <1>3, <1>6, <1>7
    <2>3. QED
      BY <1>2, <2>1, <2>2, NullsAreOne
  <1>10. \A v \in Vids : vkeys[v] # None /\ ~vkeys[v].null => vkeys'[v] = vkeys[v]
    <2>1. \A v \in Vids : vkeys[v] # None => vkeys[v].vid # None
      BY <1>2, VidsAre DEF KeyInv, Filed
    <2>2. QED
      BY <1>5, <2>1 DEF IsNull
  <1>11. NoVersionsYet'
    BY <1>1, <1>2 DEF NoVersionsYet
  <1>12. RecordsKept(r)
    BY <1>2, <1>5, <1>8, <1>9, <1>10, <1>11 DEF RecordsKept
  <1>13. DataLeft(r)
    BY <1>1, <1>8, StepFinds DEF DataLeft, NoDangling, BesideInv, SameVersion
  <1>14. WriteShows(r)
    BY <1>1 DEF WriteShows
  <1>15. KeepsNull(r)'
    <2>1. \A b \in Records' : IsNull(b) => Id(b) <= Id(obj)
      BY <1>2, <1>8 DEF KeepsNull, SameVersion
    <2>2. obj' = obj /\ CopyOf(obj') = copy
      BY <1>1 DEF copy
    <2>3. QED
      BY <1>2, <1>5, <2>1, <2>2 DEF KeepsNull, copy
  <1>16. ctx[r].doomed = {} /\ (ctx[r].kind = "put" => r \in data)
    BY <1>1, <1>2 DEF InHand, Writing
  <1>17. InHand(r)'
    BY <1>1, <1>2, <1>12, <1>15, <1>16, OwnStill DEF InHand, Writing
  <1>18. QED
    BY <1>12, <1>13, <1>14, <1>17 DEF BesideKept

\* The null version that is deleted is the one that there is, if it is there.
LEMMA DelNullBeside ==
    ASSUME BesideInv, NEW r \in Reqs, DelNull(r)
    PROVE  BesideKept(r)
  <1> DEFINE obj == ctx[r].obj
             at == MyPlan(r).del
  <1>1. /\ Step(r) /\ pc[r] = "delNull" /\ pc'[r] = "putMD" /\ DeleteVersion(at)
        /\ UNCHANGED <<status, data, ctx>>
    BY BesideTypes DEF Step, DelNull, Go
  <1>2. /\ InHand(r) /\ ctx[r].status = status /\ MyPlan(r)' = MyPlan(r)
        /\ MyPlan(r) = PlanOf(status, obj) /\ status = "Suspended" /\ ReplacesNull(r)
        /\ obj \in Rec /\ Knows(obj) /\ at \in Vids /\ at # None
        /\ EngineOK /\ KeyInv /\ MasterAlone
    BY <1>1, StepFinds, BesideTypes, VidsAre
       DEF MyPlan, InHand, Writing, RightContext, Plans, BesideInv
  <1>3. /\ IsNull(obj) => obj.null /\ at = obj.vid
        /\ ~IsNull(obj) => at = obj.nullVid
    BY <1>2 DEF PlanOf, SuspendedPlan, Plan, IsNull
  <1>4. /\ KeyInv' /\ MasterAlone' /\ Records' = {a \in Records : a.vid # at}
        /\ \A w \in Vids : vkeys'[w] = IF w = at THEN None ELSE vkeys[w]
        /\ clock' = clock
    BY <1>1, <1>2, DeleteAlone
  <1>5. vkeys[at] # None => vkeys[at].null
    <2>1. ASSUME vkeys[at] # None PROVE vkeys[at].null
      <3>1. vkeys[at] \in Records /\ Id(vkeys[at]) = at /\ vkeys[at].vid # None
        BY <1>2, <2>1, RecordsAre, VidsAre DEF KeyInv, Filed, Id
      <3>2. CASE IsNull(obj)
        <4>1. Id(obj) = at /\ obj.vid # None /\ obj.null
          BY <1>2, <1>3, <3>2 DEF Id
        <4>2. Seen(vkeys[at]) = Seen(obj)
          BY <1>2, <3>1, <4>1 DEF Knows
        <4>3. Seen(vkeys[at]).null = Seen(obj).null
          BY <4>2
        <4>4. QED
          BY <3>1, <4>1, <4>3 DEF Seen
      <3>3. CASE ~IsNull(obj)
        <4>1. IsNull(vkeys[at])
          BY <1>2, <1>3, <3>1, <3>3 DEF Knows
        <4>2. QED
          BY <3>1, <4>1 DEF IsNull
      <3>4. QED
        BY <3>2, <3>3
    <2>2. QED
      BY <2>1
  <1> HIDE DEF at
  <1>6. \A b \in Records' : b \in Records /\ SameVersion(b, b)
    BY <1>4 DEF SameVersion
  <1>7. NoVersionsYet'
    BY <1>1, <1>2 DEF NoVersionsYet
  <1>8. RecordsKept(r)
    BY <1>2, <1>4, <1>5, <1>6, <1>7 DEF RecordsKept
  <1>9. DataLeft(r)
    BY <1>1, <1>6, StepFinds DEF DataLeft, NoDangling, BesideInv
  <1>10. WriteShows(r)
    BY <1>1 DEF WriteShows
  <1>11. ReplacesNull(r)'
    <2>1. \A v \in Vids : ~(vkeys'[v] # None /\ IsNull(vkeys'[v]))
      BY <1>2, <1>4 DEF ReplacesNull, at
    <2>2. \A a \in Records' : a.loc \in ctx'[r].doomed => IsNull(a)
      BY <1>1, <1>2, <1>6 DEF ReplacesNull
    <2>3. QED
      BY <2>1, <2>2 DEF ReplacesNull
  <1>12. ctx[r].kind = "put" => r \in data
    BY <1>1, <1>2 DEF InHand, Writing
  <1>13. InHand(r)'
    BY <1>1, <1>2, <1>8, <1>11, <1>12, OwnStill DEF InHand, Writing
  <1>14. QED
    BY <1>8, <1>9, <1>10, <1>13 DEF BesideKept

\* A DELETE takes the version it read, and its data.
LEMMA DelMDBeside ==
    ASSUME BesideInv, NEW r \in Reqs, DelMD(r)
    PROVE  BesideKept(r)
  <1> DEFINE obj == ctx[r].obj
             vid == IF ctx[r].status = "none" THEN None ELSE obj.vid
  <1>1. /\ Step(r) /\ pc[r] = "delMD" /\ pc'[r] \in {"delData"} \cup Done
        /\ IF vid = None THEN DeleteMaster ELSE DeleteVersion(vid)
        /\ ctx' = [ctx EXCEPT ![r].doomed = LocationOf(obj)]
        /\ UNCHANGED <<status, data>>
    BY BesideTypes DEF Step, DelMD, Go, AfterMD, Done
  <1>2. /\ InHand(r) /\ ctx[r].status = status /\ obj \in Rec /\ obj # None /\ Knows(obj)
        /\ EngineOK /\ KeyInv /\ MasterAlone /\ NoVersionsYet /\ NoDangling
        /\ status # "none" => /\ ctx[r].kind = "deleteVersion"
                              /\ obj.vid # None /\ ~obj.null
    BY <1>1, StepFinds, BesideTypes DEF InHand, RightContext, BesideInv
  <1>3. ctx'[r].doomed = LocationOf(obj)
    BY <1>1, BesideTypes DEF Context
  <1>4. \A x \in LocationOf(obj) : x # None /\ x = obj.loc /\ pc[x] \notin Early
    BY <1>2 DEF LocationOf, BesideInv, ReadWritten
  <1>5. WriteShows(r)
    BY <1>1 DEF WriteShows
  <1>6. CASE status = "none"
    <2>1. master' = None /\ UNCHANGED <<vkeys, clock>> /\ \A v \in Vids : vkeys[v] = None
      BY <1>1, <1>2, <1>6 DEF DeleteMaster, NoVersionsYet
    <2>2. KeyInv' /\ Records' = {}
      BY <1>2, <2>1, PutMasterKeeps
    <2>3. MasterAlone' /\ NoVersionsYet'
      BY <2>1 DEF MasterAlone, NoVersionsYet
    <2>4. RecordsKept(r)
      BY <1>6, <2>1, <2>2, <2>3 DEF RecordsKept
    <2>5. DataLeft(r)
      BY <1>1, <1>3, <1>4, <2>2 DEF DataLeft, NoDangling
    <2>6. InHand(r)'
      BY <1>1, <2>2, <2>4, WroteBeside
    <2>7. QED
      BY <1>5, <2>4, <2>5, <2>6 DEF BesideKept
  <1>7. CASE status # "none"
    <2>1. vid \in Vids /\ vid # None /\ vid = obj.vid /\ Id(obj) = vid /\ DeleteVersion(vid)
          /\ ~IsNull(obj)
      BY <1>1, <1>2, <1>7 DEF Rec, Id, IsNull
    <2>2. \A a \in Records : a.vid = vid => Seen(a) = Seen(obj) /\ ~IsNull(a)
      <3> SUFFICES ASSUME NEW a \in Records, a.vid = vid
                   PROVE  Seen(a) = Seen(obj) /\ ~IsNull(a)
        OBVIOUS
      <3>1. Id(a) = Id(obj) /\ a.vid # None
        BY <2>1 DEF Id
      <3>2. Seen(a) = Seen(obj)
        BY <1>2, <2>1, <3>1 DEF Knows
      <3>3. Seen(a).null = Seen(obj).null
        BY <3>2
      <3>4. ~a.null
        BY <1>2, <1>7, <3>1, <3>3 DEF Seen
      <3>5. QED
        BY <3>1, <3>2, <3>4 DEF IsNull
    <2> HIDE DEF vid
    <2>3. /\ KeyInv' /\ MasterAlone' /\ Records' = {a \in Records : a.vid # vid}
          /\ \A w \in Vids : vkeys'[w] = IF w = vid THEN None ELSE vkeys[w]
          /\ clock' = clock
          /\ NullsApart => NullsApart'
      BY <1>2, <2>1, <2>2, DeleteAlone
    <2>4. \A b \in Records' : b \in Records /\ SameVersion(b, b)
      BY <2>3 DEF SameVersion
    <2>5. \A a \in Records : IsNull(a) => a \in Records'
      BY <2>2, <2>3
    <2>6. \A v \in Vids : vkeys[v] # None => vkeys'[v] = vkeys[v] \/ obj.loc = vkeys[v].loc
      <3>1. \A v \in Vids : vkeys[v] # None => vkeys[v] \in Records /\ vkeys[v].vid = v
        BY <1>2, RecordsAre DEF KeyInv, Filed
      <3>2. \A a \in Records : a.vid = vid => a.loc = obj.loc
        BY <2>2 DEF Seen
      <3>3. QED
        BY <2>3, <3>1, <3>2
    <2>7. NoVersionsYet'
      BY <1>1, <1>7 DEF NoVersionsYet
    <2>8. RecordsKept(r)
      BY <1>2, <1>7, <2>3, <2>4, <2>5, <2>6, <2>7 DEF RecordsKept
    <2>9. DataLeft(r)
      BY <1>1, <1>2, <1>3, <1>4, <2>4 DEF DataLeft, NoDangling
    <2>10. \A a \in Records' : a.loc \notin ctx'[r].doomed
      <3> SUFFICES ASSUME NEW a \in Records', a.loc \in LocationOf(obj) PROVE FALSE
        BY <1>3
      <3>1. a \in Records /\ a.vid # vid /\ a.loc = obj.loc /\ obj.loc # None
        BY <1>4, <2>3
      <3>2. Id(a) = vid /\ ~IsNull(a)
        BY <1>2, <2>1, <3>1 DEF Knows
      <3>3. a # None
        BY <3>1 DEF Records
      <3>4. QED
        BY <3>1, <3>2, <3>3 DEF Id, IsNull
    <2>11. InHand(r)'
      BY <1>1, <2>8, <2>10, WroteBeside
    <2>12. QED
      BY <1>5, <2>8, <2>9, <2>11 DEF BesideKept
  <1>8. QED
    BY <1>6, <1>7

\* A write puts its version in its place, whatever was written since it read.
LEMMA PutMDBeside ==
    ASSUME BesideInv, NEW r \in Reqs, PutMD(r)
    PROVE  BesideKept(r)
  <1> DEFINE obj == ctx[r].obj
             plan == MyPlan(r)
             new == NewRec(r)
  <1>1. /\ Step(r) /\ pc[r] = "putMD" /\ pc'[r] \in {"delData"} \cup Done
        /\ UNCHANGED <<status, data>> /\ ctx'[r].doomed = ctx[r].doomed \cup plan.doomed
        /\ \/ /\ ctx[r].status = "none" /\ master' = Written(r)
              /\ UNCHANGED <<vkeys, clock>>
           \/ /\ ctx[r].status = "Suspended" /\ master' = new
              /\ clock' = clock + 1 /\ UNCHANGED vkeys
           \/ /\ ctx[r].status = "Enabled" /\ master' = new
              /\ clock' = clock + 1 /\ vkeys' = [vkeys EXCEPT ![clock + 1] = new]
    BY BesideTypes, PutMDIs DEF Step, Done
  <1>2. /\ InHand(r) /\ ctx[r].status = status /\ plan = PlanOf(status, obj)
        /\ obj \in Rec \cup {None} /\ (obj # None => Knows(obj))
        /\ EngineOK /\ KeyInv /\ MasterAlone /\ NoVersionsYet /\ NoDangling /\ TypeInv
        /\ status \in {"none", "Enabled", "Suspended"}
        /\ ctx[r].kind = "put" \/ (ctx[r].kind = "delete" /\ status # "none")
        /\ ctx[r].kind = "put" => r \in data
    BY <1>1, StepFinds, BesideTypes DEF InHand, Writing, MyPlan, BesideInv
  <1>3. /\ Written(r) \in Rec /\ new \in Rec
        /\ Written(r).vid = None /\ new.vid = clock + 1
        /\ \A rec \in {Written(r), new} :
             /\ rec.null = (status = "Suspended") /\ rec.nullVid = plan.nullVid
             /\ rec.loc = IF ctx[r].kind = "delete" THEN None ELSE r
        /\ clock + 1 \in Vids /\ clock \in Nat /\ clock + 1 # None
    BY <1>1, <1>2, WrittenIs, ClockRoom, VidsAre
  <1>4. /\ \A a \in Records : a.loc # None => a.loc \notin {None, r}
        /\ obj # None => obj.loc # r /\ (obj.loc # None => pc[obj.loc] \notin Early)
        /\ \A x \in ctx[r].doomed : pc[x] \notin Early
        /\ pc[r] \in Early /\ None \notin ctx[r].doomed /\ r # None
    <2>1. pc[r] \in Early /\ r # None
      BY <1>1, VidsAre DEF Early, Writing
    <2>2. None \notin ctx[r].doomed
      BY BesideTypes, VidsAre
    <2>3. QED
      BY <2>1, <2>2 DEF BesideInv, LocWritten, ReadWritten
  <1>5. /\ plan.doomed \subseteq LocationOf(obj)
        /\ plan.doomed # {} => status # "Enabled"
        /\ status = "Suspended" /\ plan.doomed # {} => IsNull(obj)
    BY <1>2, PlanDooms
  <1>6. \A x \in LocationOf(obj) : x # None /\ obj # None /\ x = obj.loc
    BY DEF LocationOf
  <1>7. \A x \in ctx'[r].doomed : x # None /\ x # r /\ pc[x] \notin Early
    BY <1>1, <1>4, <1>5, <1>6
  <1>8. \A rec \in {Written(r), new} : rec.loc \in {None, r} /\ (rec.loc # None => r \in data)
    BY <1>2, <1>3
  <1>9. ASSUME Records' \subseteq Records \cup {Written(r), new}
        PROVE  DataLeft(r)
    BY <1>1, <1>2, <1>7, <1>8, <1>9 DEF DataLeft, NoDangling
  <1> HIDE DEF plan, new
  <1>10. CASE status = "none"
    <2>1. /\ master' = Written(r) /\ UNCHANGED <<vkeys, clock>>
          /\ \A v \in Vids : vkeys[v] = None
      BY <1>1, <1>2, <1>10 DEF NoVersionsYet
    <2>2. plan.nullVid = None
      BY <1>2, <1>10 DEF PlanOf, Plan
    <2>3. KeyInv' /\ Records' = {Written(r)}
      BY <1>2, <1>3, <1>10, <2>1, <2>2, PutMasterKeeps, VidsAre
    <2>4. MasterAlone' /\ NoVersionsYet'
      BY <1>3, <2>1 DEF MasterAlone, NoVersionsYet
    <2>5. FreshVersion(Written(r), r)
      BY <1>1, <1>3, <1>8, <1>10, VidsAre DEF FreshVersion, Id, IsNull
    <2>6. RecordsKept(r)
      BY <1>10, <2>1, <2>3, <2>4, <2>5 DEF RecordsKept
    <2>7. WriteShows(r)
      BY <1>3, <1>4, <1>8, <1>10, <2>3 DEF WriteShows, IsNull
    <2>8. InHand(r)'
      BY <1>1, <1>7, <1>8, <2>3, <2>6, WroteBeside
    <2>9. QED
      BY <1>9, <2>3, <2>6, <2>7, <2>8 DEF BesideKept
  <1>11. CASE status = "Suspended"
    <2>1. master' = new /\ clock' = clock + 1 /\ UNCHANGED vkeys
      BY <1>1, <1>2, <1>11
    <2>2. /\ ReplacesNull(r) /\ \A v \in Vids : vkeys[v] # None => ~IsNull(vkeys[v])
      BY <1>1, <1>2, <1>11 DEF InHand, Writing, ReplacesNull
    <2>3. plan.nullVid = None
      BY <1>2, <1>11 DEF PlanOf, Plan, SuspendedPlan, IsNull
    <2>4. /\ KeyInv' /\ Records' = {a \in Records : ~IsNull(a)} \cup {new}
          /\ Id(new) = clock + 1 /\ IsNull(new)
      BY <1>2, <1>3, <1>4, <1>8, <1>11, <2>1, <2>2, <2>3, PutNullKeeps
    <2>5. MasterAlone' /\ NoVersionsYet'
      BY <1>1, <1>3, <1>11, <2>1 DEF MasterAlone, NoVersionsYet
    <2>6. FreshVersion(new, r)
      BY <1>1, <1>8, <1>11, <2>4 DEF FreshVersion
    <2>7. \A a \in Records : SameVersion(a, a)
      BY DEF SameVersion
    <2>8. RecordsKept(r)
      BY <1>11, <2>1, <2>4, <2>5, <2>6, <2>7 DEF RecordsKept
    <2>9. ASSUME NEW a \in Records, ~IsNull(a), a.loc # None, IsNull(obj)
          PROVE  a.loc # obj.loc
      BY <1>2, <2>9 DEF IsNull, Knows
    <2>10. WriteShows(r)
      BY <1>4, <1>8, <1>11, <2>4, <2>9 DEF WriteShows, IsNull
    <2>11. \A a \in Records' : a.loc \notin ctx'[r].doomed
      <3> SUFFICES ASSUME NEW a \in Records', a.loc \in ctx'[r].doomed PROVE FALSE
        OBVIOUS
      <3>1. a \in Records /\ ~IsNull(a) /\ a.loc # None
        BY <1>7, <1>8, <2>4
      <3>2. a.loc \notin ctx[r].doomed
        BY <2>2, <3>1 DEF ReplacesNull
      <3>3. a.loc \in plan.doomed
        BY <1>1, <3>2 DEF plan
      <3>4. QED
        BY <1>5, <1>6, <1>11, <2>9, <3>1, <3>3
    <2>12. InHand(r)'
      BY <1>1, <2>8, <2>11, WroteBeside
    <2>13. QED
      BY <1>9, <2>4, <2>8, <2>10, <2>12 DEF BesideKept
  <1>12. CASE status = "Enabled"
    <2>1. /\ master' = new /\ clock' = clock + 1
          /\ vkeys' = [vkeys EXCEPT ![clock + 1] = new]
      BY <1>1, <1>2, <1>12
    <2>2. KeepsNull(r) /\ NullsApart /\ ctx[r].doomed = {}
      BY <1>1, <1>2, <1>12 DEF InHand, Writing, KeepsNull
    <2>3. new.null = FALSE /\ plan.nullVid = EnabledPlan(obj).nullVid
      BY <1>2, <1>3, <1>12 DEF PlanOf
    <2>4. /\ new.nullVid # None => new.nullVid < clock + 1
          /\ \A a \in Records : /\ IsNull(a) => new.nullVid = Id(a)
                                /\ new.nullVid # None /\ Id(a) = new.nullVid => IsNull(a)
      <3>1. CASE obj = None
        <4>1. new.nullVid = None
          BY <1>3, <2>3, <3>1 DEF EnabledPlan, Plan, IsNull
        <4>2. QED
          BY <2>2, <3>1, <4>1 DEF KeepsNull
      <3>2. CASE obj # None /\ ~IsNull(obj)
        <4>1. new.nullVid = obj.nullVid /\ obj \in Rec /\ Knows(obj)
          BY <1>2, <1>3, <2>3, <3>2 DEF EnabledPlan, Plan
        <4>2. /\ Id(obj) \in Nat /\ Id(obj) <= clock
              /\ obj.nullVid # None => obj.nullVid \in Nat /\ obj.nullVid < Id(obj)
          BY <4>1, VidsAre DEF Id, Rec, Knows
        <4>3. ASSUME NEW a \in Records, IsNull(a) PROVE new.nullVid = Id(a)
          <5>1. Id(a) <= Id(obj) /\ Id(a) \in Nat
            BY <1>2, <2>2, <4>3, RecordsAre DEF KeepsNull
          <5>2. Id(a) # Id(obj)
            <6>1. obj.vid # None /\ obj.null = FALSE
              BY <3>2, <4>1 DEF IsNull, Rec
            <6>2. Id(a) = Id(obj) => Seen(a) = Seen(obj)
              BY <4>1, <6>1 DEF Knows
            <6>3. Seen(a) = Seen(obj) => Seen(a).null = Seen(obj).null
              OBVIOUS
            <6>4. QED
              BY <4>3, <6>1, <6>2, <6>3 DEF Seen, IsNull
          <5>3. Id(a) < Id(obj)
            BY <4>2, <5>1, <5>2
          <5>4. QED
            BY <4>1, <4>3, <5>3 DEF Knows
        <4>4. QED
          BY <1>3, <4>1, <4>2, <4>3 DEF Knows
      <3>3. CASE obj # None /\ IsNull(obj)
        <4>1. /\ new.nullVid = NullVersionId(obj) /\ obj \in Rec /\ Knows(obj)
              /\ obj.vid = None => ~obj.null
          BY <1>2, <1>3, <2>3, <3>3 DEF EnabledPlan, Plan, Knows
        <4>2. /\ NullVersionId(obj) = Id(obj) /\ Id(obj) \in Nat /\ Id(obj) <= clock
              /\ IsNull(CopyOf(obj)) /\ Id(CopyOf(obj)) = Id(obj)
          BY <3>3, <4>1, CopyIs, VidsAre DEF Knows
        <4>3. PICK x \in Records : x \in {obj, CopyOf(obj)}
          BY <2>2, <3>3 DEF KeepsNull
        <4>4. IsNull(x) /\ Id(x) = new.nullVid
          BY <3>3, <4>1, <4>2, <4>3
        <4>5. \A a \in Records : IsNull(a) => Id(a) = Id(x)
          BY <1>2, <4>4, NullsAreOne
        <4>6. \A a \in Records : Id(a) = Id(x) => IsNull(a)
          BY <1>2, <4>4, OneSeen DEF KeyInv
        <4>7. QED
          BY <1>3, <4>1, <4>2, <4>4, <4>5, <4>6
      <3>4. QED
        BY <3>1, <3>2, <3>3
    <2>5. \A a \in Records : a.loc # None => a.loc # new.loc
      BY <1>4, <1>8
    <2>6. /\ KeyInv' /\ NullsApart'
          /\ Records' \subseteq Records \cup {new}
          /\ Id(new) = clock + 1 /\ ~IsNull(new)
          /\ \A a \in Records : IsNull(a) => CopyOf(a) \in Records'
          /\ vkeys[clock + 1] = None
          /\ \A w \in Vids : vkeys'[w] = IF w = clock + 1 THEN new ELSE vkeys[w]
      BY <1>2, <1>3, <2>1, <2>2, <2>3, <2>4, <2>5, PutNewBeside
    <2>7. MasterAlone' /\ NoVersionsYet'
      BY <1>1, <1>3, <1>12, <2>1 DEF MasterAlone, NoVersionsYet
    <2>8. FreshVersion(new, r)
      BY <1>1, <1>8, <1>12, <2>6 DEF FreshVersion
    <2>9. \A a \in Records : SameVersion(a, a)
      BY DEF SameVersion
    <2>10. \A v \in Vids : vkeys[v] # None => vkeys'[v] = vkeys[v]
      BY <2>6
    <2>11. RecordsKept(r)
      BY <1>12, <2>1, <2>6, <2>7, <2>8, <2>9, <2>10 DEF RecordsKept
    <2>12. WriteShows(r)
      <3>1. new # None
        BY <1>3, VidsAre
      <3>2. ctx[r].kind = "put" => new.loc = r
        BY <1>3
      <3>3. vkeys'[clock + 1] = new
        BY <1>3, <2>6
      <3>4. QED
        BY <1>3, <1>12, <2>3, <3>1, <3>2, <3>3 DEF WriteShows
    <2>13. ctx'[r].doomed = {}
      BY <1>1, <1>5, <1>12, <2>2 DEF plan
    <2>14. InHand(r)'
      BY <1>1, <2>11, <2>13, WroteBeside
    <2>15. QED
      BY <1>9, <2>6, <2>11, <2>12, <2>14 DEF BesideKept
  <1>13. QED
    BY <1>2, <1>10, <1>11, <1>12

\* A record that is there is known.
LEMMA RecordKnown ==
    ASSUME EngineOK, KeyInv, NEW obj \in Records
    PROVE  Knows(obj)
  <1>1. /\ obj \in Rec /\ obj # None /\ Id(obj) <= clock
        /\ obj = master \/ \E v \in Vids : obj = vkeys[v]
    BY RecordsAre, IdsBehind
  <1>2. obj.vid = None => ~obj.null
    BY <1>1, VidsAre DEF KeyInv, Filed, OldForm
  <1>3. \A b \in Records : Id(b) = Id(obj) =>
           Seen(b) = Seen(obj) /\ b.nullVid = obj.nullVid /\ (IsNull(b) <=> IsNull(obj))
    BY OneSeen DEF KeyInv
  <1>4. QED
    BY <1>1, <1>2, <1>3 DEF Knows, KeyInv, NullRefs, OneLoc

\* What a request that reads the master finds of the null version.
LEMMA ReadsNull ==
    ASSUME EngineOK, KeyInv, MasterAlone
    PROVE  /\ \A a \in Records : IsNull(a) => master # None /\ Id(a) <= Id(master)
           /\ IsNull(master) => master \in Records
           /\ ~IsNull(master) => NullsApart
           /\ \A v \in Vids : vkeys[v] # None /\ IsNull(vkeys[v]) =>
                  SuspendedPlan(master).del = v
  <1>1. \A a \in Records : IsNull(a) => master # None /\ Id(a) <= Id(master)
    BY IdsBehind
  <1>2. IsNull(master) => master \in Records
    BY RecordsAre DEF IsNull
  <1>3. ASSUME ~IsNull(master), NEW a \in Records, IsNull(a)
        PROVE  /\ master # None /\ vkeys[NullVersionId(a)] = CopyOf(a)
               /\ a.vid = master.nullVid
    <2>1. /\ master # None /\ master.nullVid \in Vids /\ a.vid = master.nullVid
          /\ vkeys[master.nullVid] = a
      BY <1>3, NullIs, NullFoundBy
    <2>2. a.vid # None /\ NullVersionId(a) = a.vid /\ CopyOf(a) = a
      BY <1>3, <2>1, NullsAreOne, VidsAre DEF Id
    <2>3. QED
      BY <2>1, <2>2
  <1>4. ASSUME NEW v \in Vids, vkeys[v] # None, IsNull(vkeys[v])
        PROVE  SuspendedPlan(master).del = v
    <2>1. vkeys[v] \in Records /\ vkeys[v].vid = v /\ Id(vkeys[v]) = v /\ v # None
      BY <1>4, RecordsAre, VidsAre DEF KeyInv, Filed, Id
    <2>2. CASE IsNull(master)
      <3>1. master # None /\ master.vid # None
        BY <1>4, <2>2 DEF MasterAlone, IsNull
      <3>2. Id(master) = v
        BY <1>4, <2>1, <2>2, NullIs
      <3>3. master.vid = v /\ master.null
        BY <2>2, <3>1, <3>2 DEF Id, IsNull
      <3>4. QED
        BY <2>2, <3>1, <3>3 DEF SuspendedPlan, Plan
    <2>3. CASE ~IsNull(master)
      <3>1. master # None /\ v = master.nullVid
        BY <1>3, <1>4, <2>1, <2>3
      <3>2. QED
        BY <2>3, <3>1 DEF SuspendedPlan, Plan
    <2>4. QED
      BY <2>2, <2>3
  <1>5. QED
    BY <1>1, <1>2, <1>3, <1>4 DEF NullsApart

\* A request that arrives, or dies, beside the others.
Arrives(q) ==
    /\ pc[q] = "idle" /\ pc'[q] \notin {"idle", "delData", "ok"}
    /\ ctx'[q].obj \in Records \cup {None} /\ ctx'[q].doomed = {}
    /\ Running(q)' => InHand(q)'
Rests(q) ==
    ctx'[q] = ctx[q] /\ (pc'[q] = pc[q] \/ (pc[q] # "idle" /\ pc'[q] = "failed"))

\* Steps that reach neither engine nor data keep the invariant.
LEMMA CalmBeside ==
    ASSUME BesideInv, TypeInv', UNCHANGED <<status, data, engine>>,
           \A q \in Reqs : Arrives(q) \/ Rests(q)
    PROVE  /\ BesideInv'
           /\ AckedKept => AckedKept'
           /\ OverwrittenGone => OverwrittenGone'
  <1>1. /\ UNCHANGED <<master, vkeys, clock>> /\ Records' = Records
    BY DEF engine, Records
  <1>2. KeyInv' /\ MasterAlone' /\ NoVersionsYet' /\ NoDangling'
    BY <1>1
       DEF BesideInv, KeyInv, Filed, OldForm, Newest, NullRefs, OneLoc,
           MasterAlone, NoVersionsYet, NoDangling
  <1>3. \A x \in Reqs : pc[x] \notin Early => pc'[x] \notin Early
    BY DEF Arrives, Rests, Early, Writing
  <1>4. LocWritten'
    BY <1>1, <1>3 DEF BesideInv, LocWritten
  <1>5. ReadWritten'
    <2> SUFFICES ASSUME NEW q \in Reqs
                 PROVE  /\ ctx'[q].obj # None /\ ctx'[q].obj.loc # None =>
                               pc'[ctx'[q].obj.loc] \notin Early
                        /\ \A x \in ctx'[q].doomed : pc'[x] \notin Early
      BY DEF ReadWritten
    <2>1. CASE Arrives(q)
      BY <1>3, <2>1 DEF Arrives, BesideInv, LocWritten
    <2>2. CASE Rests(q)
      <3>1. ctx[q].obj # None /\ ctx[q].obj.loc # None => ctx[q].obj.loc \in Reqs
        BY BesideTypes DEF Rec
      <3>2. ctx[q].doomed \subseteq Reqs
        BY BesideTypes
      <3>3. QED
        BY <1>3, <2>2, <3>1, <3>2 DEF Rests, BesideInv, ReadWritten
    <2>3. QED
      BY <2>1, <2>2
  <1>6. ASSUME NEW q \in Reqs
        PROVE  /\ pc'[q] = "idle" => ctx'[q].kind = None
               /\ Running(q)' => InHand(q)'
    <2>1. CASE Arrives(q)
      BY <2>1 DEF Arrives
    <2>2. CASE Rests(q) /\ pc'[q] = pc[q]
      <3>1. Running(q)' => Running(q) /\ InHand(q)
        BY <2>2 DEF Running, BesideInv
      <3>2. RecordsKept(q) /\ DataLeft(q)
        BY <1>2, <2>2, RestsBeside DEF DataLeft, Rests, BesideInv, ReadWritten
      <3>3. QED
        BY <2>2, <3>1, <3>2, OthersStill DEF Rests, BesideInv
    <2>3. CASE Rests(q) /\ pc'[q] = "failed"
      BY <2>3 DEF Rests, Running, Done
    <2>4. QED
      BY <2>1, <2>2, <2>3 DEF Rests
  <1>7. BesideInv'
    BY <1>1, <1>2, <1>4, <1>5, <1>6 DEF BesideInv
  <1>8. AckedKept => AckedKept'
    <2> SUFFICES ASSUME AckedKept, NEW q \in Reqs, ctx'[q].kind = "put",
                        ctx'[q].status = "Enabled", pc'[q] \in {"delData", "ok"}
                 PROVE  \/ \E v \in Vids : /\ vkeys'[v] # None /\ ~vkeys'[v].null
                                           /\ vkeys'[v].loc = q
                        \/ \E p \in Reqs : /\ ctx'[p].kind = "deleteVersion"
                                           /\ ctx'[p].obj.loc = q
      BY DEF AckedKept
    <2>1. ctx'[q] = ctx[q] /\ pc'[q] = pc[q]
      BY DEF Arrives, Rests
    <2>2. \/ \E v \in Vids : vkeys[v] # None /\ ~vkeys[v].null /\ vkeys[v].loc = q
          \/ \E p \in Reqs : ctx[p].kind = "deleteVersion" /\ ctx[p].obj.loc = q
      BY <2>1 DEF AckedKept
    <2>3. \A p \in Reqs : ctx[p].kind = "deleteVersion" => ctx'[p] = ctx[p]
      BY VersioningAssumption DEF Arrives, Rests, BesideInv, AllKinds
    <2>4. QED
      BY <1>1, <2>2, <2>3
  <1>9. OverwrittenGone => OverwrittenGone'
    <2> SUFFICES ASSUME OverwrittenGone, NEW q \in Reqs, ctx'[q].kind = "put",
                        ctx'[q].status # "Enabled", pc'[q] \in {"delData", "ok"},
                        IsNull(ctx'[q].obj), NEW a \in Records', a.loc # None
                 PROVE  a.loc # ctx'[q].obj.loc
      BY DEF OverwrittenGone, IsNull
    <2>1. ctx'[q] = ctx[q] /\ pc'[q] = pc[q]
      BY DEF Arrives, Rests
    <2>2. QED
      BY <1>1, <2>1 DEF OverwrittenGone, IsNull
  <1>10. QED
    BY <1>7, <1>8, <1>9

\* A request that arrives has in hand what it has just read.
LEMMA StartBeside ==
    ASSUME Interleaved, BesideInv, NEW r \in Reqs, Start(r)
    PROVE  \A q \in Reqs : Arrives(q) \/ Rests(q)
  <1> DEFINE obj == ctx'[r].obj
  <1>1. /\ Beside(r) /\ UNCHANGED <<status, changes, data, engine>>
        /\ pc[r] = "idle" /\ ctx'[r].status = status /\ ctx'[r].doomed = {}
        /\ Starting(r)
        /\ TypeInv /\ EngineOK /\ KeyInv /\ MasterAlone /\ NoVersionsYet
        /\ status \in {"none", "Enabled", "Suspended"} /\ master \in Rec \cup {None}
    BY StartIs, BesideTypes DEF BesideInv, EngineOK
  <1>2. /\ Records' = Records /\ UNCHANGED <<master, vkeys, clock>>
        /\ NullsApart <=> NullsApart'
        /\ \A o \in Rec : Knows(o) <=> Knows(o)'
    BY <1>1, RestsBeside
  <1>3. ctx'[r].kind \in {"put", "delete", "deleteVersion"}
    <2>1. ~StartDeleteNull(r) /\ ~StartEdit(r)
      BY DEF StartDeleteNull, StartEdit, MayStart, Interleaved
    <2>2. ctx \in [Reqs -> Context]
      BY BesideTypes
    <2>3. QED
      BY <2>1, <2>2 DEF Start, StartPut, StartDelete, StartDeleteVersion, Enter
  <1>4. \A v \in Vids : GetVersion(v) # None =>
           /\ GetVersion(v) \in Records /\ GetVersion(v).vid # None
           /\ status # "none"
    <2> SUFFICES ASSUME NEW v \in Vids, GetVersion(v) # None
                 PROVE  /\ GetVersion(v) \in Records /\ GetVersion(v).vid # None
                        /\ status # "none"
      OBVIOUS
    <2>1. v # None
      BY VidsAre
    <2>2. GetVersion(v) \in Records
      BY <1>1, RecordsAre DEF GetVersion
    <2>3. GetVersion(v).vid = v
      BY <1>1 DEF GetVersion, KeyInv, Filed
    <2>4. status = "none" => vkeys[v] = None /\ (master # None => master.vid # v)
      BY <1>1, <2>1 DEF NoVersionsYet
    <2>5. QED
      BY <2>1, <2>2, <2>3, <2>4 DEF GetVersion
  <1>5. master # None => master \in Records
    BY <1>1, RecordsAre
  <1>6. obj \in Records \cup {None}
    BY <1>1, <1>4, <1>5 DEF Starting
  <1>7. obj # None => /\ Knows(obj) /\ obj \in Rec
                      /\ status = "none" => obj.vid = None
    <2>1. \A o \in Records : Knows(o) /\ o \in Rec
      BY <1>1, RecordKnown, RecordsAre
    <2>2. \A o \in Records : status = "none" => o.vid = None
      BY <1>1, RecordsAre DEF NoVersionsYet
    <2>3. QED
      BY <1>6, <2>1, <2>2
  <1>8. pc'[r] \in {"storeData", "delMD", "failed", FirstCall(PlanOf(status, master))}
        /\ (pc'[r] = FirstCall(PlanOf(status, master)) /\ pc'[r] \in Writing =>
               obj = master)
        /\ (pc'[r] = "storeData" => obj = master)
        /\ (pc'[r] = "delMD" => IF status = "none" THEN ctx'[r].kind = "delete"
                                ELSE /\ ctx'[r].kind = "deleteVersion"
                                     /\ obj.vid # None /\ ~obj.null)
        /\ (ctx'[r].kind = "put" => pc'[r] = "storeData")
        /\ pc'[r] \in Writing \cup {"delMD", "failed"}
    <2>1. FirstCall(PlanOf(status, master)) \in Writing \ {"storeData"}
      BY <1>1, PlanType
    <2>2. CASE ctx'[r].kind = "put"
      BY <1>1, <2>2 DEF Starting, Writing
    <2>3. CASE ctx'[r].kind = "delete"
      BY <1>1, <2>1, <2>3 DEF Starting, Writing
    <2>4. CASE ctx'[r].kind = "deleteVersion"
      BY <1>1, <1>4, <2>4 DEF Starting, Writing
    <2>5. QED
      BY <1>3, <2>2, <2>3, <2>4
  <1>9. master # None /\ master.vid = None => ~master.null
    BY <1>5, <1>1, RecordKnown DEF Knows
  <1>10. pc'[r] \in Writing \ {"storeData"} =>
            /\ pc'[r] = "storeNull" => status = "Enabled"
            /\ pc'[r] \in {"getNull", "delNull"} => status = "Suspended" /\ obj # None
            /\ pc'[r] = "getNull" => ~IsNull(obj)
            /\ status = "Enabled" /\ pc'[r] = "putMD" => ~IsNull(obj)
            /\ status = "Suspended" /\ PlanOf(status, obj).del # None =>
                   pc'[r] \in {"getNull", "delNull"}
    <2> SUFFICES ASSUME pc'[r] \in Writing \ {"storeData"}
                 PROVE  /\ pc'[r] = "storeNull" => status = "Enabled"
                        /\ pc'[r] \in {"getNull", "delNull"} =>
                               status = "Suspended" /\ obj # None
                        /\ pc'[r] = "getNull" => ~IsNull(obj)
                        /\ status = "Enabled" /\ pc'[r] = "putMD" => ~IsNull(obj)
                        /\ status = "Suspended" /\ PlanOf(status, obj).del # None =>
                               pc'[r] \in {"getNull", "delNull"}
      OBVIOUS
    <2>1. pc'[r] = FirstCall(PlanOf(status, master)) /\ obj = master
      BY <1>8 DEF Writing
    <2> HIDE DEF obj
    <2>2. QED
      BY <1>1, <1>9, <2>1, FirstCallIs
  <1>11. pc'[r] \in Writing => obj = master
    BY <1>8 DEF Writing
  <1>12. pc'[r] \in Writing /\ status = "Enabled" => KeepsNull(r)'
    <2> SUFFICES ASSUME pc'[r] \in Writing, status = "Enabled" PROVE KeepsNull(r)'
      OBVIOUS
    <2>1. /\ obj = master
          /\ \A a \in Records : IsNull(a) => obj # None /\ Id(a) <= Id(obj)
          /\ IsNull(obj) => obj \in Records
          /\ ~IsNull(obj) => NullsApart
      BY <1>1, <1>11, ReadsNull
    <2>2. pc'[r] = "putMD" => ~IsNull(obj)
      BY <1>10 DEF Writing
    <2>3. IsNull(ctx'[r].obj) <=> IsNull(obj)
      OBVIOUS
    <2>4. QED
      BY <1>2, <2>1, <2>2 DEF KeepsNull
  <1>13. pc'[r] \in Writing /\ status = "Suspended" => ReplacesNull(r)'
    <2> SUFFICES ASSUME pc'[r] \in Writing, status = "Suspended" PROVE ReplacesNull(r)'
      OBVIOUS
    <2>1. /\ obj = master /\ MyPlan(r)' = PlanOf(status, obj)
          /\ PlanOf(status, obj) = SuspendedPlan(master)
      BY <1>1, <1>11 DEF MyPlan, PlanOf
    <2>2. \A v \in Vids : vkeys[v] # None /\ IsNull(vkeys[v]) =>
             SuspendedPlan(master).del = v /\ v # None
      BY <1>1, ReadsNull, VidsAre
    <2>3. pc'[r] \in {"storeData", "getNull", "delNull"} \/ SuspendedPlan(master).del = None
      BY <1>10, <2>1
    <2>4. QED
      BY <1>1, <1>2, <2>1, <2>2, <2>3 DEF ReplacesNull
  <1>14. ASSUME Running(r)' PROVE InHand(r)'
    <2>1. pc'[r] \in Writing \cup {"delMD"}
      BY <1>8, <1>14 DEF Running, Done
    <2>2. \A o \in Rec : Knows(o) => Knows(o)'
      BY <1>2
    <2>3. ctx'[r].obj # None => Knows(ctx[r].obj)'
      <3> SUFFICES ASSUME ctx'[r].obj # None PROVE Knows(ctx[r].obj)'
        OBVIOUS
      <3>1. \A o \in Rec : o = ctx'[r].obj => Knows(o)'
        <4> SUFFICES ASSUME NEW o \in Rec, o = ctx'[r].obj PROVE Knows(o)'
          OBVIOUS
        <4>1. Knows(ctx'[r].obj)
          BY <1>7
        <4>2. Knows(o)
          BY <4>1 DEF Knows
        <4>3. QED
          BY <2>2, <4>2
      <3>2. ctx'[r].obj # None => ctx'[r].obj \in Rec
        BY <1>7
      <3>3. QED
        BY <3>1, <3>2 DEF Knows
    <2>4. /\ ctx'[r].status = status' /\ UNCHANGED status
          /\ ctx'[r].obj # None => (status' = "none" => ctx'[r].obj.vid = None)
      BY <1>1, <1>7 DEF Rests
    <2>5. QED
      BY <1>1, <1>8, <1>10, <1>12, <1>13, <2>1, <2>3, <2>4 DEF InHand, Writing
  <1>15. Arrives(r)
    BY <1>1, <1>6, <1>8, <1>14 DEF Arrives, Writing
  <1>16. QED
    BY <1>1, <1>15 DEF Beside, Rests

\* Every step of requests beside one another keeps the invariant, what was
\* acknowledged and what is gone.
LEMMA NextBeside ==
    ASSUME Interleaved, BesideInv, [Next]_vars
    PROVE  /\ BesideInv'
           /\ AckedKept => AckedKept'
           /\ OverwrittenGone => OverwrittenGone'
  <1>1. TypeInv'
    BY NextType DEF BesideInv
  <1>2. ASSUME NEW r \in Reqs, Step(r)
        PROVE  /\ BesideInv'
               /\ AckedKept => AckedKept'
               /\ OverwrittenGone => OverwrittenGone'
    <2>1. ~FindNull(r) /\ ~EditMD(r)
      BY <1>2, StepFinds DEF FindNull, EditMD, Go
    <2>2. BesideKept(r)
      BY <1>2, <2>1, StoreDataBeside, StoreNullBeside, GetNullBeside, DelNullBeside,
         PutMDBeside, DelMDBeside, DelDataBeside DEF Step
    <2>3. QED
      BY <1>1, <1>2, <2>2, KeptBeside, KeptAcked, KeptGone
  <1>3. ASSUME NEW r \in Reqs, Start(r)
        PROVE  /\ BesideInv'
               /\ AckedKept => AckedKept'
               /\ OverwrittenGone => OverwrittenGone'
    <2>1. UNCHANGED <<status, data, engine>>
      BY <1>3, StartIs, BesideTypes
    <2>2. \A q \in Reqs : Arrives(q) \/ Rests(q)
      BY <1>3, StartBeside
    <2>3. QED
      BY <1>1, <2>1, <2>2, CalmBeside
  <1>4. ASSUME NEW r \in Reqs, Abandon(r)
        PROVE  /\ BesideInv'
               /\ AckedKept => AckedKept'
               /\ OverwrittenGone => OverwrittenGone'
    <2>1. UNCHANGED <<status, data, engine>>
      BY <1>4 DEF Abandon
    <2>2. \A q \in Reqs : Rests(q)
      BY <1>4, BesideTypes DEF Abandon, Rests, Running
    <2>3. QED
      BY <1>1, <2>1, <2>2, CalmBeside
  <1>5. ASSUME NEW s \in Statuses, SetStatus(s)
        PROVE  /\ BesideInv'
               /\ AckedKept => AckedKept'
               /\ OverwrittenGone => OverwrittenGone'
    <2>1. /\ Quiet /\ UNCHANGED <<master, vkeys, clock, data, pc, ctx>>
          /\ status' # "none"
      BY <1>5, VersioningAssumption DEF SetStatus, Interleaved, engine
    <2>2. Records' = Records
      BY <2>1 DEF Records
    <2>3. KeyInv' /\ MasterAlone' /\ NoVersionsYet' /\ NoDangling' /\ LocWritten'
          /\ ReadWritten'
      BY <2>1, <2>2
         DEF BesideInv, KeyInv, Filed, OldForm, Newest, NullRefs, OneLoc,
             MasterAlone, NoVersionsYet, NoDangling, LocWritten, ReadWritten
    <2>4. \A r \in Reqs : ~Running(r)'
      BY <2>1 DEF Quiet, Running
    <2>5. BesideInv'
      BY <1>1, <2>1, <2>3, <2>4 DEF BesideInv
    <2>6. /\ AckedKept => AckedKept'
          /\ OverwrittenGone => OverwrittenGone'
      BY <2>1, <2>2 DEF AckedKept, OverwrittenGone
    <2>7. QED
      BY <2>5, <2>6
  <1>6. CASE UNCHANGED vars
    <2>1. UNCHANGED <<status, data, engine>> /\ \A q \in Reqs : Rests(q)
      BY <1>6 DEF vars, engine, Rests
    <2>2. QED
      BY <1>1, <2>1, CalmBeside
  <1>7. QED
    BY <1>2, <1>3, <1>4, <1>5, <1>6 DEF Next

\* No request has arrived, and there is no record.
LEMMA InitBeside == Init => BesideInv /\ AckedKept /\ OverwrittenGone
  <1> SUFFICES ASSUME Init PROVE BesideInv /\ AckedKept /\ OverwrittenGone
    OBVIOUS
  <1>1. /\ TypeInv /\ master = None /\ \A v \in Vids : vkeys[v] = None
        /\ Records = {} /\ \A r \in Reqs : pc[r] = "idle"
        /\ \A r \in Reqs : ctx[r].obj = None /\ ctx[r].doomed = {} /\ ctx[r].kind = None
    BY InitType DEF Init, Records
  <1>2. KeyInv
    BY <1>1 DEF KeyInv, Filed, OldForm, Newest, NullRefs, OneLoc
  <1>3. \A r \in Reqs : ~Running(r)
    BY <1>1 DEF Running
  <1>4. BesideInv
    BY <1>1, <1>2, <1>3
       DEF BesideInv, MasterAlone, NoVersionsYet, LocWritten, ReadWritten, NoDangling
  <1>5. AckedKept /\ OverwrittenGone
    BY <1>1 DEF AckedKept, OverwrittenGone
  <1>6. QED
    BY <1>4, <1>5

\* Requests beside one another keep the versions of a key in order.
THEOREM VersionsInOrderBeside ==
    ASSUME Interleaved PROVE Spec => []RecordsInOrder
  <1>1. BesideInv => RecordsInOrder
    BY BesideTypes, OrderShows DEF RecordsInOrder, BesideInv
  <1>2. BesideInv /\ [Next]_vars => BesideInv'
    BY NextBeside
  <1>3. QED
    BY InitBeside, <1>1, <1>2, PTL DEF Spec

\* No version that they leave names data that another of them deleted.
THEOREM VersionsHaveDataBeside ==
    ASSUME Interleaved PROVE Spec => []NoDangling
  <1>1. BesideInv => NoDangling
    BY DEF BesideInv
  <1>2. BesideInv /\ [Next]_vars => BesideInv'
    BY NextBeside
  <1>3. QED
    BY InitBeside, <1>1, <1>2, PTL DEF Spec

\* A version whose PUT was acknowledged while versioning was enabled stays, until a
\* request names it, whatever requests run beside it and wherever they die.
THEOREM AcknowledgedVersionsStay ==
    ASSUME Interleaved PROVE Spec => []AcknowledgedKept
  <1>1. BesideInv /\ AckedKept => AcknowledgedKept
    BY BesideTypes, RecordsAre DEF AcknowledgedKept, AckedKept
  <1>2. BesideInv /\ AckedKept /\ [Next]_vars => BesideInv' /\ AckedKept'
    BY NextBeside
  <1>3. QED
    BY InitBeside, <1>1, <1>2, PTL DEF Spec

\* What a PUT overwrote without versioning does not come back, whatever requests
\* run beside it and wherever they die.
THEOREM OverwrittenStaysGone ==
    ASSUME Interleaved PROVE Spec => []OverwrittenForGood
  <1>1. BesideInv /\ OverwrittenGone => OverwrittenForGood
    BY DEF OverwrittenForGood, OverwrittenGone
  <1>2. BesideInv /\ OverwrittenGone /\ [Next]_vars => BesideInv' /\ OverwrittenGone'
    BY NextBeside
  <1>3. QED
    BY InitBeside, <1>1, <1>2, PTL DEF Spec
=============================================================================
