------------------------------ MODULE ObjectCopy ------------------------------
(***************************************************************************)
(* Copying an object: from another key, on itself to change its metadata,  *)
(* or from an older version of itself to restore it.  A key has a null     *)
(* version and versions; a record names the data it reads, and a copy on   *)
(* itself may take over the location instead of copying the data.          *)
(***************************************************************************)
EXTENDS Requests

CopyKeys == {"x", "y"}

ASSUME CopyAssumption ==
    /\ None \notin Reqs \cup {"null", "v1", "xnull", "xv1", "ynull"}
    /\ Reqs \cap {"null", "v1", "xnull", "xv1", "ynull"} = {}

\* Versions: the null one, one that was there, those copies create.
Slots == {"null", "v1"} \cup Reqs

\* cur: the version under the key's own name.
CopyInit ==
    /\ In("copy")
    /\ \E status \in {"none", "Enabled", "Suspended"},
          xs \in SUBSET {"null", "v1"}, y \in BOOLEAN, cur \in {"null", "v1"} :
        /\ cur \in xs
        /\ status = "none" => xs = {"null"}
        /\ cur = "null" => status = "none" \/ status = "Suspended" \/ xs = {"null"}
        /\ store =
             [status |-> status,
              slots |-> [k \in CopyKeys |-> [s \in Slots |->
                  CASE k = "x" /\ s \in xs      -> IF s = "null" THEN "xnull" ELSE "xv1"
                    [] k = "y" /\ s = "null" /\ y -> "ynull"
                    [] OTHER                    -> None]],
              cur |-> [k \in CopyKeys |-> IF k = "x" THEN cur ELSE "null"],
              data |-> {IF s = "null" THEN "xnull" ELSE "xv1" : s \in xs}
                          \cup (IF y THEN {"ynull"} ELSE {})]
    /\ pc = [r \in Reqs |-> "idle"]
    /\ ctx = [r \in Reqs |-> None]

-----------------------------------------------------------------------------
\* checkDestAuth reads the destination: what a copy may replace.
CheckDestAuth(r) ==
    \E op \in {"copyAcross", "copyOnItself", "restoreVersion"},
       src, dst \in CopyKeys, from \in {None, "null", "v1"}, moves \in BOOLEAN :
        /\ Sent(r, op)
        /\ (op = "copyAcross") = (src # dst)
        /\ op = "copyOnItself" => from = None
        /\ op = "restoreVersion" => from # None
        /\ Carry(r, [src |-> src, dst |-> dst, from |-> from, moves |-> moves,
                     old |-> store.slots[dst][store.cur[dst]],
                     oldIsNull |-> store.cur[dst] = "null",
                     loc |-> None, doomed |-> None])
        /\ Goto(r, "readSource")
        /\ UNCHANGED store

SourceOf(c) == store.slots[c.src][IF c.from = None THEN store.cur[c.src] ELSE c.from]

\* Mutant: the location is taken over whenever it need not change.
SharesWithOthers(c) == ~c.moves /\ store.status # "Enabled"

\* needsEncryption never holds: the attribute goalGetData reads is not set.
TakesOver(c) == c.src = c.dst /\ ~c.moves /\ store.status # "Enabled"

\* checkSourceAuthorization and _prepMetadata may refuse.
CheckSourceAuthorization(r) ==
    LET c == ctx[r]
    IN  /\ pc[r] = "readSource"
        /\ \/ Refuse(r)
           \/ /\ SourceOf(c) # None
              /\ Carry(r, [c EXCEPT !.loc = SourceOf(c)])
              /\ Goto(r, IF TakesOver(c) THEN "preprocess" ELSE "copyData")
              /\ UNCHANGED store

\* data.copyObject; the source may be gone by now.
GoGetData(r) ==
    LET c == ctx[r]
    IN  /\ pc[r] = "copyData"
        /\ IF c.loc \in store.data
           THEN /\ store' = [store EXCEPT !.data = @ \cup {r}]
                /\ Carry(r, [c EXCEPT !.loc = r])
                /\ Goto(r, "preprocess")
           ELSE Refuse(r)

\* versioningPreprocessing: unless versions are kept, what the copy replaces
\* is doomed, and a null version that hides behind another one is removed.
GetVersioningInfo(r) ==
    LET c == ctx[r]
        hidden == IF store.status = "Suspended" /\ ~c.oldIsNull
                  THEN store.slots[c.dst]["null"] ELSE None
        doomed == CASE store.status = "Enabled" -> None
                    [] store.status = "none"    -> c.old
                    [] OTHER -> IF c.oldIsNull THEN c.old ELSE hidden
    IN  /\ pc[r] = "preprocess"
        /\ store' = IF hidden # None
                    THEN [store EXCEPT !.slots[c.dst]["null"] = None] ELSE store
        /\ Carry(r, [c EXCEPT !.doomed = doomed])
        /\ Goto(r, "putCopy")

StoreNewMetadata(r) ==
    LET c == ctx[r]
        slot == IF store.status = "Enabled" THEN r ELSE "null"
    IN  /\ pc[r] = "putCopy"
        /\ store' = [store EXCEPT !.slots[c.dst][slot] = c.loc, !.cur[c.dst] = slot]
        /\ Goto(r, "deleteExisting")
        /\ UNCHANGED ctx

\* Mutant: a copy on itself deletes what it replaced.
DeleteTakenOver(r) ==
    /\ pc[r] = "deleteExisting"
    /\ store' = [store EXCEPT !.data = @ \ {ctx[r].doomed}]
    /\ Goto(r, "ok")
    /\ UNCHANGED ctx

\* Mutant: what was replaced is forgotten.
DeleteNothing(r) ==
    /\ pc[r] = "deleteExisting"
    /\ Goto(r, "ok")
    /\ UNCHANGED <<store, ctx>>

\* Not when the source is the destination.
DeleteExistingData(r) ==
    LET c == ctx[r]
    IN  /\ pc[r] = "deleteExisting"
        /\ store' = IF c.src # c.dst
                    THEN [store EXCEPT !.data = @ \ {c.doomed}] ELSE store
        /\ Goto(r, "ok")
        /\ UNCHANGED ctx

\* DELETE of a version: its record, then the data the record named.
DeleteSlot(r) ==
    /\ Sent(r, "objectDelete")
    /\ \E k \in CopyKeys, s \in Slots :
        /\ store.slots[k][s] # None
        /\ Carry(r, [key |-> k, slot |-> s, loc |-> store.slots[k][s]])
    /\ Goto(r, "deleteRecord")
    /\ UNCHANGED store

\* The current version passes to one that is left.
DeleteSlotRecord(r) ==
    LET c == ctx[r]
        left == {s \in Slots \ {c.slot} : store.slots[c.key][s] # None}
    IN  /\ pc[r] = "deleteRecord"
        /\ \E next \in IF store.cur[c.key] # c.slot THEN {store.cur[c.key]}
                       ELSE IF left = {} THEN {"null"} ELSE left :
            store' = [store EXCEPT !.slots[c.key][c.slot] = None, !.cur[c.key] = next]
        /\ Goto(r, "deleteBlob")
        /\ UNCHANGED ctx

DeleteSlotData(r) ==
    /\ pc[r] = "deleteBlob"
    /\ store' = [store EXCEPT !.data = @ \ {ctx[r].loc}]
    /\ Goto(r, "ok")
    /\ UNCHANGED ctx

CopyStep(r) ==
    \/ CheckDestAuth(r) \/ CheckSourceAuthorization(r) \/ GoGetData(r)
    \/ GetVersioningInfo(r) \/ StoreNewMetadata(r) \/ DeleteExistingData(r)
    \/ DeleteSlot(r) \/ DeleteSlotRecord(r) \/ DeleteSlotData(r)

CopyNext ==
    /\ In("copy")
    /\ \E r \in Reqs : CopyStep(r) \/ Die(r)
    /\ UNCHANGED scene

-----------------------------------------------------------------------------
(* Properties *)

CopyRecords == {ks \in CopyKeys \X Slots : store.slots[ks[1]][ks[2]] # None}
Loc(ks) == store.slots[ks[1]][ks[2]]

OnItself == {"copyOnItself", "restoreVersion"}

\* When each record owns its data: copies between keys may interleave with one
\* another and with deletions and die; copies on itself run one at a time, and
\* versioning is not suspended.
Owning ==
    \/ scene.ops \cap OnItself = {}
    \/ scene.sequential /\ store.status # "Suspended"

\* Then every record has its data, and no two share it: deleting one version
\* never takes the content of another.
CopyOwnsData ==
    In("copy") /\ Owning =>
        \A a \in CopyRecords :
            /\ Loc(a) \in store.data
            /\ \A b \in CopyRecords : a # b => Loc(a) # Loc(b)

\* When clients wait for each answer, no two versions share their data: a test
\* says a version may be copied on its object's name to restore it.
RestoredOwnsData ==
    In("copy") /\ scene.sequential =>
        \A a, b \in CopyRecords : a # b => Loc(a) # Loc(b)

\* Copies between keys, one at a time, leave no data without a record, unless one
\* of them dies.
CopyLeavesNoData ==
    /\ In("copy") /\ scene.sequential /\ ~scene.deaths
    /\ scene.ops \cap OnItself = {} /\ Quiet
    =>
       store.data = {Loc(a) : a \in CopyRecords}

\* Copies own their data and leave none.
CopyDataStands == CopyOwnsData /\ CopyLeavesNoData
=============================================================================
