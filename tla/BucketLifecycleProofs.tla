------------------------- MODULE BucketLifecycleProofs -------------------------
(***************************************************************************)
(* Proofs about BucketLifecycle, for every set of requests and accounts,   *)
(* whatever creations ask for, whether or not requests may die.  Types     *)
(* need nothing of the clients; the rest needs that deletions run alone.   *)
(***************************************************************************)
EXTENDS BucketLifecycle, TLAPS

\* The requests that will write the record, that write into the bucket, and
\* that are deleting it.
Mending == {"addEntry", "createUsers", "update"}
Writing == {"store", "getShadow", "createShadow", "putOverview", "removeObject"}
Removing == {"checkObjects", "listUploads", "abortUploads", "dropShadow", "flag",
             "delEntry", "delBucket"}

\* The requests that go through each label.
RightKind ==
    \A r \in Reqs :
        /\ pc[r] = "createMD" => ctx[r].kind = "create"
        /\ pc[r] \in Mending => ctx[r].kind \in {"create", "put", "putACL", "initiate"}
        /\ pc[r] = "store" => ctx[r].kind = "put"
        /\ pc[r] \in {"getShadow", "createShadow", "putOverview"} => ctx[r].kind = "initiate"
        /\ pc[r] = "removeObject" => ctx[r].kind = "objectDelete"
        /\ pc[r] \in Removing => ctx[r].kind = "delete"

\* What they carry: who sent them and, when they will use it, a record.
RightContext ==
    \A r \in Reqs :
        /\ pc[r] \in Mending \cup Removing \cup {"createMD"} =>
               ctx[r].acct \in Accounts /\ ctx[r].md \in Bucket
        /\ bg[r] # "none" => ctx[r].md \in Bucket /\ pc[r] = "failed"
        /\ pc[r] = "idle" => ctx[r].key = None
        /\ pc[r] = "createMD" => /\ ctx[r].md.owner = ctx[r].acct
                                 /\ ctx[r].md.flags = {"transient"}
        /\ pc[r] \in Removing => ctx[r].md.flags = {"deleted"}

TypeInv == TypeOK /\ RightKind /\ RightContext

-----------------------------------------------------------------------------
(* Type correctness *)

\* A new record, a record with other marks, and what one request carries.
LEMMA RecordType ==
    ASSUME NEW acct \in Accounts, NEW sse \in BOOLEAN,
           NEW flags \in SUBSET {"transient", "deleted"}
    PROVE  NewRecord(acct, flags, sse) \in Bucket
  BY DEF NewRecord, Bucket

\* A bucket that is marked, or unmarked, is the same bucket.
LEMMA MarksType ==
    ASSUME NEW md \in Bucket, NEW flags \in SUBSET {"transient", "deleted"}
    PROVE  /\ [md EXCEPT !.flags = flags] \in Bucket
           /\ [md EXCEPT !.flags = flags].owner = md.owner
           /\ [md EXCEPT !.flags = flags].flags = flags
  BY DEF Bucket

\* What a request carries on from a call.
LEMMA CarryType ==
    ASSUME ctx \in [Reqs -> Context], NEW r \in Reqs, NEW kind \in AllKinds,
           NEW acct \in Accounts, NEW sse \in BOOLEAN,
           NEW md \in Bucket \cup {None}, NEW key \in Reqs \cup {None},
           Carry(r, kind, acct, sse, md, key)
    PROVE  /\ ctx' \in [Reqs -> Context]
           /\ ctx'[r].kind = kind /\ ctx'[r].acct = acct /\ ctx'[r].sse = sse
           /\ ctx'[r].md = md /\ ctx'[r].key = key
           /\ \A q \in Reqs \ {r} : ctx'[q] = ctx[q]
  <1> DEFINE new == [ctx[r] EXCEPT !.kind = kind, !.acct = acct, !.sse = sse,
                                   !.md = md, !.key = key]
  <1>0. ctx[r] \in Context
    OBVIOUS
  <1>1. new \in Context
    BY <1>0 DEF Context
  <1>2. /\ new.kind = kind /\ new.acct = acct /\ new.sse = sse
        /\ new.md = md /\ new.key = key
    BY <1>0 DEF Context
  <1>3. ctx' = [ctx EXCEPT ![r] = new]
    BY DEF Carry
  <1> HIDE DEF new
  <1>4. QED
    BY <1>1, <1>2, <1>3

\* A request that moves on moves alone.
LEMMA GotoType ==
    ASSUME pc \in [Reqs -> Labels], NEW r \in Reqs, NEW label \in Labels,
           Goto(r, label)
    PROVE  /\ pc' \in [Reqs -> Labels] /\ pc'[r] = label
           /\ \A q \in Reqs \ {r} : pc'[q] = pc[q]
  BY DEF Goto


\* What a request that starts does: it takes its context and its first label,
\* and at most leaves a deletion in the background.
Arrives(r, kind, acct, sse, md, key, label) ==
    /\ Starts(r, kind)
    /\ Carry(r, kind, acct, sse, md, key)
    /\ Goto(r, label)
    /\ UNCHANGED <<stored, kept>>

\* A request that starts keeps the types.
LEMMA ArriveType ==
    ASSUME TypeInv, NEW r \in Reqs, NEW kind \in AllKinds, NEW label \in Labels,
           NEW acct \in Accounts, NEW sse \in BOOLEAN,
           NEW md \in Bucket \cup {None}, NEW key \in Reqs \cup {None},
           Arrives(r, kind, acct, sse, md, key, label),
           label # "idle",
           label = "createMD" => /\ kind = "create" /\ md # None
                                 /\ md.owner = acct /\ md.flags = {"transient"},
           label \in Mending => /\ kind \in {"create", "put", "putACL", "initiate"}
                                /\ md # None,
           label = "store" => kind = "put",
           label \in {"getShadow", "createShadow", "putOverview"} => kind = "initiate",
           label = "removeObject" => kind = "objectDelete",
           label \in Removing => /\ kind = "delete" /\ md # None
                                 /\ md.flags = {"deleted"},
           \/ UNCHANGED bg
           \/ md # None /\ label = "failed" /\ bg' = [bg EXCEPT ![r] = "delEntry"]
    PROVE  TypeInv'
  <1> USE DEF TypeInv
  <1>0. ctx \in [Reqs -> Context] /\ Carry(r, kind, acct, sse, md, key)
    BY DEF TypeOK, Arrives
  <1>1. /\ ctx' \in [Reqs -> Context]
        /\ ctx'[r].kind = kind /\ ctx'[r].acct = acct
        /\ ctx'[r].md = md /\ ctx'[r].key = key
        /\ \A q \in Reqs \ {r} : ctx'[q] = ctx[q]
    BY <1>0, CarryType
  <1>2. /\ pc' \in [Reqs -> Labels] /\ pc'[r] = label
        /\ \A q \in Reqs \ {r} : pc'[q] = pc[q]
    BY GotoType DEF TypeOK, Arrives
  <1>3. /\ bg' \in [Reqs -> {"none", "delEntry", "delBucket"}]
        /\ bg'[r] # "none" => md \in Bucket /\ label = "failed"
        /\ \A q \in Reqs \ {r} : bg'[q] = bg[q]
    BY DEF TypeOK, RightContext, Arrives, Starts
  <1>4. TypeOK'
    BY <1>1, <1>2, <1>3 DEF TypeOK, Arrives, stored
  <1>5. RightKind'
    BY <1>1, <1>2 DEF RightKind
  <1>6. RightContext'
    BY <1>1, <1>2, <1>3 DEF RightContext
  <1>7. QED
    BY <1>4, <1>5, <1>6

\* What each first call lets a request carry on with.
Creates(r, acct, sse, md, label) ==
    /\ Arrives(r, "create", acct, sse, md, None, label)
    /\ UNCHANGED bg
    /\ label = "createMD" => /\ bucket = None
                             /\ md = NewRecord(acct, {"transient"}, sse)
    /\ label = "addEntry" => /\ OwnMarked(acct)
                             /\ md = NewRecord(acct, {}, FALSE)

Writes(r, kind, acct, md, label) ==
    /\ Arrives(r, kind, acct, FALSE, md, None, label)
    /\ UNCHANGED bg
    /\ label # "failed" => MayRevive(acct) /\ md = [bucket EXCEPT !.flags = {}]
    /\ label \in {"store", "getShadow", "update"} => ~Marked
    /\ label = "store" => kind = "put"
    /\ label = "getShadow" => kind = "initiate"
    /\ label = "update" => kind = "putACL"

Removes(r, acct, md, label) ==
    /\ Arrives(r, "delete", acct, FALSE, md, None, label)
    /\ UNCHANGED bg
    /\ label = "checkObjects" => /\ bucket \in Bucket /\ bucket.owner = acct
                                 /\ md = [bucket EXCEPT !.flags = {"deleted"}]

Meets(r, kind, acct, md, key, label) ==
    /\ Arrives(r, kind, acct, FALSE, md, key, label)
    /\ \/ UNCHANGED bg
       \/ /\ MarkedDeleted /\ label = "failed" /\ md = bucket
          /\ bg' = [bg EXCEPT ![r] = "delEntry"]
    /\ label = "removeObject" => /\ kind = "objectDelete"
                                 /\ bucket # None /\ ~Marked

\* How a bucket creation arrives.
LEMMA CreateArrives ==
    ASSUME TypeInv, NEW r \in Reqs, CreateRead(r)
    PROVE  \E acct \in Accounts, sse \in BOOLEAN, md \in Bucket \cup {None},
              label \in {"createMD", "addEntry", "ok", "failed"} :
             Creates(r, acct, sse, md, label)
  <1> USE BucketAssumption, RecordType DEF CreateRead, Arrives, Creates
  <1>0. PICK acct \in Accounts, sse \in Encrypts :
         \/ /\ bucket = None
            /\ Carry(r, "create", acct, sse, NewRecord(acct, {"transient"}, sse), None)
            /\ Goto(r, "createMD")
         \/ /\ OwnMarked(acct)
            /\ Carry(r, "create", acct, sse, NewRecord(acct, {}, FALSE), None)
            /\ Goto(r, "addEntry")
         \/ /\ bucket # None /\ ~OwnMarked(acct)
            /\ Carry(r, "create", acct, sse, None, None)
            /\ \E again \in Legacy :
                 Goto(r, IF again /\ bucket.owner = acct THEN "ok" ELSE "failed")
    OBVIOUS
  <1>1. sse \in BOOLEAN
    OBVIOUS
  <1>2. NewRecord(acct, {"transient"}, sse) \in Bucket /\ NewRecord(acct, {}, FALSE) \in Bucket
    BY <1>1
  <1>3. CASE Goto(r, "createMD") /\ bucket = None
             /\ Carry(r, "create", acct, sse, NewRecord(acct, {"transient"}, sse), None)
    BY <1>1, <1>2, <1>3
  <1>4. CASE Goto(r, "addEntry") /\ OwnMarked(acct)
             /\ Carry(r, "create", acct, sse, NewRecord(acct, {}, FALSE), None)
    BY <1>1, <1>2, <1>4
  <1>5. CASE /\ Carry(r, "create", acct, sse, None, None)
             /\ \E again \in Legacy :
                 Goto(r, IF again /\ bucket.owner = acct THEN "ok" ELSE "failed")
    <2>1. Goto(r, "ok") \/ Goto(r, "failed")
      BY <1>5
    <2>2. QED
      BY <1>1, <1>5, <2>1
  <1>6. QED
    BY <1>0, <1>3, <1>4, <1>5

\* How a request that writes to the bucket arrives.
LEMMA WriteArrives ==
    ASSUME TypeInv, NEW r \in Reqs, NEW kind \in {"put", "putACL", "initiate"},
           WriteRead(r, kind)
    PROVE  \E acct \in Accounts, md \in Bucket \cup {None},
              label \in {"addEntry", "update", "store", "getShadow", "failed"} :
             Writes(r, kind, acct, md, label)
  <1> USE BucketAssumption DEF WriteRead, Arrives, Writes
  <1>0. PICK acct \in Accounts :
         \/ /\ MayRevive(acct)
            /\ Carry(r, kind, acct, FALSE, [bucket EXCEPT !.flags = {}], None)
            /\ Goto(r, IF Marked THEN FinishFirst(kind) ELSE AfterRead(kind))
         \/ /\ ~MayRevive(acct)
            /\ Carry(r, kind, acct, FALSE, None, None)
            /\ Goto(r, "failed")
    OBVIOUS
  <1>1. CASE ~MayRevive(acct)
    BY <1>0, <1>1
  <1>2. CASE MayRevive(acct)
    <2>1. bucket \in Bucket
      BY <1>2 DEF MayRevive, MayWrite, TypeInv, TypeOK
    <2>2. [bucket EXCEPT !.flags = {}] \in Bucket
      BY <2>1, MarksType
    <2>3. \/ Marked /\ Goto(r, "addEntry")
          \/ ~Marked /\ kind = "putACL" /\ Goto(r, "update")
          \/ ~Marked /\ kind = "put" /\ Goto(r, "store")
          \/ ~Marked /\ kind = "initiate" /\ Goto(r, "getShadow")
      BY <1>0, <1>2 DEF FinishFirst, AfterRead, AfterUpdate
    <2>4. QED
      BY <1>0, <1>2, <2>2, <2>3
  <1>3. QED
    BY <1>1, <1>2

\* How a bucket deletion arrives.
LEMMA DeleteArrives ==
    ASSUME TypeInv, NEW r \in Reqs, DeleteRead(r)
    PROVE  \E acct \in Accounts, md \in Bucket \cup {None},
              label \in {"checkObjects", "failed"} :
             Removes(r, acct, md, label)
  <1> USE BucketAssumption DEF DeleteRead, Arrives, Removes
  <1>0. PICK acct \in Accounts :
         \/ /\ bucket # None /\ bucket.owner = acct
            /\ Carry(r, "delete", acct, FALSE, [bucket EXCEPT !.flags = {"deleted"}], None)
            /\ Goto(r, "checkObjects")
         \/ /\ bucket # None => bucket.owner # acct
            /\ Carry(r, "delete", acct, FALSE, None, None)
            /\ Goto(r, "failed")
    OBVIOUS
  <1>1. CASE bucket # None => bucket.owner # acct
    BY <1>0, <1>1
  <1>2. CASE bucket # None /\ bucket.owner = acct
    <2>1. bucket \in Bucket
      BY <1>2 DEF TypeInv, TypeOK
    <2>2. [bucket EXCEPT !.flags = {"deleted"}] \in Bucket
      BY <2>1, MarksType
    <2>3. QED
      BY <1>0, <1>2, <2>1, <2>2
  <1>3. QED
    BY <1>1, <1>2

\* How the requests arrive that metadataValidateBucketAndObj shields from a
\* bucket in transition.
LEMMA ShieldArrives ==
    ASSUME TypeInv, NEW r \in Reqs, NEW kind \in Shielded, ShieldedRead(r, kind)
    PROVE  \E acct \in Accounts, md \in Bucket \cup {None}, key \in Reqs \cup {None},
              label \in {"removeObject", "ok", "failed"} :
             Meets(r, kind, acct, md, key, label)
  <1> USE BucketAssumption DEF ShieldedRead, Arrives, Meets
  <1>0. PICK acct \in Accounts :
         \/ /\ MarkedDeleted
            /\ Carry(r, kind, acct, FALSE, bucket, None)
            /\ Goto(r, "failed")
            /\ bg' = [bg EXCEPT ![r] = "delEntry"]
         \/ /\ bucket # None /\ ~Marked /\ kind = "get"
            /\ Carry(r, kind, acct, FALSE, None, None)
            /\ Goto(r, "ok")
            /\ UNCHANGED bg
         \/ /\ MayWrite(acct) /\ ~Marked /\ kind = "objectDelete"
            /\ \E key \in objects : Carry(r, kind, acct, FALSE, None, key)
            /\ Goto(r, "removeObject")
            /\ UNCHANGED bg
         \/ /\ bucket = None \/ (Marked /\ ~MarkedDeleted)
            /\ Carry(r, kind, acct, FALSE, None, None)
            /\ Goto(r, "failed")
            /\ UNCHANGED bg
    OBVIOUS
  <1>1. bucket \in Bucket \cup {None} /\ objects \subseteq Reqs
    BY DEF TypeInv, TypeOK
  <1>2. QED
    BY <1>0, <1>1 DEF MayWrite

\* A request that starts keeps the types.
LEMMA StartType ==
    ASSUME TypeInv, NEW r \in Reqs,
           CreateRead(r) \/ DeleteRead(r)
             \/ (\E kind \in {"put", "putACL", "initiate"} : WriteRead(r, kind))
             \/ (\E kind \in Shielded : ShieldedRead(r, kind))
    PROVE  TypeInv'
  <1>0. None \notin Bucket
    BY BucketAssumption
  <1>1. CASE CreateRead(r)
    <2>1. PICK acct \in Accounts, sse \in BOOLEAN, md \in Bucket \cup {None},
               label \in {"createMD", "addEntry", "ok", "failed"} :
             Creates(r, acct, sse, md, label)
      BY <1>1, CreateArrives
    <2>2. /\ label = "createMD" => /\ md # None
                                   /\ md.owner = acct /\ md.flags = {"transient"}
          /\ label = "addEntry" => md # None
      <3>1. /\ NewRecord(acct, {"transient"}, sse) \in Bucket
            /\ NewRecord(acct, {}, FALSE) \in Bucket
        BY RecordType
      <3>2. label \in {"createMD", "addEntry"} => md # None
        BY <1>0, <2>1, <3>1 DEF Creates
      <3>3. NewRecord(acct, {"transient"}, sse).owner = acct
        BY DEF NewRecord
      <3>4. NewRecord(acct, {"transient"}, sse).flags = {"transient"}
        BY DEF NewRecord
      <3>5. QED
        BY <2>1, <3>2, <3>3, <3>4 DEF Creates
    <2>3. label \in Labels /\ "create" \in AllKinds
      BY DEF Labels, AllKinds, Done
    <2>4. QED
      BY <2>1, <2>2, <2>3, ArriveType DEF Creates, Mending, Removing
  <1>2. CASE DeleteRead(r)
    <2>1. PICK acct \in Accounts, md \in Bucket \cup {None},
               label \in {"checkObjects", "failed"} : Removes(r, acct, md, label)
      BY <1>2, DeleteArrives
    <2>2. label = "checkObjects" => md # None /\ md.flags = {"deleted"}
      <3>1. ASSUME bucket \in Bucket
            PROVE  /\ [bucket EXCEPT !.flags = {"deleted"}] \in Bucket
                   /\ [bucket EXCEPT !.flags = {"deleted"}].flags = {"deleted"}
        BY <3>1, MarksType
      <3>2. QED
        BY <1>0, <2>1, <3>1 DEF Removes
    <2>3. label \in Labels /\ "delete" \in AllKinds
      BY DEF Labels, AllKinds, Done
    <2>4. QED
      BY <2>1, <2>2, <2>3, ArriveType DEF Removes, Mending, Removing
  <1>3. ASSUME NEW kind \in {"put", "putACL", "initiate"}, WriteRead(r, kind)
        PROVE  TypeInv'
    <2>1. PICK acct \in Accounts, md \in Bucket \cup {None},
               label \in {"addEntry", "update", "store", "getShadow", "failed"} :
             Writes(r, kind, acct, md, label)
      BY <1>3, WriteArrives
    <2>2. label # "failed" => md # None
      <3>1. ASSUME bucket \in Bucket
            PROVE  [bucket EXCEPT !.flags = {}] \in Bucket
        BY <3>1, MarksType
      <3>2. QED
        BY <1>0, <2>1, <3>1 DEF Writes, MayRevive, MayWrite, TypeInv, TypeOK
    <2>3. label \in Labels /\ kind \in AllKinds
      BY DEF Labels, AllKinds, Done
    <2>4. QED
      BY <2>1, <2>2, <2>3, ArriveType DEF Writes, Mending, Removing
  <1>4. ASSUME NEW kind \in Shielded, ShieldedRead(r, kind)
        PROVE  TypeInv'
    <2>1. PICK acct \in Accounts, md \in Bucket \cup {None}, key \in Reqs \cup {None},
               label \in {"removeObject", "ok", "failed"} :
             Meets(r, kind, acct, md, key, label)
      BY <1>4, ShieldArrives
    <2>2. label \in Labels /\ kind \in AllKinds /\ (MarkedDeleted => bucket # None)
      BY DEF Labels, AllKinds, Done, Shielded, MarkedDeleted
    <2>3. QED
      BY <2>1, <2>2, ArriveType DEF Meets, Mending, Removing
  <1>5. QED
    BY <1>1, <1>2, <1>3, <1>4

\* The calls of a request that has started.
WriterCalls(r) ==
    \/ CreateMD(r) \/ AddEntry(r) \/ CreateUsers(r) \/ Update(r)
    \/ Store(r) \/ RemoveObject(r)
    \/ GetShadow(r) \/ CreateShadow(r) \/ PutOverview(r)

RemoverCalls(r) ==
    \/ CheckObjects(r) \/ ListUploads(r) \/ AbortUploads(r) \/ DropShadow(r)
    \/ Flag(r) \/ DelEntry(r) \/ DelBucket(r)
    \/ BgDelEntry(r) \/ BgDelBucket(r)

Calls(r) == WriterCalls(r) \/ RemoverCalls(r)

\* A step of a request that has started: where it may go, and what it keeps.
LEMMA GoType ==
    ASSUME TypeInv, NEW r \in Reqs, NEW label \in Labels, Goto(r, label),
           label # "idle", label # "createMD", pc[r] # "failed",
           label \in Mending => pc[r] \in Mending \cup {"createMD"},
           label = "store" => ctx[r].kind = "put",
           label \in {"getShadow", "createShadow", "putOverview"} => ctx[r].kind = "initiate",
           label = "removeObject" => FALSE,
           label \in Removing => pc[r] \in Removing,
           UNCHANGED <<bg, ctx>>
    PROVE  /\ pc' \in [Reqs -> Labels]
           /\ RightKind' /\ RightContext'
  <1>1. /\ pc' \in [Reqs -> Labels] /\ pc'[r] = label
        /\ \A q \in Reqs \ {r} : pc'[q] = pc[q]
    BY GotoType DEF TypeInv, TypeOK
  <1>2. RightKind'
    BY <1>1 DEF TypeInv, RightKind, Mending, Removing
  <1>3. RightContext'
    BY <1>1 DEF TypeInv, RightContext, Mending, Removing
  <1>4. QED
    BY <1>1, <1>2, <1>3

\* The deletion that lists and aborts uploads keeps the rest of what it carries.
LEMMA UploadsType ==
    ASSUME TypeInv, NEW r \in Reqs, NEW up \in SUBSET Reqs,
           pc[r] \in Removing,
           ctx' = [ctx EXCEPT ![r].uploads = up],
           NEW label \in Labels, Goto(r, label),
           label \in Removing \cup {"failed"},
           UNCHANGED bg
    PROVE  /\ ctx' \in [Reqs -> Context]
           /\ \A q \in Reqs : /\ ctx'[q].kind = ctx[q].kind /\ ctx'[q].acct = ctx[q].acct
                              /\ ctx'[q].md = ctx[q].md /\ ctx'[q].key = ctx[q].key
           /\ RightKind' /\ RightContext'
  <1>1. /\ pc' \in [Reqs -> Labels] /\ pc'[r] = label
        /\ \A q \in Reqs \ {r} : pc'[q] = pc[q]
    BY GotoType DEF TypeInv, TypeOK
  <1>2. ctx' \in [Reqs -> Context]
    BY DEF TypeInv, TypeOK, Context
  <1>3. \A q \in Reqs : /\ ctx'[q].kind = ctx[q].kind /\ ctx'[q].acct = ctx[q].acct
                        /\ ctx'[q].md = ctx[q].md /\ ctx'[q].key = ctx[q].key
    BY DEF TypeInv, TypeOK, Context
  <1>4. RightKind'
    BY <1>1, <1>3 DEF TypeInv, RightKind, Mending, Removing
  <1>5. RightContext'
    BY <1>1, <1>3 DEF TypeInv, RightContext, Mending, Removing
  <1>6. QED
    BY <1>2, <1>3, <1>4, <1>5

\* A request keeps the types whatever call it makes.
LEMMA CallType ==
    ASSUME TypeInv, NEW r \in Reqs, Calls(r)
    PROVE  TypeInv'
  <1> USE DEF TypeInv
  <1>0. pc[r] \in Mending \cup Removing \cup {"createMD"} =>
            ctx[r].acct \in Accounts /\ ctx[r].md \in Bucket
    BY DEF RightContext
  <1>1. CASE CreateMD(r)
    <2>1. /\ pc' \in [Reqs -> Labels] /\ RightKind' /\ RightContext'
      BY <1>1, GoType, BucketAssumption
         DEF CreateMD, RightKind, RightContext, Mending, Removing, Labels, Done,
             stored
    <2>2. QED
      BY <1>0, <1>1, <2>1 DEF CreateMD, TypeOK
  <1>2. CASE AddEntry(r)
    <2>1. /\ pc' \in [Reqs -> Labels] /\ RightKind' /\ RightContext'
      BY <1>2, GoType, BucketAssumption
         DEF AddEntry, RightKind, RightContext, Mending, Removing, Labels, Done,
             stored
    <2>2. QED
      BY <1>0, <1>2, <2>1 DEF AddEntry, TypeOK, Mending
  <1>3. CASE CreateUsers(r)
    <2>1. /\ pc' \in [Reqs -> Labels] /\ RightKind' /\ RightContext'
      BY <1>3, GoType, BucketAssumption
         DEF CreateUsers, RightKind, RightContext, Mending, Removing, Labels,
             Done, stored
    <2>2. QED
      BY <1>3, <2>1 DEF CreateUsers, TypeOK, stored
  <1>4. CASE Update(r)
    <2>1. /\ pc' \in [Reqs -> Labels] /\ RightKind' /\ RightContext'
      BY <1>4, GoType, BucketAssumption
         DEF Update, PutRecord, AfterUpdate, RightKind, RightContext, Mending,
             Removing, Labels, Done, stored
    <2>2. /\ ctx[r].acct \in Accounts /\ ctx[r].sse \in BOOLEAN
          /\ [ctx[r].md EXCEPT !.flags = {}] \in Bucket
      BY <1>0, <1>4, MarksType DEF Update, Mending, TypeOK, Context
    <2>3. bucket' \in Bucket \cup {None}
      BY <1>4, <2>2 DEF Update, PutRecord
    <2>4. kept' \in [acct: Accounts, sse: BOOLEAN] \cup {None}
      BY <1>4, <2>2 DEF Update, TypeOK
    <2>5. QED
      BY <1>4, <2>1, <2>3, <2>4 DEF Update, TypeOK
  <1>5. CASE Store(r)
    <2>1. /\ pc' \in [Reqs -> Labels] /\ RightKind' /\ RightContext'
      BY <1>5, GoType, BucketAssumption
         DEF Store, RightKind, RightContext, Mending, Removing, Labels, Done,
             stored
    <2>2. QED
      BY <1>5, <2>1 DEF Store, TypeOK, stored
  <1>6. CASE RemoveObject(r)
    <2>1. /\ pc' \in [Reqs -> Labels] /\ RightKind' /\ RightContext'
      BY <1>6, GoType, BucketAssumption
         DEF RemoveObject, RightKind, RightContext, Mending, Removing, Labels,
             Done, stored
    <2>2. QED
      BY <1>6, <2>1 DEF RemoveObject, TypeOK, stored
  <1>7. CASE GetShadow(r)
    <2>1. /\ pc' \in [Reqs -> Labels] /\ RightKind' /\ RightContext'
      BY <1>7, GoType, BucketAssumption
         DEF GetShadow, RightKind, RightContext, Mending, Removing, Labels,
             Done, stored
    <2>2. QED
      BY <1>7, <2>1 DEF GetShadow, TypeOK, stored
  <1>8. CASE CreateShadow(r)
    <2>1. /\ pc' \in [Reqs -> Labels] /\ RightKind' /\ RightContext'
      BY <1>8, GoType, BucketAssumption
         DEF CreateShadow, RightKind, RightContext, Mending, Removing, Labels,
             Done, stored
    <2>2. QED
      BY <1>8, <2>1 DEF CreateShadow, TypeOK, stored
  <1>9. CASE PutOverview(r)
    <2>1. /\ pc' \in [Reqs -> Labels] /\ RightKind' /\ RightContext'
      BY <1>9, GoType, BucketAssumption
         DEF PutOverview, RightKind, RightContext, Mending, Removing, Labels,
             Done, stored
    <2>2. QED
      BY <1>9, <2>1 DEF PutOverview, TypeOK, stored
  <1>10. CASE CheckObjects(r)
    <2>1. /\ pc' \in [Reqs -> Labels] /\ RightKind' /\ RightContext'
      BY <1>10, GoType, BucketAssumption
         DEF CheckObjects, RightKind, RightContext, Mending, Removing, Labels,
             Done, stored
    <2>2. QED
      BY <1>10, <2>1 DEF CheckObjects, TypeOK, stored
  <1>11. CASE ListUploads(r)
    <2>1. PICK up \in SUBSET Reqs :
             ctx' = [ctx EXCEPT ![r].uploads = up]
      BY <1>11 DEF ListUploads, TypeOK, Context
    <2>2. PICK label \in Labels :
             /\ Goto(r, label)
             /\ label \in Removing \cup {"failed"}
      BY <1>11 DEF ListUploads, TypeOK, Goto, Labels, Removing
    <2>3. /\ pc[r] \in Removing /\ UNCHANGED bg
          /\ pc' \in [Reqs -> Labels]
      BY <1>11, <2>2, GotoType DEF ListUploads, TypeOK, Removing
    <2>4. ctx' \in [Reqs -> Context] /\ RightKind' /\ RightContext'
      BY <2>1, <2>2, <2>3, UploadsType
    <2>5. QED
      BY <1>11, <2>3, <2>4 DEF ListUploads, TypeOK, stored
  <1>12. CASE AbortUploads(r)
    <2>1. PICK up \in SUBSET Reqs :
             ctx' = [ctx EXCEPT ![r].uploads = up]
      BY <1>12 DEF AbortUploads, TypeOK, Context
    <2>2. PICK label \in Labels :
             /\ Goto(r, label)
             /\ label \in Removing \cup {"failed"}
      <3>1. pc[r] = "abortUploads" /\ pc \in [Reqs -> Labels]
        BY <1>12 DEF AbortUploads, TypeOK
      <3>2. UNCHANGED pc => Goto(r, "abortUploads")
        BY <3>1 DEF Goto
      <3>3. \/ Goto(r, "dropShadow") \/ Goto(r, "failed") \/ UNCHANGED pc
        BY <1>12 DEF AbortUploads
      <3>4. QED
        BY <3>2, <3>3 DEF Labels, Done, Removing
    <2>3. /\ pc[r] \in Removing /\ UNCHANGED bg
          /\ pc' \in [Reqs -> Labels]
      BY <1>12, <2>2, GotoType DEF AbortUploads, TypeOK, Removing
    <2>4. ctx' \in [Reqs -> Context] /\ RightKind' /\ RightContext'
      BY <2>1, <2>2, <2>3, UploadsType
    <2>5. QED
      BY <1>12, <2>3, <2>4 DEF AbortUploads, TypeOK, stored
  <1>13. CASE DropShadow(r)
    <2>1. /\ pc' \in [Reqs -> Labels] /\ RightKind' /\ RightContext'
      BY <1>13, GoType, BucketAssumption
         DEF DropShadow, RightKind, RightContext, Mending, Removing, Labels,
             Done, stored
    <2>2. QED
      BY <1>13, <2>1 DEF DropShadow, TypeOK, stored
  <1>14. CASE Flag(r)
    <2>1. /\ pc' \in [Reqs -> Labels] /\ RightKind' /\ RightContext'
      BY <1>14, GoType, BucketAssumption
         DEF Flag, PutRecord, AfterUpdate, RightKind, RightContext, Mending,
             Removing, Labels, Done, stored
    <2>2. QED
      BY <1>0, <1>14, <2>1 DEF Flag, PutRecord, TypeOK, Removing
  <1>15. CASE DelEntry(r)
    <2>1. /\ pc' \in [Reqs -> Labels] /\ RightKind' /\ RightContext'
      BY <1>15, GoType, BucketAssumption
         DEF DelEntry, RightKind, RightContext, Mending, Removing, Labels, Done,
             stored
    <2>2. QED
      BY <1>15, <2>1 DEF DelEntry, TypeOK, stored
  <1>16. CASE DelBucket(r)
    <2>1. /\ pc' \in [Reqs -> Labels] /\ RightKind' /\ RightContext'
      BY <1>16, GoType, BucketAssumption
         DEF DelBucket, RightKind, RightContext, Mending, Removing, Labels,
             Done, stored
    <2>2. QED
      BY <1>16, <2>1 DEF DelBucket, TypeOK, stored
  <1>17. CASE BgDelEntry(r)
    <2>1. /\ pc' \in [Reqs -> Labels] /\ RightKind' /\ RightContext'
      BY <1>17 DEF BgDelEntry, TypeOK, RightKind, RightContext
    <2>2. QED
      BY <1>17, <2>1 DEF BgDelEntry, TypeOK, stored
  <1>18. CASE BgDelBucket(r)
    <2>1. /\ pc' \in [Reqs -> Labels] /\ RightKind' /\ RightContext'
      BY <1>18 DEF BgDelBucket, TypeOK, RightKind, RightContext
    <2>2. QED
      BY <1>18, <2>1 DEF BgDelBucket, TypeOK, stored
  <1>19. QED
    BY <1>1, <1>2, <1>3, <1>4, <1>5, <1>6, <1>7, <1>8, <1>9, <1>10, <1>11,
       <1>12, <1>13, <1>14, <1>15, <1>16, <1>17, <1>18
       DEF Calls, WriterCalls, RemoverCalls

\* No request has arrived.
LEMMA InitType == Init => TypeInv
  <1> SUFFICES ASSUME Init PROVE TypeInv
    OBVIOUS
  <1> USE BucketAssumption DEF Init
  <1>1. \A r \in Reqs : /\ pc[r] = "idle" /\ bg[r] = "none"
                        /\ ctx[r].kind = None /\ ctx[r].key = None
                        /\ ctx[r] \in Context
    BY DEF Context
  <1>2. TypeOK
    BY <1>1 DEF TypeOK, Labels
  <1>3. RightKind /\ RightContext
    BY <1>1 DEF RightKind, RightContext, Mending, Removing
  <1>4. QED
    BY <1>2, <1>3 DEF TypeInv

\* Every step keeps the types.
LEMMA NextType == TypeInv /\ [Next]_vars => TypeInv'
  <1> SUFFICES ASSUME TypeInv, [Next]_vars PROVE TypeInv'
    OBVIOUS
  <1>1. CASE UNCHANGED vars
    BY <1>1 DEF vars, TypeInv, TypeOK, RightKind, RightContext
  <1>2. ASSUME NEW r \in Reqs, Step(r) PROVE TypeInv'
    BY <1>2, StartType, CallType DEF Step, Calls, WriterCalls, RemoverCalls
  <1>3. ASSUME NEW r \in Reqs, Abandon(r) PROVE TypeInv'
    <2>1. CASE Running(r) /\ Goto(r, "failed") /\ UNCHANGED bg
      <3>1. /\ pc' \in [Reqs -> Labels] /\ RightKind' /\ RightContext'
        BY <1>3, <2>1, GoType
           DEF Abandon, TypeInv, Mending, Removing, Labels, Done, Running
      <3>2. QED
        BY <1>3, <3>1, <2>1 DEF Abandon, TypeInv, TypeOK, stored
    <2>2. CASE bg' = [bg EXCEPT ![r] = "none"] /\ UNCHANGED pc
      BY <1>3, <2>2 DEF Abandon, TypeInv, TypeOK, RightKind, RightContext, stored
    <2>3. QED
      BY <1>3, <2>1, <2>2 DEF Abandon
  <1>4. QED
    BY <1>1, <1>2, <1>3 DEF Next

\* The variables keep their types, whatever the clients do: in particular every
\* record that a request writes back, however stale, is a record.
THEOREM TypeCorrect == Spec => []TypeOK
  <1>1. TypeInv => TypeOK
    BY DEF TypeInv
  <1>2. QED
    BY InitType, NextType, <1>1, PTL DEF Spec

-----------------------------------------------------------------------------
(* Deletions that run alone *)

\* Nobody runs beside a deletion, in the background or not.
Alone ==
    \A q, r \in Reqs : Deleting(q) /\ (Running(r) \/ Deleting(r)) => q = r

\* The request that will write the record has its owner right, and is the
\* owner's where the record is marked deleted.
MendSound ==
    \A r \in Reqs : pc[r] \in Mending =>
        /\ bucket # None
        /\ ctx[r].md.owner = bucket.owner
        /\ ctx[r].acct \in {bucket.owner} \cup Writers
        /\ MarkedDeleted \/ ctx[r].kind = "create" => ctx[r].acct = bucket.owner
        /\ pc[r] = "update" /\ ctx[r].kind = "create" => ctx[r].acct \in entries

\* The one that writes into the bucket finds it there and unmarked.
WriteSound ==
    \A r \in Reqs : pc[r] \in Writing => bucket # None /\ bucket.flags = {}

\* What a deletion has made sure of, label by label.
RemoveSound ==
    \A r \in Reqs : pc[r] \in Removing =>
        /\ bucket # None
        /\ ctx[r].md.owner = bucket.owner
        /\ ctx[r].acct = bucket.owner
        /\ pc[r] # "checkObjects" => objects = {}
        /\ pc[r] \in {"flag", "delEntry", "delBucket"} => shadow = None
        /\ pc[r] \in {"delEntry", "delBucket"} => MarkedDeleted
        /\ pc[r] = "delBucket" => entries \subseteq Writers

BackSound ==
    \A r \in Reqs : bg[r] # "none" =>
        /\ MarkedDeleted
        /\ ctx[r].md.owner = bucket.owner
        /\ bg[r] = "delBucket" => entries \subseteq Writers

LoneInv ==
    /\ TypeInv
    /\ Alone
    /\ MendSound /\ WriteSound /\ RemoveSound /\ BackSound
    /\ KeptStands /\ DeletedIsEmpty /\ AcknowledgedObjectsKept
    /\ ListedOnlyWhileOwned

\* Beside a deletion nothing is written; beside a request that will write,
\* nothing is deleted.
LEMMA BesideDeletion ==
    ASSUME Alone, NEW r \in Reqs, pc[r] \in Removing \/ bg[r] # "none", RightKind
    PROVE  \A q \in Reqs \ {r} :
               /\ bg[q] = "none"
               /\ pc[q] \notin Mending \cup Writing \cup Removing \cup {"createMD"}
  <1>1. Deleting(r)
    BY DEF Deleting, Running, Removing, Done, RightKind
  <1>2. \A q \in Reqs \ {r} : ~Running(q) /\ ~Deleting(q)
    BY <1>1 DEF Alone
  <1>3. QED
    BY <1>2 DEF Running, Deleting, Done, Mending, Writing, Removing

\* Nothing removes a bucket that a request mends or writes to.
LEMMA BesideWriting ==
    ASSUME Alone, RightKind, RightContext, NEW r \in Reqs,
           pc[r] \in Mending \cup Writing \cup {"createMD"}
    PROVE  /\ \A q \in Reqs : bg[q] = "none" /\ pc[q] \notin Removing
  <1>1. Running(r)
    BY DEF Running, Done, Mending, Writing
  <1>2. ctx[r].kind # "delete"
    BY DEF RightKind, Mending, Writing
  <1>3. \A q \in Reqs : pc[q] \in Removing => q # r
    BY DEF Removing, Mending, Writing
  <1>4. \A q \in Reqs : pc[q] \in Removing => Deleting(q)
    BY DEF Removing, Deleting, Running, RightKind, Done
  <1>5. \A q \in Reqs : ~(bg[q] # "none" /\ q # r)
    BY <1>1 DEF Alone, Deleting
  <1>6. bg[r] = "none"
    BY DEF RightContext, Mending, Writing
  <1>7. QED
    BY <1>1, <1>3, <1>4, <1>5, <1>6 DEF Alone

\* A step of one request keeps deletions alone, unless it makes one.
LEMMA AloneKept ==
    ASSUME Alone, NEW r \in Reqs,
           \A q \in Reqs \ {r} : /\ pc'[q] = pc[q] /\ bg'[q] = bg[q]
                                 /\ ctx'[q].kind = ctx[q].kind,
           Deleting(r)' => Deleting(r),
           Running(r)' => Running(r)
    PROVE  Alone'
  <1>1. \A q \in Reqs : Deleting(q)' => Deleting(q)
    BY DEF Deleting, Running
  <1>2. \A q \in Reqs : Running(q)' => Running(q)
    BY DEF Running
  <1>3. QED
    BY <1>1, <1>2 DEF Alone

\* What a call of a request leaves alone, and where it goes.
LEMMA CallFrames ==
    ASSUME TypeInv, NEW r \in Reqs, Calls(r)
    PROVE  /\ \A q \in Reqs \ {r} :
                  pc'[q] = pc[q] /\ bg'[q] = bg[q] /\ ctx'[q] = ctx[q]
           /\ \A q \in Reqs : /\ ctx'[q].kind = ctx[q].kind /\ ctx'[q].acct = ctx[q].acct
                              /\ ctx'[q].md = ctx[q].md /\ ctx'[q].key = ctx[q].key
           /\ bg'[r] # "none" => bg[r] # "none"
           /\ Running(r) \/ UNCHANGED pc
           /\ usersBucket \in BOOLEAN
  <1> USE DEF Calls, WriterCalls, RemoverCalls, CreateMD, AddEntry, CreateUsers,
              Update, Store, RemoveObject, GetShadow, CreateShadow, PutOverview,
              CheckObjects, ListUploads, AbortUploads, DropShadow, Flag, DelEntry,
              DelBucket, BgDelEntry, BgDelBucket
  <1>1. /\ pc \in [Reqs -> Labels] /\ ctx \in [Reqs -> Context]
        /\ bg \in [Reqs -> {"none", "delEntry", "delBucket"}]
    BY DEF TypeInv, TypeOK
  <1>2. \A q \in Reqs \ {r} : pc'[q] = pc[q] /\ bg'[q] = bg[q] /\ ctx'[q] = ctx[q]
    BY <1>1 DEF Goto
  <1>3. \A q \in Reqs : /\ ctx'[q].kind = ctx[q].kind /\ ctx'[q].acct = ctx[q].acct
                        /\ ctx'[q].md = ctx[q].md /\ ctx'[q].key = ctx[q].key
    BY <1>1 DEF Context
  <1>4. bg'[r] # "none" => bg[r] # "none"
    BY <1>1
  <1>5. Running(r) \/ UNCHANGED pc
    BY DEF Running, Done
  <1>6. QED
    BY <1>2, <1>3, <1>4, <1>5 DEF TypeInv, TypeOK

\* No call of a running request ends another's solitude.
LEMMA CallAlone ==
    ASSUME TypeInv, Alone, NEW r \in Reqs, Calls(r)
    PROVE  Alone'
  <1>1. (Running(r)' => Running(r)) /\ (Deleting(r)' => Deleting(r))
    BY CallFrames DEF Running, Deleting
  <1>2. QED
    BY <1>1, CallFrames, AloneKept

\* Each part of the invariant in turn, with the calls that may disturb it.
LEMMA WriterBeside ==
    ASSUME LoneInv, NEW r \in Reqs, WriterCalls(r)
    PROVE  /\ \A q \in Reqs : bg[q] = "none" /\ pc[q] \notin Removing
           /\ pc'[r] \notin Removing
  <1> USE DEF WriterCalls, CreateMD, AddEntry, CreateUsers, Update, Store,
              RemoveObject, GetShadow, CreateShadow, PutOverview
  <1>1. pc[r] \in Mending \cup Writing \cup {"createMD"}
    BY DEF Mending, Writing
  <1>2. pc'[r] \notin Removing
    BY DEF Removing, Goto, AfterUpdate, LoneInv, TypeInv, TypeOK, RightKind,
           Mending
  <1>3. QED
    BY <1>1, <1>2, BesideWriting DEF LoneInv, TypeInv

\* A request that removes the bucket has it to itself.
LEMMA RemoverBeside ==
    ASSUME LoneInv, NEW r \in Reqs, RemoverCalls(r)
    PROVE  /\ \A q \in Reqs \ {r} :
                  /\ bg[q] = "none"
                  /\ pc[q] \notin Mending \cup Writing \cup Removing \cup {"createMD"}
           /\ pc[r] \notin Mending \cup Writing \cup {"createMD"}
           /\ pc'[r] \notin Mending \cup Writing \cup {"createMD"}
  <1> USE DEF RemoverCalls, CheckObjects, ListUploads, AbortUploads, DropShadow,
              Flag, DelEntry, DelBucket, BgDelEntry, BgDelBucket
  <1>1. pc[r] \in Removing \/ bg[r] # "none"
    BY DEF Removing
  <1>2. pc[r] \in Removing \cup {"failed"} /\ pc'[r] \in Removing \cup Done
    BY DEF Removing, Done, Goto, LoneInv, TypeInv, TypeOK, RightContext
  <1>3. QED
    BY <1>1, <1>2, BesideDeletion
       DEF LoneInv, TypeInv, Mending, Writing, Removing, Done

\* The record that a request without a mark writes back.
LEMMA UpdateRecord ==
    ASSUME LoneInv, NEW r \in Reqs, Update(r)
    PROVE  /\ bucket # None /\ bucket' \in Bucket /\ bucket' # None
           /\ bucket'.owner = bucket.owner /\ bucket'.flags = {}
           /\ ctx[r].md.owner = bucket.owner
           /\ Goto(r, AfterUpdate(ctx[r].kind))
           /\ ctx[r].kind \in {"create", "put", "putACL", "initiate"}
  <1>1. /\ pc[r] = "update" /\ pc[r] \in Mending
    BY DEF Update, Mending
  <1>2. /\ bucket # None /\ ctx[r].md \in Bucket /\ ctx[r].md.owner = bucket.owner
        /\ ctx[r].kind \in {"create", "put", "putACL", "initiate"}
    BY <1>1 DEF LoneInv, MendSound, TypeInv, RightContext, RightKind
  <1>3. bucket' = [ctx[r].md EXCEPT !.flags = {}]
    BY <1>2 DEF Update, PutRecord
  <1>4. bucket' \in Bucket /\ bucket'.owner = ctx[r].md.owner /\ bucket'.flags = {}
    BY <1>2, <1>3 DEF Bucket
  <1>5. bucket' # None
    BY <1>4, BucketAssumption
  <1>6. QED
    BY <1>2, <1>4, <1>5 DEF Update

\* No call misleads a request that mends a marked bucket.
LEMMA CallMend ==
    ASSUME LoneInv, NEW r \in Reqs, Calls(r)
    PROVE  MendSound'
  <1> USE DEF MendSound, LoneInv
  <1>1. CASE RemoverCalls(r)
    BY <1>1, RemoverBeside, CallFrames DEF Calls
  <1>2. CASE CreateMD(r)
    <2>1. CASE bucket = None
      <3>1. /\ bucket' # None /\ bucket'.flags = {"transient"}
            /\ bucket' = ctx[r].md /\ ctx[r].acct = bucket'.owner
        BY <1>2, <2>1, BucketAssumption DEF CreateMD, TypeInv, RightContext
      <3>2. \A q \in Reqs \ {r} : pc'[q] \notin Mending
        BY <1>2, <2>1, CallFrames DEF Calls, WriterCalls
      <3>3. pc'[r] = "addEntry"
        BY <1>2, <2>1 DEF CreateMD, Goto, TypeInv, TypeOK
      <3>4. QED
        BY <1>2, <3>1, <3>2, <3>3, CallFrames
           DEF Calls, WriterCalls, MarkedDeleted
    <2>2. CASE bucket # None
      BY <1>2, <2>2, CallFrames DEF Calls, WriterCalls, CreateMD, Goto, Mending,
                                    MarkedDeleted, TypeInv, TypeOK
    <2>3. QED
      BY <2>1, <2>2
  <1>3. CASE AddEntry(r)
    BY <1>3, CallFrames
       DEF Calls, WriterCalls, AddEntry, Goto, Mending, MarkedDeleted, TypeInv,
           TypeOK
  <1>4. CASE CreateUsers(r)
    BY <1>4, CallFrames
       DEF Calls, WriterCalls, CreateUsers, Goto, Mending, MarkedDeleted,
           TypeInv, TypeOK
  <1>5. CASE Update(r)
    <2>1. pc'[r] \notin Mending
      BY <1>5, UpdateRecord DEF Goto, AfterUpdate, Mending, TypeInv, TypeOK
    <2>2. UNCHANGED entries /\ ~MarkedDeleted'
      BY <1>5, UpdateRecord DEF Update, MarkedDeleted
    <2>3. QED
      BY <1>5, <2>1, <2>2, UpdateRecord, CallFrames DEF Calls, WriterCalls
  <1>6. CASE Store(r) \/ RemoveObject(r) \/ GetShadow(r) \/ CreateShadow(r) \/ PutOverview(r)
    BY <1>6, CallFrames
       DEF Calls, WriterCalls, Store, RemoveObject, GetShadow, CreateShadow,
           PutOverview, Goto, Mending, MarkedDeleted, TypeInv, TypeOK, stored
  <1>7. QED
    BY <1>1, <1>2, <1>3, <1>4, <1>5, <1>6 DEF Calls, WriterCalls

\* No call takes the bucket from under a request that writes to it.
LEMMA CallWrite ==
    ASSUME LoneInv, NEW r \in Reqs, Calls(r)
    PROVE  WriteSound'
  <1> USE DEF WriteSound, LoneInv
  <1>1. CASE RemoverCalls(r)
    BY <1>1, RemoverBeside, CallFrames DEF Calls
  <1>2. CASE CreateMD(r)
    BY <1>2, CallFrames
       DEF Calls, WriterCalls, CreateMD, Goto, Writing, TypeInv, TypeOK
  <1>3. CASE Update(r)
    BY <1>3, CallFrames, UpdateRecord DEF Calls, WriterCalls
  <1>4. CASE AddEntry(r) \/ CreateUsers(r) \/ Store(r) \/ RemoveObject(r)
             \/ GetShadow(r) \/ CreateShadow(r) \/ PutOverview(r)
    <2>1. UNCHANGED bucket
      BY <1>4
         DEF AddEntry, CreateUsers, Store, RemoveObject, GetShadow,
             CreateShadow, PutOverview, stored
    <2>2. pc'[r] \in Writing => pc[r] \in Writing
      BY <1>4
         DEF AddEntry, CreateUsers, Store, RemoveObject, GetShadow,
             CreateShadow, PutOverview, Goto, Writing, TypeInv, TypeOK
    <2>3. QED
      BY <1>4, <2>1, <2>2, CallFrames DEF Calls, WriterCalls
  <1>5. QED
    BY <1>1, <1>2, <1>3, <1>4 DEF Calls, WriterCalls

\* No call brings back what a deletion found empty.
LEMMA CallRemove ==
    ASSUME LoneInv, NEW r \in Reqs, Calls(r)
    PROVE  RemoveSound' /\ BackSound'
  <1> USE DEF LoneInv
  <1>0. /\ TypeOK /\ RightContext /\ pc \in [Reqs -> Labels]
        /\ bg \in [Reqs -> {"none", "delEntry", "delBucket"}]
    BY DEF TypeInv, TypeOK
  <1>1. CASE WriterCalls(r)
    BY <1>1, WriterBeside, CallFrames DEF Calls, RemoveSound, BackSound
  <1>2. CASE CheckObjects(r)
    BY <1>0, <1>2, CallFrames, RemoverBeside
       DEF Calls, RemoverCalls, CheckObjects, IsEmpty, Goto, Removing,
           RemoveSound, BackSound, MarkedDeleted, stored
  <1>3. CASE ListUploads(r)
    BY <1>0, <1>3, CallFrames, RemoverBeside
       DEF Calls, RemoverCalls, ListUploads, Goto, Removing, RemoveSound,
           BackSound, MarkedDeleted, stored
  <1>4. CASE AbortUploads(r)
    BY <1>0, <1>4, CallFrames, RemoverBeside
       DEF Calls, RemoverCalls, AbortUploads, Goto, Removing, RemoveSound,
           BackSound, MarkedDeleted
  <1>5. CASE DropShadow(r)
    BY <1>0, <1>5, CallFrames, RemoverBeside
       DEF Calls, RemoverCalls, DropShadow, Goto, Removing, RemoveSound,
           BackSound, MarkedDeleted
  <1>6. CASE Flag(r)
    BY <1>0, <1>6, CallFrames, RemoverBeside, BucketAssumption
       DEF Calls, RemoverCalls, Flag, PutRecord, Goto, Removing, RemoveSound,
           BackSound, MarkedDeleted, RightContext
  <1>7. CASE DelEntry(r)
    BY <1>0, <1>7, CallFrames, RemoverBeside
       DEF Calls, RemoverCalls, DelEntry, Goto, Removing, RemoveSound,
           BackSound, MarkedDeleted, ListedOnlyWhileOwned
  <1>8. CASE DelBucket(r)
    <2>1. pc'[r] \notin Removing /\ bg'[r] = "none"
      BY <1>0, <1>8 DEF DelBucket, Goto, Removing, RightContext
    <2>2. QED
      BY <1>8, <2>1, CallFrames, RemoverBeside
         DEF Calls, RemoverCalls, RemoveSound, BackSound
  <1>9. CASE BgDelEntry(r)
    BY <1>0, <1>9, CallFrames, RemoverBeside
       DEF Calls, RemoverCalls, BgDelEntry, Removing, RemoveSound, BackSound,
           MarkedDeleted, ListedOnlyWhileOwned, RightContext
  <1>10. CASE BgDelBucket(r)
    <2>1. pc'[r] \notin Removing /\ bg'[r] = "none"
      BY <1>0, <1>10 DEF BgDelBucket, Removing, RightContext
    <2>2. QED
      BY <1>10, <2>1, CallFrames, RemoverBeside
         DEF Calls, RemoverCalls, RemoveSound, BackSound
  <1>11. QED
    BY <1>1, <1>2, <1>3, <1>4, <1>5, <1>6, <1>7, <1>8, <1>9, <1>10
       DEF Calls, RemoverCalls

\* What the client was told: the bucket stands, and its objects.
LEMMA CallKept ==
    ASSUME LoneInv, NEW r \in Reqs, Calls(r)
    PROVE  KeptStands'
  <1> USE DEF LoneInv, KeptStands
  <1>1. CASE CreateMD(r)
    BY <1>1 DEF CreateMD
  <1>2. CASE AddEntry(r)
    BY <1>2 DEF AddEntry
  <1>3. CASE Update(r)
    BY <1>3, UpdateRecord DEF Update, MendSound, Mending
  <1>4. CASE Flag(r)
    BY <1>4 DEF Flag
  <1>5. CASE DelEntry(r) \/ DelBucket(r) \/ BgDelEntry(r) \/ BgDelBucket(r)
    BY <1>5
       DEF DelEntry, DelBucket, BgDelEntry, BgDelBucket, RemoveSound, BackSound,
           Removing, MarkedDeleted
  <1>6. CASE UNCHANGED <<bucket, entries, kept>>
    BY <1>6
  <1>7. QED
    BY <1>1, <1>2, <1>3, <1>4, <1>5, <1>6
       DEF Calls, WriterCalls, RemoverCalls, CreateUsers, Store, RemoveObject,
           GetShadow, CreateShadow, PutOverview, CheckObjects, ListUploads,
           AbortUploads, DropShadow, stored

\* A bucket marked deleted stays empty.
LEMMA CallDeleted ==
    ASSUME LoneInv, NEW r \in Reqs, Calls(r)
    PROVE  DeletedIsEmpty'
  <1> USE DEF LoneInv, DeletedIsEmpty, MarkedDeleted
  <1>1. CASE CreateMD(r)
    BY <1>1 DEF CreateMD
  <1>2. CASE Update(r)
    BY <1>2, UpdateRecord DEF Update
  <1>3. CASE Store(r) \/ CreateShadow(r) \/ PutOverview(r)
    BY <1>3 DEF Store, CreateShadow, PutOverview, WriteSound, Writing
  <1>4. CASE RemoveObject(r)
    BY <1>4 DEF RemoveObject
  <1>5. CASE ListUploads(r) \/ AbortUploads(r) \/ DropShadow(r)
    BY <1>5
       DEF ListUploads, AbortUploads, DropShadow, RemoveSound, Removing, stored
  <1>6. CASE Flag(r) \/ DelBucket(r) \/ BgDelBucket(r)
    BY <1>6 DEF Flag, DelBucket, BgDelBucket, RemoveSound, BackSound, Removing
  <1>7. CASE UNCHANGED <<bucket, objects, shadow>>
    BY <1>7
  <1>8. QED
    BY <1>1, <1>2, <1>3, <1>4, <1>5, <1>6, <1>7
       DEF Calls, WriterCalls, RemoverCalls, AddEntry, CreateUsers, GetShadow,
           CheckObjects, DelEntry, BgDelEntry, stored

\* An acknowledged object outlives every call.
LEMMA CallObjects ==
    ASSUME LoneInv, NEW r \in Reqs, Calls(r)
    PROVE  AcknowledgedObjectsKept'
  <1> USE DEF LoneInv
  <1>0. pc \in [Reqs -> Labels] /\ RightKind
    BY DEF TypeInv, TypeOK
  <1>1. CASE Store(r)
    BY <1>0, <1>1, CallFrames
       DEF Calls, WriterCalls, Store, Goto, AcknowledgedObjectsKept
  <1>2. CASE RemoveObject(r)
    BY <1>0, <1>2, CallFrames
       DEF Calls, WriterCalls, RemoveObject, Goto, RightKind,
           AcknowledgedObjectsKept
  <1>3. CASE ~Store(r) /\ ~RemoveObject(r)
    <2>1. UNCHANGED objects
      BY <1>3
         DEF LoneInv, Calls, WriterCalls, RemoverCalls, CreateMD, AddEntry,
             CreateUsers, Update, GetShadow, CreateShadow, PutOverview,
             CheckObjects, ListUploads, AbortUploads, DropShadow, Flag,
             DelEntry, DelBucket, BgDelEntry, BgDelBucket, RemoveSound,
             BackSound, DeletedIsEmpty, Removing, stored
    <2>2. ctx[r].kind = "put" => pc'[r] # "ok" \/ pc[r] = "ok"
      BY <1>0, <1>3
         DEF LoneInv, Calls, WriterCalls, RemoverCalls, CreateMD, AddEntry,
             CreateUsers, Update, GetShadow, CreateShadow, PutOverview,
             CheckObjects, ListUploads, AbortUploads, DropShadow, Flag,
             DelEntry, DelBucket, BgDelEntry, BgDelBucket, RightKind, Mending,
             Removing, Goto, AfterUpdate
    <2>3. QED
      BY <2>1, <2>2, CallFrames DEF AcknowledgedObjectsKept
  <1>4. QED
    BY <1>1, <1>2, <1>3

\* The users bucket lists no bucket that its owner does not have.
LEMMA CallListed ==
    ASSUME LoneInv, NEW r \in Reqs, Calls(r)
    PROVE  ListedOnlyWhileOwned'
  <1> USE DEF LoneInv, ListedOnlyWhileOwned
  <1>1. CASE CreateMD(r)
    BY <1>1 DEF CreateMD
  <1>2. CASE AddEntry(r)
    BY <1>2 DEF AddEntry, MendSound, Mending
  <1>3. CASE Update(r)
    BY <1>3, UpdateRecord DEF Update
  <1>4. CASE Flag(r)
    BY <1>4, BucketAssumption
       DEF Flag, PutRecord, RemoveSound, Removing, TypeInv, RightContext
  <1>5. CASE DelEntry(r) \/ BgDelEntry(r)
    BY <1>5 DEF DelEntry, BgDelEntry
  <1>6. CASE DelBucket(r) \/ BgDelBucket(r)
    BY <1>6 DEF DelBucket, BgDelBucket, RemoveSound, BackSound, Removing
  <1>7. CASE UNCHANGED <<bucket, entries>>
    BY <1>7
  <1>8. QED
    BY <1>1, <1>2, <1>3, <1>4, <1>5, <1>6, <1>7
       DEF Calls, WriterCalls, RemoverCalls, CreateUsers, Store, RemoveObject,
           GetShadow, CreateShadow, PutOverview, CheckObjects, ListUploads,
           AbortUploads, DropShadow, stored

\* Every call keeps the invariant of deletions that run alone.
LEMMA CallLone ==
    ASSUME LoneInv, NEW r \in Reqs, Calls(r)
    PROVE  LoneInv'
  <1>1. TypeInv' /\ Alone'
    BY CallType, CallAlone DEF LoneInv
  <1>2. QED
    BY <1>1, CallMend, CallWrite, CallRemove, CallKept, CallDeleted, CallObjects,
       CallListed DEF LoneInv

\* A request that starts finds no deletion running and, where it starts one,
\* nobody running.
LEMMA ArriveFrames ==
    ASSUME LoneInv, Discipline = "deletesAlone", NEW r \in Reqs, NEW kind \in AllKinds,
           NEW acct \in Accounts, NEW sse \in BOOLEAN,
           NEW md \in Bucket \cup {None}, NEW key \in Reqs \cup {None},
           NEW label \in Labels,
           Arrives(r, kind, acct, sse, md, key, label)
    PROVE  /\ pc[r] = "idle" /\ pc'[r] = label
           /\ ctx'[r].kind = kind /\ ctx'[r].acct = acct
           /\ ctx'[r].md = md /\ ctx'[r].key = key
           /\ \A q \in Reqs \ {r} : pc'[q] = pc[q] /\ ctx'[q] = ctx[q]
           /\ UNCHANGED <<stored, kept>>
           /\ \A q \in Reqs : ~Deleting(q)
           /\ StartsDeletion(kind) => \A q \in Reqs : ~Running(q)
  <1>1. pc \in [Reqs -> Labels] /\ ctx \in [Reqs -> Context]
    BY DEF LoneInv, TypeInv, TypeOK
  <1>2. Carry(r, kind, acct, sse, md, key) /\ Goto(r, label)
    BY DEF Arrives
  <1>3. /\ ctx'[r].kind = kind /\ ctx'[r].acct = acct
        /\ ctx'[r].md = md /\ ctx'[r].key = key
        /\ \A q \in Reqs \ {r} : ctx'[q] = ctx[q]
    BY <1>1, <1>2, CarryType
  <1>4. pc'[r] = label /\ \A q \in Reqs \ {r} : pc'[q] = pc[q]
    BY <1>1, <1>2, GotoType
  <1>5. QED
    BY <1>3, <1>4 DEF Arrives, Starts, MayStart

\* What a request has read when it arrives is so, and nothing acts on it yet.
LEMMA ArriveSound ==
    ASSUME LoneInv, TypeInv', Discipline = "deletesAlone",
           NEW r \in Reqs, NEW kind \in AllKinds,
           NEW acct \in Accounts, NEW sse \in BOOLEAN,
           NEW md \in Bucket \cup {None}, NEW key \in Reqs \cup {None},
           NEW label \in Labels,
           Arrives(r, kind, acct, sse, md, key, label),
           label \in Mending =>
               /\ bucket # None /\ md.owner = bucket.owner
               /\ acct \in {bucket.owner} \cup Writers
               /\ MarkedDeleted \/ kind = "create" => acct = bucket.owner
               /\ label = "update" => kind # "create",
           label \in Writing => bucket # None /\ bucket.flags = {},
           label \in Removing => /\ label = "checkObjects" /\ bucket # None
                                 /\ md.owner = bucket.owner /\ acct = bucket.owner,
           label = "ok" => kind # "put",
           \/ UNCHANGED bg
           \/ /\ MarkedDeleted /\ md = bucket /\ kind \in Shielded
              /\ bg' = [bg EXCEPT ![r] = "delEntry"]
    PROVE  LoneInv'
  <1>1. /\ pc[r] = "idle" /\ pc'[r] = label
        /\ ctx'[r].kind = kind /\ ctx'[r].acct = acct
        /\ ctx'[r].md = md /\ ctx'[r].key = key
        /\ \A q \in Reqs \ {r} : pc'[q] = pc[q] /\ ctx'[q] = ctx[q]
        /\ UNCHANGED <<bucket, objects, shadow, entries, kept>>
        /\ \A q \in Reqs : ~Deleting(q)
        /\ StartsDeletion(kind) => \A q \in Reqs : ~Running(q)
    BY ArriveFrames DEF stored
  <1>2. \A q \in Reqs : bg[q] = "none" /\ pc[q] \notin Removing
    BY <1>1 DEF Deleting, Running, Removing, Done, LoneInv, TypeInv, RightKind
  <1>3. /\ \A q \in Reqs \ {r} : bg'[q] = "none"
        /\ bg'[r] = "none" \/ (MarkedDeleted /\ md = bucket /\ bg'[r] = "delEntry")
    BY <1>2 DEF LoneInv, TypeInv, TypeOK
  <1>4. Alone'
    <2>1. \A q \in Reqs \ {r} : ~Deleting(q)' /\ (Running(q)' => Running(q))
      BY <1>1, <1>3 DEF Deleting, Running
    <2>2. Deleting(r)' => StartsDeletion(kind)
      BY <1>1, <1>2 DEF Deleting, StartsDeletion, MarkedDeleted
    <2>3. QED
      BY <1>1, <2>1, <2>2 DEF Alone
  <1>5. MendSound'
    BY <1>1 DEF LoneInv, MendSound, MarkedDeleted
  <1>6. WriteSound'
    BY <1>1 DEF LoneInv, WriteSound
  <1>7. RemoveSound' /\ BackSound'
    BY <1>1, <1>2, <1>3 DEF RemoveSound, BackSound, MarkedDeleted
  <1>8. KeptStands' /\ DeletedIsEmpty' /\ ListedOnlyWhileOwned'
    BY <1>1 DEF LoneInv, KeptStands, DeletedIsEmpty, ListedOnlyWhileOwned,
                MarkedDeleted
  <1>9. AcknowledgedObjectsKept'
    <2>1. \A q, x \in Reqs : ctx[q].key = x => q # r
      BY <1>1, BucketAssumption DEF LoneInv, TypeInv, RightContext
    <2>2. QED
      BY <1>1, <2>1 DEF LoneInv, AcknowledgedObjectsKept
  <1>10. QED
    BY <1>4, <1>5, <1>6, <1>7, <1>8, <1>9 DEF LoneInv

\* An arriving request keeps the invariant.
LEMMA StartLone ==
    ASSUME LoneInv, Discipline = "deletesAlone", NEW r \in Reqs,
           CreateRead(r) \/ DeleteRead(r)
             \/ (\E kind \in {"put", "putACL", "initiate"} : WriteRead(r, kind))
             \/ (\E kind \in Shielded : ShieldedRead(r, kind))
    PROVE  LoneInv'
  <1>0. TypeInv /\ TypeInv'
    BY StartType DEF LoneInv
  <1>1. CASE CreateRead(r)
    <2>1. PICK acct \in Accounts, sse \in BOOLEAN, md \in Bucket \cup {None},
               label \in {"createMD", "addEntry", "ok", "failed"} :
             Creates(r, acct, sse, md, label)
      BY <1>0, <1>1, CreateArrives
    <2>2. label = "addEntry" => bucket # None /\ md.owner = bucket.owner /\ acct = bucket.owner
      BY <2>1 DEF Creates, OwnMarked, Marked, NewRecord
    <2>3. label \in Labels /\ "create" \in AllKinds
      BY DEF Labels, AllKinds, Done
    <2>4. label \notin Writing \cup Removing /\ (label \in Mending => label = "addEntry")
      BY DEF Writing, Removing, Mending
    <2>5. QED
      BY <1>0, <2>1, <2>2, <2>3, <2>4, ArriveSound DEF Creates
  <1>2. CASE DeleteRead(r)
    <2>1. PICK acct \in Accounts, md \in Bucket \cup {None},
               label \in {"checkObjects", "failed"} : Removes(r, acct, md, label)
      BY <1>0, <1>2, DeleteArrives
    <2>2. label = "checkObjects" =>
              bucket # None /\ md.owner = bucket.owner /\ acct = bucket.owner
      <3>1. ASSUME bucket \in Bucket
            PROVE  [bucket EXCEPT !.flags = {"deleted"}].owner = bucket.owner
        BY <3>1, MarksType
      <3>2. QED
        BY <2>1, <3>1, BucketAssumption DEF Removes
    <2>3. label \in Labels /\ "delete" \in AllKinds
      BY DEF Labels, AllKinds, Done
    <2>4. label \notin Writing \cup Mending
      BY DEF Writing, Mending
    <2>5. label \in Removing => label = "checkObjects"
      BY DEF Removing
    <2>6. QED
      BY <1>0, <2>1, <2>2, <2>3, <2>4, <2>5, ArriveSound DEF Removes
  <1>3. ASSUME NEW kind \in {"put", "putACL", "initiate"}, WriteRead(r, kind)
        PROVE  LoneInv'
    <2>1. PICK acct \in Accounts, md \in Bucket \cup {None},
               label \in {"addEntry", "update", "store", "getShadow", "failed"} :
             Writes(r, kind, acct, md, label)
      BY <1>0, <1>3, WriteArrives
    <2>2. label # "failed" =>
              /\ bucket # None /\ md.owner = bucket.owner
              /\ acct \in {bucket.owner} \cup Writers
              /\ MarkedDeleted => acct = bucket.owner
      <3>1. ASSUME bucket \in Bucket
            PROVE  [bucket EXCEPT !.flags = {}].owner = bucket.owner
        BY <3>1, MarksType
      <3>2. QED
        BY <1>0, <2>1, <3>1 DEF Writes, MayRevive, MayWrite, TypeInv, TypeOK
    <2>3. label \in {"store", "getShadow"} => bucket.flags = {}
      BY <2>1, <2>2 DEF Writes, Marked
    <2>4. label \in Labels /\ kind \in AllKinds
      BY DEF Labels, AllKinds, Done
    <2>5. /\ label \notin Removing
          /\ label \in Writing => label \in {"store", "getShadow"}
      BY DEF Writing, Removing
    <2>6. label \in Mending => label # "failed"
      BY DEF Mending
    <2>7. QED
      BY <1>0, <2>1, <2>2, <2>3, <2>4, <2>5, <2>6, ArriveSound DEF Writes
  <1>4. ASSUME NEW kind \in Shielded, ShieldedRead(r, kind)
        PROVE  LoneInv'
    <2>1. PICK acct \in Accounts, md \in Bucket \cup {None}, key \in Reqs \cup {None},
               label \in {"removeObject", "ok", "failed"} :
             Meets(r, kind, acct, md, key, label)
      BY <1>0, <1>4, ShieldArrives
    <2>2. label \in Labels /\ kind \in AllKinds /\ kind # "put"
      BY DEF Labels, AllKinds, Done, Shielded
    <2>3. label \notin Mending \cup Removing
      BY DEF Mending, Removing
    <2>4. label \in Writing => bucket # None /\ bucket.flags = {}
      BY <2>1 DEF Meets, Marked, Writing
    <2>5. QED
      BY <1>0, <2>1, <2>2, <2>3, <2>4, ArriveSound DEF Meets
  <1>5. QED
    BY <1>1, <1>2, <1>3, <1>4

\* A request that dies leaves less to be sure of.
LEMMA AbandonLone ==
    ASSUME LoneInv, NEW r \in Reqs, Abandon(r)
    PROVE  LoneInv'
  <1> USE DEF LoneInv
  <1>1. TypeInv'
    BY NextType DEF Next
  <1>2. /\ pc \in [Reqs -> Labels] /\ bg \in [Reqs -> {"none", "delEntry", "delBucket"}]
        /\ UNCHANGED <<bucket, objects, shadow, entries, kept, ctx>>
    BY DEF TypeInv, TypeOK, Abandon, stored
  <1>3. \A q \in Reqs : /\ pc'[q] = pc[q] \/ pc'[q] = "failed"
                        /\ bg'[q] = bg[q] \/ bg'[q] = "none"
                        /\ Running(q)' => Running(q)
                        /\ Deleting(q)' => Deleting(q)
    BY <1>2 DEF Abandon, Goto, Running, Deleting, Done
  <1>4. Alone'
    BY <1>3 DEF Alone
  <1>5. MendSound' /\ WriteSound'
    BY <1>2, <1>3 DEF MendSound, WriteSound, Mending, Writing, MarkedDeleted
  <1>6. RemoveSound' /\ BackSound'
    BY <1>2, <1>3 DEF RemoveSound, BackSound, Removing, MarkedDeleted
  <1>7. KeptStands' /\ DeletedIsEmpty' /\ ListedOnlyWhileOwned'
    BY <1>2 DEF KeptStands, DeletedIsEmpty, ListedOnlyWhileOwned, MarkedDeleted
  <1>8. AcknowledgedObjectsKept'
    BY <1>2, <1>3 DEF AcknowledgedObjectsKept
  <1>9. QED
    BY <1>1, <1>4, <1>5, <1>6, <1>7, <1>8

\* Nothing has been read or written.
LEMMA InitLone == Init => LoneInv
  <1> SUFFICES ASSUME Init PROVE LoneInv
    OBVIOUS
  <1>1. \A r \in Reqs : /\ pc[r] = "idle" /\ bg[r] = "none" /\ ctx[r].kind = None
                        /\ ~Running(r) /\ ~Deleting(r)
    BY DEF Init, Running, Deleting
  <1>2. Alone /\ MendSound /\ WriteSound /\ RemoveSound /\ BackSound
    BY <1>1 DEF Alone, MendSound, WriteSound, RemoveSound, BackSound, Mending,
                Writing, Removing
  <1>3. /\ KeptStands /\ DeletedIsEmpty /\ AcknowledgedObjectsKept
        /\ ListedOnlyWhileOwned
    BY <1>1 DEF Init, KeptStands, DeletedIsEmpty, AcknowledgedObjectsKept,
                ListedOnlyWhileOwned
  <1>4. QED
    BY <1>2, <1>3, InitType DEF LoneInv

\* Every step keeps the invariant where clients delete alone.
LEMMA NextLone ==
    ASSUME Discipline = "deletesAlone"
    PROVE  LoneInv /\ [Next]_vars => LoneInv'
  <1> SUFFICES ASSUME LoneInv, [Next]_vars PROVE LoneInv'
    OBVIOUS
  <1>1. CASE UNCHANGED vars
    <2>1. TypeInv'
      BY NextType DEF LoneInv
    <2>2. UNCHANGED <<bucket, objects, shadow, entries, kept, pc, bg, ctx>>
      BY <1>1 DEF vars
    <2>3. (Alone /\ MendSound /\ WriteSound /\ RemoveSound /\ BackSound)'
      BY <2>2 DEF LoneInv, Alone, MendSound, WriteSound, RemoveSound, BackSound,
                  Running, Deleting, MarkedDeleted
    <2>4. (KeptStands /\ DeletedIsEmpty /\ AcknowledgedObjectsKept
             /\ ListedOnlyWhileOwned)'
      BY <2>2 DEF LoneInv, KeptStands, DeletedIsEmpty, AcknowledgedObjectsKept,
                  ListedOnlyWhileOwned, MarkedDeleted
    <2>5. QED
      BY <2>1, <2>3, <2>4 DEF LoneInv
  <1>2. ASSUME NEW r \in Reqs, Step(r) PROVE LoneInv'
    BY <1>2, StartLone, CallLone DEF Step, Calls, WriterCalls, RemoverCalls
  <1>3. QED
    BY <1>1, <1>2, AbandonLone DEF Next

\* However many requests run, and whichever die, where deletions run alone: a
\* bucket whose creation was acknowledged stands until a deletion marks it;
THEOREM AcknowledgedBucketStands ==
    ASSUME Discipline = "deletesAlone"
    PROVE  Spec => []KeptStands
  <1>1. LoneInv => KeptStands
    BY DEF LoneInv
  <1>2. QED
    BY InitLone, NextLone, <1>1, PTL DEF Spec

\* deletions, done, given up or left half done, take no object with them;
THEOREM DeletionsTakeNothing ==
    ASSUME Discipline = "deletesAlone"
    PROVE  Spec => []DeletionTakesNothing
  <1>1. LoneInv => DeletionTakesNothing
    BY DEF LoneInv, DeletionTakesNothing
  <1>2. QED
    BY InitLone, NextLone, <1>1, PTL DEF Spec

\* an account's listing shows a bucket only while the account owns it;
THEOREM ListingsShowOwners ==
    ASSUME Discipline = "deletesAlone"
    PROVE  Spec => []ListedOnlyWhileOwned
  <1>1. LoneInv => ListedOnlyWhileOwned
    BY DEF LoneInv
  <1>2. QED
    BY InitLone, NextLone, <1>1, PTL DEF Spec

\* and a bucket that its owner marked deleted comes back by a request of the
\* owner only.
THEOREM OwnersRevive ==
    ASSUME Discipline = "deletesAlone"
    PROVE  Spec => OnlyOwnerRevives
  <1> DEFINE Revives == MarkedDeleted /\ bucket' # None /\ bucket'.flags = {}
             ByOwner == \E r \in Reqs : /\ ctx[r].acct = bucket.owner
                                        /\ pc[r] = "update" /\ pc'[r] # "update"
  <1>1. LoneInv /\ [Next]_vars => [Revives => ByOwner]_vars
    <2> SUFFICES ASSUME LoneInv, Next, Revives PROVE ByOwner
      OBVIOUS
    <2>1. PICK r \in Reqs : Step(r) \/ Abandon(r)
      BY DEF Next
    <2>2. bucket # None /\ bucket.flags # {}
      BY DEF MarkedDeleted
    <2>3. ~UNCHANGED bucket
      BY <2>2
    <2>4. CASE Update(r)
      <3>1. pc[r] = "update" /\ ctx[r].acct = bucket.owner
        BY <2>4 DEF Update, LoneInv, MendSound, Mending
      <3>2. pc'[r] # "update"
        BY <2>4, UpdateRecord DEF Goto, AfterUpdate, LoneInv, TypeInv, TypeOK
      <3>3. QED
        BY <3>1, <3>2
    <2>5. CASE Flag(r)
      BY <2>2, <2>5 DEF Flag, PutRecord, LoneInv, TypeInv, RightContext, Removing
    <2>6. CASE CreateMD(r) \/ DelBucket(r) \/ BgDelBucket(r)
      BY <2>2, <2>3, <2>6 DEF CreateMD, DelBucket, BgDelBucket
    <2>7. QED
      BY <2>1, <2>3, <2>4, <2>5, <2>6
         DEF Step, CreateRead, DeleteRead, WriteRead, ShieldedRead, AddEntry,
             CreateUsers, Store, RemoveObject, GetShadow, CreateShadow,
             PutOverview, CheckObjects, ListUploads, AbortUploads, DropShadow,
             DelEntry, BgDelEntry, Abandon, stored
  <1>2. QED
    BY InitLone, NextLone, <1>1, PTL DEF Spec, OnlyOwnerRevives
=============================================================================
