----------------------------- MODULE ObjectProofs -----------------------------
(***************************************************************************)
(* Proofs about objects: the records of a bucket keep their data, however  *)
(* batches of deletions and PUTs interleave, and so do copies,             *)
(* restorations from cold storage and the tasks of the replication         *)
(* services; a batch tells of each entry what became of it; and a body     *)
(* that is signed chunk by chunk passes as it was signed.  For any number  *)
(* of requests, that make their calls at any distance from one another.    *)
(***************************************************************************)
EXTENDS MultiObjectDelete, ObjectCopy, ColdStorage, Backbeat,
        StreamingV4, SequenceTheorems, TLAPS

-----------------------------------------------------------------------------
(* Batches of deletions *)

BatchLocs == AllKeys \cup Reqs
BatchEntries == [key: AllKeys \ {"aundefined"}, ver: BOOLEAN]
NoCaches == UNION {[K -> {None}] : K \in SUBSET AllKeys}
BatchStore == [versioned: BOOLEAN, data: SUBSET BatchLocs,
               md: [AllKeys -> BatchRecords \cup {None}]]
BatchCtx == [asked: SUBSET BatchEntries, todo: SUBSET BatchEntries,
             cache: NoCaches \cup {None},
             open: SUBSET (BatchEntries \X (BatchRecords \cup {None})),
             doomed: SUBSET BatchLocs,
             deleted: SUBSET BatchEntries, errors: SUBSET BatchEntries]
PutCtx == [key: AllKeys, read: BatchRecords \cup {None}]

InBatch(r) == pc[r] \in {"readAhead", "batch"}
InPut(r) == pc[r] \in {"putRecord", "deleteOverwritten"}

BatchTypes ==
    /\ store \in BatchStore
    /\ pc \in [Reqs -> {"idle", "readAhead", "batch", "putRecord", "deleteOverwritten",
                        "ok", "failed"}]
    /\ DOMAIN ctx = Reqs
    /\ \A r \in Reqs :
        /\ InBatch(r) => ctx[r] \in BatchCtx
        /\ InPut(r) => ctx[r] \in PutCtx
        /\ pc[r] = "batch" => \A e \in ctx[r].todo : ctx[r].cache[e.key] = None

\* The data of a PUT that has not written its record is not named yet.
Past(l) == l \in Reqs => pc[l] \notin {"idle", "putRecord"}

\* Only key k has a record that names l, if any has; none has.
OwnedBy(k, l) == Past(l) /\ \A j \in AllKeys \ {k} : store.md[j] # None => store.md[j].loc # l
Unnamed(l) == Past(l) /\ \A j \in AllKeys : store.md[j] # None => store.md[j].loc # l

RecordsOwn ==
    \A k \in AllKeys : store.md[k] # None =>
        store.md[k].loc \in store.data /\ OwnedBy(k, store.md[k].loc)

\* What a request has in hand: a PUT its data, and what it replaces; a batch
\* what it is about to delete, and data that no record names any more.
InHands ==
    \A r \in Reqs :
        /\ pc[r] = "putRecord" =>
            /\ r \in store.data
            /\ ctx[r].read # None => OwnedBy(ctx[r].key, ctx[r].read.loc)
        /\ pc[r] = "deleteOverwritten" /\ ctx[r].read # None => Unnamed(ctx[r].read.loc)
        /\ InBatch(r) =>
            /\ \A o \in ctx[r].open : o[2] # None => OwnedBy(o[1].key, o[2].loc)
            /\ \A o \in ctx[r].open : o[2] = None => store.versioned /\ ~o[1].ver
            /\ \A l \in ctx[r].doomed : Unnamed(l)

Named == {store.md[k].loc : k \in {x \in AllKeys : store.md[x] # None}}

\* Requests that wait for one another, none of which dies: what is stored is
\* what the records name and what the one that runs has in hand.
Exact ==
    scene.sequential /\ ~scene.deaths =>
        /\ \A q, r \in Reqs : Running(q) /\ Running(r) => q = r
        /\ Quiet => store.data = Named
        /\ \A r \in Reqs :
            /\ pc[r] = "readAhead" => 
                store.data = Named /\ ctx[r].doomed = {} /\ ctx[r].open = {}
            /\ pc[r] = "batch" =>
                /\ store.data = Named \cup ctx[r].doomed
                /\ \A o \in ctx[r].open :
                      o[2] # None /\ store.md[o[1].key] # None =>
                          store.md[o[1].key].loc = o[2].loc
            /\ pc[r] = "putRecord" =>
                store.data = Named \cup {r} /\ store.md[ctx[r].key] = ctx[r].read
            /\ pc[r] = "deleteOverwritten" =>
                store.data = Named \cup (IF ctx[r].read = None THEN {} ELSE {ctx[r].read.loc})

\* No key of a batch is another key followed by what the read-ahead puts behind it.
KeysApart == \A s \in Scenes : s.component = "batch" => "aundefined" \notin s.ops

-----------------------------------------------------------------------------
\* The parts of what is stored, and what each may become.
LEMMA BatchStoreParts ==
    ASSUME NEW s \in BatchStore
    PROVE  /\ s.versioned \in BOOLEAN /\ s.data \in SUBSET BatchLocs
           /\ s.md \in [AllKeys -> BatchRecords \cup {None}]
           /\ \A d \in SUBSET BatchLocs :
                /\ [s EXCEPT !.data = d] \in BatchStore
                /\ [s EXCEPT !.data = d].md = s.md
                /\ [s EXCEPT !.data = d].versioned = s.versioned
                /\ [s EXCEPT !.data = d].data = d
           /\ \A k \in AllKeys, m \in BatchRecords \cup {None} :
                /\ [s EXCEPT !.md[k] = m] \in BatchStore
                /\ [s EXCEPT !.md[k] = m].data = s.data
                /\ [s EXCEPT !.md[k] = m].versioned = s.versioned
                /\ \A j \in AllKeys :
                      [s EXCEPT !.md[k] = m].md[j] = IF j = k THEN m ELSE s.md[j]
  <1>1. /\ s.versioned \in BOOLEAN /\ s.data \in SUBSET BatchLocs
        /\ s.md \in [AllKeys -> BatchRecords \cup {None}]
    BY DEF BatchStore
  <1>2. \A d \in SUBSET BatchLocs :
          /\ [s EXCEPT !.data = d] \in BatchStore
          /\ [s EXCEPT !.data = d].md = s.md
          /\ [s EXCEPT !.data = d].versioned = s.versioned
          /\ [s EXCEPT !.data = d].data = d
    BY DEF BatchStore
  <1>3. \A k \in AllKeys, m \in BatchRecords \cup {None} :
          /\ [s EXCEPT !.md[k] = m] \in BatchStore
          /\ [s EXCEPT !.md[k] = m].data = s.data
          /\ [s EXCEPT !.md[k] = m].versioned = s.versioned
          /\ \A j \in AllKeys : [s EXCEPT !.md[k] = m].md[j] = IF j = k THEN m ELSE s.md[j]
    <2> SUFFICES ASSUME NEW k \in AllKeys, NEW m \in BatchRecords \cup {None}
                 PROVE  /\ [s EXCEPT !.md[k] = m] \in BatchStore
                        /\ [s EXCEPT !.md[k] = m].data = s.data
                        /\ [s EXCEPT !.md[k] = m].versioned = s.versioned
                        /\ \A j \in AllKeys :
                              [s EXCEPT !.md[k] = m].md[j] = IF j = k THEN m ELSE s.md[j]
      OBVIOUS
    <2>1. [s.md EXCEPT ![k] = m] \in [AllKeys -> BatchRecords \cup {None}]
      BY <1>1
    <2>2. [s EXCEPT !.md[k] = m] = [s EXCEPT !.md = [s.md EXCEPT ![k] = m]]
      BY DEF BatchStore
    <2>3. \A f \in [AllKeys -> BatchRecords \cup {None}] :
            /\ [s EXCEPT !.md = f] \in BatchStore
            /\ [s EXCEPT !.md = f].data = s.data
            /\ [s EXCEPT !.md = f].versioned = s.versioned
            /\ [s EXCEPT !.md = f].md = f
      BY DEF BatchStore
    <2> QED  BY <1>1, <2>1, <2>2, <2>3
  <1> QED  BY <1>1, <1>2, <1>3

\* The parts of what a batch carries, and what each may become.
LEMMA BatchesInHand ==
    ASSUME NEW c \in BatchCtx
    PROVE  /\ c.asked \in SUBSET BatchEntries /\ c.todo \in SUBSET BatchEntries
           /\ c.open \in SUBSET (BatchEntries \X (BatchRecords \cup {None}))
           /\ c.doomed \in SUBSET BatchLocs
           /\ c.deleted \in SUBSET BatchEntries /\ c.errors \in SUBSET BatchEntries
           /\ \A x \in NoCaches \cup {None} : [c EXCEPT !.cache = x] \in BatchCtx
           /\ \A x \in SUBSET BatchEntries :
                /\ [c EXCEPT !.todo = x] \in BatchCtx
                /\ [c EXCEPT !.deleted = x] \in BatchCtx
                /\ [c EXCEPT !.errors = x] \in BatchCtx
           /\ \A x \in SUBSET (BatchEntries \X (BatchRecords \cup {None})) :
                [c EXCEPT !.open = x] \in BatchCtx
           /\ \A x \in SUBSET BatchLocs : [c EXCEPT !.doomed = x] \in BatchCtx
  <1>1. /\ c.asked \in SUBSET BatchEntries /\ c.todo \in SUBSET BatchEntries
        /\ c.open \in SUBSET (BatchEntries \X (BatchRecords \cup {None}))
        /\ c.doomed \in SUBSET BatchLocs
        /\ c.deleted \in SUBSET BatchEntries /\ c.errors \in SUBSET BatchEntries
    BY DEF BatchCtx
  <1>2. \A x \in NoCaches \cup {None} : [c EXCEPT !.cache = x] \in BatchCtx
    BY DEF BatchCtx
  <1>3. \A x \in SUBSET BatchEntries : [c EXCEPT !.todo = x] \in BatchCtx
    BY DEF BatchCtx
  <1>4. \A x \in SUBSET BatchEntries : [c EXCEPT !.deleted = x] \in BatchCtx
    BY DEF BatchCtx
  <1>5. \A x \in SUBSET BatchEntries : [c EXCEPT !.errors = x] \in BatchCtx
    BY DEF BatchCtx
  <1>6. \A x \in SUBSET (BatchEntries \X (BatchRecords \cup {None})) :
           [c EXCEPT !.open = x] \in BatchCtx
    BY DEF BatchCtx
  <1>7. \A x \in SUBSET BatchLocs : [c EXCEPT !.doomed = x] \in BatchCtx
    BY DEF BatchCtx
  <1> QED  BY <1>1, <1>2, <1>3, <1>4, <1>5, <1>6, <1>7

\* What each step of a batch or a PUT does, field by field.
LEMMA BatchArrives ==
    ASSUME KeysApart, In("batch"), scene \in Scenes, BatchTypes,
           NEW r \in Reqs, MultiObjectDelete(r)
    PROVE  /\ store' = store /\ pc[r] = "idle" /\ (scene.sequential => Quiet)
           /\ \/ pc' = [pc EXCEPT ![r] = "failed"] /\ ctx' = ctx
              \/ \E c \in BatchCtx :
                    /\ pc' = [pc EXCEPT ![r] = "readAhead"] /\ ctx' = [ctx EXCEPT ![r] = c]
                    /\ c.open = {} /\ c.doomed = {}
  <1>1. pc[r] = "idle" /\ (scene.sequential => Quiet)
    BY DEF MultiObjectDelete, Sent
  <1>2. CASE Refuse(r)
    BY <1>1, <1>2 DEF Refuse, Goto
  <1>3. CASE ~Refuse(r)
    <2>1. PICK entries \in SUBSET Entries, denied \in {{}} \cup {{e} : e \in Entries} :
            /\ denied \subseteq entries
            /\ ctx' = [ctx EXCEPT ![r] =
                   [asked |-> entries, todo |-> entries \ denied,
                    cache |-> None, open |-> {}, doomed |-> {},
                    deleted |-> {}, errors |-> denied]]
            /\ pc' = [pc EXCEPT ![r] = "readAhead"] /\ store' = store
      BY <1>3 DEF MultiObjectDelete, Goto, Carry
    <2>2. Entries \subseteq BatchEntries
      BY DEF KeysApart, In, Entries, BatchEntries, Keys
    <2> DEFINE c == [asked |-> entries, todo |-> entries \ denied,
                    cache |-> None, open |-> {}, doomed |-> {},
                    deleted |-> {}, errors |-> denied]
    <2>3. c \in BatchCtx /\ c.open = {} /\ c.doomed = {}
      BY <2>1, <2>2 DEF BatchCtx
    <2> QED  BY <1>1, <2>1, <2>3
  <1> QED  BY <1>2, <1>3

\* The cache of the read-ahead holds nothing that an entry will be looked up by.
LEMMA ReadAheadStep ==
    ASSUME BatchTypes, NEW r \in Reqs, ReadAhead(r)
    PROVE  /\ store' = store /\ pc' = [pc EXCEPT ![r] = "batch"] /\ pc[r] = "readAhead"
           /\ \E c \in BatchCtx :
                /\ ctx' = [ctx EXCEPT ![r] = c]
                /\ c.open = ctx[r].open /\ c.doomed = ctx[r].doomed
                /\ \A e \in c.todo : c.cache[e.key] = None
  <1> DEFINE K == {e.key : e \in ctx[r].todo}
             c == [ctx[r] EXCEPT !.cache = [k \in K |-> None]]
  <1>1. store' = store /\ pc' = [pc EXCEPT ![r] = "batch"] /\ pc[r] = "readAhead"
    BY DEF ReadAhead, Goto
  <1>2. ctx[r] \in BatchCtx
    BY <1>1 DEF BatchTypes, InBatch
  <1>3. ctx[r].todo \subseteq BatchEntries
    BY <1>2, BatchesInHand
  <1>4. \A k \in K : \A e \in ctx[r].todo : CacheKey(e) # k
    BY <1>3, BatchAssumption DEF CacheKey, BatchEntries, AllKeys
  <1>5. ctx' = [ctx EXCEPT ![r] = c]
    <2> DEFINE cached(k) == {e \in ctx[r].todo : CacheKey(e) = k /\ store.md[e.key] # None}
    <2>1. PICK works \in BOOLEAN :
            ctx' = [ctx EXCEPT ![r] = [ctx[r] EXCEPT !.cache =
                [k \in K |->
                    IF works /\ cached(k) # {}
                    THEN store.md[(CHOOSE e \in cached(k) : TRUE).key] ELSE None]]]
      BY DEF ReadAhead, Carry
    <2>2. \A k \in K : cached(k) = {}
      BY <1>4
    <2> HIDE DEF cached
    <2>3. [k \in K |-> IF works /\ cached(k) # {}
                       THEN store.md[(CHOOSE e \in cached(k) : TRUE).key] ELSE None]
          = [k \in K |-> None]
      BY <2>2
    <2> QED  BY <2>1, <2>3
  <1>6. [k \in K |-> None] \in NoCaches
    <2>1. K \in SUBSET AllKeys
      BY <1>3 DEF BatchEntries
    <2>2. [k \in K |-> None] \in [K -> {None}]
      OBVIOUS
    <2> HIDE DEF K
    <2> QED  BY <2>1, <2>2 DEF NoCaches
  <1>7. c \in BatchCtx
    BY <1>2, <1>6, BatchesInHand
  <1>8. /\ c.open = ctx[r].open /\ c.doomed = ctx[r].doomed
        /\ c.todo = ctx[r].todo /\ c.cache = [k \in K |-> None]
    BY <1>2 DEF BatchCtx
  <1>9. \A e \in c.todo : c.cache[e.key] = None
    BY <1>8
  <1> HIDE DEF c
  <1> QED  BY <1>1, <1>5, <1>7, <1>8, <1>9

\* An entry is opened with the record of its key as it stands.
LEMMA ReadEntryStep ==
    ASSUME BatchTypes, NEW r \in Reqs, pc[r] = "batch", NEW e \in ctx[r].todo, ReadEntry(r, e)
    PROVE  /\ store' = store /\ pc' = pc
           /\ \E c \in BatchCtx :
                /\ ctx' = [ctx EXCEPT ![r] = c]
                /\ c.doomed = ctx[r].doomed /\ c.todo \subseteq ctx[r].todo
                /\ c.cache = ctx[r].cache
                /\ \A o \in c.open :
                      \/ o \in ctx[r].open
                      \/ /\ o[1] \in BatchEntries /\ o[2] = store.md[o[1].key]
                         /\ o[2] = None => store.versioned /\ ~o[1].ver
  <1> DEFINE obj == store.md[e.key]
             next == [ctx[r] EXCEPT !.todo = @ \ {e}]
  <1>1. store' = store /\ pc' = pc
    BY DEF ReadEntry
  <1>2. ctx[r] \in BatchCtx /\ ctx[r].cache[e.key] = None
    BY DEF BatchTypes, InBatch
  <1>3. e \in BatchEntries /\ e.key \in AllKeys /\ obj \in BatchRecords \cup {None}
    BY <1>2, BatchesInHand DEF BatchTypes, BatchStore, BatchEntries
  <1>4. Found(ctx[r], e) = obj
    BY <1>2 DEF Found
  <1>5. /\ next \in BatchCtx /\ next.doomed = ctx[r].doomed
        /\ next.todo \subseteq ctx[r].todo
        /\ next.cache = ctx[r].cache /\ next.open = ctx[r].open
        /\ next.deleted = ctx[r].deleted /\ next.errors = ctx[r].errors
    <2>1. ctx[r].todo \ {e} \in SUBSET BatchEntries
      BY <1>2, BatchesInHand
    <2>2. next \in BatchCtx
      BY <1>2, <2>1, BatchesInHand
    <2> QED  BY <1>2, <2>2 DEF BatchCtx
  <1> DEFINE d == [next EXCEPT !.deleted = @ \cup {e}]
             f == [next EXCEPT !.errors = @ \cup {e}]
             o == [next EXCEPT !.open = @ \cup {<<e, obj>>}]
  <1>6. \/ ctx' = [ctx EXCEPT ![r] = d]
        \/ ctx' = [ctx EXCEPT ![r] = f]
        \/ /\ ctx' = [ctx EXCEPT ![r] = o]
           /\ obj = None => store.versioned /\ ~e.ver
    BY <1>4 DEF ReadEntry, Carry
  <1> HIDE DEF next, obj
  <1>7. /\ d \in BatchCtx /\ d.doomed = next.doomed /\ d.todo = next.todo
        /\ d.cache = next.cache /\ d.open = next.open
    <2>1. next.deleted \cup {e} \in SUBSET BatchEntries
      BY <1>3, <1>5, BatchesInHand
    <2>2. d \in BatchCtx
      BY <1>5, <2>1, BatchesInHand
    <2> QED  BY <1>5, <2>2 DEF BatchCtx
  <1>8. /\ f \in BatchCtx /\ f.doomed = next.doomed /\ f.todo = next.todo
        /\ f.cache = next.cache /\ f.open = next.open
    <2>1. next.errors \cup {e} \in SUBSET BatchEntries
      BY <1>3, <1>5, BatchesInHand
    <2>2. f \in BatchCtx
      BY <1>5, <2>1, BatchesInHand
    <2> QED  BY <1>5, <2>2 DEF BatchCtx
  <1>9. /\ o \in BatchCtx /\ o.doomed = next.doomed /\ o.todo = next.todo
        /\ o.cache = next.cache /\ o.open = next.open \cup {<<e, obj>>}
    <2>1. next.open \cup {<<e, obj>>} \in SUBSET (BatchEntries \X (BatchRecords \cup {None}))
      BY <1>3, <1>5, BatchesInHand
    <2>2. o \in BatchCtx
      BY <1>5, <2>1, BatchesInHand
    <2> QED  BY <1>5, <2>2 DEF BatchCtx
  <1> HIDE DEF d, f, o
  <1>10. CASE ctx' = [ctx EXCEPT ![r] = d]
    BY <1>1, <1>5, <1>7, <1>10
  <1>11. CASE ctx' = [ctx EXCEPT ![r] = f]
    BY <1>1, <1>5, <1>8, <1>11
  <1>12. CASE ctx' = [ctx EXCEPT ![r] = o] /\ (obj = None => store.versioned /\ ~e.ver)
    <2>1. \A x \in o.open :
            \/ x \in ctx[r].open
            \/ /\ x[1] \in BatchEntries /\ x[2] = store.md[x[1].key]
               /\ x[2] = None => store.versioned /\ ~x[1].ver
      BY <1>3, <1>5, <1>9, <1>12 DEF obj
    <2> QED  BY <1>1, <1>5, <1>9, <1>12, <2>1
  <1> QED  BY <1>6, <1>10, <1>11, <1>12


\* An entry that fails leaves the rest of the batch as it is.
LEMMA FailedCtx ==
    ASSUME NEW c \in BatchCtx, NEW e \in BatchEntries, NEW x
    PROVE  /\ Failed(c, e, x) \in BatchCtx /\ Failed(c, e, x).todo = c.todo
           /\ Failed(c, e, x).cache = c.cache /\ Failed(c, e, x).doomed = c.doomed
           /\ Failed(c, e, x).open \subseteq c.open
  <1> DEFINE o == [c EXCEPT !.open = @ \ {<<e, x>>}]
             f == [o EXCEPT !.errors = c.errors \cup {e}]
  <1>1. o \in BatchCtx
    <2>1. c.open \ {<<e, x>>} \in SUBSET (BatchEntries \X (BatchRecords \cup {None}))
      BY BatchesInHand
    <2> QED  BY <2>1, BatchesInHand
  <1>2. /\ o.todo = c.todo /\ o.cache = c.cache
        /\ o.doomed = c.doomed /\ o.open \subseteq c.open
        /\ o.errors = c.errors /\ o.deleted = c.deleted
    BY DEF BatchCtx
  <1> HIDE DEF o
  <1>3. f \in BatchCtx
    <2>1. c.errors \cup {e} \in SUBSET BatchEntries
      BY BatchesInHand
    <2> QED  BY <1>1, <2>1, BatchesInHand
  <1>4. /\ f.todo = c.todo /\ f.cache = c.cache
        /\ f.doomed = c.doomed /\ f.open \subseteq c.open
    BY <1>1, <1>2 DEF BatchCtx
  <1> HIDE DEF f
  <1>5. Failed(c, e, x) = f
    BY DEF Failed, o, f
  <1> QED  BY <1>3, <1>4, <1>5

\* An entry that is deleted dooms what it is told to.
LEMMA DeletedCtx ==
    ASSUME NEW c \in BatchCtx, NEW e \in BatchEntries, NEW x, NEW doomed \in SUBSET BatchLocs
    PROVE  /\ Deleted(c, e, x, doomed) \in BatchCtx /\ Deleted(c, e, x, doomed).todo = c.todo
           /\ Deleted(c, e, x, doomed).cache = c.cache
           /\ Deleted(c, e, x, doomed).doomed = c.doomed \cup doomed
           /\ Deleted(c, e, x, doomed).open \subseteq c.open
  <1> DEFINE o == [c EXCEPT !.open = @ \ {<<e, x>>}]
             d == [o EXCEPT !.deleted = c.deleted \cup {e}]
             g == [d EXCEPT !.doomed = c.doomed \cup doomed]
  <1>1. o \in BatchCtx
    <2>1. c.open \ {<<e, x>>} \in SUBSET (BatchEntries \X (BatchRecords \cup {None}))
      BY BatchesInHand
    <2> QED  BY <2>1, BatchesInHand
  <1>2. /\ o.todo = c.todo /\ o.cache = c.cache
        /\ o.doomed = c.doomed /\ o.open \subseteq c.open
        /\ o.errors = c.errors /\ o.deleted = c.deleted
    BY DEF BatchCtx
  <1> HIDE DEF o
  <1>5. d \in BatchCtx
    <2>1. c.deleted \cup {e} \in SUBSET BatchEntries
      BY BatchesInHand
    <2> QED  BY <1>1, <2>1, BatchesInHand
  <1>6. /\ d.todo = c.todo /\ d.cache = c.cache
        /\ d.doomed = c.doomed /\ d.open \subseteq c.open
    BY <1>1, <1>2 DEF BatchCtx
  <1> HIDE DEF d
  <1>7. g \in BatchCtx
    <2>1. c.doomed \cup doomed \in SUBSET BatchLocs
      BY BatchesInHand
    <2> QED  BY <1>5, <2>1, BatchesInHand
  <1>8. /\ g.todo = c.todo /\ g.cache = c.cache /\ g.doomed = c.doomed \cup doomed
        /\ g.open \subseteq c.open
    BY <1>5, <1>6 DEF BatchCtx
  <1>10. Deleted(c, e, x, doomed) = g
    BY DEF Deleted, o, d
  <1> QED  BY <1>7, <1>8, <1>10

\* A record goes, and the data that was read with the entry is doomed.
LEMMA DeleteEntryStep ==
    ASSUME BatchTypes, InHands, NEW r \in Reqs, pc[r] = "batch", NEW o \in ctx[r].open,
           DeleteEntry(r, o[1], o[2])
    PROVE  /\ pc' = pc /\ o[1].key \in AllKeys
           /\ \E c \in BatchCtx :
                /\ ctx' = [ctx EXCEPT ![r] = c]
                /\ c.todo = ctx[r].todo /\ c.cache = ctx[r].cache
                /\ c.open \subseteq ctx[r].open
                /\ \/ /\ store' = [store EXCEPT !.md[o[1].key] = None]
                      /\ store.md[o[1].key] # None /\ o[2] # None
                      /\ c.doomed = ctx[r].doomed \cup {o[2].loc}
                   \/ store' = store /\ c.doomed = ctx[r].doomed
  <1>1. ctx[r] \in BatchCtx
    BY DEF BatchTypes, InBatch
  <1>2. o[1] \in BatchEntries /\ o[1].key \in AllKeys /\ o[2] \in BatchRecords \cup {None}
    BY <1>1, BatchesInHand DEF BatchEntries
  <1>0. pc' = pc
    BY DEF DeleteEntry
  <1>3. o[2] # None
    BY DEF DeleteEntry, InHands, InBatch
  <1>4. {o[2].loc} \in SUBSET BatchLocs
    BY <1>2, <1>3 DEF BatchRecords, BatchLocs
  <1>5. CASE /\ store.md[o[1].key] # None
             /\ store' = [store EXCEPT !.md[o[1].key] = None]
             /\ ctx' = [ctx EXCEPT ![r] = Deleted(ctx[r], o[1], o[2], {o[2].loc})]
    <2> DEFINE d == Deleted(ctx[r], o[1], o[2], {o[2].loc})
    <2>1. /\ d \in BatchCtx /\ d.todo = ctx[r].todo /\ d.cache = ctx[r].cache
          /\ d.open \subseteq ctx[r].open /\ d.doomed = ctx[r].doomed \cup {o[2].loc}
      BY <1>1, <1>2, <1>4, DeletedCtx
    <2> HIDE DEF d
    <2>2. ctx' = [ctx EXCEPT ![r] = d]
      BY <1>5 DEF d
    <2> QED  BY <1>0, <1>2, <1>3, <1>5, <2>1, <2>2
  <1>6. CASE ctx' = [ctx EXCEPT ![r] = Failed(ctx[r], o[1], o[2])] /\ store' = store
    <2> DEFINE d == Failed(ctx[r], o[1], o[2])
    <2>1. /\ d \in BatchCtx /\ d.todo = ctx[r].todo /\ d.cache = ctx[r].cache
          /\ d.open \subseteq ctx[r].open /\ d.doomed = ctx[r].doomed
      BY <1>1, <1>2, FailedCtx
    <2> HIDE DEF d
    <2>2. ctx' = [ctx EXCEPT ![r] = d]
      BY <1>6 DEF d
    <2> QED  BY <1>0, <1>2, <1>6, <2>1, <2>2
  <1> QED  BY <1>5, <1>6 DEF DeleteEntry, Carry

\* A marker leaves the data to the record that it hides.
LEMMA MarkEntryStep ==
    ASSUME BatchTypes, NEW r \in Reqs, pc[r] = "batch", NEW o \in ctx[r].open,
           MarkEntry(r, o[1], o[2])
    PROVE  /\ pc' = pc
           /\ \E k \in AllKeys, m \in BatchRecords \cup {None} :
                /\ store' = [store EXCEPT !.md[k] = m]
                /\ m # None => store.md[k] # None /\ m.loc = store.md[k].loc
                /\ store.md[k] # None => m # None
           /\ \E c \in BatchCtx :
                /\ ctx' = [ctx EXCEPT ![r] = c]
                /\ c.todo = ctx[r].todo /\ c.cache = ctx[r].cache
                /\ c.open \subseteq ctx[r].open
                /\ c.doomed = ctx[r].doomed
  <1>1. ctx[r] \in BatchCtx
    BY DEF BatchTypes, InBatch
  <1>2. o[1] \in BatchEntries /\ o[1].key \in AllKeys
    BY <1>1, BatchesInHand DEF BatchEntries
  <1>3. \E c \in BatchCtx :
                /\ ctx' = [ctx EXCEPT ![r] = c]
                /\ c.todo = ctx[r].todo /\ c.cache = ctx[r].cache
                /\ c.open \subseteq ctx[r].open
                /\ c.doomed = ctx[r].doomed
    <2>0. PICK D \in SUBSET BatchLocs : D = {}
      OBVIOUS
    <2>1. ctx' = [ctx EXCEPT ![r] = Deleted(ctx[r], o[1], o[2], D)]
      BY <2>0 DEF MarkEntry, Carry
    <2> DEFINE d == Deleted(ctx[r], o[1], o[2], D)
    <2>2. /\ d \in BatchCtx /\ d.todo = ctx[r].todo /\ d.cache = ctx[r].cache
          /\ d.open \subseteq ctx[r].open /\ d.doomed = ctx[r].doomed \cup D
      BY <1>1, <1>2, DeletedCtx
    <2> HIDE DEF d
    <2>3. ctx' = [ctx EXCEPT ![r] = d]
      BY <2>1 DEF d
    <2> QED  BY <2>0, <2>2, <2>3
  <1> DEFINE old == store.md[o[1].key]
             m == IF old = None THEN old ELSE [old EXCEPT !.marker = TRUE]
  <1>4. store' = [store EXCEPT !.md[o[1].key] = m]
    BY DEF MarkEntry
  <1>5. old \in BatchRecords \cup {None}
    BY <1>2 DEF BatchTypes, BatchStore
  <1> HIDE DEF old
  <1>6. /\ m \in BatchRecords \cup {None}
        /\ m # None => old # None /\ m.loc = old.loc
        /\ old # None => m # None
    BY <1>5, BatchAssumption DEF BatchRecords
  <1> HIDE DEF m
  <1>7. pc' = pc
    BY DEF MarkEntry
  <1> QED  BY <1>2, <1>3, <1>4, <1>6, <1>7 DEF old

\* What the calls of a PUT do, and the end of a batch.
LEMMA PutSteps ==
    ASSUME BatchTypes, NEW r \in Reqs
    PROVE  /\ PutBeside(r) =>
                /\ pc[r] = "idle" /\ (scene.sequential => Quiet)
                /\ pc' = [pc EXCEPT ![r] = "putRecord"]
                /\ store' = [store EXCEPT !.data = store.data \cup {r}]
                /\ \E c \in PutCtx : /\ ctx' = [ctx EXCEPT ![r] = c]
                                     /\ c.read = store.md[c.key]
           /\ PutBesideRecord(r) =>
                /\ pc[r] = "putRecord" /\ ctx' = ctx
                /\ pc' = [pc EXCEPT ![r] = "deleteOverwritten"]
                /\ \E m \in BatchRecords :
                     m.loc = r /\ store' = [store EXCEPT !.md[ctx[r].key] = m]
           /\ DeleteOverwritten(r) =>
                /\ pc[r] = "deleteOverwritten" /\ ctx' = ctx
                /\ pc' = [pc EXCEPT ![r] = "ok"]
                /\ \E gone : /\ gone = IF ctx[r].read = None THEN {} ELSE {ctx[r].read.loc}
                             /\ store' = [store EXCEPT !.data = store.data \ gone]
           /\ DeleteBatchData(r) =>
                /\ pc[r] = "batch" /\ ctx' = ctx
                /\ pc' = [pc EXCEPT ![r] = "ok"]
                /\ store' = [store EXCEPT !.data = store.data \ ctx[r].doomed]
  <1> USE DEF Goto, Carry
  <1>0. store \in BatchStore
    BY DEF BatchTypes
  <1>1. ASSUME PutBeside(r)
        PROVE  \E c \in PutCtx : ctx' = [ctx EXCEPT ![r] = c] /\ c.read = store.md[c.key]
    <2>1. PICK k \in Keys : ctx' = [ctx EXCEPT ![r] = [key |-> k, read |-> store.md[k]]]
      BY <1>1 DEF PutBeside
    <2>2. k \in AllKeys
      BY DEF Keys
    <2>3. store.md[k] \in BatchRecords \cup {None}
      BY <1>0, <2>2 DEF BatchStore
    <2> DEFINE c == [key |-> k, read |-> store.md[k]]
    <2>4. c \in PutCtx /\ c.read = store.md[c.key]
      BY <2>2, <2>3 DEF PutCtx
    <2>5. ctx' = [ctx EXCEPT ![r] = c]
      BY <2>1
    <2> QED  BY <2>4, <2>5
  <1>2. PutBeside(r) => /\ pc[r] = "idle" /\ (scene.sequential => Quiet)
                        /\ pc' = [pc EXCEPT ![r] = "putRecord"]
                        /\ store' = [store EXCEPT !.data = store.data \cup {r}]
    BY DEF PutBeside, Sent
  <1>3. ASSUME PutBesideRecord(r)
        PROVE  /\ pc[r] = "putRecord" /\ ctx' = ctx
               /\ pc' = [pc EXCEPT ![r] = "deleteOverwritten"]
               /\ \E m \in BatchRecords :
                     m.loc = r /\ store' = [store EXCEPT !.md[ctx[r].key] = m]
    <2>1. [loc |-> r, locked |-> FALSE, marker |-> FALSE] \in BatchRecords
      BY DEF BatchRecords
    <2> QED  BY <1>3, <2>1 DEF PutBesideRecord
  <1>4. ASSUME DeleteOverwritten(r)
        PROVE  /\ pc[r] = "deleteOverwritten" /\ ctx' = ctx
               /\ pc' = [pc EXCEPT ![r] = "ok"]
               /\ \E gone : /\ gone = IF ctx[r].read = None THEN {} ELSE {ctx[r].read.loc}
                            /\ store' = [store EXCEPT !.data = store.data \ gone]
    <2>1. store' = [store EXCEPT !.data = store.data \
                       (IF ctx[r].read = None THEN {} ELSE {ctx[r].read.loc})]
      <3>1. CASE ctx[r].read = None
        <4>1. store.data \ {} = store.data
          OBVIOUS
        <4> QED  BY <1>4, <3>1, <4>1 DEF DeleteOverwritten
      <3>2. CASE ctx[r].read # None
        BY <1>4, <3>2 DEF DeleteOverwritten
      <3> QED  BY <3>1, <3>2
    <2> QED  BY <1>4, <2>1 DEF DeleteOverwritten
  <1>5. DeleteBatchData(r) =>
                /\ pc[r] = "batch" /\ ctx' = ctx
                /\ pc' = [pc EXCEPT ![r] = "ok"]
                /\ store' = [store EXCEPT !.data = store.data \ ctx[r].doomed]
    BY DEF DeleteBatchData
  <1> QED  BY <1>1, <1>2, <1>3, <1>4, <1>5

-----------------------------------------------------------------------------
\* A step is one request's.
BatchStepOf(r) ==
    \/ MultiObjectDelete(r) \/ ReadAhead(r)
    \/ \E e \in ctx[r].todo : pc[r] = "batch" /\ ReadEntry(r, e)
    \/ \E o \in ctx[r].open : pc[r] = "batch" /\ DeleteEntry(r, o[1], o[2])
    \/ \E o \in ctx[r].open : pc[r] = "batch" /\ MarkEntry(r, o[1], o[2])
    \/ DeleteBatchData(r)
    \/ PutBeside(r) \/ PutBesideRecord(r) \/ DeleteOverwritten(r) \/ Die(r)

\* The next-state relation is the steps of the requests.
LEMMA BatchStepsAre ==
    BatchNext => In("batch") /\ scene' = scene /\ \E r \in Reqs : BatchStepOf(r)
  BY DEF BatchNext, BatchStep, BatchStepOf

\* What the records name, and data that no record names any more, outlives each step.
LEMMA BatchFrame ==
    ASSUME KeysApart, In("batch"), scene \in Scenes, scene' = scene, BatchTypes, InHands,
           NEW r \in Reqs, BatchStepOf(r)
    PROVE  /\ \A q \in Reqs \ {r} : pc'[q] = pc[q] /\ ctx'[q] = ctx[q]
           /\ store' \in BatchStore /\ store'.versioned = store.versioned
           /\ \A l : Past(l) => Past(l)'
           /\ \A j \in AllKeys : store'.md[j] # None =>
                \/ store.md[j] # None /\ store'.md[j].loc = store.md[j].loc
                \/ pc[r] = "putRecord" /\ store'.md[j].loc = r
  <1>0. /\ store \in BatchStore /\ DOMAIN ctx = Reqs
        /\ pc \in [Reqs -> {"idle", "readAhead", "batch", "putRecord", "deleteOverwritten",
                            "ok", "failed"}]
    BY DEF BatchTypes
  <1>0a. store.data \in SUBSET BatchLocs /\ store.md \in [AllKeys -> BatchRecords \cup {None}]
    BY <1>0 DEF BatchStore
  <1> DEFINE Goal == /\ \A q \in Reqs \ {r} : pc'[q] = pc[q] /\ ctx'[q] = ctx[q]
                     /\ store' \in BatchStore /\ store'.versioned = store.versioned
                     /\ \A l : Past(l) => Past(l)'
                     /\ \A j \in AllKeys : store'.md[j] # None =>
                          \/ store.md[j] # None /\ store'.md[j].loc = store.md[j].loc
                          \/ pc[r] = "putRecord" /\ store'.md[j].loc = r
  <1>1. CASE MultiObjectDelete(r)
    BY <1>0, <1>1, BatchArrives DEF Past
  <1>2. CASE ReadAhead(r)
    BY <1>0, <1>2, ReadAheadStep DEF Past
  <1>3. ASSUME NEW e \in ctx[r].todo, pc[r] = "batch", ReadEntry(r, e)  PROVE  Goal
    BY <1>0, <1>3, ReadEntryStep DEF Past
  <1>4. ASSUME NEW o \in ctx[r].open, pc[r] = "batch", DeleteEntry(r, o[1], o[2])  PROVE  Goal
    <2>1. \A q \in Reqs \ {r} : pc'[q] = pc[q] /\ ctx'[q] = ctx[q]
      BY <1>0, <1>4, DeleteEntryStep
    <2>2. /\ pc' = pc
          /\ store' = store \/ \E k \in AllKeys : store' = [store EXCEPT !.md[k] = None]
      BY <1>4, DeleteEntryStep
    <2>3. CASE store' = store
      BY <1>0, <2>1, <2>2, <2>3 DEF Past
    <2>4. CASE \E k \in AllKeys : store' = [store EXCEPT !.md[k] = None]
      BY <1>0, <2>1, <2>2, <2>4, BatchStoreParts DEF Past
    <2> QED  BY <2>2, <2>3, <2>4
  <1>5. ASSUME NEW o \in ctx[r].open, pc[r] = "batch", MarkEntry(r, o[1], o[2])  PROVE  Goal
    <2>1. \A q \in Reqs \ {r} : pc'[q] = pc[q] /\ ctx'[q] = ctx[q]
      BY <1>0, <1>5, MarkEntryStep
    <2>2. pc' = pc
      BY <1>5, MarkEntryStep
    <2>3. PICK k \in AllKeys, m \in BatchRecords \cup {None} :
                /\ store' = [store EXCEPT !.md[k] = m]
                /\ m # None => store.md[k] # None /\ m.loc = store.md[k].loc
      BY <1>5, MarkEntryStep
    <2> QED  BY <1>0, <2>1, <2>2, <2>3, BatchStoreParts DEF Past
  <1>6. CASE DeleteBatchData(r)
    <2>1. /\ store' = [store EXCEPT !.data = store.data \ ctx[r].doomed]
          /\ pc[r] = "batch" /\ pc' = [pc EXCEPT ![r] = "ok"] /\ ctx' = ctx
      BY <1>6, PutSteps
    <2>2. store.data \ ctx[r].doomed \in SUBSET BatchLocs
      BY <1>0a
    <2> QED  BY <1>0, <2>1, <2>2, BatchStoreParts DEF Past
  <1>7. CASE PutBeside(r)
    <2>1. store.data \cup {r} \in SUBSET BatchLocs
      BY <1>0a DEF BatchLocs
    <2>2. store' = [store EXCEPT !.data = store.data \cup {r}] /\ pc[r] = "idle"
          /\ pc' = [pc EXCEPT ![r] = "putRecord"]
      BY <1>7, PutSteps
    <2>3. \A q \in Reqs \ {r} : pc'[q] = pc[q] /\ ctx'[q] = ctx[q]
      BY <1>0, <1>7, PutSteps
    <2> QED  BY <1>0, <2>1, <2>2, <2>3, BatchStoreParts DEF Past
  <1>8. CASE PutBesideRecord(r)
    <2>1. /\ pc[r] = "putRecord" /\ ctx' = ctx
          /\ pc' = [pc EXCEPT ![r] = "deleteOverwritten"]
      BY <1>8, PutSteps
    <2>2. PICK m \in BatchRecords :
                     m.loc = r /\ store' = [store EXCEPT !.md[ctx[r].key] = m]
      BY <1>8, PutSteps
    <2>3. ctx[r].key \in AllKeys
      BY <2>1 DEF BatchTypes, InPut, PutCtx
    <2> QED  BY <1>0, <2>1, <2>2, <2>3, BatchStoreParts DEF Past
  <1>9. CASE DeleteOverwritten(r)
    <2>1. PICK gone : store' = [store EXCEPT !.data = store.data \ gone]
      BY <1>9, PutSteps
    <2>2. store.data \ gone \in SUBSET BatchLocs
      BY <1>0a
    <2>3. pc[r] = "deleteOverwritten" /\ pc' = [pc EXCEPT ![r] = "ok"] /\ ctx' = ctx
      BY <1>9, PutSteps
    <2> QED  BY <1>0, <2>1, <2>2, <2>3, BatchStoreParts DEF Past
  <1>10. CASE Die(r)
    BY <1>0, <1>10 DEF Die, Goto, Past
  <1> QED  BY <1>1, <1>2, <1>3, <1>4, <1>5, <1>6, <1>7, <1>8, <1>9, <1>10 DEF BatchStepOf

\* What belongs to one record, and what no record names, stays so.
LEMMA NamesKept ==
    ASSUME KeysApart, In("batch"), scene \in Scenes, scene' = scene, BatchTypes, InHands,
           NEW r \in Reqs, BatchStepOf(r)
    PROVE  /\ \A k \in AllKeys : \A l : OwnedBy(k, l) => OwnedBy(k, l)'
           /\ \A l : Unnamed(l) => Unnamed(l)'
  BY BatchFrame DEF OwnedBy, Unnamed, Past

\* Every step keeps the types.
LEMMA BatchTypesKept ==
    ASSUME KeysApart, In("batch"), scene \in Scenes, scene' = scene, BatchTypes, InHands,
           NEW r \in Reqs, BatchStepOf(r)
    PROVE  BatchTypes'
  <1>0. /\ pc \in [Reqs -> {"idle", "readAhead", "batch", "putRecord", "deleteOverwritten",
                        "ok", "failed"}] /\ DOMAIN ctx = Reqs
        /\ InBatch(r) => ctx[r] \in BatchCtx
        /\ InPut(r) => ctx[r] \in PutCtx
        /\ pc[r] = "batch" => \A e \in ctx[r].todo : ctx[r].cache[e.key] = None
    BY DEF BatchTypes
  <1>0a. store' \in BatchStore
    BY BatchFrame
  <1>0b. \A q \in Reqs \ {r} : pc'[q] = pc[q] /\ ctx'[q] = ctx[q]
    BY BatchFrame
  <1> DEFINE Goal == /\ pc' \in [Reqs -> {"idle", "readAhead", "batch", "putRecord",
                                   "deleteOverwritten", "ok", "failed"}]
                     /\ DOMAIN ctx' = Reqs
                     /\ InBatch(r)' => ctx'[r] \in BatchCtx
                     /\ InPut(r)' => ctx'[r] \in PutCtx
                     /\ pc'[r] = "batch" =>
                          \A e \in ctx'[r].todo : ctx'[r].cache[e.key] = None
  <1> USE DEF InBatch, InPut
  <1>1. ASSUME MultiObjectDelete(r)  PROVE  Goal
    BY <1>0, <1>1, BatchArrives
  <1>2. ASSUME ReadAhead(r)  PROVE  Goal
    BY <1>0, <1>2, ReadAheadStep
  <1>3. ASSUME NEW e \in ctx[r].todo, pc[r] = "batch", ReadEntry(r, e)  PROVE  Goal
    <2>1. pc' = pc
      BY <1>3, ReadEntryStep
    <2>2. PICK c \in BatchCtx :
                /\ ctx' = [ctx EXCEPT ![r] = c]
                /\ c.todo \subseteq ctx[r].todo
                /\ c.cache = ctx[r].cache
      BY <1>3, ReadEntryStep
    <2> QED  BY <1>0, <1>3, <2>1, <2>2
  <1>4. ASSUME NEW o \in ctx[r].open, pc[r] = "batch", DeleteEntry(r, o[1], o[2])  PROVE  Goal
    <2>1. pc' = pc
      BY <1>4, DeleteEntryStep
    <2>2. PICK c \in BatchCtx :
                /\ ctx' = [ctx EXCEPT ![r] = c]
                /\ c.todo = ctx[r].todo
                /\ c.cache = ctx[r].cache
      BY <1>4, DeleteEntryStep
    <2> QED  BY <1>0, <1>4, <2>1, <2>2
  <1>5. ASSUME NEW o \in ctx[r].open, pc[r] = "batch", MarkEntry(r, o[1], o[2])  PROVE  Goal
    <2>1. pc' = pc
      BY <1>5, MarkEntryStep
    <2>2. PICK c \in BatchCtx :
                /\ ctx' = [ctx EXCEPT ![r] = c]
                /\ c.todo = ctx[r].todo
                /\ c.cache = ctx[r].cache
      BY <1>5, MarkEntryStep
    <2> QED  BY <1>0, <1>5, <2>1, <2>2
  <1>6. ASSUME DeleteBatchData(r)  PROVE  Goal
    BY <1>0, <1>6, PutSteps
  <1>7. ASSUME PutBeside(r)  PROVE  Goal
    <2>1. pc' = [pc EXCEPT ![r] = "putRecord"]
      BY <1>7, PutSteps
    <2>2. PICK c \in PutCtx : ctx' = [ctx EXCEPT ![r] = c]
      BY <1>7, PutSteps
    <2> QED  BY <1>0, <2>1, <2>2
  <1>8. ASSUME PutBesideRecord(r)  PROVE  Goal
    <2>1. /\ pc[r] = "putRecord" /\ ctx' = ctx
          /\ pc' = [pc EXCEPT ![r] = "deleteOverwritten"]
      BY <1>8, PutSteps
    <2> QED  BY <1>0, <2>1
  <1>9. ASSUME DeleteOverwritten(r)  PROVE  Goal
    <2>1. pc[r] = "deleteOverwritten" /\ pc' = [pc EXCEPT ![r] = "ok"] /\ ctx' = ctx
      BY <1>9, PutSteps
    <2> QED  BY <1>0, <2>1
  <1>10. ASSUME Die(r)  PROVE  Goal
    BY <1>0, <1>10 DEF Die, Goto
  <1>11. Goal
    BY <1>1, <1>2, <1>3, <1>4, <1>5, <1>6, <1>7, <1>8, <1>9, <1>10 DEF BatchStepOf
  <1> HIDE DEF InBatch, InPut
  <1>12. \A q \in Reqs \ {r} : (InBatch(q)' <=> InBatch(q)) /\ (InPut(q)' <=> InPut(q))
    BY <1>0b DEF InBatch, InPut
  <1>13. ASSUME NEW q \in Reqs
         PROVE  /\ InBatch(q)' => ctx'[q] \in BatchCtx
                /\ InPut(q)' => ctx'[q] \in PutCtx
                /\ pc'[q] = "batch" => \A e \in ctx'[q].todo : ctx'[q].cache[e.key] = None
    <2>1. CASE q = r
      BY <1>11, <2>1
    <2>2. CASE q # r
      BY <1>0b, <1>12, <2>2 DEF BatchTypes
    <2> QED  BY <2>1, <2>2
  <1> QED  BY <1>0a, <1>11, <1>13 DEF BatchTypes

\* Data that is deleted is named by no record.
LEMMA BatchData ==
    ASSUME KeysApart, In("batch"), scene \in Scenes, BatchTypes, InHands,
           NEW r \in Reqs, BatchStepOf(r)
    PROVE  \A l \in store.data : l \in store'.data \/ Unnamed(l)
  <1>0. store \in BatchStore /\ store.data \in SUBSET BatchLocs
    BY DEF BatchTypes, BatchStore
  <1> DEFINE Goal == \A l \in store.data : l \in store'.data \/ Unnamed(l)
  <1>1. CASE MultiObjectDelete(r)
    BY <1>1, BatchArrives
  <1>2. CASE ReadAhead(r)
    BY <1>2, ReadAheadStep
  <1>3. ASSUME NEW e \in ctx[r].todo, pc[r] = "batch", ReadEntry(r, e)  PROVE  Goal
    BY <1>3, ReadEntryStep
  <1>4. ASSUME NEW o \in ctx[r].open, pc[r] = "batch", DeleteEntry(r, o[1], o[2])  PROVE  Goal
    <2>1. o[1].key \in AllKeys
      BY <1>4, DeleteEntryStep
    <2>2. store' = [store EXCEPT !.md[o[1].key] = None] \/ store' = store
      BY <1>4, DeleteEntryStep
    <2>3. CASE store' = [store EXCEPT !.md[o[1].key] = None]
      <3>1. None \in BatchRecords \cup {None}
        OBVIOUS
      <3>2. store'.data = store.data
        BY <1>0, <2>1, <2>3, <3>1, BatchStoreParts
      <3> QED  BY <3>2
    <2>4. CASE store' = store
      BY <2>4
    <2> QED  BY <2>2, <2>3, <2>4
  <1>5. ASSUME NEW o \in ctx[r].open, pc[r] = "batch", MarkEntry(r, o[1], o[2])  PROVE  Goal
    <2>1. PICK k \in AllKeys, m \in BatchRecords \cup {None} :
                store' = [store EXCEPT !.md[k] = m]
      BY <1>5, MarkEntryStep
    <2> QED  BY <1>0, <2>1, BatchStoreParts
  <1>6. CASE DeleteBatchData(r)
    <2>1. /\ store' = [store EXCEPT !.data = store.data \ ctx[r].doomed]
          /\ pc[r] = "batch"
      BY <1>6, PutSteps
    <2>2. store.data \ ctx[r].doomed \in SUBSET BatchLocs
      BY <1>0
    <2>3. \A l \in ctx[r].doomed : Unnamed(l)
      BY <2>1 DEF InHands, InBatch
    <2>4. store'.data = store.data \ ctx[r].doomed
      BY <1>0, <2>1, <2>2, BatchStoreParts
    <2> QED  BY <2>3, <2>4
  <1>7. CASE PutBeside(r)
    <2>1. store.data \cup {r} \in SUBSET BatchLocs
      BY <1>0 DEF BatchLocs
    <2>2. store' = [store EXCEPT !.data = store.data \cup {r}]
      BY <1>7, PutSteps
    <2> QED  BY <1>0, <2>1, <2>2, BatchStoreParts
  <1>8. CASE PutBesideRecord(r)
    <2>1. pc[r] = "putRecord"
      BY <1>8, PutSteps
    <2>2. PICK m \in BatchRecords : store' = [store EXCEPT !.md[ctx[r].key] = m]
      BY <1>8, PutSteps
    <2>3. ctx[r].key \in AllKeys
      BY <2>1 DEF BatchTypes, InPut, PutCtx
    <2> QED  BY <1>0, <2>2, <2>3, BatchStoreParts
  <1>9. CASE DeleteOverwritten(r)
    <2>1. PICK gone : /\ gone = IF ctx[r].read = None THEN {} ELSE {ctx[r].read.loc}
                      /\ store' = [store EXCEPT !.data = store.data \ gone]
      BY <1>9, PutSteps
    <2>2. store.data \ gone \in SUBSET BatchLocs
      BY <1>0
    <2>3. pc[r] = "deleteOverwritten"
      BY <1>9, PutSteps
    <2>4. \A l \in gone : Unnamed(l)
      BY <2>1, <2>3 DEF InHands
    <2>5. store'.data = store.data \ gone
      BY <1>0, <2>1, <2>2, BatchStoreParts
    <2> QED  BY <2>4, <2>5
  <1>10. CASE Die(r)
    BY <1>10 DEF Die
  <1> QED  BY <1>1, <1>2, <1>3, <1>4, <1>5, <1>6, <1>7, <1>8, <1>9, <1>10 DEF BatchStepOf

\* What a PUT's record names after it is written.
LEMMA PutWrites ==
    ASSUME BatchTypes, RecordsOwn, NEW r \in Reqs, PutBesideRecord(r)
    PROVE  /\ pc[r] = "putRecord" /\ pc' = [pc EXCEPT ![r] = "deleteOverwritten"]
           /\ ctx' = ctx /\ ctx[r].key \in AllKeys
           /\ store'.data = store.data /\ OwnedBy(ctx[r].key, r)'
           /\ store'.md[ctx[r].key] # None /\ store'.md[ctx[r].key].loc = r
           /\ \A j \in AllKeys \ {ctx[r].key} : store'.md[j] = store.md[j]
           /\ \A l : Past(l) => l # r
  <1>1. /\ pc[r] = "putRecord" /\ pc' = [pc EXCEPT ![r] = "deleteOverwritten"] /\ ctx' = ctx
    BY PutSteps
  <1>2. ctx[r].key \in AllKeys /\ store \in BatchStore
    BY <1>1 DEF BatchTypes, InPut, PutCtx
  <1>3. PICK m \in BatchRecords : m.loc = r /\ store' = [store EXCEPT !.md[ctx[r].key] = m]
    BY PutSteps
  <1>4. \A j \in AllKeys : store'.md[j] = IF j = ctx[r].key THEN m ELSE store.md[j]
    BY <1>2, <1>3, BatchStoreParts
  <1>5. store'.data = store.data
    BY <1>2, <1>3, BatchStoreParts
  <1>6. m # None
    BY BatchAssumption
  <1>7. \A l : Past(l) => l # r
    BY <1>1 DEF Past
  <1>8. \A j \in AllKeys : store.md[j] # None => store.md[j].loc # r
    BY <1>7 DEF RecordsOwn, OwnedBy
  <1>9. Past(r)'
    BY <1>1 DEF Past, BatchTypes
  <1>10. OwnedBy(ctx[r].key, r)'
    BY <1>1, <1>4, <1>8, <1>9 DEF OwnedBy
  <1> QED  BY <1>1, <1>2, <1>3, <1>4, <1>5, <1>6, <1>7, <1>10

\* Every record keeps its data, and shares it with no other.
LEMMA RecordsOwnKept ==
    ASSUME KeysApart, In("batch"), scene \in Scenes, scene' = scene, BatchTypes, RecordsOwn,
           InHands, NEW r \in Reqs, BatchStepOf(r)
    PROVE  RecordsOwn'
  <1> SUFFICES ASSUME NEW k \in AllKeys, NEW l, store'.md[k] # None, l = store'.md[k].loc
               PROVE  l \in store'.data /\ OwnedBy(k, l)'
    BY DEF RecordsOwn, OwnedBy, Past
  <1>1. CASE store.md[k] # None /\ l = store.md[k].loc
    <2>1. l \in store.data /\ OwnedBy(k, l)
      BY <1>1 DEF RecordsOwn
    <2>2. l \in store'.data
      BY <1>1, <2>1, BatchData DEF Unnamed
    <2> QED  BY <2>1, <2>2, NamesKept
  <1>2. CASE PutBesideRecord(r)
    <2>1. CASE k = ctx[r].key
      <3>1. r \in store.data /\ l = r /\ store'.data = store.data
        BY <1>2, <2>1, PutWrites DEF InHands
      <3>2. OwnedBy(k, r)'
        BY <1>2, <2>1, PutWrites DEF OwnedBy, Past
      <3> QED  BY <3>1, <3>2
    <2>2. CASE k # ctx[r].key
      BY <1>1, <1>2, <2>2, PutWrites
    <2> QED  BY <2>1, <2>2
  <1>3. CASE pc[r] = "putRecord" /\ ~PutBesideRecord(r)
    <2>1. Die(r)
      BY <1>3, BatchArrives, ReadAheadStep, PutSteps DEF BatchStepOf
    <2> QED  BY <1>1, <2>1 DEF Die
  <1> QED  BY <1>1, <1>2, <1>3, BatchFrame

\* What requests have in hand stays theirs to delete.
LEMMA InHandsKept ==
    ASSUME KeysApart, In("batch"), scene \in Scenes, scene' = scene, BatchTypes, RecordsOwn,
           InHands, NEW r \in Reqs, BatchStepOf(r)
    PROVE  InHands'
  <1> DEFINE Holds(q) ==
        /\ pc[q] = "putRecord" =>
            /\ q \in store.data
            /\ ctx[q].read # None => OwnedBy(ctx[q].key, ctx[q].read.loc)
        /\ pc[q] = "deleteOverwritten" /\ ctx[q].read # None => Unnamed(ctx[q].read.loc)
        /\ InBatch(q) =>
            /\ \A o \in ctx[q].open : o[2] # None => OwnedBy(o[1].key, o[2].loc)
            /\ \A o \in ctx[q].open : o[2] = None => store.versioned /\ ~o[1].ver
            /\ \A l \in ctx[q].doomed : Unnamed(l)
  <1>0. /\ store \in BatchStore /\ store.data \in SUBSET BatchLocs
        /\ pc \in [Reqs -> {"idle", "readAhead", "batch", "putRecord", "deleteOverwritten",
                        "ok", "failed"}] /\ DOMAIN ctx = Reqs
        /\ InBatch(r) => ctx[r] \in BatchCtx
        /\ InPut(r) => ctx[r] \in PutCtx
    BY DEF BatchTypes, BatchStore
  <1>0a. \A q \in Reqs : Holds(q)
    BY DEF InHands
  <1>0b. /\ \A q \in Reqs \ {r} : pc'[q] = pc[q] /\ ctx'[q] = ctx[q]
         /\ store'.versioned = store.versioned
    BY BatchFrame
  <1>0c. /\ \A k \in AllKeys : \A l : OwnedBy(k, l) => OwnedBy(k, l)'
         /\ \A l : Unnamed(l) => Unnamed(l)'
    BY NamesKept
  <1>0d. ASSUME InBatch(r)
         PROVE  /\ \A o \in ctx[r].open : o[1].key \in AllKeys
                /\ \A o \in ctx[r].open : o[2] # None => OwnedBy(o[1].key, o[2].loc)
                /\ \A o \in ctx[r].open : o[2] = None => store.versioned /\ ~o[1].ver
                /\ \A l \in ctx[r].doomed : Unnamed(l)
    <2>1. ctx[r].open \in SUBSET (BatchEntries \X (BatchRecords \cup {None}))
      BY <1>0, <1>0d, BatchesInHand
    <2> QED  BY <1>0a, <1>0d, <2>1 DEF BatchEntries
  <1>1. ASSUME NEW q \in Reqs \ {r}  PROVE  Holds(q)'
    <2>1. pc'[q] = pc[q] /\ ctx'[q] = ctx[q] /\ Holds(q)
      BY <1>0a, <1>0b
    <2>2. ASSUME pc[q] = "putRecord"
          PROVE  /\ q \in store'.data
                 /\ ctx'[q].read # None => OwnedBy(ctx[q].key, ctx[q].read.loc)'
      <3>1. ctx[q].key \in AllKeys
        BY <2>2 DEF BatchTypes, InPut, PutCtx
      <3>2. q \in store'.data
        BY <2>1, <2>2, BatchData DEF Unnamed, Past
      <3>3. ASSUME ctx'[q].read # None, NEW k, NEW l, k = ctx[q].key, l = ctx[q].read.loc
            PROVE  OwnedBy(k, l)'
        BY <1>0c, <2>1, <2>2, <3>1, <3>3
      <3> QED  BY <2>1, <3>2, <3>3 DEF OwnedBy, Past
    <2>3. ASSUME pc[q] = "deleteOverwritten", ctx'[q].read # None
          PROVE  Unnamed(ctx[q].read.loc)'
      <3>1. ASSUME NEW l, l = ctx[q].read.loc  PROVE  Unnamed(l)'
        BY <1>0c, <2>1, <2>3, <3>1
      <3> QED  BY <2>1, <3>1 DEF Unnamed, Past
    <2>4. ASSUME InBatch(q)
          PROVE  /\ \A o \in ctx'[q].open : o[2] # None => OwnedBy(o[1].key, o[2].loc)'
                 /\ \A o \in ctx'[q].open : o[2] = None => store'.versioned /\ ~o[1].ver
                 /\ \A l \in ctx'[q].doomed : Unnamed(l)'
      <3>1. ctx[q].open \in SUBSET (BatchEntries \X (BatchRecords \cup {None}))
        BY <2>4, BatchesInHand DEF BatchTypes
      <3>2. \A o \in ctx[q].open : o[1].key \in AllKeys
        BY <3>1 DEF BatchEntries
      <3> QED  BY <1>0b, <1>0c, <2>1, <2>4, <3>2
    <2>5. InBatch(q)' <=> InBatch(q)
      BY <2>1 DEF InBatch
    <2> QED  BY <2>1, <2>2, <2>3, <2>4, <2>5
  <1>2. Holds(r)'
    <2>1. ASSUME MultiObjectDelete(r)  PROVE  Holds(r)'
      BY <1>0, <2>1, BatchArrives DEF InBatch
    <2>2. ASSUME ReadAhead(r)  PROVE  Holds(r)'
      <3>1. pc' = [pc EXCEPT ![r] = "batch"] /\ pc[r] = "readAhead" /\ store' = store
        BY <2>2, ReadAheadStep
      <3>2. PICK c \in BatchCtx : /\ ctx' = [ctx EXCEPT ![r] = c]
                                  /\ c.open = ctx[r].open /\ c.doomed = ctx[r].doomed
        BY <2>2, ReadAheadStep
      <3>3. InBatch(r)
        BY <3>1 DEF InBatch
      <3>4. ctx'[r].open = ctx[r].open /\ ctx'[r].doomed = ctx[r].doomed
        BY <1>0, <3>2
      <3> QED  BY <1>0, <1>0c, <1>0d, <3>1, <3>3, <3>4
    <2>3. ASSUME NEW e \in ctx[r].todo, pc[r] = "batch", ReadEntry(r, e)  PROVE  Holds(r)'
      <3>1. pc' = pc /\ store' = store
        BY <2>3, ReadEntryStep
      <3>2. PICK c \in BatchCtx :
                /\ ctx' = [ctx EXCEPT ![r] = c]
                /\ c.doomed = ctx[r].doomed
                /\ \A o \in c.open :
                      \/ o \in ctx[r].open
                      \/ /\ o[1] \in BatchEntries /\ o[2] = store.md[o[1].key]
                         /\ o[2] = None => store.versioned /\ ~o[1].ver
        BY <2>3, ReadEntryStep
      <3>3. InBatch(r)
        BY <2>3 DEF InBatch
      <3>4. ctx'[r].open = c.open /\ ctx'[r].doomed = ctx[r].doomed
        BY <1>0, <3>2
      <3>5. \A k \in AllKeys : store.md[k] # None => OwnedBy(k, store.md[k].loc)
        BY DEF RecordsOwn
      <3>6. \A o \in c.open : /\ o[1].key \in AllKeys
                              /\ o[2] # None => OwnedBy(o[1].key, o[2].loc)
                              /\ o[2] = None => store.versioned /\ ~o[1].ver
        BY <1>0d, <3>2, <3>3, <3>5 DEF BatchEntries
      <3> QED  BY <1>0c, <1>0d, <2>3, <3>1, <3>3, <3>4, <3>6
    <2>4. ASSUME NEW o \in ctx[r].open, pc[r] = "batch", DeleteEntry(r, o[1], o[2])
          PROVE  Holds(r)'
      <3>1. pc' = pc
        BY <2>4, DeleteEntryStep
      <3>2. PICK c \in BatchCtx :
                /\ ctx' = [ctx EXCEPT ![r] = c]
                /\ c.open \subseteq ctx[r].open
                /\ \/ /\ store' = [store EXCEPT !.md[o[1].key] = None]
                      /\ o[2] # None
                      /\ c.doomed = ctx[r].doomed \cup {o[2].loc}
                   \/ c.doomed = ctx[r].doomed
        BY <2>4, DeleteEntryStep
      <3>3. InBatch(r)
        BY <2>4 DEF InBatch
      <3>4. ctx'[r].open = c.open /\ ctx'[r].doomed = c.doomed
        BY <1>0, <3>2
      <3>5. ASSUME store' = [store EXCEPT !.md[o[1].key] = None], o[2] # None,
                   NEW l, l = o[2].loc
            PROVE  Unnamed(l)'
        <4>1. OwnedBy(o[1].key, o[2].loc) /\ o[1].key \in AllKeys
          BY <1>0d, <3>3, <3>5
        <4>2. OwnedBy(o[1].key, l)
          BY <3>5, <4>1
        <4>3. OwnedBy(o[1].key, l)'
          BY <1>0c, <4>1, <4>2
        <4>4. store'.md[o[1].key] = None
          BY <1>0, <3>5, <4>1, BatchStoreParts
        <4> QED  BY <4>3, <4>4 DEF OwnedBy, Unnamed
      <3>6. \A l \in c.doomed : Unnamed(l)'
        BY <1>0c, <1>0d, <3>2, <3>3, <3>5
      <3> QED  BY <1>0b, <1>0c, <1>0d, <2>4, <3>1, <3>2, <3>3, <3>4, <3>6
    <2>5. ASSUME NEW o \in ctx[r].open, pc[r] = "batch", MarkEntry(r, o[1], o[2])
          PROVE  Holds(r)'
      <3>1. pc' = pc
        BY <2>5, MarkEntryStep
      <3>2. PICK c \in BatchCtx :
                /\ ctx' = [ctx EXCEPT ![r] = c]
                /\ c.open \subseteq ctx[r].open
                /\ c.doomed = ctx[r].doomed
        BY <2>5, MarkEntryStep
      <3>3. InBatch(r)
        BY <2>5 DEF InBatch
      <3>4. ctx'[r].open = c.open /\ ctx'[r].doomed = c.doomed
        BY <1>0, <3>2
      <3> QED  BY <1>0b, <1>0c, <1>0d, <2>5, <3>1, <3>2, <3>3, <3>4
    <2>6. ASSUME DeleteBatchData(r)  PROVE  Holds(r)'
      <3>1. pc'[r] = "ok"
        BY <1>0, <2>6, PutSteps
      <3> QED  BY <3>1 DEF InBatch
    <2>7. ASSUME PutBeside(r)  PROVE  Holds(r)'
      <3>1. pc' = [pc EXCEPT ![r] = "putRecord"]
            /\ store' = [store EXCEPT !.data = store.data \cup {r}]
        BY <2>7, PutSteps
      <3>2. PICK c \in PutCtx : ctx' = [ctx EXCEPT ![r] = c] /\ c.read = store.md[c.key]
        BY <2>7, PutSteps
      <3>3. store.data \cup {r} \in SUBSET BatchLocs
        BY <1>0 DEF BatchLocs
      <3>4. r \in store'.data
        BY <1>0, <3>1, <3>3, BatchStoreParts
      <3>5. ctx'[r] = c /\ c.key \in AllKeys /\ pc'[r] = "putRecord"
        BY <1>0, <3>1, <3>2 DEF PutCtx
      <3>6. ASSUME c.read # None  PROVE  OwnedBy(c.key, c.read.loc)'
        <4>1. OwnedBy(c.key, c.read.loc)
          BY <3>2, <3>5, <3>6 DEF RecordsOwn
        <4> QED  BY <1>0c, <3>5, <4>1
      <3> QED  BY <3>4, <3>5, <3>6 DEF InBatch
    <2>8. ASSUME PutBesideRecord(r)  PROVE  Holds(r)'
      <3>1. pc'[r] = "deleteOverwritten" /\ ctx' = ctx /\ pc[r] = "putRecord"
        BY <1>0, <2>8, PutWrites
      <3>2. ASSUME ctx[r].read # None, NEW k, NEW l, k = ctx[r].key, l = ctx[r].read.loc
            PROVE  Unnamed(l)'
        <4>1. OwnedBy(k, l) /\ k \in AllKeys
          BY <1>0a, <2>8, <3>1, <3>2, PutWrites
        <4>2. OwnedBy(k, l)'
          BY <1>0c, <4>1
        <4>3. l # r
          BY <2>8, <4>1, PutWrites DEF OwnedBy
        <4>4. store'.md[k].loc = r
          BY <2>8, <3>2, PutWrites
        <4> QED  BY <4>2, <4>3, <4>4 DEF OwnedBy, Unnamed
      <3>3. ctx[r].read # None => Unnamed(ctx[r].read.loc)'
        BY <3>1, <3>2 DEF Unnamed, Past
      <3> QED  BY <3>1, <3>3 DEF InBatch
    <2>9. ASSUME DeleteOverwritten(r)  PROVE  Holds(r)'
      <3>1. pc'[r] = "ok"
        BY <1>0, <2>9, PutSteps
      <3> QED  BY <3>1 DEF InBatch
    <2>10. ASSUME Die(r)  PROVE  Holds(r)'
      <3>1. pc'[r] = "failed"
        BY <1>0, <2>10 DEF Die, Goto
      <3> QED  BY <3>1 DEF InBatch
    <2> HIDE DEF Holds
    <2> QED  BY <2>1, <2>2, <2>3, <2>4, <2>5, <2>6, <2>7, <2>8, <2>9, <2>10 DEF BatchStepOf
  <1>3. \A q \in Reqs : Holds(q)'
    BY <1>1, <1>2
  <1> QED  BY <1>3 DEF InHands

\* When records keep naming what they name, what is named is the same.
LEMMA SameNames ==
    ASSUME \A j \in AllKeys :
              /\ store'.md[j] # None <=> store.md[j] # None
              /\ store.md[j] # None => store'.md[j].loc = store.md[j].loc
    PROVE  Named' = Named
  <1>1. \A l : l \in Named <=> \E j \in AllKeys : store.md[j] # None /\ l = store.md[j].loc
    BY DEF Named
  <1>2. \A l : l \in Named' <=> \E j \in AllKeys : store'.md[j] # None /\ l = store'.md[j].loc
    BY DEF Named
  <1> QED  BY <1>1, <1>2

\* Of requests that wait for one another the one that runs has in hand all data
\* that no record names.
LEMMA ExactKept ==
    ASSUME KeysApart, In("batch"), scene \in Scenes, scene' = scene, BatchTypes, RecordsOwn,
           InHands, Exact, NEW r \in Reqs, BatchStepOf(r)
    PROVE  Exact'
  <1> SUFFICES ASSUME scene.sequential, ~scene.deaths
               PROVE  /\ \A p, q \in Reqs : Running(p)' /\ Running(q)' => p = q
                      /\ Quiet' => store'.data = Named'
                      /\ \A q \in Reqs :
                          /\ pc'[q] = "readAhead" => 
                              store'.data = Named' /\ ctx'[q].doomed = {} /\ ctx'[q].open = {}
                          /\ pc'[q] = "batch" =>
                              /\ store'.data = Named' \cup ctx'[q].doomed
                              /\ \A o \in ctx'[q].open :
                                    o[2] # None /\ store'.md[o[1].key] # None =>
                                        store'.md[o[1].key].loc = o[2].loc
                          /\ pc'[q] = "putRecord" =>
                              store'.data = Named' \cup {q} /\ store'.md[ctx'[q].key] = ctx'[q].read
                          /\ pc'[q] = "deleteOverwritten" =>
                              store'.data = Named' \cup
                                  (IF ctx'[q].read = None THEN {} ELSE {ctx'[q].read.loc})
    BY DEF Exact
  <1>0. /\ store \in BatchStore /\ store.data \in SUBSET BatchLocs
        /\ store.md \in [AllKeys -> BatchRecords \cup {None}]
        /\ pc \in [Reqs -> {"idle", "readAhead", "batch", "putRecord", "deleteOverwritten",
                        "ok", "failed"}] /\ DOMAIN ctx = Reqs
        /\ InBatch(r) => ctx[r] \in BatchCtx
        /\ InPut(r) => ctx[r] \in PutCtx
    BY DEF BatchTypes, BatchStore
  <1>0a. /\ \A p, q \in Reqs : Running(p) /\ Running(q) => p = q
         /\ Quiet => store.data = Named
         /\ pc[r] = "readAhead" => 
              store.data = Named /\ ctx[r].doomed = {} /\ ctx[r].open = {}
         /\ pc[r] = "batch" =>
              /\ store.data = Named \cup ctx[r].doomed
              /\ \A o \in ctx[r].open :
                    o[2] # None /\ store.md[o[1].key] # None =>
                        store.md[o[1].key].loc = o[2].loc
         /\ pc[r] = "putRecord" =>
              store.data = Named \cup {r} /\ store.md[ctx[r].key] = ctx[r].read
         /\ pc[r] = "deleteOverwritten" =>
              store.data = Named \cup (IF ctx[r].read = None THEN {} ELSE {ctx[r].read.loc})
    BY DEF Exact
  <1>0b. \A q \in Reqs \ {r} : pc'[q] = pc[q] /\ ctx'[q] = ctx[q]
    BY BatchFrame
  <1>0c. store' = store => Named' = Named
    BY SameNames
  <1>0d. store'.md = store.md => Named' = Named
    BY SameNames
  <1> DEFINE Goal ==
        /\ ~Running(r)' => store'.data = Named'
        /\ pc'[r] = "readAhead" => 
            store'.data = Named' /\ ctx'[r].doomed = {} /\ ctx'[r].open = {}
        /\ pc'[r] = "batch" =>
            /\ store'.data = Named' \cup ctx'[r].doomed
            /\ \A o \in ctx'[r].open :
                  o[2] # None /\ store'.md[o[1].key] # None =>
                      store'.md[o[1].key].loc = o[2].loc
        /\ pc'[r] = "putRecord" =>
            store'.data = Named' \cup {r} /\ store'.md[ctx'[r].key] = ctx'[r].read
        /\ pc'[r] = "deleteOverwritten" =>
            store'.data = Named' \cup
                (IF ctx'[r].read = None THEN {} ELSE {ctx'[r].read.loc})
  <1> DEFINE Alone == \A q \in Reqs \ {r} : ~Running(q)
  <1>1. ASSUME MultiObjectDelete(r)  PROVE  Goal /\ Alone
    <2>1. store' = store /\ pc[r] = "idle" /\ Quiet
      BY <1>1, BatchArrives
    <2>2. store'.data = Named'
      BY <1>0a, <1>0c, <2>1
    <2>3. CASE pc' = [pc EXCEPT ![r] = "failed"] /\ ctx' = ctx
      BY <1>0, <2>1, <2>2, <2>3 DEF Running, Quiet
    <2>4. CASE \E c \in BatchCtx :
                    /\ pc' = [pc EXCEPT ![r] = "readAhead"] /\ ctx' = [ctx EXCEPT ![r] = c]
                    /\ c.open = {} /\ c.doomed = {}
      BY <1>0, <2>1, <2>2, <2>4 DEF Running, Quiet
    <2> QED  BY <1>1, <2>3, <2>4, BatchArrives
  <1>2. ASSUME ReadAhead(r)  PROVE  Goal /\ Alone
    <2>1. pc' = [pc EXCEPT ![r] = "batch"] /\ pc[r] = "readAhead" /\ store' = store
      BY <1>2, ReadAheadStep
    <2>2. PICK c \in BatchCtx : /\ ctx' = [ctx EXCEPT ![r] = c]
                                /\ c.open = ctx[r].open /\ c.doomed = ctx[r].doomed
      BY <1>2, ReadAheadStep
    <2>3. ctx'[r].open = {} /\ ctx'[r].doomed = {} /\ pc'[r] = "batch"
      BY <1>0, <1>0a, <2>1, <2>2
    <2> QED  BY <1>0a, <1>0c, <2>1, <2>3 DEF Running
  <1>3. ASSUME NEW e \in ctx[r].todo, pc[r] = "batch", ReadEntry(r, e)  PROVE  Goal /\ Alone
    <2>1. pc' = pc /\ store' = store
      BY <1>3, ReadEntryStep
    <2>2. PICK c \in BatchCtx :
                /\ ctx' = [ctx EXCEPT ![r] = c]
                /\ c.doomed = ctx[r].doomed
                /\ \A o \in c.open :
                      \/ o \in ctx[r].open
                      \/ /\ o[1] \in BatchEntries /\ o[2] = store.md[o[1].key]
                         /\ o[2] = None => store.versioned /\ ~o[1].ver
      BY <1>3, ReadEntryStep
    <2>3. ctx'[r].open = c.open /\ ctx'[r].doomed = ctx[r].doomed
      BY <1>0, <2>2
    <2> QED  BY <1>0a, <1>0c, <1>3, <2>1, <2>2, <2>3 DEF Running
  <1>4. ASSUME NEW o \in ctx[r].open, pc[r] = "batch", DeleteEntry(r, o[1], o[2])
        PROVE  Goal /\ Alone
    <2>1. pc' = pc /\ o[1].key \in AllKeys
      BY <1>4, DeleteEntryStep
    <2>2. PICK c \in BatchCtx :
                /\ ctx' = [ctx EXCEPT ![r] = c]
                /\ c.open \subseteq ctx[r].open
                /\ \/ /\ store' = [store EXCEPT !.md[o[1].key] = None]
                      /\ store.md[o[1].key] # None /\ o[2] # None
                      /\ c.doomed = ctx[r].doomed \cup {o[2].loc}
                   \/ store' = store /\ c.doomed = ctx[r].doomed
      BY <1>4, DeleteEntryStep
    <2>3. ctx'[r].open = c.open /\ ctx'[r].doomed = c.doomed
      BY <1>0, <2>2
    <2>4. CASE /\ store' = [store EXCEPT !.md[o[1].key] = None]
               /\ store.md[o[1].key] # None /\ o[2] # None
               /\ c.doomed = ctx[r].doomed \cup {o[2].loc}
      <3>0. None \in BatchRecords \cup {None}
        OBVIOUS
      <3>1. store'.data = store.data /\
            \A j \in AllKeys : store'.md[j] = IF j = o[1].key THEN None ELSE store.md[j]
        BY <1>0, <2>1, <2>4, <3>0, BatchStoreParts
      <3>2. store.md[o[1].key].loc = o[2].loc
        BY <1>0a, <1>4, <2>4
      <3>3. Named \cup {o[2].loc} = Named' \cup {o[2].loc}
        <4>1. \A l : l \in Named <=> \E j \in AllKeys : store.md[j] # None /\ l = store.md[j].loc
          BY DEF Named
        <4>2. \A l : l \in Named' <=>
                  \E j \in AllKeys : store'.md[j] # None /\ l = store'.md[j].loc
          BY DEF Named
        <4>3. \A l \in Named : l \in Named' \/ l = o[2].loc
          BY <3>1, <3>2, <4>1, <4>2
        <4>4. \A l \in Named' : l \in Named
          BY <3>1, <4>1, <4>2
        <4> QED  BY <4>3, <4>4
      <3>4. o[2].loc \in Named
        BY <2>1, <2>4, <3>2 DEF Named
      <3>5. store'.data = Named' \cup c.doomed
        BY <1>0a, <1>4, <2>4, <3>1, <3>3, <3>4
      <3>6. \A x \in c.open : x[2] # None /\ store'.md[x[1].key] # None =>
                      store'.md[x[1].key].loc = x[2].loc
        <4>1. InBatch(r)
          BY <1>4 DEF InBatch
        <4>2. \A x \in ctx[r].open : x[1].key \in AllKeys
          BY <1>0, <4>1, BatchesInHand DEF BatchEntries
        <4> QED  BY <1>0a, <1>4, <2>2, <3>1, <4>2
      <3> QED  BY <1>0a, <1>4, <2>1, <2>3, <3>5, <3>6 DEF Running
    <2>5. CASE store' = store /\ c.doomed = ctx[r].doomed
      BY <1>0a, <1>0c, <1>4, <2>1, <2>2, <2>3, <2>5 DEF Running
    <2> QED  BY <2>2, <2>4, <2>5
  <1>5. ASSUME NEW o \in ctx[r].open, pc[r] = "batch", MarkEntry(r, o[1], o[2])
        PROVE  Goal /\ Alone
    <2>1. pc' = pc
      BY <1>5, MarkEntryStep
    <2>2. PICK c \in BatchCtx :
                /\ ctx' = [ctx EXCEPT ![r] = c]
                /\ c.open \subseteq ctx[r].open
                /\ c.doomed = ctx[r].doomed
      BY <1>5, MarkEntryStep
    <2>3. PICK k \in AllKeys, m \in BatchRecords \cup {None} :
                /\ store' = [store EXCEPT !.md[k] = m]
                /\ m # None => store.md[k] # None /\ m.loc = store.md[k].loc
                /\ store.md[k] # None => m # None
      BY <1>5, MarkEntryStep
    <2>4. ctx'[r].open = c.open /\ ctx'[r].doomed = c.doomed
      BY <1>0, <2>2
    <2>5. store'.data = store.data /\
          \A j \in AllKeys : /\ store'.md[j] # None <=> store.md[j] # None
                             /\ store.md[j] # None => store'.md[j].loc = store.md[j].loc
      BY <1>0, <2>3, BatchStoreParts
    <2>6. Named' = Named
      BY <2>5, SameNames
    <2>7. \A x \in ctx[r].open : x[1].key \in AllKeys
      <3>1. InBatch(r)
        BY <1>5 DEF InBatch
      <3> QED  BY <1>0, <3>1, BatchesInHand DEF BatchEntries
    <2> QED  BY <1>0a, <1>5, <2>1, <2>2, <2>4, <2>5, <2>6, <2>7 DEF Running
  <1>6. ASSUME DeleteBatchData(r)  PROVE  Goal /\ Alone
    <2>1. /\ store' = [store EXCEPT !.data = store.data \ ctx[r].doomed]
          /\ pc[r] = "batch" /\ pc' = [pc EXCEPT ![r] = "ok"]
      BY <1>6, PutSteps
    <2>2. store.data \ ctx[r].doomed \in SUBSET BatchLocs
      BY <1>0
    <2>3. store'.data = store.data \ ctx[r].doomed /\ store'.md = store.md
      BY <1>0, <2>1, <2>2, BatchStoreParts
    <2>4. Named \cap ctx[r].doomed = {}
      <3>1. \A l \in ctx[r].doomed : Unnamed(l)
        BY <2>1 DEF InHands, InBatch
      <3> QED  BY <3>1 DEF Named, Unnamed
    <2>5. pc'[r] = "ok"
      BY <1>0, <2>1
    <2>6. store'.data = Named'
      BY <1>0a, <1>0d, <2>1, <2>3, <2>4
    <2> QED  BY <1>0a, <2>1, <2>5, <2>6 DEF Running
  <1>7. ASSUME PutBeside(r)  PROVE  Goal /\ Alone
    <2>1. /\ pc[r] = "idle" /\ Quiet /\ pc' = [pc EXCEPT ![r] = "putRecord"]
          /\ store' = [store EXCEPT !.data = store.data \cup {r}]
      BY <1>7, PutSteps
    <2>2. PICK c \in PutCtx : ctx' = [ctx EXCEPT ![r] = c] /\ c.read = store.md[c.key]
      BY <1>7, PutSteps
    <2>3. store.data \cup {r} \in SUBSET BatchLocs
      BY <1>0 DEF BatchLocs
    <2>4. store'.data = store.data \cup {r} /\ store'.md = store.md
      BY <1>0, <2>1, <2>3, BatchStoreParts
    <2>5. ctx'[r] = c /\ pc'[r] = "putRecord"
      BY <1>0, <2>1, <2>2
    <2>6. store'.data = Named' \cup {r} /\ store'.md[ctx'[r].key] = ctx'[r].read
      BY <1>0a, <1>0d, <2>1, <2>2, <2>4, <2>5
    <2> QED  BY <2>1, <2>5, <2>6 DEF Running, Quiet
  <1>8. ASSUME PutBesideRecord(r)  PROVE  Goal /\ Alone
    <2>1. /\ pc[r] = "putRecord" /\ pc' = [pc EXCEPT ![r] = "deleteOverwritten"]
          /\ ctx' = ctx /\ ctx[r].key \in AllKeys
          /\ store'.data = store.data
          /\ store'.md[ctx[r].key] # None /\ store'.md[ctx[r].key].loc = r
          /\ \A j \in AllKeys \ {ctx[r].key} : store'.md[j] = store.md[j]
      BY <1>8, PutWrites
    <2>2. pc'[r] = "deleteOverwritten"
      BY <1>0, <2>1
    <2>3. store.data = Named \cup {r} /\ store.md[ctx[r].key] = ctx[r].read
      BY <1>0a, <2>1
    <2> DEFINE gone == IF ctx[r].read = None THEN {} ELSE {ctx[r].read.loc}
    <2>4. Named \cup {r} = Named' \cup gone
      <3>1. \A l : l \in Named <=> \E j \in AllKeys : store.md[j] # None /\ l = store.md[j].loc
        BY DEF Named
      <3>2. \A l : l \in Named' <=>
                \E j \in AllKeys : store'.md[j] # None /\ l = store'.md[j].loc
        BY DEF Named
      <3>3. \A l : l \in gone <=> store.md[ctx[r].key] # None /\ l = store.md[ctx[r].key].loc
        BY <2>3
      <3> HIDE DEF gone
      <3>4. \A l \in Named : l \in Named' \/ l \in gone
        BY <2>1, <3>1, <3>2, <3>3
      <3>5. r \in Named'
        BY <2>1, <3>2
      <3>6. \A l \in Named' : l \in Named \/ l = r
        BY <2>1, <3>1, <3>2
      <3>7. \A l \in gone : l \in Named
        BY <2>1, <3>1, <3>3
      <3> QED  BY <3>4, <3>5, <3>6, <3>7
    <2> QED  BY <1>0a, <2>1, <2>2, <2>3, <2>4 DEF Running
  <1>9. ASSUME DeleteOverwritten(r)  PROVE  Goal /\ Alone
    <2>1. PICK gone : /\ gone = IF ctx[r].read = None THEN {} ELSE {ctx[r].read.loc}
                      /\ store' = [store EXCEPT !.data = store.data \ gone]
      BY <1>9, PutSteps
    <2>2. store.data \ gone \in SUBSET BatchLocs
      BY <1>0
    <2>3. pc[r] = "deleteOverwritten" /\ pc' = [pc EXCEPT ![r] = "ok"]
      BY <1>9, PutSteps
    <2>4. store'.data = store.data \ gone /\ store'.md = store.md
      BY <1>0, <2>1, <2>2, BatchStoreParts
    <2>5. Named \cap gone = {}
      <3>1. \A l \in gone : Unnamed(l)
        BY <2>1, <2>3 DEF InHands
      <3> QED  BY <3>1 DEF Named, Unnamed
    <2>6. store.data = Named \cup gone
      BY <1>0a, <2>1, <2>3
    <2>7. store'.data = Named' /\ pc'[r] = "ok"
      BY <1>0, <1>0d, <2>3, <2>4, <2>5, <2>6
    <2> QED  BY <1>0a, <2>3, <2>7 DEF Running
  <1>10. ~Die(r)
    BY DEF Die
  <1>11. Goal /\ Alone
    <2> HIDE DEF Goal, Alone
    <2> QED  BY <1>1, <1>2, <1>3, <1>4, <1>5, <1>6, <1>7, <1>8, <1>9, <1>10 DEF BatchStepOf
  <1>12. \A q \in Reqs \ {r} : ~Running(q)'
    BY <1>0b, <1>11 DEF Running
  <1>13. Quiet' => ~Running(r)'
    BY DEF Quiet
  <1>14. \A q \in Reqs \ {r} :
            pc'[q] \notin {"readAhead", "batch", "putRecord", "deleteOverwritten"}
    BY <1>12 DEF Running
  <1> QED  BY <1>11, <1>12, <1>13, <1>14

BatchInv == BatchTypes /\ RecordsOwn /\ InHands /\ Exact

\* Every step keeps the invariant.
LEMMA BatchSteps ==
    ASSUME KeysApart, In("batch"), scene \in Scenes, BatchInv, [BatchNext]_vars
    PROVE  BatchInv'
  <1>1. CASE BatchNext
    <2>1. scene' = scene /\ \E r \in Reqs : BatchStepOf(r)
      BY <1>1, BatchStepsAre
    <2> QED  BY <2>1, BatchTypesKept, RecordsOwnKept, InHandsKept, ExactKept DEF BatchInv
  <1>2. CASE UNCHANGED vars
    <2> USE <1>2 DEF vars
    <2>1. BatchTypes'
      BY DEF BatchInv, BatchTypes, InBatch, InPut
    <2>2. RecordsOwn'
      BY DEF BatchInv, RecordsOwn, OwnedBy, Past
    <2>3. InHands'
      BY DEF BatchInv, InHands, OwnedBy, Unnamed, Past, InBatch
    <2>4. Exact'
      BY DEF BatchInv, Exact, Running, Quiet, Named
    <2> QED  BY <2>1, <2>2, <2>3, <2>4 DEF BatchInv
  <1> QED  BY <1>1, <1>2

\* The invariant contains the property.
LEMMA BatchInvEnough == BatchInv => BatchDataStands
  BY DEF BatchInv, RecordsOwn, Exact, BatchDataStands, BatchKeepsData,
         BatchLeavesNoData, Named

\* Every key holds an object, under its own name.
LEMMA BatchInitially == BatchInit => BatchInv
  <1> SUFFICES ASSUME BatchInit  PROVE  BatchInv
    OBVIOUS
  <1>1. PICK v \in BOOLEAN, locked \in SUBSET (Keys \cap {"a"}) :
           store = [versioned |-> v, data |-> Keys,
                    md |-> [k \in AllKeys |-> IF k \in Keys
                              THEN [loc |-> k, locked |-> k \in locked, marker |-> FALSE]
                              ELSE None]]
    BY DEF BatchInit
  <1>2. \A r \in Reqs : pc[r] = "idle"
    BY DEF BatchInit
  <1>3. Keys \subseteq AllKeys
    BY DEF Keys
  <1>4. \A k \in AllKeys : /\ store.md[k] \in BatchRecords \cup {None}
                           /\ store.md[k] # None <=> k \in Keys
                           /\ k \in Keys => store.md[k].loc = k
    <2>1. \A k \in AllKeys :
             [loc |-> k, locked |-> k \in locked, marker |-> FALSE] \in BatchRecords
      BY DEF BatchRecords
    <2> QED  BY <1>1, <2>1, BatchAssumption
  <1>5. BatchTypes
    <2>1. store \in BatchStore
      BY <1>1, <1>3, <1>4 DEF BatchStore, BatchLocs
    <2> QED  BY <1>2, <2>1 DEF BatchTypes, BatchInit, InBatch, InPut
  <1>6. RecordsOwn
    <2>1. \A k \in AllKeys : Past(k)
      BY BatchAssumption DEF Past
    <2> QED  BY <1>1, <1>4, <2>1 DEF RecordsOwn, OwnedBy
  <1>7. InHands
    BY <1>2 DEF InHands, InBatch
  <1>8. Named = Keys
    BY <1>3, <1>4 DEF Named
  <1>9. Exact
    BY <1>1, <1>2, <1>8 DEF Exact, Running
  <1> QED  BY <1>5, <1>6, <1>7, <1>9 DEF BatchInv

-----------------------------------------------------------------------------
(* Copies *)

CopyLocs == Reqs \cup {"xnull", "xv1", "ynull"}
MaybeCopyLocs == CopyLocs \cup {None}

CopyCtx == [src: CopyKeys, dst: CopyKeys, from: {None, "null", "v1"}, moves: BOOLEAN,
            old: MaybeCopyLocs, oldIsNull: BOOLEAN, loc: MaybeCopyLocs, doomed: MaybeCopyLocs]
SlotCtx == [key: CopyKeys, slot: Slots, loc: CopyLocs]

\* The calls before a copy writes its record, and the ones that delete a version.
Unwritten == {"idle", "readSource", "copyData", "preprocess", "putCopy"}
BeforeDoomed == {"readSource", "copyData", "preprocess"}
SlotCalls == {"deleteRecord", "deleteBlob"}

CopyTypes ==
    /\ store = [status |-> store.status, slots |-> store.slots, cur |-> store.cur,
                data |-> store.data]
    /\ store.status \in {"none", "Enabled", "Suspended"}
    /\ store.slots \in [CopyKeys -> [Slots -> MaybeCopyLocs]]
    /\ store.cur \in [CopyKeys -> Slots]
    /\ store.data \in SUBSET CopyLocs
    /\ pc \in [Reqs -> Unwritten \cup SlotCalls \cup {"deleteExisting", "ok", "failed"}]
    /\ ctx = [r \in Reqs |-> ctx[r]]

CopyCarries ==
    \A r \in Reqs :
        /\ pc[r] \in (Unwritten \ {"idle"}) \cup {"deleteExisting"} => ctx[r] \in CopyCtx
        /\ pc[r] \in SlotCalls => ctx[r] \in SlotCtx
        /\ pc[r] \in (Unwritten \ {"idle"}) \cup {"deleteExisting"}
             /\ ctx[r].src = ctx[r].dst => scene.ops \cap OnItself # {}

\* A bucket that was never versioned has null versions only.
NullOnly ==
    store.status = "none" =>
        \A k \in CopyKeys :
            /\ store.cur[k] = "null"
            /\ \A s \in Slots \ {"null"} : store.slots[k][s] = None

\* Requests that wait for one another run one at a time.
OneRuns == scene.sequential => \A q, r \in Reqs : Running(q) /\ Running(r) => q = r

InRecord(l) == \E k \in CopyKeys, s \in Slots : store.slots[k][s] = l

\* The data request r may delete later on.
MayDelete(r, l) ==
    \/ pc[r] \in BeforeDoomed /\ ctx[r].oldIsNull /\ ctx[r].old = l
    \/ pc[r] = "putCopy" /\ ctx[r].doomed = l
    \/ pc[r] = "deleteExisting" /\ ctx[r].src # ctx[r].dst /\ ctx[r].doomed = l
    \/ pc[r] \in SlotCalls /\ ctx[r].loc = l

\* And the one record that may name it still: the request replaces or removes it
\* before it deletes the data.
LeftAt(r, k, s) ==
    \/ pc[r] \in Unwritten \ {"idle"} /\ k = ctx[r].dst /\ s = "null"
    \/ pc[r] = "deleteRecord" /\ k = ctx[r].key /\ s = ctx[r].slot

HeldIsLeft ==
    \A r \in Reqs, l \in CopyLocs : MayDelete(r, l) =>
        \A k \in CopyKeys, s \in Slots : store.slots[k][s] = l => LeftAt(r, k, s)

\* A copy's own data is not named before the copy writes, and nobody holds it;
\* its version is free.
FreshUntilWritten ==
    \A r \in Reqs : pc[r] \in Unwritten =>
        /\ ~InRecord(r)
        /\ \A q \in Reqs : ~MayDelete(q, r)
        /\ \A k \in CopyKeys : store.slots[k][r] = None

\* A copy takes over a location only of the record that it will replace.
TookOver(c) ==
    /\ scene.sequential /\ c.src = c.dst /\ store.status = "none"
    /\ c.loc = store.slots[c.dst]["null"]

HoldsItsOwn(r) ==
    /\ pc[r] \in {"preprocess", "putCopy"} =>
         /\ ctx[r].loc \in store.data
         /\ ctx[r].loc = r \/ TookOver(ctx[r])
    /\ pc[r] \in BeforeDoomed => (store.status = "none" => ctx[r].oldIsNull)
    /\ pc[r] = "putCopy" /\ store.status = "Enabled" => ctx[r].doomed = None

CopyInHand == \A r \in Reqs : HoldsItsOwn(r)

\* Every record has its data, and no two share it.
CopiesOwn ==
    \A k \in CopyKeys, s \in Slots : store.slots[k][s] # None =>
        /\ store.slots[k][s] \in store.data
        /\ \A k2 \in CopyKeys, s2 \in Slots :
             store.slots[k2][s2] = store.slots[k][s] => k2 = k /\ s2 = s

\* What a lone copy between keys read is what it replaces, a lone deletion
\* removes what it read.
LoneCopies == scene.sequential /\ ~scene.deaths /\ scene.ops \cap OnItself = {}

ReadIsCurrent ==
    LoneCopies => \A r \in Reqs :
        /\ pc[r] \in BeforeDoomed /\ ctx[r].oldIsNull =>
             ctx[r].old = store.slots[ctx[r].dst]["null"]
        /\ pc[r] = "putCopy" /\ store.status # "Enabled" =>
             store.slots[ctx[r].dst]["null"] \in {None, ctx[r].doomed}
        /\ pc[r] = "deleteRecord" => store.slots[ctx[r].key][ctx[r].slot] = ctx[r].loc

\* Data without a record is on its way to one, or away.
OnItsWay(r, l) ==
    \/ pc[r] \in {"preprocess", "putCopy"} /\ l = r
    \/ pc[r] \in {"putCopy", "deleteExisting"} /\ l = ctx[r].doomed
    \/ pc[r] = "deleteBlob" /\ l = ctx[r].loc

NoCopyLost ==
    LoneCopies => \A l \in CopyLocs :
        l \in store.data <=> InRecord(l) \/ \E r \in Reqs : OnItsWay(r, l)

CopyInv ==
    /\ CopyTypes /\ CopyCarries /\ NullOnly /\ OneRuns
    /\ Owning => /\ HeldIsLeft /\ FreshUntilWritten /\ CopyInHand /\ CopiesOwn
                 /\ ReadIsCurrent /\ NoCopyLost

-----------------------------------------------------------------------------
(* What each call does *)

\* Request r goes to call l; the others are where they were.
CopyFrame(r, l) ==
    /\ CopyTypes'
    /\ pc' = [pc EXCEPT ![r] = l]
    /\ store'.status = store.status
    /\ UNCHANGED scene
    /\ \A q \in Reqs \ {r} : ctx'[q] = ctx[q]

\* The slots with one of them written.
LEMMA SlotWritten ==
    ASSUME CopyTypes, NEW k \in CopyKeys, NEW s \in Slots, NEW v \in MaybeCopyLocs
    PROVE  /\ [store EXCEPT !.slots[k][s] = v] =
                [status |-> store.status, slots |-> [store.slots EXCEPT ![k][s] = v],
                 cur |-> store.cur, data |-> store.data]
           /\ [store.slots EXCEPT ![k][s] = v] \in [CopyKeys -> [Slots -> MaybeCopyLocs]]
           /\ \A k2 \in CopyKeys, s2 \in Slots :
                [store.slots EXCEPT ![k][s] = v][k2][s2] =
                    IF k2 = k /\ s2 = s THEN v ELSE store.slots[k2][s2]
  <1> PICK st, sl, cu, da : store = [status |-> st, slots |-> sl, cur |-> cu, data |-> da]
    BY DEF CopyTypes
  <1>1. sl \in [CopyKeys -> [Slots -> MaybeCopyLocs]]
    BY DEF CopyTypes
  <1>2. [sl EXCEPT ![k][s] = v] \in [CopyKeys -> [Slots -> MaybeCopyLocs]]
    BY <1>1
  <1>3. \A k2 \in CopyKeys, s2 \in Slots :
            [sl EXCEPT ![k][s] = v][k2][s2] = IF k2 = k /\ s2 = s THEN v ELSE sl[k2][s2]
    BY <1>1
  <1>4. store.status = st /\ store.slots = sl /\ store.cur = cu /\ store.data = da
    OBVIOUS
  <1>5. [store EXCEPT !.slots[k][s] = v] =
          [status |-> st, slots |-> [sl EXCEPT ![k][s] = v], cur |-> cu, data |-> da]
    OBVIOUS
  <1> QED  BY <1>2, <1>3, <1>4, <1>5

\* And the version that is current.
LEMMA CurrentWritten ==
    ASSUME CopyTypes, NEW k \in CopyKeys, NEW s \in Slots, NEW v \in MaybeCopyLocs,
           NEW m \in Slots
    PROVE  /\ [store EXCEPT !.slots[k][s] = v, !.cur[k] = m] =
                [status |-> store.status, slots |-> [store.slots EXCEPT ![k][s] = v],
                 cur |-> [store.cur EXCEPT ![k] = m], data |-> store.data]
           /\ [store.cur EXCEPT ![k] = m] \in [CopyKeys -> Slots]
  <1> PICK st, cu, da : store = [status |-> st, slots |-> store.slots, cur |-> cu, data |-> da]
    BY DEF CopyTypes
  <1> DEFINE sl == [store.slots EXCEPT ![k][s] = v]
             half == [status |-> st, slots |-> sl, cur |-> cu, data |-> da]
  <1>1. store.status = st /\ store.cur = cu /\ store.data = da
    OBVIOUS
  <1>2. [store EXCEPT !.slots[k][s] = v] = half
    BY <1>1, SlotWritten
  <1> HIDE DEF sl
  <1>3. [half EXCEPT !.cur[k] = m] =
            [status |-> st, slots |-> sl, cur |-> [cu EXCEPT ![k] = m], data |-> da]
    OBVIOUS
  <1>4. [store EXCEPT !.slots[k][s] = v, !.cur[k] = m] = [half EXCEPT !.cur[k] = m]
    <2> HIDE DEF half
    <2> QED  BY <1>2
  <1>5. [store.cur EXCEPT ![k] = m] \in [CopyKeys -> Slots]
    BY DEF CopyTypes
  <1> QED  BY <1>1, <1>3, <1>4, <1>5 DEF sl

\* The store with one slot written, and the version that is current.
WithSlot(k, s, v, m) == [store EXCEPT !.slots[k][s] = v, !.cur[k] = m]

IsWithSlot(w, k, s, v, m) ==
    /\ w = [status |-> w.status, slots |-> w.slots, cur |-> w.cur, data |-> w.data]
    /\ w.status = store.status /\ w.data = store.data
    /\ w.slots \in [CopyKeys -> [Slots -> MaybeCopyLocs]]
    /\ w.cur = [store.cur EXCEPT ![k] = m] /\ w.cur \in [CopyKeys -> Slots]
    /\ \A k2 \in CopyKeys, s2 \in Slots :
         w.slots[k2][s2] = IF k2 = k /\ s2 = s THEN v ELSE store.slots[k2][s2]

\* Such a store is what its operator says, a field at a time.
LEMMA WithSlotStore ==
    ASSUME CopyTypes, NEW k \in CopyKeys, NEW s \in Slots, NEW v \in MaybeCopyLocs,
           NEW m \in Slots
    PROVE  IsWithSlot(WithSlot(k, s, v, m), k, s, v, m)
  <1> DEFINE sl == [store.slots EXCEPT ![k][s] = v]
             cu == [store.cur EXCEPT ![k] = m]
  <1>1. /\ sl \in [CopyKeys -> [Slots -> MaybeCopyLocs]]
        /\ \A k2 \in CopyKeys, s2 \in Slots :
                sl[k2][s2] = IF k2 = k /\ s2 = s THEN v ELSE store.slots[k2][s2]
    BY DEF CopyTypes
  <1>2. /\ WithSlot(k, s, v, m) = [status |-> store.status, slots |-> sl, cur |-> cu,
                                  data |-> store.data]
        /\ cu \in [CopyKeys -> Slots]
    BY CurrentWritten DEF WithSlot
  <1>3. cu = [store.cur EXCEPT ![k] = m]
    OBVIOUS
  <1> PICK w : w = WithSlot(k, s, v, m)
    OBVIOUS
  <1> HIDE DEF sl, cu
  <1> QED  BY <1>1, <1>2, <1>3 DEF IsWithSlot

\* The data with some of it added or removed.
LEMMA DataWritten ==
    ASSUME CopyTypes, NEW D \in SUBSET CopyLocs
    PROVE  [store EXCEPT !.data = D] =
                [status |-> store.status, slots |-> store.slots, cur |-> store.cur, data |-> D]
  BY DEF CopyTypes

\* A context with one of its fields written.
LEMMA CopyCtxWritten ==
    ASSUME NEW c \in CopyCtx, NEW v \in MaybeCopyLocs
    PROVE  /\ [c EXCEPT !.loc = v] \in CopyCtx /\ [c EXCEPT !.loc = v].loc = v
           /\ [c EXCEPT !.loc = v].src = c.src /\ [c EXCEPT !.loc = v].dst = c.dst
           /\ [c EXCEPT !.loc = v].old = c.old
           /\ [c EXCEPT !.loc = v].oldIsNull = c.oldIsNull
           /\ [c EXCEPT !.doomed = v] \in CopyCtx /\ [c EXCEPT !.doomed = v].doomed = v
           /\ [c EXCEPT !.doomed = v].src = c.src /\ [c EXCEPT !.doomed = v].dst = c.dst
           /\ [c EXCEPT !.doomed = v].loc = c.loc
  BY DEF CopyCtx

\* checkDestAuth remembers the destination's current version.
LEMMA CheckDestAuthDoes ==
    ASSUME CopyTypes, NEW r \in Reqs, CheckDestAuth(r), UNCHANGED scene
    PROVE  /\ CopyFrame(r, "readSource") /\ pc[r] = "idle" /\ store' = store
           /\ scene.sequential => Quiet
           /\ ctx'[r] \in CopyCtx
           /\ ctx'[r].src = ctx'[r].dst => scene.ops \cap OnItself # {}
           /\ ctx'[r].old = store.slots[ctx'[r].dst][store.cur[ctx'[r].dst]]
           /\ ctx'[r].oldIsNull = (store.cur[ctx'[r].dst] = "null")
  <1> PICK op \in {"copyAcross", "copyOnItself", "restoreVersion"},
           src \in CopyKeys, dst \in CopyKeys, from \in {None, "null", "v1"}, moves \in BOOLEAN :
        /\ Sent(r, op)
        /\ (op = "copyAcross") = (src # dst)
        /\ Carry(r, [src |-> src, dst |-> dst, from |-> from, moves |-> moves,
                     old |-> store.slots[dst][store.cur[dst]],
                     oldIsNull |-> store.cur[dst] = "null",
                     loc |-> None, doomed |-> None])
    BY DEF CheckDestAuth
  <1>1. store' = store /\ pc' = [pc EXCEPT ![r] = "readSource"]
    BY DEF CheckDestAuth, Goto
  <1>2. store.slots[dst][store.cur[dst]] \in MaybeCopyLocs
    BY DEF CopyTypes
  <1>3. PICK old \in MaybeCopyLocs, isNull \in BOOLEAN :
          /\ old = store.slots[dst][store.cur[dst]] /\ isNull = (store.cur[dst] = "null")
          /\ ctx' = [ctx EXCEPT ![r] =
                [src |-> src, dst |-> dst, from |-> from, moves |-> moves, old |-> old,
                 oldIsNull |-> isNull, loc |-> None, doomed |-> None]]
    BY <1>2 DEF Carry
  <1>4. /\ ctx'[r] = [src |-> src, dst |-> dst, from |-> from, moves |-> moves, old |-> old,
                      oldIsNull |-> isNull, loc |-> None, doomed |-> None]
        /\ \A q \in Reqs \ {r} : ctx'[q] = ctx[q]
        /\ ctx' = [q \in Reqs |-> ctx'[q]]
    BY <1>3 DEF CopyTypes
  <1>5. ctx'[r] \in CopyCtx
    BY <1>4 DEF CopyCtx, MaybeCopyLocs
  <1>6. CopyTypes'
    BY <1>1, <1>4 DEF CopyTypes, Unwritten
  <1>7. src = dst => op \in scene.ops \cap OnItself
    BY DEF Sent, OnItself
  <1> QED  BY <1>1, <1>3, <1>4, <1>5, <1>6, <1>7 DEF CopyFrame, Sent

\* The source's location is taken over only by a copy on itself.
LEMMA CheckSourceDoes ==
    ASSUME CopyTypes, CopyCarries, NEW r \in Reqs, CheckSourceAuthorization(r),
           UNCHANGED scene
    PROVE  \/ /\ CopyFrame(r, "failed") /\ Running(r) /\ UNCHANGED <<store, ctx>>
           \/ \E l \in {"preprocess", "copyData"} :
                /\ CopyFrame(r, l) /\ pc[r] = "readSource" /\ store' = store
                /\ ctx'[r] \in CopyCtx
                /\ ctx'[r].src = ctx[r].src /\ ctx'[r].dst = ctx[r].dst
                /\ ctx'[r].old = ctx[r].old /\ ctx'[r].oldIsNull = ctx[r].oldIsNull
                /\ l = "preprocess" =>
                     /\ ctx[r].src = ctx[r].dst /\ store.status # "Enabled"
                     /\ ctx'[r].loc = SourceOf(ctx[r]) /\ ctx'[r].loc # None
  <1>0. pc[r] = "readSource" /\ ctx[r] \in CopyCtx /\ Running(r)
    BY DEF CheckSourceAuthorization, CopyCarries, Unwritten, Running
  <1>1. CASE Refuse(r)
    <2>1. pc' = [pc EXCEPT ![r] = "failed"] /\ UNCHANGED <<store, ctx>>
      BY <1>1 DEF Refuse, Goto
    <2>2. CopyTypes'
      BY <2>1 DEF CopyTypes
    <2> QED  BY <1>0, <2>1, <2>2 DEF CopyFrame
  <1>2. CASE ~Refuse(r)
    <2> PICK c \in CopyCtx : c = ctx[r]
      BY <1>0
    <2> DEFINE l == IF TakesOver(c) THEN "preprocess" ELSE "copyData"
    <2>1. /\ SourceOf(c) # None /\ store' = store /\ pc' = [pc EXCEPT ![r] = l]
          /\ ctx' = [ctx EXCEPT ![r] = [c EXCEPT !.loc = SourceOf(c)]]
      BY <1>2 DEF CheckSourceAuthorization, Carry, Goto
    <2>2. PICK v \in MaybeCopyLocs : v = SourceOf(c)
      BY CopyAssumption DEF SourceOf, CopyTypes, CopyCtx, Slots
    <2>3. /\ ctx'[r] = [c EXCEPT !.loc = v]
          /\ \A q \in Reqs \ {r} : ctx'[q] = ctx[q]
          /\ ctx' = [q \in Reqs |-> ctx'[q]]
      BY <2>1, <2>2 DEF CopyTypes
    <2>4. CopyTypes'
      BY <2>1, <2>3 DEF CopyTypes, Unwritten
    <2>5. l = "preprocess" => c.src = c.dst /\ store.status # "Enabled"
      BY DEF TakesOver
    <2>6. l \in {"preprocess", "copyData"} /\ CopyFrame(r, l)
      BY <2>1, <2>3, <2>4 DEF CopyFrame
    <2> HIDE DEF l
    <2>7. /\ ctx'[r] \in CopyCtx /\ ctx'[r].loc = SourceOf(c)
          /\ ctx'[r].src = c.src /\ ctx'[r].dst = c.dst
          /\ ctx'[r].old = c.old /\ ctx'[r].oldIsNull = c.oldIsNull
      <3>1. /\ [c EXCEPT !.loc = v] \in CopyCtx /\ [c EXCEPT !.loc = v].loc = v
            /\ [c EXCEPT !.loc = v].src = c.src /\ [c EXCEPT !.loc = v].dst = c.dst
            /\ [c EXCEPT !.loc = v].old = c.old
            /\ [c EXCEPT !.loc = v].oldIsNull = c.oldIsNull
        BY CopyCtxWritten
      <3> QED  BY <2>2, <2>3, <3>1
    <2> QED  BY <1>0, <2>1, <2>5, <2>6, <2>7
  <1> QED  BY <1>1, <1>2

\* Data that is copied is stored under the request's own name.
LEMMA GoGetDataDoes ==
    ASSUME CopyTypes, CopyCarries, NEW r \in Reqs, GoGetData(r), UNCHANGED scene
    PROVE  \/ /\ CopyFrame(r, "failed") /\ Running(r) /\ UNCHANGED <<store, ctx>>
           \/ /\ CopyFrame(r, "preprocess") /\ pc[r] = "copyData"
              /\ store'.slots = store.slots /\ store'.cur = store.cur
              /\ store'.data = store.data \cup {r}
              /\ ctx'[r] \in CopyCtx /\ ctx'[r].loc = r
              /\ ctx'[r].src = ctx[r].src /\ ctx'[r].dst = ctx[r].dst
              /\ ctx'[r].old = ctx[r].old /\ ctx'[r].oldIsNull = ctx[r].oldIsNull
  <1>0. pc[r] = "copyData" /\ ctx[r] \in CopyCtx /\ Running(r)
    BY DEF GoGetData, CopyCarries, Unwritten, Running
  <1>1. CASE Refuse(r)
    <2>1. pc' = [pc EXCEPT ![r] = "failed"] /\ UNCHANGED <<store, ctx>>
      BY <1>1 DEF Refuse, Goto
    <2>2. CopyTypes'
      BY <2>1 DEF CopyTypes
    <2> QED  BY <1>0, <2>1, <2>2 DEF CopyFrame
  <1>2. CASE ~Refuse(r)
    <2> PICK c \in CopyCtx : c = ctx[r]
      BY <1>0
    <2>0. \A v \in MaybeCopyLocs :
            /\ [c EXCEPT !.loc = v] \in CopyCtx /\ [c EXCEPT !.loc = v].loc = v
            /\ [c EXCEPT !.loc = v].src = c.src /\ [c EXCEPT !.loc = v].dst = c.dst
            /\ [c EXCEPT !.loc = v].old = c.old
            /\ [c EXCEPT !.loc = v].oldIsNull = c.oldIsNull
      BY CopyCtxWritten
    <2> PICK D \in SUBSET CopyLocs : D = store.data \cup {r}
      BY DEF CopyTypes, CopyLocs
    <2> PICK v \in MaybeCopyLocs : v = r
      BY DEF MaybeCopyLocs, CopyLocs
    <2>1. /\ store' = [store EXCEPT !.data = D] /\ pc' = [pc EXCEPT ![r] = "preprocess"]
          /\ ctx' = [ctx EXCEPT ![r] = [c EXCEPT !.loc = v]]
      BY <1>2 DEF GoGetData, Carry, Goto
    <2>2. store' = [status |-> store.status, slots |-> store.slots, cur |-> store.cur,
                    data |-> D]
      BY <2>1, DataWritten
    <2>3. /\ ctx'[r] = [c EXCEPT !.loc = v]
          /\ \A q \in Reqs \ {r} : ctx'[q] = ctx[q]
          /\ ctx' = [q \in Reqs |-> ctx'[q]]
      BY <2>1 DEF CopyTypes
    <2>4. CopyTypes'
      BY <2>1, <2>2, <2>3 DEF CopyTypes, Unwritten
    <2>5. CopyFrame(r, "preprocess")
      BY <2>1, <2>2, <2>3, <2>4 DEF CopyFrame
    <2>6. /\ [c EXCEPT !.loc = v] \in CopyCtx /\ [c EXCEPT !.loc = v].loc = v
          /\ [c EXCEPT !.loc = v].src = c.src /\ [c EXCEPT !.loc = v].dst = c.dst
          /\ [c EXCEPT !.loc = v].old = c.old
          /\ [c EXCEPT !.loc = v].oldIsNull = c.oldIsNull
      BY <2>0
    <2> QED  BY <1>0, <2>2, <2>3, <2>5, <2>6
  <1> QED  BY <1>1, <1>2

\* What versioning makes of the copy: the data it will replace, and a null
\* version that moves aside.
LEMMA PreprocessDoes ==
    ASSUME CopyTypes, CopyCarries, NEW r \in Reqs, GetVersioningInfo(r), UNCHANGED scene
    PROVE  /\ CopyFrame(r, "putCopy") /\ pc[r] = "preprocess"
           /\ store'.cur = store.cur /\ store'.data = store.data
           /\ ctx'[r] \in CopyCtx /\ ctx'[r].loc = ctx[r].loc
           /\ ctx'[r].src = ctx[r].src /\ ctx'[r].dst = ctx[r].dst
           /\ ctx[r] \in CopyCtx
           /\ \/ /\ store'.slots = store.slots
                 /\ CASE store.status = "Enabled" -> ctx'[r].doomed = None
                      [] store.status = "none"    -> ctx'[r].doomed = ctx[r].old
                      [] OTHER -> IF ctx[r].oldIsNull THEN ctx'[r].doomed = ctx[r].old
                                  ELSE /\ store.slots[ctx[r].dst]["null"] = None
                                       /\ ctx'[r].doomed = None
              \/ /\ ctx'[r].doomed = store.slots[ctx[r].dst]["null"]
                 /\ store.status = "Suspended"
                 /\ \A k \in CopyKeys, s \in Slots :
                      store'.slots[k][s] = IF k = ctx[r].dst /\ s = "null" THEN None
                                           ELSE store.slots[k][s]
  <1>0. pc[r] = "preprocess" /\ ctx[r] \in CopyCtx
    BY DEF GetVersioningInfo, CopyCarries, Unwritten
  <1> PICK c \in CopyCtx : c = ctx[r]
    BY <1>0
  <1> DEFINE hid == IF store.status = "Suspended" /\ ~c.oldIsNull
                    THEN store.slots[c.dst]["null"] ELSE None
             gone == CASE store.status = "Enabled" -> None
                       [] store.status = "none"    -> c.old
                       [] OTHER -> IF c.oldIsNull THEN c.old ELSE hid
  <1>d. c.dst \in CopyKeys /\ c.old \in MaybeCopyLocs /\ "null" \in Slots
    BY DEF CopyCtx, Slots
  <1>1. PICK h \in MaybeCopyLocs : h = hid
    BY <1>d DEF CopyTypes, MaybeCopyLocs
  <1>2. PICK g \in MaybeCopyLocs : g = gone
    BY <1>1, <1>d DEF MaybeCopyLocs, CopyTypes
  <1>3. /\ store' = IF h # None THEN [store EXCEPT !.slots[c.dst]["null"] = None] ELSE store
        /\ pc' = [pc EXCEPT ![r] = "putCopy"]
        /\ ctx' = [ctx EXCEPT ![r] = [c EXCEPT !.doomed = g]]
    BY <1>1, <1>2 DEF GetVersioningInfo, Carry, Goto
  <1>4. /\ ctx'[r] = [c EXCEPT !.doomed = g]
        /\ \A q \in Reqs \ {r} : ctx'[q] = ctx[q]
        /\ ctx' = [q \in Reqs |-> ctx'[q]]
    BY <1>3 DEF CopyTypes
  <1>5. /\ [c EXCEPT !.doomed = g] \in CopyCtx /\ [c EXCEPT !.doomed = g].doomed = g
        /\ [c EXCEPT !.doomed = g].src = c.src /\ [c EXCEPT !.doomed = g].dst = c.dst
        /\ [c EXCEPT !.doomed = g].loc = c.loc
    BY CopyCtxWritten
  <1>6. \/ h = None /\ store' = store
        \/ /\ h # None
           /\ store' = [status |-> store.status,
                        slots |-> [store.slots EXCEPT ![c.dst]["null"] = None],
                        cur |-> store.cur, data |-> store.data]
           /\ [store.slots EXCEPT ![c.dst]["null"] = None]
                \in [CopyKeys -> [Slots -> MaybeCopyLocs]]
           /\ \A k \in CopyKeys, s \in Slots :
                 [store.slots EXCEPT ![c.dst]["null"] = None][k][s] =
                     IF k = c.dst /\ s = "null" THEN None ELSE store.slots[k][s]
    <2>1. CASE h = None
      BY <2>1, <1>3
    <2>2. CASE h # None
      <3> PICK k \in CopyKeys, s \in Slots, v \in MaybeCopyLocs :
               k = c.dst /\ s = "null" /\ v = None
        BY <1>d DEF MaybeCopyLocs
      <3>1. /\ [store EXCEPT !.slots[k][s] = v] =
                [status |-> store.status, slots |-> [store.slots EXCEPT ![k][s] = v],
                 cur |-> store.cur, data |-> store.data]
            /\ [store.slots EXCEPT ![k][s] = v] \in [CopyKeys -> [Slots -> MaybeCopyLocs]]
            /\ \A k2 \in CopyKeys, s2 \in Slots :
                [store.slots EXCEPT ![k][s] = v][k2][s2] =
                    IF k2 = k /\ s2 = s THEN v ELSE store.slots[k2][s2]
        BY SlotWritten
      <3> QED  BY <2>2, <1>3, <3>1
    <2> QED  BY <2>1, <2>2
  <1>7. CopyTypes' /\ store'.cur = store.cur /\ store'.data = store.data
        /\ store'.status = store.status
    <2>1. CASE store' = store
      BY <2>1, <1>3, <1>4 DEF CopyTypes, Unwritten
    <2>2. CASE store' # store
      BY <2>2, <1>6, <1>3, <1>4 DEF CopyTypes, Unwritten
    <2> QED  BY <2>1, <2>2
  <1>8. CopyFrame(r, "putCopy")
    BY <1>3, <1>4, <1>7 DEF CopyFrame
  <1>9. \/ /\ store'.slots = store.slots
           /\ CASE store.status = "Enabled" -> g = None
                [] store.status = "none"    -> g = c.old
                [] OTHER -> IF c.oldIsNull THEN g = c.old
                            ELSE store.slots[c.dst]["null"] = None /\ g = None
        \/ /\ g = store.slots[c.dst]["null"] /\ store.status = "Suspended"
           /\ \A k \in CopyKeys, s \in Slots :
                store'.slots[k][s] = IF k = c.dst /\ s = "null" THEN None
                                     ELSE store.slots[k][s]
    <2>1. CASE h = None
      <3>1. store'.slots = store.slots
        BY <2>1, <1>6
      <3> QED  BY <2>1, <3>1, <1>1, <1>2 DEF CopyTypes
    <2>2. CASE h # None
      <3>1. store.status = "Suspended" /\ ~c.oldIsNull /\ g = store.slots[c.dst]["null"]
        BY <2>2, <1>1, <1>2
      <3>2. store'.slots = [store.slots EXCEPT ![c.dst]["null"] = None]
        BY <2>2, <1>6
      <3> QED  BY <2>2, <3>1, <3>2, <1>6
    <2> QED  BY <2>1, <2>2
  <1> HIDE DEF hid, gone
  <1> QED  BY <1>0, <1>4, <1>5, <1>7, <1>8, <1>9

\* One slot is written, and becomes the current version.
LEMMA PutCopyDoes ==
    ASSUME CopyTypes, CopyCarries, NEW r \in Reqs, StoreNewMetadata(r), UNCHANGED scene
    PROVE  LET slot == IF store.status = "Enabled" THEN r ELSE "null" IN
           /\ CopyFrame(r, "deleteExisting") /\ pc[r] = "putCopy" /\ ctx' = ctx
           /\ store'.data = store.data /\ ctx[r] \in CopyCtx
           /\ store'.cur = [store.cur EXCEPT ![ctx[r].dst] = slot]
           /\ \A k \in CopyKeys, s \in Slots :
                store'.slots[k][s] = IF k = ctx[r].dst /\ s = slot THEN ctx[r].loc
                                     ELSE store.slots[k][s]
  <1>0. pc[r] = "putCopy" /\ ctx[r] \in CopyCtx
    BY DEF StoreNewMetadata, CopyCarries, Unwritten
  <1>a. PICK k \in CopyKeys, v \in MaybeCopyLocs : k = ctx[r].dst /\ v = ctx[r].loc
    BY <1>0 DEF CopyCtx
  <1>b. PICK s \in Slots : s = IF store.status = "Enabled" THEN r ELSE "null"
    BY DEF Slots
  <1>1. /\ store' = WithSlot(k, s, v, s)
        /\ pc' = [pc EXCEPT ![r] = "deleteExisting"] /\ ctx' = ctx
    BY <1>a, <1>b DEF StoreNewMetadata, Goto, WithSlot
  <1>2. /\ store' = [status |-> store'.status, slots |-> store'.slots, cur |-> store'.cur,
                     data |-> store'.data]
        /\ store'.status = store.status /\ store'.data = store.data
        /\ store'.slots \in [CopyKeys -> [Slots -> MaybeCopyLocs]]
        /\ store'.cur = [store.cur EXCEPT ![k] = s] /\ store'.cur \in [CopyKeys -> Slots]
        /\ \A k2 \in CopyKeys, s2 \in Slots :
             store'.slots[k2][s2] = IF k2 = k /\ s2 = s THEN v ELSE store.slots[k2][s2]
    <2>1. IsWithSlot(WithSlot(k, s, v, s), k, s, v, s)
      BY WithSlotStore
    <2> QED  BY <2>1, <1>1 DEF IsWithSlot
  <1>3. CopyTypes'
    BY <1>1, <1>2 DEF CopyTypes
  <1>4. CopyFrame(r, "deleteExisting")
    BY <1>1, <1>2, <1>3 DEF CopyFrame
  <1> QED  BY <1>a, <1>b, <1>0, <1>1, <1>2, <1>4

\* A copy between keys deletes the data it replaced.
LEMMA DeleteExistingDoes ==
    ASSUME CopyTypes, CopyCarries, NEW r \in Reqs, DeleteExistingData(r), UNCHANGED scene
    PROVE  /\ CopyFrame(r, "ok") /\ pc[r] = "deleteExisting" /\ ctx' = ctx
           /\ store'.slots = store.slots /\ store'.cur = store.cur
           /\ store'.data = IF ctx[r].src # ctx[r].dst
                            THEN store.data \ {ctx[r].doomed} ELSE store.data
  <1> PICK D \in SUBSET CopyLocs :
            D = IF ctx[r].src # ctx[r].dst THEN store.data \ {ctx[r].doomed} ELSE store.data
    BY DEF CopyTypes
  <1>1. /\ store' = [store EXCEPT !.data = D] /\ pc[r] = "deleteExisting"
        /\ pc' = [pc EXCEPT ![r] = "ok"] /\ ctx' = ctx
    <2>1. store = [store EXCEPT !.data = store.data]
      BY DEF CopyTypes
    <2> QED  BY <2>1 DEF DeleteExistingData, Goto
  <1>2. store' = [status |-> store.status, slots |-> store.slots, cur |-> store.cur, data |-> D]
    BY <1>1, DataWritten
  <1>3. CopyTypes'
    BY <1>1, <1>2 DEF CopyTypes
  <1> QED  BY <1>1, <1>2, <1>3 DEF CopyFrame

\* A deletion remembers the location that its version names.
LEMMA DeleteSlotDoes ==
    ASSUME CopyTypes, NEW r \in Reqs, DeleteSlot(r), UNCHANGED scene
    PROVE  /\ CopyFrame(r, "deleteRecord") /\ pc[r] = "idle" /\ store' = store
           /\ scene.sequential => Quiet
           /\ ctx'[r] \in SlotCtx
           /\ ctx'[r].loc = store.slots[ctx'[r].key][ctx'[r].slot]
  <1> PICK k \in CopyKeys, s \in Slots :
        store.slots[k][s] # None /\ Carry(r, [key |-> k, slot |-> s, loc |-> store.slots[k][s]])
    BY DEF DeleteSlot
  <1>1. store' = store /\ pc' = [pc EXCEPT ![r] = "deleteRecord"] /\ Sent(r, "objectDelete")
    BY DEF DeleteSlot, Goto
  <1>2. store.slots[k][s] \in CopyLocs
    BY DEF CopyTypes, MaybeCopyLocs
  <1>3. /\ ctx'[r] = [key |-> k, slot |-> s, loc |-> store.slots[k][s]]
        /\ \A q \in Reqs \ {r} : ctx'[q] = ctx[q]
        /\ ctx' = [q \in Reqs |-> ctx'[q]]
    BY DEF CopyTypes, Carry
  <1>4. CopyTypes'
    BY <1>1, <1>3 DEF CopyTypes, SlotCalls
  <1>5. ctx'[r] \in SlotCtx
    BY <1>2, <1>3 DEF SlotCtx
  <1> QED  BY <1>1, <1>3, <1>4, <1>5 DEF CopyFrame, Sent

\* One slot is emptied; what it named is untouched.
LEMMA DeleteSlotRecordDoes ==
    ASSUME CopyTypes, CopyCarries, NEW r \in Reqs, DeleteSlotRecord(r), UNCHANGED scene
    PROVE  /\ CopyFrame(r, "deleteBlob") /\ pc[r] = "deleteRecord" /\ ctx' = ctx
           /\ store'.data = store.data /\ ctx[r] \in SlotCtx
           /\ \A k \in CopyKeys, s \in Slots :
                store'.slots[k][s] = IF k = ctx[r].key /\ s = ctx[r].slot THEN None
                                     ELSE store.slots[k][s]
           /\ \E next \in Slots :
                /\ store'.cur = [store.cur EXCEPT ![ctx[r].key] = next]
                /\ \/ next \in {store.cur[ctx[r].key], "null"}
                   \/ next # ctx[r].slot /\ store.slots[ctx[r].key][next] # None
  <1>0. pc[r] = "deleteRecord" /\ ctx[r] \in SlotCtx
    BY DEF DeleteSlotRecord, CopyCarries, SlotCalls
  <1>c. PICK c \in SlotCtx : c = ctx[r]
    BY <1>0
  <1>k. PICK k \in CopyKeys, s \in Slots, v \in MaybeCopyLocs :
           k = c.key /\ s = c.slot /\ v = None
    BY DEF SlotCtx, MaybeCopyLocs
  <1> DEFINE left == {m \in Slots \ {c.slot} : store.slots[c.key][m] # None}
  <1>1. PICK next : /\ next \in IF store.cur[c.key] # c.slot THEN {store.cur[c.key]}
                                ELSE IF left = {} THEN {"null"} ELSE left
                    /\ store' = WithSlot(c.key, c.slot, None, next)
    <2>1. \E next \in IF store.cur[ctx[r].key] # ctx[r].slot THEN {store.cur[ctx[r].key]}
                      ELSE IF {m \in Slots \ {ctx[r].slot} : store.slots[ctx[r].key][m] # None} = {}
                           THEN {"null"}
                           ELSE {m \in Slots \ {ctx[r].slot} : store.slots[ctx[r].key][m] # None} :
               store' = WithSlot(ctx[r].key, ctx[r].slot, None, next)
      BY DEF DeleteSlotRecord, WithSlot
    <2> QED  BY <1>c, <2>1
  <1>2. pc' = [pc EXCEPT ![r] = "deleteBlob"] /\ ctx' = ctx
    BY DEF DeleteSlotRecord, Goto
  <1>3. /\ next \in Slots
        /\ \/ next \in {store.cur[c.key], "null"}
           \/ next # c.slot /\ store.slots[c.key][next] # None
    BY <1>1 DEF CopyTypes, Slots, SlotCtx
  <1> HIDE DEF left
  <1>4. /\ store' = [status |-> store'.status, slots |-> store'.slots, cur |-> store'.cur,
                     data |-> store'.data]
        /\ store'.status = store.status /\ store'.data = store.data
        /\ store'.slots \in [CopyKeys -> [Slots -> MaybeCopyLocs]]
        /\ store'.cur = [store.cur EXCEPT ![k] = next] /\ store'.cur \in [CopyKeys -> Slots]
        /\ \A k2 \in CopyKeys, s2 \in Slots :
             store'.slots[k2][s2] = IF k2 = k /\ s2 = s THEN v ELSE store.slots[k2][s2]
    <2>n. PICK n \in Slots : n = next
      BY <1>3
    <2>1. store' = WithSlot(k, s, v, n)
      BY <1>1, <1>k, <2>n
    <2>2. IsWithSlot(WithSlot(k, s, v, n), k, s, v, n)
      BY WithSlotStore
    <2> QED  BY <2>1, <2>2, <2>n DEF IsWithSlot
  <1>5. CopyTypes'
    BY <1>2, <1>4 DEF CopyTypes, SlotCalls
  <1>6. CopyFrame(r, "deleteBlob")
    BY <1>2, <1>4, <1>5 DEF CopyFrame
  <1>7. \A k2 \in CopyKeys, s2 \in Slots :
            store'.slots[k2][s2] = IF k2 = ctx[r].key /\ s2 = ctx[r].slot THEN None
                                   ELSE store.slots[k2][s2]
    BY <1>4, <1>c, <1>k
  <1>8. \E n \in Slots :
           /\ store'.cur = [store.cur EXCEPT ![ctx[r].key] = n]
           /\ \/ n \in {store.cur[ctx[r].key], "null"}
              \/ n # ctx[r].slot /\ store.slots[ctx[r].key][n] # None
    <2>1. /\ next \in Slots
          /\ store'.cur = [store.cur EXCEPT ![ctx[r].key] = next]
          /\ \/ next \in {store.cur[ctx[r].key], "null"}
             \/ next # ctx[r].slot /\ store.slots[ctx[r].key][next] # None
      BY <1>3, <1>4, <1>c, <1>k
    <2> QED  BY <2>1
  <1> QED  BY <1>c, <1>k, <1>0, <1>2, <1>4, <1>6, <1>7, <1>8

\* The location that was remembered goes.
LEMMA DeleteSlotDataDoes ==
    ASSUME CopyTypes, CopyCarries, NEW r \in Reqs, DeleteSlotData(r), UNCHANGED scene
    PROVE  /\ CopyFrame(r, "ok") /\ pc[r] = "deleteBlob" /\ ctx' = ctx
           /\ store'.slots = store.slots /\ store'.cur = store.cur
           /\ store'.data = store.data \ {ctx[r].loc}
  <1> PICK D \in SUBSET CopyLocs : D = store.data \ {ctx[r].loc}
    BY DEF CopyTypes
  <1>1. /\ store' = [store EXCEPT !.data = D] /\ pc[r] = "deleteBlob"
        /\ pc' = [pc EXCEPT ![r] = "ok"] /\ ctx' = ctx
    BY DEF DeleteSlotData, Goto
  <1>2. store' = [status |-> store.status, slots |-> store.slots, cur |-> store.cur, data |-> D]
    BY <1>1, DataWritten
  <1>3. CopyTypes'
    BY <1>1, <1>2 DEF CopyTypes
  <1> QED  BY <1>1, <1>2, <1>3 DEF CopyFrame

\* A request that dies changes nothing but its own place.
LEMMA CopyDies ==
    ASSUME CopyTypes, NEW r \in Reqs, Die(r), UNCHANGED scene
    PROVE  CopyFrame(r, "failed") /\ Running(r) /\ UNCHANGED <<store, ctx>> /\ scene.deaths
  <1>1. pc' = [pc EXCEPT ![r] = "failed"] /\ UNCHANGED <<store, ctx>> /\ Running(r)
        /\ scene.deaths
    BY DEF Die, Goto
  <1>2. CopyTypes'
    BY <1>1 DEF CopyTypes
  <1> QED  BY <1>1, <1>2 DEF CopyFrame

\* Requests and calls keep what they carry, whatever the store holds.
LEMMA CopyBaseKept ==
    ASSUME CopyTypes, CopyCarries, NullOnly, OneRuns, NEW r \in Reqs,
           CopyStep(r) \/ Die(r), UNCHANGED scene
    PROVE  CopyTypes' /\ CopyCarries' /\ NullOnly' /\ OneRuns'
  <1> DEFINE Base == CopyTypes' /\ CopyCarries' /\ NullOnly' /\ OneRuns'
  <1>a. \A q \in Reqs : pc[q] = "idle" => ~Running(q)
    BY DEF Running
  <1>o. ASSUME NEW l, CopyFrame(r, l), Running(r) \/ (scene.sequential => Quiet)
        PROVE  CopyTypes' /\ OneRuns'
    <2>1. \A q \in Reqs \ {r} : Running(q)' = Running(q)
      BY <1>o DEF CopyFrame, CopyTypes, Running
    <2>2. scene.sequential => \A q \in Reqs \ {r} : ~Running(q)
      BY <1>o DEF OneRuns, Quiet
    <2> QED  BY <1>o, <2>1, <2>2 DEF CopyFrame, OneRuns
  <1>c. ASSUME NEW l, CopyFrame(r, l),
               l \in (Unwritten \ {"idle"}) \cup {"deleteExisting"} =>
                    /\ ctx'[r] \in CopyCtx
                    /\ ctx'[r].src = ctx'[r].dst => scene.ops \cap OnItself # {},
               l \in SlotCalls => ctx'[r] \in SlotCtx
        PROVE  CopyCarries'
    <2>1. \A q \in Reqs \ {r} : pc'[q] = pc[q] /\ ctx'[q] = ctx[q]
      BY <1>c DEF CopyFrame, CopyTypes
    <2>2. pc'[r] = l /\ scene' = scene
      BY <1>c DEF CopyFrame, CopyTypes
    <2> QED  BY <1>c, <2>1, <2>2 DEF CopyCarries
  <1>e. ASSUME CopyFrame(r, "failed"), Running(r), UNCHANGED <<store, ctx>>  PROVE  Base
    BY <1>o, <1>c, <1>e DEF NullOnly, Unwritten, SlotCalls
  <1>1. ASSUME CheckDestAuth(r)  PROVE  Base
    <2>1. /\ CopyFrame(r, "readSource") /\ store' = store /\ (scene.sequential => Quiet)
          /\ ctx'[r] \in CopyCtx
          /\ ctx'[r].src = ctx'[r].dst => scene.ops \cap OnItself # {}
      BY <1>1, CheckDestAuthDoes
    <2> QED  BY <2>1, <1>o, <1>c DEF NullOnly, SlotCalls
  <1>2. ASSUME CheckSourceAuthorization(r)  PROVE  Base
    <2>1. CASE CopyFrame(r, "failed") /\ Running(r) /\ UNCHANGED <<store, ctx>>
      BY <2>1, <1>e
    <2>2. CASE ~(CopyFrame(r, "failed") /\ Running(r) /\ UNCHANGED <<store, ctx>>)
      <3>1. PICK l \in {"preprocess", "copyData"} :
                /\ CopyFrame(r, l) /\ pc[r] = "readSource" /\ store' = store
                /\ ctx'[r] \in CopyCtx
                /\ ctx'[r].src = ctx[r].src /\ ctx'[r].dst = ctx[r].dst
        BY <1>2, <2>2, CheckSourceDoes
      <3>2. ctx[r].src = ctx[r].dst => scene.ops \cap OnItself # {}
        BY <3>1 DEF CopyCarries, Unwritten
      <3>3. Running(r)
        BY <3>1 DEF Running
      <3> QED  BY <3>1, <3>2, <3>3, <1>o, <1>c DEF NullOnly, SlotCalls
    <2> QED  BY <2>1, <2>2
  <1>3. ASSUME GoGetData(r)  PROVE  Base
    <2>1. CASE CopyFrame(r, "failed") /\ Running(r) /\ UNCHANGED <<store, ctx>>
      BY <2>1, <1>e
    <2>2. CASE ~(CopyFrame(r, "failed") /\ Running(r) /\ UNCHANGED <<store, ctx>>)
      <3>1. /\ CopyFrame(r, "preprocess") /\ pc[r] = "copyData"
            /\ store'.slots = store.slots /\ store'.cur = store.cur
            /\ ctx'[r] \in CopyCtx
            /\ ctx'[r].src = ctx[r].src /\ ctx'[r].dst = ctx[r].dst
        BY <1>3, <2>2, GoGetDataDoes
      <3>2. ctx[r].src = ctx[r].dst => scene.ops \cap OnItself # {}
        BY <3>1 DEF CopyCarries, Unwritten
      <3>3. Running(r)
        BY <3>1 DEF Running
      <3>4. NullOnly'
        BY <3>1 DEF NullOnly, CopyFrame
      <3> QED  BY <3>1, <3>2, <3>3, <3>4, <1>o, <1>c DEF SlotCalls
    <2> QED  BY <2>1, <2>2
  <1>4. ASSUME GetVersioningInfo(r)  PROVE  Base
    <2>1. /\ CopyFrame(r, "putCopy") /\ pc[r] = "preprocess" /\ store'.cur = store.cur
          /\ ctx'[r] \in CopyCtx
          /\ ctx'[r].src = ctx[r].src /\ ctx'[r].dst = ctx[r].dst
          /\ \/ store'.slots = store.slots
             \/ store.status = "Suspended"
      BY <1>4, PreprocessDoes
    <2>2. ctx[r].src = ctx[r].dst => scene.ops \cap OnItself # {}
      BY <2>1 DEF CopyCarries, Unwritten
    <2>3. Running(r)
      BY <2>1 DEF Running
    <2>4. NullOnly'
      BY <2>1 DEF NullOnly, CopyFrame
    <2> QED  BY <2>1, <2>2, <2>3, <2>4, <1>o, <1>c DEF SlotCalls
  <1>5. ASSUME StoreNewMetadata(r)  PROVE  Base
    <2> DEFINE slot == IF store.status = "Enabled" THEN r ELSE "null"
    <2>1. /\ CopyFrame(r, "deleteExisting") /\ pc[r] = "putCopy" /\ ctx' = ctx
          /\ ctx[r] \in CopyCtx
          /\ store'.cur = [store.cur EXCEPT ![ctx[r].dst] = slot]
          /\ \A k \in CopyKeys, s \in Slots :
                store'.slots[k][s] = IF k = ctx[r].dst /\ s = slot THEN ctx[r].loc
                                     ELSE store.slots[k][s]
      BY <1>5, PutCopyDoes
    <2>2. ctx[r].src = ctx[r].dst => scene.ops \cap OnItself # {}
      BY <2>1 DEF CopyCarries, Unwritten
    <2>3. Running(r)
      BY <2>1 DEF Running
    <2>4. NullOnly'
      BY <2>1 DEF NullOnly, CopyFrame, CopyTypes
    <2> HIDE DEF slot
    <2> QED  BY <2>1, <2>2, <2>3, <2>4, <1>o, <1>c DEF SlotCalls
  <1>6. ASSUME DeleteExistingData(r)  PROVE  Base
    <2>1. /\ CopyFrame(r, "ok") /\ pc[r] = "deleteExisting" /\ ctx' = ctx
          /\ store'.slots = store.slots /\ store'.cur = store.cur
      BY <1>6, DeleteExistingDoes
    <2>2. Running(r)
      BY <2>1 DEF Running
    <2>3. NullOnly'
      BY <2>1 DEF NullOnly, CopyFrame
    <2> QED  BY <2>1, <2>2, <2>3, <1>o, <1>c DEF SlotCalls, Unwritten
  <1>7. ASSUME DeleteSlot(r)  PROVE  Base
    <2>1. /\ CopyFrame(r, "deleteRecord") /\ store' = store /\ (scene.sequential => Quiet)
          /\ ctx'[r] \in SlotCtx
      BY <1>7, DeleteSlotDoes
    <2> QED  BY <2>1, <1>o, <1>c DEF NullOnly, Unwritten
  <1>8. ASSUME DeleteSlotRecord(r)  PROVE  Base
    <2>1. /\ CopyFrame(r, "deleteBlob") /\ pc[r] = "deleteRecord" /\ ctx' = ctx
          /\ ctx[r] \in SlotCtx
          /\ \A k \in CopyKeys, s \in Slots :
                store'.slots[k][s] = IF k = ctx[r].key /\ s = ctx[r].slot THEN None
                                     ELSE store.slots[k][s]
      BY <1>8, DeleteSlotRecordDoes
    <2>2. PICK next \in Slots :
                /\ store'.cur = [store.cur EXCEPT ![ctx[r].key] = next]
                /\ \/ next \in {store.cur[ctx[r].key], "null"}
                   \/ next # ctx[r].slot /\ store.slots[ctx[r].key][next] # None
      BY <1>8, DeleteSlotRecordDoes
    <2>3. Running(r)
      BY <2>1 DEF Running
    <2>4. NullOnly'
      <3> SUFFICES ASSUME store.status = "none", NEW k \in CopyKeys
                   PROVE  /\ store'.cur[k] = "null"
                          /\ \A s \in Slots \ {"null"} : store'.slots[k][s] = None
        BY <2>1 DEF NullOnly, CopyFrame
      <3>1. ctx[r].key \in CopyKeys
        BY <2>1 DEF SlotCtx
      <3>2. next = "null"
        BY <2>2, <3>1 DEF NullOnly
      <3> QED  BY <2>1, <2>2, <3>2 DEF NullOnly, CopyTypes
    <2> QED  BY <2>1, <2>3, <2>4, <1>o, <1>c DEF Unwritten
  <1>9. ASSUME DeleteSlotData(r)  PROVE  Base
    <2>1. /\ CopyFrame(r, "ok") /\ pc[r] = "deleteBlob" /\ ctx' = ctx
          /\ store'.slots = store.slots /\ store'.cur = store.cur
      BY <1>9, DeleteSlotDataDoes
    <2>2. Running(r)
      BY <2>1 DEF Running
    <2>3. NullOnly'
      BY <2>1 DEF NullOnly, CopyFrame
    <2> QED  BY <2>1, <2>2, <2>3, <1>o, <1>c DEF SlotCalls, Unwritten
  <1>10. ASSUME Die(r)  PROVE  Base
    BY <1>10, <1>e, CopyDies
  <1> HIDE DEF Base
  <1> QED
    <2> Base
      BY <1>1, <1>2, <1>3, <1>4, <1>5, <1>6, <1>7, <1>8, <1>9, <1>10 DEF CopyStep
    <2> QED  BY DEF Base

\* Data that r neither may delete nor names stays out of others' reach: a step
\* of r clears slots or writes its own data into one, and removes no data that
\* a record names.
CopyChange(r, l) ==
    /\ CopyFrame(r, l)
    /\ Running(r) \/ (scene.sequential => Quiet)
    /\ l \in Unwritten => pc[r] \in Unwritten
    /\ \A k \in CopyKeys, s \in Slots :
         \/ store'.slots[k][s] \in {store.slots[k][s], None}
         \/ /\ store'.slots[k][s] = r /\ s \in {"null", r}
            /\ pc[r] \in Unwritten /\ l \notin Unwritten
            /\ r \in store'.data
            /\ \A k2 \in CopyKeys, s2 \in Slots :
                 store'.slots[k2][s2] = r => k2 = k /\ s2 = s
    /\ \A m \in CopyLocs : MayDelete(r, m)' => MayDelete(r, m) \/ InRecord(m)
    /\ \A m \in CopyLocs : MayDelete(r, m)' =>
         \A k \in CopyKeys, s \in Slots : store'.slots[k][s] = m => LeftAt(r, k, s)'
    /\ \A m \in store.data : m \in store'.data \/ (MayDelete(r, m) /\ ~InRecord(m))
    /\ HoldsItsOwn(r)'

Owned == HeldIsLeft /\ FreshUntilWritten /\ CopyInHand /\ CopiesOwn

\* What a step leaves alone in CopyChange is enough for the others.
LEMMA OwnedKept ==
    ASSUME CopyTypes, OneRuns, Owned, NEW r \in Reqs, NEW l, CopyChange(r, l)
    PROVE  Owned'
  <1>1. \A q \in Reqs \ {r} : pc'[q] = pc[q] /\ ctx'[q] = ctx[q]
    BY DEF CopyChange, CopyFrame, CopyTypes
  <1>2. pc'[r] = l /\ scene' = scene /\ store'.status = store.status
    BY DEF CopyChange, CopyFrame, CopyTypes
  <1>3. \A q \in Reqs \ {r}, m \in CopyLocs : MayDelete(q, m)' = MayDelete(q, m)
    BY <1>1 DEF MayDelete
  <1>4. \A q \in Reqs \ {r}, k \in CopyKeys, s \in Slots : LeftAt(q, k, s)' = LeftAt(q, k, s)
    BY <1>1 DEF LeftAt
  <1>5. Reqs \subseteq CopyLocs /\ None \notin CopyLocs
    BY CopyAssumption DEF CopyLocs
  <1>6. \A m \in CopyLocs, k \in CopyKeys, s \in Slots :
            store'.slots[k][s] = m =>
                store.slots[k][s] = m \/ (m = r /\ pc[r] \in Unwritten /\ l \notin Unwritten)
    BY <1>5 DEF CopyChange
  <1>7. HeldIsLeft'
    <2> SUFFICES ASSUME NEW q \in Reqs, NEW m \in CopyLocs, MayDelete(q, m)',
                        NEW k \in CopyKeys, NEW s \in Slots, store'.slots[k][s] = m
                 PROVE  LeftAt(q, k, s)'
      BY DEF HeldIsLeft
    <2>1. CASE q = r
      BY <2>1 DEF CopyChange
    <2>2. CASE q # r
      <3>1. MayDelete(q, m) /\ LeftAt(q, k, s)' = LeftAt(q, k, s)
        BY <2>2, <1>3, <1>4
      <3>2. store.slots[k][s] = m
        BY <1>6, <3>1 DEF Owned, FreshUntilWritten
      <3> QED  BY <3>1, <3>2 DEF Owned, HeldIsLeft
    <2> QED  BY <2>1, <2>2
  <1>8. FreshUntilWritten'
    <2> SUFFICES ASSUME NEW q \in Reqs, pc'[q] \in Unwritten
                 PROVE  /\ ~InRecord(q)'
                        /\ \A p \in Reqs : ~MayDelete(p, q)'
                        /\ \A k \in CopyKeys : store'.slots[k][q] = None
      BY DEF FreshUntilWritten
    <2>1. pc[q] \in Unwritten /\ (q = r => l \in Unwritten)
      BY <1>1, <1>2 DEF CopyChange
    <2>2. ~InRecord(q) /\ (\A p \in Reqs : ~MayDelete(p, q))
          /\ \A k \in CopyKeys : store.slots[k][q] = None
      BY <2>1 DEF Owned, FreshUntilWritten
    <2>3. ~InRecord(q)'
      BY <2>1, <2>2, <1>5, <1>6 DEF InRecord
    <2>4. \A p \in Reqs : ~MayDelete(p, q)'
      BY <2>2, <1>3, <1>5 DEF CopyChange
    <2>5. ASSUME NEW k \in CopyKeys  PROVE  store'.slots[k][q] = None
      <3>1. q \in Slots /\ q # "null"
        BY CopyAssumption DEF Slots
      <3> QED  BY <2>1, <2>2, <3>1 DEF CopyChange
    <2> QED  BY <2>3, <2>4, <2>5
  <1>9. CopyInHand'
    <2> SUFFICES ASSUME NEW q \in Reqs, q # r  PROVE  HoldsItsOwn(q)'
      BY DEF CopyInHand, CopyChange
    <2>1. HoldsItsOwn(q) /\ pc'[q] = pc[q] /\ ctx'[q] = ctx[q]
      BY <1>1 DEF Owned, CopyInHand
    <2>2. ASSUME pc[q] \in {"preprocess", "putCopy"}
          PROVE  ctx[q].loc \in store'.data /\ ctx[q].loc = q
      <3>1. Running(q)
        BY <2>2 DEF Running
      <3>2. ~scene.sequential
        BY <3>1 DEF CopyChange, Quiet, OneRuns
      <3>3. ctx[q].loc = q /\ q \in store.data
        BY <2>1, <2>2, <3>2 DEF HoldsItsOwn, TookOver
      <3>4. ~MayDelete(r, q)
        BY <2>2 DEF Owned, FreshUntilWritten, Unwritten
      <3> QED  BY <3>3, <3>4 DEF CopyChange
    <2> QED  BY <2>1, <2>2, <1>2 DEF HoldsItsOwn
  <1>10. CopiesOwn'
    <2> SUFFICES ASSUME NEW k \in CopyKeys, NEW s \in Slots, NEW m, m = store'.slots[k][s],
                        m # None
                 PROVE  /\ m \in store'.data
                        /\ \A k2 \in CopyKeys, s2 \in Slots :
                             store'.slots[k2][s2] = m => k2 = k /\ s2 = s
      BY DEF CopiesOwn
    <2>1. CASE m = store.slots[k][s]
      <3>1. InRecord(m) /\ m \in CopyLocs
        BY <2>1 DEF InRecord, CopyTypes, MaybeCopyLocs
      <3>2. m \in store'.data
        BY <2>1, <3>1 DEF Owned, CopiesOwn, CopyChange
      <3>3. \A k2 \in CopyKeys, s2 \in Slots :
              store'.slots[k2][s2] = m => store.slots[k2][s2] = m
        BY <3>1, <1>6 DEF Owned, FreshUntilWritten
      <3> QED  BY <2>1, <3>2, <3>3 DEF Owned, CopiesOwn
    <2>2. CASE m # store.slots[k][s]
      BY <2>2 DEF CopyChange
    <2> QED  BY <2>1, <2>2
  <1> QED  BY <1>7, <1>8, <1>9, <1>10 DEF Owned

\* A request that ends, or starts, or goes on with the store as it is.
LEMMA StillStore ==
    ASSUME CopyTypes, Owned, NEW r \in Reqs, NEW l, CopyFrame(r, l), store' = store,
           Running(r) \/ (scene.sequential => Quiet),
           l \in Unwritten => pc[r] \in Unwritten,
           \A m \in CopyLocs : MayDelete(r, m)' => MayDelete(r, m) \/ InRecord(m),
           \A m \in CopyLocs : MayDelete(r, m)' =>
             \A k \in CopyKeys, s \in Slots : store.slots[k][s] = m => LeftAt(r, k, s)',
           HoldsItsOwn(r)'
    PROVE  CopyChange(r, l)
  BY DEF CopyChange

\* A request that fails holds nothing any more.
LEMMA CopyEnds ==
    ASSUME CopyTypes, Owned, NEW r \in Reqs, CopyFrame(r, "failed"), Running(r),
           UNCHANGED <<store, ctx>>
    PROVE  CopyChange(r, "failed")
  <1>1. pc'[r] = "failed"
    BY DEF CopyFrame, CopyTypes
  <1>2. \A m \in CopyLocs : ~MayDelete(r, m)'
    BY <1>1 DEF MayDelete, BeforeDoomed, SlotCalls
  <1>3. HoldsItsOwn(r)'
    BY <1>1 DEF HoldsItsOwn, BeforeDoomed
  <1> QED  BY <1>2, <1>3, StillStore DEF Unwritten

\* What checkDestAuth remembers is named by the slot it will replace only.
LEMMA CheckDestAuthChanges ==
    ASSUME CopyTypes, NullOnly, Owned, NEW r \in Reqs, CheckDestAuth(r), UNCHANGED scene
    PROVE  CopyChange(r, "readSource")
  <1>1. /\ CopyFrame(r, "readSource") /\ pc[r] = "idle" /\ store' = store
        /\ scene.sequential => Quiet
        /\ ctx'[r] \in CopyCtx
        /\ ctx'[r].old = store.slots[ctx'[r].dst][store.cur[ctx'[r].dst]]
        /\ ctx'[r].oldIsNull = (store.cur[ctx'[r].dst] = "null")
    BY CheckDestAuthDoes
  <1>2. pc'[r] = "readSource"
    BY <1>1 DEF CopyFrame, CopyTypes
  <1>3. ctx'[r].dst \in CopyKeys /\ "null" \in Slots
    BY <1>1 DEF CopyCtx, Slots
  <1>4. \A m \in CopyLocs : MayDelete(r, m)' =>
            m = store.slots[ctx'[r].dst]["null"]
    BY <1>1, <1>2 DEF MayDelete, SlotCalls
  <1>5. \A m \in CopyLocs : MayDelete(r, m)' => InRecord(m)
    BY <1>3, <1>4 DEF InRecord
  <1>6. \A k \in CopyKeys, s \in Slots : LeftAt(r, k, s)' <=> k = ctx'[r].dst /\ s = "null"
    BY <1>2 DEF LeftAt, Unwritten
  <1>7. \A m \in CopyLocs : MayDelete(r, m)' =>
             \A k \in CopyKeys, s \in Slots : store.slots[k][s] = m => LeftAt(r, k, s)'
    BY <1>3, <1>4, <1>6, CopyAssumption DEF Owned, CopiesOwn, CopyLocs
  <1>8. HoldsItsOwn(r)'
    BY <1>1, <1>2, <1>3 DEF HoldsItsOwn, NullOnly
  <1> QED  BY <1>1, <1>5, <1>7, <1>8, StillStore DEF Unwritten

\* A location that is taken over is named by the slot to be replaced only.
LEMMA CheckSourceChanges ==
    ASSUME CopyTypes, CopyCarries, NullOnly, Owning, Owned, NEW r \in Reqs,
           CheckSourceAuthorization(r), UNCHANGED scene
    PROVE  \E l : CopyChange(r, l)
  <1>1. CASE CopyFrame(r, "failed") /\ Running(r) /\ UNCHANGED <<store, ctx>>
    BY <1>1, CopyEnds
  <1>2. CASE ~(CopyFrame(r, "failed") /\ Running(r) /\ UNCHANGED <<store, ctx>>)
    <2>1. PICK l \in {"preprocess", "copyData"} :
                /\ CopyFrame(r, l) /\ pc[r] = "readSource" /\ store' = store
                /\ ctx'[r] \in CopyCtx
                /\ ctx'[r].src = ctx[r].src /\ ctx'[r].dst = ctx[r].dst
                /\ ctx'[r].old = ctx[r].old /\ ctx'[r].oldIsNull = ctx[r].oldIsNull
                /\ l = "preprocess" =>
                     /\ ctx[r].src = ctx[r].dst /\ store.status # "Enabled"
                     /\ ctx'[r].loc = SourceOf(ctx[r]) /\ ctx'[r].loc # None
      BY <1>2, CheckSourceDoes
    <2>2. pc'[r] = l /\ Running(r) /\ scene' = scene
      BY <2>1 DEF CopyFrame, CopyTypes, Running
    <2>3. \A m \in CopyLocs : MayDelete(r, m)' = MayDelete(r, m)
      BY <2>1, <2>2 DEF MayDelete, SlotCalls, BeforeDoomed
    <2>4. \A k \in CopyKeys, s \in Slots : LeftAt(r, k, s)' = LeftAt(r, k, s)
      BY <2>1, <2>2 DEF LeftAt, Unwritten
    <2>5. \A m \in CopyLocs : MayDelete(r, m)' =>
             \A k \in CopyKeys, s \in Slots : store.slots[k][s] = m => LeftAt(r, k, s)'
      BY <2>3, <2>4 DEF Owned, HeldIsLeft
    <2>6. ASSUME l = "preprocess"
          PROVE  ctx'[r].loc \in store.data /\ TookOver(ctx[r])' /\ TookOver(ctx'[r])
      <3> PICK c \in CopyCtx : c = ctx[r]
        BY <2>1 DEF CopyCarries, Unwritten
      <3>1. scene.ops \cap OnItself # {}
        BY <2>1, <2>6 DEF CopyCarries, Unwritten
      <3>2. scene.sequential /\ store.status = "none"
        BY <3>1, <2>1, <2>6 DEF Owning, CopyTypes
      <3>3. c.src \in CopyKeys /\ c.from \in {None, "null", "v1"} /\ "v1" # "null"
            /\ "v1" \in Slots /\ "null" \in Slots
        BY DEF CopyCtx, Slots
      <3>4. SourceOf(c) = store.slots[c.src]["null"]
        BY <2>1, <2>6, <3>2, <3>3 DEF SourceOf, NullOnly
      <3>5. ctx'[r].loc = store.slots[c.src]["null"]
        BY <2>1, <2>6, <3>4
      <3>6. ctx'[r].loc \in store.data
        BY <2>1, <2>6, <3>3, <3>5 DEF Owned, CopiesOwn
      <3> QED  BY <2>1, <2>2, <2>6, <3>2, <3>5, <3>6 DEF TookOver
    <2>7. HoldsItsOwn(r)'
      <3>1. HoldsItsOwn(r)
        BY DEF Owned, CopyInHand
      <3> QED  BY <3>1, <2>1, <2>2, <2>6 DEF HoldsItsOwn, BeforeDoomed, TookOver
    <2> QED  BY <2>1, <2>2, <2>3, <2>5, <2>7, StillStore DEF Unwritten
  <1> QED  BY <1>1, <1>2

\* Fresh data is named by no record.
LEMMA GoGetDataChanges ==
    ASSUME CopyTypes, CopyCarries, Owned, NEW r \in Reqs, GoGetData(r), UNCHANGED scene
    PROVE  \E l : CopyChange(r, l)
  <1>1. CASE CopyFrame(r, "failed") /\ Running(r) /\ UNCHANGED <<store, ctx>>
    BY <1>1, CopyEnds
  <1>2. CASE ~(CopyFrame(r, "failed") /\ Running(r) /\ UNCHANGED <<store, ctx>>)
    <2>1. /\ CopyFrame(r, "preprocess") /\ pc[r] = "copyData"
          /\ store'.slots = store.slots /\ store'.cur = store.cur
          /\ store'.data = store.data \cup {r}
          /\ ctx'[r] \in CopyCtx /\ ctx'[r].loc = r
          /\ ctx'[r].src = ctx[r].src /\ ctx'[r].dst = ctx[r].dst
          /\ ctx'[r].old = ctx[r].old /\ ctx'[r].oldIsNull = ctx[r].oldIsNull
      BY <1>2, GoGetDataDoes
    <2>2. pc'[r] = "preprocess" /\ Running(r) /\ store'.status = store.status
      BY <2>1 DEF CopyFrame, CopyTypes, Running
    <2>3. \A m \in CopyLocs : MayDelete(r, m)' = MayDelete(r, m)
      BY <2>1, <2>2 DEF MayDelete, SlotCalls, BeforeDoomed
    <2>4. \A k \in CopyKeys, s \in Slots : LeftAt(r, k, s)' = LeftAt(r, k, s)
      BY <2>1, <2>2 DEF LeftAt, Unwritten
    <2>5. \A m \in CopyLocs : MayDelete(r, m)' =>
             \A k \in CopyKeys, s \in Slots : store'.slots[k][s] = m => LeftAt(r, k, s)'
      BY <2>1, <2>3, <2>4 DEF Owned, HeldIsLeft
    <2>6. HoldsItsOwn(r)'
      <3>1. HoldsItsOwn(r)
        BY DEF Owned, CopyInHand
      <3> QED  BY <3>1, <2>1, <2>2 DEF HoldsItsOwn, BeforeDoomed
    <2> QED  BY <2>1, <2>2, <2>3, <2>5, <2>6 DEF CopyChange, Unwritten
  <1> QED  BY <1>1, <1>2

\* A null version that moves aside keeps its data; one that is replaced is doomed.
LEMMA PreprocessChanges ==
    ASSUME CopyTypes, CopyCarries, Owned, NEW r \in Reqs, GetVersioningInfo(r), UNCHANGED scene
    PROVE  CopyChange(r, "putCopy")
  <1>1. /\ CopyFrame(r, "putCopy") /\ pc[r] = "preprocess"
        /\ store'.cur = store.cur /\ store'.data = store.data
        /\ ctx'[r] \in CopyCtx /\ ctx'[r].loc = ctx[r].loc
        /\ ctx'[r].src = ctx[r].src /\ ctx'[r].dst = ctx[r].dst
        /\ ctx[r] \in CopyCtx
    BY PreprocessDoes
  <1>d. ctx[r].dst \in CopyKeys /\ "null" \in Slots
    BY <1>1 DEF CopyCtx, Slots
  <1>2. pc'[r] = "putCopy" /\ Running(r) /\ store'.status = store.status /\ scene' = scene
    BY <1>1 DEF CopyFrame, CopyTypes, Running
  <1>h. HoldsItsOwn(r)
    BY DEF Owned, CopyInHand
  <1>3. \A k \in CopyKeys, s \in Slots : LeftAt(r, k, s)' = LeftAt(r, k, s)
    BY <1>1, <1>2 DEF LeftAt, Unwritten
  <1>4. \A m \in CopyLocs : MayDelete(r, m)' <=> m = ctx'[r].doomed
    BY <1>2 DEF MayDelete, BeforeDoomed, SlotCalls
  <1>5. CASE /\ store'.slots = store.slots
             /\ CASE store.status = "Enabled" -> ctx'[r].doomed = None
                  [] store.status = "none"    -> ctx'[r].doomed = ctx[r].old
                  [] OTHER -> IF ctx[r].oldIsNull THEN ctx'[r].doomed = ctx[r].old
                              ELSE /\ store.slots[ctx[r].dst]["null"] = None
                                   /\ ctx'[r].doomed = None
    <2>1. /\ ctx'[r].doomed = None \/ (ctx[r].oldIsNull /\ ctx'[r].doomed = ctx[r].old)
          /\ store.status = "Enabled" => ctx'[r].doomed = None
      BY <1>1, <1>5, <1>h DEF HoldsItsOwn, CopyTypes, BeforeDoomed
    <2>2. \A m \in CopyLocs : MayDelete(r, m)' => MayDelete(r, m)
      BY <1>1, <1>4, <2>1, CopyAssumption DEF MayDelete, BeforeDoomed, CopyLocs
    <2>3. \A m \in CopyLocs : MayDelete(r, m)' =>
             \A k \in CopyKeys, s \in Slots : store'.slots[k][s] = m => LeftAt(r, k, s)'
      BY <1>3, <1>5, <2>2 DEF Owned, HeldIsLeft
    <2>4. HoldsItsOwn(r)'
      BY <1>1, <1>2, <1>5, <1>h, <2>1 DEF HoldsItsOwn, TookOver, BeforeDoomed
    <2> QED  BY <1>1, <1>2, <1>5, <2>2, <2>3, <2>4 DEF CopyChange, Unwritten
  <1>6. CASE /\ ctx'[r].doomed = store.slots[ctx[r].dst]["null"]
             /\ store.status = "Suspended"
             /\ \A k \in CopyKeys, s \in Slots :
                  store'.slots[k][s] = IF k = ctx[r].dst /\ s = "null" THEN None
                                       ELSE store.slots[k][s]
    <2>1. \A m \in CopyLocs : MayDelete(r, m)' => InRecord(m)
      BY <1>4, <1>6, <1>d DEF InRecord
    <2>2. \A m \in CopyLocs : MayDelete(r, m)' =>
             \A k \in CopyKeys, s \in Slots : store'.slots[k][s] # m
      BY <1>4, <1>6, <1>d, CopyAssumption DEF Owned, CopiesOwn, CopyLocs
    <2>3. HoldsItsOwn(r)'
      BY <1>1, <1>2, <1>6, <1>h DEF HoldsItsOwn, TookOver, BeforeDoomed
    <2> QED  BY <1>1, <1>2, <1>6, <2>1, <2>2, <2>3 DEF CopyChange, Unwritten
  <1> QED  BY <1>5, <1>6, PreprocessDoes

\* The record that is written takes the place of the doomed one.
LEMMA PutCopyChanges ==
    ASSUME CopyTypes, CopyCarries, Owned, NEW r \in Reqs, StoreNewMetadata(r), UNCHANGED scene
    PROVE  CopyChange(r, "deleteExisting")
  <1> DEFINE slot == IF store.status = "Enabled" THEN r ELSE "null"
  <1>1. /\ CopyFrame(r, "deleteExisting") /\ pc[r] = "putCopy" /\ ctx' = ctx
        /\ store'.data = store.data /\ ctx[r] \in CopyCtx
        /\ \A k \in CopyKeys, s \in Slots :
                store'.slots[k][s] = IF k = ctx[r].dst /\ s = slot THEN ctx[r].loc
                                     ELSE store.slots[k][s]
    BY PutCopyDoes
  <1>2. pc'[r] = "deleteExisting" /\ Running(r) /\ store'.status = store.status
    BY <1>1 DEF CopyFrame, CopyTypes, Running
  <1>d. ctx[r].dst \in CopyKeys /\ slot \in Slots /\ slot \in {"null", r}
    BY <1>1 DEF CopyCtx, Slots
  <1>h. /\ ctx[r].loc \in store.data /\ (ctx[r].loc = r \/ TookOver(ctx[r]))
        /\ store.status = "Enabled" => ctx[r].doomed = None
    BY <1>1 DEF Owned, CopyInHand, HoldsItsOwn
  <1>f. ~InRecord(r) /\ ~MayDelete(r, r)
    BY <1>1 DEF Owned, FreshUntilWritten, Unwritten
  <1>3. \A m \in CopyLocs : MayDelete(r, m)' <=> ctx[r].src # ctx[r].dst /\ m = ctx[r].doomed
    BY <1>1, <1>2 DEF MayDelete, BeforeDoomed, SlotCalls
  <1>4. \A m \in CopyLocs : MayDelete(r, m)' => MayDelete(r, m)
    BY <1>1, <1>3 DEF MayDelete
  <1>5. \A k \in CopyKeys, s \in Slots :
         \/ store'.slots[k][s] = store.slots[k][s]
         \/ /\ store'.slots[k][s] = r /\ s \in {"null", r}
            /\ \A k2 \in CopyKeys, s2 \in Slots :
                 store'.slots[k2][s2] = r => k2 = k /\ s2 = s
            /\ r \in store'.data
    <2>1. CASE ctx[r].loc = r
      BY <2>1, <1>1, <1>d, <1>h, <1>f DEF InRecord
    <2>2. CASE TookOver(ctx[r])
      BY <2>2, <1>1 DEF TookOver
    <2> QED  BY <2>1, <2>2, <1>h
  <1>6. ASSUME NEW m \in CopyLocs, MayDelete(r, m)', NEW k \in CopyKeys, NEW s \in Slots,
               store'.slots[k][s] = m
        PROVE  FALSE
    <2>1. ctx[r].src # ctx[r].dst /\ m = ctx[r].doomed /\ MayDelete(r, m)
      BY <1>3, <1>4, <1>6
    <2>2. ctx[r].loc = r /\ m # r /\ slot = "null"
      <3>1. m # None
        BY CopyAssumption DEF CopyLocs
      <3> QED  BY <2>1, <3>1, <1>h, <1>f DEF TookOver
    <2>3. store.slots[k][s] = m /\ ~(k = ctx[r].dst /\ s = "null")
      BY <1>1, <1>6, <2>2
    <2>4. LeftAt(r, k, s)
      BY <2>1, <2>3 DEF Owned, HeldIsLeft
    <2> QED  BY <1>1, <2>3, <2>4 DEF LeftAt
  <1>7. HoldsItsOwn(r)'
    BY <1>2 DEF HoldsItsOwn, BeforeDoomed
  <1> HIDE DEF slot
  <1> QED  BY <1>1, <1>2, <1>4, <1>5, <1>6, <1>7 DEF CopyChange, Unwritten

\* What is deleted is named by no record any more.
LEMMA DeletionsChange ==
    ASSUME CopyTypes, CopyCarries, Owned, NEW r \in Reqs, UNCHANGED scene,
           \/ DeleteExistingData(r) \/ DeleteSlot(r) \/ DeleteSlotRecord(r)
           \/ DeleteSlotData(r) \/ Die(r)
    PROVE  \E l : CopyChange(r, l)
  <1>n. None \notin CopyLocs
    BY CopyAssumption DEF CopyLocs
  <1>1. CASE DeleteExistingData(r)
    <2>1. /\ CopyFrame(r, "ok") /\ pc[r] = "deleteExisting" /\ ctx' = ctx
          /\ store'.slots = store.slots /\ store'.cur = store.cur
          /\ store'.data = IF ctx[r].src # ctx[r].dst
                            THEN store.data \ {ctx[r].doomed} ELSE store.data
      BY <1>1, DeleteExistingDoes
    <2>2. pc'[r] = "ok" /\ Running(r)
      BY <2>1 DEF CopyFrame, CopyTypes, Running
    <2>3. \A m \in CopyLocs : ~MayDelete(r, m)'
      BY <2>2 DEF MayDelete, BeforeDoomed, SlotCalls
    <2>4. \A m \in CopyLocs : MayDelete(r, m) => ~InRecord(m)
      BY <2>1 DEF Owned, HeldIsLeft, LeftAt, Unwritten, InRecord
    <2>5. \A m \in store.data : m \in store'.data \/ (MayDelete(r, m) /\ ~InRecord(m))
      BY <2>1, <2>4 DEF MayDelete, CopyTypes
    <2>6. HoldsItsOwn(r)'
      BY <2>2 DEF HoldsItsOwn, BeforeDoomed
    <2> QED  BY <2>1, <2>2, <2>3, <2>5, <2>6 DEF CopyChange, Unwritten
  <1>2. CASE DeleteSlot(r)
    <2>1. /\ CopyFrame(r, "deleteRecord") /\ pc[r] = "idle" /\ store' = store
          /\ scene.sequential => Quiet
          /\ ctx'[r] \in SlotCtx
          /\ ctx'[r].loc = store.slots[ctx'[r].key][ctx'[r].slot]
      BY <1>2, DeleteSlotDoes
    <2>2. pc'[r] = "deleteRecord" /\ ctx'[r].key \in CopyKeys /\ ctx'[r].slot \in Slots
      BY <2>1 DEF CopyFrame, CopyTypes, SlotCtx
    <2>3. \A m \in CopyLocs : MayDelete(r, m)' <=> m = ctx'[r].loc
      BY <2>2 DEF MayDelete, BeforeDoomed, SlotCalls
    <2>4. \A k \in CopyKeys, s \in Slots :
            LeftAt(r, k, s)' <=> k = ctx'[r].key /\ s = ctx'[r].slot
      BY <2>2 DEF LeftAt, Unwritten
    <2>5. \A m \in CopyLocs : MayDelete(r, m)' => InRecord(m)
      BY <2>1, <2>2, <2>3 DEF InRecord
    <2>6. \A m \in CopyLocs : MayDelete(r, m)' =>
             \A k \in CopyKeys, s \in Slots : store.slots[k][s] = m => LeftAt(r, k, s)'
      BY <2>1, <2>2, <2>3, <2>4, <1>n DEF Owned, CopiesOwn
    <2>7. HoldsItsOwn(r)'
      BY <2>2 DEF HoldsItsOwn, BeforeDoomed
    <2> QED  BY <2>1, <2>5, <2>6, <2>7, StillStore DEF Unwritten
  <1>3. CASE DeleteSlotRecord(r)
    <2>1. /\ CopyFrame(r, "deleteBlob") /\ pc[r] = "deleteRecord" /\ ctx' = ctx
          /\ store'.data = store.data /\ ctx[r] \in SlotCtx
          /\ \A k \in CopyKeys, s \in Slots :
                store'.slots[k][s] = IF k = ctx[r].key /\ s = ctx[r].slot THEN None
                                     ELSE store.slots[k][s]
      BY <1>3, DeleteSlotRecordDoes
    <2>2. pc'[r] = "deleteBlob" /\ Running(r)
      BY <2>1 DEF CopyFrame, CopyTypes, Running
    <2>3. \A m \in CopyLocs : MayDelete(r, m)' = MayDelete(r, m)
      BY <2>1, <2>2 DEF MayDelete, BeforeDoomed, SlotCalls
    <2>4. \A k \in CopyKeys, s \in Slots :
            LeftAt(r, k, s) <=> k = ctx[r].key /\ s = ctx[r].slot
      BY <2>1 DEF LeftAt, Unwritten
    <2>5. \A m \in CopyLocs : MayDelete(r, m)' =>
             \A k \in CopyKeys, s \in Slots : store'.slots[k][s] # m
      BY <2>1, <2>3, <2>4, <1>n DEF Owned, HeldIsLeft
    <2>6. HoldsItsOwn(r)'
      BY <2>2 DEF HoldsItsOwn, BeforeDoomed
    <2> QED  BY <2>1, <2>2, <2>3, <2>5, <2>6 DEF CopyChange, Unwritten
  <1>4. CASE DeleteSlotData(r)
    <2>1. /\ CopyFrame(r, "ok") /\ pc[r] = "deleteBlob" /\ ctx' = ctx
          /\ store'.slots = store.slots /\ store'.cur = store.cur
          /\ store'.data = store.data \ {ctx[r].loc}
      BY <1>4, DeleteSlotDataDoes
    <2>2. pc'[r] = "ok" /\ Running(r)
      BY <2>1 DEF CopyFrame, CopyTypes, Running
    <2>3. \A m \in CopyLocs : ~MayDelete(r, m)'
      BY <2>2 DEF MayDelete, BeforeDoomed, SlotCalls
    <2>4. \A m \in CopyLocs : MayDelete(r, m) => ~InRecord(m)
      BY <2>1 DEF Owned, HeldIsLeft, LeftAt, Unwritten, InRecord
    <2>5. \A m \in store.data : m \in store'.data \/ (MayDelete(r, m) /\ ~InRecord(m))
      BY <2>1, <2>4 DEF MayDelete, SlotCalls, CopyTypes
    <2>6. HoldsItsOwn(r)'
      BY <2>2 DEF HoldsItsOwn, BeforeDoomed
    <2> QED  BY <2>1, <2>2, <2>3, <2>5, <2>6 DEF CopyChange, Unwritten
  <1>5. CASE Die(r)
    BY <1>5, CopyDies, CopyEnds
  <1> QED  BY <1>1, <1>2, <1>3, <1>4, <1>5

\* So every step of a copy or a deletion keeps records and data together.
LEMMA OwnedSteps ==
    ASSUME CopyTypes, CopyCarries, NullOnly, OneRuns, Owning, Owned, NEW r \in Reqs,
           CopyStep(r) \/ Die(r), UNCHANGED scene
    PROVE  Owned'
  <1>1. \E l : CopyChange(r, l)
    BY CheckDestAuthChanges, CheckSourceChanges, GoGetDataChanges, PreprocessChanges,
       PutCopyChanges, DeletionsChange DEF CopyStep
  <1> QED  BY <1>1, OwnedKept

\* Nothing is lost when requests wait for one another: each call moves data
\* between its record and its request.
LEMMA LoneSteps ==
    ASSUME CopyTypes, CopyTypes', CopyCarries, OneRuns, OneRuns', Owned, LoneCopies,
           ReadIsCurrent, NoCopyLost, NEW r \in Reqs, CopyStep(r) \/ Die(r), UNCHANGED scene
    PROVE  (ReadIsCurrent /\ NoCopyLost)'
  <1>n. None \notin CopyLocs /\ Reqs \subseteq CopyLocs
    BY CopyAssumption DEF CopyLocs
  <1>l. LoneCopies'
    BY DEF LoneCopies
  <1>w. \A q \in Reqs, m \in CopyLocs : OnItsWay(q, m) => Running(q)
    BY DEF OnItsWay, Running
  <1>0. ASSUME NEW l, CopyFrame(r, l), Running(r) \/ Quiet,
               l \in BeforeDoomed /\ ctx'[r].oldIsNull =>
                   ctx'[r].old = store'.slots[ctx'[r].dst]["null"],
               l = "putCopy" /\ store.status # "Enabled" =>
                   store'.slots[ctx'[r].dst]["null"] \in {None, ctx'[r].doomed},
               l = "deleteRecord" => store'.slots[ctx'[r].key][ctx'[r].slot] = ctx'[r].loc,
               \A m \in CopyLocs : m \in store.data <=> InRecord(m) \/ OnItsWay(r, m)
                 => (m \in store'.data <=> InRecord(m)' \/ OnItsWay(r, m)')
        PROVE  (ReadIsCurrent /\ NoCopyLost)'
    <2>1. \A q \in Reqs \ {r} : ~Running(q) /\ pc'[q] = pc[q] /\ ctx'[q] = ctx[q]
      BY <1>0 DEF CopyFrame, CopyTypes, OneRuns, Quiet, LoneCopies
    <2>2. pc'[r] = l /\ store'.status = store.status
      BY <1>0 DEF CopyFrame, CopyTypes
    <2>3. \A q \in Reqs \ {r} : pc'[q] \in {"idle", "ok", "failed"}
      BY <2>1 DEF Running
    <2>4. ReadIsCurrent'
      BY <1>0, <2>2, <2>3 DEF ReadIsCurrent, BeforeDoomed
    <2>5. \A q \in Reqs \ {r}, m \in CopyLocs : ~OnItsWay(q, m) /\ ~OnItsWay(q, m)'
      BY <1>w, <2>1, <2>3 DEF OnItsWay
    <2>6. ASSUME NEW m \in CopyLocs
          PROVE  m \in store'.data <=> InRecord(m)' \/ \E q \in Reqs : OnItsWay(q, m)'
      <3>1. m \in store.data <=> InRecord(m) \/ OnItsWay(r, m)
        BY <2>5 DEF NoCopyLost
      <3>2. m \in store'.data <=> InRecord(m)' \/ OnItsWay(r, m)'
        BY <1>0, <3>1
      <3> QED  BY <3>2, <2>5
    <2> QED  BY <2>4, <2>6 DEF NoCopyLost
  <1>e. ASSUME CopyFrame(r, "failed"), Running(r), UNCHANGED <<store, ctx>>,
               pc[r] \in {"readSource", "copyData"}
        PROVE  (ReadIsCurrent /\ NoCopyLost)'
    <2>1. pc'[r] = "failed"
      BY <1>e DEF CopyFrame, CopyTypes
    <2>2. \A m \in CopyLocs : ~OnItsWay(r, m) /\ ~OnItsWay(r, m)'
      BY <1>e, <2>1 DEF OnItsWay
    <2>3. \A m \in CopyLocs : InRecord(m)' = InRecord(m)
      BY <1>e DEF InRecord
    <2> QED  BY <1>e, <2>2, <2>3, <1>0 DEF BeforeDoomed
  <1>1. ASSUME CheckDestAuth(r)  PROVE  (ReadIsCurrent /\ NoCopyLost)'
    <2>1. /\ CopyFrame(r, "readSource") /\ pc[r] = "idle" /\ store' = store /\ Quiet
          /\ ctx'[r].old = store.slots[ctx'[r].dst][store.cur[ctx'[r].dst]]
          /\ ctx'[r].oldIsNull = (store.cur[ctx'[r].dst] = "null")
      BY <1>1, CheckDestAuthDoes DEF LoneCopies
    <2>2. pc'[r] = "readSource"
      BY <2>1 DEF CopyFrame, CopyTypes
    <2>3. \A m \in CopyLocs : ~OnItsWay(r, m) /\ ~OnItsWay(r, m)'
      BY <2>1, <2>2 DEF OnItsWay
    <2>4. \A m \in CopyLocs : InRecord(m)' = InRecord(m)
      BY <2>1 DEF InRecord
    <2> QED  BY <2>1, <2>3, <2>4, <1>0
  <1>2. ASSUME CheckSourceAuthorization(r)  PROVE  (ReadIsCurrent /\ NoCopyLost)'
    <2>0. pc[r] = "readSource" /\ ctx[r].src # ctx[r].dst
      BY <1>2 DEF CheckSourceAuthorization, CopyCarries, LoneCopies, Unwritten
    <2>1. CASE CopyFrame(r, "failed") /\ Running(r) /\ UNCHANGED <<store, ctx>>
      BY <2>0, <2>1, <1>e
    <2>2. CASE ~(CopyFrame(r, "failed") /\ Running(r) /\ UNCHANGED <<store, ctx>>)
      <3>1. /\ CopyFrame(r, "copyData") /\ store' = store
            /\ ctx'[r].dst = ctx[r].dst
            /\ ctx'[r].old = ctx[r].old /\ ctx'[r].oldIsNull = ctx[r].oldIsNull
        BY <1>2, <2>0, <2>2, CheckSourceDoes
      <3>2. pc'[r] = "copyData" /\ Running(r)
        BY <2>0, <3>1 DEF CopyFrame, CopyTypes, Running
      <3>3. \A m \in CopyLocs : ~OnItsWay(r, m) /\ ~OnItsWay(r, m)'
        BY <2>0, <3>2 DEF OnItsWay
      <3>4. \A m \in CopyLocs : InRecord(m)' = InRecord(m)
        BY <3>1 DEF InRecord
      <3>5. ctx'[r].oldIsNull => ctx'[r].old = store'.slots[ctx'[r].dst]["null"]
        BY <2>0, <3>1 DEF ReadIsCurrent, BeforeDoomed
      <3> QED  BY <3>1, <3>2, <3>3, <3>4, <3>5, <1>0
    <2> QED  BY <2>1, <2>2
  <1>3. ASSUME GoGetData(r)  PROVE  (ReadIsCurrent /\ NoCopyLost)'
    <2>0. pc[r] = "copyData"
      BY <1>3 DEF GoGetData
    <2>1. CASE CopyFrame(r, "failed") /\ Running(r) /\ UNCHANGED <<store, ctx>>
      BY <2>0, <2>1, <1>e
    <2>2. CASE ~(CopyFrame(r, "failed") /\ Running(r) /\ UNCHANGED <<store, ctx>>)
      <3>1. /\ CopyFrame(r, "preprocess")
            /\ store'.slots = store.slots /\ store'.data = store.data \cup {r}
            /\ ctx'[r].dst = ctx[r].dst
            /\ ctx'[r].old = ctx[r].old /\ ctx'[r].oldIsNull = ctx[r].oldIsNull
        BY <1>3, <2>2, GoGetDataDoes
      <3>2. pc'[r] = "preprocess" /\ Running(r)
        BY <2>0, <3>1 DEF CopyFrame, CopyTypes, Running
      <3>3. \A m \in CopyLocs : ~OnItsWay(r, m) /\ (OnItsWay(r, m)' <=> m = r)
        BY <2>0, <3>2 DEF OnItsWay
      <3>4. \A m \in CopyLocs : InRecord(m)' = InRecord(m)
        BY <3>1 DEF InRecord
      <3>5. ctx'[r].oldIsNull => ctx'[r].old = store'.slots[ctx'[r].dst]["null"]
        BY <2>0, <3>1 DEF ReadIsCurrent, BeforeDoomed
      <3> QED  BY <3>1, <3>2, <3>3, <3>4, <3>5, <1>0
    <2> QED  BY <2>1, <2>2
  <1>4. ASSUME GetVersioningInfo(r)  PROVE  (ReadIsCurrent /\ NoCopyLost)'
    <2>1. /\ CopyFrame(r, "putCopy") /\ pc[r] = "preprocess" /\ store'.data = store.data
          /\ ctx'[r].dst = ctx[r].dst /\ ctx[r] \in CopyCtx
      BY <1>4, PreprocessDoes
    <2>2. pc'[r] = "putCopy" /\ Running(r)
      BY <2>1 DEF CopyFrame, CopyTypes, Running
    <2>d. ctx[r].dst \in CopyKeys /\ "null" \in Slots
      BY <2>1 DEF CopyCtx, Slots
    <2>3. \A m \in CopyLocs : /\ OnItsWay(r, m) <=> m = r
                              /\ OnItsWay(r, m)' <=> m = r \/ m = ctx'[r].doomed
      BY <2>1, <2>2 DEF OnItsWay
    <2>4. /\ ctx[r].oldIsNull => ctx[r].old = store.slots[ctx[r].dst]["null"]
          /\ store.status = "none" => ctx[r].oldIsNull
      BY <2>1 DEF ReadIsCurrent, Owned, CopyInHand, HoldsItsOwn, BeforeDoomed
    <2>5. CASE /\ store'.slots = store.slots
               /\ CASE store.status = "Enabled" -> ctx'[r].doomed = None
                    [] store.status = "none"    -> ctx'[r].doomed = ctx[r].old
                    [] OTHER -> IF ctx[r].oldIsNull THEN ctx'[r].doomed = ctx[r].old
                                ELSE /\ store.slots[ctx[r].dst]["null"] = None
                                     /\ ctx'[r].doomed = None
      <3>1. store.status # "Enabled" => store.slots[ctx[r].dst]["null"] \in {None, ctx'[r].doomed}
        BY <2>4, <2>5 DEF CopyTypes
      <3>2. \A m \in CopyLocs : m = ctx'[r].doomed => InRecord(m)
        BY <2>4, <2>5, <2>d, <1>n DEF CopyTypes, InRecord
      <3>3. \A m \in CopyLocs : InRecord(m)' = InRecord(m)
        BY <2>5 DEF InRecord
      <3>4. \A m \in CopyLocs : m \in store.data <=> InRecord(m) \/ OnItsWay(r, m)
                 => (m \in store'.data <=> InRecord(m)' \/ OnItsWay(r, m)')
        <4> SUFFICES ASSUME NEW m \in CopyLocs, m \in store.data <=> InRecord(m) \/ OnItsWay(r, m)
                     PROVE  m \in store'.data <=> InRecord(m)' \/ OnItsWay(r, m)'
          OBVIOUS
        <4>1. m \in store.data <=> InRecord(m) \/ m = r
          BY <2>3
        <4>2. m \in store'.data <=> m \in store.data
          BY <2>1
        <4>3. (m = ctx'[r].doomed => InRecord(m)) /\ (InRecord(m)' <=> InRecord(m))
          BY <3>2, <3>3
        <4>4. OnItsWay(r, m)' <=> m = r \/ m = ctx'[r].doomed
          BY <2>3
        <4> QED  BY <4>1, <4>2, <4>3, <4>4
      <3>5. store.status # "Enabled" =>
                store'.slots[ctx'[r].dst]["null"] \in {None, ctx'[r].doomed}
        BY <2>1, <2>5, <3>1
      <3> QED  BY <2>1, <2>2, <3>4, <3>5, <1>0 DEF BeforeDoomed
    <2>6. CASE /\ ctx'[r].doomed = store.slots[ctx[r].dst]["null"]
               /\ store.status = "Suspended"
               /\ \A k \in CopyKeys, s \in Slots :
                    store'.slots[k][s] = IF k = ctx[r].dst /\ s = "null" THEN None
                                         ELSE store.slots[k][s]
      <3>1. store'.slots[ctx'[r].dst]["null"] = None
        BY <2>1, <2>6, <2>d
      <3>2. \A m \in CopyLocs : InRecord(m) <=> InRecord(m)' \/ m = ctx'[r].doomed
        BY <2>6, <2>d, <1>n DEF InRecord
      <3>3. \A m \in CopyLocs : m \in store.data <=> InRecord(m) \/ OnItsWay(r, m)
                 => (m \in store'.data <=> InRecord(m)' \/ OnItsWay(r, m)')
        <4> SUFFICES ASSUME NEW m \in CopyLocs, m \in store.data <=> InRecord(m) \/ OnItsWay(r, m)
                     PROVE  m \in store'.data <=> InRecord(m)' \/ OnItsWay(r, m)'
          OBVIOUS
        <4>1. m \in store.data <=> InRecord(m) \/ m = r
          BY <2>3
        <4>2. m \in store'.data <=> m \in store.data
          BY <2>1
        <4>3. InRecord(m) <=> InRecord(m)' \/ m = ctx'[r].doomed
          BY <3>2
        <4>4. OnItsWay(r, m)' <=> m = r \/ m = ctx'[r].doomed
          BY <2>3
        <4> QED  BY <4>1, <4>2, <4>3, <4>4
      <3> QED  BY <2>1, <2>2, <3>1, <3>3, <1>0 DEF BeforeDoomed
    <2> QED  BY <1>4, <2>5, <2>6, PreprocessDoes
  <1>5. ASSUME StoreNewMetadata(r)  PROVE  (ReadIsCurrent /\ NoCopyLost)'
    <2> DEFINE slot == IF store.status = "Enabled" THEN r ELSE "null"
    <2>1. /\ CopyFrame(r, "deleteExisting") /\ pc[r] = "putCopy" /\ ctx' = ctx
          /\ store'.data = store.data /\ ctx[r] \in CopyCtx
          /\ \A k \in CopyKeys, s \in Slots :
                store'.slots[k][s] = IF k = ctx[r].dst /\ s = slot THEN ctx[r].loc
                                     ELSE store.slots[k][s]
      BY <1>5, PutCopyDoes
    <2>2. pc'[r] = "deleteExisting" /\ Running(r)
      BY <2>1 DEF CopyFrame, CopyTypes, Running
    <2>d. ctx[r].dst \in CopyKeys /\ slot \in Slots
      BY <2>1 DEF CopyCtx, Slots
    <2>3. ctx[r].loc = r
      BY <2>1 DEF Owned, CopyInHand, HoldsItsOwn, TookOver, CopyCarries, LoneCopies, Unwritten
    <2>4. \A m \in CopyLocs : /\ OnItsWay(r, m) <=> m = r \/ m = ctx[r].doomed
                              /\ OnItsWay(r, m)' <=> m = ctx[r].doomed
      BY <2>1, <2>2 DEF OnItsWay
    <2>5. store.slots[ctx[r].dst][slot] \in {None, ctx[r].doomed}
      BY <2>1, <2>d DEF ReadIsCurrent, Owned, FreshUntilWritten, Unwritten
    <2>6. \A m \in CopyLocs : /\ InRecord(m) => InRecord(m)' \/ m = ctx[r].doomed
                              /\ InRecord(m)' => InRecord(m) \/ m = r
                              /\ m = r => InRecord(m)'
      <3> HIDE DEF slot
      <3> QED  BY <2>1, <2>3, <2>5, <2>d, <1>n DEF InRecord
    <2>7. \A m \in CopyLocs : m \in store.data <=> InRecord(m) \/ OnItsWay(r, m)
               => (m \in store'.data <=> InRecord(m)' \/ OnItsWay(r, m)')
      <3> SUFFICES ASSUME NEW m \in CopyLocs, m \in store.data <=> InRecord(m) \/ OnItsWay(r, m)
                   PROVE  m \in store'.data <=> InRecord(m)' \/ OnItsWay(r, m)'
        OBVIOUS
      <3>1. m \in store.data <=> InRecord(m) \/ m = r \/ m = ctx[r].doomed
        BY <2>4
      <3>2. m \in store'.data <=> m \in store.data
        BY <2>1
      <3>3. /\ InRecord(m) => InRecord(m)' \/ m = ctx[r].doomed
            /\ InRecord(m)' => InRecord(m) \/ m = r
            /\ m = r => InRecord(m)'
        BY <2>6
      <3>4. OnItsWay(r, m)' <=> m = ctx[r].doomed
        BY <2>4
      <3> QED  BY <3>1, <3>2, <3>3, <3>4
    <2>8. CopyFrame(r, "deleteExisting") /\ Running(r)
      BY <2>1, <2>2
    <2> QED  BY <2>7, <2>8, <1>0 DEF BeforeDoomed
  <1>6. ASSUME DeleteExistingData(r)  PROVE  (ReadIsCurrent /\ NoCopyLost)'
    <2>0. pc[r] = "deleteExisting" /\ ctx[r].src # ctx[r].dst
      BY <1>6 DEF DeleteExistingData, CopyCarries, LoneCopies
    <2>1. /\ CopyFrame(r, "ok") /\ ctx' = ctx
          /\ store'.slots = store.slots /\ store'.data = store.data \ {ctx[r].doomed}
      BY <1>6, <2>0, DeleteExistingDoes
    <2>2. pc'[r] = "ok" /\ Running(r)
      BY <2>0, <2>1 DEF CopyFrame, CopyTypes, Running
    <2>3. \A m \in CopyLocs : (OnItsWay(r, m) <=> m = ctx[r].doomed) /\ ~OnItsWay(r, m)'
      BY <2>0, <2>1, <2>2 DEF OnItsWay
    <2>4. \A m \in CopyLocs : InRecord(m)' = InRecord(m)
      BY <2>1 DEF InRecord
    <2>5. \A m \in CopyLocs : m = ctx[r].doomed => ~InRecord(m)
      BY <2>0 DEF Owned, HeldIsLeft, LeftAt, Unwritten, InRecord, MayDelete
    <2> QED  BY <2>1, <2>2, <2>3, <2>4, <2>5, <1>0 DEF BeforeDoomed
  <1>7. ASSUME DeleteSlot(r)  PROVE  (ReadIsCurrent /\ NoCopyLost)'
    <2>1. /\ CopyFrame(r, "deleteRecord") /\ pc[r] = "idle" /\ store' = store /\ Quiet
          /\ ctx'[r].loc = store.slots[ctx'[r].key][ctx'[r].slot]
      BY <1>7, DeleteSlotDoes DEF LoneCopies
    <2>2. pc'[r] = "deleteRecord"
      BY <2>1 DEF CopyFrame, CopyTypes
    <2>3. \A m \in CopyLocs : ~OnItsWay(r, m) /\ ~OnItsWay(r, m)'
      BY <2>1, <2>2 DEF OnItsWay
    <2>4. \A m \in CopyLocs : InRecord(m)' = InRecord(m)
      BY <2>1 DEF InRecord
    <2> QED  BY <2>1, <2>3, <2>4, <1>0 DEF BeforeDoomed
  <1>8. ASSUME DeleteSlotRecord(r)  PROVE  (ReadIsCurrent /\ NoCopyLost)'
    <2>1. /\ CopyFrame(r, "deleteBlob") /\ pc[r] = "deleteRecord" /\ ctx' = ctx
          /\ store'.data = store.data /\ ctx[r] \in SlotCtx
          /\ \A k \in CopyKeys, s \in Slots :
                store'.slots[k][s] = IF k = ctx[r].key /\ s = ctx[r].slot THEN None
                                     ELSE store.slots[k][s]
      BY <1>8, DeleteSlotRecordDoes
    <2>2. pc'[r] = "deleteBlob" /\ Running(r)
      BY <2>1 DEF CopyFrame, CopyTypes, Running
    <2>3. \A m \in CopyLocs : ~OnItsWay(r, m) /\ (OnItsWay(r, m)' <=> m = ctx[r].loc)
      BY <2>1, <2>2 DEF OnItsWay
    <2>4. /\ store.slots[ctx[r].key][ctx[r].slot] = ctx[r].loc
          /\ ctx[r].key \in CopyKeys /\ ctx[r].slot \in Slots
      BY <2>1 DEF ReadIsCurrent, SlotCtx
    <2>5. \A m \in CopyLocs : InRecord(m) <=> InRecord(m)' \/ m = ctx[r].loc
      BY <2>1, <2>4, <1>n DEF InRecord
    <2> QED  BY <2>1, <2>2, <2>3, <2>5, <1>0 DEF BeforeDoomed
  <1>9. ASSUME DeleteSlotData(r)  PROVE  (ReadIsCurrent /\ NoCopyLost)'
    <2>1. /\ CopyFrame(r, "ok") /\ pc[r] = "deleteBlob" /\ ctx' = ctx
          /\ store'.slots = store.slots /\ store'.data = store.data \ {ctx[r].loc}
      BY <1>9, DeleteSlotDataDoes
    <2>2. pc'[r] = "ok" /\ Running(r)
      BY <2>1 DEF CopyFrame, CopyTypes, Running
    <2>3. \A m \in CopyLocs : (OnItsWay(r, m) <=> m = ctx[r].loc) /\ ~OnItsWay(r, m)'
      BY <2>1, <2>2 DEF OnItsWay
    <2>4. \A m \in CopyLocs : InRecord(m)' = InRecord(m)
      BY <2>1 DEF InRecord
    <2>5. \A m \in CopyLocs : m = ctx[r].loc => ~InRecord(m)
      BY <2>1 DEF Owned, HeldIsLeft, LeftAt, Unwritten, InRecord, MayDelete, SlotCalls
    <2> QED  BY <2>1, <2>2, <2>3, <2>4, <2>5, <1>0 DEF BeforeDoomed
  <1>10. ~Die(r)
    BY DEF Die, LoneCopies
  <1> QED
    BY <1>1, <1>2, <1>3, <1>4, <1>5, <1>6, <1>7, <1>8, <1>9, <1>10 DEF CopyStep

\* The invariant of copies is inductive.
LEMMA CopySteps == CopyInv /\ [CopyNext]_vars => CopyInv'
  <1> SUFFICES ASSUME CopyInv, [CopyNext]_vars  PROVE  CopyInv'
    OBVIOUS
  <1>1. CASE CopyNext
    <2>1. PICK r \in Reqs : (CopyStep(r) \/ Die(r)) /\ scene' = scene
      BY <1>1 DEF CopyNext
    <2>2. CopyTypes' /\ CopyCarries' /\ NullOnly' /\ OneRuns'
      BY <2>1, CopyBaseKept DEF CopyInv
    <2>3. ASSUME Owning'  PROVE  (Owned /\ ReadIsCurrent /\ NoCopyLost)'
      <3>1. store'.status = store.status
        <4>1. \E l : CopyFrame(r, l)
          BY <2>1, CheckDestAuthDoes, CheckSourceDoes, GoGetDataDoes, PreprocessDoes,
             PutCopyDoes, DeleteExistingDoes, DeleteSlotDoes, DeleteSlotRecordDoes,
             DeleteSlotDataDoes, CopyDies DEF CopyInv, CopyStep
        <4> QED  BY <4>1 DEF CopyFrame
      <3>2. Owning
        BY <2>1, <2>3, <3>1 DEF Owning
      <3>3. Owned /\ ReadIsCurrent /\ NoCopyLost
        BY <3>2 DEF CopyInv, Owned
      <3>4. Owned'
        BY <2>1, <3>2, <3>3, OwnedSteps DEF CopyInv
      <3>5. CASE LoneCopies
        BY <2>1, <2>2, <3>3, <3>4, <3>5, LoneSteps DEF CopyInv
      <3>6. CASE ~LoneCopies
        BY <2>1, <3>4, <3>6 DEF LoneCopies, ReadIsCurrent, NoCopyLost
      <3> QED  BY <3>5, <3>6
    <2> QED  BY <2>2, <2>3 DEF CopyInv, Owned
  <1>2. CASE UNCHANGED vars
    BY <1>2 DEF vars, CopyInv, CopyTypes, CopyCarries, NullOnly, OneRuns, Owning, HeldIsLeft,
                FreshUntilWritten, CopyInHand, HoldsItsOwn, CopiesOwn, ReadIsCurrent, NoCopyLost,
                LoneCopies, MayDelete, LeftAt, TookOver, InRecord, OnItsWay, Running
  <1> QED  BY <1>1, <1>2

\* And says what the property does.
LEMMA CopyInvEnough == CopyInv /\ In("copy") => CopyDataStands
  <1> SUFFICES ASSUME CopyInv, In("copy")  PROVE  CopyDataStands
    OBVIOUS
  <1>1. CopyOwnsData
    <2> SUFFICES ASSUME Owning, NEW a \in CopyRecords
                 PROVE  /\ Loc(a) \in store.data
                        /\ \A b \in CopyRecords : a # b => Loc(a) # Loc(b)
      BY DEF CopyOwnsData
    <2>1. CopiesOwn
      BY DEF CopyInv
    <2>2. \A b \in CopyRecords : /\ b = <<b[1], b[2]>> /\ b[1] \in CopyKeys /\ b[2] \in Slots
                                 /\ store.slots[b[1]][b[2]] # None
      BY DEF CopyRecords
    <2> QED  BY <2>1, <2>2 DEF CopiesOwn, Loc
  <1>2. CopyLeavesNoData
    <2> SUFFICES ASSUME LoneCopies, Quiet
                 PROVE  store.data = {Loc(a) : a \in CopyRecords}
      BY DEF CopyLeavesNoData, LoneCopies
    <2>1. NoCopyLost /\ store.data \in SUBSET CopyLocs
      BY DEF CopyInv, Owning, LoneCopies, CopyTypes
    <2>2. \A r \in Reqs, m \in CopyLocs : ~OnItsWay(r, m)
      BY DEF Quiet, Running, OnItsWay
    <2>3. \A m \in CopyLocs : m \in store.data <=> InRecord(m)
      BY <2>1, <2>2 DEF NoCopyLost
    <2>4. \A m \in CopyLocs : InRecord(m) => \E a \in CopyRecords : m = Loc(a)
      <3> SUFFICES ASSUME NEW m \in CopyLocs, NEW k \in CopyKeys, NEW s \in Slots,
                          store.slots[k][s] = m
                   PROVE  \E a \in CopyRecords : m = Loc(a)
        BY DEF InRecord
      <3>1. <<k, s>> \in CopyRecords
        BY CopyAssumption DEF CopyRecords, CopyLocs
      <3> QED  BY <3>1 DEF Loc
    <2>5. \A a \in CopyRecords : Loc(a) \in CopyLocs /\ InRecord(Loc(a))
      BY DEF CopyInv, CopyTypes, CopyRecords, Loc, MaybeCopyLocs, InRecord
    <2> QED  BY <2>1, <2>3, <2>4, <2>5
  <1> QED  BY <1>1, <1>2 DEF CopyDataStands

\* Every key starts with data of its own.
LEMMA CopyInitially == CopyInit => CopyInv
  <1> SUFFICES ASSUME CopyInit  PROVE  CopyInv
    OBVIOUS
  <1>1. PICK status \in {"none", "Enabled", "Suspended"}, xs \in SUBSET {"null", "v1"},
             y \in BOOLEAN, cur \in {"null", "v1"} :
        /\ cur \in xs
        /\ status = "none" => xs = {"null"}
        /\ cur = "null" => status = "none" \/ status = "Suspended" \/ xs = {"null"}
        /\ store =
             [status |-> status,
              slots |-> [k \in CopyKeys |-> [s \in Slots |->
                  CASE k = "x" /\ s \in xs      -> IF s = "null" THEN "xnull" ELSE "xv1"
                    [] k = "y" /\ s = "null" /\ y -> "ynull"
                    [] OTHER                    -> None]],
              cur |-> [k \in CopyKeys |-> IF k = "x" THEN cur ELSE "null"],
              data |-> {IF s = "null" THEN "xnull" ELSE "xv1" : s \in xs}
                          \cup (IF y THEN {"ynull"} ELSE {})]
    BY DEF CopyInit
  <1>2. pc = [r \in Reqs |-> "idle"] /\ ctx = [r \in Reqs |-> None]
    BY DEF CopyInit
  <1>3. PICK sl, cu, da :
        /\ store = [status |-> status, slots |-> sl, cur |-> cu, data |-> da]
        /\ sl = [k \in CopyKeys |-> [s \in Slots |->
                  CASE k = "x" /\ s \in xs      -> IF s = "null" THEN "xnull" ELSE "xv1"
                    [] k = "y" /\ s = "null" /\ y -> "ynull"
                    [] OTHER                    -> None]]
        /\ cu = [k \in CopyKeys |-> IF k = "x" THEN cur ELSE "null"]
        /\ da = {IF s = "null" THEN "xnull" ELSE "xv1" : s \in xs}
                    \cup (IF y THEN {"ynull"} ELSE {})
    BY <1>1
  <1>4. store.status = status /\ store.slots = sl /\ store.cur = cu /\ store.data = da
    BY <1>3
  <1>n. None \notin CopyLocs /\ {"null", "v1"} \subseteq Slots
    BY CopyAssumption DEF CopyLocs, Slots
  <1>5. \A s \in Slots : /\ sl["x"][s] = IF s \in xs THEN IF s = "null" THEN "xnull" ELSE "xv1"
                                        ELSE None
                        /\ sl["y"][s] = IF s = "null" /\ y THEN "ynull" ELSE None
    BY <1>3 DEF CopyKeys
  <1>6. sl \in [CopyKeys -> [Slots -> MaybeCopyLocs]]
    <2>1. \A k \in CopyKeys, s \in Slots : sl[k][s] \in MaybeCopyLocs
      BY <1>5 DEF CopyKeys, MaybeCopyLocs, CopyLocs
    <2>2. sl = [k \in CopyKeys |-> [s \in Slots |-> sl[k][s]]]
      BY <1>3
    <2> QED  BY <2>1, <2>2
  <1>7. CopyTypes
    <2>1. cu \in [CopyKeys -> Slots]
      BY <1>3, <1>n
    <2>2. da \in SUBSET CopyLocs
      BY <1>3 DEF CopyLocs
    <2> QED  BY <1>2, <1>3, <1>4, <1>6, <2>1, <2>2 DEF CopyTypes, Unwritten
  <1>8. CopyCarries /\ OneRuns
    BY <1>2 DEF CopyCarries, OneRuns, Running, Unwritten, SlotCalls
  <1>9. NullOnly
    BY <1>1, <1>3, <1>4, <1>5 DEF NullOnly, CopyKeys
  <1>10. \A r \in Reqs : \A m : ~MayDelete(r, m) /\ ~OnItsWay(r, m)
    BY <1>2 DEF MayDelete, OnItsWay, BeforeDoomed, SlotCalls
  <1>11. HeldIsLeft /\ CopyInHand /\ ReadIsCurrent
    BY <1>2, <1>10 DEF HeldIsLeft, CopyInHand, HoldsItsOwn, ReadIsCurrent, BeforeDoomed
  <1>12. \A k \in CopyKeys, s \in Slots : sl[k][s] # None =>
            \/ k = "x" /\ s = "null" /\ s \in xs /\ sl[k][s] = "xnull"
            \/ k = "x" /\ s = "v1" /\ s \in xs /\ sl[k][s] = "xv1"
            \/ k = "y" /\ s = "null" /\ y /\ sl[k][s] = "ynull"
    BY <1>5 DEF CopyKeys
  <1>13. FreshUntilWritten
    <2>1. \A r \in Reqs : ~InRecord(r)
      BY <1>4, <1>12, CopyAssumption DEF InRecord
    <2>2. \A r \in Reqs : r \in Slots /\ r \notin {"null", "v1"}
      BY CopyAssumption DEF Slots
    <2>3. \A r \in Reqs, k \in CopyKeys : sl[k][r] = None
      BY <1>12, <2>2
    <2> QED  BY <1>4, <1>10, <2>1, <2>3 DEF FreshUntilWritten
  <1>14. CopiesOwn
    BY <1>3, <1>4, <1>12, <1>n DEF CopiesOwn
  <1>15. NoCopyLost
    <2>1. \A m \in CopyLocs : m \in da <=> \/ m = "xnull" /\ "null" \in xs
                                           \/ m = "xv1" /\ "v1" \in xs
                                           \/ m = "ynull" /\ y
      BY <1>3
    <2>2. \A m \in CopyLocs : InRecord(m) <=> \/ m = "xnull" /\ "null" \in xs
                                              \/ m = "xv1" /\ "v1" \in xs
                                              \/ m = "ynull" /\ y
      BY <1>4, <1>5, <1>12, <1>n DEF InRecord, CopyKeys
    <2> QED  BY <1>4, <1>10, <2>1, <2>2 DEF NoCopyLost
  <1> QED  BY <1>7, <1>8, <1>9, <1>11, <1>13, <1>14, <1>15 DEF CopyInv

-----------------------------------------------------------------------------
(* Restorations *)

\* A record is of a version that is cold, or restored until a date.
ColdVersion(v) ==
    /\ v \in ColdRecord
    /\ v.shown = v.willExpireAt
    /\ IsRestored(v) <=> v.willExpireAt # None
    /\ IsRestored(v) <=> ~IsCold(v)
    /\ v.requestedAt # None <=> v.days # None
    /\ IsRestored(v) => v.requestedAt # None

Restoring == {"storeRestored", "putRestored"}
ColdCalls == Restoring \cup {"idle", "putRestoreInfo", "readRestored", "deleteArchivedData",
                             "ok", "failed"}

ColdTypes ==
    /\ store = [version |-> store.version, data |-> store.data, clock |-> store.clock,
                day |-> store.day]
    /\ store.version # None => ColdVersion(store.version)
    /\ store.data \in SUBSET (Reqs \cup {Cold})
    /\ store.clock \in Nat /\ store.day \in 1..UnscaledDay
    /\ pc \in [Reqs -> ColdCalls]
    /\ ctx = [r \in Reqs |-> ctx[r]]

\* What requests carry: a version that was asked for, the one they read, or what
\* they took away.
ColdCarries ==
    \A r \in Reqs :
        /\ pc[r] \in Restoring \cup {"putRestoreInfo", "readRestored", "deleteArchivedData"} =>
             ColdVersion(ctx[r].record)
        /\ pc[r] \in Restoring => /\ ctx[r].record.requestedAt # None
                                  /\ IsCold(ctx[r].record)
        /\ pc[r] = "putRestoreInfo" => ctx[r].record.requestedAt # None
        /\ pc[r] = "readRestored" => ctx[r].op = "objectGet"

OneRestores == scene.sequential => \A q, r \in Reqs : Running(q) /\ Running(r) => q = r

KeptAway == scene.ops \cap {"expire", "objectDelete"} = {}

\* Data stays as long as a version, or a record that is to be written, names it.
RestoredStays ==
    scene.sequential \/ KeptAway =>
        /\ KeptAway => store.version # None
        /\ store.version # None => {Cold} \cup store.version.locs \subseteq store.data
        /\ \A r \in Reqs :
            /\ pc[r] \in Restoring \cup {"putRestoreInfo"} => store.version # None
            /\ pc[r] = "putRestoreInfo" => ctx[r].record.locs \subseteq store.data
            /\ pc[r] = "putRestored" => r \in store.data
            /\ pc[r] = "deleteArchivedData" => store.version = None

\* A lone request writes back what is there.
WrittenBack ==
    scene.sequential => \A r \in Reqs :
        /\ pc[r] = "putRestoreInfo" => ctx[r].record.locs = store.version.locs
        /\ pc[r] \in Restoring => IsCold(store.version)

\* Data that no record names is on its way to one, or away.
NoneForgotten ==
    scene.sequential /\ ~scene.deaths => \A l \in store.data \ {Cold} :
        \/ store.version # None /\ l \in store.version.locs
        \/ \E r \in Reqs : pc[r] = "putRestored" /\ l = r
        \/ \E r \in Reqs : pc[r] = "deleteArchivedData" /\ l \in ctx[r].record.locs

\* Once it was asked for, the version is asked for.
RequestKept ==
    KeptAway => \A r \in Reqs :
        Answered(r) /\ ctx[r].op = "restoreObject" => store.version.requestedAt # None

ColdInv == /\ ColdTypes /\ ColdCarries /\ OneRestores
           /\ RestoredStays /\ WrittenBack /\ NoneForgotten /\ RequestKept

-----------------------------------------------------------------------------
(* What is written to the record *)

\* objectRestore's record is of the same data, and was asked for.
LEMMA AskedVersion ==
    ASSUME ColdTypes, NEW v, ColdVersion(v), NEW days \in DaysAsked, ValidateStartRestore(v),
           NEW n, n = IF IsRestored(v) THEN UpdateObjectExpirationDate(v, days)
                                       ELSE UpdateRestoreInfo(v, days)
    PROVE  ColdVersion(n) /\ n.requestedAt # None /\ n.locs = v.locs
  <1>1. PICK a \in ColdPlaces, q \in MaybeTime, d \in DaysAsked \cup {None}, c \in MaybeTime,
             w \in MaybeTime, s \in MaybeTime :
            v = [locs |-> a, requestedAt |-> q, days |-> d, completedAt |-> c,
                 willExpireAt |-> w, shown |-> s]
    BY DEF ColdVersion, ColdRecord
  <1>2. /\ v.locs = a /\ v.requestedAt = q /\ v.days = d /\ v.completedAt = c
        /\ v.willExpireAt = w /\ v.shown = s
    BY <1>1
  <1>3. PICK t \in Nat : t = clock
    BY DEF ColdTypes, clock
  <1>4. PICK e \in Nat : e = t + days * UnscaledDay
    BY <1>3 DEF DaysAsked, UnscaledDay
  <1>5. None # days /\ None # t /\ None # e
    BY ColdAssumption DEF DaysAsked
  <1>6. CASE IsRestored(v)
    <2>1. n = [locs |-> a, requestedAt |-> t, days |-> days, completedAt |-> c,
               willExpireAt |-> e, shown |-> e]
      BY <1>1, <1>3, <1>4, <1>6 DEF UpdateObjectExpirationDate
    <2> QED
      BY <1>2, <1>5, <1>6, <2>1 DEF ColdVersion, ColdRecord, IsRestored, IsCold, MaybeTime
  <1>7. CASE ~IsRestored(v)
    <2>1. n = [locs |-> a, requestedAt |-> t, days |-> days, completedAt |-> c,
               willExpireAt |-> w, shown |-> s]
      BY <1>1, <1>3, <1>7 DEF UpdateRestoreInfo
    <2> QED
      BY <1>2, <1>5, <1>7, <2>1 DEF ColdVersion, ColdRecord, IsRestored, IsCold, MaybeTime
  <1> QED  BY <1>6, <1>7

\* overwritingVersioning's record is of a restored version.
LEMMA RestoredVersion ==
    ASSUME ColdTypes, NEW r \in Reqs, NEW v, ColdVersion(v), v.requestedAt # None,
           NEW n, n = OverwritingVersioning(r, v)
    PROVE  ColdVersion(n) /\ n.requestedAt # None /\ n.locs = {r}
  <1>1. /\ v.requestedAt \in MaybeTime /\ v.days \in DaysAsked
    BY DEF ColdVersion, ColdRecord
  <1>2. PICK t \in Nat, d \in 1..UnscaledDay : t = clock /\ d = store.day
    BY DEF ColdTypes, clock
  <1>3. PICK e \in Nat : e = t + v.days * d
    BY <1>1, <1>2 DEF DaysAsked, UnscaledDay
  <1>4. n = [locs |-> {r}, requestedAt |-> v.requestedAt, days |-> v.days,
             completedAt |-> t, willExpireAt |-> e, shown |-> e]
    BY <1>2, <1>3 DEF OverwritingVersioning
  <1>5. None # v.days /\ None # t /\ None # e /\ {r} # {Cold}
    BY <1>1, ColdAssumption DEF DaysAsked
  <1> QED
    BY <1>1, <1>4, <1>5 DEF ColdVersion, ColdRecord, ColdPlaces, IsRestored, IsCold, MaybeTime

\* The lifecycle service's record is of a cold one.
LEMMA ArchivedVersion == ColdVersion(Archived) /\ Archived.locs = {Cold}
  BY DEF ColdVersion, ColdRecord, ColdPlaces, IsRestored, IsCold, MaybeTime, Archived

-----------------------------------------------------------------------------
(* What each call does *)

ColdFrame(r, l) ==
    /\ ColdTypes'
    /\ pc' = [pc EXCEPT ![r] = l]
    /\ UNCHANGED scene
    /\ \A q \in Reqs \ {r} : ctx'[q] = ctx[q]
    /\ Running(r) \/ (scene.sequential => Quiet)

\* A write of the record, of the data.
LEMMA ColdStoreWritten ==
    ASSUME ColdTypes, NEW v, NEW D
    PROVE  /\ [store EXCEPT !.version = v] = [version |-> v, data |-> store.data,
                                             clock |-> store.clock, day |-> store.day]
           /\ [store EXCEPT !.data = D] = [version |-> store.version, data |-> D,
                                          clock |-> store.clock, day |-> store.day]
           /\ [store EXCEPT !.version = v, !.data = D] =
                [version |-> v, data |-> D, clock |-> store.clock, day |-> store.day]
  <1>1. PICK a, b, c, d : store = [version |-> a, data |-> b, clock |-> c, day |-> d]
    BY DEF ColdTypes
  <1>2. a = store.version /\ b = store.data /\ c = store.clock /\ d = store.day
    BY <1>1
  <1> DEFINE half == [version |-> v, data |-> b, clock |-> c, day |-> d]
  <1>3. [store EXCEPT !.version = v] = half
    BY <1>1
  <1>4. [store EXCEPT !.data = D] = [version |-> a, data |-> D, clock |-> c, day |-> d]
    BY <1>1
  <1>5. [half EXCEPT !.data = D] = [version |-> v, data |-> D, clock |-> c, day |-> d]
    OBVIOUS
  <1>6. [store EXCEPT !.version = v, !.data = D] = [half EXCEPT !.data = D]
    <2> HIDE DEF half
    <2> QED  BY <1>3
  <1> QED  BY <1>2, <1>3, <1>4, <1>5, <1>6

\* What a frame needs: the new store is one, and the call a call.
LEMMA ColdFramed ==
    ASSUME ColdTypes, NEW r \in Reqs, NEW l \in ColdCalls,
           NEW v, NEW D \in SUBSET (Reqs \cup {Cold}), v # None => ColdVersion(v),
           store' = [version |-> v, data |-> D, clock |-> store.clock, day |-> store.day],
           pc' = [pc EXCEPT ![r] = l], UNCHANGED scene,
           ctx' = ctx \/ \E c : ctx' = [ctx EXCEPT ![r] = c],
           Running(r) \/ (scene.sequential => Quiet)
    PROVE  ColdFrame(r, l) /\ store'.version = v /\ store'.data = D
  <1>1. store'.version = v /\ store'.data = D /\ store'.clock = store.clock
        /\ store'.day = store.day
    OBVIOUS
  <1>2. ctx' = [q \in Reqs |-> ctx'[q]] /\ \A q \in Reqs \ {r} : ctx'[q] = ctx[q]
    BY DEF ColdTypes
  <1>3. pc' \in [Reqs -> ColdCalls]
    BY DEF ColdTypes
  <1>4. (ColdVersion(v) => ColdVersion(store'.version))
    BY <1>1
  <1>5. ColdTypes'
    BY <1>1, <1>2, <1>3 DEF ColdTypes, ColdVersion, IsRestored, IsCold
  <1> QED  BY <1>1, <1>2, <1>5 DEF ColdFrame

\* Data may go only when requests wait for one another, or are free to remove it.
Guarding == scene.sequential \/ KeptAway

\* Request r's part in the invariant after its step, and what it leaves to others.
ColdChange(r, l) ==
    /\ ColdFrame(r, l)
    /\ l \in Restoring \cup {"putRestoreInfo", "readRestored", "deleteArchivedData"} =>
         ColdVersion(ctx'[r].record)
    /\ l \in Restoring => ctx'[r].record.requestedAt # None /\ IsCold(ctx'[r].record)
    /\ l = "putRestoreInfo" => ctx'[r].record.requestedAt # None
    /\ l = "readRestored" => ctx'[r].op = "objectGet"
    /\ KeptAway => store'.version # None /\ store.data \subseteq store'.data
    /\ Guarding =>
         /\ store'.version # None => {Cold} \cup store'.version.locs \subseteq store'.data
         /\ l \in Restoring \cup {"putRestoreInfo"} => store'.version # None
         /\ l = "putRestoreInfo" => ctx'[r].record.locs \subseteq store'.data
         /\ l = "putRestored" => r \in store'.data
         /\ l = "deleteArchivedData" => store'.version = None
    /\ scene.sequential =>
         /\ l = "putRestoreInfo" => ctx'[r].record.locs = store'.version.locs
         /\ l \in Restoring => IsCold(store'.version)
    /\ scene.sequential /\ ~scene.deaths => \A m \in store'.data \ {Cold} :
         \/ store'.version # None /\ m \in store'.version.locs
         \/ l = "putRestored" /\ m = r
         \/ l = "deleteArchivedData" /\ m \in ctx'[r].record.locs
    /\ KeptAway =>
         /\ store.version.requestedAt # None => store'.version.requestedAt # None
         /\ l = "ok" /\ ctx'[r].op = "restoreObject" => store'.version.requestedAt # None

\* What ColdChange says of one request is enough for all.
LEMMA ColdKept ==
    ASSUME ColdInv, NEW r \in Reqs, NEW l, ColdChange(r, l)
    PROVE  ColdInv'
  <1>1. \A q \in Reqs \ {r} : pc'[q] = pc[q] /\ ctx'[q] = ctx[q]
    BY DEF ColdChange, ColdFrame, ColdInv, ColdTypes
  <1>2. pc'[r] = l /\ scene' = scene /\ ColdTypes'
    BY DEF ColdChange, ColdFrame, ColdInv, ColdTypes
  <1>3. scene.sequential => \A q \in Reqs \ {r} : ~Running(q)
    BY DEF ColdChange, ColdFrame, ColdInv, OneRestores, Quiet
  <1>4. \A q \in Reqs \ {r} : ~Running(q) => pc'[q] \in {"idle", "ok", "failed"}
    BY <1>1 DEF Running
  <1>5. ColdCarries'
    BY <1>1, <1>2 DEF ColdChange, ColdInv, ColdCarries, ColdVersion, IsRestored, IsCold
  <1>6. OneRestores'
    BY <1>1, <1>2, <1>3 DEF OneRestores, Running
  <1>7. RestoredStays'
    <2> SUFFICES ASSUME Guarding  PROVE  RestoredStays'
      BY <1>2 DEF RestoredStays, Guarding, KeptAway
    <2>1. ASSUME NEW q \in Reqs
          PROVE  /\ pc'[q] \in Restoring \cup {"putRestoreInfo"} => store'.version # None
                 /\ pc'[q] = "putRestoreInfo" => ctx'[q].record.locs \subseteq store'.data
                 /\ pc'[q] = "putRestored" => q \in store'.data
                 /\ pc'[q] = "deleteArchivedData" => store'.version = None
      <3>1. CASE q = r
        BY <3>1, <1>2 DEF ColdChange
      <3>2. CASE q # r /\ scene.sequential
        BY <3>2, <1>3, <1>4 DEF Restoring
      <3>3. CASE q # r /\ ~scene.sequential
        <4>1. KeptAway /\ store.version # None /\ store'.version # None
              /\ store.data \subseteq store'.data
          BY <3>3 DEF Guarding, ColdChange, ColdInv, RestoredStays
        <4> QED  BY <3>3, <4>1, <1>1 DEF ColdInv, RestoredStays
      <3> QED  BY <3>1, <3>2, <3>3
    <2> QED  BY <1>2, <2>1 DEF RestoredStays, ColdChange, KeptAway, Guarding
  <1>8. WrittenBack'
    BY <1>2, <1>3, <1>4 DEF WrittenBack, ColdChange, Restoring, IsCold
  <1>9. NoneForgotten'
    <2> SUFFICES ASSUME scene.sequential, ~scene.deaths, NEW m \in store'.data \ {Cold}
                 PROVE  \/ store'.version # None /\ m \in store'.version.locs
                        \/ \E q \in Reqs : pc'[q] = "putRestored" /\ m = q
                        \/ \E q \in Reqs : /\ pc'[q] = "deleteArchivedData"
                                           /\ m \in ctx'[q].record.locs
      BY <1>2 DEF NoneForgotten
    <2> QED  BY <1>2 DEF ColdChange
  <1>10. RequestKept'
    <2> SUFFICES ASSUME KeptAway, NEW q \in Reqs, pc'[q] = "ok", ctx'[q].op = "restoreObject"
                 PROVE  store'.version.requestedAt # None
      BY <1>2 DEF RequestKept, KeptAway, Answered
    <2> QED  BY <1>1, <1>2 DEF ColdChange, ColdInv, RequestKept, Answered
  <1> QED  BY <1>2, <1>5, <1>6, <1>7, <1>8, <1>9, <1>10 DEF ColdInv

\* What is on its way when requests wait for one another is r's.
LEMMA LoneRestore ==
    ASSUME ColdInv, NEW r \in Reqs, Running(r) \/ (scene.sequential => Quiet),
           scene.sequential
    PROVE  ~scene.deaths => \A m \in store.data \ {Cold} :
             \/ store.version # None /\ m \in store.version.locs
             \/ pc[r] = "putRestored" /\ m = r
             \/ pc[r] = "deleteArchivedData" /\ m \in ctx[r].record.locs
  <1>1. \A q \in Reqs \ {r} : pc[q] \notin {"putRestored", "deleteArchivedData"}
    BY DEF ColdInv, OneRestores, Quiet, Running
  <1> QED  BY <1>1 DEF ColdInv, NoneForgotten

\* A request that goes on with the store as it is.
LEMMA ColdStill ==
    ASSUME ColdInv, NEW r \in Reqs, NEW l \in ColdCalls,
           store' = store, pc' = [pc EXCEPT ![r] = l], UNCHANGED scene,
           ctx' = ctx \/ \E c : ctx' = [ctx EXCEPT ![r] = c],
           Running(r) \/ (scene.sequential => Quiet)
    PROVE  /\ ColdFrame(r, l)
           /\ KeptAway => store'.version # None /\ store.data \subseteq store'.data
           /\ Guarding /\ store'.version # None =>
                {Cold} \cup store'.version.locs \subseteq store'.data
           /\ scene.sequential /\ ~scene.deaths => \A m \in store'.data \ {Cold} :
                \/ store'.version # None /\ m \in store'.version.locs
                \/ pc[r] = "putRestored" /\ m = r
                \/ pc[r] = "deleteArchivedData" /\ m \in ctx[r].record.locs
           /\ store.version.requestedAt # None => store'.version.requestedAt # None
  <1>0. PICK v : v = store.version
    OBVIOUS
  <1>1. PICK D \in SUBSET (Reqs \cup {Cold}) : D = store.data
    BY DEF ColdInv, ColdTypes
  <1>2. store' = [version |-> v, data |-> D, clock |-> store.clock, day |-> store.day]
        /\ (v # None => ColdVersion(v)) /\ ColdTypes
    BY <1>0, <1>1 DEF ColdInv, ColdTypes
  <1>3. ColdFrame(r, l)
    BY <1>2, ColdFramed
  <1>4. RestoredStays
    BY DEF ColdInv
  <1>5. /\ KeptAway => store.version # None
        /\ Guarding /\ store.version # None => {Cold} \cup store.version.locs \subseteq store.data
    BY <1>4 DEF Guarding, RestoredStays
  <1>6. scene.sequential => (~scene.deaths => \A m \in store.data \ {Cold} :
                \/ store.version # None /\ m \in store.version.locs
                \/ pc[r] = "putRestored" /\ m = r
                \/ pc[r] = "deleteArchivedData" /\ m \in ctx[r].record.locs)
    BY LoneRestore
  <1> QED  BY <1>3, <1>5, <1>6

\* A restoration that is asked for carries the version it read.
LEMMA ObjectRestoreChanges ==
    ASSUME ColdInv, NEW r \in Reqs, ObjectRestore(r), UNCHANGED scene
    PROVE  \E l : ColdChange(r, l)
  <1>0. pc[r] = "idle" /\ (scene.sequential => Quiet)
    BY DEF ObjectRestore, Sent
  <1>1. CASE Refuse(r)
    <2>1. /\ store' = store /\ pc' = [pc EXCEPT ![r] = "failed"] /\ ctx' = ctx
      BY <1>1 DEF Refuse, Goto
    <2> QED  BY <1>0, <2>1, ColdStill DEF ColdChange, Restoring, ColdCalls
  <1>2. CASE ~Refuse(r)
    <2>1. PICK days \in DaysAsked :
            /\ store.version # None /\ ValidateStartRestore(store.version)
            /\ Carry(r, [op |-> "restoreObject", read |-> store.version, record |->
                       IF IsRestored(store.version)
                       THEN UpdateObjectExpirationDate(store.version, days)
                       ELSE UpdateRestoreInfo(store.version, days)])
            /\ Goto(r, "putRestoreInfo")
            /\ UNCHANGED store
      BY <1>2 DEF ObjectRestore
    <2>2. PICK n : n = IF IsRestored(store.version)
                       THEN UpdateObjectExpirationDate(store.version, days)
                       ELSE UpdateRestoreInfo(store.version, days)
      OBVIOUS
    <2>3. ColdVersion(n) /\ n.requestedAt # None /\ n.locs = store.version.locs
      BY <2>1, <2>2, AskedVersion DEF ColdInv, ColdTypes
    <2>4. /\ ctx' = [ctx EXCEPT ![r] = [op |-> "restoreObject", read |-> store.version,
                                       record |-> n]]
          /\ pc' = [pc EXCEPT ![r] = "putRestoreInfo"] /\ store' = store
      BY <2>1, <2>2 DEF Carry, Goto
    <2>5. ctx'[r].record = n
      BY <2>4 DEF ColdInv, ColdTypes
    <2>6. \E c : ctx' = [ctx EXCEPT ![r] = c]
      BY <2>4
    <2>7. ColdFrame(r, "putRestoreInfo")
      BY <1>0, <2>4, <2>6, ColdStill DEF ColdCalls
    <2> QED
      BY <1>0, <2>1, <2>3, <2>4, <2>5, <2>6, <2>7, ColdStill DEF ColdChange, Restoring, ColdCalls
  <1> QED  BY <1>1, <1>2

\* The record is written back: a lone request writes what is there.
LEMMA PutRestoreInfoChanges ==
    ASSUME ColdInv, NEW r \in Reqs, PutRestoreInfo(r), UNCHANGED scene
    PROVE  ColdChange(r, "ok")
  <1>0. pc[r] = "putRestoreInfo" /\ Running(r)
    BY DEF PutRestoreInfo, Running
  <1>1. /\ store' = [store EXCEPT !.version = ctx[r].record]
        /\ pc' = [pc EXCEPT ![r] = "ok"] /\ ctx' = ctx
    BY DEF PutRestoreInfo, Goto
  <1>2. PICK v : v = ctx[r].record
    OBVIOUS
  <1>3. ColdVersion(v) /\ v.requestedAt # None
    BY <1>0, <1>2 DEF ColdInv, ColdCarries
  <1>4. PICK D \in SUBSET (Reqs \cup {Cold}) : D = store.data
    BY DEF ColdInv, ColdTypes
  <1>5. store' = [version |-> v, data |-> D, clock |-> store.clock, day |-> store.day]
    BY <1>1, <1>2, <1>4, ColdStoreWritten DEF ColdInv
  <1>6. ColdFrame(r, "ok") /\ store'.version = v /\ store'.data = D
    BY <1>0, <1>1, <1>3, <1>5, ColdFramed DEF ColdInv, ColdCalls
  <1>7. /\ Guarding => store.version # None /\ v.locs \subseteq store.data
        /\ KeptAway => store.version # None
    BY <1>0, <1>2 DEF ColdInv, RestoredStays, Guarding
  <1>8. v # None
    BY <1>3, ColdAssumption DEF ColdVersion
  <1>9. scene.sequential => v.locs = store.version.locs /\ store.version # None
    BY <1>0, <1>2, <1>7 DEF ColdInv, WrittenBack, Guarding
  <1>10. Guarding => {Cold} \cup v.locs \subseteq store'.data
    BY <1>4, <1>6, <1>7 DEF ColdInv, RestoredStays, Guarding
  <1>11. scene.sequential => (~scene.deaths => \A m \in store'.data \ {Cold} : m \in v.locs)
    BY <1>0, <1>4, <1>6, <1>9, LoneRestore
  <1> QED
    BY <1>3, <1>4, <1>6, <1>7, <1>8, <1>10, <1>11 DEF ColdChange, Restoring

\* A refusal, a death, a read or a HEAD leave the store as it is.
LEMMA ColdReadsChange ==
    ASSUME ColdInv, NEW r \in Reqs, UNCHANGED scene,
           GetRestored(r) \/ ReadRestored(r) \/ HeadRestore(r) \/ PutVersion(r) \/ Die(r)
    PROVE  \E l : ColdChange(r, l)
  <1>1. ASSUME Refuse(r), pc[r] = "idle", scene.sequential => Quiet
        PROVE  ColdChange(r, "failed")
    <2>1. store' = store /\ pc' = [pc EXCEPT ![r] = "failed"] /\ ctx' = ctx
      BY <1>1 DEF Refuse, Goto
    <2> QED  BY <1>1, <2>1, ColdStill DEF ColdChange, Restoring, ColdCalls
  <1>2. ASSUME NEW l \in {"readRestored", "storeRestored"}, NEW op,
               pc[r] = "idle", scene.sequential => Quiet, store.version # None,
               pc' = [pc EXCEPT ![r] = l], store' = store,
               ctx' = [ctx EXCEPT ![r] = [op |-> op, record |-> store.version]],
               l = "readRestored" => op = "objectGet",
               l = "storeRestored" => /\ store.version.requestedAt # None
                                      /\ IsCold(store.version)
        PROVE  ColdChange(r, l)
    <2>1. ctx'[r].record = store.version /\ ctx'[r].op = op
      BY <1>2 DEF ColdInv, ColdTypes
    <2>2. ColdVersion(store.version)
      BY <1>2 DEF ColdInv, ColdTypes
    <2>3. \E c : ctx' = [ctx EXCEPT ![r] = c]
      BY <1>2
    <2>4. l \in ColdCalls
      BY DEF ColdCalls, Restoring
    <2>5. ColdFrame(r, l)
      BY <1>2, <2>3, <2>4, ColdStill
    <2> QED  BY <1>2, <2>1, <2>2, <2>3, <2>4, <2>5, ColdStill DEF ColdChange, Restoring
  <1>3. CASE GetRestored(r)
    <2>1. pc[r] = "idle" /\ (scene.sequential => Quiet)
      BY <1>3 DEF GetRestored, Sent
    <2>2. CASE Refuse(r)
      BY <1>1, <2>1, <2>2
    <2>3. CASE ~Refuse(r)
      <3>1. /\ store.version # None
            /\ pc' = [pc EXCEPT ![r] = "readRestored"] /\ store' = store
            /\ ctx' = [ctx EXCEPT ![r] = [op |-> "objectGet", record |-> store.version]]
        BY <1>3, <2>3 DEF GetRestored, Available, Carry, Goto
      <3> QED  BY <1>2, <2>1, <3>1
    <2> QED  BY <2>2, <2>3
  <1>4. CASE ReadRestored(r)
    <2>1. /\ pc[r] = "readRestored" /\ Running(r) /\ store' = store /\ ctx' = ctx
          /\ ctx[r].op = "objectGet"
      BY <1>4 DEF ReadRestored, Running, ColdInv, ColdCarries
    <2>2. PICK l \in {"ok", "failed"} : pc' = [pc EXCEPT ![r] = l]
      BY <1>4 DEF ReadRestored, Goto
    <2> QED  BY <2>1, <2>2, ColdStill DEF ColdChange, Restoring, ColdCalls
  <1>5. CASE HeadRestore(r)
    <2>1. /\ pc[r] = "idle" /\ (scene.sequential => Quiet) /\ store' = store
          /\ pc' = [pc EXCEPT ![r] = "ok"]
      BY <1>5 DEF HeadRestore, Sent, Goto
    <2>2. PICK b, u : ctx' = [ctx EXCEPT ![r] = [op |-> "objectHead", ongoing |-> b, until |-> u]]
      BY <1>5 DEF HeadRestore, Carry
    <2>3. ctx'[r].op = "objectHead"
      BY <2>2 DEF ColdInv, ColdTypes
    <2>4. \E c : ctx' = [ctx EXCEPT ![r] = c]
      BY <2>2
    <2> QED  BY <2>1, <2>3, <2>4, ColdStill DEF ColdChange, Restoring, ColdCalls
  <1>6. CASE PutVersion(r)
    <2>1. pc[r] = "idle" /\ (scene.sequential => Quiet)
      BY <1>6 DEF PutVersion, Sent
    <2>2. CASE Refuse(r)
      BY <1>1, <2>1, <2>2
    <2>3. CASE ~Refuse(r)
      <3>1. /\ store.version # None /\ store.version.requestedAt # None /\ IsCold(store.version)
            /\ pc' = [pc EXCEPT ![r] = "storeRestored"] /\ store' = store
            /\ ctx' = [ctx EXCEPT ![r] = [op |-> "putVersion", record |-> store.version]]
        BY <1>6, <2>3 DEF PutVersion, ValidatePutVersionId, Carry, Goto
      <3> QED  BY <1>2, <2>1, <3>1
    <2> QED  BY <2>2, <2>3
  <1>7. CASE Die(r)
    <2>1. /\ Running(r) /\ scene.deaths /\ store' = store /\ ctx' = ctx
          /\ pc' = [pc EXCEPT ![r] = "failed"]
      BY <1>7 DEF Die, Goto
    <2> QED  BY <2>1, ColdStill DEF ColdChange, Restoring, ColdCalls
  <1> QED  BY <1>3, <1>4, <1>5, <1>6, <1>7

\* Restored data is stored before a record names it.
LEMMA StoreRestoredChanges ==
    ASSUME ColdInv, NEW r \in Reqs, StoreRestored(r), UNCHANGED scene
    PROVE  ColdChange(r, "putRestored")
  <1>0. pc[r] = "storeRestored" /\ Running(r)
    BY DEF StoreRestored, Running
  <1>1. /\ store' = [store EXCEPT !.data = store.data \cup {r}]
        /\ pc' = [pc EXCEPT ![r] = "putRestored"] /\ ctx' = ctx
    BY DEF StoreRestored, Goto
  <1>2. PICK v : v = store.version
    OBVIOUS
  <1>3. v # None => ColdVersion(v)
    BY <1>2 DEF ColdInv, ColdTypes
  <1>4. PICK D \in SUBSET (Reqs \cup {Cold}) : D = store.data \cup {r}
    BY DEF ColdInv, ColdTypes
  <1>5. store' = [version |-> v, data |-> D, clock |-> store.clock, day |-> store.day]
    BY <1>1, <1>2, <1>4, ColdStoreWritten DEF ColdInv
  <1>6. ColdFrame(r, "putRestored") /\ store'.version = v /\ store'.data = D
    BY <1>0, <1>1, <1>3, <1>5, ColdFramed DEF ColdInv, ColdCalls, Restoring
  <1>7. /\ Guarding => store.version # None /\ {Cold} \cup store.version.locs \subseteq store.data
        /\ KeptAway => store.version # None
    BY <1>0 DEF ColdInv, RestoredStays, Guarding, Restoring
  <1>8. ColdVersion(ctx[r].record) /\ ctx[r].record.requestedAt # None /\ IsCold(ctx[r].record)
    BY <1>0 DEF ColdInv, ColdCarries, Restoring
  <1>9. scene.sequential => IsCold(store.version)
    BY <1>0 DEF ColdInv, WrittenBack, Restoring
  <1>10. scene.sequential => (~scene.deaths => \A m \in store.data \ {Cold} :
             store.version # None /\ m \in store.version.locs)
    BY <1>0, LoneRestore
  <1> QED
    BY <1>1, <1>2, <1>4, <1>6, <1>7, <1>8, <1>9, <1>10 DEF ColdChange, Restoring

\* Now the record names it.
LEMMA PutRestoredChanges ==
    ASSUME ColdInv, NEW r \in Reqs, PutRestored(r), UNCHANGED scene
    PROVE  ColdChange(r, "ok")
  <1>0. pc[r] = "putRestored" /\ Running(r)
    BY DEF PutRestored, Running
  <1>1. PICK v : v = OverwritingVersioning(r, ctx[r].record)
    OBVIOUS
  <1>2. /\ store' = [store EXCEPT !.version = v]
        /\ pc' = [pc EXCEPT ![r] = "ok"] /\ ctx' = ctx
    BY <1>1 DEF PutRestored, Goto
  <1>3. ColdVersion(v) /\ v.requestedAt # None /\ v.locs = {r}
    BY <1>0, <1>1, RestoredVersion DEF ColdInv, ColdCarries, Restoring
  <1>4. PICK D \in SUBSET (Reqs \cup {Cold}) : D = store.data
    BY DEF ColdInv, ColdTypes
  <1>5. store' = [version |-> v, data |-> D, clock |-> store.clock, day |-> store.day]
    BY <1>2, <1>4, ColdStoreWritten DEF ColdInv
  <1>6. ColdFrame(r, "ok") /\ store'.version = v /\ store'.data = D
    BY <1>0, <1>2, <1>3, <1>5, ColdFramed DEF ColdInv, ColdCalls
  <1>7. Guarding => Cold \in store.data /\ r \in store.data
    BY <1>0 DEF ColdInv, RestoredStays, Guarding, Restoring
  <1>8. v # None
    BY <1>3, ColdAssumption DEF ColdVersion
  <1>9. scene.sequential => store.version.locs = {Cold}
    BY <1>0 DEF ColdInv, WrittenBack, Restoring, IsCold
  <1>10. scene.sequential => (~scene.deaths => \A m \in store.data \ {Cold} : m = r)
    BY <1>0, <1>9, LoneRestore
  <1> QED
    BY <1>3, <1>4, <1>6, <1>7, <1>8, <1>10 DEF ColdChange, Restoring

\* The record goes, with its data still there.
LEMMA DeleteArchivedChanges ==
    ASSUME ColdInv, NEW r \in Reqs, DeleteArchived(r), UNCHANGED scene
    PROVE  ColdChange(r, "deleteArchivedData")
  <1>0. /\ pc[r] = "idle" /\ (scene.sequential => Quiet) /\ ~KeptAway /\ store.version # None
    BY DEF DeleteArchived, Sent, KeptAway
  <1>1. /\ store' = [store EXCEPT !.version = None]
        /\ pc' = [pc EXCEPT ![r] = "deleteArchivedData"]
        /\ ctx' = [ctx EXCEPT ![r] = [op |-> "objectDelete", record |-> store.version]]
    BY DEF DeleteArchived, Goto, Carry
  <1>2. PICK v : v = None
    OBVIOUS
  <1>4. PICK D \in SUBSET (Reqs \cup {Cold}) : D = store.data
    BY DEF ColdInv, ColdTypes
  <1>5. store' = [version |-> v, data |-> D, clock |-> store.clock, day |-> store.day]
    BY <1>1, <1>2, <1>4, ColdStoreWritten DEF ColdInv
  <1>c. \E c : ctx' = [ctx EXCEPT ![r] = c]
    BY <1>1
  <1>d. (v # None => ColdVersion(v)) /\ (Running(r) \/ (scene.sequential => Quiet))
    BY <1>0, <1>2
  <1>e. pc' = [pc EXCEPT ![r] = "deleteArchivedData"] /\ "deleteArchivedData" \in ColdCalls
    BY <1>1 DEF ColdCalls
  <1>f. ColdTypes /\ UNCHANGED scene
    BY DEF ColdInv
  <1>6. ColdFrame(r, "deleteArchivedData") /\ store'.version = v /\ store'.data = D
    BY <1>c, <1>d, <1>e, <1>f, <1>5, ColdFramed
  <1>7. ctx'[r].record = store.version /\ ColdVersion(store.version)
    BY <1>0, <1>1 DEF ColdInv, ColdTypes
  <1>10. scene.sequential => (~scene.deaths => \A m \in store.data \ {Cold} :
              m \in store.version.locs)
    BY <1>0, LoneRestore
  <1> QED
    BY <1>0, <1>2, <1>4, <1>6, <1>7, <1>10 DEF ColdChange, Restoring

\* Then the data, which no record names.
LEMMA DeleteArchivedDataChanges ==
    ASSUME ColdInv, NEW r \in Reqs, DeleteArchivedData(r), UNCHANGED scene
    PROVE  ColdChange(r, "ok")
  <1>0. pc[r] = "deleteArchivedData" /\ Running(r)
    BY DEF DeleteArchivedData, Running
  <1>1. /\ store' = [store EXCEPT !.data = store.data \ ctx[r].record.locs]
        /\ pc' = [pc EXCEPT ![r] = "ok"] /\ ctx' = ctx
    BY DEF DeleteArchivedData, Goto
  <1>2. PICK v : v = store.version
    OBVIOUS
  <1>3. v # None => ColdVersion(v)
    BY <1>2 DEF ColdInv, ColdTypes
  <1>4. PICK D \in SUBSET (Reqs \cup {Cold}) : D = store.data \ ctx[r].record.locs
    BY DEF ColdInv, ColdTypes
  <1>5. store' = [version |-> v, data |-> D, clock |-> store.clock, day |-> store.day]
    BY <1>1, <1>2, <1>4, ColdStoreWritten DEF ColdInv
  <1>6. ColdFrame(r, "ok") /\ store'.version = v /\ store'.data = D
    BY <1>0, <1>1, <1>3, <1>5, ColdFramed DEF ColdInv, ColdCalls
  <1>7. (Guarding => v = None) /\ ~KeptAway
    BY <1>0, <1>2 DEF ColdInv, RestoredStays, Guarding
  <1>10. scene.sequential => (~scene.deaths => \A m \in store.data \ {Cold} :
              m \in ctx[r].record.locs)
    BY <1>0, <1>2, <1>7, LoneRestore DEF Guarding
  <1> QED
    BY <1>4, <1>6, <1>7, <1>10 DEF ColdChange, Restoring

\* Expiry takes the restored data and leaves the cold one.
LEMMA ExpireChanges ==
    ASSUME ColdInv, NEW r \in Reqs, ExpireRestored(r), UNCHANGED scene
    PROVE  ColdChange(r, "ok")
  <1>0. /\ pc[r] = "idle" /\ (scene.sequential => Quiet) /\ ~KeptAway /\ store.version # None
        /\ IsRestored(store.version)
    BY DEF ExpireRestored, Sent, KeptAway
  <1>1. /\ store' = [store EXCEPT !.version = Archived,
                                 !.data = store.data \ store.version.locs]
        /\ pc' = [pc EXCEPT ![r] = "ok"] /\ ctx' = ctx
    BY DEF ExpireRestored, Goto
  <1>2. PICK v : v = Archived
    OBVIOUS
  <1>3. ColdVersion(v) /\ v.locs = {Cold}
    BY <1>2, ArchivedVersion
  <1>4. PICK D \in SUBSET (Reqs \cup {Cold}) : D = store.data \ store.version.locs
    BY DEF ColdInv, ColdTypes
  <1>5. store' = [version |-> v, data |-> D, clock |-> store.clock, day |-> store.day]
    BY <1>1, <1>2, <1>4, ColdStoreWritten DEF ColdInv
  <1>6. ColdFrame(r, "ok") /\ store'.version = v /\ store'.data = D
    BY <1>0, <1>1, <1>3, <1>5, ColdFramed DEF ColdInv, ColdCalls
  <1>7. Cold \notin store.version.locs
    BY <1>0 DEF ColdInv, ColdTypes, ColdVersion, ColdRecord, ColdPlaces, IsCold
  <1>8. Guarding => Cold \in store.data
    BY <1>0 DEF ColdInv, RestoredStays, Guarding
  <1>10. scene.sequential => (~scene.deaths => \A m \in store.data \ {Cold} :
              m \in store.version.locs)
    BY <1>0, LoneRestore
  <1> QED
    BY <1>0, <1>3, <1>4, <1>6, <1>7, <1>8, <1>10 DEF ColdChange, Restoring

\* Time passes for all alike.
LEMMA PassTimeKeeps ==
    ASSUME ColdInv, PassTime, UNCHANGED scene
    PROVE  ColdInv'
  <1>1. PICK t \in Nat : t = store.clock + 1
    BY DEF ColdInv, ColdTypes
  <1>2. store' = [store EXCEPT !.clock = t] /\ UNCHANGED <<pc, ctx, scene>>
    BY <1>1 DEF PassTime
  <1>3. PICK v, D, d : store = [version |-> v, data |-> D, clock |-> store.clock, day |-> d]
    BY DEF ColdInv, ColdTypes
  <1>4. store' = [version |-> v, data |-> D, clock |-> t, day |-> d]
    BY <1>2, <1>3
  <1>5. store'.version = store.version /\ store'.data = store.data /\ store'.day = store.day
        /\ store'.clock = t
    BY <1>3, <1>4
  <1>6. ColdTypes'
    BY <1>2, <1>3, <1>4, <1>5 DEF ColdInv, ColdTypes, ColdVersion, IsRestored, IsCold
  <1> QED
    BY <1>2, <1>5, <1>6
    DEF ColdInv, ColdCarries, ColdVersion, IsRestored, IsCold, OneRestores, Running, Answered,
        RestoredStays, WrittenBack, NoneForgotten, RequestKept, KeptAway

\* The invariant of restorations is inductive.
LEMMA ColdSteps == ColdInv /\ [ColdNext]_vars => ColdInv'
  <1> SUFFICES ASSUME ColdInv, [ColdNext]_vars  PROVE  ColdInv'
    OBVIOUS
  <1>1. ASSUME NEW r \in Reqs, ColdStep(r) \/ Die(r), UNCHANGED scene  PROVE  ColdInv'
    <2>1. \E l : ColdChange(r, l)
      BY <1>1, ObjectRestoreChanges, PutRestoreInfoChanges, ColdReadsChange,
         StoreRestoredChanges, PutRestoredChanges, DeleteArchivedChanges,
         DeleteArchivedDataChanges, ExpireChanges DEF ColdStep
    <2> QED  BY <2>1, ColdKept
  <1>2. CASE UNCHANGED vars
    BY <1>2
    DEF vars, ColdInv, ColdTypes, ColdCarries, ColdVersion, IsRestored, IsCold, OneRestores,
        Running, Answered, RestoredStays, WrittenBack, NoneForgotten, RequestKept, KeptAway
  <1> QED  BY <1>1, <1>2, PassTimeKeeps DEF ColdNext

\* And says what the property does.
LEMMA ColdInvEnough == ColdInv => RestorationStands
  <1> SUFFICES ASSUME ColdInv  PROVE  RestorationStands
    OBVIOUS
  <1>1. ColdTypeOK
    BY DEF ColdInv, ColdTypes, ColdVersion, ColdRecord, ColdPlaces, ColdTypeOK
  <1>2. RestoredHasData
    BY DEF ColdInv, RestoredStays, KeptAway, RestoredHasData, Available
  <1>3. RestoredIsNamed
    BY DEF ColdInv, NoneForgotten, RestoredIsNamed, Quiet, Running
  <1>4. RestoreRemembered
    BY DEF ColdInv, RequestKept, RestoredStays, KeptAway, RestoreRemembered
  <1> QED  BY <1>1, <1>2, <1>3, <1>4 DEF RestorationStands

\* An archived version is cold.
LEMMA ColdInitially == ColdInit => ColdInv
  <1> SUFFICES ASSUME ColdInit  PROVE  ColdInv
    OBVIOUS
  <1>1. PICK d \in 1..UnscaledDay :
            store = [version |-> Archived, data |-> {Cold}, clock |-> 0, day |-> d]
    BY DEF ColdInit
  <1>2. store.version = Archived /\ store.data = {Cold} /\ store.clock = 0 /\ store.day = d
    BY <1>1
  <1>3. pc = [r \in Reqs |-> "idle"] /\ ctx = [r \in Reqs |-> None]
    BY DEF ColdInit
  <1>4. Archived # None
    BY ArchivedVersion, ColdAssumption DEF ColdVersion
  <1>5. ColdTypes
    BY <1>1, <1>2, <1>3, ArchivedVersion DEF ColdTypes, ColdCalls
  <1> QED
    BY <1>2, <1>3, <1>4, <1>5, ArchivedVersion
    DEF ColdInv, ColdCarries, OneRestores, Running, Answered, RestoredStays, WrittenBack,
        NoneForgotten, RequestKept, Restoring
-----------------------------------------------------------------------------
(* Asking again *)

\* A restoration ends no later than the days it is asked for, of the calendar,
\* from now on.
Lasts(v, t) == IsRestored(v) => v.willExpireAt <= t + v.days * UnscaledDay

NoSooner(n, v) == IsRestored(v) /\ n.days >= v.days => n.willExpireAt >= v.willExpireAt

ColdStay ==
    scene.sequential =>
        /\ store.version # None => Lasts(store.version, store.clock)
        /\ \A r \in Reqs : pc[r] = "putRestoreInfo" =>
             /\ ctx[r].read = store.version
             /\ Lasts(ctx[r].record, store.clock)
             /\ NoSooner(ctx[r].record, ctx[r].read)

\* A restored version that is asked for again lasts the days asked for, from now,
\* and no shorter than before when they are no fewer.
LEMMA AskedLasts ==
    ASSUME ColdTypes, NEW v, ColdVersion(v), NEW days \in DaysAsked, Lasts(v, store.clock),
           NEW n, n = IF IsRestored(v) THEN UpdateObjectExpirationDate(v, days)
                                       ELSE UpdateRestoreInfo(v, days)
    PROVE  Lasts(n, store.clock) /\ NoSooner(n, v)
  <1>1. PICK a \in ColdPlaces, q \in MaybeTime, d \in DaysAsked \cup {None}, c \in MaybeTime,
             w \in MaybeTime, s \in MaybeTime :
            v = [locs |-> a, requestedAt |-> q, days |-> d, completedAt |-> c,
                 willExpireAt |-> w, shown |-> s]
    BY DEF ColdVersion, ColdRecord
  <1>2. /\ v.locs = a /\ v.requestedAt = q /\ v.days = d /\ v.completedAt = c
        /\ v.willExpireAt = w /\ v.shown = s
    BY <1>1
  <1>3. PICK t \in Nat : t = store.clock
    BY DEF ColdTypes
  <1>4. PICK e \in Nat : e = t + days * UnscaledDay
    BY <1>3 DEF DaysAsked, UnscaledDay
  <1>6. CASE IsRestored(v)
    <2>1. n = [locs |-> a, requestedAt |-> t, days |-> days, completedAt |-> c,
               willExpireAt |-> e, shown |-> e]
      BY <1>1, <1>3, <1>4, <1>6 DEF UpdateObjectExpirationDate, clock
    <2>2. n.days = days /\ n.willExpireAt = e
      BY <2>1
    <2>3. d \in DaysAsked /\ w \in Nat /\ w <= t + d * UnscaledDay
      BY <1>2, <1>3, <1>6 DEF ColdVersion, Lasts, MaybeTime
    <2>4. days >= d => e >= w
      BY <1>4, <2>3 DEF DaysAsked, UnscaledDay
    <2> QED
      BY <1>2, <1>3, <1>4, <2>2, <2>4 DEF Lasts, NoSooner
  <1>7. CASE ~IsRestored(v)
    <2>1. n = [locs |-> a, requestedAt |-> t, days |-> days, completedAt |-> c,
               willExpireAt |-> w, shown |-> s]
      BY <1>1, <1>3, <1>7 DEF UpdateRestoreInfo, clock
    <2> QED
      BY <1>2, <1>7, <2>1 DEF Lasts, NoSooner, IsRestored
  <1> QED  BY <1>6, <1>7

\* The configured day is no longer than one of the calendar.
LEMMA RestoredLasts ==
    ASSUME ColdTypes, NEW r \in Reqs, NEW v, ColdVersion(v), v.requestedAt # None
    PROVE  Lasts(OverwritingVersioning(r, v), store.clock)
  <1>1. PICK n : n = OverwritingVersioning(r, v)
    OBVIOUS
  <1>2. PICK t \in Nat, k \in 1..UnscaledDay, d \in DaysAsked :
            t = store.clock /\ k = store.day /\ d = v.days
    BY DEF ColdTypes, ColdVersion, ColdRecord
  <1>3. PICK e \in Nat : e = t + d * k
    BY <1>2 DEF DaysAsked, UnscaledDay
  <1>4. n.days = d /\ n.willExpireAt = e
    BY <1>1, <1>2, <1>3 DEF OverwritingVersioning, clock
  <1>5. k = 1 \/ k = 2
    BY DEF UnscaledDay
  <1>6. e <= t + d * UnscaledDay
    BY <1>3, <1>5 DEF DaysAsked, UnscaledDay
  <1> QED
    BY <1>1, <1>2, <1>4, <1>6 DEF Lasts

\* The step of a request that is alone.
LEMMA StayFrame ==
    ASSUME ColdInv, ColdStay, NEW r \in Reqs, NEW l, UNCHANGED scene,
           Running(r) \/ (scene.sequential => Quiet),
           pc' = [pc EXCEPT ![r] = l], store'.clock = store.clock,
           scene.sequential /\ store'.version # None => Lasts(store'.version, store.clock),
           scene.sequential /\ l = "putRestoreInfo" =>
             /\ ctx'[r].read = store'.version
             /\ Lasts(ctx'[r].record, store.clock)
             /\ NoSooner(ctx'[r].record, ctx'[r].read)
    PROVE  ColdStay'
  <1>1. scene.sequential => \A q \in Reqs \ {r} : pc'[q] # "putRestoreInfo"
    BY DEF ColdInv, ColdTypes, OneRestores, Quiet, Running
  <1>2. pc'[r] = l
    BY DEF ColdInv, ColdTypes
  <1>3. Lasts(store'.version, store'.clock) <=> Lasts(store'.version, store.clock)
    OBVIOUS
  <1>4. \A q \in Reqs : pc'[q] = "putRestoreInfo" /\ scene.sequential =>
          q = r /\ l = "putRestoreInfo"
    BY <1>1, <1>2
  <1> QED
    BY <1>4 DEF ColdStay, Lasts, NoSooner, IsRestored

\* Whatever a request does, a lone one knows when the restoration ends.
LEMMA StaySteps ==
    ASSUME ColdInv, ColdStay, NEW r \in Reqs, ColdStep(r) \/ Die(r), UNCHANGED scene
    PROVE  ColdStay'
  <1>1. ASSUME NEW l, l # "putRestoreInfo", pc' = [pc EXCEPT ![r] = l],
               Running(r) \/ (scene.sequential => Quiet), store'.clock = store.clock,
               store'.version = store.version
        PROVE  ColdStay'
    BY <1>1, StayFrame DEF ColdStay
  <1>2. CASE Refuse(r) /\ pc[r] = "idle" /\ (scene.sequential => Quiet)
    BY <1>1, <1>2 DEF Refuse, Goto
  <1>3. CASE ObjectRestore(r) /\ ~Refuse(r)
    <2>0. pc[r] = "idle" /\ (scene.sequential => Quiet)
      BY <1>3 DEF ObjectRestore, Sent
    <2>1. PICK days \in DaysAsked :
            /\ store.version # None
            /\ Carry(r, [op |-> "restoreObject", read |-> store.version, record |->
                       IF IsRestored(store.version)
                       THEN UpdateObjectExpirationDate(store.version, days)
                       ELSE UpdateRestoreInfo(store.version, days)])
            /\ Goto(r, "putRestoreInfo")
            /\ UNCHANGED store
      BY <1>3 DEF ObjectRestore
    <2>2. PICK n : n = IF IsRestored(store.version)
                       THEN UpdateObjectExpirationDate(store.version, days)
                       ELSE UpdateRestoreInfo(store.version, days)
      OBVIOUS
    <2>3. ColdVersion(store.version) /\ ColdTypes
      BY <2>1 DEF ColdInv, ColdTypes
    <2>4. scene.sequential => Lasts(store.version, store.clock)
      BY <2>1 DEF ColdStay
    <2>5. scene.sequential => Lasts(n, store.clock) /\ NoSooner(n, store.version)
      BY <2>2, <2>3, <2>4, AskedLasts
    <2>6. ctx' = [ctx EXCEPT ![r] = [op |-> "restoreObject", read |-> store.version,
                                    record |-> n]]
      BY <2>1, <2>2 DEF Carry
    <2>7. ctx'[r].read = store.version /\ ctx'[r].record = n
      BY <2>6 DEF ColdInv, ColdTypes
    <2>8. pc' = [pc EXCEPT ![r] = "putRestoreInfo"] /\ store' = store
      BY <2>1 DEF Goto
    <2> QED  BY <2>0, <2>4, <2>5, <2>7, <2>8, StayFrame
  <1>4. CASE PutRestoreInfo(r)
    <2>1. pc[r] = "putRestoreInfo" /\ Running(r)
      BY <1>4 DEF PutRestoreInfo, Running
    <2>2. /\ store' = [store EXCEPT !.version = ctx[r].record]
          /\ pc' = [pc EXCEPT ![r] = "ok"]
      BY <1>4 DEF PutRestoreInfo, Goto
    <2>3. store'.version = ctx[r].record /\ store'.clock = store.clock
      BY <2>2, ColdStoreWritten DEF ColdInv
    <2>4. scene.sequential => Lasts(ctx[r].record, store.clock)
      BY <2>1 DEF ColdStay
    <2> QED  BY <2>1, <2>2, <2>3, <2>4, StayFrame
  <1>5. CASE PutRestored(r)
    <2>1. pc[r] = "putRestored" /\ Running(r)
      BY <1>5 DEF PutRestored, Running
    <2>2. /\ store' = [store EXCEPT !.version = OverwritingVersioning(r, ctx[r].record)]
          /\ pc' = [pc EXCEPT ![r] = "ok"]
      BY <1>5 DEF PutRestored, Goto
    <2>3. store'.version = OverwritingVersioning(r, ctx[r].record) /\ store'.clock = store.clock
      BY <2>2, ColdStoreWritten DEF ColdInv
    <2>4. ColdVersion(ctx[r].record) /\ ctx[r].record.requestedAt # None
      BY <2>1 DEF ColdInv, ColdCarries, Restoring
    <2>5. Lasts(OverwritingVersioning(r, ctx[r].record), store.clock)
      BY <2>4, RestoredLasts DEF ColdInv
    <2> QED  BY <2>1, <2>2, <2>3, <2>5, StayFrame
  <1>6. CASE DeleteArchived(r)
    <2>1. /\ pc[r] = "idle" /\ (scene.sequential => Quiet)
          /\ store' = [store EXCEPT !.version = None]
          /\ pc' = [pc EXCEPT ![r] = "deleteArchivedData"]
      BY <1>6 DEF DeleteArchived, Sent, Goto
    <2>2. store'.version = None /\ store'.clock = store.clock
      BY <2>1, ColdStoreWritten DEF ColdInv
    <2> QED  BY <2>1, <2>2, StayFrame
  <1>7. CASE ExpireRestored(r)
    <2>1. /\ pc[r] = "idle" /\ (scene.sequential => Quiet)
          /\ store' = [store EXCEPT !.version = Archived,
                                   !.data = store.data \ store.version.locs]
          /\ pc' = [pc EXCEPT ![r] = "ok"]
      BY <1>7 DEF ExpireRestored, Sent, Goto
    <2>2. store'.version = Archived /\ store'.clock = store.clock
      BY <2>1, ColdStoreWritten DEF ColdInv
    <2>3. ~IsRestored(Archived)
      BY DEF IsRestored, Archived
    <2> QED  BY <2>1, <2>2, <2>3, StayFrame DEF Lasts
  <1>8. CASE DeleteArchivedData(r)
    <2>1. /\ Running(r) /\ store' = [store EXCEPT !.data = store.data \ ctx[r].record.locs]
          /\ pc' = [pc EXCEPT ![r] = "ok"]
      BY <1>8 DEF DeleteArchivedData, Running, Goto
    <2>2. store'.version = store.version /\ store'.clock = store.clock
      BY <2>1, ColdStoreWritten DEF ColdInv
    <2> QED  BY <1>1, <2>1, <2>2
  <1>9. CASE StoreRestored(r)
    <2>1. /\ Running(r) /\ store' = [store EXCEPT !.data = store.data \cup {r}]
          /\ pc' = [pc EXCEPT ![r] = "putRestored"]
      BY <1>9 DEF StoreRestored, Running, Goto
    <2>2. store'.version = store.version /\ store'.clock = store.clock
      BY <2>1, ColdStoreWritten DEF ColdInv
    <2> QED  BY <1>1, <2>1, <2>2
  <1>10. CASE (GetRestored(r) \/ HeadRestore(r) \/ PutVersion(r)) /\ ~Refuse(r)
    <2>1. /\ pc[r] = "idle" /\ (scene.sequential => Quiet) /\ store' = store
          /\ \E l \in {"readRestored", "ok", "storeRestored"} : pc' = [pc EXCEPT ![r] = l]
      BY <1>10 DEF GetRestored, HeadRestore, PutVersion, Sent, Goto
    <2> QED  BY <1>1, <2>1
  <1>11. CASE ReadRestored(r) \/ Die(r)
    <2>1. /\ Running(r) /\ store' = store
          /\ \E l \in {"failed", "ok"} : pc' = [pc EXCEPT ![r] = l]
      BY <1>11 DEF ReadRestored, Die, Running, Goto
    <2> QED  BY <1>1, <2>1
  <1>12. ObjectRestore(r) \/ GetRestored(r) \/ HeadRestore(r) \/ PutVersion(r) =>
           pc[r] = "idle" /\ (scene.sequential => Quiet)
    BY DEF ObjectRestore, GetRestored, HeadRestore, PutVersion, Sent
  <1> QED
    BY <1>2, <1>3, <1>4, <1>5, <1>6, <1>7, <1>8, <1>9, <1>10, <1>11, <1>12 DEF ColdStep

\* Nor does the passing of time matter.
LEMMA ColdStaySteps == ColdInv /\ ColdStay /\ [ColdNext]_vars => ColdStay'
  <1> SUFFICES ASSUME ColdInv, ColdStay, [ColdNext]_vars  PROVE  ColdStay'
    OBVIOUS
  <1>1. ASSUME PassTime, UNCHANGED scene  PROVE  ColdStay'
    <2>1. PICK t \in Nat : t = store.clock
      BY DEF ColdInv, ColdTypes
    <2>2. store' = [store EXCEPT !.clock = t + 1] /\ UNCHANGED <<pc, ctx, scene>>
      BY <1>1, <2>1 DEF PassTime
    <2>3. store'.version = store.version /\ store'.clock = t + 1
      BY <2>2 DEF ColdInv, ColdTypes
    <2>4. ASSUME NEW v, ColdVersion(v), Lasts(v, store.clock)  PROVE  Lasts(v, store'.clock)
      <3>1. CASE IsRestored(v)
        <4>1. PICK w \in Nat, d \in DaysAsked : w = v.willExpireAt /\ d = v.days
          BY <2>4, <3>1 DEF ColdVersion, ColdRecord, MaybeTime
        <4>2. w <= t + d * UnscaledDay
          BY <2>1, <2>4, <3>1, <4>1 DEF Lasts
        <4>3. w <= t + 1 + d * UnscaledDay
          BY <4>2 DEF DaysAsked, UnscaledDay
        <4> QED  BY <2>3, <4>1, <4>3 DEF Lasts
      <3>2. CASE ~IsRestored(v)
        BY <3>2 DEF Lasts
      <3> QED  BY <3>1, <3>2
    <2>5. store.version # None => ColdVersion(store.version)
      BY DEF ColdInv, ColdTypes
    <2>6. \A r \in Reqs : pc[r] = "putRestoreInfo" => ColdVersion(ctx[r].record)
      BY DEF ColdInv, ColdCarries
    <2>7. scene.sequential =>
            /\ store'.version # None => Lasts(store'.version, store'.clock)
            /\ \A r \in Reqs : pc[r] = "putRestoreInfo" =>
                 /\ ctx[r].read = store'.version
                 /\ Lasts(ctx[r].record, store'.clock)
                 /\ NoSooner(ctx[r].record, ctx[r].read)
      BY <2>3, <2>4, <2>5, <2>6 DEF ColdStay
    <2> QED  BY <2>2, <2>7 DEF ColdStay, Lasts, NoSooner, IsRestored
  <1>2. CASE UNCHANGED vars
    BY <1>2 DEF vars, ColdStay, Lasts, NoSooner, IsRestored
  <1> QED  BY <1>1, <1>2, StaySteps DEF ColdNext

\* A lone request to restore for longer writes no earlier end.
LEMMA ColdStaysAsAsked ==
    ASSUME ColdInv, ColdStay, NEW r \in Reqs, [ColdNext]_vars,
           scene.sequential, pc[r] = "putRestoreInfo", pc'[r] = "ok",
           IsRestored(ctx[r].read), ctx[r].record.days >= ctx[r].read.days
    PROVE  store'.version.willExpireAt >= store.version.willExpireAt
  <1>1. ctx[r].read = store.version /\ NoSooner(ctx[r].record, ctx[r].read)
    BY DEF ColdStay
  <1>2. PutRestoreInfo(r)
    <2>1. \A q \in Reqs \ {r} : pc[q] \in {"idle", "ok", "failed"}
      BY DEF ColdInv, OneRestores, Running
    <2>2. UNCHANGED vars \/ PassTime \/ \E q \in Reqs : ColdStep(q) \/ Die(q)
      BY DEF ColdNext
    <2>3. ~(UNCHANGED vars) /\ ~PassTime
      BY DEF vars, PassTime
    <2>4. PICK q \in Reqs : ColdStep(q) \/ Die(q)
      BY <2>2, <2>3
    <2>5. \E l : pc' = [pc EXCEPT ![q] = l]
      BY <2>4
      DEF ColdStep, ObjectRestore, PutRestoreInfo, GetRestored, ReadRestored, HeadRestore,
          DeleteArchived, DeleteArchivedData, PutVersion, StoreRestored, PutRestored,
          ExpireRestored, Die, Goto, Refuse
    <2>6. q = r
      BY <2>5 DEF ColdInv, ColdTypes
    <2>7. pc'[r] # "failed"
      OBVIOUS
    <2> QED
      BY <2>4, <2>6, <2>7
      DEF ColdInv, ColdTypes, ColdStep, ObjectRestore, GetRestored, ReadRestored, HeadRestore,
          DeleteArchived, DeleteArchivedData, PutVersion, StoreRestored, PutRestored,
          ExpireRestored, Die, Goto, Sent
  <1>3. store'.version = ctx[r].record
    BY <1>2, ColdStoreWritten DEF PutRestoreInfo, ColdInv
  <1> QED  BY <1>1, <1>3 DEF NoSooner

\* Nothing is restored at first.
LEMMA ColdStayInitially == ColdInit => ColdStay
  <1> SUFFICES ASSUME ColdInit  PROVE  ColdStay
    OBVIOUS
  <1>1. store.version = Archived /\ \A r \in Reqs : pc[r] = "idle"
    BY DEF ColdInit
  <1>2. ~IsRestored(Archived)
    BY DEF IsRestored, Archived
  <1> QED  BY <1>1, <1>2 DEF ColdStay, Lasts

-----------------------------------------------------------------------------
(* Replicas *)

\* What a task carries, and an expiration.
ReplicaCtx == [op: {"move", "updateStatus", "moveSome", "metadataOnly"},
               found: SUBSET ReplicaLocs, locs: SUBSET ReplicaLocs,
               obj: ReplicaRecord \cup {None}, meta: Reqs]
ExpiryCtx == [op: {"expiration"}, obj: ReplicaRecord]

\* Calls of a task that may still name locations, and of conditional deletions.
Tasks == {"putData", "putMetadata", "writeRecord"}
ConditionalCalls == {"azureDelete", "askDate", "tagUnmodified"}

\* The shape of the store; of the object elsewhere only its counter matters.
ReplicaStore(s) ==
    /\ s = [record |-> s.record, data |-> s.data, retired |-> s.retired,
            backend |-> s.backend, remote |-> s.remote, uploads |-> s.uploads]
    /\ s.record \in ReplicaRecord \cup {None}
    /\ s.data \in SUBSET ReplicaLocs
    /\ s.retired \in SUBSET ReplicaLocs
    /\ s.remote = [there |-> s.remote.there, changed |-> s.remote.changed,
                   tags |-> s.remote.tags, doomed |-> s.remote.doomed]
    /\ s.remote.changed \in Nat

BackbeatTypes ==
    /\ ReplicaStore(store)
    /\ pc \in [Reqs -> Tasks \cup ConditionalCalls \cup {"idle", "deleteOld", "ok", "failed"}]
    /\ ctx = [r \in Reqs |-> ctx[r]]
    /\ \A r \in Reqs :
        /\ pc[r] \in Tasks => ctx[r] \in ReplicaCtx /\ ctx[r].op \in scene.ops
        /\ pc[r] = "deleteOld" => /\ ctx[r] \in ReplicaCtx \cup ExpiryCtx
                                  /\ ctx[r].obj \in ReplicaRecord

\* Between the reading of the record by putMetadata and the end.
AtWork(r) == pc[r] \in {"writeRecord", "deleteOld"}

\* Tasks that wait for one another, or whose requests do, have one at work.
OneTask ==
    /\ scene.sequential => \A q, r \in Reqs : Running(q) /\ Running(r) => q = r
    /\ "oneRequest" \in scene.ops => \A q, r \in Reqs : AtWork(q) /\ AtWork(r) => q = r

\* A location that task r may put into the record, one that it may take away.
MayName(r, l) == pc[r] \in Tasks /\ l \in ctx[r].locs
MayTake(r, l) == AtWork(r) /\ ctx[r].obj # None /\ l \in ctx[r].obj.locs

\* Data that a task stores is its own until it writes the record.
Untold ==
    \A r \in Reqs : pc[r] \in Tasks \cup {"idle"} =>
        /\ r \notin Locs /\ r \notin store.retired
        /\ \A q \in Reqs : ~MayTake(q, r) /\ (q # r => ~MayName(q, r))

Keeping == scene.sequential \/ ~WritesBackStale

\* What a task writes is named already, or its own.
Brings(r) ==
    /\ pc[r] = "putData" =>
         IF scene.sequential THEN ctx[r].locs \subseteq Locs ELSE ctx[r].op = "move"
    /\ pc[r] \in {"putMetadata", "writeRecord"} =>
         /\ ctx[r].locs \subseteq Locs \cup {r}
         /\ r \in ctx[r].locs => r \in store.data
         /\ \/ scene.sequential
            \/ ctx[r].locs = {r}
            \/ ctx[r].locs = {}
            \/ pc[r] = "writeRecord" /\ "oneRequest" \in scene.ops

\* The record names data that is there, and nothing of it is about to go.
ReplicaKept ==
    Keeping =>
        /\ Locs \subseteq store.data /\ Locs \cap store.retired = {}
        /\ \A r \in Reqs : Brings(r)
        /\ \A r \in Reqs : pc[r] = "deleteOld" => ctx[r].obj.locs \cap Locs = {}

\* No task dies, and their requests wait for one another.
Clean == ~scene.deaths /\ ("oneRequest" \in scene.ops \/ scene.sequential)

\* Data l is task r's to name, or to delete.
Owes(r, l) ==
    \/ pc[r] \in {"putMetadata", "writeRecord"} /\ l = r /\ l \in ctx[r].locs
    \/ pc[r] = "deleteOld" /\ l \in ctx[r].obj.locs

\* The locations of a record that was never replaced in part.
WholeSet(S) == S = {} \/ S = {"old1", "old2"} \/ \E q \in Reqs : S = {q}

\* What a task knows of the record that it will replace.
KnowsRecord(r) ==
    /\ pc[r] = "putData" => ctx[r].op # "metadataOnly"
    /\ pc[r] = "putMetadata" /\ ctx[r].op = "metadataOnly" => ctx[r].locs = {}
    /\ pc[r] = "writeRecord" /\ ctx[r].op = "metadataOnly" =>
         ctx[r].obj # None /\ ctx[r].locs = ctx[r].obj.locs
    /\ pc[r] = "writeRecord" /\ Clean => ctx[r].obj = store.record
    /\ pc[r] \in Tasks /\ "moveSome" \notin scene.ops => WholeSet(ctx[r].locs)

\* Data without a record is on its way to one, or away; unless a move leaves
\* some, locations come and go together.
ReplicaClean ==
    /\ "moveSome" \notin scene.ops => WholeSet(Locs)
    /\ \A r \in Reqs : KnowsRecord(r)
    /\ Clean => \A l \in store.data :
         \/ l \in Locs
         \/ "moveSome" \in scene.ops /\ l \in store.retired
         \/ \E r \in Reqs : Owes(r, l)

BackbeatInv == BackbeatTypes /\ OneTask /\ Untold /\ ReplicaKept /\ ReplicaClean

\* What a conditional deletion saw is not later than what is there, and is what is
\* there when it marks it, if tasks wait for one another.
SawUnmodified ==
    \A r \in Reqs :
        /\ pc[r] \in ConditionalCalls => ctx[r].seen \in Nat /\ ctx[r].seen <= store.remote.changed
        /\ pc[r] = "azureDelete" => store.backend = "azure"
        /\ pc[r] \in {"askDate", "tagUnmodified"} => store.backend # "azure"
        /\ pc[r] = "tagUnmodified" /\ scene.sequential => store.remote.changed = ctx[r].seen

-----------------------------------------------------------------------------
(* What a step of a task does *)

\* Task r goes to l, and the others stay where they are.
TaskFrame(r, l) ==
    /\ BackbeatTypes'
    /\ pc' = [pc EXCEPT ![r] = l]
    /\ UNCHANGED scene
    /\ \A q \in Reqs \ {r} : ctx'[q] = ctx[q]
    /\ Running(r) \/ (scene.sequential => Quiet)

\* No other task is at work.
AloneAtWork(r) == "oneRequest" \in scene.ops => \A q \in Reqs \ {r} : ~AtWork(q)

\* What a step of task r that goes to l does to what the others rely on: nothing
\* new is named but its own data, and nothing is taken but what it may take.
TaskChange(r, l) ==
    /\ TaskFrame(r, l)
    /\ l \in {"writeRecord", "deleteOld"} \/ store'.record # store.record => AloneAtWork(r)
    /\ \A m \in ReplicaLocs : m \in Locs' \cup store'.retired =>
         \/ m \in Locs \cup store.retired
         \/ MayName(r, m) /\ l \notin Tasks
    /\ l # "idle" /\ (l \in Tasks => pc[r] \in Tasks \cup {"idle"})
    /\ \A m \in ReplicaLocs :
         /\ MayTake(r, m)' => MayTake(r, m) \/ m \in Locs
         /\ MayName(r, m)' => MayName(r, m) \/ m \in Locs \/ m = r
    /\ Keeping =>
         /\ Locs' \subseteq store'.data /\ Locs' \cap store'.retired = {}
         /\ Locs' \subseteq Locs \cup {r} /\ (r \in Locs' => r \in Locs \/ MayName(r, r))
         /\ Brings(r)'
         /\ l = "deleteOld" => ctx'[r].obj.locs \cap Locs' = {}
         /\ \A m \in store.data : m \in store'.data \/ MayTake(r, m) \/ m \in store.retired
    /\ "moveSome" \notin scene.ops => WholeSet(Locs')
    /\ KnowsRecord(r)'
    /\ Clean => \A m \in store'.data :
         \/ m \in Locs'
         \/ "moveSome" \in scene.ops /\ m \in store'.retired
         \/ Owes(r, m)'
         \/ \E q \in Reqs \ {r} : Owes(q, m)

\* What TaskChange says of one task is enough for all.
LEMMA TaskKept ==
    ASSUME BackbeatInv, NEW r \in Reqs, NEW l, TaskChange(r, l)
    PROVE  BackbeatInv'
  <1>0. BackbeatTypes /\ OneTask /\ Untold /\ ReplicaKept /\ ReplicaClean
    BY DEF BackbeatInv
  <1>1. \A q \in Reqs \ {r} : pc'[q] = pc[q] /\ ctx'[q] = ctx[q]
    BY <1>0 DEF TaskChange, TaskFrame, BackbeatTypes
  <1>2. pc'[r] = l /\ scene' = scene /\ BackbeatTypes'
    BY <1>0 DEF TaskChange, TaskFrame, BackbeatTypes
  <1>3. scene.sequential => \A q \in Reqs \ {r} : ~Running(q)
    BY <1>0 DEF TaskChange, TaskFrame, OneTask, Quiet
  <1>4. \A q \in Reqs \ {r} : ~Running(q) => pc'[q] \in {"idle", "ok", "failed"}
    BY <1>1 DEF Running
  <1>5. \A q \in Reqs \ {r} : \A m :
            /\ MayTake(q, m)' <=> MayTake(q, m)
            /\ MayName(q, m)' <=> MayName(q, m)
            /\ Owes(q, m)' <=> Owes(q, m)
            /\ AtWork(q)' <=> AtWork(q)
    BY <1>1 DEF MayTake, MayName, Owes, AtWork
  <1>6. OneTask'
    <2>1. scene.sequential => \A q, s \in Reqs : Running(q)' /\ Running(s)' => q = s
      BY <1>1, <1>3 DEF Running
    <2>2. ASSUME "oneRequest" \in scene.ops, NEW q \in Reqs, NEW s \in Reqs, AtWork(q)', AtWork(s)'
          PROVE  q = s
      <3>1. CASE q # r /\ s # r
        BY <2>2, <3>1, <1>0, <1>5 DEF OneTask
      <3>2. ASSUME AtWork(r)'  PROVE  \A p \in Reqs \ {r} : ~AtWork(p)'
        <4>1. l \in {"writeRecord", "deleteOld"}
          BY <3>2, <1>2 DEF AtWork
        <4> QED  BY <4>1, <2>2, <1>5 DEF TaskChange, AloneAtWork
      <3> QED  BY <2>2, <3>1, <3>2
    <2> QED  BY <1>2, <2>1, <2>2 DEF OneTask, AtWork, Running
  <1>7. Untold'
    <2> SUFFICES ASSUME NEW p \in Reqs, pc'[p] \in Tasks \cup {"idle"}
                 PROVE  /\ p \notin Locs' /\ p \notin store'.retired
                        /\ \A q \in Reqs : ~MayTake(q, p)' /\ (q # p => ~MayName(q, p)')
      BY DEF Untold
    <2>1. pc[p] \in Tasks \cup {"idle"}
      BY <1>1, <1>2 DEF TaskChange
    <2>2. /\ p \notin Locs /\ p \notin store.retired /\ p \in ReplicaLocs
          /\ \A q \in Reqs : ~MayTake(q, p) /\ (q # p => ~MayName(q, p))
      BY <2>1, <1>0 DEF Untold, ReplicaLocs
    <2>3. p = r => l \in Tasks
      BY <1>2 DEF TaskChange
    <2>4. p \notin Locs' /\ p \notin store'.retired
      <3>1. ~(MayName(r, p) /\ l \notin Tasks)
        BY <2>2, <2>3
      <3> QED  BY <2>2, <3>1 DEF TaskChange
    <2>5. ASSUME NEW q \in Reqs  PROVE  ~MayTake(q, p)' /\ (q # p => ~MayName(q, p)')
      <3>1. CASE q = r
        BY <2>2, <3>1 DEF TaskChange
      <3>2. CASE q # r
        BY <2>2, <3>2, <1>5
      <3> QED  BY <3>1, <3>2
    <2> QED  BY <2>4, <2>5
  <1>8. ReplicaKept'
    <2> SUFFICES ASSUME Keeping
                 PROVE  /\ Locs' \subseteq store'.data /\ Locs' \cap store'.retired = {}
                        /\ \A q \in Reqs : Brings(q)'
                        /\ \A q \in Reqs : pc'[q] = "deleteOld" => ctx'[q].obj.locs \cap Locs' = {}
      BY <1>2 DEF ReplicaKept, Keeping, WritesBackStale
    <2>1. ASSUME NEW q \in Reqs, q # r  PROVE  Brings(q)'
      <3>1. CASE scene.sequential
        BY <2>1, <3>1, <1>2, <1>3, <1>4 DEF Brings
      <3>2. CASE ~scene.sequential
        <4>1. Brings(q)
          BY <1>0 DEF ReplicaKept
        <4>2. CASE pc[q] \in {"putMetadata", "writeRecord"}
          <5>1. q \in ctx[q].locs => q \in store'.data
            <6>1. q \notin store.retired /\ ~MayTake(r, q)
              BY <1>0, <4>2 DEF Untold, Tasks
            <6> QED  BY <4>1, <4>2, <6>1 DEF Brings, TaskChange
          <5>2. ctx[q].locs \subseteq Locs' \cup {q}
            <6>1. CASE ctx[q].locs \in {{}, {q}}
              BY <6>1
            <6>2. CASE pc[q] = "writeRecord" /\ "oneRequest" \in scene.ops
              BY <2>1, <4>1, <4>2, <6>2 DEF Brings, TaskChange, AloneAtWork, AtWork, Locs
            <6> QED  BY <3>2, <4>1, <4>2, <6>1, <6>2 DEF Brings
          <5> QED  BY <2>1, <3>2, <4>1, <4>2, <5>1, <5>2, <1>1, <1>2 DEF Brings
        <4>3. CASE pc[q] \notin {"putMetadata", "writeRecord"}
          BY <2>1, <3>2, <4>1, <4>3, <1>1, <1>2 DEF Brings
        <4> QED  BY <4>2, <4>3
      <3> QED  BY <3>1, <3>2
    <2>2. ASSUME NEW q \in Reqs, q # r, pc'[q] = "deleteOld"  PROVE  ctx'[q].obj.locs \cap Locs' = {}
      <3>1. ctx'[q] = ctx[q] /\ pc[q] = "deleteOld" /\ ctx[q].obj.locs \cap Locs = {}
        BY <2>2, <1>0, <1>1 DEF ReplicaKept
      <3>2. r \in Locs' => r \notin ctx[q].obj.locs
        <4> SUFFICES ASSUME r \in Locs', r \in ctx[q].obj.locs  PROVE  FALSE
          OBVIOUS
        <4>1. MayName(r, r)
          BY <3>1 DEF TaskChange
        <4>2. pc[r] \in Tasks
          BY <4>1 DEF MayName
        <4>3. ~MayTake(q, r)
          BY <4>2, <1>0 DEF Untold
        <4>4. ctx[q].obj # None
          BY <3>1, <1>0, BackbeatAssumption DEF BackbeatTypes
        <4> QED  BY <3>1, <4>3, <4>4 DEF MayTake, AtWork
      <3>3. Locs' \subseteq Locs \cup {r}
        BY DEF TaskChange
      <3> QED  BY <3>1, <3>2, <3>3
    <2> QED  BY <2>1, <2>2, <1>2 DEF TaskChange
  <1>9. ReplicaClean'
    <2>1. ASSUME NEW q \in Reqs, q # r  PROVE  KnowsRecord(q)'
      <3>1. KnowsRecord(q)
        BY <1>0 DEF ReplicaClean
      <3>2. pc[q] = "writeRecord" /\ Clean => store'.record = store.record
        <4>1. CASE scene.sequential
          BY <2>1, <4>1, <1>3 DEF Running
        <4>2. CASE "oneRequest" \in scene.ops
          BY <2>1, <4>2 DEF TaskChange, AloneAtWork, AtWork
        <4> QED  BY <4>1, <4>2 DEF Clean
      <3> QED  BY <2>1, <3>1, <3>2, <1>1, <1>2 DEF KnowsRecord, Clean, WholeSet
    <2>2. ASSUME Clean, NEW m \in store'.data
          PROVE  \/ m \in Locs'
                 \/ "moveSome" \in scene.ops /\ m \in store'.retired
                 \/ \E q \in Reqs : Owes(q, m)'
      BY <2>2, <1>5 DEF TaskChange
    <2> QED  BY <2>1, <2>2, <1>2 DEF ReplicaClean, TaskChange, Clean
  <1> QED  BY <1>2, <1>6, <1>7, <1>8, <1>9 DEF BackbeatInv

\* What a step of a task keeps of the others.
LEMMA TaskFramed ==
    ASSUME BackbeatTypes, NEW r \in Reqs, NEW c,
           NEW l \in Tasks \cup ConditionalCalls \cup {"deleteOld", "ok", "failed"},
           ReplicaStore(store'), pc' = [pc EXCEPT ![r] = l], UNCHANGED scene,
           ctx' = [ctx EXCEPT ![r] = c],
           l \in Tasks => c \in ReplicaCtx /\ c.op \in scene.ops,
           l = "deleteOld" => c \in ReplicaCtx \cup ExpiryCtx /\ c.obj \in ReplicaRecord,
           Running(r) \/ (scene.sequential => Quiet)
    PROVE  TaskFrame(r, l) /\ pc'[r] = l /\ ctx'[r] = c
  <1>1. ctx'[r] = c /\ \A q \in Reqs \ {r} : ctx'[q] = ctx[q]
    BY DEF BackbeatTypes
  <1>2. ctx' = [q \in Reqs |-> ctx'[q]]
    BY DEF BackbeatTypes
  <1>3. pc' \in [Reqs -> Tasks \cup ConditionalCalls \cup {"idle", "deleteOld", "ok", "failed"}]
        /\ pc'[r] = l /\ \A q \in Reqs \ {r} : pc'[q] = pc[q]
    BY DEF BackbeatTypes
  <1>4. ASSUME NEW q \in Reqs
        PROVE  /\ pc'[q] \in Tasks => ctx'[q] \in ReplicaCtx /\ ctx'[q].op \in scene'.ops
               /\ pc'[q] = "deleteOld" => /\ ctx'[q] \in ReplicaCtx \cup ExpiryCtx
                                          /\ ctx'[q].obj \in ReplicaRecord
    <2>1. CASE q = r
      BY <2>1, <1>1, <1>3
    <2>2. CASE q # r
      BY <2>2, <1>1, <1>3 DEF BackbeatTypes
    <2> QED  BY <2>1, <2>2
  <1>5. BackbeatTypes'
    BY <1>2, <1>3, <1>4 DEF BackbeatTypes
  <1> QED  BY <1>1, <1>3, <1>5 DEF TaskFrame

\* A step that carries what it carried.
LEMMA SameCtx ==
    ASSUME BackbeatTypes, NEW r \in Reqs, ctx' = ctx
    PROVE  ctx' = [ctx EXCEPT ![r] = ctx[r]]
  BY DEF BackbeatTypes

\* A store with its data, or its record, written.
Rewritten(w, m, D, R) ==
    /\ ReplicaStore(w)
    /\ w.record = m /\ w.data = D /\ w.retired = R
    /\ w.remote = store.remote /\ w.backend = store.backend

\* A store is what its operator says, a field at a time.
LEMMA ReplicaWritten ==
    ASSUME ReplicaStore(store), NEW m \in ReplicaRecord \cup {None},
           NEW D \in SUBSET ReplicaLocs, NEW R \in SUBSET ReplicaLocs
    PROVE  /\ Rewritten([store EXCEPT !.data = D], store.record, D, store.retired)
           /\ Rewritten([store EXCEPT !.record = m, !.retired = R], m, store.data, R)
  <1>1. PICK a, d, t, b, x, u : store = [record |-> a, data |-> d, retired |-> t,
                                        backend |-> b, remote |-> x, uploads |-> u]
    BY DEF ReplicaStore
  <1> DEFINE half == [record |-> m, data |-> d, retired |-> t,
                      backend |-> b, remote |-> x, uploads |-> u]
  <1>2. [store EXCEPT !.data = D] = [record |-> a, data |-> D, retired |-> t,
                                     backend |-> b, remote |-> x, uploads |-> u]
    BY <1>1
  <1>3. [store EXCEPT !.record = m] = half
    BY <1>1
  <1>4. [half EXCEPT !.retired = R] = [record |-> m, data |-> d, retired |-> R,
                                       backend |-> b, remote |-> x, uploads |-> u]
    OBVIOUS
  <1>5. [store EXCEPT !.record = m, !.retired = R] = [half EXCEPT !.retired = R]
    <2> HIDE DEF half
    <2> QED  BY <1>3
  <1>6. /\ store.record = a /\ store.data = d /\ store.retired = t
        /\ store.backend = b /\ store.remote = x
    BY <1>1
  <1>7. \A w : /\ w = [record |-> a, data |-> D, retired |-> t,
                       backend |-> b, remote |-> x, uploads |-> u]
               => Rewritten(w, a, D, t)
    BY <1>6 DEF Rewritten, ReplicaStore
  <1>8. \A w : /\ w = [record |-> m, data |-> d, retired |-> R,
                       backend |-> b, remote |-> x, uploads |-> u]
               => Rewritten(w, m, d, R)
    BY <1>6 DEF Rewritten, ReplicaStore
  <1> QED  BY <1>2, <1>4, <1>5, <1>6, <1>7, <1>8

\* A step that ends, and leaves record, data and retired locations alone.
LEMMA TaskStill ==
    ASSUME BackbeatInv, NEW r \in Reqs, NEW l, TaskFrame(r, l),
           l \notin Tasks \cup {"idle", "deleteOld"},
           store'.record = store.record, store'.data = store.data,
           store'.retired = store.retired, Clean => \A m : ~Owes(r, m)
    PROVE  TaskChange(r, l)
  <1>0. BackbeatTypes /\ OneTask /\ Untold /\ ReplicaKept /\ ReplicaClean
    BY DEF BackbeatInv
  <1>1. pc'[r] = l /\ Locs' = Locs
    BY <1>0 DEF TaskFrame, BackbeatTypes, Locs
  <1>2. \A m : ~MayTake(r, m)' /\ ~MayName(r, m)'
    BY <1>1 DEF MayTake, MayName, AtWork, Tasks
  <1>3. Brings(r)' /\ KnowsRecord(r)'
    BY <1>1 DEF Brings, KnowsRecord, Tasks
  <1>4. Keeping => Locs \subseteq store.data /\ Locs \cap store.retired = {}
    BY <1>0 DEF ReplicaKept
  <1>5. Clean => \A m \in store.data :
           \/ m \in Locs
           \/ "moveSome" \in scene.ops /\ m \in store.retired
           \/ \E q \in Reqs \ {r} : Owes(q, m)
    BY <1>0 DEF ReplicaClean
  <1>6. "moveSome" \notin scene.ops => WholeSet(Locs)
    BY <1>0 DEF ReplicaClean
  <1> QED  BY <1>1, <1>2, <1>3, <1>4, <1>5, <1>6 DEF TaskChange, Tasks

\* A task starts from the locations that the record names.
LEMMA GetMetadataChanges ==
    ASSUME BackbeatInv, NEW r \in Reqs, GetMetadata(r), UNCHANGED scene
    PROVE  \E l : TaskChange(r, l)
  <1>0. BackbeatTypes /\ OneTask /\ Untold /\ ReplicaKept /\ ReplicaClean
    BY DEF BackbeatInv
  <1>1. PICK op \in {"move", "updateStatus", "moveSome"} :
            /\ Sent(r, op)
            /\ Carry(r, [op |-> op, found |-> Locs, locs |-> Locs, obj |-> None, meta |-> r])
            /\ Goto(r, IF op = "updateStatus" THEN "putMetadata" ELSE "putData")
            /\ UNCHANGED store
    BY DEF GetMetadata
  <1>2. PICK l : l = IF op = "updateStatus" THEN "putMetadata" ELSE "putData"
    OBVIOUS
  <1>3. PICK S \in SUBSET ReplicaLocs : S = Locs
    BY <1>0, BackbeatAssumption DEF BackbeatTypes, ReplicaStore, ReplicaRecord, Locs
  <1>4. PICK c : c = [op |-> op, found |-> S, locs |-> S, obj |-> None, meta |-> r]
    OBVIOUS
  <1>5. /\ c \in ReplicaCtx /\ c.op = op /\ c.locs = S /\ c.obj = None
    BY <1>4 DEF ReplicaCtx
  <1>6. pc[r] = "idle" /\ op \in scene.ops /\ (scene.sequential => Quiet)
    BY <1>1 DEF Sent
  <1>7. /\ ctx' = [ctx EXCEPT ![r] = c] /\ pc' = [pc EXCEPT ![r] = l] /\ store' = store
        /\ l \in {"putMetadata", "putData"}
    BY <1>1, <1>2, <1>3, <1>4 DEF Carry, Goto
  <1>8. TaskFrame(r, l) /\ pc'[r] = l /\ ctx'[r] = c
    BY <1>0, <1>5, <1>6, <1>7, TaskFramed DEF Tasks, BackbeatTypes
  <1>9. Locs' = Locs
    BY <1>7 DEF Locs
  <1>10. \A m : ~MayTake(r, m)' /\ (MayName(r, m)' => m \in Locs)
    BY <1>3, <1>5, <1>7, <1>8 DEF MayTake, MayName, AtWork
  <1>11. Keeping => Locs \subseteq store.data /\ Locs \cap store.retired = {}
    BY <1>0 DEF ReplicaKept
  <1>12. Keeping => Brings(r)'
    <2>1. op \in {"updateStatus", "moveSome"} => WritesBackStale
      BY <1>6 DEF WritesBackStale
    <2>2. r \notin Locs
      BY <1>0, <1>6 DEF Untold
    <2>3. Keeping => scene.sequential \/ op = "move"
      BY <2>1 DEF Keeping
    <2> QED  BY <1>2, <1>3, <1>5, <1>7, <1>8, <1>9, <2>2, <2>3 DEF Brings
  <1>13. "moveSome" \notin scene.ops => WholeSet(Locs)
    BY <1>0 DEF ReplicaClean
  <1>14. KnowsRecord(r)'
    BY <1>3, <1>5, <1>7, <1>8, <1>13 DEF KnowsRecord, Tasks, WholeSet
  <1>15. Clean => \A m \in store.data :
           \/ m \in Locs
           \/ "moveSome" \in scene.ops /\ m \in store.retired
           \/ \E q \in Reqs \ {r} : Owes(q, m)
    BY <1>0, <1>6 DEF ReplicaClean, Owes
  <1> QED
    BY <1>6, <1>7, <1>8, <1>9, <1>10, <1>11, <1>12, <1>13, <1>14, <1>15 DEF TaskChange, Tasks

\* A replication of metadata starts from none.
LEMMA ReplicateMetadataChanges ==
    ASSUME BackbeatInv, NEW r \in Reqs, ReplicateMetadata(r), UNCHANGED scene
    PROVE  \E l : TaskChange(r, l)
  <1>0. BackbeatTypes /\ OneTask /\ Untold /\ ReplicaKept /\ ReplicaClean
    BY DEF BackbeatInv
  <1>4. PICK c : c = [op |-> "metadataOnly", found |-> {}, locs |-> {}, obj |-> None, meta |-> r]
    OBVIOUS
  <1>5. /\ c \in ReplicaCtx /\ c.op = "metadataOnly" /\ c.locs = {} /\ c.obj = None
    BY <1>4 DEF ReplicaCtx
  <1>6. pc[r] = "idle" /\ "metadataOnly" \in scene.ops /\ (scene.sequential => Quiet)
    BY DEF ReplicateMetadata, Sent
  <1>7. ctx' = [ctx EXCEPT ![r] = c] /\ pc' = [pc EXCEPT ![r] = "putMetadata"] /\ store' = store
    BY <1>4 DEF ReplicateMetadata, Carry, Goto
  <1>8. TaskFrame(r, "putMetadata") /\ pc'[r] = "putMetadata" /\ ctx'[r] = c
    BY <1>0, <1>5, <1>6, <1>7, TaskFramed DEF Tasks, BackbeatTypes
  <1>9. Locs' = Locs
    BY <1>7 DEF Locs
  <1>10. \A m : ~MayTake(r, m)' /\ ~MayName(r, m)'
    BY <1>5, <1>8 DEF MayTake, MayName, AtWork
  <1>11. Keeping => Locs \subseteq store.data /\ Locs \cap store.retired = {}
    BY <1>0 DEF ReplicaKept
  <1>12. Brings(r)'
    BY <1>5, <1>8 DEF Brings
  <1>13. "moveSome" \notin scene.ops => WholeSet(Locs)
    BY <1>0 DEF ReplicaClean
  <1>14. KnowsRecord(r)'
    BY <1>5, <1>8 DEF KnowsRecord, Tasks, WholeSet
  <1>15. Clean => \A m \in store.data :
           \/ m \in Locs
           \/ "moveSome" \in scene.ops /\ m \in store.retired
           \/ \E q \in Reqs \ {r} : Owes(q, m)
    BY <1>0, <1>6 DEF ReplicaClean, Owes
  <1> QED
    BY <1>6, <1>7, <1>8, <1>9, <1>10, <1>11, <1>12, <1>13, <1>14, <1>15 DEF TaskChange, Tasks

\* Data that a task stores is under a location of its own.
LEMMA PutDataChanges ==
    ASSUME BackbeatInv, NEW r \in Reqs, PutData(r), UNCHANGED scene
    PROVE  \E l : TaskChange(r, l)
  <1>0. BackbeatTypes /\ OneTask /\ Untold /\ ReplicaKept /\ ReplicaClean
    BY DEF BackbeatInv
  <1>1. pc[r] = "putData" /\ Running(r) /\ r \in ReplicaLocs
    BY DEF PutData, Running, ReplicaLocs
  <1>2. PICK c \in ReplicaCtx : c = ctx[r]
    BY <1>0, <1>1 DEF BackbeatTypes, Tasks
  <1>3. PICK D \in SUBSET ReplicaLocs : D = store.data \cup {r}
    BY <1>0, <1>1 DEF BackbeatTypes, ReplicaStore
  <1>4. store' = [store EXCEPT !.data = D]
    BY <1>3 DEF PutData
  <1>5. Rewritten(store', store.record, D, store.retired)
    BY <1>0, <1>4, ReplicaWritten DEF BackbeatTypes, ReplicaStore
  <1>6. /\ ReplicaStore(store') /\ store'.record = store.record /\ Locs' = Locs
        /\ store'.data = D /\ store'.retired = store.retired
    BY <1>5 DEF Rewritten, Locs
  <1>7. Keeping => Locs \subseteq store.data /\ Locs \cap store.retired = {} /\ Brings(r)
    BY <1>0 DEF ReplicaKept
  <1>8. ("moveSome" \notin scene.ops => WholeSet(Locs)) /\ KnowsRecord(r)
    BY <1>0 DEF ReplicaClean
  <1>9. Clean => \A m \in store.data :
           \/ m \in Locs
           \/ "moveSome" \in scene.ops /\ m \in store.retired
           \/ \E q \in Reqs \ {r} : Owes(q, m)
    BY <1>0, <1>1 DEF ReplicaClean, Owes
  <1>10. ASSUME scene.deaths, Goto(r, "failed"), ctx' = ctx  PROVE  TaskChange(r, "failed")
    <2>1. TaskFrame(r, "failed") /\ pc'[r] = "failed"
      BY <1>0, <1>1, <1>6, <1>10, SameCtx, TaskFramed DEF Goto, Tasks
    <2>2. \A m : ~MayTake(r, m)' /\ ~MayName(r, m)'
      BY <2>1 DEF MayTake, MayName, AtWork, Tasks
    <2>3. Brings(r)' /\ KnowsRecord(r)'
      BY <2>1 DEF Brings, KnowsRecord, Tasks
    <2> QED  BY <1>3, <1>6, <1>7, <1>8, <1>10, <2>1, <2>2, <2>3 DEF TaskChange, Tasks, Clean
  <1>11. ASSUME Goto(r, "putMetadata"),
                Carry(r, [c EXCEPT !.locs =
                     IF c.op = "moveSome" THEN (c.locs \ {"old1"}) \cup {r} ELSE {r}])
         PROVE  TaskChange(r, "putMetadata")
    <2>1. PICK S \in SUBSET ReplicaLocs :
            S = IF c.op = "moveSome" THEN (c.locs \ {"old1"}) \cup {r} ELSE {r}
      BY <1>1, <1>2 DEF ReplicaCtx
    <2>2. PICK d \in ReplicaCtx : d = [c EXCEPT !.locs = S]
      BY <1>2 DEF ReplicaCtx
    <2>3. d.op = c.op /\ d.locs = S /\ d.obj = c.obj
      BY <1>2, <2>2 DEF ReplicaCtx
    <2>4. ctx' = [ctx EXCEPT ![r] = d] /\ pc' = [pc EXCEPT ![r] = "putMetadata"]
      BY <1>11, <2>1, <2>2 DEF Carry, Goto
    <2>5. c.op \in scene.ops /\ c.op # "metadataOnly"
      BY <1>0, <1>1, <1>2, <1>8 DEF BackbeatTypes, Tasks, KnowsRecord
    <2>6. TaskFrame(r, "putMetadata") /\ pc'[r] = "putMetadata" /\ ctx'[r] = d
      BY <1>0, <1>1, <1>6, <2>3, <2>4, <2>5, TaskFramed DEF Tasks
    <2>7. \A m : ~MayTake(r, m)' /\ (MayName(r, m)' => MayName(r, m) \/ m = r)
      BY <1>1, <1>2, <2>1, <2>3, <2>6 DEF MayTake, MayName, AtWork, Tasks
    <2>8. Keeping => Brings(r)'
      <3>1. Keeping /\ scene.sequential => S \subseteq Locs \cup {r}
        BY <1>1, <1>2, <1>7, <2>1 DEF Brings
      <3>2. Keeping /\ ~scene.sequential => S = {r}
        BY <1>1, <1>2, <1>7, <2>1 DEF Brings
      <3> QED  BY <1>3, <1>6, <2>3, <2>6, <3>1, <3>2 DEF Brings
    <2>9. KnowsRecord(r)'
      BY <2>1, <2>3, <2>5, <2>6 DEF KnowsRecord, Tasks, WholeSet
    <2>10. Owes(r, r)'
      BY <2>1, <2>3, <2>6 DEF Owes
    <2> QED
      BY <1>1, <1>3, <1>6, <1>7, <1>8, <1>9, <2>6, <2>7, <2>8, <2>9, <2>10 DEF TaskChange, Tasks
  <1> QED  BY <1>2, <1>10, <1>11 DEF PutData

\* putMetadata remembers the record that it will replace.
LEMMA PutMetadataChanges ==
    ASSUME BackbeatInv, NEW r \in Reqs, PutMetadata(r), UNCHANGED scene
    PROVE  \E l : TaskChange(r, l)
  <1>0. BackbeatTypes /\ OneTask /\ Untold /\ ReplicaKept /\ ReplicaClean
    BY DEF BackbeatInv
  <1>1. pc[r] = "putMetadata" /\ Running(r) /\ Free(r)
    BY DEF PutMetadata, Running
  <1>2. PICK c \in ReplicaCtx : c = ctx[r] /\ c.op \in scene.ops
    BY <1>0, <1>1 DEF BackbeatTypes, Tasks
  <1>3. KnowsRecord(r) /\ ("moveSome" \notin scene.ops => WholeSet(Locs))
    BY <1>0 DEF ReplicaClean
  <1>4. CASE c.op = "metadataOnly" /\ store.record = None
    <2>1. store' = store /\ ctx' = ctx /\ pc' = [pc EXCEPT ![r] = "failed"]
      BY <1>2, <1>4 DEF PutMetadata, Refuse, Goto
    <2>2. TaskFrame(r, "failed")
      BY <1>0, <1>1, <2>1, SameCtx, TaskFramed DEF Tasks, BackbeatTypes
    <2>3. \A m : ~Owes(r, m)
      BY <1>1, <1>2, <1>3, <1>4 DEF Owes, KnowsRecord
    <2> QED  BY <2>1, <2>2, <2>3, TaskStill DEF Tasks
  <1>5. CASE ~(c.op = "metadataOnly" /\ store.record = None)
    <2>1. /\ ctx' = [ctx EXCEPT ![r] = WithLocations(c, store.record)]
          /\ pc' = [pc EXCEPT ![r] = "writeRecord"] /\ store' = store
      BY <1>2, <1>5 DEF PutMetadata, Carry, Goto
    <2>2. PICK o \in ReplicaRecord \cup {None} : o = store.record
      BY <1>0 DEF BackbeatTypes, ReplicaStore
    <2>3. c.op = "metadataOnly" => o # None /\ o.locs \in SUBSET ReplicaLocs /\ o.locs = Locs
      BY <1>5, <2>2 DEF ReplicaRecord, Locs
    <2>4. PICK S \in SUBSET ReplicaLocs : S = IF c.op = "metadataOnly" THEN o.locs ELSE c.locs
      BY <1>2, <2>3 DEF ReplicaCtx
    <2>5. PICK d \in ReplicaCtx : d = [c EXCEPT !.obj = o, !.locs = S]
      <3>1. PICK op, f, a, b, e : c = [op |-> op, found |-> f, locs |-> a, obj |-> b, meta |-> e]
        BY <1>2 DEF ReplicaCtx
      <3> DEFINE half == [op |-> op, found |-> f, locs |-> a, obj |-> o, meta |-> e]
      <3>2. [c EXCEPT !.obj = o] = half
        BY <3>1
      <3>3. [half EXCEPT !.locs = S] =
                [op |-> op, found |-> f, locs |-> S, obj |-> o, meta |-> e]
        OBVIOUS
      <3>4. [c EXCEPT !.obj = o, !.locs = S] = [half EXCEPT !.locs = S]
        <4> HIDE DEF half
        <4> QED  BY <3>2
      <3>5. /\ op \in {"move", "updateStatus", "moveSome", "metadataOnly"}
            /\ f \in SUBSET ReplicaLocs /\ e \in Reqs
        BY <1>2, <3>1 DEF ReplicaCtx
      <3>6. [op |-> op, found |-> f, locs |-> S, obj |-> o, meta |-> e] \in ReplicaCtx
        BY <3>5 DEF ReplicaCtx
      <3> QED  BY <3>3, <3>4, <3>6
    <2>6. d.op = c.op /\ d.obj = o /\ d.locs = S
      BY <1>2, <2>5 DEF ReplicaCtx
    <2>7. ctx' = [ctx EXCEPT ![r] = d]
      BY <2>1, <2>2, <2>4, <2>5 DEF WithLocations
    <2>8. TaskFrame(r, "writeRecord") /\ pc'[r] = "writeRecord" /\ ctx'[r] = d
      BY <1>0, <1>1, <1>2, <2>1, <2>6, <2>7, TaskFramed DEF Tasks, BackbeatTypes
    <2>9. AloneAtWork(r)
      BY <1>1 DEF AloneAtWork, AtWork, Free, InHandler
    <2>10. Locs' = Locs
      BY <2>1 DEF Locs
    <2>11. \A m : /\ MayTake(r, m)' => m \in Locs
                  /\ MayName(r, m)' => MayName(r, m) \/ m \in Locs
      BY <1>1, <1>2, <2>2, <2>3, <2>4, <2>6, <2>8 DEF MayTake, MayName, AtWork, Tasks, Locs
    <2>12. Keeping => Locs \subseteq store.data /\ Locs \cap store.retired = {} /\ Brings(r)
      BY <1>0 DEF ReplicaKept
    <2>13. Keeping => Brings(r)'
      <3>1. CASE c.op = "metadataOnly"
        <4>1. r \notin Locs
          BY <1>0, <1>1 DEF Untold, Tasks
        <4>2. Keeping => scene.sequential \/ "oneRequest" \in scene.ops
          BY <1>2, <3>1 DEF Keeping, WritesBackStale
        <4> QED  BY <2>1, <2>3, <2>4, <2>6, <2>8, <2>10, <3>1, <4>1, <4>2 DEF Brings
      <3>2. CASE c.op # "metadataOnly"
        BY <1>1, <1>2, <2>1, <2>4, <2>6, <2>8, <2>10, <2>12, <3>2 DEF Brings
      <3> QED  BY <3>1, <3>2
    <2>14. KnowsRecord(r)'
      <3>1. "moveSome" \notin scene.ops => WholeSet(S)
        BY <1>1, <1>2, <1>3, <2>3, <2>4 DEF KnowsRecord, Tasks
      <3> QED  BY <2>1, <2>2, <2>3, <2>4, <2>6, <2>8, <3>1 DEF KnowsRecord, Tasks, WholeSet
    <2>15. \A m : Owes(r, m) => Owes(r, m)'
      BY <1>1, <1>2, <1>3, <2>4, <2>6, <2>8 DEF Owes, KnowsRecord
    <2>16. Clean => \A m \in store.data :
             \/ m \in Locs
             \/ "moveSome" \in scene.ops /\ m \in store.retired
             \/ \E q \in Reqs : Owes(q, m)
      BY <1>0 DEF ReplicaClean
    <2> QED
      BY <1>1, <1>3, <2>1, <2>8, <2>9, <2>10, <2>11, <2>12, <2>13, <2>14, <2>15, <2>16
      DEF TaskChange, Tasks
  <1> QED  BY <1>4, <1>5

\* The record is replaced; what is to be deleted is named by it no more.
LEMMA PutObjectMDChanges ==
    ASSUME BackbeatInv, NEW r \in Reqs, PutObjectMD(r), UNCHANGED scene
    PROVE  \E l : TaskChange(r, l)
  <1>0. BackbeatTypes /\ OneTask /\ Untold /\ ReplicaKept /\ ReplicaClean
    BY DEF BackbeatInv
  <1>1. pc[r] = "writeRecord" /\ Running(r) /\ AtWork(r) /\ ctx' = ctx
    BY DEF PutObjectMD, Running, AtWork
  <1>2. PICK c \in ReplicaCtx : c = ctx[r] /\ c.op \in scene.ops
    BY <1>0, <1>1 DEF BackbeatTypes, Tasks
  <1>3. PICK n \in ReplicaRecord : n = [locs |-> c.locs, meta |-> c.meta]
    BY <1>2 DEF ReplicaRecord, ReplicaCtx
  <1>4. n # None /\ n.locs = c.locs
    BY <1>3, BackbeatAssumption
  <1>5. Locs \in SUBSET ReplicaLocs /\ store.retired \in SUBSET ReplicaLocs
    BY <1>0 DEF BackbeatTypes, ReplicaStore, ReplicaRecord, Locs
  <1>6. PICK R \in SUBSET ReplicaLocs : R = (store.retired \cup Locs) \ c.locs
    BY <1>5
  <1>7. PICK l \in {"deleteOld", "ok"} :
            /\ pc' = [pc EXCEPT ![r] = l]
            /\ l = "deleteOld" <=> /\ c.obj # None /\ c.op # "metadataOnly"
                                   /\ LocationKeysHaveChanged(c.obj.locs, c.locs)
    BY <1>2 DEF PutObjectMD, Goto
  <1>8. store' = [store EXCEPT !.record = n, !.retired = R]
    BY <1>2, <1>3, <1>6 DEF PutObjectMD
  <1>9. Rewritten(store', n, store.data, R)
    BY <1>0, <1>8, ReplicaWritten DEF BackbeatTypes, ReplicaStore
  <1>10. /\ ReplicaStore(store') /\ store'.record = n /\ Locs' = c.locs
         /\ store'.data = store.data /\ store'.retired = R
    BY <1>4, <1>9 DEF Rewritten, Locs
  <1>11. TaskFrame(r, l) /\ pc'[r] = l /\ ctx'[r] = c
    <2>1. l = "deleteOld" => c.obj \in ReplicaRecord
      BY <1>2, <1>7 DEF ReplicaCtx
    <2>2. ctx' = [ctx EXCEPT ![r] = c]
      BY <1>0, <1>1, <1>2, SameCtx
    <2> QED  BY <1>0, <1>1, <1>2, <1>7, <1>10, <2>1, <2>2, TaskFramed DEF Tasks
  <1>12. AloneAtWork(r)
    BY <1>0, <1>1 DEF OneTask, AloneAtWork
  <1>13. \A m : m \in Locs' <=> MayName(r, m)
    BY <1>1, <1>2, <1>10 DEF MayName, Tasks
  <1>14. \A m : /\ MayTake(r, m)' => MayTake(r, m)
                /\ ~MayName(r, m)'
    BY <1>1, <1>2, <1>7, <1>11 DEF MayTake, MayName, AtWork, Tasks
  <1>15. Brings(r)' /\ KnowsRecord(r)'
    BY <1>7, <1>11 DEF Brings, KnowsRecord, Tasks
  <1>16. Keeping =>
           /\ Locs' \subseteq store.data /\ Locs' \cap R = {}
           /\ Locs' \subseteq Locs \cup {r}
           /\ l = "deleteOld" => c.obj.locs \cap Locs' = {}
    <2>1. Keeping => Brings(r) /\ Locs \subseteq store.data
      BY <1>0 DEF ReplicaKept
    <2>2. Keeping => c.locs \subseteq Locs \cup {r} /\ (r \in c.locs => r \in store.data)
      BY <1>1, <1>2, <2>1 DEF Brings
    <2>3. l = "deleteOld" => c.obj.locs \cap c.locs = {}
      BY <1>7 DEF LocationKeysHaveChanged
    <2> QED  BY <1>6, <1>10, <2>1, <2>2, <2>3
  <1>17. KnowsRecord(r) /\ ("moveSome" \notin scene.ops => WholeSet(Locs))
    BY <1>0 DEF ReplicaClean
  <1>18. "moveSome" \notin scene.ops => WholeSet(Locs')
    BY <1>1, <1>2, <1>10, <1>17 DEF KnowsRecord, Tasks
  <1>19. Clean => \A m \in store.data :
           \/ m \in Locs'
           \/ "moveSome" \in scene.ops /\ m \in R
           \/ Owes(r, m)'
           \/ \E q \in Reqs \ {r} : Owes(q, m)
    <2> SUFFICES ASSUME Clean, NEW m \in store.data, m \notin Locs',
                        ~("moveSome" \in scene.ops /\ m \in R),
                        \A q \in Reqs \ {r} : ~Owes(q, m)
                 PROVE  Owes(r, m)'
      BY <1>10
    <2>1. m \in Locs /\ "moveSome" \notin scene.ops
      <3>1. ~Owes(r, m)
        BY <1>1, <1>2, <1>10 DEF Owes
      <3>2. \/ m \in Locs
            \/ "moveSome" \in scene.ops /\ m \in store.retired
        BY <1>0, <3>1 DEF ReplicaClean
      <3> QED  BY <1>6, <1>10, <3>2
    <2>2. c.obj = store.record /\ c.obj # None /\ c.obj.locs = Locs
      BY <1>1, <1>2, <1>17, <2>1 DEF KnowsRecord, Locs
    <2>3. c.op # "metadataOnly"
      BY <1>1, <1>2, <1>10, <1>17, <2>1, <2>2 DEF KnowsRecord
    <2>4. Locs \cap c.locs = {}
      <3>1. WholeSet(Locs) /\ WholeSet(c.locs)
        BY <1>1, <1>2, <1>17, <2>1 DEF KnowsRecord, Tasks
      <3> QED  BY <1>10, <2>1, <3>1, BackbeatAssumption DEF WholeSet
    <2>5. l = "deleteOld"
      BY <1>7, <2>2, <2>3, <2>4 DEF LocationKeysHaveChanged
    <2> QED  BY <1>11, <2>1, <2>2, <2>5 DEF Owes
  <1> QED
    BY <1>1, <1>5, <1>6, <1>7, <1>10, <1>11, <1>12, <1>13, <1>14, <1>15, <1>16, <1>18, <1>19
    DEF TaskChange, Tasks

\* Deletions take what no record names, an expiration the record first.
LEMMA DeletionsOfTasksChange ==
    ASSUME BackbeatInv, NEW r \in Reqs, UNCHANGED scene,
           RemoveOldLocations(r) \/ BatchDelete(r) \/ DeleteObjectFromExpiration(r)
    PROVE  \E l : TaskChange(r, l)
  <1>0. BackbeatTypes /\ OneTask /\ Untold /\ ReplicaKept /\ ReplicaClean
    BY DEF BackbeatInv
  <1>1. Locs \in SUBSET ReplicaLocs /\ store.retired \in SUBSET ReplicaLocs
        /\ store.data \in SUBSET ReplicaLocs /\ store.record \in ReplicaRecord \cup {None}
    BY <1>0 DEF BackbeatTypes, ReplicaStore, ReplicaRecord, Locs
  <1>2. Keeping => Locs \subseteq store.data /\ Locs \cap store.retired = {}
    BY <1>0 DEF ReplicaKept
  <1>3. "moveSome" \notin scene.ops => WholeSet(Locs)
    BY <1>0 DEF ReplicaClean
  <1>4. Clean => \A m \in store.data :
           \/ m \in Locs
           \/ "moveSome" \in scene.ops /\ m \in store.retired
           \/ \E q \in Reqs : Owes(q, m)
    BY <1>0 DEF ReplicaClean
  <1>5. ASSUME NEW D \in SUBSET ReplicaLocs, store' = [store EXCEPT !.data = D], Ends(r),
               Running(r) \/ (scene.sequential => Quiet)
        PROVE  /\ TaskFrame(r, "ok") /\ Locs' = Locs /\ store'.record = store.record
               /\ store'.data = D /\ store'.retired = store.retired
               /\ \A m : ~MayTake(r, m)' /\ ~MayName(r, m)'
               /\ Brings(r)' /\ KnowsRecord(r)'
    <2>1. Rewritten(store', store.record, D, store.retired)
      BY <1>0, <1>5, ReplicaWritten DEF BackbeatTypes, ReplicaStore
    <2>2. /\ ReplicaStore(store') /\ store'.record = store.record /\ Locs' = Locs
          /\ store'.data = D /\ store'.retired = store.retired
      BY <2>1 DEF Rewritten, Locs
    <2>3. TaskFrame(r, "ok") /\ pc'[r] = "ok"
      BY <1>0, <1>5, <2>2, SameCtx, TaskFramed DEF Ends, Goto, Tasks
    <2> QED  BY <2>2, <2>3 DEF MayTake, MayName, AtWork, Tasks, Brings, KnowsRecord
  <1>6. CASE RemoveOldLocations(r)
    <2>1. pc[r] = "deleteOld" /\ Running(r) /\ ctx[r].obj # None
      BY <1>0, <1>6, BackbeatAssumption DEF RemoveOldLocations, Running, BackbeatTypes
    <2>2. PICK D \in SUBSET ReplicaLocs : D = store.data \ ctx[r].obj.locs
      BY <1>1
    <2>3. store' = [store EXCEPT !.data = D] /\ Ends(r)
      BY <1>6, <2>2 DEF RemoveOldLocations
    <2>4. Keeping => ctx[r].obj.locs \cap Locs = {}
      BY <1>0, <2>1 DEF ReplicaKept
    <2>5. \A m : MayTake(r, m) <=> m \in ctx[r].obj.locs
      BY <2>1 DEF MayTake, AtWork
    <2>6. \A m : Owes(r, m) => m \in ctx[r].obj.locs
      BY <2>1 DEF Owes
    <2>7. Clean => \A m \in D : \/ m \in Locs
                                \/ "moveSome" \in scene.ops /\ m \in store.retired
                                \/ \E q \in Reqs \ {r} : Owes(q, m)
      BY <1>4, <2>2, <2>6
    <2> QED  BY <1>2, <1>3, <1>5, <2>1, <2>2, <2>3, <2>4, <2>5, <2>7 DEF TaskChange, Tasks
  <1>7. CASE BatchDelete(r)
    <2>1. pc[r] = "idle" /\ (scene.sequential => Quiet)
      BY <1>7 DEF BatchDelete, Sent
    <2>2. PICK D \in SUBSET ReplicaLocs : D = store.data \ store.retired
      BY <1>1
    <2>3. store' = [store EXCEPT !.data = D] /\ Ends(r)
      BY <1>7, <2>2 DEF BatchDelete
    <2>4. \A m : ~Owes(r, m)
      BY <2>1 DEF Owes
    <2>5. Clean => \A m \in D : \/ m \in Locs
                                \/ "moveSome" \in scene.ops /\ m \in store.retired
                                \/ \E q \in Reqs \ {r} : Owes(q, m)
      BY <1>4, <2>2, <2>4
    <2> QED  BY <1>2, <1>3, <1>5, <2>1, <2>2, <2>3, <2>5 DEF TaskChange, Tasks
  <1>8. CASE DeleteObjectFromExpiration(r)
    <2>1. pc[r] = "idle" /\ (scene.sequential => Quiet) /\ Free(r) /\ store.record # None
      BY <1>8 DEF DeleteObjectFromExpiration, Sent
    <2>2. PICK R \in SUBSET ReplicaLocs : R = store.retired \cup Locs
      BY <1>1
    <2>3. PICK c \in ExpiryCtx : c = [op |-> "expiration", obj |-> store.record]
      BY <1>1, <2>1 DEF ExpiryCtx
    <2>4. c.obj = store.record /\ c.obj \in ReplicaRecord /\ c.obj.locs = Locs
      BY <1>1, <2>1, <2>3 DEF Locs
    <2>5. /\ ctx' = [ctx EXCEPT ![r] = c] /\ pc' = [pc EXCEPT ![r] = "deleteOld"]
          /\ store' = [store EXCEPT !.record = None, !.retired = R]
      BY <1>8, <2>2, <2>3 DEF DeleteObjectFromExpiration, Carry, Goto
    <2>6. Rewritten(store', None, store.data, R)
      BY <1>0, <2>5, ReplicaWritten DEF BackbeatTypes, ReplicaStore
    <2>7. /\ ReplicaStore(store') /\ store'.record = None /\ Locs' = {}
          /\ store'.data = store.data /\ store'.retired = R
      BY <2>6 DEF Rewritten, Locs
    <2>8. TaskFrame(r, "deleteOld") /\ pc'[r] = "deleteOld" /\ ctx'[r] = c
      BY <1>0, <2>1, <2>3, <2>4, <2>5, <2>7, TaskFramed DEF Tasks
    <2>9. AloneAtWork(r)
      BY <2>1 DEF AloneAtWork, AtWork, Free, InHandler
    <2>10. \A m : (MayTake(r, m)' => m \in Locs) /\ ~MayName(r, m)'
      BY <2>4, <2>8 DEF MayTake, MayName, AtWork, Tasks
    <2>11. Brings(r)' /\ KnowsRecord(r)' /\ WholeSet({})
      BY <2>8 DEF Brings, KnowsRecord, Tasks, WholeSet
    <2>12. \A m \in Locs : Owes(r, m)'
      BY <2>4, <2>8 DEF Owes
    <2>13. \A m : ~Owes(r, m)
      BY <2>1 DEF Owes
    <2> QED
      BY <1>2, <1>4, <2>1, <2>2, <2>4, <2>7, <2>8, <2>9, <2>10, <2>11, <2>12, <2>13
      DEF TaskChange, Tasks
  <1> QED  BY <1>6, <1>7, <1>8

\* What is done to objects of other services leaves this server's alone, and their
\* change counter never goes back.
RemoteKeeps(w) ==
    /\ ReplicaStore(w)
    /\ w.record = store.record /\ w.data = store.data /\ w.retired = store.retired
    /\ w.backend = store.backend
    /\ w.remote.changed >= store.remote.changed

\* Such writes, one by one.
LEMMA RemoteWrites ==
    ASSUME ReplicaStore(store)
    PROVE  /\ RemoteKeeps(store)
           /\ \A t : RemoteKeeps([store EXCEPT !.remote = Change(t)])
           /\ RemoteKeeps([store EXCEPT !.remote.there = FALSE])
           /\ \A t : RemoteKeeps([store EXCEPT !.remote.tags = t])
           /\ RemoteKeeps([store EXCEPT !.remote.doomed = TRUE])
           /\ \A u, S : RemoteKeeps([store EXCEPT !.uploads[u] = S])
           /\ \A u : RemoteKeeps([store EXCEPT !.uploads[u] = None, !.remote = Change(u)])
  <1>1. PICK a, d, t, b, x, u : store = [record |-> a, data |-> d, retired |-> t,
                                        backend |-> b, remote |-> x, uploads |-> u]
    BY DEF ReplicaStore
  <1>2. /\ store.record = a /\ store.data = d /\ store.retired = t
        /\ store.backend = b /\ store.remote = x
    BY <1>1
  <1>3. PICK h, n, g, m : /\ x = [there |-> h, changed |-> n, tags |-> g, doomed |-> m]
                          /\ n \in Nat
    BY <1>2 DEF ReplicaStore
  <1> DEFINE Remote4(y) == y = [there |-> y.there, changed |-> y.changed, tags |-> y.tags,
                                doomed |-> y.doomed]
             Filled(y, v) == [record |-> a, data |-> d, retired |-> t, backend |-> b,
                              remote |-> y, uploads |-> v]
  <1>4. ASSUME NEW y, NEW v, Remote4(y), y.changed \in Nat, y.changed >= n
        PROVE  RemoteKeeps(Filled(y, v))
    <2>1. PICK w : w = Filled(y, v)
      OBVIOUS
    <2>2. /\ w.record = a /\ w.data = d /\ w.retired = t /\ w.backend = b /\ w.remote = y
          /\ w.uploads = v
      BY <2>1
    <2>3. x.changed = n
      BY <1>3
    <2> QED  BY <1>2, <1>4, <2>1, <2>2, <2>3 DEF RemoteKeeps, ReplicaStore
  <1>5. Remote4(x) /\ x.changed = n /\ n >= n
    BY <1>3
  <1>6. \A s : Remote4(Change(s)) /\ Change(s).changed \in Nat /\ Change(s).changed >= n
    BY <1>2, <1>3, <1>5 DEF Change
  <1>7. PICK x1 : x1 = [x EXCEPT !.there = FALSE]
    OBVIOUS
  <1>8. x1 = [there |-> FALSE, changed |-> n, tags |-> g, doomed |-> m]
    BY <1>3, <1>7
  <1>9. Remote4(x1) /\ x1.changed = n
    BY <1>8
  <1>10. ASSUME NEW s
         PROVE  Remote4([x EXCEPT !.tags = s]) /\ [x EXCEPT !.tags = s].changed = n
    <2>1. [x EXCEPT !.tags = s] = [there |-> h, changed |-> n, tags |-> s, doomed |-> m]
      BY <1>3
    <2> QED  BY <2>1
  <1>11. PICK x2 : x2 = [x EXCEPT !.doomed = TRUE]
    OBVIOUS
  <1>12. x2 = [there |-> h, changed |-> n, tags |-> g, doomed |-> TRUE]
    BY <1>3, <1>11
  <1>13. Remote4(x2) /\ x2.changed = n
    BY <1>12
  <1>14. [store EXCEPT !.remote.there = FALSE] = Filled(x1, u)
    <2>1. [store EXCEPT !.remote.there = FALSE] = [store EXCEPT !.remote = x1]
      BY <1>2, <1>7
    <2>2. [store EXCEPT !.remote = x1] = Filled(x1, u)
      BY <1>1
    <2> QED  BY <2>1, <2>2
  <1>15. [store EXCEPT !.remote.doomed = TRUE] = Filled(x2, u)
    <2>1. [store EXCEPT !.remote.doomed = TRUE] = [store EXCEPT !.remote = x2]
      BY <1>2, <1>11
    <2>2. [store EXCEPT !.remote = x2] = Filled(x2, u)
      BY <1>1
    <2> QED  BY <2>1, <2>2
  <1>16. store = Filled(x, u)
    BY <1>1
  <1>17. ASSUME NEW s
         PROVE  [store EXCEPT !.remote = Change(s)] = Filled(Change(s), u)
    BY <1>1
  <1>18. ASSUME NEW s
         PROVE  [store EXCEPT !.remote.tags = s] = Filled([x EXCEPT !.tags = s], u)
    <2>1. PICK y : y = [x EXCEPT !.tags = s]
      OBVIOUS
    <2>2. [store EXCEPT !.remote.tags = s] = [store EXCEPT !.remote = y]
      BY <1>2, <2>1
    <2>3. [store EXCEPT !.remote = y] = Filled(y, u)
      BY <1>1
    <2> QED  BY <2>1, <2>2, <2>3
  <1>19. ASSUME NEW v, NEW S
         PROVE  [store EXCEPT !.uploads[v] = S] = Filled(x, [u EXCEPT ![v] = S])
    BY <1>1
  <1>20. ASSUME NEW v
         PROVE  [store EXCEPT !.uploads[v] = None, !.remote = Change(v)] =
                    Filled(Change(v), [u EXCEPT ![v] = None])
    <2> DEFINE half == Filled(x, [u EXCEPT ![v] = None])
    <2>1. [store EXCEPT !.uploads[v] = None] = half
      BY <1>19
    <2>2. PICK y : y = Change(v)
      OBVIOUS
    <2>3. [half EXCEPT !.remote = y] = Filled(y, [u EXCEPT ![v] = None])
      OBVIOUS
    <2>4. [store EXCEPT !.uploads[v] = None, !.remote = y] = [half EXCEPT !.remote = y]
      <3> HIDE DEF half
      <3> QED  BY <2>1
    <2> QED  BY <2>2, <2>3, <2>4
  <1> HIDE DEF Remote4, Filled
  <1>21. RemoteKeeps(store)
    BY <1>3, <1>4, <1>5, <1>16
  <1>22. ASSUME NEW s  PROVE  RemoteKeeps([store EXCEPT !.remote = Change(s)])
    BY <1>4, <1>6, <1>17
  <1>23. RemoteKeeps([store EXCEPT !.remote.there = FALSE])
    <2>1. RemoteKeeps(Filled(x1, u))
      BY <1>3, <1>4, <1>5, <1>9
    <2> QED  BY <1>14, <2>1
  <1>24. ASSUME NEW s  PROVE  RemoteKeeps([store EXCEPT !.remote.tags = s])
    <2>1. PICK y : y = [x EXCEPT !.tags = s]
      OBVIOUS
    <2>2. Remote4(y) /\ y.changed = n
      BY <1>10, <2>1
    <2>3. RemoteKeeps(Filled(y, u))
      BY <1>3, <1>4, <1>5, <2>2
    <2> QED  BY <1>18, <2>1, <2>3
  <1>25. RemoteKeeps([store EXCEPT !.remote.doomed = TRUE])
    <2>1. RemoteKeeps(Filled(x2, u))
      BY <1>3, <1>4, <1>5, <1>13
    <2> QED  BY <1>15, <2>1
  <1>26. ASSUME NEW v, NEW S  PROVE  RemoteKeeps([store EXCEPT !.uploads[v] = S])
    <2>1. RemoteKeeps(Filled(x, [u EXCEPT ![v] = S]))
      BY <1>3, <1>4, <1>5
    <2> QED  BY <1>19, <2>1
  <1>27. ASSUME NEW v
         PROVE  RemoteKeeps([store EXCEPT !.uploads[v] = None, !.remote = Change(v)])
    <2>1. RemoteKeeps(Filled(Change(v), [u EXCEPT ![v] = None]))
      BY <1>4, <1>6
    <2> QED  BY <1>20, <2>1
  <1> QED  BY <1>21, <1>22, <1>23, <1>24, <1>25, <1>26, <1>27

\* Routes for objects of other services leave this server's record and data alone.
LEMMA RemoteChanges ==
    ASSUME BackbeatInv, SawUnmodified, NEW r \in Reqs, UNCHANGED scene,
           \/ PutRemoteObject(r) \/ DeleteRemoteObject(r) \/ PutObjectTagging(r)
           \/ DeleteObjectTagging(r) \/ HeadObject(r) \/ InitiateRemoteUpload(r)
           \/ PutRemotePart(r) \/ CompleteRemoteUpload(r) \/ AbortRemoteUpload(r)
           \/ PerformConditionalDelete(r) \/ AzureConditionalDelete(r)
           \/ ConditionalTagging(r) \/ TagUnmodified(r) \/ ReadOnlyRoute(r) \/ Die(r)
    PROVE  (\E l : TaskChange(r, l)) /\ RemoteKeeps(store')
  <1>0. BackbeatTypes /\ ReplicaStore(store)
    BY DEF BackbeatInv, BackbeatTypes
  <1>1. ASSUME NEW l \in ConditionalCalls \cup {"ok", "failed"}, RemoteKeeps(store'),
               pc' = [pc EXCEPT ![r] = l],
               ctx' = ctx \/ \E c : ctx' = [ctx EXCEPT ![r] = c],
               Running(r) \/ (scene.sequential => Quiet),
               Clean => \A m : ~Owes(r, m)
        PROVE  TaskChange(r, l)
    <2>1. PICK c : ctx' = [ctx EXCEPT ![r] = c]
      BY <1>0, <1>1, SameCtx
    <2>2. l \notin Tasks \cup {"idle", "deleteOld"}
      BY DEF ConditionalCalls, Tasks
    <2>3. TaskFrame(r, l)
      BY <1>0, <1>1, <2>1, <2>2, TaskFramed DEF RemoteKeeps
    <2> QED  BY <1>1, <2>2, <2>3, TaskStill DEF RemoteKeeps
  <1>2. ASSUME NEW op, Remote(r, op), RemoteKeeps(store')  PROVE  TaskChange(r, "ok")
    <2>1. pc[r] = "idle" /\ (scene.sequential => Quiet) /\ ctx' = ctx
          /\ pc' = [pc EXCEPT ![r] = "ok"]
      BY <1>2 DEF Remote, Sent, Goto
    <2> QED  BY <1>1, <1>2, <2>1 DEF Owes
  <1>3. CASE PutRemoteObject(r) \/ DeleteRemoteObject(r) \/ PutObjectTagging(r)
             \/ DeleteObjectTagging(r) \/ HeadObject(r) \/ ReadOnlyRoute(r)
    <2>1. \E op : Remote(r, op)
      BY <1>3 DEF PutRemoteObject, DeleteRemoteObject, PutObjectTagging, DeleteObjectTagging,
                  HeadObject, ReadOnlyRoute
    <2>2. RemoteKeeps(store')
      BY <1>0, <1>3, RemoteWrites
      DEF PutRemoteObject, DeleteRemoteObject, PutObjectTagging, DeleteObjectTagging,
          HeadObject, ReadOnlyRoute
    <2> QED  BY <1>2, <2>1, <2>2
  <1>4. CASE InitiateRemoteUpload(r) \/ PutRemotePart(r) \/ AbortRemoteUpload(r)
             \/ CompleteRemoteUpload(r)
    <2>1. \E op : Remote(r, op)
      BY <1>4 DEF InitiateRemoteUpload, PutRemotePart, AbortRemoteUpload, CompleteRemoteUpload
    <2>2. \/ \E u, S : store' = [store EXCEPT !.uploads[u] = S]
          \/ \E u : store' = [store EXCEPT !.uploads[u] = None, !.remote = Change(u)]
      <3>1. CASE InitiateRemoteUpload(r)
        BY <3>1 DEF InitiateRemoteUpload
      <3>2. CASE PutRemotePart(r)
        <4>1. PICK u \in Reqs : store' = [store EXCEPT !.uploads[u] = store.uploads[u] \cup {r}]
          BY <3>2 DEF PutRemotePart
        <4> QED  BY <4>1
      <3>3. CASE AbortRemoteUpload(r)
        BY <3>3 DEF AbortRemoteUpload
      <3>4. CASE CompleteRemoteUpload(r)
        BY <3>4 DEF CompleteRemoteUpload
      <3> QED  BY <1>4, <3>1, <3>2, <3>3, <3>4
    <2>3. RemoteKeeps(store')
      <3>1. \A u, S : RemoteKeeps([store EXCEPT !.uploads[u] = S])
        BY <1>0, RemoteWrites
      <3>2. \A u : RemoteKeeps([store EXCEPT !.uploads[u] = None, !.remote = Change(u)])
        BY <1>0, RemoteWrites
      <3>3. CASE \E u, S : store' = [store EXCEPT !.uploads[u] = S]
        <4>1. PICK u, S : store' = [store EXCEPT !.uploads[u] = S]
          BY <3>3
        <4>2. RemoteKeeps([store EXCEPT !.uploads[u] = S])
          BY <3>1
        <4> QED  BY <4>1, <4>2
      <3>4. CASE \E u : store' = [store EXCEPT !.uploads[u] = None, !.remote = Change(u)]
        <4>1. PICK u : store' = [store EXCEPT !.uploads[u] = None, !.remote = Change(u)]
          BY <3>4
        <4>2. RemoteKeeps([store EXCEPT !.uploads[u] = None, !.remote = Change(u)])
          BY <3>2
        <4> QED  BY <4>1, <4>2
      <3> QED  BY <2>2, <3>3, <3>4
    <2> QED  BY <1>2, <2>1, <2>3
  <1>5. CASE PerformConditionalDelete(r)
    <2>1. /\ pc[r] = "idle" /\ (scene.sequential => Quiet) /\ store' = store
          /\ \E c : ctx' = [ctx EXCEPT ![r] = c]
          /\ \E l \in ConditionalCalls : pc' = [pc EXCEPT ![r] = l]
      BY <1>5 DEF PerformConditionalDelete, Sent, Carry, Goto, ConditionalCalls
    <2>2. RemoteKeeps(store')
      BY <1>0, <2>1, RemoteWrites
    <2> QED  BY <1>1, <2>1, <2>2 DEF Owes
  <1>6. CASE AzureConditionalDelete(r) \/ ConditionalTagging(r) \/ TagUnmodified(r)
    <2>1. /\ pc[r] \in ConditionalCalls /\ ctx' = ctx
          /\ \E l \in ConditionalCalls \cup {"ok"} : pc' = [pc EXCEPT ![r] = l]
      BY <1>6 DEF AzureConditionalDelete, ConditionalTagging, TagUnmodified, Ends, Goto,
                  ConditionalCalls
    <2>2. RemoteKeeps(store')
      BY <1>0, <1>6, RemoteWrites DEF AzureConditionalDelete, ConditionalTagging, TagUnmodified
    <2>3. Running(r) /\ \A m : ~Owes(r, m)
      BY <2>1 DEF Running, ConditionalCalls, Owes
    <2> QED  BY <1>1, <2>1, <2>2, <2>3
  <1>7. CASE Die(r)
    <2>1. /\ Running(r) /\ ~Clean /\ store' = store /\ ctx' = ctx
          /\ pc' = [pc EXCEPT ![r] = "failed"]
      BY <1>7 DEF Die, Goto, Clean
    <2>2. RemoteKeeps(store')
      BY <1>0, <2>1, RemoteWrites
    <2> QED  BY <1>1, <2>1, <2>2
  <1> QED  BY <1>3, <1>4, <1>5, <1>6, <1>7

\* What is done to this server's record leaves the object of the other service alone.
LEMMA RemoteStays ==
    ASSUME ReplicaStore(store), NEW D, NEW M, NEW R
    PROVE  /\ [store EXCEPT !.data = D].remote = store.remote
           /\ [store EXCEPT !.data = D].backend = store.backend
           /\ [store EXCEPT !.record = M, !.retired = R].remote = store.remote
           /\ [store EXCEPT !.record = M, !.retired = R].backend = store.backend
  <1>1. PICK a, d, t, b, x, u : store = [record |-> a, data |-> d, retired |-> t,
                                        backend |-> b, remote |-> x, uploads |-> u]
    BY DEF ReplicaStore
  <1> QED  BY <1>1

\* Whatever a task does is such a change.
LEMMA TasksChange ==
    ASSUME BackbeatInv, SawUnmodified, NEW r \in Reqs, UNCHANGED scene,
           BackbeatStep(r) \/ Die(r)
    PROVE  /\ \E l : TaskChange(r, l)
           /\ store'.backend = store.backend
           /\ store'.remote.changed \in Nat /\ store'.remote.changed >= store.remote.changed
  <1>0. ReplicaStore(store) /\ store.remote.changed \in Nat
    BY DEF BackbeatInv, BackbeatTypes, ReplicaStore
  <1>1. ASSUME \/ store' = store
               \/ \E D : store' = [store EXCEPT !.data = D]
               \/ \E M, R : store' = [store EXCEPT !.record = M, !.retired = R]
        PROVE  store'.backend = store.backend /\ store'.remote = store.remote
    <2>1. CASE store' = store
      BY <2>1
    <2>2. CASE \E D : store' = [store EXCEPT !.data = D]
      BY <1>0, <2>2, RemoteStays
    <2>3. CASE \E M, R : store' = [store EXCEPT !.record = M, !.retired = R]
      BY <1>0, <2>3, RemoteStays
    <2> QED  BY <1>1, <2>1, <2>2, <2>3
  <1>2. CASE GetMetadata(r)
    <2>1. store' = store
      BY <1>2 DEF GetMetadata
    <2> QED  BY <1>0, <1>1, <1>2, <2>1, GetMetadataChanges
  <1>3. CASE PutData(r)
    <2>1. \E D : store' = [store EXCEPT !.data = D]
      BY <1>3 DEF PutData
    <2> QED  BY <1>0, <1>1, <1>3, <2>1, PutDataChanges
  <1>4. CASE ReplicateMetadata(r)
    <2>1. store' = store
      BY <1>4 DEF ReplicateMetadata
    <2> QED  BY <1>0, <1>1, <1>4, <2>1, ReplicateMetadataChanges
  <1>5. CASE PutMetadata(r)
    <2>1. store' = store
      BY <1>5 DEF PutMetadata, Refuse
    <2> QED  BY <1>0, <1>1, <1>5, <2>1, PutMetadataChanges
  <1>6. CASE PutObjectMD(r)
    <2>1. \E M, R : store' = [store EXCEPT !.record = M, !.retired = R]
      BY <1>6 DEF PutObjectMD
    <2> QED  BY <1>0, <1>1, <1>6, <2>1, PutObjectMDChanges
  <1>7. CASE RemoveOldLocations(r) \/ BatchDelete(r) \/ DeleteObjectFromExpiration(r)
    <2>1. store'.backend = store.backend /\ store'.remote = store.remote
      <3>1. CASE RemoveOldLocations(r) \/ BatchDelete(r)
        <4>1. \E D : store' = [store EXCEPT !.data = D]
          BY <3>1 DEF RemoveOldLocations, BatchDelete
        <4> QED  BY <1>1, <4>1
      <3>2. CASE DeleteObjectFromExpiration(r)
        <4>1. PICK R : R = store.retired \cup Locs
          OBVIOUS
        <4>2. store' = [store EXCEPT !.record = None, !.retired = R]
          BY <3>2, <4>1 DEF DeleteObjectFromExpiration
        <4> QED  BY <1>1, <4>2
      <3> QED  BY <1>7, <3>1, <3>2
    <2> QED  BY <1>0, <1>7, <2>1, DeletionsOfTasksChange
  <1>8. CASE \/ PutRemoteObject(r) \/ DeleteRemoteObject(r) \/ PutObjectTagging(r)
             \/ DeleteObjectTagging(r) \/ HeadObject(r) \/ InitiateRemoteUpload(r)
             \/ PutRemotePart(r) \/ CompleteRemoteUpload(r) \/ AbortRemoteUpload(r)
             \/ PerformConditionalDelete(r) \/ AzureConditionalDelete(r)
             \/ ConditionalTagging(r) \/ TagUnmodified(r) \/ ReadOnlyRoute(r) \/ Die(r)
    <2>1. (\E l : TaskChange(r, l)) /\ RemoteKeeps(store')
      BY <1>8, RemoteChanges
    <2> QED  BY <2>1 DEF RemoteKeeps, ReplicaStore
  <1> QED  BY <1>2, <1>3, <1>4, <1>5, <1>6, <1>7, <1>8 DEF BackbeatStep

\* Only a conditional deletion enters one of its calls.
LEMMA SawKept ==
    ASSUME BackbeatInv, SawUnmodified, NEW r \in Reqs, UNCHANGED scene,
           BackbeatStep(r) \/ Die(r)
    PROVE  SawUnmodified'
  <1>1. PICK l : TaskChange(r, l)
    BY TasksChange
  <1>2. /\ store'.backend = store.backend /\ store.remote.changed \in Nat
        /\ store'.remote.changed \in Nat /\ store'.remote.changed >= store.remote.changed
    BY TasksChange DEF BackbeatInv, BackbeatTypes, ReplicaStore
  <1>3. /\ \A q \in Reqs \ {r} : pc'[q] = pc[q] /\ ctx'[q] = ctx[q]
        /\ scene.sequential => \A q \in Reqs \ {r} : ~Running(q)
    BY <1>1 DEF TaskChange, TaskFrame, BackbeatInv, BackbeatTypes, OneTask, Quiet
  <1>4. ASSUME NEW q \in Reqs, q # r
        PROVE  /\ pc'[q] \in ConditionalCalls =>
                    ctx'[q].seen \in Nat /\ ctx'[q].seen <= store'.remote.changed
               /\ pc'[q] = "azureDelete" => store'.backend = "azure"
               /\ pc'[q] \in {"askDate", "tagUnmodified"} => store'.backend # "azure"
               /\ pc'[q] = "tagUnmodified" /\ scene'.sequential =>
                    store'.remote.changed = ctx'[q].seen
    <2>1. pc'[q] = pc[q] /\ ctx'[q] = ctx[q] /\ (scene.sequential => ~Running(q))
      BY <1>3, <1>4
    <2>2. pc[q] = "tagUnmodified" => Running(q)
      BY DEF Running
    <2>3. pc[q] \in ConditionalCalls => ctx[q].seen \in Nat /\ ctx[q].seen <= store.remote.changed
      BY DEF SawUnmodified
    <2>4. /\ pc[q] = "azureDelete" => store.backend = "azure"
          /\ pc[q] \in {"askDate", "tagUnmodified"} => store.backend # "azure"
      BY DEF SawUnmodified
    <2> QED  BY <1>2, <2>1, <2>2, <2>3, <2>4
  <1>5. CASE PerformConditionalDelete(r)
    <2>1. PICK s \in 0..store.remote.changed :
              ctx' = [ctx EXCEPT ![r] = [op |-> "conditionalDelete", seen |-> s]]
      BY <1>5 DEF PerformConditionalDelete, Carry
    <2>2. ctx'[r].seen = s
      BY <2>1 DEF BackbeatInv, BackbeatTypes
    <2>3. pc'[r] = IF store.backend = "azure" THEN "azureDelete" ELSE "askDate"
      BY <1>5 DEF PerformConditionalDelete, Goto, BackbeatInv, BackbeatTypes
    <2>4. ctx'[r].seen \in Nat /\ ctx'[r].seen <= store'.remote.changed
      BY <1>2, <2>1, <2>2
    <2> QED  BY <1>2, <1>4, <2>3, <2>4 DEF SawUnmodified
  <1>6. CASE ConditionalTagging(r)
    <2>1. pc[r] = "askDate" /\ store' = store /\ ctx' = ctx
      BY <1>6 DEF ConditionalTagging
    <2>2. /\ pc'[r] \in {"ok", "tagUnmodified"}
          /\ pc'[r] = "tagUnmodified" => store.remote.changed <= ctx[r].seen
      BY <1>6 DEF ConditionalTagging, Goto, BackbeatInv, BackbeatTypes
    <2>3. ctx[r].seen \in Nat /\ ctx[r].seen <= store.remote.changed /\ store.backend # "azure"
      BY <2>1 DEF SawUnmodified, ConditionalCalls
    <2>4. pc'[r] = "tagUnmodified" => store'.remote.changed = ctx'[r].seen
      BY <1>2, <2>1, <2>2, <2>3
    <2> QED  BY <1>4, <2>1, <2>2, <2>3, <2>4 DEF SawUnmodified
  <1>7. CASE ~PerformConditionalDelete(r) /\ ~ConditionalTagging(r)
    <2>1. pc'[r] \notin ConditionalCalls
      <3>1. CASE \/ GetMetadata(r) \/ PutData(r) \/ ReplicateMetadata(r) \/ PutMetadata(r)
                 \/ PutObjectMD(r) \/ RemoveOldLocations(r) \/ BatchDelete(r)
                 \/ DeleteObjectFromExpiration(r) \/ Die(r)
        BY <3>1
        DEF GetMetadata, PutData, ReplicateMetadata, PutMetadata, PutObjectMD,
            RemoveOldLocations, BatchDelete, DeleteObjectFromExpiration, Die, Refuse, Ends,
            Goto, ConditionalCalls, BackbeatInv, BackbeatTypes
      <3>2. CASE ~(\/ GetMetadata(r) \/ PutData(r) \/ ReplicateMetadata(r) \/ PutMetadata(r)
                   \/ PutObjectMD(r) \/ RemoveOldLocations(r) \/ BatchDelete(r)
                   \/ DeleteObjectFromExpiration(r) \/ Die(r))
        <4>1. Goto(r, "ok")
          BY <1>7, <3>2
          DEF BackbeatStep, PutRemoteObject, DeleteRemoteObject, PutObjectTagging,
              DeleteObjectTagging, HeadObject, InitiateRemoteUpload, PutRemotePart,
              CompleteRemoteUpload, AbortRemoteUpload, AzureConditionalDelete, TagUnmodified,
              ReadOnlyRoute, Remote, Ends
        <4> QED  BY <4>1 DEF Goto, ConditionalCalls, BackbeatInv, BackbeatTypes
      <3> QED  BY <3>1, <3>2
    <2> QED  BY <1>4, <2>1 DEF SawUnmodified, ConditionalCalls
  <1> QED  BY <1>5, <1>6, <1>7

\* The invariant of replication is inductive.
LEMMA BackbeatSteps ==
    ASSUME BackbeatInv, SawUnmodified, [BackbeatNext]_vars
    PROVE  BackbeatInv' /\ SawUnmodified'
  <1>1. CASE UNCHANGED vars
    <2>1. store' = store /\ pc' = pc /\ ctx' = ctx /\ scene' = scene
      BY <1>1 DEF vars
    <2>2. BackbeatTypes'
      BY <2>1 DEF BackbeatInv, BackbeatTypes
    <2>3. OneTask'
      BY <2>1 DEF BackbeatInv, OneTask, Running, AtWork
    <2>4. Untold'
      BY <2>1 DEF BackbeatInv, Untold, Locs, MayTake, MayName, AtWork
    <2>5. ReplicaKept'
      BY <2>1 DEF BackbeatInv, ReplicaKept, Keeping, WritesBackStale, Locs, Brings
    <2>6. ReplicaClean'
      BY <2>1 DEF BackbeatInv, ReplicaClean, Clean, KnowsRecord, WholeSet, Locs, Owes
    <2>7. SawUnmodified'
      BY <2>1 DEF SawUnmodified
    <2> QED  BY <2>2, <2>3, <2>4, <2>5, <2>6, <2>7 DEF BackbeatInv
  <1>2. CASE BackbeatNext
    <2>1. PICK r \in Reqs : BackbeatStep(r) \/ Die(r)
      BY <1>2 DEF BackbeatNext
    <2>2. UNCHANGED scene
      BY <1>2 DEF BackbeatNext
    <2>3. PICK l : TaskChange(r, l)
      BY <2>1, <2>2, TasksChange
    <2> QED  BY <2>1, <2>2, <2>3, TaskKept, SawKept
  <1> QED  BY <1>1, <1>2

\* A version that is there names all the data that is.
LEMMA BackbeatInitially ==
    ASSUME BackbeatInit
    PROVE  BackbeatInv /\ SawUnmodified
  <1>1. PICK b \in Backends, there \in BOOLEAN :
           store = [record |-> IF there THEN [locs |-> {"old1", "old2"}, meta |-> None]
                                        ELSE None,
                    data |-> IF there THEN {"old1", "old2"} ELSE {},
                    retired |-> {}, backend |-> b,
                    remote |-> [there |-> there, changed |-> 0, tags |-> None, doomed |-> FALSE],
                    uploads |-> [r \in Reqs |-> None]]
    BY DEF BackbeatInit
  <1>2. pc = [r \in Reqs |-> "idle"] /\ ctx = [r \in Reqs |-> None]
    BY DEF BackbeatInit
  <1>3. /\ store.record = IF there THEN [locs |-> {"old1", "old2"}, meta |-> None] ELSE None
        /\ store.data = IF there THEN {"old1", "old2"} ELSE {}
        /\ store.retired = {}
        /\ store.remote = [there |-> there, changed |-> 0, tags |-> None, doomed |-> FALSE]
    BY <1>1
  <1>4. \A r \in Reqs : pc[r] = "idle"
    BY <1>2
  <1>5. [locs |-> {"old1", "old2"}, meta |-> None] \in ReplicaRecord
    BY DEF ReplicaRecord, ReplicaLocs
  <1>6. ReplicaStore(store)
    <2>1. store = [record |-> store.record, data |-> store.data, retired |-> store.retired,
                   backend |-> store.backend, remote |-> store.remote, uploads |-> store.uploads]
      BY <1>1
    <2>2. store.remote = [there |-> store.remote.there, changed |-> store.remote.changed,
                          tags |-> store.remote.tags, doomed |-> store.remote.doomed]
          /\ store.remote.changed \in Nat
      BY <1>3
    <2>3. store.record \in ReplicaRecord \cup {None} /\ store.data \in SUBSET ReplicaLocs
          /\ store.retired \in SUBSET ReplicaLocs
      BY <1>3, <1>5 DEF ReplicaLocs
    <2> QED  BY <2>1, <2>2, <2>3 DEF ReplicaStore
  <1>7. BackbeatTypes
    <2>1. pc \in [Reqs -> Tasks \cup ConditionalCalls \cup {"idle", "deleteOld", "ok", "failed"}]
          /\ ctx = [r \in Reqs |-> ctx[r]]
      BY <1>2
    <2> QED  BY <1>4, <1>6, <2>1 DEF BackbeatTypes, Tasks
  <1>8. Locs = store.data /\ (Locs = {} \/ Locs = {"old1", "old2"})
    BY <1>3, <1>5, BackbeatAssumption DEF Locs
  <1>9. OneTask
    BY <1>4 DEF OneTask, Running, AtWork
  <1>10. Untold
    BY <1>3, <1>4, <1>8, BackbeatAssumption DEF Untold, MayTake, MayName, AtWork, Tasks
  <1>11. ReplicaKept
    BY <1>3, <1>4, <1>8 DEF ReplicaKept, Brings
  <1>12. ReplicaClean
    BY <1>4, <1>8 DEF ReplicaClean, KnowsRecord, WholeSet, Tasks
  <1>13. SawUnmodified
    BY <1>4 DEF SawUnmodified, ConditionalCalls
  <1> QED  BY <1>7, <1>9, <1>10, <1>11, <1>12, <1>13 DEF BackbeatInv

\* And says what the property does.
LEMMA BackbeatInvEnough ==
    ASSUME BackbeatInv
    PROVE  ReplicaHasData /\ ReplicaLeavesNoData
  <1>1. ReplicaHasData
    BY DEF BackbeatInv, ReplicaKept, Keeping, ReplicaHasData
  <1>2. ASSUME Quiet, ~scene.deaths, "oneRequest" \in scene.ops \/ scene.sequential
        PROVE  \A m \in store.data : m \in Locs \/ ("moveSome" \in scene.ops /\ m \in store.retired)
    <2>1. \A r \in Reqs, m \in store.data : ~Owes(r, m)
      BY <1>2 DEF Quiet, Running, Owes
    <2> QED  BY <1>2, <2>1 DEF BackbeatInv, ReplicaClean, Clean
  <1> QED  BY <1>1, <1>2 DEF ReplicaLeavesNoData

\* Only the step that ends it deletes or marks, and it compared before.
LEMMA DeletesUnmodified ==
    ASSUME BackbeatInv, SawUnmodified, [BackbeatNext]_vars,
           store.backend = "azure" \/ scene.sequential,
           NEW r \in Reqs, pc[r] \in {"azureDelete", "tagUnmodified"}, pc'[r] = "ok",
           store'.remote # store.remote
    PROVE  store.remote.changed = ctx[r].seen
  <1>1. CASE pc[r] = "tagUnmodified"
    BY <1>1 DEF SawUnmodified
  <1>2. CASE pc[r] = "azureDelete"
    <2>1. BackbeatNext
      BY DEF vars
    <2>2. PICK q \in Reqs : BackbeatStep(q) \/ Die(q)
      BY <2>1 DEF BackbeatNext
    <2>3. q = r
      <3>1. PICK l : TaskChange(q, l)
        BY <2>1, <2>2, TasksChange DEF BackbeatNext
      <3>2. pc' = [pc EXCEPT ![q] = l]
        BY <3>1 DEF TaskChange, TaskFrame
      <3> QED  BY <1>2, <3>2 DEF BackbeatInv, BackbeatTypes
    <2>4. AzureConditionalDelete(r)
      <3>1. ~Die(r)
        BY <1>2 DEF Die, Goto, BackbeatInv, BackbeatTypes
      <3> QED
        BY <1>2, <2>2, <2>3, <3>1
        DEF BackbeatStep, GetMetadata, PutData, ReplicateMetadata, PutMetadata, PutObjectMD,
            RemoveOldLocations, BatchDelete, DeleteObjectFromExpiration, PutRemoteObject,
            DeleteRemoteObject, PutObjectTagging, DeleteObjectTagging, HeadObject,
            InitiateRemoteUpload, PutRemotePart, CompleteRemoteUpload, AbortRemoteUpload,
            PerformConditionalDelete, ConditionalTagging, TagUnmodified, ReadOnlyRoute,
            Remote, Sent
    <2> QED  BY <2>4 DEF AzureConditionalDelete
  <1> QED  BY <1>1, <1>2

-----------------------------------------------------------------------------
(* What a batch answers *)

AnyEntries == [key: AllKeys, ver: BOOLEAN]
AnyRecord == BatchRecords \cup {None}

\* A version under lock; an object that is gone, or that a marker hides.
LockedAt(k) == store.md[k] # None /\ store.md[k].locked
Hidden(k) == store.md[k] = None \/ store.md[k].marker

\* An entry that was asked for is to be read, open, deleted or refused, and one
\* of these.
Account(asked, todo, open, deleted, errors) ==
    /\ todo \subseteq AnyEntries /\ open \subseteq AnyEntries \X AnyRecord
    /\ deleted \subseteq AnyEntries /\ errors \subseteq AnyEntries
    /\ asked = todo \cup {o[1] : o \in open} \cup deleted \cup errors
    /\ deleted \cap errors = {} /\ todo \cap (deleted \cup errors) = {}
    /\ \A o \in open : o[1] \notin todo \cup deleted \cup errors
    /\ \A o, p \in open : o[1] = p[1] => o = p

Accounted(c) ==
    /\ c = [asked |-> c.asked, todo |-> c.todo, cache |-> c.cache, open |-> c.open,
            doomed |-> c.doomed, deleted |-> c.deleted, errors |-> c.errors]
    /\ Account(c.asked, c.todo, c.open, c.deleted, c.errors)

\* What request r has in hand: no locked version that it is about to delete, and
\* entries that it may call deleted.
Answering(r) ==
    /\ pc[r] = "putRecord" => ~store.versioned
    /\ InBatch(r) =>
        /\ Accounted(ctx[r])
        /\ \A o \in ctx[r].open : o[1].ver => ~LockedAt(o[1].key)
        /\ scene.sequential => \A e \in ctx[r].deleted : Hidden(e.key)
    /\ pc[r] = "readAhead" => ctx[r].open = {} /\ ctx[r].deleted = {}
    /\ pc[r] = "batch" => \A e \in ctx[r].todo :
        /\ ctx[r].cache[e.key] \in AnyRecord
        /\ e.key = "a" => ctx[r].cache[e.key] = None

BatchPlaces == {"idle", "readAhead", "batch", "putRecord", "deleteOverwritten", "ok", "failed"}

AnswerShape ==
    /\ store = [versioned |-> store.versioned, data |-> store.data, md |-> store.md]
    /\ store.md \in [AllKeys -> AnyRecord]
    /\ pc \in [Reqs -> BatchPlaces]
    /\ ctx = [r \in Reqs |-> ctx[r]]

\* Locks need versions; one key has them.
LocksVersioned == \A k \in AllKeys : LockedAt(k) => k = "a" /\ store.versioned

OneAnswers == scene.sequential => \A q, r \in Reqs : Running(q) /\ Running(r) => q = r

AnswerInv == AnswerShape /\ LocksVersioned /\ OneAnswers /\ \A r \in Reqs : Answering(r)

\* What may become of the record of key k.
RecordChange(r, k) ==
    \/ store'.md[k] = store.md[k]
    \/ store'.md[k] = None /\ ~LockedAt(k)
    \/ /\ store.md[k] # None /\ store'.md[k] # None
       /\ store'.md[k].loc = store.md[k].loc /\ store'.md[k].locked = store.md[k].locked
       /\ store'.md[k].marker
    \/ pc[r] = "putRecord" /\ store'.md[k] # None /\ ~store'.md[k].locked

\* A step of request r, which goes to l.
AnswerChange(r, l) ==
    /\ store' = [versioned |-> store.versioned, data |-> store'.data, md |-> store'.md]
    /\ store'.md \in [AllKeys -> AnyRecord]
    /\ pc' = [pc EXCEPT ![r] = l]
    /\ l \in BatchPlaces
    /\ \E c : ctx' = [ctx EXCEPT ![r] = c]
    /\ Running(r) \/ (scene.sequential => Quiet)
    /\ \A k \in AllKeys : RecordChange(r, k)
    /\ Answering(r)'

\* No step unlocks a version by removing it, or locks one.
LEMMA LockedStays ==
    ASSUME AnswerInv, NEW r \in Reqs, NEW l, AnswerChange(r, l), NEW k \in AllKeys
    PROVE  /\ LockedAt(k)' => LockedAt(k)
           /\ LockedAt(k) => store'.md[k] # None /\ store'.md[k].loc = store.md[k].loc
           /\ Hidden(k) => Hidden(k)' \/ pc[r] = "putRecord"
           /\ store'.versioned = store.versioned
  <1>1. RecordChange(r, k)
    BY DEF AnswerChange
  <1>2. store'.versioned = store.versioned
    BY DEF AnswerChange
  <1>3. pc[r] = "putRecord" => ~LockedAt(k)
    BY DEF AnswerInv, Answering, LocksVersioned
  <1> QED  BY <1>1, <1>2, <1>3 DEF RecordChange, LockedAt, Hidden

\* So what the others have in hand stays right.
LEMMA AnswerKept ==
    ASSUME AnswerInv, NEW r \in Reqs, NEW l, AnswerChange(r, l), UNCHANGED scene
    PROVE  AnswerInv'
  <1>1. \A q \in Reqs \ {r} : pc'[q] = pc[q] /\ ctx'[q] = ctx[q]
    BY DEF AnswerChange, AnswerInv, AnswerShape
  <1>2. pc'[r] = l /\ store'.versioned = store.versioned
    BY DEF AnswerChange, AnswerInv, AnswerShape
  <1>3. scene.sequential => \A q \in Reqs \ {r} : ~Running(q)
    BY DEF AnswerChange, AnswerInv, OneAnswers, Quiet
  <1>4. AnswerShape'
    <2>1. ctx' = [q \in Reqs |-> ctx'[q]]
      BY DEF AnswerChange, AnswerInv, AnswerShape
    <2>2. pc' \in [Reqs -> BatchPlaces]
      BY DEF AnswerChange, AnswerInv, AnswerShape
    <2>3. store' = [versioned |-> store'.versioned, data |-> store'.data, md |-> store'.md]
      BY <1>2 DEF AnswerChange
    <2> QED  BY <2>1, <2>2, <2>3 DEF AnswerShape, AnswerChange
  <1>5. LocksVersioned'
    BY <1>2, LockedStays DEF LocksVersioned, AnswerInv
  <1>6. OneAnswers'
    BY <1>1, <1>3 DEF OneAnswers, Running
  <1>7. ASSUME NEW q \in Reqs, q # r  PROVE  Answering(q)'
    <2>1. pc'[q] = pc[q] /\ ctx'[q] = ctx[q]
      BY <1>1, <1>7
    <2>2. Answering(q)
      BY DEF AnswerInv
    <2>3. scene.sequential => ~InBatch(q)
      BY <1>3, <1>7 DEF InBatch, Running
    <2>4. InBatch(q) => \A o \in ctx[q].open : o[1] \in AnyEntries
      BY <2>2 DEF Answering, Accounted, Account
    <2>5. InBatch(q) => \A o \in ctx[q].open : o[1].ver => ~LockedAt(o[1].key)'
      <3> SUFFICES ASSUME InBatch(q), NEW o \in ctx[q].open, o[1].ver  PROVE  ~LockedAt(o[1].key)'
        OBVIOUS
      <3>1. o[1].key \in AllKeys
        BY <2>4 DEF AnyEntries
      <3>2. ~LockedAt(o[1].key)
        BY <2>2 DEF Answering
      <3> QED  BY <3>1, <3>2, LockedStays
    <2>6. InBatch(q)' <=> InBatch(q)
      BY <2>1 DEF InBatch
    <2>7. Accounted(ctx[q])' <=> Accounted(ctx[q])
      BY <2>1 DEF Accounted, Account
    <2> QED  BY <1>2, <2>1, <2>2, <2>3, <2>5, <2>6, <2>7 DEF Answering
  <1>8. \A q \in Reqs : Answering(q)'
    BY <1>7 DEF AnswerChange
  <1> QED  BY <1>4, <1>5, <1>6, <1>8 DEF AnswerInv

-----------------------------------------------------------------------------
(* Entries are accounted for *)

\* An entry that is read is deleted, refused or open.
LEMMA ReadAccounts ==
    ASSUME NEW a, NEW t, NEW o, NEW s, NEW x, Account(a, t, o, s, x),
           NEW e \in t, NEW m \in AnyRecord
    PROVE  /\ Account(a, t \ {e}, o, s \cup {e}, x)
           /\ Account(a, t \ {e}, o, s, x \cup {e})
           /\ Account(a, t \ {e}, o \cup {<<e, m>>}, s, x)
  <1>1. /\ t \subseteq AnyEntries /\ o \subseteq AnyEntries \X AnyRecord /\ e \in AnyEntries
        /\ s \subseteq AnyEntries /\ x \subseteq AnyEntries
        /\ a = t \cup {p[1] : p \in o} \cup s \cup x
        /\ s \cap x = {} /\ t \cap (s \cup x) = {}
        /\ \A p \in o : p[1] \notin t \cup s \cup x
        /\ \A p, q \in o : p[1] = q[1] => p = q
    BY DEF Account
  <1>2. Account(a, t \ {e}, o, s \cup {e}, x)
    BY <1>1 DEF Account
  <1>3. Account(a, t \ {e}, o, s, x \cup {e})
    BY <1>1 DEF Account
  <1>4. Account(a, t \ {e}, o \cup {<<e, m>>}, s, x)
    <2>1. <<e, m>> \in AnyEntries \X AnyRecord /\ <<e, m>>[1] = e
      BY <1>1
    <2>2. PICK z : z = <<e, m>>
      OBVIOUS
    <2>3. {p[1] : p \in o \cup {z}} = {p[1] : p \in o} \cup {e}
      BY <2>1, <2>2
    <2>4. \A p \in o \cup {z} : p[1] \notin (t \ {e}) \cup s \cup x
      BY <1>1, <2>1, <2>2
    <2>5. \A p, q \in o \cup {z} : p[1] = q[1] => p = q
      BY <1>1, <2>1, <2>2
    <2>6. a = (t \ {e}) \cup {p[1] : p \in o \cup {z}} \cup s \cup x
      BY <1>1, <2>3
    <2> QED  BY <1>1, <2>1, <2>2, <2>4, <2>5, <2>6 DEF Account
  <1> QED  BY <1>2, <1>3, <1>4

\* An open entry ends as deleted or refused.
LEMMA CloseAccounts ==
    ASSUME NEW a, NEW t, NEW o, NEW s, NEW x, Account(a, t, o, s, x), NEW p \in o
    PROVE  /\ Account(a, t, o \ {p}, s \cup {p[1]}, x)
           /\ Account(a, t, o \ {p}, s, x \cup {p[1]})
  <1>1. /\ t \subseteq AnyEntries /\ o \subseteq AnyEntries \X AnyRecord /\ p[1] \in AnyEntries
        /\ s \subseteq AnyEntries /\ x \subseteq AnyEntries
        /\ a = t \cup {q[1] : q \in o} \cup s \cup x
        /\ s \cap x = {} /\ t \cap (s \cup x) = {}
        /\ \A q \in o : q[1] \notin t \cup s \cup x
        /\ \A q, z \in o : q[1] = z[1] => q = z
    BY DEF Account
  <1>2. {q[1] : q \in o} = {q[1] : q \in o \ {p}} \cup {p[1]}
    OBVIOUS
  <1>3. \A q \in o \ {p} : q[1] # p[1]
    BY <1>1
  <1>4. Account(a, t, o \ {p}, s \cup {p[1]}, x)
    BY <1>1, <1>2, <1>3 DEF Account
  <1>5. Account(a, t, o \ {p}, s, x \cup {p[1]})
    BY <1>1, <1>2, <1>3 DEF Account
  <1> QED  BY <1>4, <1>5

\* What the handlers make of what they carry, as records.
Tallied(d, c, t, h, o, s, x) ==
    /\ d = [asked |-> d.asked, todo |-> d.todo, cache |-> d.cache, open |-> d.open,
            doomed |-> d.doomed, deleted |-> d.deleted, errors |-> d.errors]
    /\ d.asked = c.asked /\ d.todo = t /\ d.cache = h /\ d.open = o
    /\ d.deleted = s /\ d.errors = x

LEMMA Tallies ==
    ASSUME NEW c, Accounted(c), NEW e, NEW z, NEW m
    PROVE  /\ Tallied([c EXCEPT !.cache = z], c, c.todo, z, c.open, c.deleted, c.errors)
           /\ Tallied([[c EXCEPT !.todo = @ \ {e}] EXCEPT !.deleted = @ \cup {e}],
                      c, c.todo \ {e}, c.cache, c.open, c.deleted \cup {e}, c.errors)
           /\ Tallied([[c EXCEPT !.todo = @ \ {e}] EXCEPT !.errors = @ \cup {e}],
                      c, c.todo \ {e}, c.cache, c.open, c.deleted, c.errors \cup {e})
           /\ Tallied([[c EXCEPT !.todo = @ \ {e}] EXCEPT !.open = @ \cup {<<e, m>>}],
                      c, c.todo \ {e}, c.cache, c.open \cup {<<e, m>>}, c.deleted, c.errors)
           /\ Tallied(Failed(c, e, m),
                      c, c.todo, c.cache, c.open \ {<<e, m>>}, c.deleted, c.errors \cup {e})
           /\ Tallied(Deleted(c, e, m, z),
                      c, c.todo, c.cache, c.open \ {<<e, m>>}, c.deleted \cup {e}, c.errors)
  <1> DEFINE R(a, t, h, o, d, s, x) ==
               [asked |-> a, todo |-> t, cache |-> h, open |-> o, doomed |-> d,
                deleted |-> s, errors |-> x]
  <1>1. PICK a, t, h, o, d, s, x : c = R(a, t, h, o, d, s, x)
    BY DEF Accounted
  <1>2. /\ c.asked = a /\ c.todo = t /\ c.cache = h /\ c.open = o
        /\ c.doomed = d /\ c.deleted = s /\ c.errors = x
    BY <1>1
  <1>3. \A b1, b2, b3, b4, b5, b6, b7 :
           b1 = a => Tallied(R(b1, b2, b3, b4, b5, b6, b7), c, b2, b3, b4, b6, b7)
    BY <1>2 DEF Tallied
  <1>4. \A w : [c EXCEPT !.todo = w] = R(a, w, h, o, d, s, x)
    BY <1>1
  <1>5. \A w : [c EXCEPT !.cache = w] = R(a, t, w, o, d, s, x)
    BY <1>1
  <1>6. \A w, b : [R(a, w, h, o, d, s, x) EXCEPT !.deleted = b] = R(a, w, h, o, d, b, x)
    OBVIOUS
  <1>7. \A w, b : [R(a, w, h, o, d, s, x) EXCEPT !.errors = b] = R(a, w, h, o, d, s, b)
    OBVIOUS
  <1>8. \A w, b : [R(a, w, h, o, d, s, x) EXCEPT !.open = b] = R(a, w, h, b, d, s, x)
    OBVIOUS
  <1>9. \A w, b : [R(a, t, h, w, d, s, x) EXCEPT !.errors = b] = R(a, t, h, w, d, s, b)
    OBVIOUS
  <1>10. \A w, b : [R(a, t, h, w, d, s, x) EXCEPT !.deleted = b] = R(a, t, h, w, d, b, x)
    OBVIOUS
  <1>11. \A w, b, v : [R(a, t, h, w, d, b, x) EXCEPT !.doomed = v] = R(a, t, h, w, v, b, x)
    OBVIOUS
  <1>12. \A w : [c EXCEPT !.open = w] = R(a, t, h, w, d, s, x)
    BY <1>1
  <1>13. PICK w : w = t \ {e}
    OBVIOUS
  <1>14. PICK p : p = o \ {<<e, m>>}
    OBVIOUS
  <1>15. PICK c1 : c1 = [c EXCEPT !.todo = @ \ {e}]
    OBVIOUS
  <1>16. PICK c2 : c2 = [c EXCEPT !.open = @ \ {<<e, m>>}]
    OBVIOUS
  <1>17. c1 = R(a, w, h, o, d, s, x) /\ c1.deleted = s /\ c1.errors = x /\ c1.open = o
    BY <1>1, <1>13, <1>15
  <1>18. c2 = R(a, t, h, p, d, s, x) /\ c2.deleted = s /\ c2.errors = x /\ c2.doomed = d
    BY <1>1, <1>14, <1>16
  <1>19. [[c EXCEPT !.todo = @ \ {e}] EXCEPT !.deleted = @ \cup {e}]
            = R(a, w, h, o, d, s \cup {e}, x)
    <2>1. [c1 EXCEPT !.deleted = @ \cup {e}] = R(a, w, h, o, d, s \cup {e}, x)
      BY <1>17
    <2> QED  BY <2>1, <1>15
  <1>20. [[c EXCEPT !.todo = @ \ {e}] EXCEPT !.errors = @ \cup {e}]
            = R(a, w, h, o, d, s, x \cup {e})
    <2>1. [c1 EXCEPT !.errors = @ \cup {e}] = R(a, w, h, o, d, s, x \cup {e})
      BY <1>17
    <2> QED  BY <2>1, <1>15
  <1>21. [[c EXCEPT !.todo = @ \ {e}] EXCEPT !.open = @ \cup {<<e, m>>}]
            = R(a, w, h, o \cup {<<e, m>>}, d, s, x)
    <2>1. [c1 EXCEPT !.open = @ \cup {<<e, m>>}] = R(a, w, h, o \cup {<<e, m>>}, d, s, x)
      BY <1>17
    <2> QED  BY <2>1, <1>15
  <1>22. Failed(c, e, m) = R(a, t, h, p, d, s, x \cup {e})
    <2>1. [c2 EXCEPT !.errors = @ \cup {e}] = R(a, t, h, p, d, s, x \cup {e})
      BY <1>18
    <2>2. Failed(c, e, m) = [c2 EXCEPT !.errors = @ \cup {e}]
      BY <1>2, <1>16, <1>18 DEF Failed
    <2> QED  BY <2>1, <2>2
  <1>23. Deleted(c, e, m, z) = R(a, t, h, p, d \cup z, s \cup {e}, x)
    <2>1. PICK c3 : c3 = [c2 EXCEPT !.deleted = @ \cup {e}]
      OBVIOUS
    <2>2. c3 = R(a, t, h, p, d, s \cup {e}, x) /\ c3.doomed = d
      BY <1>18, <2>1
    <2>3. [c3 EXCEPT !.doomed = @ \cup z] = R(a, t, h, p, d \cup z, s \cup {e}, x)
      BY <2>2
    <2>4. Deleted(c, e, m, z) = [c3 EXCEPT !.doomed = @ \cup z]
      BY <1>2, <1>16, <1>18, <2>1, <2>2 DEF Deleted
    <2> QED  BY <2>3, <2>4
  <1> HIDE DEF R
  <1> QED  BY <1>2, <1>3, <1>5, <1>13, <1>14, <1>19, <1>20, <1>21, <1>22, <1>23

-----------------------------------------------------------------------------
(* What each call does *)

\* Data comes and goes beside the records.
LEMMA RecordsStay ==
    ASSUME AnswerInv, NEW r \in Reqs, NEW l \in BatchPlaces,
           store' = store \/ \E D : store' = [store EXCEPT !.data = D],
           pc' = [pc EXCEPT ![r] = l],
           ctx' = ctx \/ \E c : ctx' = [ctx EXCEPT ![r] = c],
           Running(r) \/ (scene.sequential => Quiet),
           Answering(r)'
    PROVE  AnswerChange(r, l)
  <1>1. PICK v, d, m : store = [versioned |-> v, data |-> d, md |-> m]
    BY DEF AnswerInv, AnswerShape
  <1>2. \E D : store' = [versioned |-> v, data |-> D, md |-> m]
    <2>1. CASE store' = store
      BY <1>1, <2>1
    <2>2. CASE \E D : store' = [store EXCEPT !.data = D]
      BY <1>1, <2>2
    <2> QED  BY <2>1, <2>2
  <1>3. store'.md = store.md /\ store.versioned = v /\ store.md = m /\ store'.versioned = v
    BY <1>1, <1>2
  <1>4. store' = [versioned |-> store.versioned, data |-> store'.data, md |-> store'.md]
    BY <1>2, <1>3
  <1>5. \E c : ctx' = [ctx EXCEPT ![r] = c]
    <2>1. ctx = [ctx EXCEPT ![r] = ctx[r]]
      BY DEF AnswerInv, AnswerShape
    <2> QED  BY <2>1
  <1> QED  BY <1>3, <1>4, <1>5 DEF AnswerChange, RecordChange, AnswerInv, AnswerShape

\* One record is written.
LEMMA RecordWritten ==
    ASSUME AnswerInv, NEW k \in AllKeys, NEW m \in AnyRecord,
           store' = [store EXCEPT !.md[k] = m]
    PROVE  /\ store' = [versioned |-> store.versioned, data |-> store'.data, md |-> store'.md]
           /\ store'.md \in [AllKeys -> AnyRecord]
           /\ store'.versioned = store.versioned
           /\ \A j \in AllKeys : store'.md[j] = IF j = k THEN m ELSE store.md[j]
  <1>1. PICK v, d, f : store = [versioned |-> v, data |-> d, md |-> f]
    BY DEF AnswerInv, AnswerShape
  <1>2. store.md = f /\ store.versioned = v
    BY <1>1
  <1>3. PICK g : g = [f EXCEPT ![k] = m]
    OBVIOUS
  <1>4. g \in [AllKeys -> AnyRecord] /\ \A j \in AllKeys : g[j] = IF j = k THEN m ELSE f[j]
    BY <1>2, <1>3 DEF AnswerInv, AnswerShape
  <1>5. store' = [versioned |-> v, data |-> d, md |-> g]
    BY <1>1, <1>3
  <1>6. store'.md = g /\ store'.versioned = v /\ store'.data = d
    BY <1>5
  <1> QED  BY <1>2, <1>4, <1>5, <1>6

\* A batch that arrives answers for those it was denied.
LEMMA BatchArrivalAnswers ==
    ASSUME AnswerInv, NEW r \in Reqs, MultiObjectDelete(r), UNCHANGED scene
    PROVE  \E l : AnswerChange(r, l)
  <1>1. pc[r] = "idle" /\ (scene.sequential => Quiet)
    BY DEF MultiObjectDelete, Sent
  <1>2. CASE Refuse(r)
    <2>1. store' = store /\ ctx' = ctx /\ pc' = [pc EXCEPT ![r] = "failed"]
      BY <1>2 DEF Refuse, Goto
    <2>2. pc'[r] = "failed"
      BY <2>1 DEF AnswerInv, AnswerShape
    <2>3. Answering(r)'
      BY <2>2 DEF Answering, InBatch
    <2> QED  BY <1>1, <2>1, <2>3, RecordsStay DEF BatchPlaces
  <1>3. CASE ~Refuse(r)
    <2>1. PICK entries \in SUBSET Entries, denied \in {{}} \cup {{e} : e \in Entries} :
            /\ denied \subseteq entries
            /\ ctx' = [ctx EXCEPT ![r] =
                   [asked |-> entries, todo |-> entries \ denied,
                    cache |-> None, open |-> {}, doomed |-> {},
                    deleted |-> {}, errors |-> denied]]
            /\ pc' = [pc EXCEPT ![r] = "readAhead"] /\ store' = store
      BY <1>3 DEF MultiObjectDelete, Goto, Carry
    <2>2. PICK c : c = [asked |-> entries, todo |-> entries \ denied,
                        cache |-> None, open |-> {}, doomed |-> {},
                        deleted |-> {}, errors |-> denied]
      OBVIOUS
    <2>3. Entries \subseteq AnyEntries
      BY DEF Entries, AnyEntries, Keys
    <2>4. Account(entries, entries \ denied, {}, {}, denied)
      BY <2>1, <2>3 DEF Account
    <2>5. Accounted(c) /\ c.open = {} /\ c.deleted = {}
      BY <2>2, <2>4 DEF Accounted
    <2>6. pc'[r] = "readAhead" /\ ctx'[r] = c /\ ctx' = [ctx EXCEPT ![r] = c]
      BY <2>1, <2>2 DEF AnswerInv, AnswerShape
    <2>7. Answering(r)'
      <3>1. Accounted(ctx[r])'
        BY <2>5, <2>6 DEF Accounted, Account
      <3> QED  BY <2>5, <2>6, <3>1 DEF Answering
    <2> QED  BY <1>1, <2>1, <2>6, <2>7, RecordsStay DEF BatchPlaces
  <1> QED  BY <1>2, <1>3

\* The cache holds records, and none under the key that locks are on.
LEMMA ReadAheadAnswers ==
    ASSUME AnswerInv, NEW r \in Reqs, ReadAhead(r), UNCHANGED scene
    PROVE  \E l : AnswerChange(r, l)
  <1> DEFINE c == ctx[r]
  <1>2. /\ pc[r] = "readAhead" /\ Accounted(c) /\ c.open = {} /\ c.deleted = {}
    BY DEF ReadAhead, AnswerInv, Answering, InBatch
  <1> DEFINE cached(k) == {e \in c.todo : CacheKey(e) = k /\ store.md[e.key] # None}
  <1>3. PICK works \in BOOLEAN :
            ctx' = [ctx EXCEPT ![r] = [c EXCEPT !.cache =
                [k \in {e.key : e \in c.todo} |->
                    IF works /\ cached(k) # {}
                    THEN store.md[(CHOOSE e \in cached(k) : TRUE).key] ELSE None]]]
    BY DEF ReadAhead, Carry
  <1>4. PICK h : h = [k \in {e.key : e \in c.todo} |->
                    IF works /\ cached(k) # {}
                    THEN store.md[(CHOOSE e \in cached(k) : TRUE).key] ELSE None]
    OBVIOUS
  <1>5. PICK d : d = [c EXCEPT !.cache = h]
    OBVIOUS
  <1>6. Tallied(d, c, c.todo, h, c.open, c.deleted, c.errors)
    BY <1>2, <1>5, Tallies
  <1>7. /\ ctx' = [ctx EXCEPT ![r] = d] /\ ctx'[r] = d
        /\ store' = store /\ pc' = [pc EXCEPT ![r] = "batch"] /\ pc'[r] = "batch"
    BY <1>3, <1>4, <1>5 DEF ReadAhead, Goto, AnswerInv, AnswerShape
  <1>8. ASSUME NEW e \in c.todo
        PROVE  h[e.key] \in AnyRecord /\ (e.key = "a" => h[e.key] = None)
    <2>1. h[e.key] = IF works /\ cached(e.key) # {}
                     THEN store.md[(CHOOSE f \in cached(e.key) : TRUE).key] ELSE None
      BY <1>4
    <2>2. \A f \in c.todo : f \in AnyEntries
      BY <1>2 DEF Accounted, Account
    <2>3. e.key = "a" => cached(e.key) = {}
      BY BatchAssumption DEF CacheKey, AllKeys
    <2>4. CASE cached(e.key) # {}
      <3>1. PICK f : f = CHOOSE g \in cached(e.key) : TRUE
        OBVIOUS
      <3>2. f \in cached(e.key)
        BY <2>4, <3>1
      <3>3. f.key \in AllKeys
        BY <2>2, <3>2 DEF AnyEntries
      <3>4. store.md[f.key] \in AnyRecord
        BY <3>3 DEF AnswerInv, AnswerShape
      <3> QED  BY <2>1, <2>3, <2>4, <3>1, <3>4 DEF AnyRecord
    <2>5. CASE cached(e.key) = {}
      BY <2>1, <2>5 DEF AnyRecord
    <2> QED  BY <2>4, <2>5
  <1>9. Accounted(d) /\ d.open = {} /\ d.deleted = {} /\ d.todo = c.todo /\ d.cache = h
    BY <1>2, <1>6 DEF Accounted, Tallied
  <1>10. Answering(r)'
    <2>1. Accounted(ctx[r])'
      BY <1>7, <1>9 DEF Accounted, Account
    <2>2. \A e \in ctx'[r].todo : /\ ctx'[r].cache[e.key] \in AnyRecord
                                  /\ e.key = "a" => ctx'[r].cache[e.key] = None
      BY <1>7, <1>8, <1>9
    <2> QED  BY <1>7, <1>9, <2>1, <2>2 DEF Answering
  <1> QED  BY <1>2, <1>7, <1>10, RecordsStay DEF BatchPlaces, Running

\* A version that is open was not locked when it was read, or is gone.
LEMMA ReadEntryAnswers ==
    ASSUME AnswerInv, NEW r \in Reqs, NEW e \in ctx[r].todo, ReadEntry(r, e), UNCHANGED scene
    PROVE  AnswerChange(r, "batch")
  <1>1. PICK c : c = ctx[r]
    OBVIOUS
  <1>2. /\ pc[r] = "batch" /\ Accounted(c) /\ e \in c.todo
        /\ \A o \in c.open : o[1].ver => ~LockedAt(o[1].key)
        /\ scene.sequential => \A f \in c.deleted : Hidden(f.key)
        /\ \A f \in c.todo : /\ c.cache[f.key] \in AnyRecord
                             /\ f.key = "a" => c.cache[f.key] = None
    BY <1>1 DEF ReadEntry, AnswerInv, Answering, InBatch
  <1>3. PICK m : m = Found(c, e)
    OBVIOUS
  <1>4. e.key \in AllKeys /\ store.md[e.key] \in AnyRecord
    BY <1>2 DEF Accounted, Account, AnyEntries, AnswerInv, AnswerShape
  <1>5. m \in AnyRecord /\ (e.key = "a" => m = store.md[e.key])
        /\ (m = None => store.md[e.key] = None)
    BY <1>2, <1>3, <1>4 DEF Found
  <1>6. store' = store /\ pc' = pc /\ pc = [pc EXCEPT ![r] = "batch"] /\ pc'[r] = "batch"
    BY <1>2 DEF ReadEntry, AnswerInv, AnswerShape
  <1>7. LockedAt(e.key) => e.key = "a"
    BY <1>4 DEF AnswerInv, LocksVersioned
  <1>8. Account(c.asked, c.todo, c.open, c.deleted, c.errors)
    BY <1>2 DEF Accounted
  <1>9. ASSUME NEW d, NEW o, NEW s, NEW x, ctx' = [ctx EXCEPT ![r] = d],
               Tallied(d, c, c.todo \ {e}, c.cache, o, s, x),
               Account(c.asked, c.todo \ {e}, o, s, x),
               \A p \in o : p[1].ver => ~LockedAt(p[1].key),
               scene.sequential => \A f \in s : Hidden(f.key)
        PROVE  AnswerChange(r, "batch")
    <2>1. ctx'[r] = d
      BY <1>9 DEF AnswerInv, AnswerShape
    <2>2. Accounted(d)
      BY <1>9 DEF Accounted, Tallied
    <2>3. d.open = o /\ d.deleted = s /\ d.todo = c.todo \ {e} /\ d.cache = c.cache
      BY <1>9 DEF Tallied
    <2>4. Answering(r)'
      <3>1. Accounted(ctx[r])'
        BY <2>1, <2>2 DEF Accounted, Account
      <3>2. \A p \in ctx'[r].open : p[1].ver => ~LockedAt(p[1].key)'
        BY <1>6, <1>9, <2>1, <2>3 DEF LockedAt
      <3>3. scene'.sequential => \A f \in ctx'[r].deleted : Hidden(f.key)'
        BY <1>6, <1>9, <2>1, <2>3 DEF Hidden
      <3>4. \A f \in ctx'[r].todo : /\ ctx'[r].cache[f.key] \in AnyRecord
                                    /\ f.key = "a" => ctx'[r].cache[f.key] = None
        BY <1>2, <2>1, <2>3
      <3> QED  BY <1>6, <3>1, <3>2, <3>3, <3>4 DEF Answering
    <2> QED  BY <1>2, <1>6, <1>9, <2>4, RecordsStay DEF BatchPlaces, Running
  <1>10. CASE /\ m = None
              /\ ctx' = [ctx EXCEPT ![r] =
                     [[c EXCEPT !.todo = @ \ {e}] EXCEPT !.deleted = @ \cup {e}]]
    <2>1. PICK d : d = [[c EXCEPT !.todo = @ \ {e}] EXCEPT !.deleted = @ \cup {e}]
      OBVIOUS
    <2>2. Tallied(d, c, c.todo \ {e}, c.cache, c.open, c.deleted \cup {e}, c.errors)
      BY <1>2, <2>1, Tallies
    <2>3. Account(c.asked, c.todo \ {e}, c.open, c.deleted \cup {e}, c.errors)
      BY <1>2, <1>5, <1>8, ReadAccounts
    <2>4. scene.sequential => \A f \in c.deleted \cup {e} : Hidden(f.key)
      BY <1>2, <1>5, <1>10 DEF Hidden
    <2> QED  BY <1>2, <1>9, <1>10, <2>1, <2>2, <2>3, <2>4
  <1>11. CASE ctx' = [ctx EXCEPT ![r] =
                     [[c EXCEPT !.todo = @ \ {e}] EXCEPT !.errors = @ \cup {e}]]
    <2>1. PICK d : d = [[c EXCEPT !.todo = @ \ {e}] EXCEPT !.errors = @ \cup {e}]
      OBVIOUS
    <2>2. Tallied(d, c, c.todo \ {e}, c.cache, c.open, c.deleted, c.errors \cup {e})
      BY <1>2, <2>1, Tallies
    <2>3. Account(c.asked, c.todo \ {e}, c.open, c.deleted, c.errors \cup {e})
      BY <1>2, <1>5, <1>8, ReadAccounts
    <2> QED  BY <1>2, <1>9, <1>11, <2>1, <2>2, <2>3
  <1>12. CASE /\ ~LockedEntry(e, m) /\ (m # None \/ ~e.ver)
              /\ ctx' = [ctx EXCEPT ![r] =
                     [[c EXCEPT !.todo = @ \ {e}] EXCEPT !.open = @ \cup {<<e, m>>}]]
    <2>1. PICK d : d = [[c EXCEPT !.todo = @ \ {e}] EXCEPT !.open = @ \cup {<<e, m>>}]
      OBVIOUS
    <2>2. Tallied(d, c, c.todo \ {e}, c.cache, c.open \cup {<<e, m>>}, c.deleted, c.errors)
      BY <1>2, <2>1, Tallies
    <2>3. Account(c.asked, c.todo \ {e}, c.open \cup {<<e, m>>}, c.deleted, c.errors)
      BY <1>2, <1>5, <1>8, ReadAccounts
    <2>4. e.ver => ~LockedAt(e.key)
      BY <1>5, <1>7, <1>12 DEF LockedEntry, LockedAt
    <2>5. \A p \in c.open \cup {<<e, m>>} : p[1].ver => ~LockedAt(p[1].key)
      BY <1>2, <2>4
    <2> QED  BY <1>2, <1>9, <1>12, <2>1, <2>2, <2>3, <2>5
  <1> QED  BY <1>1, <1>3, <1>10, <1>11, <1>12 DEF ReadEntry, Carry

\* A record that goes is not of a locked version; one that a marker hides keeps
\* its lock.
LEMMA EntryEndAnswers ==
    ASSUME AnswerInv, NEW r \in Reqs, pc[r] = "batch", NEW o \in ctx[r].open,
           DeleteEntry(r, o[1], o[2]) \/ MarkEntry(r, o[1], o[2]), UNCHANGED scene
    PROVE  AnswerChange(r, "batch")
  <1>1. PICK c : c = ctx[r]
    OBVIOUS
  <1>2. /\ Accounted(c) /\ o \in c.open
        /\ \A p \in c.open : p[1].ver => ~LockedAt(p[1].key)
        /\ scene.sequential => \A f \in c.deleted : Hidden(f.key)
        /\ \A f \in c.todo : /\ c.cache[f.key] \in AnyRecord
                             /\ f.key = "a" => c.cache[f.key] = None
    BY <1>1 DEF AnswerInv, Answering, InBatch
  <1>3. o = <<o[1], o[2]>> /\ o[1].key \in AllKeys
    BY <1>2 DEF Accounted, Account, AnyEntries
  <1>4. PICK e : e = o[1]
    OBVIOUS
  <1>5. PICK m : m = o[2]
    OBVIOUS
  <1>6. Account(c.asked, c.todo, c.open, c.deleted, c.errors)
    BY <1>2 DEF Accounted
  <1>7. /\ Account(c.asked, c.todo, c.open \ {o}, c.deleted \cup {e}, c.errors)
        /\ Account(c.asked, c.todo, c.open \ {o}, c.deleted, c.errors \cup {e})
    BY <1>2, <1>4, <1>6, CloseAccounts
  <1>8. pc' = pc /\ pc = [pc EXCEPT ![r] = "batch"]
    BY DEF DeleteEntry, MarkEntry, AnswerInv, AnswerShape
  <1>9. ASSUME NEW d, NEW s, NEW x, ctx' = [ctx EXCEPT ![r] = d],
               Tallied(d, c, c.todo, c.cache, c.open \ {o}, s, x),
               Account(c.asked, c.todo, c.open \ {o}, s, x),
               \A k \in AllKeys : LockedAt(k)' => LockedAt(k),
               scene.sequential => \A f \in s : Hidden(f.key)'
        PROVE  Answering(r)'
    <2>1. ctx'[r] = d
      BY <1>9 DEF AnswerInv, AnswerShape
    <2>2. Accounted(d)
      BY <1>9 DEF Accounted, Tallied
    <2>3. d.open = c.open \ {o} /\ d.deleted = s /\ d.todo = c.todo /\ d.cache = c.cache
      BY <1>9 DEF Tallied
    <2>4. Accounted(ctx[r])'
      BY <2>1, <2>2 DEF Accounted, Account
    <2>5. \A p \in c.open : p[1].key \in AllKeys
      BY <1>6 DEF Account, AnyEntries
    <2>6. \A p \in ctx'[r].open : p[1].ver => ~LockedAt(p[1].key)'
      BY <1>2, <1>9, <2>1, <2>3, <2>5
    <2>7. scene'.sequential => \A f \in ctx'[r].deleted : Hidden(f.key)'
      BY <1>9, <2>1, <2>3
    <2>8. \A f \in ctx'[r].todo : /\ ctx'[r].cache[f.key] \in AnyRecord
                                  /\ f.key = "a" => ctx'[r].cache[f.key] = None
      BY <1>2, <2>1, <2>3
    <2> QED  BY <1>8, <2>4, <2>6, <2>7, <2>8 DEF Answering
  <1>10. \A f \in c.deleted : f.key \in AllKeys
    BY <1>6 DEF Account, AnyEntries
  <1>11. ASSUME NEW n \in AnyRecord, NEW z,
                store' = [store EXCEPT !.md[e.key] = n],
                ctx' = [ctx EXCEPT ![r] = Deleted(c, e, m, z)],
                \/ n = None /\ ~LockedAt(e.key)
                \/ n = None /\ store.md[e.key] = None
                \/ /\ store.md[e.key] # None /\ n # None
                   /\ n.loc = store.md[e.key].loc /\ n.locked = store.md[e.key].locked
                   /\ n.marker
         PROVE  AnswerChange(r, "batch")
    <2>1. /\ store' = [versioned |-> store.versioned, data |-> store'.data, md |-> store'.md]
          /\ store'.md \in [AllKeys -> AnyRecord]
          /\ \A j \in AllKeys : store'.md[j] = IF j = e.key THEN n ELSE store.md[j]
      BY <1>3, <1>4, <1>11, RecordWritten
    <2>2. \A k \in AllKeys : RecordChange(r, k)
      BY <1>11, <2>1 DEF RecordChange
    <2>3. \A k \in AllKeys : LockedAt(k)' => LockedAt(k)
      BY <1>11, <2>1 DEF LockedAt
    <2>4. \A k \in AllKeys : Hidden(k) => Hidden(k)'
      BY <1>11, <2>1 DEF Hidden
    <2>5. Hidden(e.key)'
      BY <1>3, <1>4, <1>11, <2>1 DEF Hidden
    <2>6. scene.sequential => \A f \in c.deleted \cup {e} : Hidden(f.key)'
      BY <1>2, <1>10, <2>4, <2>5
    <2>7. Tallied(Deleted(c, e, m, z), c, c.todo, c.cache, c.open \ {o},
                  c.deleted \cup {e}, c.errors)
      BY <1>2, <1>3, <1>4, <1>5, Tallies
    <2>8. Answering(r)'
      BY <1>7, <1>9, <1>11, <2>3, <2>6, <2>7
    <2> QED  BY <1>8, <1>11, <2>1, <2>2, <2>8 DEF AnswerChange, BatchPlaces, Running
  <1>12. CASE DeleteEntry(r, e, m)
    <2>1. CASE /\ store.md[e.key] # None
               /\ store' = [store EXCEPT !.md[e.key] = None]
               /\ Carry(r, Deleted(c, e, m, {m.loc}))
      <3>1. ~LockedAt(e.key)
        BY <1>2, <1>3, <1>4, <1>12 DEF DeleteEntry, AnswerInv, LocksVersioned
      <3> QED  BY <1>11, <2>1, <3>1 DEF Carry, AnyRecord
    <2>2. CASE Carry(r, Failed(c, e, m)) /\ UNCHANGED store
      <3>1. Tallied(Failed(c, e, m), c, c.todo, c.cache, c.open \ {o}, c.deleted, c.errors \cup {e})
        BY <1>2, <1>3, <1>4, <1>5, Tallies
      <3>2. \A k : (LockedAt(k)' <=> LockedAt(k)) /\ (Hidden(k)' <=> Hidden(k))
        BY <2>2 DEF LockedAt, Hidden
      <3>3. Answering(r)'
        BY <1>2, <1>7, <1>9, <2>2, <3>1, <3>2 DEF Carry
      <3> QED  BY <1>8, <2>2, <3>3, RecordsStay DEF Carry, BatchPlaces, Running
    <2> QED  BY <1>1, <1>12, <2>1, <2>2 DEF DeleteEntry
  <1>13. CASE MarkEntry(r, e, m)
    <2>1. PICK n : n = IF store.md[e.key] = None THEN store.md[e.key]
                       ELSE [store.md[e.key] EXCEPT !.marker = TRUE]
      OBVIOUS
    <2>2. store' = [store EXCEPT !.md[e.key] = n] /\ Carry(r, Deleted(c, e, m, {}))
      BY <1>1, <1>13, <2>1 DEF MarkEntry
    <2>3. store.md[e.key] \in AnyRecord
      BY <1>3, <1>4 DEF AnswerInv, AnswerShape
    <2>4. \/ n = None /\ store.md[e.key] = None
          \/ /\ store.md[e.key] # None /\ n # None /\ n \in BatchRecords
             /\ n.loc = store.md[e.key].loc /\ n.locked = store.md[e.key].locked
             /\ n.marker
      <3>1. CASE store.md[e.key] = None
        BY <2>1, <3>1
      <3>2. CASE store.md[e.key] # None
        <4>1. PICK b \in BatchRecords : b = store.md[e.key]
          BY <2>3, <3>2 DEF AnyRecord
        <4>2. n = [b EXCEPT !.marker = TRUE]
          BY <2>1, <3>2, <4>1
        <4>3. n \in BatchRecords /\ n.loc = b.loc /\ n.locked = b.locked /\ n.marker
          BY <4>2 DEF BatchRecords
        <4> QED  BY <3>2, <4>1, <4>3, BatchAssumption
      <3> QED  BY <3>1, <3>2
    <2> QED  BY <1>11, <2>2, <2>4 DEF Carry, AnyRecord
  <1> QED  BY <1>4, <1>5, <1>12, <1>13

\* The other calls hold nothing of a batch.
LEMMA OthersAnswer ==
    ASSUME AnswerInv, NEW r \in Reqs, UNCHANGED scene,
           DeleteBatchData(r) \/ PutBeside(r) \/ PutBesideRecord(r) \/ DeleteOverwritten(r)
               \/ Die(r)
    PROVE  \E l : AnswerChange(r, l)
  <1>1. ASSUME NEW l \in BatchPlaces \ {"readAhead", "batch"},
               pc' = [pc EXCEPT ![r] = l], l = "putRecord" => ~store'.versioned
        PROVE  Answering(r)'
    <2>1. pc'[r] = l
      BY <1>1 DEF AnswerInv, AnswerShape
    <2> QED  BY <1>1, <2>1 DEF Answering, InBatch
  <1>2. CASE DeleteBatchData(r) \/ DeleteOverwritten(r)
    <2>1. /\ Running(r) /\ ctx' = ctx /\ pc' = [pc EXCEPT ![r] = "ok"]
          /\ \E D : store' = [store EXCEPT !.data = D]
      BY <1>2 DEF DeleteBatchData, DeleteOverwritten, Running, Goto
    <2> QED  BY <1>1, <2>1, RecordsStay DEF BatchPlaces
  <1>3. CASE Die(r)
    <2>1. Running(r) /\ ctx' = ctx /\ store' = store /\ pc' = [pc EXCEPT ![r] = "failed"]
      BY <1>3 DEF Die, Goto
    <2> QED  BY <1>1, <2>1, RecordsStay DEF BatchPlaces
  <1>4. CASE PutBeside(r)
    <2>1. /\ (scene.sequential => Quiet) /\ pc' = [pc EXCEPT ![r] = "putRecord"]
          /\ \E D : store' = [store EXCEPT !.data = D]
          /\ \E c : ctx' = [ctx EXCEPT ![r] = c]
          /\ ~store.versioned
      BY <1>4 DEF PutBeside, Sent, Goto, Carry
    <2>2. store'.versioned = store.versioned
      <3>1. PICK v, d, f : store = [versioned |-> v, data |-> d, md |-> f]
        BY DEF AnswerInv, AnswerShape
      <3> QED  BY <2>1, <3>1
    <2> QED  BY <1>1, <2>1, <2>2, RecordsStay DEF BatchPlaces
  <1>5. CASE PutBesideRecord(r)
    <2>1. PICK n : n = [loc |-> r, locked |-> FALSE, marker |-> FALSE]
      OBVIOUS
    <2>2. /\ pc[r] = "putRecord" /\ Running(r) /\ ctx' = ctx
          /\ pc' = [pc EXCEPT ![r] = "deleteOverwritten"]
          /\ store' = [store EXCEPT !.md[ctx[r].key] = n]
      BY <1>5, <2>1 DEF PutBesideRecord, Running, Goto
    <2>3. n \in BatchRecords /\ n # None /\ ~n.locked
      <3>1. n \in BatchRecords /\ ~n.locked
        BY <2>1 DEF BatchRecords
      <3> QED  BY <3>1, BatchAssumption
    <2>4. Answering(r)'
      BY <1>1, <2>2 DEF BatchPlaces
    <2>5. CASE ctx[r].key \in AllKeys
      <3>1. /\ store' = [versioned |-> store.versioned, data |-> store'.data, md |-> store'.md]
            /\ store'.md \in [AllKeys -> AnyRecord]
            /\ \A j \in AllKeys : store'.md[j] = IF j = ctx[r].key THEN n ELSE store.md[j]
        BY <2>2, <2>3, <2>5, RecordWritten DEF AnyRecord
      <3>2. \A k \in AllKeys : RecordChange(r, k)
        BY <2>2, <2>3, <3>1 DEF RecordChange
      <3>3. ctx = [ctx EXCEPT ![r] = ctx[r]]
        BY DEF AnswerInv, AnswerShape
      <3>4. \E c : ctx' = [ctx EXCEPT ![r] = c]
        BY <2>2, <3>3
      <3> QED  BY <2>2, <2>4, <3>1, <3>2, <3>4 DEF AnswerChange, BatchPlaces
    <2>6. CASE ctx[r].key \notin AllKeys
      <3>1. store' = store
        BY <2>2, <2>6 DEF AnswerInv, AnswerShape
      <3> QED  BY <2>2, <2>4, <3>1, RecordsStay DEF BatchPlaces
    <2> QED  BY <2>5, <2>6
  <1> QED  BY <1>2, <1>3, <1>4, <1>5

\* Every step of a batch, or of a PUT beside it, is such a change.
LEMMA BatchStepsAnswer ==
    ASSUME AnswerInv, NEW r \in Reqs, BatchStep(r) \/ Die(r), UNCHANGED scene
    PROVE  \E l : AnswerChange(r, l)
  <1>1. CASE MultiObjectDelete(r)
    BY <1>1, BatchArrivalAnswers
  <1>2. CASE ReadAhead(r)
    BY <1>2, ReadAheadAnswers
  <1>3. CASE pc[r] = "batch" /\ \E e \in ctx[r].todo : ReadEntry(r, e)
    BY <1>3, ReadEntryAnswers
  <1>4. CASE pc[r] = "batch" /\ \E o \in ctx[r].open :
                 DeleteEntry(r, o[1], o[2]) \/ MarkEntry(r, o[1], o[2])
    BY <1>4, EntryEndAnswers
  <1>5. CASE DeleteBatchData(r) \/ PutBeside(r) \/ PutBesideRecord(r) \/ DeleteOverwritten(r)
                \/ Die(r)
    BY <1>5, OthersAnswer
  <1> QED  BY <1>1, <1>2, <1>3, <1>4, <1>5 DEF BatchStep

\* The invariant of answers is inductive.
LEMMA AnswerSteps ==
    ASSUME AnswerInv, [BatchNext]_vars
    PROVE  AnswerInv'
  <1>1. CASE UNCHANGED vars
    <2>1. store' = store /\ pc' = pc /\ ctx' = ctx /\ scene' = scene
      BY <1>1 DEF vars
    <2>2. AnswerShape' /\ LocksVersioned' /\ OneAnswers'
      BY <2>1 DEF AnswerInv, AnswerShape, LocksVersioned, LockedAt, OneAnswers, Running
    <2>3. \A r \in Reqs : Answering(r)'
      BY <2>1 DEF AnswerInv, Answering, InBatch, Accounted, Account, LockedAt, Hidden
    <2> QED  BY <2>2, <2>3 DEF AnswerInv
  <1>2. CASE BatchNext
    <2>1. PICK r \in Reqs : BatchStep(r) \/ Die(r)
      BY <1>2 DEF BatchNext
    <2>2. UNCHANGED scene
      BY <1>2 DEF BatchNext
    <2> QED  BY <2>1, <2>2, BatchStepsAnswer, AnswerKept
  <1> QED  BY <1>1, <1>2

\* Locks are on objects of versioned buckets at first.
LEMMA AnswerInitially ==
    ASSUME BatchInit
    PROVE  AnswerInv
  <1>1. PICK v \in BOOLEAN, locked \in SUBSET (Keys \cap {"a"}) :
            /\ ~v => locked = {}
            /\ store = [versioned |-> v, data |-> Keys,
                        md |-> [k \in AllKeys |-> IF k \in Keys
                                  THEN [loc |-> k, locked |-> k \in locked, marker |-> FALSE]
                                  ELSE None]]
    BY DEF BatchInit
  <1>2. pc = [r \in Reqs |-> "idle"] /\ ctx = [r \in Reqs |-> None]
    BY DEF BatchInit
  <1>3. \A r \in Reqs : pc[r] = "idle"
    BY <1>2
  <1>4. store.versioned = v /\ \A k \in AllKeys :
            store.md[k] = IF k \in Keys
                          THEN [loc |-> k, locked |-> k \in locked, marker |-> FALSE]
                          ELSE None
    BY <1>1
  <1>5. \A k \in AllKeys : [loc |-> k, locked |-> k \in locked, marker |-> FALSE] \in BatchRecords
    BY DEF BatchRecords
  <1>6. AnswerShape
    <2>1. store.md \in [AllKeys -> AnyRecord]
      BY <1>1, <1>5 DEF AnyRecord
    <2>2. store = [versioned |-> store.versioned, data |-> store.data, md |-> store.md]
      BY <1>1
    <2>3. pc \in [Reqs -> BatchPlaces] /\ ctx = [r \in Reqs |-> ctx[r]]
      BY <1>2 DEF BatchPlaces
    <2> QED  BY <2>1, <2>2, <2>3 DEF AnswerShape
  <1>7. LocksVersioned
    <2> SUFFICES ASSUME NEW k \in AllKeys, LockedAt(k)  PROVE  k = "a" /\ store.versioned
      BY DEF LocksVersioned
    <2>1. store.md[k] = [loc |-> k, locked |-> k \in locked, marker |-> FALSE]
      BY <1>4 DEF LockedAt
    <2>2. store.md[k].locked = (k \in locked)
      BY <2>1
    <2>3. k \in locked
      BY <2>2 DEF LockedAt
    <2> QED  BY <1>1, <1>4, <2>3
  <1>8. OneAnswers
    BY <1>3 DEF OneAnswers, Running
  <1>9. \A r \in Reqs : Answering(r)
    BY <1>3 DEF Answering, InBatch
  <1> QED  BY <1>6, <1>7, <1>8, <1>9 DEF AnswerInv

\* No step of a batch takes a locked version away.
LEMMA LockedVersionsStand ==
    ASSUME AnswerInv, [BatchNext]_vars, NEW k \in AllKeys, store.md[k] # None, store.md[k].locked
    PROVE  store'.md[k] # None /\ store'.md[k].loc = store.md[k].loc
  <1>1. CASE UNCHANGED vars
    BY <1>1 DEF vars
  <1>2. CASE BatchNext
    <2>1. PICK r \in Reqs : BatchStep(r) \/ Die(r)
      BY <1>2 DEF BatchNext
    <2>2. UNCHANGED scene
      BY <1>2 DEF BatchNext
    <2>3. PICK l : AnswerChange(r, l)
      BY <2>1, <2>2, BatchStepsAnswer
    <2> QED  BY <2>3, LockedStays DEF LockedAt
  <1> QED  BY <1>1, <1>2

\* A batch that ends has no entry left to answer for.
LEMMA EntriesAnswered ==
    ASSUME AnswerInv, [BatchNext]_vars, NEW r \in Reqs, pc[r] = "batch", pc'[r] = "ok"
    PROVE  /\ ctx[r].deleted \cup ctx[r].errors = ctx[r].asked
           /\ ctx[r].deleted \cap ctx[r].errors = {}
           /\ scene.sequential => \A e \in ctx[r].deleted :
                  store'.md[e.key] = None \/ store'.md[e.key].marker
  <1>1. BatchNext
    BY DEF vars
  <1>2. PICK q \in Reqs : BatchStep(q) \/ Die(q)
    BY <1>1 DEF BatchNext
  <1>3. UNCHANGED scene
    BY <1>1 DEF BatchNext
  <1>4. PICK l : AnswerChange(q, l)
    BY <1>2, <1>3, BatchStepsAnswer
  <1>5. q = r
    BY <1>4 DEF AnswerChange, AnswerInv, AnswerShape
  <1>6. DeleteBatchData(r)
    <2>1. ~Die(r)
      BY DEF Die, Goto, AnswerInv, AnswerShape
    <2>2. pc' # pc
      OBVIOUS
    <2> QED
      BY <1>2, <1>5, <2>1, <2>2
      DEF BatchStep, MultiObjectDelete, ReadAhead, ReadEntry, DeleteEntry, MarkEntry,
          PutBeside, PutBesideRecord, DeleteOverwritten, Sent
  <1>7. /\ Account(ctx[r].asked, {}, {}, ctx[r].deleted, ctx[r].errors)
        /\ scene.sequential => \A e \in ctx[r].deleted : Hidden(e.key)
    BY <1>6 DEF DeleteBatchData, AnswerInv, Answering, InBatch, Accounted
  <1>8. \A e \in ctx[r].deleted : e.key \in AllKeys
    BY <1>7 DEF Account, AnyEntries
  <1>9. \A k \in AllKeys : Hidden(k) => Hidden(k)'
    BY <1>4, <1>5, LockedStays
  <1>10. scene.sequential => \A e \in ctx[r].deleted : Hidden(e.key)'
    BY <1>7, <1>8, <1>9
  <1>11. /\ ctx[r].deleted \cup ctx[r].errors = ctx[r].asked
         /\ ctx[r].deleted \cap ctx[r].errors = {}
    BY <1>7 DEF Account
  <1> QED  BY <1>10, <1>11 DEF Hidden

-----------------------------------------------------------------------------
(* A body that is signed chunk by chunk *)

\* The stream as the client signed it, where its chunks begin, and what stands
\* between two places of it.
AsSigned == Streams["wellFormed"]
Begins == <<0, 8, 15>>
StreamEnd == 21
Stretch(b, e) == SubSeq(AsSigned, b + 1, e)

\* n tokens of the header of chunk c have come.
Reading(c, n) ==
    /\ n \in 0..3
    /\ ~store.haveMetadata /\ store.currentMetadata = Stretch(Begins[c], Begins[c] + n)
    /\ store.lastSignature = c - 1
    /\ store.dataCursor = 0

\* m tokens of the data of chunk c and its line break have come.
Taking(c, m) ==
    /\ c \in 1..2 /\ m \in 0..(Sizes[c] + 1)
    /\ store.haveMetadata /\ store.currentMetadata = <<>>
    /\ store.currentSignature = c /\ store.lastSignature = c - 1 /\ ~store.lastChunk
    /\ store.seekingDataSize = Sizes[c] + 2 - m
    /\ store.dataCursor = m

\* The data of chunk c when m tokens of it have come.
Filled(c, m) == [j \in 1..Sizes[c] |-> IF j <= m THEN <<"data", c, j>> ELSE None]
Gathered(c, m) == store.currentData = Filled(c, m)

\* Where the transform waits for the next piece.
AwaitsHeader(c, n) == Reading(c, n) /\ store.input = Stretch(Begins[c] + n, StreamEnd)
AwaitsData(c, m) ==
    /\ Taking(c, m) /\ Gathered(c, m)
    /\ store.input = Stretch(Begins[c] + 4 + m, StreamEnd)

\* Where it is in a piece that ends at e: it looks for the header of chunk c, takes
\* its data, or has it authenticated.
ParsesAt(c, n, e) ==
    /\ Reading(c, n) /\ e \in (Begins[c] + n)..StreamEnd
    /\ store.piece = Stretch(Begins[c] + n, e) /\ store.input = Stretch(e, StreamEnd)

TakesAt(c, m, e) ==
    /\ Taking(c, m) /\ Gathered(c, m) /\ e \in (Begins[c] + 4 + m)..StreamEnd
    /\ store.piece = Stretch(Begins[c] + 4 + m, e)
    /\ store.input = Stretch(e, StreamEnd)

ChecksAt(c, m, e) ==
    /\ Taking(c, m) /\ store.currentData = Signed(c)
    /\ e \in (Begins[c] + 6 + Sizes[c])..StreamEnd
    /\ store.piece = Stretch(Begins[c] + 4 + m, e)
    /\ store.input = Stretch(e, StreamEnd)

\* The empty chunk is authenticated; the rest of the stream is ignored.
ChecksLast ==
    /\ store.lastChunk /\ store.currentSignature = 3 /\ store.lastSignature = 2
    /\ store.currentData = <<>>

\* What was passed on when n chunks were found authentic.
PassedUpTo(n) ==
    /\ n = 0 => store.passed = <<>>
    /\ n = 1 => store.passed = Signed(1)
    /\ n = 2 => store.passed = Body

\* All was passed on.
AllPassed == store.lastPieceDone /\ store.lastSignature = 2

\* Where the transform is in the stream, by the call that is next.
V4Phase(call) ==
    /\ call \in {"idle", "await"} =>
            \/ AllPassed
            \/ /\ ~store.lastPieceDone
               /\ \/ \E c \in Chunks, n \in 0..3 : AwaitsHeader(c, n)
                  \/ \E c \in 1..2, m \in 0..3 : AwaitsData(c, m)
    /\ call = "metadata" =>
            ~store.lastPieceDone
            /\ \E c \in Chunks, n \in 0..3, e \in 0..StreamEnd : ParsesAt(c, n, e)
    /\ call = "data" =>
            ~store.lastPieceDone
            /\ \E c \in 1..2, m \in 0..3, e \in 0..StreamEnd : TakesAt(c, m, e)
    /\ call = "authenticate" =>
            /\ ~store.lastPieceDone
            /\ ChecksLast \/ \E c \in 1..2, m \in 0..3, e \in 0..StreamEnd : ChecksAt(c, m, e)
    /\ call \in {"ok", "failed"} => AllPassed

\* The calls and the fields of the transform.
V4Calls == {"idle", "await", "metadata", "data", "authenticate", "ok", "failed"}
V4Fields == {"stream", "input", "piece", "passed", "currentMetadata", "haveMetadata",
             "seekingDataSize", "currentData", "dataCursor", "lastSignature",
             "currentSignature", "lastChunk", "lastPieceDone", "clientError"}

\* Whatever the stream is: the data that was passed is that of as many chunks as
\* were found authentic, and the chunk at hand is the last one iff it is empty.
V4Inv ==
    /\ DOMAIN store = V4Fields /\ pc \in [Reqs -> V4Calls]
    /\ \A r, q \in Reqs : pc[r] # "idle" /\ pc[q] # "idle" => r = q
    /\ store.lastSignature \in 0..2 /\ PassedUpTo(store.lastSignature)
    /\ store.haveMetadata => /\ store.currentSignature \in Chunks
                             /\ store.lastChunk <=> store.currentSignature = 3
    /\ \A r \in Reqs : pc[r] \in {"data", "authenticate"} => store.haveMetadata

\* If the stream is as signed, what is held, what is at hand and what is yet to come
\* are consecutive stretches of it.
AsSignedInv ==
    store.stream = "wellFormed" =>
        /\ ~store.clientError
        /\ (\A r \in Reqs : pc[r] = "idle") => ~store.lastPieceDone /\ AwaitsHeader(1, 0)
        /\ \A r \in Reqs : pc[r] # "idle" => pc[r] # "failed" /\ V4Phase(pc[r])

\* The bytes of the body.
Bytes == {<<"data", 1, 1>>, <<"data", 1, 2>>, <<"data", 2, 1>>}

\* The bytes that were signed.
LEMMA SignedBytes ==
    /\ Signed(1) \in Seq(Bytes) /\ Signed(2) \in Seq(Bytes)
    /\ Len(Signed(1)) = 2 /\ Len(Signed(2)) = 1
    /\ Body \in Seq(Bytes) /\ Len(Body) = 3
    /\ <<>> \o Signed(1) = Signed(1)
    /\ Before(Body, 0) = <<>> /\ Before(Body, 2) = Signed(1) /\ Before(Body, 3) = Body
  <1>1. Signed(1) \in Seq(Bytes) /\ Signed(2) \in Seq(Bytes)
    BY DEF Signed, Sizes, Bytes
  <1>2. Len(Signed(1)) = 2 /\ Len(Signed(2)) = 1
    BY DEF Signed, Sizes
  <1>3. <<>> \o Signed(1) = Signed(1)
    BY <1>1, ConcatEmptySeq
  <1>4. Body \in Seq(Bytes) /\ Len(Body) = Len(Signed(1)) + Len(Signed(2))
    BY <1>1, ConcatProperties DEF Body
  <1>8. Len(Body) = 3
    <2>1. ASSUME NEW a \in Seq(Bytes), NEW b \in Seq(Bytes), Len(a) = 2, Len(b) = 1
          PROVE  Len(a \o b) = 3
      <3>1. Len(a \o b) = Len(a) + Len(b)
        BY ConcatProperties
      <3> QED  BY <2>1, <3>1
    <2> QED  BY <1>1, <1>2, <2>1, Zenon DEF Body
  <1>5. Before(Body, 0) = <<>>
    BY SubSeqEmpty DEF Before
  <1>6. Before(Body, 3) = Body
    <2>1. SubSeq(Body, 1, Len(Body)) = Body
      BY <1>4, SubSeqFull, Zenon
    <2>3. ~(3 < 0)
      OBVIOUS
    <2> QED  BY <1>8, <2>1, <2>3, Zenon DEF Before
  <1>7. Before(Body, 2) = Signed(1)
    <2>1. Before(Body, 2) = SubSeq(Body, 1, 2)
      BY DEF Before
    <2>2. SubSeq(Body, 1, 2) = SubSeq(Signed(1), 1, 2)
      BY <1>1, <1>2, SubSeqOfConcat1 DEF Body
    <2>3. SubSeq(Signed(1), 1, Len(Signed(1))) = Signed(1)
      BY <1>1, SubSeqFull
    <2> QED  BY <1>2, <2>1, <2>2, <2>3
  <1> QED  BY <1>1, <1>2, <1>3, <1>4, <1>5, <1>6, <1>7, <1>8

\* It holds where a body starts.
LEMMA V4Initially == V4Init => V4Inv
  BY DEF V4Init, V4Inv, V4Fields, V4Calls, PassedUpTo

\* An error passes nothing.
LEMMA FailKeepsInv ==
    ASSUME V4Inv, NEW r \in Reqs, pc[r] # "idle", Fail(r)
    PROVE  V4Inv'
  BY DEF V4Inv, V4Fields, V4Calls, PassedUpTo, Fail, Goto

\* Nor does a header that is not complete.
LEMMA KeepMetadataKeepsInv ==
    ASSUME V4Inv, NEW r \in Reqs, pc[r] # "idle", NEW s, KeepMetadata(r, s)
    PROVE  V4Inv'
  BY DEF V4Inv, V4Fields, V4Calls, PassedUpTo, KeepMetadata, Goto

\* The chunk at hand is the one whose header was found.
LEMMA ParseKeepsInv ==
    ASSUME V4Inv, NEW r \in Reqs, ParseMetadata(r)
    PROVE  V4Inv'
  <1> DEFINE s == RemainingPlusStored
             line == FullMetadata(s)
             full == Before(line, LineBreakIndex(line))
  <1> HIDE DEF s, line, full
  <1>1. /\ pc[r] = "metadata"
        /\ IF Breaks(s) = {} THEN KeepMetadata(r, s)
           ELSE IF Breaks(line) = {} THEN KeepMetadata(r, line)
           ELSE IF ~\E i \in Chunks : full = Header(i) THEN Fail(r)
           ELSE LET size == Sizes[full[1][2]]
                IN  /\ store' = [store EXCEPT
                           !.currentMetadata = <<>>, !.haveMetadata = TRUE,
                           !.currentSignature = full[2][2],
                           !.lastChunk = size = 0,
                           !.seekingDataSize = size + 2,
                           !.currentData = [j \in 1..size |-> None],
                           !.piece = From(s, LineBreakIndex(line) + 2)]
                    /\ Goto(r, IF size = 0 THEN "authenticate" ELSE "data")
                    /\ UNCHANGED ctx
    BY DEF ParseMetadata, s, line, full
  <1>2. CASE KeepMetadata(r, s) \/ KeepMetadata(r, line)
    BY <1>1, <1>2, KeepMetadataKeepsInv
  <1>3. CASE Fail(r)
    BY <1>1, <1>3, FailKeepsInv
  <1>4. ASSUME NEW i \in Chunks, full = Header(i), ~KeepMetadata(r, s),
               ~KeepMetadata(r, line), ~Fail(r)
        PROVE  V4Inv'
    <2>1. full[1][2] = i /\ full[2][2] = i
      BY <1>4 DEF Header
    <2> DEFINE size == Sizes[i]
    <2>2. /\ store' = [store EXCEPT
                           !.currentMetadata = <<>>, !.haveMetadata = TRUE,
                           !.currentSignature = i,
                           !.lastChunk = size = 0,
                           !.seekingDataSize = size + 2,
                           !.currentData = [j \in 1..size |-> None],
                           !.piece = From(s, LineBreakIndex(line) + 2)]
          /\ Goto(r, IF size = 0 THEN "authenticate" ELSE "data")
      BY <1>1, <1>4, <2>1
    <2>3. DOMAIN store' = V4Fields /\ store'.haveMetadata
          /\ store'.currentSignature = i /\ store'.lastSignature = store.lastSignature
          /\ store'.passed = store.passed
      BY <2>2 DEF V4Inv, V4Fields
    <2>4. store'.lastChunk <=> size = 0
      BY <2>2 DEF V4Inv, V4Fields
    <2>5. size = 0 <=> i = 3
      BY <1>4 DEF Chunks, Sizes
    <2>6. pc' \in [Reqs -> V4Calls] /\ \A q \in Reqs : q # r => pc'[q] = pc[q]
      BY <2>2 DEF V4Inv, Goto, V4Calls
    <2>7. \A q, p \in Reqs : pc'[p] # "idle" /\ pc'[q] # "idle" => p = q
      BY <1>1, <2>6 DEF V4Inv
    <2> HIDE DEF size
    <2> QED  BY <2>3, <2>4, <2>5, <2>6, <2>7, <1>1, <1>4 DEF V4Inv, PassedUpTo
  <1> QED  BY <1>1, <1>2, <1>3, <1>4

\* Data is passed on only when it was signed after what was passed before.
LEMMA AuthenticateKeepsInv ==
    ASSUME V4Inv, NEW r \in Reqs, Authenticate(r)
    PROVE  V4Inv'
  <1>1. pc[r] = "authenticate" /\ store.haveMetadata
        /\ store.currentSignature \in Chunks
    BY DEF Authenticate, V4Inv
  <1>2. CASE Fail(r)
    BY <1>1, <1>2, FailKeepsInv
  <1>3. CASE ~Fail(r)
    <2> PICK c \in Chunks : c = store.currentSignature
      BY <1>1
    <2> DEFINE rest == From(store.piece, store.seekingDataSize)
    <2>1. store.currentData = Signed(c) /\ store.lastSignature = c - 1
      BY <1>3 DEF Authenticate, Authentic
    <2>2. /\ store' = IF store.lastChunk
                            THEN [store EXCEPT !.lastPieceDone = TRUE, !.piece = <<>>]
                            ELSE [store EXCEPT !.passed = @ \o store.currentData,
                                               !.lastSignature = store.currentSignature,
                                               !.piece = rest, !.haveMetadata = FALSE,
                                               !.currentData = <<>>, !.dataCursor = 0]
          /\ Goto(r, IF store.lastChunk \/ rest = <<>> THEN "await" ELSE "metadata")
      BY <1>3, <2>1 DEF Authenticate, Authentic
    <2>3. pc' \in [Reqs -> V4Calls] /\ pc'[r] \in {"await", "metadata"}
          /\ \A q \in Reqs : q # r => pc'[q] = pc[q]
      BY <2>2 DEF V4Inv, Goto, V4Calls
    <2>4. \A q, p \in Reqs : pc'[p] # "idle" /\ pc'[q] # "idle" => p = q
      BY <1>1, <2>3 DEF V4Inv
    <2>40. \A q \in Reqs : pc'[q] \notin {"data", "authenticate"}
      BY <1>1, <2>3 DEF V4Inv
    <2>5. CASE store.lastChunk
      <3>1. DOMAIN store' = V4Fields /\ store'.haveMetadata = store.haveMetadata
            /\ store'.currentSignature = store.currentSignature
            /\ store'.lastSignature = store.lastSignature
            /\ store'.passed = store.passed
            /\ store'.lastChunk = store.lastChunk
        BY <2>2, <2>5 DEF V4Inv, V4Fields
      <3> QED  BY <3>1, <2>3, <2>4, <2>40 DEF V4Inv, PassedUpTo
    <2>6. CASE ~store.lastChunk
      <3>1. DOMAIN store' = V4Fields /\ ~store'.haveMetadata
            /\ store'.lastSignature = c /\ store'.passed = store.passed \o Signed(c)
            /\ PassedUpTo(c - 1)
        BY <2>1, <2>2, <2>6 DEF V4Inv, V4Fields
      <3>2. c \in 1..2
        BY <1>1, <2>6 DEF V4Inv, Chunks, Sizes
      <3>3. PassedUpTo(c)'
        <4>1. CASE c = 1
          <5>1. store.passed = <<>>
            BY <3>1, <4>1 DEF PassedUpTo
          <5>2. <<>> \o Signed(1) = Signed(1)
            BY SignedBytes
          <5> QED  BY <3>1, <4>1, <5>1, <5>2 DEF PassedUpTo
        <4>2. CASE c = 2
          <5>1. store.passed = Signed(1)
            BY <3>1, <4>2 DEF PassedUpTo
          <5> QED  BY <3>1, <4>2, <5>1 DEF PassedUpTo, Body
        <4> QED  BY <3>2, <4>1, <4>2
      <3>4. /\ store'.lastSignature \in 0..2
            /\ store'.lastSignature = 0 => store'.passed = <<>>
            /\ store'.lastSignature = 1 => store'.passed = Signed(1)
            /\ store'.lastSignature = 2 => store'.passed = Body
        <4>1. store'.lastSignature = c /\ (c = 1 \/ c = 2)
          BY <3>1, <3>2
        <4>2. /\ c = 1 => store'.passed = Signed(1)
              /\ c = 2 => store'.passed = Body
          BY <3>3 DEF PassedUpTo
        <4> QED  BY <4>1, <4>2
      <3> QED  BY <3>1, <3>4, <2>3, <2>4, <2>40 DEF V4Inv, PassedUpTo
    <2> QED  BY <2>5, <2>6
  <1> QED  BY <1>2, <1>3

\* Every step keeps it.
LEMMA V4InvSteps ==
    ASSUME V4Inv, V4Next
    PROVE  V4Inv'
  <1>1. PICK r \in Reqs : PutStreaming(r) \/ Transform(r) \/ ParseMetadata(r) \/ AddData(r)
                       \/ CompleteData(r) \/ Authenticate(r) \/ EndBody(r)
    BY DEF V4Next
  <1>2. CASE PutStreaming(r) \/ EndBody(r)
    BY <1>2 DEF PutStreaming, EndBody, Sent, V4Inv, V4Fields, V4Calls, PassedUpTo, Goto
  <1>3. CASE Transform(r)
    BY <1>3 DEF Transform, V4Inv, V4Fields, V4Calls, PassedUpTo, Goto
  <1>4. CASE AddData(r)
    BY <1>4 DEF AddData, V4Inv, V4Fields, V4Calls, PassedUpTo, Goto
  <1>5. CASE CompleteData(r)
    BY <1>5 DEF CompleteData, V4Inv, V4Fields, V4Calls, PassedUpTo, Goto
  <1> QED  BY <1>1, <1>2, <1>3, <1>4, <1>5, ParseKeepsInv, AuthenticateKeepsInv

\* What was passed on is what was signed, up to some chunk.
LEMMA OnlySignedHolds == V4Inv => OnlySignedDataPasses
  <1> SUFFICES ASSUME V4Inv  PROVE OnlySignedDataPasses
    OBVIOUS
  <1>1. store.lastSignature \in 0..2 /\ PassedUpTo(store.lastSignature)
    BY DEF V4Inv
  <1>2. CASE store.passed = <<>>
    BY <1>2, SignedBytes DEF OnlySignedDataPasses
  <1>3. CASE store.passed = Signed(1)
    <2>1. Len(store.passed) = 2 /\ store.passed = Before(Body, 2)
      BY <1>3, SignedBytes
    <2> QED  BY <2>1, SignedBytes DEF OnlySignedDataPasses
  <1>4. CASE store.passed = Body
    BY <1>4, SignedBytes DEF OnlySignedDataPasses
  <1> QED  BY <1>1, <1>2, <1>3, <1>4 DEF PassedUpTo

\* What a stream is made of, and how a chunk begins.
Tokens == {<<"cr">>, <<"lf">>}
          \cup {<<"size", i>> : i \in Chunks} \cup {<<"signature", i>> : i \in Chunks}
          \cup {<<"data", i, j>> : i \in Chunks, j \in 1..2}

Opening(c) == << <<"size", c>>, <<"signature", c>>, <<"cr">>, <<"lf">> >>

\* Concatenation as a name.
Cat(s, t) == s \o t

JoinedAs(S, s, t) ==
    /\ Cat(s, t) \in Seq(S) /\ Len(Cat(s, t)) = Len(s) + Len(t)
    /\ \A i \in 1..Len(s) : Cat(s, t)[i] = s[i]
    /\ \A i \in 1..Len(t) : Cat(s, t)[Len(s) + i] = t[i]

\* Two sequences one after the other.
LEMMA Joined ==
    ASSUME NEW S, NEW s \in Seq(S), NEW t \in Seq(S)
    PROVE  JoinedAs(S, s, t)
  BY ConcatProperties DEF Cat, JoinedAs

\* A header and its line break.
LEMMA HeaderIs == ASSUME NEW c \in Chunks
PROVE Cat(Header(c), Line) = Opening(c) /\ Opening(c) \in Seq(Tokens)
  <1>1. Header(c) \in Seq(Tokens) /\ Line \in Seq(Tokens) /\ Opening(c) \in Seq(Tokens)
    BY DEF Header, Line, Tokens, Opening
  <1>2. Len(Header(c)) = 2 /\ Len(Line) = 2 /\ Len(Opening(c)) = 4
    BY DEF Header, Line, Opening
  <1>3. /\ Cat(Header(c), Line) \in Seq(Tokens) /\ Len(Cat(Header(c), Line)) = 4
        /\ \A i \in 1..2 : Cat(Header(c), Line)[i] = Header(c)[i]
        /\ \A i \in 1..2 : Cat(Header(c), Line)[2 + i] = Line[i]
    <2>1. JoinedAs(Tokens, Header(c), Line)
      BY <1>1, Joined
    <2> QED  BY <1>2, <2>1 DEF JoinedAs
  <1>4. \A i \in 1..4 : Cat(Header(c), Line)[i] = Opening(c)[i]
    <2>1. Cat(Header(c), Line)[1] = Header(c)[1]
          /\ Cat(Header(c), Line)[2] = Header(c)[2]
          /\ Cat(Header(c), Line)[3] = Line[1] /\ Cat(Header(c), Line)[4] = Line[2]
      BY <1>3
    <2>2. /\ Header(c)[1] = Opening(c)[1] /\ Header(c)[2] = Opening(c)[2]
          /\ Line[1] = Opening(c)[3] /\ Line[2] = Opening(c)[4]
      BY DEF Header, Line, Opening
    <2> QED  BY <2>1, <2>2
  <1> QED  BY <1>1, <1>2, <1>3, <1>4, SeqEqual

\* The data of a chunk.
LEMMA SignedIs == ASSUME NEW c \in Chunks
PROVE Signed(c) \in Seq(Tokens) /\ Len(Signed(c)) = Sizes[c]
     /\ Sizes[c] \in 0..2 /\ \A j \in 1..Sizes[c] : Signed(c)[j] = <<"data", c, j>>
  <1>1. Sizes[c] \in 0..2
    BY DEF Sizes, Chunks
  <1>2. Signed(c) = [j \in 1..Sizes[c] |-> <<"data", c, j>>]
    BY DEF Signed
  <1>3. \A j \in 1..Sizes[c] : <<"data", c, j>> \in Tokens
    BY <1>1 DEF Tokens
  <1> QED  BY <1>1, <1>2, <1>3

\* A chunk, token by token.
LEMMA ChunkIs ==
    ASSUME NEW c \in Chunks
    PROVE  /\ Chunk(c) \in Seq(Tokens) /\ Len(Chunk(c)) = 6 + Sizes[c]
           /\ \A i \in 1..4 : Chunk(c)[i] = Opening(c)[i]
           /\ \A j \in 1..Sizes[c] : Chunk(c)[4 + j] = <<"data", c, j>>
  <1>1. PICK z \in 0..2 : z = Sizes[c]
    BY SignedIs
  <1>2. PICK h, l, d : h = Opening(c) /\ l = Line /\ d = Signed(c)
    OBVIOUS
  <1>3. /\ h \in Seq(Tokens) /\ Len(h) = 4 /\ l \in Seq(Tokens) /\ Len(l) = 2
        /\ d \in Seq(Tokens) /\ Len(d) = z /\ \A j \in 1..z : d[j] = <<"data", c, j>>
    BY <1>1, <1>2, HeaderIs, SignedIs DEF Opening, Line, Tokens
  <1>4. Chunk(c) = Cat(Cat(h, d), l)
    BY <1>2, HeaderIs DEF Chunk, Cat
  <1>5. /\ Cat(h, d) \in Seq(Tokens) /\ Len(Cat(h, d)) = 4 + z
        /\ \A i \in 1..4 : Cat(h, d)[i] = h[i]
        /\ \A i \in 1..z : Cat(h, d)[4 + i] = d[i]
    <2>1. JoinedAs(Tokens, h, d)
      BY <1>3, Joined
    <2> QED  BY <1>3, <2>1 DEF JoinedAs
  <1>6. PICK hd : hd = Cat(h, d)
    OBVIOUS
  <1>7. /\ Cat(hd, l) \in Seq(Tokens) /\ Len(Cat(hd, l)) = 4 + z + 2
        /\ \A i \in 1..(4 + z) : Cat(hd, l)[i] = hd[i]
    <2>1. JoinedAs(Tokens, hd, l)
      BY <1>3, <1>5, <1>6, Joined
    <2> QED  BY <1>3, <1>5, <1>6, <2>1 DEF JoinedAs
  <1>8. \A j \in 1..z : hd[4 + j] = <<"data", c, j>> /\ Cat(hd, l)[4 + j] = hd[4 + j]
    BY <1>3, <1>5, <1>6, <1>7
  <1>9. \A j \in 1..4 : hd[j] = Opening(c)[j] /\ Cat(hd, l)[j] = hd[j]
    BY <1>2, <1>3, <1>5, <1>6, <1>7
  <1>10. PICK w : w = Cat(hd, l) /\ w = Chunk(c)
    BY <1>4, <1>6
  <1>11. Len(Chunk(c)) = 6 + Sizes[c] /\ Chunk(c) \in Seq(Tokens)
    BY <1>1, <1>7, <1>10
  <1>12. \A i \in 1..4 : Chunk(c)[i] = Opening(c)[i]
    BY <1>9, <1>10
  <1>13. \A j \in 1..Sizes[c] : Chunk(c)[4 + j] = <<"data", c, j>>
    BY <1>1, <1>8, <1>10
  <1> QED  BY <1>11, <1>12, <1>13

\* The stream, token by token.
LEMMA AsSignedIs ==
    /\ AsSigned \in Seq(Tokens) /\ Len(AsSigned) = 21
    /\ \A c \in Chunks : \A i \in 1..4 : AsSigned[Begins[c] + i] = Opening(c)[i]
    /\ \A c \in Chunks : \A j \in 1..Sizes[c] : AsSigned[Begins[c] + 4 + j] = <<"data", c, j>>
  <1>1. PICK a, b, d : a = Chunk(1) /\ b = Chunk(2) /\ d = Chunk(3)
    OBVIOUS
  <1>2. a \in Seq(Tokens) /\ Len(a) = 8 /\ b \in Seq(Tokens) /\ Len(b) = 7
        /\ d \in Seq(Tokens) /\ Len(d) = 6
    <2>1. 1 \in Chunks /\ 2 \in Chunks /\ 3 \in Chunks /\ Sizes[1] = 2 /\ Sizes[2] = 1
          /\ Sizes[3] = 0
      BY DEF Chunks, Sizes
    <2>2. \A c \in Chunks : Chunk(c) \in Seq(Tokens) /\ Len(Chunk(c)) = 6 + Sizes[c]
      BY ChunkIs
    <2>3. /\ Len(a) = 6 + Sizes[1] /\ Len(b) = 6 + Sizes[2] /\ Len(d) = 6 + Sizes[3]
          /\ a \in Seq(Tokens) /\ b \in Seq(Tokens) /\ d \in Seq(Tokens)
      BY <1>1, <2>1, <2>2, Zenon
    <2> QED  BY <2>1, <2>3
  <1>3. /\ Cat(a, b) \in Seq(Tokens) /\ Len(Cat(a, b)) = 15
        /\ \A i \in 1..8 : Cat(a, b)[i] = a[i]
        /\ \A i \in 1..7 : Cat(a, b)[8 + i] = b[i]
    <2>1. JoinedAs(Tokens, a, b)
      BY <1>2, Joined
    <2> QED  BY <1>2, <2>1 DEF JoinedAs
  <1>4. PICK e, w : e = Cat(a, b) /\ w = Cat(e, d)
    OBVIOUS
  <1>5. AsSigned = w
    BY <1>1, <1>4 DEF AsSigned, Streams, Cat
  <1>6. /\ w \in Seq(Tokens) /\ Len(w) = 21
        /\ \A i \in 1..15 : w[i] = e[i]
        /\ \A i \in 1..6 : w[15 + i] = d[i]
    <2>1. e \in Seq(Tokens) /\ Len(e) = 15
      BY <1>3, <1>4, Zenon
    <2>2. JoinedAs(Tokens, e, d)
      BY <1>2, <2>1, Joined
    <2>3. /\ Cat(e, d) \in Seq(Tokens) /\ Len(Cat(e, d)) = 21
          /\ \A i \in 1..15 : Cat(e, d)[i] = e[i]
          /\ \A i \in 1..6 : Cat(e, d)[15 + i] = d[i]
      BY <1>2, <2>1, <2>2 DEF JoinedAs
    <2> QED  BY <1>4, <2>3, Zenon
  <1>7. ASSUME NEW i \in 1..8  PROVE w[i] = a[i]
    <2>1. i \in 1..15
      OBVIOUS
    <2>2. w[i] = e[i] /\ e[i] = a[i]
      BY <1>3, <1>4, <1>6, <2>1, Zenon
    <2> QED  BY <2>2
  <1>8. ASSUME NEW i \in 1..7  PROVE w[8 + i] = b[i]
    <2>1. 8 + i \in 1..15
      OBVIOUS
    <2>2. w[8 + i] = e[8 + i] /\ e[8 + i] = b[i]
      BY <1>3, <1>4, <1>6, <2>1, Zenon
    <2> QED  BY <2>2
  <1>9. \A c \in Chunks : \A i \in 1..(6 + Sizes[c]) : AsSigned[Begins[c] + i] = Chunk(c)[i]
    <2>1. Sizes[1] = 2 /\ Sizes[2] = 1 /\ Sizes[3] = 0 /\ Begins[1] = 0 /\ Begins[2] = 8
          /\ Begins[3] = 15
      BY DEF Begins, Sizes
    <2>2. \A c \in Chunks : c = 1 \/ c = 2 \/ c = 3
      BY DEF Chunks, Sizes
    <2>3. /\ \A i \in 1..8 : AsSigned[0 + i] = Chunk(1)[i]
          /\ \A i \in 1..7 : AsSigned[8 + i] = Chunk(2)[i]
          /\ \A i \in 1..6 : AsSigned[15 + i] = Chunk(3)[i]
      BY <1>1, <1>5, <1>6, <1>7, <1>8
    <2>4. /\ \A i \in 1..(6 + Sizes[1]) : AsSigned[Begins[1] + i] = Chunk(1)[i]
          /\ \A i \in 1..(6 + Sizes[2]) : AsSigned[Begins[2] + i] = Chunk(2)[i]
          /\ \A i \in 1..(6 + Sizes[3]) : AsSigned[Begins[3] + i] = Chunk(3)[i]
      BY <2>1, <2>3
    <2> QED  BY <2>2, <2>4, Zenon
  <1>10. ASSUME NEW c \in Chunks, NEW i \in 1..4
         PROVE AsSigned[Begins[c] + i] = Opening(c)[i]
    <2>1. i \in 1..(6 + Sizes[c])
      BY SignedIs
    <2> QED  BY <1>9, <2>1, ChunkIs
  <1>11. ASSUME NEW c \in Chunks, NEW j \in 1..Sizes[c]
         PROVE AsSigned[Begins[c] + 4 + j] = <<"data", c, j>>
    <2>1. Sizes[c] \in 0..2 /\ Begins[c] \in Nat
      BY SignedIs DEF Begins, Chunks, Sizes
    <2>2. 4 + j \in 1..(6 + Sizes[c]) /\ Begins[c] + (4 + j) = Begins[c] + 4 + j
      BY <2>1
    <2> QED  BY <1>9, <2>2, ChunkIs
  <1> QED  BY <1>5, <1>6, <1>10, <1>11

\* ChunkPlaces in the stream, by chunk.
LEMMA ChunkPlaces ==
    ASSUME NEW c \in Chunks
    PROVE  /\ c \in 1..3 /\ Sizes[c] \in 0..2 /\ Begins[c] \in 0..15 /\ Begins[c] + 6 + Sizes[c] \in 0..21
           /\ c \in 1..2 => c + 1 \in Chunks /\ Begins[c + 1] = Begins[c] + 6 + Sizes[c]
           /\ c \in 1..2 => Begins[c] \in 0..8
           /\ Sizes[c] = 0 <=> c = 3
  <1>1. Sizes[1] = 2 /\ Sizes[2] = 1 /\ Sizes[3] = 0 /\ Begins[1] = 0 /\ Begins[2] = 8
        /\ Begins[3] = 15
    BY DEF Begins, Sizes
  <1>2. Chunks = 1..3
    BY DEF Chunks, Sizes
  <1>3. c = 1 \/ c = 2 \/ c = 3
    BY <1>2
  <1>4. CASE c = 1
    BY <1>1, <1>2, <1>4
  <1>5. CASE c = 2
    BY <1>1, <1>2, <1>5
  <1>6. CASE c = 3
    BY <1>1, <1>2, <1>6
  <1> QED  BY <1>3, <1>4, <1>5, <1>6

\* Where a chunk's header and data may have come to.
LEMMA ChunkPlacesWithin ==
    ASSUME NEW c \in Chunks, NEW k \in 0..3
    PROVE  Begins[c] + k \in 0..StreamEnd /\ (c \in 1..2 => Begins[c] + 4 + k \in 0..StreamEnd)
  <1>1. Begins[c] \in 0..15 /\ (c \in 1..2 => Begins[c] \in 0..8)
    BY ChunkPlaces
  <1> QED  BY <1>1 DEF StreamEnd

\* A part of the stream.
LEMMA StretchIs ==
    ASSUME NEW b \in 0..StreamEnd, NEW e \in b..StreamEnd
    PROVE  /\ Stretch(b, e) \in Seq(Tokens) /\ Len(Stretch(b, e)) = e - b
           /\ \A i \in 1..(e - b) : Stretch(b, e)[i] = AsSigned[b + i]
  <1>1. \A i \in (b + 1)..e : AsSigned[i] \in Tokens
    <2>1. \A i \in 1..Len(AsSigned) : AsSigned[i] \in Tokens
      BY AsSignedIs, ElementOfSeq
    <2>2. Len(AsSigned) = 21
      BY AsSignedIs
    <2>3. \A i \in 1..21 : AsSigned[i] \in Tokens
      BY <2>1, <2>2, Zenon
    <2> QED  BY <2>3 DEF StreamEnd
  <1>2. b + 1 \in Int /\ e \in Int
    BY DEF StreamEnd
  <1>3. PICK m : m = b + 1
    OBVIOUS
  <1>4. /\ SubSeq(AsSigned, m, e) \in Seq(Tokens)
        /\ Len(SubSeq(AsSigned, m, e)) = IF m <= e THEN e - m + 1 ELSE 0
        /\ \A i \in 1..(e - m + 1) : SubSeq(AsSigned, m, e)[i] = AsSigned[m + i - 1]
    BY <1>1, <1>2, <1>3, SubSeqProperties
  <1>5. PICK p : p = SubSeq(AsSigned, m, e) /\ p = Stretch(b, e)
    BY <1>3 DEF Stretch
  <1>6. /\ p \in Seq(Tokens) /\ Len(p) = IF m <= e THEN e - m + 1 ELSE 0
        /\ \A i \in 1..(e - m + 1) : p[i] = AsSigned[m + i - 1]
    BY <1>4, <1>5, Zenon
  <1>7. p \in Seq(Tokens) /\ Len(p) = e - b
        /\ \A i \in 1..(e - b) : p[i] = AsSigned[b + i]
    BY <1>2, <1>3, <1>6 DEF StreamEnd
  <1> QED  BY <1>5, <1>7, Zenon

\* Cutting a part in two, and putting two together.
LEMMA CutStretch ==
    ASSUME NEW b \in 0..StreamEnd, NEW m \in b..StreamEnd, NEW e \in m..StreamEnd
    PROVE  /\ Before(Stretch(b, e), m - b) = Stretch(b, m)
           /\ From(Stretch(b, e), m - b) = Stretch(m, e)
           /\ Stretch(b, m) \o Stretch(m, e) = Stretch(b, e)
  <1>1. /\ b \in 0..21 /\ m \in b..21 /\ e \in m..21 /\ e \in b..StreamEnd
        /\ m \in 0..StreamEnd
        /\ m - b \in Nat /\ e - m \in Nat /\ e - b \in Nat
    BY DEF StreamEnd
  <1>2. PICK p, k : p = Stretch(b, e) /\ k = m - b
    OBVIOUS
  <1>3. p \in Seq(Tokens) /\ Len(p) = e - b
        /\ \A i \in 1..(e - b) : p[i] = AsSigned[b + i]
    BY <1>1, <1>2, StretchIs
  <1>4. Stretch(b, m) \in Seq(Tokens) /\ Len(Stretch(b, m)) = k
        /\ \A i \in 1..k : Stretch(b, m)[i] = AsSigned[b + i]
    BY <1>1, <1>2, StretchIs
  <1>5. Stretch(m, e) \in Seq(Tokens) /\ Len(Stretch(m, e)) = e - m
        /\ \A i \in 1..(e - m) : Stretch(m, e)[i] = AsSigned[m + i]
    BY <1>1, <1>2, StretchIs
  <1>6. \A i \in 1..(e - b) : p[i] \in Tokens
    <2>1. \A i \in 1..Len(p) : p[i] \in Tokens
      BY <1>3, ElementOfSeq
    <2> QED  BY <1>3, <2>1, Zenon
  <1>7. Before(p, k) = Stretch(b, m)
    <2>1. Before(p, k) = SubSeq(p, 1, k)
      BY <1>1, <1>2 DEF Before
    <2>2. PICK q : q = SubSeq(p, 1, k)
      OBVIOUS
    <2>3. q \in Seq(Tokens) /\ Len(q) = k /\ \A i \in 1..k : q[i] = p[i]
      <3>1. (\A i \in 1..k : p[i] \in Tokens) /\ 1 \in Int /\ k \in Int
        BY <1>1, <1>2, <1>6
      <3>2. /\ SubSeq(p, 1, k) \in Seq(Tokens)
            /\ Len(SubSeq(p, 1, k)) = IF 1 <= k THEN k - 1 + 1 ELSE 0
            /\ \A i \in 1..(k - 1 + 1) : SubSeq(p, 1, k)[i] = p[1 + i - 1]
        BY <3>1, SubSeqProperties
      <3>3. q \in Seq(Tokens) /\ Len(q) = (IF 1 <= k THEN k - 1 + 1 ELSE 0)
            /\ \A i \in 1..(k - 1 + 1) : q[i] = p[1 + i - 1]
        BY <2>2, <3>2, Zenon
      <3> QED  BY <1>1, <1>2, <3>3
    <2>4. \A i \in 1..k : q[i] = Stretch(b, m)[i]
      BY <1>1, <1>2, <1>3, <1>4, <2>3
    <2>5. q = Stretch(b, m)
      BY <1>4, <2>3, <2>4, SeqEqual, Zenon
    <2> QED  BY <2>1, <2>2, <2>5
  <1>8. From(p, k) = Stretch(m, e)
    <2>1. PICK n, l : n = k + 1 /\ l = e - b
      OBVIOUS
    <2>2. From(p, k) = SubSeq(p, n, l)
      BY <1>3, <2>1, Zenon DEF From
    <2>3. PICK q : q = SubSeq(p, n, l)
      OBVIOUS
    <2>4. q \in Seq(Tokens) /\ Len(q) = e - m /\ \A i \in 1..(e - m) : q[i] = p[k + i]
      <3>1. (\A i \in n..l : p[i] \in Tokens) /\ n \in Int /\ l \in Int
        BY <1>1, <1>2, <1>6, <2>1
      <3>2. /\ SubSeq(p, n, l) \in Seq(Tokens)
            /\ Len(SubSeq(p, n, l)) = IF n <= l THEN l - n + 1 ELSE 0
            /\ \A i \in 1..(l - n + 1) : SubSeq(p, n, l)[i] = p[n + i - 1]
        BY <3>1, SubSeqProperties
      <3>3. q \in Seq(Tokens) /\ Len(q) = (IF n <= l THEN l - n + 1 ELSE 0)
            /\ \A i \in 1..(l - n + 1) : q[i] = p[n + i - 1]
        BY <2>3, <3>2, Zenon
      <3>4. l - n + 1 = e - m /\ n <= l + 1 /\ e - m \in Nat
        BY <1>1, <1>2, <2>1
      <3>5. Len(q) = e - m
        BY <1>1, <1>2, <2>1, <3>3
      <3>6. ASSUME NEW i \in 1..(e - m)  PROVE q[i] = p[k + i]
        <4>1. i \in 1..(l - n + 1) /\ n + i - 1 = k + i
          BY <1>1, <1>2, <2>1, <3>4
        <4>2. q[i] = p[n + i - 1]
          BY <3>3, <4>1, Zenon
        <4> QED  BY <4>1, <4>2, Zenon
      <3> QED  BY <3>3, <3>5, <3>6
    <2>5. \A i \in 1..(e - m) : q[i] = Stretch(m, e)[i]
      <3>1. ASSUME NEW i \in 1..(e - m)  PROVE q[i] = Stretch(m, e)[i]
        <4>1. k + i \in 1..(e - b) /\ b + (k + i) = m + i
          BY <1>1, <1>2
        <4>2. q[i] = p[k + i] /\ p[k + i] = AsSigned[b + (k + i)]
          BY <1>3, <2>4, <4>1, Zenon
        <4> QED  BY <1>5, <4>1, <4>2, Zenon
      <3> QED  BY <3>1
    <2>6. q = Stretch(m, e)
      BY <1>5, <2>4, <2>5, SeqEqual, Zenon
    <2> QED  BY <2>2, <2>3, <2>6
  <1>9. Stretch(b, m) \o Stretch(m, e) = Stretch(b, e)
    <2>1. b + 1 \in 1..(Len(AsSigned) + 1) /\ m \in (b + 1 - 1)..Len(AsSigned)
          /\ e \in m..Len(AsSigned)
      BY <1>1, AsSignedIs
    <2> QED  BY <2>1, AsSignedIs, ConcatAdjacentSubSeq DEF Stretch
  <1> QED  BY <1>2, <1>7, <1>8, <1>9, Zenon

\* The same, by the number of tokens.
LEMMA CutStretchAt ==
    ASSUME NEW b \in 0..StreamEnd, NEW e \in b..StreamEnd, NEW n \in 0..(e - b)
    PROVE  /\ Before(Stretch(b, e), n) = Stretch(b, b + n)
           /\ From(Stretch(b, e), n) = Stretch(b + n, e)
           /\ b + n \in b..StreamEnd /\ e \in (b + n)..StreamEnd
  <1>1. PICK m : m = b + n
    OBVIOUS
  <1>2. m \in b..StreamEnd /\ e \in m..StreamEnd /\ m - b = n
    BY <1>1 DEF StreamEnd
  <1>3. Before(Stretch(b, e), m - b) = Stretch(b, m)
        /\ From(Stretch(b, e), m - b) = Stretch(m, e)
    BY <1>2, CutStretch
  <1> QED  BY <1>1, <1>2, <1>3, Zenon

\* What a header is found in, and what is found.
LEMMA HeaderFound ==
    ASSUME NEW c \in Chunks, NEW e \in Begins[c]..StreamEnd
    PROVE  /\ e - Begins[c] < 4 => Breaks(Stretch(Begins[c], e)) = {}
           /\ e - Begins[c] >= 4 => /\ Breaks(Stretch(Begins[c], e)) # {}
                                  /\ LineBreakIndex(Stretch(Begins[c], e)) = 2
           /\ Stretch(Begins[c], Begins[c] + 2) = Header(c)
  <1>1. PICK b \in 0..15 : b = Begins[c]
    BY ChunkPlaces
  <1>2. PICK s : s = Stretch(Begins[c], e)
    OBVIOUS
  <1>3. e \in 0..21 /\ e - b \in Nat
    BY <1>1 DEF StreamEnd
  <1>4. s \in Seq(Tokens) /\ Len(s) = e - b
        /\ \A i \in 1..(e - b) : s[i] = AsSigned[b + i]
    <2>1. b \in 0..StreamEnd /\ e \in b..StreamEnd
      BY <1>1, <1>3 DEF StreamEnd
    <2>2. s = Stretch(b, e)
      BY <1>1, <1>2, Zenon
    <2> QED  BY <2>1, <2>2, StretchIs, Zenon
  <1>5. \A i \in 1..4 : AsSigned[b + i] = Opening(c)[i]
    BY <1>1, AsSignedIs, Zenon
  <1>6. Opening(c)[1] # <<"cr">> /\ Opening(c)[2] # <<"cr">> /\ Opening(c)[3] = <<"cr">>
        /\ Opening(c)[4] = <<"lf">>
    BY DEF Opening
  <1>7. Breaks(s) = {i \in 0..(e - b - 2) : s[i + 1] = <<"cr">> /\ s[i + 2] = <<"lf">>}
    BY <1>4, Zenon DEF Breaks
  <1>8. \A i \in Breaks(s) : i \in Nat /\ i <= e - b - 2 /\ i >= 2
    <2>1. s[1] # <<"cr">> \/ e - b < 1
      <3>1. e - b < 1 \/ 1 \in 1..(e - b)
        BY <1>3
      <3>2. 1 \in 1..(e - b) => s[1] = AsSigned[b + 1]
        BY <1>4, Zenon
      <3>3. 1 \in 1..4
        OBVIOUS
      <3>4. AsSigned[b + 1] = Opening(c)[1]
        BY <1>5, <3>3, Zenon
      <3> QED  BY <1>6, <3>1, <3>2, <3>4, Zenon
    <2>2. s[2] # <<"cr">> \/ e - b < 2
      <3>1. e - b < 2 \/ 2 \in 1..(e - b)
        BY <1>3
      <3>2. 2 \in 1..(e - b) => s[2] = AsSigned[b + 2]
        BY <1>4, Zenon
      <3>3. 2 \in 1..4
        OBVIOUS
      <3>4. AsSigned[b + 2] = Opening(c)[2]
        BY <1>5, <3>3, Zenon
      <3> QED  BY <1>6, <3>1, <3>2, <3>4, Zenon
    <2>3. ASSUME NEW i \in Breaks(s)  PROVE i \in 0..(e - b - 2) /\ s[i + 1] = <<"cr">>
      BY <1>7, <2>3
    <2> QED  BY <1>1, <1>3, <2>1, <2>2, <2>3
  <1>9. e - b < 4 => Breaks(s) = {}
    BY <1>3, <1>8
  <1>10. ASSUME e - b >= 4  PROVE Breaks(s) # {} /\ LineBreakIndex(s) = 2
    <2>1. s[3] = <<"cr">> /\ s[4] = <<"lf">>
      <3>1. s[3] = AsSigned[b + 3] /\ s[4] = AsSigned[b + 4]
        BY <1>1, <1>3, <1>4, <1>10
      <3> QED  BY <1>5, <1>6, <3>1
    <2>2. 2 \in Breaks(s)
      BY <1>3, <1>7, <1>10, <2>1
    <2>3. \E i \in Breaks(s) : \A j \in Breaks(s) : i <= j
      BY <1>8, <2>2
    <2>4. LineBreakIndex(s) \in Breaks(s) /\ \A j \in Breaks(s) : LineBreakIndex(s) <= j
      BY <2>3, Zenon DEF LineBreakIndex
    <2> QED  BY <1>8, <2>2, <2>4
  <1>11. Stretch(Begins[c], Begins[c] + 2) = Header(c)
    <2>1. PICK h : h = Stretch(Begins[c], Begins[c] + 2)
      OBVIOUS
    <2>2. h \in Seq(Tokens) /\ Len(h) = 2 /\ \A i \in 1..2 : h[i] = AsSigned[b + i]
      <3>1. b \in 0..StreamEnd /\ b + 2 \in b..StreamEnd /\ b + 2 - b = 2
        BY <1>1 DEF StreamEnd
      <3>2. h = Stretch(b, b + 2)
        BY <1>1, <2>1, Zenon
      <3>3. PICK g \in b..StreamEnd : g = b + 2 /\ g - b = 2
        BY <3>1
      <3>4. /\ Stretch(b, g) \in Seq(Tokens) /\ Len(Stretch(b, g)) = g - b
            /\ \A i \in 1..(g - b) : Stretch(b, g)[i] = AsSigned[b + i]
        BY <3>1, <3>3, StretchIs, Zenon
      <3> QED  BY <3>2, <3>3, <3>4, Zenon
    <2>3. Header(c) \in Seq(Tokens) /\ Len(Header(c)) = 2
          /\ Header(c)[1] = Opening(c)[1] /\ Header(c)[2] = Opening(c)[2]
      BY DEF Header, Opening, Tokens
    <2>4. \A i \in 1..2 : h[i] = Header(c)[i]
      BY <1>5, <2>2, <2>3
    <2> QED  BY <2>1, <2>2, <2>3, <2>4, SeqEqual, Zenon
  <1> QED  BY <1>1, <1>2, <1>9, <1>10, <1>11, Zenon

\* A piece ends anywhere in what is yet to come.
LEMMA TransformMovesOn ==
    ASSUME V4Inv, NEW r \in Reqs, Transform(r), ~store.clientError, V4Phase("await")
    PROVE  ~store'.clientError /\ pc'[r] # "failed" /\ V4Phase(pc[r])'
  <1>1. PICK n \in 1..Len(store.input) :
        /\ store' = [store EXCEPT !.input = From(@, n), !.piece = Before(store.input, n)]
        /\ Goto(r, IF store.clientError \/ store.lastPieceDone THEN "await"
                   ELSE IF store.haveMetadata THEN "data" ELSE "metadata")
    BY DEF Transform
  <1>2. /\ store'.input = From(store.input, n) /\ store'.piece = Before(store.input, n)
        /\ store'.clientError = store.clientError
        /\ store'.lastPieceDone = store.lastPieceDone
        /\ store'.haveMetadata = store.haveMetadata
        /\ store'.currentMetadata = store.currentMetadata
        /\ store'.lastSignature = store.lastSignature
        /\ store'.dataCursor = store.dataCursor
        /\ store'.currentSignature = store.currentSignature
        /\ store'.lastChunk = store.lastChunk
        /\ store'.seekingDataSize = store.seekingDataSize
        /\ store'.currentData = store.currentData
    BY <1>1 DEF V4Inv, V4Fields
  <1>3. pc'[r] = IF store.lastPieceDone THEN "await"
                 ELSE IF store.haveMetadata THEN "data" ELSE "metadata"
    BY <1>1 DEF V4Inv, Goto
  <1>4. CASE AllPassed
    BY <1>2, <1>3, <1>4 DEF V4Phase, AllPassed
  <1>5. ASSUME NEW c \in Chunks, NEW k \in 0..3, AwaitsHeader(c, k),
               ~store.lastPieceDone
        PROVE  pc'[r] = "metadata" /\ V4Phase("metadata")'
    <2>1. PICK b \in 0..StreamEnd : b = Begins[c] + k
      <3>1. Begins[c] + k \in 0..StreamEnd
        BY ChunkPlacesWithin, Zenon
      <3> QED  BY <3>1, Zenon
    <2>2. b \in 0..StreamEnd /\ store.input = Stretch(b, StreamEnd)
      <3>1. b \in 0..StreamEnd
        BY <2>1, Zenon
      <3>2. store.input = Stretch(b, StreamEnd)
        BY <1>5, <2>1, Zenon DEF AwaitsHeader
      <3> QED  BY <3>1, <3>2
    <2>3. n \in 1..(StreamEnd - b)
      <3>1. StreamEnd \in b..StreamEnd
        BY <2>2 DEF StreamEnd
      <3>2. Len(Stretch(b, StreamEnd)) = StreamEnd - b
        BY <2>2, <3>1, StretchIs
      <3> QED  BY <1>1, <2>2, <3>2, Zenon
    <2>4. PICK e : e = b + n
      OBVIOUS
    <2>5. e \in b..StreamEnd /\ e \in 0..StreamEnd /\ n = e - b
          /\ StreamEnd \in e..StreamEnd
      BY <2>2, <2>3, <2>4 DEF StreamEnd
    <2>6. store'.piece = Stretch(b, e) /\ store'.input = Stretch(e, StreamEnd)
      BY <1>2, <2>2, <2>5, CutStretch
    <2>7. ParsesAt(c, k, e)'
      BY <1>2, <1>5, <2>1, <2>5, <2>6 DEF ParsesAt, AwaitsHeader, Reading
    <2>8. pc'[r] = "metadata"
      BY <1>3, <1>5 DEF AwaitsHeader, Reading
    <2> QED  BY <1>2, <1>5, <2>5, <2>7, <2>8 DEF V4Phase
  <1>6. ASSUME NEW c \in 1..2, NEW m \in 0..3, AwaitsData(c, m), ~store.lastPieceDone
        PROVE  pc'[r] = "data" /\ V4Phase("data")'
    <2>1. PICK b \in 0..StreamEnd : b = Begins[c] + 4 + m
      <3>1. c \in Chunks
        BY DEF Chunks, Sizes
      <3>2. Begins[c] + 4 + m \in 0..StreamEnd
        BY <3>1, ChunkPlacesWithin, Zenon
      <3> QED  BY <3>2, Zenon
    <2>2. b \in 0..StreamEnd /\ store.input = Stretch(b, StreamEnd)
      <3>1. c \in Chunks
        BY DEF Chunks, Sizes
      <3>2. b \in 0..StreamEnd
        BY <2>1, Zenon
      <3>3. store.input = Stretch(b, StreamEnd)
        BY <1>6, <2>1, Zenon DEF AwaitsData
      <3> QED  BY <3>2, <3>3
    <2>3. n \in 1..(StreamEnd - b)
      <3>1. StreamEnd \in b..StreamEnd
        BY <2>2 DEF StreamEnd
      <3>2. Len(Stretch(b, StreamEnd)) = StreamEnd - b
        BY <2>2, <3>1, StretchIs
      <3> QED  BY <1>1, <2>2, <3>2, Zenon
    <2>4. PICK e : e = b + n
      OBVIOUS
    <2>5. e \in b..StreamEnd /\ e \in 0..StreamEnd /\ n = e - b
          /\ StreamEnd \in e..StreamEnd
      BY <2>2, <2>3, <2>4 DEF StreamEnd
    <2>6. store'.piece = Stretch(b, e) /\ store'.input = Stretch(e, StreamEnd)
      BY <1>2, <2>2, <2>5, CutStretch
    <2>7. TakesAt(c, m, e)'
      BY <1>2, <1>6, <2>1, <2>5, <2>6 DEF TakesAt, AwaitsData, Taking, Gathered
    <2>8. pc'[r] = "data"
      BY <1>3, <1>6 DEF AwaitsData, Taking
    <2> QED  BY <1>2, <1>6, <2>5, <2>7, <2>8 DEF V4Phase
  <1> QED  BY <1>2, <1>3, <1>4, <1>5, <1>6 DEF V4Phase

\* What is held and what came make up the start of a chunk: a header that is
\* complete, or not yet.
LEMMA ParseMovesOn ==
    ASSUME V4Inv, NEW r \in Reqs, ParseMetadata(r), ~store.clientError,
           V4Phase("metadata")
    PROVE  ~store'.clientError /\ pc'[r] # "failed" /\ V4Phase(pc[r])'
  <1>1. ~store.lastPieceDone
    BY DEF V4Phase
  <1>2. PICK c \in Chunks, k \in 0..3, e \in 0..StreamEnd : ParsesAt(c, k, e)
    BY DEF V4Phase
  <1>3. /\ Begins[c] \in 0..15 /\ Begins[c] + k \in 0..StreamEnd
        /\ e \in (Begins[c] + k)..StreamEnd
        /\ Begins[c] \in 0..StreamEnd /\ Begins[c] + k \in Begins[c]..StreamEnd
        /\ e \in Begins[c]..StreamEnd
        /\ store.currentMetadata = Stretch(Begins[c], Begins[c] + k)
        /\ store.piece = Stretch(Begins[c] + k, e)
        /\ store.input = Stretch(e, StreamEnd)
    BY <1>2, ChunkPlaces DEF ParsesAt, Reading, StreamEnd
  <1>4. PICK s : s = Stretch(Begins[c], e) /\ s = RemainingPlusStored
    BY <1>3, CutStretch DEF RemainingPlusStored
  <1>5. CASE e - Begins[c] < 4
    <2>1. Breaks(s) = {}
      BY <1>3, <1>4, <1>5, HeaderFound
    <2>2. KeepMetadata(r, s)
      BY <1>4, <2>1, Zenon DEF ParseMetadata
    <2>3. /\ store'.currentMetadata = s /\ pc'[r] = "await"
          /\ store'.clientError = store.clientError
          /\ store'.lastPieceDone = store.lastPieceDone
          /\ store'.haveMetadata = store.haveMetadata /\ store'.input = store.input
          /\ store'.lastSignature = store.lastSignature
          /\ store'.dataCursor = store.dataCursor
      BY <2>2 DEF KeepMetadata, Goto, V4Inv, V4Fields
    <2>4. PICK n \in 0..3 : n = e - Begins[c] /\ Begins[c] + n = e
      BY <1>3, <1>5 DEF StreamEnd
    <2>5. AwaitsHeader(c, n)'
      BY <1>2, <1>3, <1>4, <2>3, <2>4 DEF AwaitsHeader, ParsesAt, Reading
    <2> QED  BY <1>1, <2>3, <2>4, <2>5 DEF V4Phase
  <1>6. CASE e - Begins[c] >= 4
    <2>1. Breaks(s) # {} /\ LineBreakIndex(s) = 2
          /\ Stretch(Begins[c], Begins[c] + 2) = Header(c)
      BY <1>3, <1>4, <1>6, HeaderFound
    <2>2. FullMetadata(s) = s
      BY <2>1 DEF FullMetadata
    <2>3. 2 \in 0..(e - Begins[c]) /\ 4 \in 0..(e - Begins[c])
      BY <1>3, <1>6 DEF StreamEnd
    <2>6. Before(s, 2) = Header(c) /\ From(s, 4) = Stretch(Begins[c] + 4, e)
      <3>1. /\ Before(Stretch(Begins[c], e), 2) = Stretch(Begins[c], Begins[c] + 2)
            /\ From(Stretch(Begins[c], e), 4) = Stretch(Begins[c] + 4, e)
        BY <1>3, <2>3, CutStretchAt
      <3> QED  BY <1>4, <2>1, <3>1, Zenon
    <2> DEFINE full == Before(s, 2)
               size == Sizes[c]
    <2>7. full[1][2] = c /\ full[2][2] = c
      BY <2>6 DEF Header
    <2>8. /\ store' = [store EXCEPT
                           !.currentMetadata = <<>>, !.haveMetadata = TRUE,
                           !.currentSignature = c,
                           !.lastChunk = size = 0,
                           !.seekingDataSize = size + 2,
                           !.currentData = [j \in 1..size |-> None],
                           !.piece = Stretch(Begins[c] + 4, e)]
          /\ Goto(r, IF size = 0 THEN "authenticate" ELSE "data")
      <3>1. \E i \in Chunks : full = Header(i)
        BY <2>6
      <3>2. LineBreakIndex(s) + 2 = 4
        BY <2>1
      <3>3. s = RemainingPlusStored /\ LineBreakIndex(FullMetadata(s)) = 2
            /\ Breaks(s) # {}
            /\ Breaks(FullMetadata(s)) # {}
        BY <1>4, <2>1, <2>2, Zenon
      <3>4. Before(FullMetadata(s), LineBreakIndex(FullMetadata(s))) = full
        BY <2>2, <3>3, Zenon
      <3> HIDE DEF full
      <3> DEFINE line == FullMetadata(s)
                 whole == Before(line, LineBreakIndex(line))
      <3> HIDE DEF line, whole
      <3>5. IF Breaks(s) = {} THEN KeepMetadata(r, s)
           ELSE IF Breaks(line) = {} THEN KeepMetadata(r, line)
           ELSE IF ~\E i \in Chunks : whole = Header(i) THEN Fail(r)
           ELSE LET ssize == Sizes[whole[1][2]]
                IN  /\ store' = [store EXCEPT
                           !.currentMetadata = <<>>, !.haveMetadata = TRUE,
                           !.currentSignature = whole[2][2],
                           !.lastChunk = ssize = 0,
                           !.seekingDataSize = ssize + 2,
                           !.currentData = [j \in 1..ssize |-> None],
                           !.piece = From(s, LineBreakIndex(line) + 2)]
                    /\ Goto(r, IF ssize = 0 THEN "authenticate" ELSE "data")
                    /\ UNCHANGED ctx
        BY <3>3, Zenon DEF ParseMetadata, line, whole
      <3>6. whole = full /\ LineBreakIndex(line) + 2 = 4 /\ Breaks(line) # {}
        BY <3>2, <3>3, <3>4, <2>1, <2>2 DEF line, whole
      <3> HIDE DEF size
      <3>7. /\ store' = [store EXCEPT
                           !.currentMetadata = <<>>, !.haveMetadata = TRUE,
                           !.currentSignature = full[2][2],
                           !.lastChunk = Sizes[full[1][2]] = 0,
                           !.seekingDataSize = Sizes[full[1][2]] + 2,
                           !.currentData = [j \in 1..Sizes[full[1][2]] |-> None],
                           !.piece = From(s, 4)]
                    /\ Goto(r, IF Sizes[full[1][2]] = 0 THEN "authenticate" ELSE "data")
        BY <3>1, <3>3, <3>5, <3>6, Zenon
      <3> QED  BY <2>6, <2>7, <3>7, Zenon DEF size
    <2>9. CASE c = 3
      <3>1. size = 0 /\ Signed(3) = <<>>
        BY <2>9 DEF Sizes, Signed
      <3>2. /\ pc'[r] = "authenticate" /\ store'.lastPieceDone = store.lastPieceDone
            /\ store'.clientError = store.clientError /\ store'.currentSignature = 3
            /\ store'.lastSignature = store.lastSignature /\ store'.lastChunk
        BY <2>8, <2>9, <3>1 DEF Goto, V4Inv, V4Fields
      <3>3. store'.currentData = [j \in 1..size |-> None]
        BY <2>8 DEF V4Inv, V4Fields
      <3>4. store'.currentData = <<>>
        BY <3>1, <3>3
      <3>5. store.lastSignature = 2
        BY <1>2, <2>9 DEF ParsesAt, Reading
      <3>6. ChecksLast'
        BY <3>2, <3>4, <3>5 DEF ChecksLast
      <3> QED  BY <1>1, <3>2, <3>6 DEF V4Phase
    <2>10. CASE c \in 1..2
      <3>1. size \in 1..2
        BY <2>10 DEF Sizes
      <3> HIDE DEF size
      <3>2. /\ pc'[r] = "data" /\ store'.lastPieceDone = store.lastPieceDone
            /\ store'.clientError = store.clientError /\ store'.currentSignature = c
            /\ store'.lastSignature = store.lastSignature /\ ~store'.lastChunk
            /\ store'.haveMetadata /\ store'.currentMetadata = <<>>
            /\ store'.dataCursor = store.dataCursor /\ store'.input = store.input
        <4>1. DOMAIN store = V4Fields /\ pc \in [Reqs -> V4Calls]
          BY DEF V4Inv
        <4>2. size # 0
          BY <3>1
        <4>3. ~store'.lastChunk
          BY <2>8, <4>1, <4>2 DEF V4Fields
        <4>4. pc'[r] = "data"
          BY <2>8, <4>1, <4>2 DEF Goto
        <4> QED  BY <2>8, <4>1, <4>3, <4>4 DEF V4Fields
      <3>3. store'.seekingDataSize = size + 2
            /\ store'.piece = Stretch(Begins[c] + 4, e)
        BY <2>8 DEF V4Inv, V4Fields
      <3>4. store'.currentData = [j \in 1..size |-> None]
        BY <2>8 DEF V4Inv, V4Fields
      <3>5. Gathered(c, 0)'
        <4>1. [j \in 1..Sizes[c] |-> IF j <= 0 THEN <<"data", c, j>> ELSE None] = [j \in 1..Sizes[c] |-> None]
          BY <3>1 DEF size
        <4> QED  BY <3>4, <4>1, Zenon DEF Gathered, Filled, size
      <3>6. store.lastSignature = c - 1 /\ store.dataCursor = 0
        BY <1>2 DEF ParsesAt, Reading
      <3>7. Taking(c, 0)'
        BY <2>10, <3>1, <3>2, <3>3, <3>6 DEF Taking, size
      <3>8. e \in (Begins[c] + 4 + 0)..StreamEnd /\ Begins[c] + 4 + 0 = Begins[c] + 4
        BY <1>3, <1>6 DEF StreamEnd
      <3>9. TakesAt(c, 0, e)'
        BY <1>3, <3>2, <3>3, <3>5, <3>7, <3>8 DEF TakesAt
      <3> QED  BY <1>1, <2>10, <3>2, <3>9 DEF V4Phase
    <2> QED  BY <2>9, <2>10 DEF Chunks, Sizes
  <1> QED  BY <1>3, <1>5, <1>6

\* Data that goes on where it was left.
LEMMA Copying ==
    ASSUME NEW c, NEW m \in Nat, NEW p, Len(p) \in Nat, Sizes[c] \in Nat,
           \A i \in 1..Len(p) : m + i <= Sizes[c] => p[i] = <<"data", c, m + i>>
    PROVE  Copied(Filled(c, m), m, p) = Filled(c, m + Len(p))
  <1>1. PICK z \in Nat, n \in Nat : z = Sizes[c] /\ n = Len(p)
    OBVIOUS
  <1>0. \A i \in 1..n : m + i <= z => p[i] = <<"data", c, m + i>>
    BY <1>1, Zenon
  <1> DEFINE f == [j \in 1..z |-> IF j <= m THEN <<"data", c, j>> ELSE None]
             g == [j \in 1..z |-> IF j <= m + n THEN <<"data", c, j>> ELSE None]
  <1>2. Copied(f, m, p) = [k \in 1..z |-> IF k > m /\ k <= m + n THEN p[k - m] ELSE f[k]]
    BY <1>1 DEF Copied
  <1>3. ASSUME NEW k \in 1..z
        PROVE (IF k > m /\ k <= m + n THEN p[k - m] ELSE f[k]) = g[k]
    <2>1. CASE k > m /\ k <= m + n
      <3>1. k - m \in 1..n /\ m + (k - m) = k
        BY <2>1
      <3>2. p[k - m] = <<"data", c, k>>
        BY <1>0, <3>1
      <3> QED  BY <2>1, <3>2
    <2>2. CASE ~(k > m /\ k <= m + n)
      BY <2>2
    <2> QED  BY <2>1, <2>2
  <1> HIDE DEF g, f
  <1>4. [k \in 1..z |-> IF k > m /\ k <= m + n THEN p[k - m] ELSE f[k]] = [k \in 1..z |-> g[k]]
    BY <1>3
  <1>5. g = [k \in 1..z |-> g[k]]
    BY DEF g
  <1>6. Filled(c, m) = f /\ Filled(c, m + n) = g
    BY <1>1, Zenon DEF Filled, f, g
  <1> QED  BY <1>1, <1>2, <1>4, <1>5, <1>6, Zenon

\* What is known where data is awaited.
LEMMA TakesWhat ==
    ASSUME NEW c \in 1..2, NEW m \in 0..3, NEW e \in 0..StreamEnd, TakesAt(c, m, e)
    PROVE  /\ c \in Chunks /\ Sizes[c] \in 1..2 /\ m \in 0..(Sizes[c] + 1)
           /\ store.seekingDataSize = Sizes[c] + 2 - m
           /\ Len(store.piece) = e - (Begins[c] + 4 + m) /\ Len(store.piece) \in Nat
           /\ Begins[c] + 4 + m \in 0..StreamEnd /\ e \in (Begins[c] + 4 + m)..StreamEnd
           /\ \A i \in 1..Len(store.piece) : m + i <= Sizes[c] => store.piece[i] = <<"data", c, m + i>>
  <1>1. c \in Chunks /\ Sizes[c] \in 1..2
    BY DEF Chunks, Sizes
  <1>2. PICK b \in 0..StreamEnd : b = Begins[c] + 4 + m
    <2>1. Begins[c] + 4 + m \in 0..StreamEnd
      BY <1>1, ChunkPlacesWithin, Zenon
    <2> QED  BY <2>1, Zenon
  <1>3. /\ m \in 0..(Sizes[c] + 1) /\ store.seekingDataSize = Sizes[c] + 2 - m
        /\ e \in (Begins[c] + 4 + m)..StreamEnd
        /\ store.piece = Stretch(Begins[c] + 4 + m, e)
    BY DEF TakesAt, Taking
  <1>4. e \in b..StreamEnd /\ store.piece = Stretch(b, e)
    BY <1>2, <1>3, Zenon
  <1>5. PICK p : p = store.piece /\ p = Stretch(b, e)
    BY <1>4
  <1>6. Len(p) = e - b /\ \A i \in 1..(e - b) : p[i] = AsSigned[b + i]
    BY <1>4, <1>5, StretchIs, Zenon
  <1>7. e - b \in Nat
    BY <1>4 DEF StreamEnd
  <1>8. ASSUME NEW i \in 1..(e - b), m + i <= Sizes[c]
        PROVE p[i] = <<"data", c, m + i>>
    <2>1. m + i \in 1..Sizes[c]
      BY <1>1, <1>7, <1>8
    <2>2. AsSigned[Begins[c] + 4 + (m + i)] = <<"data", c, m + i>>
      BY <1>1, <2>1, AsSignedIs, Zenon
    <2>3. Begins[c] \in 0..15
      BY <1>1, ChunkPlaces
    <2>4. Begins[c] + 4 + (m + i) = b + i
      BY <1>2, <2>3
    <2> QED  BY <1>6, <2>2, <2>4, Zenon
  <1>9. Len(p) = e - (Begins[c] + 4 + m) /\ Len(p) \in Nat
    BY <1>2, <1>6, <1>7, Zenon
  <1>10. \A i \in 1..Len(p) : m + i <= Sizes[c] => p[i] = <<"data", c, m + i>>
    BY <1>6, <1>8, Zenon
  <1> QED  BY <1>1, <1>2, <1>3, <1>5, <1>9, <1>10, Zenon

\* Data that is not complete is held, at its place.
LEMMA AddMovesOn ==
    ASSUME V4Inv, NEW r \in Reqs, AddData(r), ~store.clientError, V4Phase("data")
    PROVE  ~store'.clientError /\ pc'[r] # "failed" /\ V4Phase(pc[r])'
  <1>1. PICK c \in 1..2, m \in 0..3, e \in 0..StreamEnd : ~store.lastPieceDone /\ TakesAt(c, m, e)
    BY DEF V4Phase
  <1>2. PICK z \in 1..2, n \in Nat, st \in Nat : z = Sizes[c] /\ n = Len(store.piece) /\ st = Begins[c]
    <2>1. c \in Chunks /\ Sizes[c] \in 1..2 /\ Len(store.piece) \in Nat
      BY <1>1, TakesWhat, Zenon
    <2>2. Begins[c] \in Nat
      BY <2>1, ChunkPlaces
    <2> QED  BY <2>1, <2>2, Zenon
  <1>3. /\ c \in Chunks /\ m \in 0..(z + 1) /\ store.seekingDataSize = z + 2 - m
        /\ n = e - (st + 4 + m) /\ e \in (st + 4 + m)..StreamEnd
        /\ \A i \in 1..n : m + i <= z => store.piece[i] = <<"data", c, m + i>>
    BY <1>1, <1>2, TakesWhat, Zenon
  <1>4. /\ n < z + 2 - m
        /\ store' = [store EXCEPT !.currentData = Copied(@, store.dataCursor, store.piece),
                              !.dataCursor = @ + n,
                              !.seekingDataSize = @ - n]
        /\ pc'[r] = "await"
    BY <1>2, <1>3 DEF AddData, Goto, V4Inv
  <1>5. /\ store'.currentData = Copied(store.currentData, store.dataCursor, store.piece)
        /\ store'.dataCursor = store.dataCursor + n
        /\ store'.seekingDataSize = store.seekingDataSize - n
        /\ store'.clientError = store.clientError
        /\ store'.lastPieceDone = store.lastPieceDone
        /\ store'.haveMetadata = store.haveMetadata
        /\ store'.currentMetadata = store.currentMetadata
        /\ store'.lastSignature = store.lastSignature /\ store'.input = store.input
        /\ store'.currentSignature = store.currentSignature
        /\ store'.lastChunk = store.lastChunk
    BY <1>4 DEF V4Inv, V4Fields
  <1>6. PICK k \in 0..3 : k = m + n /\ k \in 0..(z + 1) /\ e = st + 4 + k
    BY <1>3, <1>4
  <1>7. store'.currentData = Filled(c, k)
    <2>1. store.currentData = Filled(c, m) /\ store.dataCursor = m
      BY <1>1, <1>2, Zenon DEF TakesAt, Gathered, Taking
    <2>2. Copied(Filled(c, m), m, store.piece) = Filled(c, m + n)
      <3>1. z \in Nat /\ m \in Nat
        OBVIOUS
      <3>2. Sizes[c] \in Nat /\ Len(store.piece) \in Nat
            /\ \A i \in 1..Len(store.piece) : m + i <= Sizes[c] => store.piece[i] = <<"data", c, m + i>>
        BY <1>2, <1>3, <3>1, Zenon
      <3>3. Copied(Filled(c, m), m, store.piece) = Filled(c, m + Len(store.piece))
        BY <3>1, <3>2, Copying
      <3> QED  BY <1>2, <3>3, Zenon
    <2> QED  BY <1>5, <1>6, <2>1, <2>2, Zenon
  <1>8. Gathered(c, k)'
    BY <1>2, <1>7, Zenon DEF Gathered
  <1>9. Taking(c, k)'
    <2>1. store'.seekingDataSize = z + 2 - k /\ store'.dataCursor = k
      BY <1>1, <1>3, <1>5, <1>6 DEF TakesAt, Taking
    <2> QED  BY <1>1, <1>2, <1>5, <1>6, <2>1, Zenon DEF TakesAt, Taking
  <1>10. store'.input = Stretch(Begins[c] + 4 + k, StreamEnd)
    BY <1>1, <1>2, <1>5, <1>6, Zenon DEF TakesAt
  <1>11. AwaitsData(c, k)'
    BY <1>8, <1>9, <1>10, Zenon DEF AwaitsData
  <1> QED  BY <1>1, <1>4, <1>5, <1>11 DEF V4Phase

\* The data of the chunk is complete, even if only the end of its line break was
\* missing.
LEMMA CompleteMovesOn ==
    ASSUME V4Inv, NEW r \in Reqs, CompleteData(r), ~store.clientError, V4Phase("data")
    PROVE  ~store'.clientError /\ pc'[r] # "failed" /\ V4Phase(pc[r])'
  <1>1. PICK c \in 1..2, m \in 0..3, e \in 0..StreamEnd : ~store.lastPieceDone /\ TakesAt(c, m, e)
    BY DEF V4Phase
  <1>2. PICK z \in 1..2, n \in Nat, st \in Nat : z = Sizes[c] /\ n = Len(store.piece) /\ st = Begins[c]
    <2>1. c \in Chunks /\ Sizes[c] \in 1..2 /\ Len(store.piece) \in Nat
      BY <1>1, TakesWhat, Zenon
    <2>2. Begins[c] \in Nat
      BY <2>1, ChunkPlaces
    <2> QED  BY <2>1, <2>2, Zenon
  <1>3. /\ c \in Chunks /\ m \in 0..(z + 1) /\ store.seekingDataSize = z + 2 - m
        /\ n = e - (st + 4 + m) /\ st + 4 + m \in 0..StreamEnd
        /\ e \in (st + 4 + m)..StreamEnd
        /\ \A i \in 1..n : m + i <= z => store.piece[i] = <<"data", c, m + i>>
    BY <1>1, <1>2, TakesWhat, Zenon
  <1> DEFINE p == Before(store.piece, store.seekingDataSize - 2)
  <1>4. /\ n >= z + 2 - m
        /\ store' = [store EXCEPT !.currentData = Copied(@, store.dataCursor, p)]
        /\ pc'[r] = "authenticate"
    BY <1>2, <1>3 DEF CompleteData, Goto, V4Inv
  <1> HIDE DEF p
  <1>5. /\ store'.currentData = Copied(store.currentData, store.dataCursor, p)
        /\ store'.dataCursor = store.dataCursor /\ store'.piece = store.piece
        /\ store'.seekingDataSize = store.seekingDataSize
        /\ store'.clientError = store.clientError
        /\ store'.lastPieceDone = store.lastPieceDone
        /\ store'.haveMetadata = store.haveMetadata
        /\ store'.currentMetadata = store.currentMetadata
        /\ store'.lastSignature = store.lastSignature /\ store'.input = store.input
        /\ store'.currentSignature = store.currentSignature
        /\ store'.lastChunk = store.lastChunk
    BY <1>4 DEF V4Inv, V4Fields
  <1>6. PICK k \in Nat : k = Len(p) /\ m + k >= z /\ \A i \in 1..k : m + i <= z => p[i] = <<"data", c, m + i>>
    <2>1. PICK b \in 0..StreamEnd : b = st + 4 + m
      BY <1>3
    <2>2. e \in b..StreamEnd /\ n = e - b /\ store.piece = Stretch(b, e)
      BY <1>1, <1>2, <1>3, <2>1, Zenon DEF TakesAt
    <2>3. CASE m <= z
      <3>1. PICK k \in 0..(e - b) : k = z - m
        BY <1>3, <1>4, <2>2, <2>3
      <3>2. k = store.seekingDataSize - 2
        BY <1>3, <2>3, <3>1
      <3>3. p = Stretch(b, b + k) /\ b + k \in b..StreamEnd
        BY <2>2, <3>1, <3>2, CutStretchAt, Zenon DEF p
      <3>4. PICK g \in b..StreamEnd : g = b + k /\ g - b = k
        BY <3>1, <3>3 DEF StreamEnd
      <3>5. Len(p) = g - b /\ \A i \in 1..(g - b) : p[i] = AsSigned[b + i]
        BY <3>3, <3>4, StretchIs, Zenon
      <3>6. Len(store.piece) = e - b
            /\ \A i \in 1..(e - b) : store.piece[i] = AsSigned[b + i]
        BY <2>2, StretchIs, Zenon
      <3>7. \A i \in 1..k : i \in 1..(e - b) /\ i \in 1..n
        BY <2>2, <3>1 DEF StreamEnd
      <3>8. \A i \in 1..k : m + i <= z => p[i] = <<"data", c, m + i>>
        BY <1>3, <3>4, <3>5, <3>6, <3>7, Zenon
      <3>9. k \in Nat /\ m + k >= z /\ k = Len(p)
        BY <2>3, <3>1, <3>4, <3>5
      <3> QED  BY <3>8, <3>9
    <2>4. CASE m = z + 1
      <3>1. store.seekingDataSize - 2 = 0 - 1
        BY <1>3, <2>4
      <3>2. n >= 1
        BY <1>4, <2>4
      <3>3. PICK k \in 0..(e - b) : k = n - 1
        BY <2>2, <3>2
      <3>4. p = SubSeq(store.piece, 1, k)
        <4>1. 0 - 1 < 0 /\ n + (0 - 1) = k
          BY <3>3
        <4>2. p = SubSeq(store.piece, 1, IF 0 - 1 < 0 THEN n + (0 - 1) ELSE 0 - 1)
          BY <1>2, <3>1, Zenon DEF p, Before
        <4> QED  BY <4>1, <4>2, Zenon
      <3>5. p = Before(store.piece, k)
        BY <3>3, <3>4 DEF Before
      <3>6. p = Stretch(b, b + k) /\ b + k \in b..StreamEnd
        BY <2>2, <3>3, <3>5, CutStretchAt, Zenon
      <3>7. PICK g \in b..StreamEnd : g = b + k /\ g - b = k
        BY <3>3, <3>6 DEF StreamEnd
      <3>8. Len(p) = g - b
        BY <3>6, <3>7, StretchIs, Zenon
      <3>9. k \in Nat /\ k = Len(p) /\ m + k >= z /\ \A i \in 1..k : ~(m + i <= z)
        BY <2>4, <3>3, <3>7, <3>8
      <3> QED  BY <3>9
    <2> QED  BY <1>3, <2>3, <2>4
  <1>7. store'.currentData = Signed(c)
    <2>1. store.currentData = Filled(c, m) /\ store.dataCursor = m
      BY <1>1, <1>2, Zenon DEF TakesAt, Gathered, Taking
    <2>2. Copied(Filled(c, m), m, p) = Filled(c, m + k)
      <3>1. z \in Nat /\ m \in Nat
        OBVIOUS
      <3>2. Sizes[c] \in Nat /\ Len(p) \in Nat
            /\ \A i \in 1..Len(p) : m + i <= Sizes[c] => p[i] = <<"data", c, m + i>>
        BY <1>2, <1>6, <3>1, Zenon
      <3>3. Copied(Filled(c, m), m, p) = Filled(c, m + Len(p))
        BY <3>1, <3>2, Copying
      <3> QED  BY <1>6, <3>3, Zenon
    <2>3. \A j \in 1..z : j <= m + k
      BY <1>6
    <2>4. Filled(c, m + k) = Signed(c)
      <3>1. [j \in 1..z |-> IF j <= m + k THEN <<"data", c, j>> ELSE None] = [j \in 1..z |-> <<"data", c, j>>]
        BY <2>3
      <3> QED  BY <1>2, <3>1, Zenon DEF Filled, Signed
    <2> QED  BY <1>5, <2>1, <2>2, <2>4, Zenon
  <1>8. Taking(c, m)'
    BY <1>1, <1>5, Zenon DEF TakesAt, Taking
  <1>9. e \in (Begins[c] + 6 + Sizes[c])..StreamEnd
    BY <1>2, <1>3, <1>4 DEF StreamEnd
  <1>10. ChecksAt(c, m, e)'
    BY <1>1, <1>5, <1>7, <1>8, <1>9, Zenon DEF TakesAt, ChecksAt
  <1> QED  BY <1>1, <1>4, <1>5, <1>10 DEF V4Phase

\* The data is found authentic, and the rest is the start of the next chunk.
LEMMA AuthenticateMovesOn ==
    ASSUME V4Inv, NEW r \in Reqs, Authenticate(r), ~store.clientError,
           V4Phase("authenticate")
    PROVE  ~store'.clientError /\ pc'[r] # "failed" /\ V4Phase(pc[r])'
  <1> DEFINE rest == From(store.piece, store.seekingDataSize)
  <1>1. ~store.lastPieceDone
    BY DEF V4Phase
  <1>2. ASSUME Authentic(store.currentData, store.currentSignature, store.lastSignature)
        PROVE  /\ store' = IF store.lastChunk
                            THEN [store EXCEPT !.lastPieceDone = TRUE, !.piece = <<>>]
                            ELSE [store EXCEPT !.passed = @ \o store.currentData,
                                               !.lastSignature = store.currentSignature,
                                               !.piece = rest, !.haveMetadata = FALSE,
                                               !.currentData = <<>>, !.dataCursor = 0]
               /\ Goto(r, IF store.lastChunk \/ rest = <<>> THEN "await" ELSE "metadata")
    BY <1>2 DEF Authenticate
  <1> HIDE DEF rest
  <1>3. CASE ChecksLast
    <2>1. Authentic(store.currentData, store.currentSignature, store.lastSignature)
      <3>1. Signed(3) = <<>>
        BY DEF Signed, Sizes
      <3> QED  BY <1>3, <3>1 DEF Authentic, ChecksLast
    <2>2. store.lastChunk
      BY <1>3 DEF ChecksLast
    <2>3. /\ store'.lastPieceDone /\ store'.lastSignature = store.lastSignature
          /\ store'.clientError = store.clientError /\ pc'[r] = "await"
      BY <1>2, <2>1, <2>2 DEF V4Inv, V4Fields, Goto
    <2>4. AllPassed'
      BY <1>3, <2>3 DEF ChecksLast, AllPassed
    <2> QED  BY <2>3, <2>4 DEF V4Phase
  <1>4. ASSUME NEW c \in 1..2, NEW m \in 0..3, NEW e \in 0..StreamEnd, ChecksAt(c, m, e)
        PROVE  ~store'.clientError /\ pc'[r] # "failed" /\ V4Phase(pc[r])'
    <2>1. c \in Chunks /\ c + 1 \in Chunks /\ Begins[c + 1] = Begins[c] + 6 + Sizes[c]
          /\ Sizes[c] \in 1..2
      <3>1. c \in Chunks /\ Sizes[c] \in 1..2
        BY DEF Chunks, Sizes
      <3> QED  BY <3>1, ChunkPlaces
    <2>2. Authentic(store.currentData, store.currentSignature, store.lastSignature)
      BY <1>4 DEF Authentic, ChecksAt, Taking
    <2>3. ~store.lastChunk /\ store.currentSignature = c
      BY <1>4 DEF ChecksAt, Taking
    <2>4. /\ store'.piece = rest /\ store'.input = store.input
          /\ store'.lastSignature = c
          /\ ~store'.haveMetadata /\ store'.currentMetadata = store.currentMetadata
          /\ store'.dataCursor = 0 /\ store'.clientError = store.clientError
          /\ store'.lastPieceDone = store.lastPieceDone
          /\ pc'[r] = IF rest = <<>> THEN "await" ELSE "metadata"
      <3>1. DOMAIN store = V4Fields /\ pc \in [Reqs -> V4Calls]
        BY DEF V4Inv
      <3>2. /\ store' = [store EXCEPT !.passed = @ \o store.currentData,
                                               !.lastSignature = store.currentSignature,
                                               !.piece = rest, !.haveMetadata = FALSE,
                                               !.currentData = <<>>, !.dataCursor = 0]
            /\ pc' = [pc EXCEPT ![r] = IF rest = <<>> THEN "await" ELSE "metadata"]
        <4>1. store.lastChunk = FALSE
          BY <2>3
        <4> QED  BY <1>2, <2>2, <2>3 DEF Goto
      <3>3. pc'[r] = IF rest = <<>> THEN "await" ELSE "metadata"
        BY <3>1, <3>2
      <3> QED  BY <2>3, <3>1, <3>2, <3>3 DEF V4Fields
    <2>5. PICK b \in 0..StreamEnd : b = Begins[c] + 4 + m
      <3>1. Begins[c] + 4 + m \in 0..StreamEnd
        BY <2>1, ChunkPlacesWithin, Zenon
      <3> QED  BY <3>1, Zenon
    <2>6. PICK g \in 0..StreamEnd : g = Begins[c + 1]
      <3>1. Begins[c + 1] \in 0..15
        BY <2>1, ChunkPlaces
      <3> QED  BY <3>1 DEF StreamEnd
    <2>7. /\ store.piece = Stretch(b, e) /\ store.input = Stretch(e, StreamEnd)
          /\ store.seekingDataSize = Sizes[c] + 2 - m /\ m \in 0..(Sizes[c] + 1)
      BY <1>4, <2>5, Zenon DEF ChecksAt, Taking
    <2>8. e \in g..StreamEnd
      BY <1>4, <2>1, <2>6, Zenon DEF ChecksAt
    <2>9. g = b + store.seekingDataSize /\ e \in b..StreamEnd
          /\ store.seekingDataSize \in 0..(e - b)
      <3>1. PICK st \in 0..15, z \in 1..2 : st = Begins[c] /\ z = Sizes[c]
        BY <2>1, ChunkPlaces
      <3>4. PICK sd : sd = store.seekingDataSize
        OBVIOUS
      <3>2. g = st + 6 + z /\ b = st + 4 + m /\ sd = z + 2 - m /\ m \in 0..(z + 1)
        BY <2>1, <2>5, <2>6, <2>7, <3>1, <3>4, Zenon
      <3>3. g = b + sd /\ e \in b..StreamEnd /\ sd \in 0..(e - b)
        BY <2>8, <3>2 DEF StreamEnd
      <3> QED  BY <3>3, <3>4, Zenon
    <2>10. rest = Stretch(g, e)
      BY <2>7, <2>9, CutStretchAt, Zenon DEF rest
    <2>11. Stretch(g, g) = <<>> /\ Len(rest) = e - g
      <3>1. Len(Stretch(g, g)) = 0 /\ Stretch(g, g) \in Seq(Tokens)
        <4>1. g \in g..StreamEnd /\ g - g = 0
          BY DEF StreamEnd
        <4> QED  BY <4>1, StretchIs, Zenon
      <3>2. Stretch(g, g) = <<>>
        BY <3>1, EmptySeq
      <3>3. Len(rest) = e - g
        BY <2>8, <2>10, StretchIs, Zenon
      <3> QED  BY <3>2, <3>3
    <2>12. g + 0 = g /\ Begins[c + 1] + 0 = g
      BY <2>6
    <2>13. Reading(c + 1, 0)'
      <3>1. store'.currentMetadata = <<>>
        BY <1>4, <2>4 DEF ChecksAt, Taking
      <3>2. store'.currentMetadata = Stretch(Begins[c + 1], Begins[c + 1] + 0)
        BY <2>6, <2>11, <2>12, <3>1, Zenon
      <3>3. store'.lastSignature = (c + 1) - 1
        BY <2>4
      <3>4. 0 \in 0..3
        OBVIOUS
      <3> QED  BY <2>4, <3>2, <3>3, <3>4, Zenon DEF Reading
    <2>14. ASSUME rest = <<>>  PROVE AwaitsHeader(c + 1, 0)'
      <3>1. e = g
        BY <2>8, <2>11, <2>14 DEF StreamEnd
      <3>2. store'.input = Stretch(Begins[c + 1] + 0, StreamEnd)
        BY <2>4, <2>7, <2>12, <3>1, Zenon
      <3> QED  BY <2>13, <3>2, Zenon DEF AwaitsHeader
    <2>15. ParsesAt(c + 1, 0, e)'
      BY <2>4, <2>7, <2>8, <2>10, <2>12, <2>13, Zenon DEF ParsesAt
    <2>16. CASE rest = <<>>
      BY <1>1, <2>1, <2>4, <2>14, <2>16 DEF V4Phase
    <2>17. CASE rest # <<>>
      BY <1>1, <2>1, <2>4, <2>15, <2>17 DEF V4Phase
    <2> QED  BY <2>16, <2>17
  <1> QED  BY <1>3, <1>4 DEF V4Phase

\* The body does not end before the empty chunk.
LEMMA EndMovesOn ==
    ASSUME V4Inv, NEW r \in Reqs, EndBody(r), ~store.clientError, V4Phase("await")
    PROVE  ~store'.clientError /\ pc'[r] # "failed" /\ V4Phase(pc[r])'
  <1>1. store.input = <<>> /\ store' = store /\ pc'[r] = "ok"
    BY DEF EndBody, Goto, V4Inv
  <1>2. ASSUME NEW b \in 0..20  PROVE Stretch(b, StreamEnd) # <<>>
    <2>1. b \in 0..StreamEnd /\ StreamEnd \in b..StreamEnd
          /\ StreamEnd - b \in Nat \ {0}
      BY DEF StreamEnd
    <2>2. Len(Stretch(b, StreamEnd)) = StreamEnd - b
      BY <2>1, StretchIs, Zenon
    <2>3. Len(<<>>) = 0
      OBVIOUS
    <2> QED  BY <2>1, <2>2, <2>3
  <1>3. ASSUME NEW c \in Chunks, NEW k \in 0..3, AwaitsHeader(c, k)  PROVE FALSE
    <2>1. Begins[c] + k \in 0..20
      <3>1. Begins[c] \in 0..15
        BY ChunkPlaces
      <3> QED  BY <3>1
    <2> QED  BY <1>1, <1>2, <1>3, <2>1, Zenon DEF AwaitsHeader
  <1>4. ASSUME NEW c \in 1..2, NEW m \in 0..3, AwaitsData(c, m)  PROVE FALSE
    <2>1. Begins[c] + 4 + m \in 0..20
      <3>1. Begins[c] \in 0..8
        BY ChunkPlaces DEF Chunks, Sizes
      <3> QED  BY <3>1
    <2> QED  BY <1>1, <1>2, <1>4, <2>1, Zenon DEF AwaitsData
  <1>5. AllPassed
    BY <1>3, <1>4 DEF V4Phase
  <1> QED  BY <1>1, <1>5 DEF V4Phase, AllPassed

\* All of the stream is yet to come.
LEMMA AsSignedInitially == V4Init => AsSignedInv
  <1> SUFFICES ASSUME V4Init, store.stream = "wellFormed"
               PROVE  ~store.clientError /\ ~store.lastPieceDone /\ AwaitsHeader(1, 0)
                      /\ \A r \in Reqs : pc[r] = "idle"
    BY DEF AsSignedInv
  <1>1. PICK s \in scene.ops \cap DOMAIN Streams :
        store = [stream |-> s, input |-> Streams[s], piece |-> <<>>, passed |-> <<>>,
                 currentMetadata |-> <<>>, haveMetadata |-> FALSE, seekingDataSize |-> 0,
                 currentData |-> <<>>, dataCursor |-> 0, lastSignature |-> 0,
                 currentSignature |-> None, lastChunk |-> FALSE, lastPieceDone |-> FALSE,
                 clientError |-> FALSE]
    BY DEF V4Init
  <1>2. store.input = AsSigned
    BY <1>1 DEF AsSigned
  <1>3. Begins[1] = 0 /\ Begins[1] + 0 = 0
    BY DEF Begins
  <1>4. Stretch(0, StreamEnd) = AsSigned /\ Stretch(0, 0) = <<>>
    <2>1. 0 + 1 = 1 /\ Len(AsSigned) = 21
      BY AsSignedIs
    <2>2. SubSeq(AsSigned, 1, Len(AsSigned)) = AsSigned
      BY AsSignedIs, SubSeqFull, Zenon
    <2>3. SubSeq(AsSigned, 1, 0) = <<>>
      BY SubSeqEmpty
    <2> QED  BY <2>1, <2>2, <2>3, Zenon DEF Stretch, StreamEnd
  <1>5. /\ ~store.clientError /\ ~store.lastPieceDone /\ ~store.haveMetadata
        /\ store.currentMetadata = <<>> /\ store.lastSignature = 1 - 1
        /\ store.dataCursor = 0
    BY <1>1
  <1>6. AwaitsHeader(1, 0)
    <2>1. 0 \in 0..3
      OBVIOUS
    <2> QED  BY <1>2, <1>3, <1>4, <1>5, <2>1, Zenon DEF AwaitsHeader, Reading
  <1> QED  BY <1>5, <1>6 DEF V4Init

\* Every step moves on in the stream.
LEMMA AsSignedSteps ==
    ASSUME V4Inv, AsSignedInv, V4Next
    PROVE  AsSignedInv'
  <1>1. PICK r \in Reqs : PutStreaming(r) \/ Transform(r) \/ ParseMetadata(r) \/ AddData(r)
                       \/ CompleteData(r) \/ Authenticate(r) \/ EndBody(r)
    BY DEF V4Next
  <1>2. store'.stream = store.stream
    <2>1. CASE PutStreaming(r) \/ EndBody(r)
      BY <2>1 DEF PutStreaming, EndBody
    <2>2. CASE Transform(r)
      BY <2>2 DEF Transform, V4Inv, V4Fields
    <2>3. CASE AddData(r) \/ CompleteData(r)
      BY <2>3 DEF AddData, CompleteData, V4Inv, V4Fields
    <2>4. CASE ParseMetadata(r)
      BY <2>4 DEF ParseMetadata, KeepMetadata, Fail, V4Inv, V4Fields
    <2>5. CASE Authenticate(r)
      BY <2>5 DEF Authenticate, Fail, V4Inv, V4Fields
    <2> QED  BY <1>1, <2>1, <2>2, <2>3, <2>4, <2>5
  <1> SUFFICES ASSUME store.stream = "wellFormed"
               PROVE  /\ ~store'.clientError
                      /\ (\A q \in Reqs : pc'[q] = "idle") => ~store'.lastPieceDone /\ AwaitsHeader(1, 0)'
                      /\ \A q \in Reqs : pc'[q] # "idle" => pc'[q] # "failed" /\ V4Phase(pc[q])'
    BY <1>2 DEF AsSignedInv
  <1>3. CASE PutStreaming(r)
    <2>1. /\ \A q \in Reqs : pc[q] = "idle"
          /\ store' = store /\ pc' = [pc EXCEPT ![r] = "await"]
          /\ pc \in [Reqs -> V4Calls]
      BY <1>3 DEF PutStreaming, Goto, V4Inv
    <2>2. ~store.clientError /\ ~store.lastPieceDone /\ AwaitsHeader(1, 0)
      BY <2>1 DEF AsSignedInv
    <2>3. pc'[r] = "await" /\ \A q \in Reqs : pc'[q] # "idle" => q = r
      BY <2>1
    <2>4. AwaitsHeader(1, 0)' /\ 1 \in Chunks /\ 0 \in 0..3
      BY <2>1, <2>2 DEF AwaitsHeader, Reading, Chunks, Sizes
    <2>5. V4Phase(pc[r])'
      BY <2>1, <2>2, <2>3, <2>4 DEF V4Phase
    <2> QED  BY <2>1, <2>2, <2>3, <2>5
  <1>4. CASE ~PutStreaming(r)
    <2>1. pc[r] \in {"await", "metadata", "data", "authenticate"}
      BY <1>1, <1>4
      DEF Transform, ParseMetadata, AddData, CompleteData, Authenticate, EndBody
    <2>2. ~store.clientError /\ V4Phase(pc[r])
      BY <2>1 DEF AsSignedInv
    <2>3. ~store'.clientError /\ pc'[r] # "failed" /\ V4Phase(pc[r])'
      <3>1. CASE Transform(r)
        <4>1. pc[r] = "await"
          BY <3>1 DEF Transform
        <4> QED  BY <2>2, <3>1, <4>1, TransformMovesOn, Zenon
      <3>2. CASE ParseMetadata(r)
        <4>1. pc[r] = "metadata"
          BY <3>2 DEF ParseMetadata
        <4> QED  BY <2>2, <3>2, <4>1, ParseMovesOn, Zenon
      <3>3. CASE AddData(r)
        <4>1. pc[r] = "data"
          BY <3>3 DEF AddData
        <4> QED  BY <2>2, <3>3, <4>1, AddMovesOn, Zenon
      <3>4. CASE CompleteData(r)
        <4>1. pc[r] = "data"
          BY <3>4 DEF CompleteData
        <4> QED  BY <2>2, <3>4, <4>1, CompleteMovesOn, Zenon
      <3>5. CASE Authenticate(r)
        <4>1. pc[r] = "authenticate"
          BY <3>5 DEF Authenticate
        <4> QED  BY <2>2, <3>5, <4>1, AuthenticateMovesOn, Zenon
      <3>6. CASE EndBody(r)
        <4>1. pc[r] = "await"
          BY <3>6 DEF EndBody
        <4> QED  BY <2>2, <3>6, <4>1, EndMovesOn, Zenon
      <3> QED  BY <1>1, <1>4, <3>1, <3>2, <3>3, <3>4, <3>5, <3>6
    <2>4. \A q \in Reqs : q # r => pc'[q] = "idle" 
      <3>1. \A q \in Reqs : q # r => pc'[q] = pc[q]
        BY <1>1, <1>4
        DEF Transform, ParseMetadata, KeepMetadata, Fail, AddData, CompleteData, Authenticate, EndBody, Goto, V4Inv
      <3>2. \A q \in Reqs : q # r => pc[q] = "idle"
        BY <2>1 DEF V4Inv
      <3> QED  BY <3>1, <3>2
    <2>5. pc'[r] # "idle"
      BY <1>1, <1>4
      DEF Transform, ParseMetadata, KeepMetadata, Fail, AddData, CompleteData, Authenticate, EndBody, Goto, V4Inv
    <2> QED  BY <2>3, <2>4, <2>5
  <1> QED  BY <1>3, <1>4

\* A stream as signed is passed on whole.
LEMMA SignedStreamHolds ==
    ASSUME V4Inv, AsSignedInv
    PROVE  SignedStreamPasses
  <1> SUFFICES ASSUME store.stream = "wellFormed", NEW r \in Reqs, pc[r] \in {"ok", "failed"}
               PROVE  store.passed = Body /\ store.lastPieceDone /\ ~store.clientError
    BY DEF SignedStreamPasses
  <1>1. ~store.clientError /\ AllPassed
    BY DEF AsSignedInv, V4Phase
  <1> QED  BY <1>1 DEF AllPassed, V4Inv, PassedUpTo
=============================================================================
