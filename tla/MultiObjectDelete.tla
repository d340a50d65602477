--------------------------- MODULE MultiObjectDelete ---------------------------
(***************************************************************************)
(* Deleting a batch of objects in one request: the records of all entries  *)
(* are read ahead, the entries are deleted side by side, and the data of   *)
(* those that went is deleted at the end.  PUTs of an unversioned bucket   *)
(* run beside it.                                                          *)
(***************************************************************************)
EXTENDS Requests

AllKeys == {"a", "b", "aundefined"}
Keys == AllKeys \cap scene.ops

\* Records: data is named after the key that held it first, or its PUT.
BatchRecords == [loc: AllKeys \cup Reqs, locked: BOOLEAN, marker: BOOLEAN]

\* A PUT stores its data under a new name, and there is a record or none.
ASSUME BatchAssumption ==
    Reqs \cap AllKeys = {} /\ None \notin AllKeys \cup BatchRecords

\* config.multiObjectDeleteConcurrency
Concurrency == 2

\* Bound: the code takes up to 1000 entries; smaller batches beside others.
MaxEntries == 4 - scene.requests

\* An entry names a key and may name a version of it.
Entries == [key: Keys, ver: BOOLEAN]

\* A record may be marked: a delete marker of a versioned bucket hides it.
\* Every key holds an object; locks need versions.
BatchInit ==
    /\ In("batch")
    /\ \E v \in BOOLEAN, locked \in SUBSET (Keys \cap {"a"}) :
        /\ ~v => locked = {}
        /\ store = [versioned |-> v, data |-> Keys,
                    md |-> [k \in AllKeys |-> IF k \in Keys
                              THEN [loc |-> k, locked |-> k \in locked, marker |-> FALSE]
                              ELSE None]]
    /\ pc = [r \in Reqs |-> "idle"]
    /\ ctx = [r \in Reqs |-> None]

-----------------------------------------------------------------------------
\* _parseXml and checkPolicies: no entry, or more than 1000, is an error; of a
\* user's entries Vault denies some; a bucket ACL that denies leaves none.
MultiObjectDelete(r) ==
    /\ Sent(r, "multiObjectDelete")
    /\ \/ Refuse(r)
       \/ \E entries \in SUBSET Entries, denied \in {{}} \cup {{e} : e \in Entries} :
            /\ Cardinality(entries) \in 1..MaxEntries /\ denied \subseteq entries
            /\ \A e \in entries : e.ver => store.versioned
            /\ Carry(r, [asked |-> entries, todo |-> entries \ denied,
                         cache |-> None, open |-> {}, doomed |-> {},
                         deleted |-> {}, errors |-> denied])
            /\ Goto(r, "readAhead")
            /\ UNCHANGED store

\* The read-ahead keeps the record of k under k followed by the version.
CacheKey(e) == IF e.key = "a" /\ ~e.ver THEN "aundefined" ELSE None

\* initializeMultiObjectDeleteWithBatchingSupport; if it fails, no cache.
ReadAhead(r) ==
    LET c == ctx[r]
        cached(k) == {e \in c.todo : CacheKey(e) = k /\ store.md[e.key] # None}
    IN  /\ pc[r] = "readAhead"
        /\ \E works \in BOOLEAN :
            Carry(r, [c EXCEPT !.cache =
                [k \in {e.key : e \in c.todo} |->
                    IF works /\ cached(k) # {}
                    THEN store.md[(CHOOSE e \in cached(k) : TRUE).key] ELSE None]])
        /\ Goto(r, "batch")
        /\ UNCHANGED store

\* metadataGetObject asks the cache for the key alone.
Found(c, e) == IF c.cache[e.key] # None THEN c.cache[e.key] ELSE store.md[e.key]

\* Mutant: the object lock is not looked at.
IgnoreLock(e, obj) == FALSE

\* An explicit version may be locked.
LockedEntry(e, obj) == e.ver /\ obj # None /\ obj.locked

\* An entry's record is read; a version that is not there counts as deleted.
ReadEntry(r, e) ==
    LET c == ctx[r]
        obj == Found(c, e)
        next == [c EXCEPT !.todo = @ \ {e}]
    IN  /\ pc[r] = "batch" /\ e \in c.todo
        /\ Cardinality(c.open) < Concurrency
        /\ \/ /\ obj = None /\ (e.ver \/ ~store.versioned)
              /\ Carry(r, [next EXCEPT !.deleted = @ \cup {e}])
           \/ /\ LockedEntry(e, obj)
              /\ Carry(r, [next EXCEPT !.errors = @ \cup {e}])
           \/ /\ ~LockedEntry(e, obj)
              /\ obj # None \/ (store.versioned /\ ~e.ver)
              /\ Carry(r, [next EXCEPT !.open = @ \cup {<<e, obj>>}])
        /\ UNCHANGED <<store, pc>>

\* Mutant: data is deleted although its record could not be.
DoomAnyway(c, e, obj) ==
    [c EXCEPT !.open = @ \ {<<e, obj>>}, !.errors = @ \cup {e}, !.doomed = @ \cup {obj.loc}]

Failed(c, e, obj) == [c EXCEPT !.open = @ \ {<<e, obj>>}, !.errors = @ \cup {e}]

Deleted(c, e, obj, doomed) ==
    [c EXCEPT !.open = @ \ {<<e, obj>>}, !.deleted = @ \cup {e}, !.doomed = @ \cup doomed]

\* services.deleteObject of an unversioned object or of a version: the record
\* goes and its data is kept for the end.  A record that is gone is an error.
DeleteEntry(r, e, obj) ==
    LET c == ctx[r]
    IN  /\ pc[r] = "batch" /\ <<e, obj>> \in c.open
        /\ e.ver \/ ~store.versioned
        /\ \/ /\ store.md[e.key] # None
              /\ store' = [store EXCEPT !.md[e.key] = None]
              /\ Carry(r, Deleted(c, e, obj, {obj.loc}))
           \/ /\ scene.deaths \/ store.md[e.key] = None
              /\ Carry(r, Failed(c, e, obj))
              /\ UNCHANGED store
        /\ UNCHANGED pc

\* createAndStoreObject of a delete marker.
MarkEntry(r, e, obj) ==
    LET c == ctx[r]
    IN  /\ pc[r] = "batch" /\ <<e, obj>> \in c.open
        /\ ~e.ver /\ store.versioned
        /\ store' = [store EXCEPT !.md[e.key] =
                        IF @ = None THEN @ ELSE [@ EXCEPT !.marker = TRUE]]
        /\ Carry(r, Deleted(c, e, obj, {}))
        /\ UNCHANGED pc

\* Mutant: the data goes before the entries are through.
DeleteBatchDataEarly(r) ==
    LET c == ctx[r]
    IN  /\ pc[r] = "batch" /\ c.todo = {}
        /\ store' = [store EXCEPT !.data = @ \ (c.doomed \cup {o[2].loc : o \in c.open})]
        /\ Goto(r, "ok")
        /\ UNCHANGED ctx

\* data.batchDelete, then _formatXML.
DeleteBatchData(r) ==
    LET c == ctx[r]
    IN  /\ pc[r] = "batch" /\ c.todo = {} /\ c.open = {}
        /\ store' = [store EXCEPT !.data = @ \ c.doomed]
        /\ Goto(r, "ok")
        /\ UNCHANGED ctx

-----------------------------------------------------------------------------
\* A PUT stores its data, then its record, then deletes what it overwrote.
PutBeside(r) ==
    /\ Sent(r, "objectPut") /\ ~store.versioned
    /\ \E k \in Keys : Carry(r, [key |-> k, read |-> store.md[k]])
    /\ store' = [store EXCEPT !.data = @ \cup {r}]
    /\ Goto(r, "putRecord")

PutBesideRecord(r) ==
    /\ pc[r] = "putRecord"
    /\ store' = [store EXCEPT !.md[ctx[r].key] =
                    [loc |-> r, locked |-> FALSE, marker |-> FALSE]]
    /\ Goto(r, "deleteOverwritten")
    /\ UNCHANGED ctx

DeleteOverwritten(r) ==
    /\ pc[r] = "deleteOverwritten"
    /\ store' = [store EXCEPT !.data =
                    IF ctx[r].read = None THEN @ ELSE @ \ {ctx[r].read.loc}]
    /\ Goto(r, "ok")
    /\ UNCHANGED ctx

BatchStep(r) ==
    \/ MultiObjectDelete(r) \/ ReadAhead(r)
    \/ pc[r] = "batch" /\ \E e \in ctx[r].todo : ReadEntry(r, e)
    \/ pc[r] = "batch" /\ \E o \in ctx[r].open :
           DeleteEntry(r, o[1], o[2]) \/ MarkEntry(r, o[1], o[2])
    \/ DeleteBatchData(r)
    \/ PutBeside(r) \/ PutBesideRecord(r) \/ DeleteOverwritten(r)

BatchNext ==
    /\ In("batch")
    /\ \E r \in Reqs : BatchStep(r) \/ Die(r)
    /\ UNCHANGED scene

-----------------------------------------------------------------------------
(* Properties *)

\* However batches and PUTs interleave, whatever fails or dies, a record that
\* stands has its data: no read finds an object without content.
BatchKeepsData ==
    In("batch") => \A k \in AllKeys : store.md[k] # None => store.md[k].loc \in store.data

\* However batches interleave, a locked version stands.
BatchKeepsLocked ==
    [][In("batch") => \A k \in AllKeys :
        store.md[k] # None /\ store.md[k].locked =>
            store'.md[k] # None /\ store'.md[k].loc = store.md[k].loc]_vars

\* A batch that finishes answers each entry once, and what it reports deleted
\* is gone or hidden when no other request ran beside it.
EachEntryAnswered ==
    [][In("batch") => \A r \in Reqs : pc[r] = "batch" /\ pc'[r] = "ok" =>
        /\ ctx[r].deleted \cup ctx[r].errors = ctx[r].asked
        /\ ctx[r].deleted \cap ctx[r].errors = {}
        /\ scene.sequential => \A e \in ctx[r].deleted :
               store'.md[e.key] = None \/ store'.md[e.key].marker]_vars

\* With batches that die or fail left out, no data is left that no record names.
BatchLeavesNoData ==
    In("batch") /\ scene.sequential /\ ~scene.deaths /\ Quiet =>
        store.data = {store.md[k].loc : k \in {x \in AllKeys : store.md[x] # None}}

\* Data and records of a batch name each other.
BatchDataStands == BatchKeepsData /\ BatchLeavesNoData

\* What a batch does to each entry is what it answers, and locks hold.
BatchAnswers == BatchKeepsLocked /\ EachEntryAnswered
=============================================================================
