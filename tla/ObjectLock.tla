------------------------------ MODULE ObjectLock ------------------------------
(***************************************************************************)
(* Retention and legal hold of one object version, and the requests that   *)
(* change or delete it.  Both are attributes of the version's record, which *)
(* each handler reads, checks and writes back whole.                       *)
(***************************************************************************)
EXTENDS Requests

CONSTANT MaxTime  \* bound on the clock

ASSUME MaxTimeAssumption == MaxTime \in Nat

Times == 0..MaxTime
Modes == {"GOVERNANCE", "COMPLIANCE"}
Retentions == [mode: {None}, date: {None}] \cup [mode: Modes, date: Times]
Locks == [mode: {None} \cup Modes, date: {None} \cup Times, hold: BOOLEAN]

\* None is no lock, mode or date.
ASSUME LockNoneAssumption == None \notin Locks /\ None \notin Modes /\ None \notin Times

Unlocked == [mode |-> None, date |-> None, hold |-> FALSE]

With(lock, ret) == [lock EXCEPT !.mode = ret.mode, !.date = ret.date]
now == store.now

-----------------------------------------------------------------------------
(* class ObjectLockInfo *)

\* A date that has come is over.
IsExpired(lock, t) == lock.date = None \/ t >= lock.date

IsLocked(lock, t) == lock.hold \/ (lock.mode # None /\ ~IsExpired(lock, t))

IsExtended(lock, date) == lock.date = None \/ date >= lock.date

\* Mutant: only the mode is looked at.
CanModifyHeld(lock, bypass, t) ==
    \/ lock.mode = None \/ IsExpired(lock, t)
    \/ lock.mode = "GOVERNANCE" /\ bypass

CanModifyObject(lock, bypass, t) ==
    \/ ~IsLocked(lock, t)
    \/ ~lock.hold /\ lock.mode = "GOVERNANCE" /\ bypass

\* Mutant: a bypass goes for every mode.
CanModifyAnyPolicy(lock, ret, bypass, t) ==
    \/ ~IsLocked(lock, t)
    \/ ret.mode = lock.mode /\ IsExtended(lock, ret.date)
    \/ bypass

CanModifyPolicy(lock, ret, bypass, t) ==
    \/ ~IsLocked(lock, t)
    \/ /\ lock.mode \in Modes
       /\ ret.mode = lock.mode
       /\ IsExtended(lock, ret.date)
    \/ lock.mode = "GOVERNANCE" /\ bypass

\* validateHeaders: no lock without the bucket's, dates in the future.
ValidHeaders(asked) ==
    /\ (asked.mode # None \/ asked.hold) => store.enabled
    /\ asked.mode # None => asked.date > now

\* compareObjectLockInformation: headers win over the bucket's default rule.
SetObjectLockInformation(asked, rule) ==
    IF asked.mode = None /\ rule # None
    THEN [mode |-> rule.mode, date |-> rule.date, hold |-> asked.hold]
    ELSE asked

-----------------------------------------------------------------------------
\* born: the lock the version was created with; asked: the lock the
\* acknowledged requests ask for.
LockInit ==
    /\ In("lock")
    /\ \E e \in BOOLEAN :
        store = [enabled |-> e, version |-> None, now |-> 0, born |-> None,
                 asked |-> None]
    /\ pc = [r \in Reqs |-> "idle"]
    /\ ctx = [r \in Reqs |-> None]

\* createAndStoreObject of a new version.
PutLockedObject(r) ==
    /\ Sent(r, "objectPut") /\ store.born = None
    /\ \E ret \in Retentions, hold \in BOOLEAN,
          rule \in {None} \cup {x \in Retentions : x.mode # None /\ x.date > now} :
        LET asked == With([Unlocked EXCEPT !.hold = hold], ret)
            lock == SetObjectLockInformation(asked, rule)
        IN  /\ ValidHeaders(asked)
            /\ rule # None => store.enabled
            /\ store' = [store EXCEPT !.version = lock, !.born = lock, !.asked = lock]
    /\ Goto(r, "ok")
    /\ UNCHANGED ctx

\* checkUserGovernanceBypass asks Vault about a user; an account may bypass.
Consider(r, c, user) ==
    IF c.bypass /\ user
    THEN Carry(r, c) /\ Goto(r, "checkBypass") /\ UNCHANGED store
    ELSE Carry(r, c) /\ Goto(r, "judge") /\ UNCHANGED store

CheckUserGovernanceBypass(r) ==
    /\ pc[r] = "checkBypass"
    /\ \/ Refuse(r)
       \/ Goto(r, "judge") /\ UNCHANGED <<store, ctx>>

\* The record is read; a delete marker, a missing version or a bucket without
\* object lock end the request.
Read(r, op, kind, ret, hold, bypass, user) ==
    /\ Sent(r, op)
    /\ \/ Refuse(r)
       \/ /\ store.version # None
          /\ kind # "delete" => store.enabled
          /\ Consider(r, [kind |-> kind, read |-> store.version, ret |-> ret,
                          hold |-> hold, bypass |-> bypass], user)

NoRet == [mode |-> None, date |-> None]

\* parseRetentionXml (external) only accepts dates to come.
ObjectPutRetention(r) ==
    \E ret \in Retentions, bypass, user \in BOOLEAN :
        /\ ret.mode # None /\ ret.date > now
        /\ Read(r, "objectPutRetention", "retention", ret, FALSE, bypass, user)

ObjectPutLegalHold(r) ==
    \E hold \in BOOLEAN :
        Read(r, "objectPutLegalHold", "hold", NoRet, hold, FALSE, FALSE)

ObjectDeleteVersion(r) ==
    \E bypass, user \in BOOLEAN :
        Read(r, "objectDelete", "delete", NoRet, FALSE, bypass, user)

\* The decision is taken from the record read, at the current time.
Judge(r) ==
    LET c == ctx[r]
        fine == CASE c.kind = "retention" -> CanModifyPolicy(c.read, c.ret, c.bypass, now)
                  [] c.kind = "delete"    -> CanModifyObject(c.read, c.bypass, now)
                  [] c.kind = "hold"      -> TRUE
    IN  /\ pc[r] = "judge"
        /\ IF fine THEN Goto(r, "write") /\ UNCHANGED <<store, ctx>> ELSE Refuse(r)

\* Mutant: a retention is written over the hold.
DropHold(c) ==
    CASE c.kind = "retention" -> With(Unlocked, c.ret)
      [] c.kind = "hold"      -> [c.read EXCEPT !.hold = c.hold]
      [] c.kind = "delete"    -> None

Written(c) ==
    CASE c.kind = "retention" -> With(c.read, c.ret)
      [] c.kind = "hold"      -> [c.read EXCEPT !.hold = c.hold]
      [] c.kind = "delete"    -> None

PutLockMD(r) ==
    LET c == ctx[r]
    IN  /\ pc[r] = "write"
        /\ store' = [store EXCEPT
                !.version = Written(c),
                !.asked = CASE c.kind = "delete" \/ @ = None -> None
                            [] c.kind = "retention"          -> With(@, c.ret)
                            [] c.kind = "hold"               -> [@ EXCEPT !.hold = c.hold]]
        /\ Goto(r, "ok")
        /\ UNCHANGED ctx

\* The read handlers; an attribute that was never set is an error.
ObjectGetRetention(r) ==
    /\ Sent(r, "objectGetRetention")
    /\ \/ Refuse(r)
       \/ /\ store.enabled /\ store.version # None /\ store.version.mode # None
          /\ Carry(r, [kind |-> "getRetention", read |-> store.version])
          /\ Goto(r, "ok")
          /\ UNCHANGED store

ObjectGetLegalHold(r) ==
    /\ Sent(r, "objectGetLegalHold")
    /\ \/ Refuse(r)
       \/ /\ store.enabled /\ store.version # None
          /\ Carry(r, [kind |-> "getHold", read |-> store.version])
          /\ Goto(r, "ok")
          /\ UNCHANGED store

Tick ==
    /\ now < MaxTime /\ store.enabled
    /\ store' = [store EXCEPT !.now = @ + 1]
    /\ UNCHANGED <<pc, ctx>>

LockStep(r) ==
    \/ PutLockedObject(r) \/ ObjectPutRetention(r) \/ ObjectPutLegalHold(r)
    \/ ObjectDeleteVersion(r) \/ CheckUserGovernanceBypass(r) \/ Judge(r)
    \/ PutLockMD(r) \/ ObjectGetRetention(r) \/ ObjectGetLegalHold(r)

LockNext ==
    /\ In("lock")
    /\ Tick \/ \E r \in Reqs : LockStep(r) \/ Die(r)
    /\ UNCHANGED scene

-----------------------------------------------------------------------------
(* Properties *)

\* A version created under COMPLIANCE stands until the date it was created
\* with, under that mode, whatever requests interleave, with whatever bypass.
BornLockStands ==
    In("lock") /\ store.born # None =>
        (store.born.mode = "COMPLIANCE" /\ now < store.born.date =>
            /\ store.version # None
            /\ store.version.mode = "COMPLIANCE"
            /\ store.version.date >= store.born.date)

\* When clients wait for each answer, the version carries the retention and
\* the hold that were last acknowledged: setting one leaves the other.
LockAsAsked == In("lock") /\ scene.sequential /\ Quiet => store.version = store.asked

\* When clients wait for each answer, a version under hold is not deleted, and
\* one under retention only in GOVERNANCE mode by a request with the bypass.
LockedForNow ==
    [][In("lock") /\ scene.sequential
       /\ store.version # None /\ store'.version = None
       /\ IsLocked(store.version, now)
       => /\ ~store.version.hold
          /\ store.version.mode = "GOVERNANCE"
          /\ \E r \in Reqs : pc[r] = "write" /\ ctx[r].bypass]_vars
=============================================================================
