----------------------------- MODULE AccessControl -----------------------------
(***************************************************************************)
(* Who may do what: the access control lists of a bucket and of an object, *)
(* how requests set and tell them, and how isBucketAuthorized and          *)
(* isObjAuthorized decide from them and from the bucket policy.            *)
(***************************************************************************)
EXTENDS Requests, Sequences

AX == INSTANCE SequencesExt

AllUsers == "AllUsers"      \* the group, and the account of the anonymous
AuthUsers == "AuthUsers"
LogGroup == "LogDelivery"
Groups == {AllUsers, AuthUsers, LogGroup}
Accounts == {"bucketOwner", "objectOwner", "other"}
Permissions == {"FULL_CONTROL", "READ", "READ_ACP", "WRITE", "WRITE_ACP"}

Service == "lifecycle"      \* stands for the service accounts

\* An account itself, or one of its users and sessions; the anonymous, the group
\* that delivers logs and a service come as themselves.
Requesters == [id : Accounts, user : BOOLEAN]
    \cup [id : {AllUsers, LogGroup, Service}, user : {FALSE}]

CannedFor == [bucket |-> {"private", "public-read", "public-read-write",
                          "authenticated-read", "log-delivery-write"},
              object |-> {"private", "public-read", "public-read-write",
                          "authenticated-read", "bucket-owner-read",
                          "bucket-owner-full-control"}]
GrantsFor == [bucket |-> Permissions, object |-> Permissions \ {"WRITE"}]

ASSUME AccessAssumption == None \notin CannedFor["bucket"] \cup CannedFor["object"]

\* canned is None when the lists hold grants; keys counts the fields, of which
\* an object's list from the headers of its put has one more.
NoGrants == [p \in Permissions |-> <<>>]
Canned(c) == [canned |-> c, lists |-> NoGrants, keys |-> 5]

Statements == [effect : {"Allow", "Deny"}, request : {"bucketGet", "objectGet"},
               principal : {[id |-> AllUsers, user |-> FALSE]} \cup
                           [id : {"other", "bucketOwner"}, user : BOOLEAN]]

\* publicRead: the bucket is one of ALLOW_PUBLIC_READ_BUCKETS; metadata that came
\* from elsewhere may have no list; asked: what the latest acknowledged request
\* wants the lists to say.
AccessInit ==
    /\ In("access")
    /\ \E owner \in {"bucketOwner", "objectOwner"},
          policy \in IF "policies" \in scene.ops
                     THEN AX!BoundedSeq(Statements, 2) ELSE {<<>>},
          publicRead \in IF "publicRead" \in scene.ops THEN BOOLEAN ELSE {FALSE},
          acl \in {Canned("private")} \cup IF "noAcl" \in scene.ops THEN {None} ELSE {} :
        store = [bucket |-> [owner |-> "bucketOwner", acl |-> Canned("private")],
                 object |-> [owner |-> owner, acl |-> acl],
                 policy |-> policy, publicRead |-> publicRead,
                 asked |-> [bucket |-> None, object |-> None]]
    /\ pc = [r \in Reqs |-> "idle"]
    /\ ctx = [r \in Reqs |-> None]

-----------------------------------------------------------------------------
(* permissionChecks.js *)

IsServiceAccount(id) == id = Service

Holds(list, g) == \E i \in DOMAIN list : list[i] = g

\* Mutant: the anonymous count as authenticated.
GrantedToAnyone(acl, permission, id) ==
    \E p \in {permission, "FULL_CONTROL"} :
        \E g \in {id, AllUsers, AuthUsers} : Holds(acl.lists[p], g)

Granted(acl, permission, id) ==
    \E p \in {permission, "FULL_CONTROL"} :
        \/ Holds(acl.lists[p], id)
        \/ Holds(acl.lists[p], AllUsers)
        \/ Holds(acl.lists[p], AuthUsers) /\ id # AllUsers

CheckBucketAcls(bucket, request, id) ==
    LET acl == bucket.acl
    IN  \/ bucket.owner = id
        \/ /\ request = "bucketGet"
           /\ \/ acl.canned \in {"public-read", "public-read-write"}
              \/ acl.canned = "authenticated-read" /\ id # AllUsers
              \/ Granted(acl, "READ", id)
        \/ /\ request = "bucketGetACL"
           /\ \/ acl.canned = "log-delivery-write" /\ id = LogGroup
              \/ Granted(acl, "READ_ACP", id)
        \/ request = "bucketPutACL" /\ Granted(acl, "WRITE_ACP", id)
        \/ /\ request \in {"objectPut", "objectDelete"}
           /\ acl.canned = "public-read-write" \/ Granted(acl, "WRITE", id)
        \/ request \in {"objectPutACL", "objectGetACL", "objectGet", "objectHead"}

\* A whitelisted bucket that is public-read lets everybody read its objects.
AllowPublicReads(s, request) ==
    s.publicRead /\ s.bucket.acl.canned = "public-read" /\ request \in {"objectGet", "objectHead"}

\* What the list of the object, or of a whitelisted bucket, lets others do.
ListAllows(s, request, id) ==
    LET acl == s.object.acl
        full == acl.canned = "bucket-owner-full-control" /\ s.bucket.owner = id
    IN  \/ /\ request \in {"objectGet", "objectHead"}
           /\ \/ acl.canned \in {"public-read", "public-read-write"}
              \/ acl.canned = "authenticated-read" /\ id # AllUsers
              \/ acl.canned = "bucket-owner-read" /\ s.bucket.owner = id
              \/ full \/ Granted(acl, "READ", id)
        \/ request \in {"objectPut", "objectDelete"}
        \/ request = "objectPutACL" /\ (full \/ Granted(acl, "WRITE_ACP", id))
        \/ request = "objectGetACL" /\ (full \/ Granted(acl, "READ_ACP", id))
        \/ AllowPublicReads(s, request)

\* objectGetTagging stands for bucketOwnerActions.
CheckObjectAcls(s, request, id) ==
    \/ request = "objectGetTagging" /\ s.bucket.owner = id
    \/ s.object.owner = id
    \/ s.object.acl # None /\ ListAllows(s, request, id)

CheckPrincipals(who, principal) ==
    \/ principal.id = AllUsers
    \/ principal.id = who.id /\ (principal.user => who.user)

Matches(s, request, who) == s.request = request /\ CheckPrincipals(who, s.principal)

\* Mutant: the last statement that matches decides.
LastStatementDecides(bucket, policy, request, who) ==
    AX!FoldLeft(LAMBDA permission, s :
                    IF Matches(s, request, who) THEN s.effect ELSE permission,
                IF bucket.owner = who.id THEN "Allow" ELSE "default", policy)

\* The statements are taken in their order; a Deny that matches ends the loop.
CheckBucketPolicy(bucket, policy, request, who) ==
    LET permission[n \in 0..Len(policy)] ==
            IF n = 0 THEN IF bucket.owner = who.id THEN "Allow" ELSE "default"
            ELSE IF permission[n - 1] # "Deny" /\ Matches(policy[n], request, who)
            THEN policy[n].effect ELSE permission[n - 1]
    IN  permission[Len(policy)]

\* What the lists allow and what the policy says, if there is one.
Decided(bucket, policy, request, who, acl) ==
    LET permission == CheckBucketPolicy(bucket, policy, request, who)
    IN  IF policy = <<>> THEN acl
        ELSE permission # "Deny" /\ (acl \/ permission = "Allow")

IsBucketAuthorized(s, request, who) ==
    \/ s.bucket.owner = who.id /\ ~who.user
    \/ IsServiceAccount(who.id)
    \/ Decided(s.bucket, s.policy, request, who, CheckBucketAcls(s.bucket, request, who.id))

\* Of an object that is there.
IsObjAuthorized(s, request, who) ==
    \/ s.object.owner = who.id /\ ~who.user
    \/ IsServiceAccount(who.id)
    \/ request = "objectGetTagging" /\ s.bucket.owner = who.id /\ ~who.user
    \/ Decided(s.bucket, s.policy, request, who, CheckObjectAcls(s, request, who.id))

-----------------------------------------------------------------------------
(* What is told of a list: aclUtils.js *)

Grant(p, g) == [permission |-> p, grantee |-> g]

\* The owner is told by identifier: an anonymous one is not the group.
AsAccount(id) == IF id = AllUsers THEN "anonymous" ELSE id

\* Mutant: the grant to the owner of the bucket is left out.
HandleCannedGrantPlain(acl, owner, bucketOwner) ==
    {Grant("FULL_CONTROL", AsAccount(owner))} \cup
    CASE acl.canned \in {"public-read", "public-read-write"} -> {Grant("READ", AllUsers)}
      [] acl.canned = "authenticated-read" -> {Grant("READ", AuthUsers)}
      [] OTHER -> {}

HandleCannedGrant(acl, owner, bucketOwner) ==
    {Grant("FULL_CONTROL", AsAccount(owner))} \cup
    CASE acl.canned = "private" -> {}
      [] acl.canned = "public-read" -> {Grant("READ", AllUsers)}
      [] acl.canned = "public-read-write" -> {Grant("READ", AllUsers), Grant("WRITE", AllUsers)}
      [] acl.canned = "authenticated-read" -> {Grant("READ", AuthUsers)}
      [] acl.canned = "log-delivery-write" -> {Grant("WRITE", LogGroup), Grant("READ_ACP", LogGroup)}
      [] acl.canned = "bucket-owner-read" -> {Grant("READ", bucketOwner)}
      [] acl.canned = "bucket-owner-full-control" -> {Grant("FULL_CONTROL", bucketOwner)}

\* getIndividualGrants, of the accounts whose email is known, and
\* getUriGrantInfo.
ListedGrants(acl) ==
    {Grant(p, g) : p \in Permissions, g \in Groups \cup Accounts}
        \cap UNION {{Grant(p, acl.lists[p][i]) : i \in DOMAIN acl.lists[p]} : p \in Permissions}

Told(acl, owner, bucketOwner) ==
    IF acl.canned # None THEN HandleCannedGrant(acl, owner, bucketOwner) ELSE ListedGrants(acl)

-----------------------------------------------------------------------------
(* Requests *)

\* A grant of a request: of an account, by its identifier or by its email, or
\* of a group.
Items == [type : {"id"}, who : {"other", "bucketOwner"}, permission : Permissions]
    \cup [type : {"email"}, who : {"other"}, permission : Permissions]
    \cup [type : {"uri"}, who : Groups, permission : Permissions]

GrantOf(item) == Grant(item.permission, item.who)

\* The grants that a request has, at most; it may be canned lists only.
MaxItems == IF "pairs" \in scene.ops THEN 2 ELSE IF "canned" \in scene.ops THEN 0 ELSE 1

\* What requests ask for: a canned list, or grants that name nobody twice for
\* the same permission.
Bodies(kind) ==
    {[canned |-> c, items |-> <<>>] : c \in CannedFor[kind]} \cup
    {[canned |-> None, items |-> i] :
        i \in {s \in AX!BoundedSeq(Items, MaxItems) :
                  /\ s # <<>>
                  /\ Len(s) = 2 => GrantOf(s[1]) # GrantOf(s[2])}}

\* Mutant: the grantees named by email are forgotten.
SortHeaderGrantsKnown(kind, items) ==
    [p \in Permissions |->
        AX!FoldLeft(LAMBDA list, i : IF i.permission = p THEN Append(list, i.who) ELSE list,
                    <<>>, SelectSeq(items, LAMBDA i : i.type # "email"))]

\* The grantees of one type, in the order of the request.
GranteesOf(items, type, p) ==
    LET list[n \in 0..Len(items)] ==
            IF n = 0 THEN <<>>
            ELSE IF items[n].type = type /\ items[n].permission = p
            THEN Append(list[n - 1], items[n].who) ELSE list[n - 1]
    IN  list[Len(items)]

\* The lists in the order emails, identifiers, groups; permissions that the
\* kind of resource does not have are skipped.
SortHeaderGrants(kind, items) ==
    [p \in Permissions |->
        IF p \notin GrantsFor[kind] THEN <<>>
        ELSE GranteesOf(items, "email", p) \o GranteesOf(items, "id", p)
                \o GranteesOf(items, "uri", p)]

\* What the client asked for, whatever order it wrote it in.
Wanted(kind, body) ==
    [canned |-> body.canned,
     grants |-> {GrantOf(body.items[i]) : i \in DOMAIN body.items}
                    \cap {Grant(p, g) : p \in GrantsFor[kind], g \in Groups \cup Accounts}]

AclOf(kind, body) ==
    IF body.canned # None THEN Canned(body.canned)
    ELSE [canned |-> None, lists |-> SortHeaderGrants(kind, body.items), keys |-> 5]

\* The request is authorized and its grants are read; emails are looked up in
\* the vault, which may know none.
PutACL(r, kind, record, body, authorized) ==
    \/ ~authorized /\ Refuse(r)
    \/ /\ authorized
       /\ Carry(r, [op |-> kind, record |-> record, acl |-> AclOf(kind, body),
                    wanted |-> Wanted(kind, body)])
       /\ Goto(r, IF \E i \in DOMAIN body.items : body.items[i].type = "email"
                  THEN "getCanonicalIds" ELSE "putACL")
       /\ UNCHANGED store

\* An account or one of its users; a body that names another owner is refused.
BucketPutAccess(r) ==
    /\ Sent(r, "bucketPutACL")
    /\ \E who \in Requesters, body \in Bodies("bucket") :
           PutACL(r, "bucket", store.bucket, body, IsBucketAuthorized(store, "bucketPutACL", who))

ObjectPutAccess(r) ==
    /\ Sent(r, "objectPutACL")
    /\ \E who \in Requesters, body \in Bodies("object") :
           PutACL(r, "object", store.object, body,
                  /\ IsBucketAuthorized(store, "objectPutACL", who)
                  /\ IsObjAuthorized(store, "objectPutACL", who))

GetCanonicalIds(r) ==
    /\ pc[r] = "getCanonicalIds"
    /\ Refuse(r) \/ (Goto(r, "putACL") /\ UNCHANGED <<store, ctx>>)

\* Mutant: lists of the same lengths are the same.
SameLengths(old, new) ==
    /\ old.keys = new.keys /\ old.canned = new.canned
    /\ \A p \in Permissions : Len(old.lists[p]) = Len(new.lists[p])

\* _aclGrantDidNotChange, for every grant.
IsAclUnchanged(old, new) ==
    /\ old.keys = new.keys /\ old.canned = new.canned
    /\ \A p \in Permissions :
        /\ Len(old.lists[p]) = Len(new.lists[p])
        /\ \A i \in DOMAIN old.lists[p] : Holds(new.lists[p], old.lists[p][i])

\* addACL writes always, addObjectACL when the list is another one; the whole
\* record that the request read is written.  Without a list there it throws.
AddACL(r) ==
    LET kind == ctx[r].op
        unchanged == kind = "object" /\ IsAclUnchanged(ctx[r].record.acl, ctx[r].acl)
    IN  /\ pc[r] = "putACL" /\ ctx[r].record.acl # None
        /\ store' = [store EXCEPT
               ![kind] = IF unchanged THEN @ ELSE [ctx[r].record EXCEPT !.acl = ctx[r].acl],
               !.asked[kind] = ctx[r].wanted]
        /\ Goto(r, "ok")
        /\ UNCHANGED ctx

AddToNoACL(r) == pc[r] = "putACL" /\ ctx[r].record.acl = None /\ Refuse(r)

\* objectPut by an account that the bucket lets in: the object is its, with the
\* list that parseAclFromHeaders makes, private by default.
PutOwnObject(r) ==
    /\ Sent(r, "putObject")
    /\ \E who \in Requesters, body \in Bodies("object") :
        \/ ~IsBucketAuthorized(store, "objectPut", who) /\ Refuse(r)
        \/ /\ IsBucketAuthorized(store, "objectPut", who)
           /\ store' = [store EXCEPT
                  !.object = [owner |-> who.id, acl |-> [AclOf("object", body) EXCEPT !.keys = 6]],
                  !.asked["object"] = Wanted("object", body)]
           /\ Goto(r, "ok")
           /\ UNCHANGED ctx

\* Telling a list that is not there throws.
GetAccess(r) ==
    /\ \E kind \in {"bucket", "object"}, who \in Requesters :
        LET request == IF kind = "bucket" THEN "bucketGetACL" ELSE "objectGetACL"
            owner == store[kind].owner
        IN  /\ Sent(r, request)
            /\ IF /\ store[kind].acl # None
                  /\ IsBucketAuthorized(store, request, who)
                  /\ kind = "object" => IsObjAuthorized(store, request, who)
               THEN /\ Carry(r, [op |-> request, of |-> store,
                                 told |-> Told(store[kind].acl, owner, store.bucket.owner)])
                    /\ Goto(r, "ok")
                    /\ UNCHANGED store
               ELSE Refuse(r)

AccessNext ==
    /\ In("access")
    /\ \E r \in Reqs : \/ BucketPutAccess(r) \/ ObjectPutAccess(r) \/ GetCanonicalIds(r)
                       \/ AddACL(r) \/ AddToNoACL(r) \/ PutOwnObject(r) \/ GetAccess(r) \/ Die(r)
    /\ UNCHANGED scene

-----------------------------------------------------------------------------
(* Properties *)

Needs == [bucketGet |-> "READ", bucketGetACL |-> "READ_ACP", bucketPutACL |-> "WRITE_ACP",
          objectPut |-> "WRITE",
          objectGet |-> "READ", objectGetACL |-> "READ_ACP", objectPutACL |-> "WRITE_ACP"]

Covers(grants, need, id) ==
    \E g \in grants : /\ g.permission \in {need, "FULL_CONTROL"}
                      /\ \/ g.grantee \in {AsAccount(id), AllUsers}
                         \/ g.grantee = AuthUsers /\ id # AllUsers

\* log-delivery-write tells that logs may be written, which is to be implemented
\* later (constants.js:51): nothing lets the group write.
ToldOnly(acl, q, id) ==
    acl.canned = "log-delivery-write" /\ q = "objectPut" /\ id = LogGroup

\* The grants that GET of a list tells are the ones that are enforced: as long
\* as no policy is set, the owner, services and whoever the grants cover may do
\* what they cover, and nobody else may.  But everybody reads the objects of a
\* whitelisted bucket that is public-read, and log-delivery-write tells a
\* permission to write that it does not give.
ToldIsEnforced ==
    In("access") /\ store.policy = <<>> =>
        \A r \in Reqs : Answered(r) /\ ctx[r] # None =>
            \A who \in Requesters :
                LET c == ctx[r]
                    may(owner, q) ==
                        \/ who.id = owner \/ IsServiceAccount(who.id)
                        \/ Covers(c.told, Needs[q], who.id)
                IN  /\ c.op = "bucketGetACL" =>
                        \A q \in {"bucketGet", "bucketGetACL", "bucketPutACL", "objectPut"} :
                            IsBucketAuthorized(c.of, q, who) <=>
                                /\ may(c.of.bucket.owner, q)
                                /\ ~ToldOnly(c.of.bucket.acl, q, who.id)
                    /\ c.op = "objectGetACL" =>
                        \A q \in {"objectGet", "objectGetACL", "objectPutACL"} :
                            IsObjAuthorized(c.of, q, who) <=>
                                may(c.of.object.owner, q) \/ AllowPublicReads(c.of, q)

\* Wherever it stands in the policy, a Deny keeps everybody it names out, the
\* users of the owner and the readers of a whitelisted bucket too, but not the
\* owning account nor a service; without one, an Allow lets in whom it names.
DenyStands ==
    In("access") =>
        \A who \in Requesters, q \in {"bucketGet", "objectGet"} :
            LET owner == IF q = "bucketGet" THEN store.bucket.owner ELSE store.object.owner
                effects == {store.policy[i].effect :
                               i \in {j \in DOMAIN store.policy : Matches(store.policy[j], q, who)}}
                may == IF q = "bucketGet" THEN IsBucketAuthorized(store, q, who)
                       ELSE IsObjAuthorized(store, q, who)
            IN  /\ "Deny" \in effects =>
                       (may <=> (who.id = owner /\ ~who.user) \/ IsServiceAccount(who.id))
                /\ effects = {"Allow"} => may

\* When clients wait for the answers, the list that is stored says what the
\* latest acknowledged request asked, grants by email and grants that look like
\* the earlier ones included.
AclAsAsked ==
    In("access") /\ scene.sequential =>
        \A kind \in {"bucket", "object"} :
            LET acl == store[kind].acl
            IN  store.asked[kind] # None =>
                  store.asked[kind] = [canned |-> acl.canned, grants |-> ListedGrants(acl)]

\* What is asked is stored, what is stored is told, what is told is enforced.
AccessIsAsAsked == ToldIsEnforced /\ DenyStands /\ AclAsAsked
=============================================================================
