---------------------------- MODULE BoundaryProofs ----------------------------
(***************************************************************************)
(* What passes the server's boundary, for any number of requests: who is   *)
(* let in by access lists and policies and what is told of them, the bytes *)
(* that reads return, and what listings tell page after page.              *)
(***************************************************************************)
EXTENDS AccessControl, ObjectRead, Listings, FiniteSetTheorems,
        SequenceTheorems, TLAPS

-----------------------------------------------------------------------------
(* Numbers and recursive functions *)

\* A non-empty set of numbers has a least one.
LEMMA LeastNumber ==
    ASSUME NEW T \in SUBSET Nat, T # {}
    PROVE  \E n \in T : \A m \in T : n <= m
  <1> DEFINE R == OpToRel(<, Nat)
  <1>1. IsWellFoundedOn(R, Nat)
    BY NatLessThanWellFounded
  <1>2. \A m, n \in Nat : m < n => <<m, n>> \in R
    BY DEF OpToRel
  <1> HIDE DEF R
  <1>3. PICK n \in T : \A m \in T : ~(<<m, n>> \in R)
    BY <1>1, WFMin
  <1>4. ASSUME NEW m \in T PROVE n <= m
    <2>1. ~(m < n)
      BY <1>2, <1>3
    <2>2. m \in Nat /\ n \in Nat
      BY <1>3
    <2>3. QED
      BY <2>1, <2>2
  <1>5. QED
    BY <1>3, <1>4

\* Induction up to n, on the set S of the numbers that a fact holds of.
LEMMA StepByStep ==
    ASSUME NEW n \in Nat, NEW S, 0 \in S,
           \A k \in Nat : k < n /\ k \in S => k + 1 \in S
    PROVE  0..n \subseteq S
  <1> SUFFICES ASSUME (0..n) \ S # {} PROVE FALSE
    OBVIOUS
  <1> DEFINE T == (0..n) \ S
  <1>0. T \in SUBSET Nat /\ T # {}
    OBVIOUS
  <1>1. PICK k \in T : \A m \in T : k <= m
    <2> HIDE DEF T
    <2>1. QED
      BY <1>0, LeastNumber
  <1>2. k - 1 \in Nat /\ k - 1 < n /\ k - 1 \in S
    BY <1>1
  <1>3. QED
    BY <1>1, <1>2

\* A function that is defined step by step up to n exists.
LEMMA Recursion ==
    ASSUME NEW V, NEW base \in V, NEW n \in Nat, NEW step \in [1..n -> [V -> V]]
    PROVE  \E g \in [0..n -> V] : g[0] = base /\ \A i \in 1..n : g[i] = step[i][g[i - 1]]
  <1> DEFINE Upto(k, g) == g \in [0..k -> V] /\ \A i \in 0..k : g[i] = IF i = 0 THEN base ELSE step[i][g[i - 1]]
             S == {k \in 0..n : \E g : Upto(k, g)}
  <1>1. Upto(0, [i \in 0..0 |-> base])
    OBVIOUS
  <1>2. ASSUME NEW k \in Nat, k < n, k \in S PROVE k + 1 \in S
    <2>1. PICK g : Upto(k, g)
      BY <1>2
    <2> DEFINE h == [i \in 0..(k + 1) |-> IF i <= k THEN g[i] ELSE step[k + 1][g[k]]]
    <2>2. step[k + 1] \in [V -> V] /\ g[k] \in V
      BY <1>2, <2>1
    <2>3. h \in [0..(k + 1) -> V]
      BY <1>2, <2>1, <2>2
    <2>4. ASSUME NEW i \in 0..(k + 1) PROVE h[i] = IF i = 0 THEN base ELSE step[i][h[i - 1]]
      <3>1. CASE i <= k
        BY <3>1, <2>1
      <3>2. CASE i = k + 1
        BY <3>2
      <3>3. QED
        BY <3>1, <3>2
    <2>5. Upto(k + 1, h)
      BY <2>3, <2>4
    <2> HIDE DEF h, Upto
    <2>6. k + 1 \in 0..n
      BY <1>2
    <2>7. QED
      BY <2>5, <2>6
  <1>3. n \in S
    <2>1. 0 \in S
      <3> HIDE DEF Upto
      <3>1. 0 \in 0..n
        OBVIOUS
      <3>2. QED
        BY <1>1, <3>1
    <2> HIDE DEF S
    <2>2. 0..n \subseteq S
      BY <1>2, <2>1, StepByStep
    <2>3. QED
      BY <2>2
  <1>4. PICK g : Upto(n, g)
    BY <1>3
  <1>5. QED
    BY <1>4

-----------------------------------------------------------------------------
(* Access control *)

\* g is what is decided after each statement.
DecidedAfter(g, b, policy, request, who) ==
    /\ g \in [0..Len(policy) -> {"Allow", "Deny", "default"}]
    /\ CheckBucketPolicy(b, policy, request, who) = g[Len(policy)]
    /\ g[0] \in {"Allow", "default"}
    /\ \A n \in 1..Len(policy) :
          g[n] = IF g[n - 1] # "Deny" /\ Matches(policy[n], request, who)
                 THEN policy[n].effect ELSE g[n - 1]

\* The decision after each statement of a policy of any length.
LEMMA PolicySteps ==
    ASSUME NEW b, NEW policy \in Seq(Statements), NEW request, NEW who
    PROVE  \E g : DecidedAfter(g, b, policy, request, who)
  <1> DEFINE V == {"Allow", "Deny", "default"}
             base == IF b.owner = who.id THEN "Allow" ELSE "default"
             F(g) == [n \in 0..Len(policy) |->
                        IF n = 0 THEN IF b.owner = who.id THEN "Allow" ELSE "default"
                        ELSE IF g[n - 1] # "Deny" /\ Matches(policy[n], request, who)
                        THEN policy[n].effect ELSE g[n - 1]]
             step == [n \in 1..Len(policy) |-> [v \in V |->
                        IF v # "Deny" /\ Matches(policy[n], request, who)
                        THEN policy[n].effect ELSE v]]
             G == CHOOSE g : g = F(g)
  <1>1. step \in [1..Len(policy) -> [V -> V]]
    <2>1. ASSUME NEW n \in 1..Len(policy), NEW v \in V
          PROVE  (IF v # "Deny" /\ Matches(policy[n], request, who)
                  THEN policy[n].effect ELSE v) \in V
      <3>1. policy[n] \in Statements
        OBVIOUS
      <3>2. policy[n].effect \in V
        BY <3>1 DEF Statements
      <3>3. QED
        BY <3>2
    <2>2. QED
      BY <2>1
  <1>2. Len(policy) \in Nat /\ base \in V
    OBVIOUS
  <1>3. PICK g \in [0..Len(policy) -> V] :
               g[0] = base /\ \A n \in 1..Len(policy) : g[n] = step[n][g[n - 1]]
    <2>1. \E W, b0, st : W = V /\ b0 = base /\ st = step
      OBVIOUS
    <2>2. PICK W, b0, st : W = V /\ b0 = base /\ st = step
      BY <2>1, Zenon
    <2> HIDE DEF step, V, base
    <2>3. ASSUME NEW L \in Nat, L = Len(policy)
          PROVE  \E h \in [0..L -> W] : h[0] = b0 /\ \A n \in 1..L : h[n] = st[n][h[n - 1]]
      <3>1. st \in [1..L -> [W -> W]] /\ b0 \in W
        BY <1>1, <1>2, <2>2, <2>3
      <3>2. QED
        BY ONLY L \in Nat, <3>1, Recursion
    <2>4. QED
      BY <2>2, <2>3, <1>2
  <1>4. g = F(g)
    <2>1. ASSUME NEW n \in 0..Len(policy)
          PROVE  (IF n = 0 THEN base ELSE step[n][g[n - 1]]) = F(g)[n]
      <3>1. CASE n = 0
        BY <3>1
      <3>2. CASE n # 0
        <4>1. n \in 1..Len(policy) /\ n - 1 \in 0..Len(policy)
          BY <3>2, <1>2
        <4>2. g[n - 1] \in V
          BY <4>1, <1>3
        <4>3. QED
          BY <3>2, <4>1, <4>2
      <3>3. QED
        BY <3>1, <3>2
    <2>2. QED
      BY <2>1, <1>3
  <1>5. G = F(G)
    <2> HIDE DEF F
    <2>1. QED
      BY <1>4
  <1>6. CheckBucketPolicy(b, policy, request, who) = G[Len(policy)]
    BY DEF CheckBucketPolicy
  <1> HIDE DEF G
  <1>7. G[0] = base /\ \A n \in 1..Len(policy) :
            G[n] = IF G[n - 1] # "Deny" /\ Matches(policy[n], request, who)
                            THEN policy[n].effect ELSE G[n - 1]
    BY <1>5, <1>2
  <1>8. G \in [0..Len(policy) -> V]
    <2> DEFINE S == {k \in 0..Len(policy) : G[k] \in V}
    <2>1. 0 \in S
      BY <1>7, <1>2
    <2>2. ASSUME NEW k \in Nat, k < Len(policy), k \in S PROVE k + 1 \in S
      <3>1. policy[k + 1] \in Statements
        BY <2>2
      <3>2. policy[k + 1].effect \in V
        BY <3>1 DEF Statements
      <3>3. k + 1 \in 1..Len(policy) /\ (k + 1) - 1 = k
        BY <2>2
      <3>4. G[k + 1] \in V
        BY <3>2, <3>3, <2>2, <1>7
      <3>5. QED
        BY <3>3, <3>4
    <2> HIDE DEF S
    <2>3. 0..Len(policy) \subseteq S
      BY <2>1, <2>2, <1>2, StepByStep
    <2>4. \A k \in 0..Len(policy) : G[k] \in V
      BY <2>3 DEF S
    <2>5. QED
      BY <2>4, <1>5
  <1>9. DecidedAfter(G, b, policy, request, who)
    BY <1>6, <1>7, <1>8 DEF DecidedAfter
  <1>10. QED
    BY <1>9

\* A Deny that matches decides, wherever it stands; if all that match allow, the
\* decision is Allow.
LEMMA DenyDecides ==
    ASSUME NEW b, NEW policy \in Seq(Statements), NEW request, NEW who
    PROVE  LET decision == CheckBucketPolicy(b, policy, request, who)
               matching == {j \in DOMAIN policy : Matches(policy[j], request, who)}
           IN  /\ (\E i \in matching : policy[i].effect = "Deny") => decision = "Deny"
               /\ matching # {} /\ (\A i \in matching : policy[i].effect = "Allow") => decision = "Allow"
  <1> DEFINE M(i) == Matches(policy[i], request, who)
  <1>0. PICK g : DecidedAfter(g, b, policy, request, who)
    BY PolicySteps
  <1>1. /\ g \in [0..Len(policy) -> {"Allow", "Deny", "default"}]
        /\ CheckBucketPolicy(b, policy, request, who) = g[Len(policy)]
        /\ g[0] \in {"Allow", "default"}
        /\ \A n \in 1..Len(policy) :
              g[n] = IF g[n - 1] # "Deny" /\ M(n) THEN policy[n].effect ELSE g[n - 1]
    BY <1>0 DEF DecidedAfter
  <1> HIDE DEF M
  <1>2. Len(policy) \in Nat /\ DOMAIN policy = 1..Len(policy)
    OBVIOUS
  <1>3. ASSUME NEW i \in 1..Len(policy), M(i), policy[i].effect = "Deny" PROVE g[Len(policy)] = "Deny"
    <2> DEFINE S == {k \in 0..Len(policy) : i <= k => g[k] = "Deny"}
    <2>1. 0 \in S
      BY <1>2
    <2>2. ASSUME NEW k \in Nat, k < Len(policy), k \in S PROVE k + 1 \in S
      <3>1. k + 1 \in 1..Len(policy) /\ (k + 1) - 1 = k
        BY <2>2, <1>2
      <3>2. g[k + 1] = IF g[k] # "Deny" /\ M(k + 1) THEN policy[k + 1].effect ELSE g[k]
        BY <3>1, <1>1
      <3>3. i <= k + 1 => i <= k \/ i = k + 1
        BY <1>2
      <3>4. i <= k + 1 => g[k + 1] = "Deny"
        BY <3>2, <3>3, <2>2, <1>3
      <3>5. QED
        BY <3>1, <3>4
    <2> HIDE DEF S
    <2>3. 0..Len(policy) \subseteq S
      BY <2>1, <2>2, <1>2, StepByStep
    <2>4. Len(policy) \in S
      BY <2>3, <1>2
    <2>5. QED
      BY <2>4, <1>2 DEF S
  <1>4. ASSUME \A i \in 1..Len(policy) : M(i) => policy[i].effect = "Allow",
               NEW i \in 1..Len(policy), M(i)
        PROVE  g[Len(policy)] = "Allow"
    <2> DEFINE S == {k \in 0..Len(policy) : g[k] # "Deny" /\ (i <= k => g[k] = "Allow")}
    <2>1. 0 \in S
      BY <1>1, <1>2
    <2>2. ASSUME NEW k \in Nat, k < Len(policy), k \in S PROVE k + 1 \in S
      <3>1. k + 1 \in 1..Len(policy) /\ (k + 1) - 1 = k
        BY <2>2, <1>2
      <3>2. g[k + 1] = IF M(k + 1) THEN "Allow" ELSE g[k]
        BY <3>1, <1>1, <1>4, <2>2
      <3>3. i <= k + 1 => i <= k \/ i = k + 1
        BY <1>2
      <3>4. g[k + 1] # "Deny" /\ (i <= k + 1 => g[k + 1] = "Allow")
        BY <3>2, <3>3, <2>2, <1>4
      <3>5. QED
        BY <3>1, <3>4
    <2> HIDE DEF S
    <2>3. 0..Len(policy) \subseteq S
      BY <2>1, <2>2, <1>2, StepByStep
    <2>4. Len(policy) \in S
      BY <2>3, <1>2
    <2>5. QED
      BY <2>4, <1>2 DEF S
  <1>5. QED
    BY <1>1, <1>2, <1>3, <1>4 DEF M

\* Policies are enforced as DenyStands says, whatever the lists say.
LEMMA DenyHolds ==
    ASSUME store.policy \in Seq(Statements)
    PROVE  DenyStands
  <1> SUFFICES ASSUME NEW who \in Requesters, NEW q \in {"bucketGet", "objectGet"}
               PROVE  LET owner == IF q = "bucketGet" THEN store.bucket.owner ELSE store.object.owner
                          effects == {store.policy[i].effect :
                                         i \in {j \in DOMAIN store.policy : Matches(store.policy[j], q, who)}}
                          may == IF q = "bucketGet" THEN IsBucketAuthorized(store, q, who)
                                 ELSE IsObjAuthorized(store, q, who)
                      IN  /\ "Deny" \in effects =>
                                 (may <=> (who.id = owner /\ ~who.user) \/ IsServiceAccount(who.id))
                          /\ effects = {"Allow"} => may
    BY DEF DenyStands
  <1> DEFINE policy == store.policy
             matching == {j \in DOMAIN policy : Matches(policy[j], q, who)}
             effects == {policy[i].effect : i \in matching}
             owner == IF q = "bucketGet" THEN store.bucket.owner ELSE store.object.owner
             may == IF q = "bucketGet" THEN IsBucketAuthorized(store, q, who)
                    ELSE IsObjAuthorized(store, q, who)
             decision == CheckBucketPolicy(store.bucket, policy, q, who)
  <1>1. /\ (\E i \in matching : policy[i].effect = "Deny") => decision = "Deny"
        /\ matching # {} /\ (\A i \in matching : policy[i].effect = "Allow") => decision = "Allow"
    BY DenyDecides
  <1>2. matching # {} => policy # <<>>
    OBVIOUS
  <1>3. decision = "Deny" /\ policy # <<>> =>
            (may <=> (who.id = owner /\ ~who.user) \/ IsServiceAccount(who.id))
    BY DEF IsBucketAuthorized, IsObjAuthorized, Decided
  <1>4. decision = "Allow" /\ policy # <<>> => may
    BY DEF IsBucketAuthorized, IsObjAuthorized, Decided
  <1>5. effects = {"Allow"} => matching # {} /\ \A i \in matching : policy[i].effect = "Allow"
    OBVIOUS
  <1>6. "Deny" \in effects => \E i \in matching : policy[i].effect = "Deny"
    OBVIOUS
  <1> HIDE DEF matching, effects, owner, may, decision
  <1>7. /\ "Deny" \in effects =>
               (may <=> (who.id = owner /\ ~who.user) \/ IsServiceAccount(who.id))
        /\ effects = {"Allow"} => may
    BY <1>1, <1>2, <1>3, <1>4, <1>5, <1>6
  <1>8. QED
    BY <1>7 DEF matching, effects, owner, may

AclNames == Groups \cup Accounts
AclSet == [canned : CannedFor["bucket"] \cup CannedFor["object"] \cup {None},
           lists : [Permissions -> Seq(AclNames)], keys : {5, 6}]
AclFits(kind, acl) ==
    /\ acl \in AclSet
    /\ acl.canned # None => acl.canned \in CannedFor[kind] /\ acl.lists = NoGrants

AccessIds == Accounts \cup {AllUsers, LogGroup, Service}

\* Requests come from an account, the group of logs or a service, or are anonymous.
LEMMA RequesterIds ==
    ASSUME NEW who \in Requesters
    PROVE  who.id \in AccessIds
  BY DEF Requesters, AccessIds

\* The grants that are told of lists are those in the lists.
LEMMA ListedIs ==
    ASSUME NEW acl \in AclSet, NEW g
    PROVE  g \in ListedGrants(acl) <=>
               \E p \in Permissions : \E i \in DOMAIN acl.lists[p] : g = Grant(p, acl.lists[p][i])
  <1>1. \A p \in Permissions : \A i \in DOMAIN acl.lists[p] : acl.lists[p][i] \in AclNames
    BY DEF AclSet
  <1>2. QED
    BY <1>1 DEF ListedGrants, AclNames

\* What the grants told of lists cover is what the lists grant.
LEMMA ListedCovers ==
    ASSUME NEW acl \in AclSet, NEW need \in Permissions, NEW id \in AccessIds
    PROVE  Covers(ListedGrants(acl), need, id) <=> Granted(acl, need, id)
  <1>1. "FULL_CONTROL" \in Permissions
    BY DEF Permissions
  <1>2. \A p \in Permissions : \A i \in DOMAIN acl.lists[p] : acl.lists[p][i] # "anonymous"
    BY DEF AclSet, AclNames, Groups, Accounts, AllUsers, AuthUsers, LogGroup
  <1>3. ASSUME NEW g \in ListedGrants(acl), g.permission \in {need, "FULL_CONTROL"},
               g.grantee \in {AsAccount(id), AllUsers} \/ (g.grantee = AuthUsers /\ id # AllUsers)
        PROVE  Granted(acl, need, id)
    <2>1. PICK p \in Permissions : \E i \in DOMAIN acl.lists[p] : g = Grant(p, acl.lists[p][i])
      BY ListedIs
    <2>2. PICK i \in DOMAIN acl.lists[p] : g = Grant(p, acl.lists[p][i])
      BY <2>1
    <2>3. g.permission = p /\ g.grantee = acl.lists[p][i]
      BY <2>2 DEF Grant
    <2>4. QED
      BY <1>2, <1>3, <2>3 DEF Granted, Holds, AsAccount
  <1>4. ASSUME Granted(acl, need, id) PROVE Covers(ListedGrants(acl), need, id)
    <2>1. PICK p \in {need, "FULL_CONTROL"} :
             \E i \in DOMAIN acl.lists[p] :
                 \/ acl.lists[p][i] \in {id, AllUsers}
                 \/ acl.lists[p][i] = AuthUsers /\ id # AllUsers
      BY <1>4 DEF Granted, Holds
    <2>2. PICK i \in DOMAIN acl.lists[p] :
                 \/ acl.lists[p][i] \in {id, AllUsers}
                 \/ acl.lists[p][i] = AuthUsers /\ id # AllUsers
      BY <2>1
    <2> DEFINE g == Grant(p, acl.lists[p][i])
    <2>3. g \in ListedGrants(acl)
      BY <1>1, ListedIs
    <2>4. g.permission = p /\ g.grantee = acl.lists[p][i]
      BY DEF Grant
    <2>5. g.grantee \in {AsAccount(id), AllUsers} \/ (g.grantee = AuthUsers /\ id # AllUsers)
      BY <2>2, <2>4 DEF AsAccount
    <2> HIDE DEF g
    <2>6. QED
      BY <2>3, <2>4, <2>5 DEF Covers
  <1>5. QED
    BY <1>3, <1>4 DEF Covers

\* The grant of p to grantee covers need for id.
CoveredBy(p, grantee, need, id) ==
    /\ p \in {need, "FULL_CONTROL"}
    /\ grantee \in {AsAccount(id), AllUsers} \/ (grantee = AuthUsers /\ id # AllUsers)

\* A set of grants covers what one of its grants covers.
LEMMA CoveredIs ==
    ASSUME NEW grants, NEW need, NEW id
    PROVE  /\ Covers(grants, need, id) <=>
                \E g \in grants : CoveredBy(g.permission, g.grantee, need, id)
           /\ \A p, x : Grant(p, x).permission = p /\ Grant(p, x).grantee = x
  BY DEF Covers, CoveredBy, Grant

\* Canned lists grant nothing besides.
LEMMA NobodyListed ==
    ASSUME NEW acl, acl.lists = NoGrants, NEW need \in Permissions, NEW id
    PROVE  ~Granted(acl, need, id)
  BY DEF Granted, Holds, NoGrants, Permissions

\* What a request for the list of s[kind] is told.
Answers(s, kind) == Told(s[kind].acl, s[kind].owner, s.bucket.owner)

\* Whom the grants told of the bucket let in: the permission to write that is told
\* only is none.
BucketEnforces(s, told, q, who) ==
    IsBucketAuthorized(s, q, who) <=>
        /\ \/ who.id = s.bucket.owner \/ IsServiceAccount(who.id)
           \/ Covers(told, Needs[q], who.id)
        /\ ~ToldOnly(s.bucket.acl, q, who.id)

\* The same of its object, which everybody may read in a whitelisted bucket.
ObjectEnforces(s, told, q, who) ==
    IsObjAuthorized(s, q, who) <=>
        \/ who.id = s.object.owner \/ IsServiceAccount(who.id)
        \/ Covers(told, Needs[q], who.id)
        \/ AllowPublicReads(s, q)

\* The grants told of a bucket are the ones enforced on it: every canned list, and
\* lists of grants.
LEMMA ToldOfBucket ==
    ASSUME NEW s, s.policy = <<>>, s.bucket.owner = "bucketOwner", AclFits("bucket", s.bucket.acl),
           NEW who \in Requesters, NEW q \in {"bucketGet", "bucketGetACL", "bucketPutACL", "objectPut"}
    PROVE  BucketEnforces(s, Told(s.bucket.acl, s.bucket.owner, s.bucket.owner), q, who)
  <1> DEFINE acl == s.bucket.acl
             id == who.id
  <1>1. id \in AccessIds
    BY RequesterIds
  <1>2. Needs[q] \in Permissions
    BY DEF Needs, Permissions
  <1>3. IsBucketAuthorized(s, q, who) <=> IsServiceAccount(id) \/ CheckBucketAcls(s.bucket, q, id)
    BY DEF IsBucketAuthorized, Decided, CheckBucketAcls
  <1>4. CASE acl.canned = None
    <2>1. Told(s.bucket.acl, s.bucket.owner, s.bucket.owner) = ListedGrants(acl)
      BY <1>4 DEF Told
    <2>2. Covers(ListedGrants(acl), Needs[q], id) <=> Granted(acl, Needs[q], id)
      BY <1>1, <1>2, ListedCovers DEF AclFits
    <2>3. CheckBucketAcls(s.bucket, q, id) <=> s.bucket.owner = id \/ Granted(acl, Needs[q], id)
      <3>1. acl.canned \notin CannedFor["bucket"]
        BY <1>4, AccessAssumption
      <3>2. QED
        BY <3>1 DEF CheckBucketAcls, Needs, CannedFor
    <2>4. ~ToldOnly(acl, q, id)
      BY <1>4, AccessAssumption DEF ToldOnly, CannedFor
    <2>5. QED
      BY <1>3, <2>1, <2>2, <2>3, <2>4 DEF BucketEnforces
  <1>5. CASE acl.canned # None
    <2>1. acl.canned \in CannedFor["bucket"] /\ \A p \in Permissions : ~Granted(acl, p, id)
      BY <1>5, NobodyListed DEF AclFits
    <2> DEFINE told == HandleCannedGrant(acl, s.bucket.owner, s.bucket.owner)
    <2>2. Told(s.bucket.acl, s.bucket.owner, s.bucket.owner) = told
      BY <1>5 DEF Told
    <2>4. CheckBucketAcls(s.bucket, q, id) <=>
              \/ s.bucket.owner = id
              \/ q = "bucketGet" /\ acl.canned \in {"public-read", "public-read-write"}
              \/ q = "bucketGet" /\ acl.canned = "authenticated-read" /\ id # AllUsers
              \/ q = "objectPut" /\ acl.canned = "public-read-write"
              \/ q = "bucketGetACL" /\ acl.canned = "log-delivery-write" /\ id = LogGroup
      <3>1. "READ" \in Permissions /\ "READ_ACP" \in Permissions /\ "WRITE" \in Permissions /\ "WRITE_ACP" \in Permissions
        BY DEF Permissions
      <3> HIDE DEF acl, id
      <3>2. QED
        BY <2>1, <3>1 DEF CheckBucketAcls, acl
    <2>5. Covers(told, Needs[q], id) <=>
              \/ id = "bucketOwner"
              \/ q = "bucketGet" /\ acl.canned \in {"public-read", "public-read-write"}
              \/ q = "bucketGet" /\ acl.canned = "authenticated-read" /\ id # AllUsers
              \/ q = "objectPut" /\ acl.canned = "public-read-write"
              \/ q \in {"bucketGetACL", "objectPut"} /\ acl.canned = "log-delivery-write" /\ id = LogGroup
      <3> HIDE DEF acl, id
      <3>1. \A need : Covers(told, need, id) <=>
              \/ CoveredBy("FULL_CONTROL", AsAccount("bucketOwner"), need, id)
              \/ /\ acl.canned \in {"public-read", "public-read-write"}
                 /\ CoveredBy("READ", AllUsers, need, id)
              \/ /\ acl.canned = "public-read-write"
                 /\ CoveredBy("WRITE", AllUsers, need, id)
              \/ /\ acl.canned = "authenticated-read"
                 /\ CoveredBy("READ", AuthUsers, need, id)
              \/ /\ acl.canned = "log-delivery-write"
                 /\ CoveredBy("WRITE", LogGroup, need, id) \/ CoveredBy("READ_ACP", LogGroup, need, id)
        <4>1. CASE acl.canned = "private"
          BY <4>1, CoveredIs DEF HandleCannedGrant
        <4>2. CASE acl.canned = "public-read"
          BY <4>2, CoveredIs DEF HandleCannedGrant
        <4>3. CASE acl.canned = "public-read-write"
          BY <4>3, CoveredIs DEF HandleCannedGrant
        <4>4. CASE acl.canned = "authenticated-read"
          BY <4>4, CoveredIs DEF HandleCannedGrant
        <4>5. CASE acl.canned = "log-delivery-write"
          BY <4>5, CoveredIs DEF HandleCannedGrant
        <4>6. QED
          BY <4>1, <4>2, <4>3, <4>4, <4>5, <2>1 DEF CannedFor
      <3> HIDE DEF told
      <3>2. QED
        BY <2>1, <1>1, <3>1 DEF CoveredBy, AsAccount, Needs, CannedFor, AccessIds, Accounts, AllUsers, AuthUsers, LogGroup, Service
    <2>6. ToldOnly(acl, q, id) <=> q = "objectPut" /\ acl.canned = "log-delivery-write" /\ id = LogGroup
      BY DEF ToldOnly
    <2>7. id = LogGroup => id # "bucketOwner" /\ ~IsServiceAccount(id) /\ id # AllUsers
      BY DEF LogGroup, IsServiceAccount, Service, AllUsers
    <2>8. BucketEnforces(s, told, q, who) <=>
              (IsServiceAccount(id) \/ CheckBucketAcls(s.bucket, q, id) <=>
                  /\ id = "bucketOwner" \/ IsServiceAccount(id) \/ Covers(told, Needs[q], id)
                  /\ ~ToldOnly(acl, q, id))
      BY <1>3 DEF BucketEnforces
    <2> HIDE DEF told, acl, id
    <2>9. BucketEnforces(s, told, q, who)
      BY <2>4, <2>5, <2>6, <2>7, <2>8
    <2>10. QED
      BY <2>2, <2>9
  <1>6. QED
    BY <1>4, <1>5

\* The same of an object, whose owner may be anonymous.
LEMMA ToldOfObject ==
    ASSUME NEW s, s.policy = <<>>, s.bucket.owner = "bucketOwner", s.object.owner \in AccessIds,
           s.object.acl # None, AclFits("object", s.object.acl),
           NEW who \in Requesters, NEW q \in {"objectGet", "objectGetACL", "objectPutACL"}
    PROVE  ObjectEnforces(s, Told(s.object.acl, s.object.owner, s.bucket.owner), q, who)
  <1> DEFINE acl == s.object.acl
             id == who.id
  <1>1. id \in AccessIds
    BY RequesterIds
  <1>2. Needs[q] \in Permissions
    BY DEF Needs, Permissions
  <1>3. IsObjAuthorized(s, q, who) <=> IsServiceAccount(id) \/ CheckObjectAcls(s, q, id)
    BY DEF IsObjAuthorized, Decided, CheckObjectAcls
  <1>4. CASE acl.canned = None
    <2>1. Told(s.object.acl, s.object.owner, s.bucket.owner) = ListedGrants(acl)
      BY <1>4 DEF Told
    <2>2. Covers(ListedGrants(acl), Needs[q], id) <=> Granted(acl, Needs[q], id)
      BY <1>1, <1>2, ListedCovers DEF AclFits
    <2>3. CheckObjectAcls(s, q, id) <=>
              s.object.owner = id \/ Granted(acl, Needs[q], id) \/ AllowPublicReads(s, q)
      <3>1. acl.canned \notin CannedFor["object"]
        BY <1>4, AccessAssumption
      <3>2. QED
        BY <3>1 DEF CheckObjectAcls, ListAllows, Needs, CannedFor
    <2>4. QED
      BY <1>3, <2>1, <2>2, <2>3 DEF ObjectEnforces
  <1>5. CASE acl.canned # None
    <2>1. acl.canned \in CannedFor["object"] /\ \A p \in Permissions : ~Granted(acl, p, id)
      BY <1>5, NobodyListed DEF AclFits
    <2> DEFINE told == HandleCannedGrant(acl, s.object.owner, s.bucket.owner)
    <2>2. Told(s.object.acl, s.object.owner, s.bucket.owner) = told
      BY <1>5 DEF Told
    <2>3. CheckObjectAcls(s, q, id) <=>
              \/ s.object.owner = id
              \/ q = "objectGet" /\ acl.canned \in {"public-read", "public-read-write"}
              \/ q = "objectGet" /\ acl.canned = "authenticated-read" /\ id # AllUsers
              \/ q = "objectGet" /\ acl.canned = "bucket-owner-read" /\ id = "bucketOwner"
              \/ acl.canned = "bucket-owner-full-control" /\ id = "bucketOwner"
              \/ AllowPublicReads(s, q)
      <3>1. "READ" \in Permissions /\ "READ_ACP" \in Permissions /\ "WRITE" \in Permissions /\ "WRITE_ACP" \in Permissions
        BY DEF Permissions
      <3> HIDE DEF acl, id
      <3>2. QED
        BY <2>1, <3>1 DEF CheckObjectAcls, ListAllows, acl
    <2>4. Covers(told, Needs[q], id) <=>
              \/ id = s.object.owner
              \/ q = "objectGet" /\ acl.canned \in {"public-read", "public-read-write"}
              \/ q = "objectGet" /\ acl.canned = "authenticated-read" /\ id # AllUsers
              \/ q = "objectGet" /\ acl.canned = "bucket-owner-read" /\ id = "bucketOwner"
              \/ acl.canned = "bucket-owner-full-control" /\ id = "bucketOwner"
      <3> HIDE DEF acl, id
      <3>1. \A need : Covers(told, need, id) <=>
              \/ CoveredBy("FULL_CONTROL", AsAccount(s.object.owner), need, id)
              \/ /\ acl.canned \in {"public-read", "public-read-write"}
                 /\ CoveredBy("READ", AllUsers, need, id)
              \/ /\ acl.canned = "public-read-write"
                 /\ CoveredBy("WRITE", AllUsers, need, id)
              \/ /\ acl.canned = "authenticated-read"
                 /\ CoveredBy("READ", AuthUsers, need, id)
              \/ /\ acl.canned = "bucket-owner-read"
                 /\ CoveredBy("READ", "bucketOwner", need, id)
              \/ /\ acl.canned = "bucket-owner-full-control"
                 /\ CoveredBy("FULL_CONTROL", "bucketOwner", need, id)
        <4>1. CASE acl.canned = "private"
          BY <4>1, CoveredIs DEF HandleCannedGrant
        <4>2. CASE acl.canned = "public-read"
          BY <4>2, CoveredIs DEF HandleCannedGrant
        <4>3. CASE acl.canned = "public-read-write"
          BY <4>3, CoveredIs DEF HandleCannedGrant
        <4>4. CASE acl.canned = "authenticated-read"
          BY <4>4, CoveredIs DEF HandleCannedGrant
        <4>5. CASE acl.canned = "bucket-owner-read"
          BY <4>5, CoveredIs DEF HandleCannedGrant
        <4>6. CASE acl.canned = "bucket-owner-full-control"
          BY <4>6, CoveredIs DEF HandleCannedGrant
        <4>7. QED
          BY <4>1, <4>2, <4>3, <4>4, <4>5, <4>6, <2>1 DEF CannedFor
      <3> HIDE DEF told
      <3>2. QED
        BY <2>1, <1>1, <3>1 DEF CoveredBy, AsAccount, Needs, CannedFor, AccessIds, Accounts, AllUsers, AuthUsers, LogGroup, Service
    <2> HIDE DEF told
    <2>5. QED
      BY <1>3, <2>2, <2>3, <2>4 DEF ObjectEnforces
  <1>6. QED
    BY <1>4, <1>5

ItemFits(item, type, p) == item.type = type /\ item.permission = p

\* h is the list after each item.
ListedAfter(h, items, type, p) ==
    /\ h \in [0..Len(items) -> Seq(AclNames)]
    /\ GranteesOf(items, type, p) = h[Len(items)]
    /\ h[0] = <<>>
    /\ \A n \in 1..Len(items) :
          h[n] = IF ItemFits(items[n], type, p) THEN Append(h[n - 1], items[n].who) ELSE h[n - 1]

\* An item of a request names an account or a group, and a permission.
LEMMA ItemNames ==
    ASSUME NEW item \in Items
    PROVE  item.who \in AclNames /\ item.type \in {"email", "id", "uri"} /\ item.permission \in Permissions
  BY DEF Items, AclNames, Accounts, Groups

\* The list after each item.
LEMMA ItemSteps ==
    ASSUME NEW items \in Seq(Items), NEW type, NEW p
    PROVE  \E h : ListedAfter(h, items, type, p)
  <1> DEFINE V == Seq(AclNames)
             F(h) == [n \in 0..Len(items) |->
                        IF n = 0 THEN <<>>
                        ELSE IF items[n].type = type /\ items[n].permission = p
                        THEN Append(h[n - 1], items[n].who) ELSE h[n - 1]]
             step == [n \in 1..Len(items) |-> [v \in V |->
                        IF items[n].type = type /\ items[n].permission = p
                        THEN Append(v, items[n].who) ELSE v]]
             G == CHOOSE h : h = F(h)
  <1>1. step \in [1..Len(items) -> [V -> V]]
    <2>1. ASSUME NEW n \in 1..Len(items), NEW v \in V
          PROVE  (IF items[n].type = type /\ items[n].permission = p
                  THEN Append(v, items[n].who) ELSE v) \in V
      <3>1. items[n].who \in AclNames
        BY ItemNames
      <3>2. Append(v, items[n].who) \in V
        BY <3>1
      <3>3. QED
        BY <3>2
    <2>2. QED
      BY <2>1
  <1>2. Len(items) \in Nat /\ <<>> \in V
    OBVIOUS
  <1>3. PICK h \in [0..Len(items) -> V] :
               h[0] = <<>> /\ \A n \in 1..Len(items) : h[n] = step[n][h[n - 1]]
    <2>1. PICK W, b, st : W = V /\ b = <<>> /\ st = step
      BY Zenon
    <2> HIDE DEF step, V
    <2>2. ASSUME NEW L \in Nat, L = Len(items)
          PROVE  \E h \in [0..L -> W] : h[0] = b /\ \A n \in 1..L : h[n] = st[n][h[n - 1]]
      <3>1. st \in [1..L -> [W -> W]] /\ b \in W
        BY <1>1, <1>2, <2>1, <2>2
      <3>2. QED
        BY ONLY L \in Nat, <3>1, Recursion
    <2>3. QED
      BY <2>1, <2>2, <1>2
  <1>4. h = F(h)
    <2>1. ASSUME NEW n \in 0..Len(items), n # 0
          PROVE  h[n] = F(h)[n]
      <3>1. n \in 1..Len(items) /\ n - 1 \in 0..Len(items)
        BY <2>1, <1>2
      <3>2. h[n - 1] \in V
        BY <3>1, <1>3
      <3>3. QED
        BY <1>3, <2>1, <3>1, <3>2
    <2>2. h[0] = F(h)[0]
      BY <1>3, <1>2
    <2>3. QED
      BY <2>1, <2>2, <1>3
  <1>5. G = F(G)
    <2> HIDE DEF F
    <2>1. QED
      BY <1>4
  <1>6. GranteesOf(items, type, p) = G[Len(items)]
    BY DEF GranteesOf
  <1> HIDE DEF G
  <1>7. G[0] = <<>> /\ \A n \in 1..Len(items) :
            G[n] = IF ItemFits(items[n], type, p) THEN Append(G[n - 1], items[n].who) ELSE G[n - 1]
    <2>1. PICK f : f = G
      OBVIOUS
    <2>2. f = [n \in 0..Len(items) |->
                        IF n = 0 THEN <<>>
                        ELSE IF items[n].type = type /\ items[n].permission = p
                        THEN Append(f[n - 1], items[n].who) ELSE f[n - 1]]
      BY <1>5, <2>1
    <2>3. f[0] = <<>>
      BY <2>2, <1>2
    <2>4. ASSUME NEW n \in 1..Len(items)
          PROVE  f[n] = IF ItemFits(items[n], type, p) THEN Append(f[n - 1], items[n].who) ELSE f[n - 1]
      <3>1. n \in 0..Len(items) /\ n # 0
        BY <1>2
      <3>2. QED
        BY <2>2, <3>1, Zenon DEF ItemFits
    <2>5. QED
      BY <2>1, <2>3, <2>4
  <1>8. G \in [0..Len(items) -> V]
    <2> DEFINE S == {k \in 0..Len(items) : G[k] \in V}
    <2>1. 0 \in S
      <3>1. 0 \in 0..Len(items)
        BY <1>2
      <3>2. G[0] \in V
        BY <1>7, <1>2, Zenon
      <3>3. QED
        BY <3>1, <3>2, Zenon
    <2>2. ASSUME NEW k \in Nat, k < Len(items), k \in S PROVE k + 1 \in S
      <3>1. k + 1 \in 1..Len(items) /\ (k + 1) - 1 = k
        BY <2>2
      <3>2. items[k + 1].who \in AclNames
        BY <3>1, ItemNames
      <3>3. Append(G[k], items[k + 1].who) \in V
        BY <3>2, <2>2
      <3>4. G[k + 1] = IF ItemFits(items[k + 1], type, p) THEN Append(G[k], items[k + 1].who) ELSE G[k]
        BY <3>1, <1>7
      <3>5. G[k + 1] \in V
        BY <3>3, <3>4, <2>2
      <3>6. QED
        BY <3>1, <3>5
    <2> HIDE DEF S
    <2>3. 0..Len(items) \subseteq S
      BY <2>1, <2>2, <1>2, StepByStep
    <2>4. \A k \in 0..Len(items) : G[k] \in V
      BY <2>3 DEF S
    <2>5. QED
      BY <2>4, <1>5
  <1>9. ListedAfter(G, items, type, p)
    BY <1>6, <1>7, <1>8 DEF ListedAfter
  <1>10. QED
    BY <1>9

Unrepeated(list) == \A i, j \in DOMAIN list : list[i] = list[j] => i = j
\* No item says what another says.
ItemsApart(items) == \A i, j \in DOMAIN items : GrantOf(items[i]) = GrantOf(items[j]) => i = j

\* The list has the grantees of the items, each once.
LEMMA GranteesListed ==
    ASSUME NEW items \in Seq(Items), ItemsApart(items), NEW type, NEW p
    PROVE  LET list == GranteesOf(items, type, p)
           IN  /\ list \in Seq(AclNames) /\ Unrepeated(list)
               /\ \A x : Holds(list, x) <=>
                     \E n \in DOMAIN items : ItemFits(items[n], type, p) /\ items[n].who = x
  <1>1. PICK h : ListedAfter(h, items, type, p)
    BY ItemSteps
  <1>2. /\ h \in [0..Len(items) -> Seq(AclNames)]
        /\ GranteesOf(items, type, p) = h[Len(items)]
        /\ h[0] = <<>>
        /\ \A n \in 1..Len(items) :
              h[n] = IF ItemFits(items[n], type, p) THEN Append(h[n - 1], items[n].who) ELSE h[n - 1]
    BY <1>1 DEF ListedAfter
  <1>3. Len(items) \in Nat /\ DOMAIN items = 1..Len(items)
    OBVIOUS
  <1>4. \A n, m \in DOMAIN items : ItemFits(items[n], type, p) /\ ItemFits(items[m], type, p)
                                     /\ items[n].who = items[m].who => n = m
    BY DEF ItemsApart, GrantOf, Grant, ItemFits
  <1> DEFINE Right(k) == /\ Unrepeated(h[k])
                         /\ \A x : Holds(h[k], x) <=>
                               \E n \in 1..k : ItemFits(items[n], type, p) /\ items[n].who = x
             S == {k \in 0..Len(items) : Right(k)}
  <1>5. 0 \in S
    BY <1>2, <1>3 DEF Unrepeated, Holds
  <1>6. ASSUME NEW k \in Nat, k < Len(items), k \in S PROVE k + 1 \in S
    <2>1. k + 1 \in 1..Len(items) /\ (k + 1) - 1 = k /\ k \in 0..Len(items)
      BY <1>3, <1>6
    <2>2. h[k] \in Seq(AclNames) /\ Right(k)
      BY <1>2, <1>6, <2>1
    <2> DEFINE list == h[k]
               new == items[k + 1].who
    <2>3. \A n \in 1..(k + 1) : n \in 1..k \/ n = k + 1
      BY <2>1
    <2>4. CASE ~ItemFits(items[k + 1], type, p)
      <3>1. h[k + 1] = h[k]
        BY <2>1, <2>4, <1>2
      <3>2. QED
        BY <2>1, <2>2, <2>3, <2>4, <3>1
    <2>5. CASE ItemFits(items[k + 1], type, p)
      <3>1. h[k + 1] = Append(list, new)
        BY <2>1, <2>5, <1>2
      <3>2. ~Holds(list, new)
        <4>1. ASSUME NEW n \in 1..k, ItemFits(items[n], type, p), items[n].who = new PROVE FALSE
          <5>1. n \in DOMAIN items /\ k + 1 \in DOMAIN items /\ n # k + 1
            BY <1>3, <2>1
          <5>2. QED
            BY <1>4, <2>5, <4>1, <5>1
        <4>2. QED
          BY <2>2, <4>1
      <3>3. /\ new \in AclNames
            /\ DOMAIN Append(list, new) = 1..(Len(list) + 1)
            /\ DOMAIN list = 1..Len(list)
            /\ \A i \in 1..Len(list) : Append(list, new)[i] = list[i]
            /\ Append(list, new)[Len(list) + 1] = new
            /\ Len(list) \in Nat
        BY <2>1, <2>2, ItemNames
      <3> DEFINE longer == Append(list, new)
      <3> HIDE DEF longer, new, list
      <3>4. \A x : Holds(longer, x) <=> Holds(list, x) \/ x = new
        BY <3>3 DEF Holds, longer
      <3>5. Unrepeated(longer)
        <4>1. Unrepeated(list)
          BY <2>2 DEF list
        <4>2. QED
          BY <3>2, <3>3, <4>1 DEF Holds, Unrepeated, longer
      <3>6. \A x : Holds(list, x) <=> \E n \in 1..k : ItemFits(items[n], type, p) /\ items[n].who = x
        BY <2>2 DEF list
      <3>7. \A x : Holds(longer, x) <=> \E n \in 1..(k + 1) : ItemFits(items[n], type, p) /\ items[n].who = x
        <4>1. 1..k \subseteq 1..(k + 1) /\ k + 1 \in 1..(k + 1)
          BY <2>1
        <4>2. QED
          BY <3>4, <3>6, <2>3, <2>5, <4>1 DEF new
      <3>8. Right(k + 1)
        BY <3>1, <3>5, <3>7 DEF longer
      <3>9. QED
        BY <3>8, <2>1
    <2>6. QED
      BY <2>4, <2>5
  <1> HIDE DEF S
  <1>7. 0..Len(items) \subseteq S
    BY <1>3, <1>5, <1>6, StepByStep
  <1>8. Len(items) \in 0..Len(items) /\ Len(items) \in S
    BY <1>3, <1>7
  <1>9. Right(Len(items)) /\ h[Len(items)] \in Seq(AclNames)
    BY <1>8, <1>2 DEF S
  <1>10. QED
    BY <1>2, <1>3, <1>9

\* Lists with nobody in common, one after the other.
LEMMA JoinedLists ==
    ASSUME NEW a \in Seq(AclNames), NEW b \in Seq(AclNames), Unrepeated(a), Unrepeated(b),
           \A x : ~(Holds(a, x) /\ Holds(b, x))
    PROVE  /\ a \o b \in Seq(AclNames) /\ Unrepeated(a \o b)
           /\ \A x : Holds(a \o b, x) <=> Holds(a, x) \/ Holds(b, x)
  <1> DEFINE c == a \o b
  <1>1. /\ c \in Seq(AclNames) /\ Len(c) = Len(a) + Len(b)
        /\ DOMAIN a = 1..Len(a) /\ DOMAIN b = 1..Len(b) /\ DOMAIN c = 1..(Len(a) + Len(b))
        /\ Len(a) \in Nat /\ Len(b) \in Nat
        /\ \A i \in 1..(Len(a) + Len(b)) : c[i] = IF i <= Len(a) THEN a[i] ELSE b[i - Len(a)]
    OBVIOUS
  <1> HIDE DEF c
  <1>2. ASSUME NEW x, Holds(a, x) PROVE Holds(c, x)
    BY <1>1, <1>2 DEF Holds
  <1>3. ASSUME NEW x, Holds(b, x) PROVE Holds(c, x)
    <2>1. PICK i \in 1..Len(b) : b[i] = x
      BY <1>1, <1>3 DEF Holds
    <2>2. i + Len(a) \in DOMAIN c /\ c[i + Len(a)] = x
      BY <1>1, <2>1
    <2>3. QED
      BY <2>2 DEF Holds
  <1>4. ASSUME NEW i \in DOMAIN c PROVE Holds(a, c[i]) \/ Holds(b, c[i])
    <2>1. CASE i <= Len(a)
      BY <1>1, <1>4, <2>1 DEF Holds
    <2>2. CASE i > Len(a)
      <3>1. i - Len(a) \in DOMAIN b /\ c[i] = b[i - Len(a)]
        BY <1>1, <1>4, <2>2
      <3>2. QED
        BY <3>1 DEF Holds
    <2>3. QED
      BY <2>1, <2>2, <1>1
  <1>5. ASSUME NEW i \in DOMAIN c, NEW j \in DOMAIN c, c[i] = c[j] PROVE i = j
    <2>1. CASE i <= Len(a) /\ j <= Len(a)
      BY <1>1, <1>5, <2>1 DEF Unrepeated
    <2>2. CASE i > Len(a) /\ j > Len(a)
      <3>1. i - Len(a) \in DOMAIN b /\ j - Len(a) \in DOMAIN b /\ b[i - Len(a)] = b[j - Len(a)]
        BY <1>1, <1>5, <2>2
      <3>2. i - Len(a) = j - Len(a)
        BY <3>1 DEF Unrepeated
      <3>3. QED
        BY <3>2, <1>1, <1>5
    <2>3. CASE i <= Len(a) /\ j > Len(a)
      <3>1. i \in DOMAIN a /\ j - Len(a) \in DOMAIN b /\ a[i] = c[i] /\ b[j - Len(a)] = c[i]
        BY <1>1, <1>5, <2>3
      <3>2. QED
        BY <3>1 DEF Holds
    <2>4. CASE i > Len(a) /\ j <= Len(a)
      <3>1. j \in DOMAIN a /\ i - Len(a) \in DOMAIN b /\ a[j] = c[i] /\ b[i - Len(a)] = c[i]
        BY <1>1, <1>5, <2>4
      <3>2. QED
        BY <3>1 DEF Holds
    <2>5. QED
      BY <2>1, <2>2, <2>3, <2>4, <1>1
  <1>6. \A x : Holds(c, x) <=> Holds(a, x) \/ Holds(b, x)
    BY <1>2, <1>3, <1>4 DEF Holds
  <1>7. QED
    BY <1>1, <1>5, <1>6 DEF Unrepeated, c

\* The lists made of items are those of the grants that the items say, each once.
LEMMA SortedLists ==
    ASSUME NEW items \in Seq(Items), ItemsApart(items), NEW kind
    PROVE  LET lists == SortHeaderGrants(kind, items)
           IN  /\ lists \in [Permissions -> Seq(AclNames)]
               /\ \A p \in Permissions : Unrepeated(lists[p])
               /\ \A p \in Permissions, x \in AclNames : Holds(lists[p], x) <=>
                     /\ p \in GrantsFor[kind]
                     /\ \E n \in DOMAIN items : items[n].permission = p /\ items[n].who = x
  <1> DEFINE lists == SortHeaderGrants(kind, items)
  <1>1. ASSUME NEW p \in Permissions
        PROVE  /\ lists[p] \in Seq(AclNames) /\ Unrepeated(lists[p])
               /\ \A x \in AclNames : Holds(lists[p], x) <=>
                     /\ p \in GrantsFor[kind]
                     /\ \E n \in DOMAIN items : items[n].permission = p /\ items[n].who = x
    <2>1. CASE p \notin GrantsFor[kind]
      <3>1. lists[p] = <<>>
        BY <2>1 DEF SortHeaderGrants
      <3>2. QED
        BY <2>1, <3>1 DEF Holds, Unrepeated
    <2>2. CASE p \in GrantsFor[kind]
      <3> DEFINE e == GranteesOf(items, "email", p)
                 d == GranteesOf(items, "id", p)
                 u == GranteesOf(items, "uri", p)
      <3>1. lists[p] = e \o d \o u
        BY <2>2 DEF SortHeaderGrants
      <3>2. /\ e \in Seq(AclNames) /\ Unrepeated(e)
            /\ \A x : Holds(e, x) <=> \E n \in DOMAIN items : ItemFits(items[n], "email", p) /\ items[n].who = x
        BY GranteesListed
      <3>3. /\ d \in Seq(AclNames) /\ Unrepeated(d)
            /\ \A x : Holds(d, x) <=> \E n \in DOMAIN items : ItemFits(items[n], "id", p) /\ items[n].who = x
        BY GranteesListed
      <3>4. /\ u \in Seq(AclNames) /\ Unrepeated(u)
            /\ \A x : Holds(u, x) <=> \E n \in DOMAIN items : ItemFits(items[n], "uri", p) /\ items[n].who = x
        BY GranteesListed
      <3> HIDE DEF e, d, u
      <3>5. ASSUME NEW n \in DOMAIN items, NEW m \in DOMAIN items, items[n].permission = p,
                   items[m].permission = p, items[n].who = items[m].who
            PROVE  items[n].type = items[m].type
        <4>1. GrantOf(items[n]) = GrantOf(items[m])
          BY <3>5 DEF GrantOf
        <4>2. n = m
          BY <4>1 DEF ItemsApart
        <4>3. QED
          BY <4>2
      <3>6. /\ \A x : ~(Holds(e, x) /\ Holds(d, x))
            /\ \A x : ~(Holds(e, x) /\ Holds(u, x))
            /\ \A x : ~(Holds(d, x) /\ Holds(u, x))
        <4> DEFINE Has(type, x) == \E n \in DOMAIN items : ItemFits(items[n], type, p) /\ items[n].who = x
        <4>1. ASSUME NEW x, NEW s, NEW t, Has(s, x), Has(t, x) PROVE s = t
          <5>1. PICK n \in DOMAIN items : ItemFits(items[n], s, p) /\ items[n].who = x
            BY <4>1
          <5>2. PICK m \in DOMAIN items : ItemFits(items[m], t, p) /\ items[m].who = x
            BY <4>1
          <5>3. QED
            BY <3>5, <5>1, <5>2 DEF ItemFits
        <4>2. \A x : (Holds(e, x) <=> Has("email", x)) /\ (Holds(d, x) <=> Has("id", x))
                       /\ (Holds(u, x) <=> Has("uri", x))
          BY <3>2, <3>3, <3>4
        <4> HIDE DEF Has
        <4>3. QED
          BY <4>1, <4>2
      <3>7. /\ e \o d \in Seq(AclNames) /\ Unrepeated(e \o d)
            /\ \A x : Holds(e \o d, x) <=> Holds(e, x) \/ Holds(d, x)
        BY <3>2, <3>3, <3>6, JoinedLists
      <3>8. \A x : ~(Holds(e \o d, x) /\ Holds(u, x))
        BY <3>6, <3>7
      <3>9. /\ (e \o d) \o u \in Seq(AclNames) /\ Unrepeated((e \o d) \o u)
            /\ \A x : Holds((e \o d) \o u, x) <=> Holds(e \o d, x) \/ Holds(u, x)
        BY <3>4, <3>7, <3>8, JoinedLists
      <3>10. ASSUME NEW x
             PROVE  (Holds(e, x) \/ Holds(d, x) \/ Holds(u, x)) <=>
                       \E n \in DOMAIN items : items[n].permission = p /\ items[n].who = x
        <4>1. \A n \in DOMAIN items : items[n].type \in {"email", "id", "uri"}
          BY ItemNames
        <4>2. QED
          BY <3>2, <3>3, <3>4, <4>1 DEF ItemFits
      <3>11. QED
        BY <2>2, <3>1, <3>7, <3>9, <3>10
    <2>3. QED
      BY <2>1, <2>2
  <1>2. lists = [p \in Permissions |-> lists[p]]
    BY DEF SortHeaderGrants
  <1> HIDE DEF lists
  <1>3. lists \in [Permissions -> Seq(AclNames)]
    BY <1>1, <1>2
  <1>4. QED
    BY <1>1, <1>3 DEF lists

\* What a list says.
AclSays(acl) == [canned |-> acl.canned, grants |-> ListedGrants(acl)]
ListFits(kind, acl) == AclFits(kind, acl) /\ \A p \in Permissions : Unrepeated(acl.lists[p])

\* A grant is told when its list holds its grantee.
LEMMA ListedHolds ==
    ASSUME NEW acl \in AclSet, NEW p \in Permissions, NEW x
    PROVE  Grant(p, x) \in ListedGrants(acl) <=> Holds(acl.lists[p], x)
  <1>1. \A q, y : Grant(q, y) = Grant(p, x) => q = p /\ y = x
    BY DEF Grant
  <1>2. QED
    BY <1>1, ListedIs DEF Holds

\* The list that a request makes is well formed and says what the request wants.
LEMMA AclAsWanted ==
    ASSUME NEW kind \in {"bucket", "object"}, NEW body \in Bodies(kind)
    PROVE  LET acl == AclOf(kind, body)
           IN  /\ ListFits(kind, acl)
               /\ Wanted(kind, body) = AclSays(acl)
  <1> DEFINE acl == AclOf(kind, body)
  <1>0. kind \in {"bucket", "object"} => CannedFor[kind] \subseteq CannedFor["bucket"] \cup CannedFor["object"]
    OBVIOUS
  <1>00. NoGrants \in [Permissions -> Seq(AclNames)] /\ \A p \in Permissions : NoGrants[p] = <<>>
    BY DEF NoGrants
  <1>1. CASE \E c \in CannedFor[kind] : body = [canned |-> c, items |-> <<>>]
    <2>1. PICK c \in CannedFor[kind] : body = [canned |-> c, items |-> <<>>]
      BY <1>1
    <2>2. c # None /\ c \in CannedFor["bucket"] \cup CannedFor["object"]
      BY <1>0, AccessAssumption
    <2>3. acl = Canned(c)
      BY <2>1, <2>2 DEF AclOf
    <2>4. /\ acl \in AclSet
          /\ acl.canned = c /\ acl.lists = NoGrants
      BY <1>00, <2>2, <2>3 DEF Canned, AclSet
    <2>5. AclFits(kind, acl)
      BY <2>4 DEF AclFits
    <2> HIDE DEF acl
    <2>6. \A p \in Permissions : Unrepeated(acl.lists[p])
      BY <1>00, <2>4 DEF Unrepeated
    <2>7. ListedGrants(acl) = {}
      BY <2>4, <1>00, ListedIs
    <2>8. Wanted(kind, body) = [canned |-> c, grants |-> {}]
      <3>1. body.items = <<>> /\ body.canned = c
        BY <2>1
      <3>2. {GrantOf(body.items[i]) : i \in DOMAIN body.items} = {}
        BY <3>1
      <3>3. QED
        BY <3>1, <3>2 DEF Wanted
    <2>9. QED
      BY <2>4, <2>5, <2>6, <2>7, <2>8 DEF ListFits, AclSays, acl
  <1>2. CASE \E i : /\ body = [canned |-> None, items |-> i]
                    /\ i \in Seq(Items) /\ ItemsApart(i)
    <2>1. PICK items : /\ body = [canned |-> None, items |-> items]
                       /\ items \in Seq(Items) /\ ItemsApart(items)
      BY <1>2
    <2> DEFINE lists == SortHeaderGrants(kind, items)
    <2>2. acl = [canned |-> None, lists |-> lists, keys |-> 5]
      BY <2>1 DEF AclOf
    <2>3. /\ lists \in [Permissions -> Seq(AclNames)]
          /\ \A p \in Permissions : Unrepeated(lists[p])
          /\ \A p \in Permissions, x \in AclNames : Holds(lists[p], x) <=>
                     /\ p \in GrantsFor[kind]
                     /\ \E n \in DOMAIN items : items[n].permission = p /\ items[n].who = x
      BY <2>1, SortedLists
    <2> HIDE DEF lists
    <2>4. acl \in AclSet /\ acl.canned = None /\ acl.lists = lists
      BY <2>2, <2>3 DEF AclSet
    <2> HIDE DEF acl
    <2>5. ListFits(kind, acl)
      BY <2>3, <2>4 DEF ListFits, AclFits
    <2> DEFINE wanted == {GrantOf(items[i]) : i \in DOMAIN items}
                            \cap {Grant(p, g) : p \in GrantsFor[kind], g \in AclNames}
    <2>6. Wanted(kind, body) = [canned |-> None, grants |-> wanted]
      BY <2>1 DEF Wanted, AclNames
    <2>7. ASSUME NEW p \in Permissions, NEW x \in AclNames
          PROVE  Grant(p, x) \in wanted <=> Grant(p, x) \in ListedGrants(acl)
      <3>1. Grant(p, x) \in ListedGrants(acl) <=> Holds(lists[p], x)
        BY <2>4, ListedHolds
      <3>2. \A q, y : Grant(q, y) = Grant(p, x) => q = p /\ y = x
        BY DEF Grant
      <3>3. Grant(p, x) \in wanted <=>
                /\ \E i \in DOMAIN items : GrantOf(items[i]) = Grant(p, x)
                /\ p \in GrantsFor[kind]
        BY <3>2
      <3>4. \A i \in DOMAIN items : GrantOf(items[i]) = Grant(p, x)
                                      <=> items[i].permission = p /\ items[i].who = x
        BY <3>2 DEF GrantOf
      <3>5. QED
        BY <2>3, <3>1, <3>3, <3>4
    <2>8. \A g \in ListedGrants(acl) : \E p \in Permissions, x \in AclNames : g = Grant(p, x)
      <3>1. \A p \in Permissions : \A i \in DOMAIN acl.lists[p] : acl.lists[p][i] \in AclNames
        BY <2>4 DEF AclSet
      <3>2. QED
        BY <2>4, <3>1, ListedIs
    <2>9. \A g \in wanted : \E p \in Permissions, x \in AclNames : g = Grant(p, x)
      <3>1. GrantsFor[kind] \subseteq Permissions
        BY DEF GrantsFor
      <3>2. QED
        BY <3>1
    <2> HIDE DEF wanted
    <2>10. wanted = ListedGrants(acl)
      <3>1. ASSUME NEW g PROVE g \in wanted <=> g \in ListedGrants(acl)
        BY <2>7, <2>8, <2>9
      <3>2. QED
        BY <3>1
    <2>11. QED
      BY <2>4, <2>5, <2>6, <2>10 DEF AclSays, acl
  <1>3. QED
    <2>1. CASE body \in {[canned |-> c, items |-> <<>>] : c \in CannedFor[kind]}
      BY <2>1, <1>1
    <2>2. CASE body \notin {[canned |-> c, items |-> <<>>] : c \in CannedFor[kind]}
      <3>1. PICK i \in {s \in AX!BoundedSeq(Items, MaxItems) :
                            s # <<>> /\ (Len(s) = 2 => GrantOf(s[1]) # GrantOf(s[2]))} :
                   body = [canned |-> None, items |-> i]
        BY <2>2 DEF Bodies
      <3>2. i \in UNION {[1..m -> Items] : m \in 0..MaxItems}
        BY <3>1 DEF AX!BoundedSeq, AX!SeqOf
      <3>3. PICK m \in 0..MaxItems : i \in [1..m -> Items]
        BY <3>2
      <3>4. m \in 0..2
        BY <3>3 DEF MaxItems
      <3>5. i \in Seq(Items) /\ Len(i) = m /\ DOMAIN i = 1..m
        BY <3>3, <3>4
      <3>6. ItemsApart(i)
        BY <3>1, <3>4, <3>5 DEF ItemsApart
      <3>7. QED
        BY <1>2, <3>1, <3>5, <3>6
    <2>3. QED
      BY <2>1, <2>2

\* A list that isAclUnchanged takes for the same says the same.
LEMMA UnchangedSaysSame ==
    ASSUME NEW old, NEW new, ListFits("object", old), ListFits("object", new), IsAclUnchanged(old, new)
    PROVE  AclSays(old) = AclSays(new)
  <1>1. ASSUME NEW p \in Permissions, NEW x, Holds(new.lists[p], x) PROVE Holds(old.lists[p], x)
    <2> DEFINE a == old.lists[p]
               b == new.lists[p]
    <2>1. /\ a \in Seq(AclNames) /\ b \in Seq(AclNames) /\ Unrepeated(a)
          /\ Len(a) = Len(b) /\ \A i \in DOMAIN a : Holds(b, a[i])
      BY DEF ListFits, AclFits, AclSet, IsAclUnchanged
    <2> SUFFICES ASSUME ~Holds(a, x) PROVE FALSE
      OBVIOUS
    <2>2. PICK k \in DOMAIN b : b[k] = x
      BY <1>1 DEF Holds
    <2> HIDE DEF a, b
    <2>3. /\ Len(a) \in Nat /\ DOMAIN a = 1..Len(a) /\ DOMAIN b = 1..Len(a)
      BY <2>1
    <2>30. PICK L \in Nat : L = Len(a)
      BY <2>3
    <2> DEFINE T == (1..Len(a)) \ {k}
               f == [i \in 1..Len(a) |-> CHOOSE j \in T : b[j] = a[i]]
    <2>4. ASSUME NEW i \in 1..Len(a) PROVE f[i] \in T /\ b[f[i]] = a[i]
      <3>1. PICK j \in 1..Len(a) : b[j] = a[i]
        BY <2>1, <2>3 DEF Holds
      <3>2. j # k
        BY <2>2, <2>3, <3>1 DEF Holds
      <3>3. \E n \in T : b[n] = a[i]
        BY <3>1, <3>2
      <3>4. QED
        BY <3>3
    <2>5. f \in [1..Len(a) -> T]
      BY <2>4
    <2>6. IsFiniteSet(1..Len(a)) /\ Cardinality(1..Len(a)) = Len(a)
      <3>1. IsFiniteSet(1..L) /\ Cardinality(1..L) = IF 1 > L THEN 0 ELSE L - 1 + 1
        BY ONLY L \in Nat, FS_Interval
      <3>2. QED
        BY <2>30, <3>1
    <2>7. IsFiniteSet(T) /\ Cardinality(T) < Cardinality(1..Len(a))
      <3>1. \A S : IsFiniteSet(S) /\ k \in S => IsFiniteSet(S \ {k}) /\ Cardinality(S \ {k}) = Cardinality(S) - 1
        BY FS_RemoveElement
      <3>2. k \in 1..Len(a)
        BY <2>2, <2>3
      <3>3. IsFiniteSet(T) /\ Cardinality(T) = Cardinality(1..Len(a)) - 1
        BY <2>6, <3>1, <3>2
      <3>4. QED
        BY <2>3, <2>6, <3>3
    <2> HIDE DEF f, T
    <2>8. PICK i, j \in 1..Len(a) : i # j /\ f[i] = f[j]
      BY <2>5, <2>6, <2>7, FS_PigeonHole
    <2>9. QED
      BY <2>1, <2>3, <2>4, <2>8 DEF Unrepeated
  <1>2. ASSUME NEW p \in Permissions, NEW x, Holds(old.lists[p], x) PROVE Holds(new.lists[p], x)
    BY <1>2 DEF IsAclUnchanged, Holds
  <1>3. ListedGrants(old) = ListedGrants(new)
    <2>1. old \in AclSet /\ new \in AclSet
      BY DEF ListFits, AclFits
    <2>2. ASSUME NEW g PROVE g \in ListedGrants(old) <=> g \in ListedGrants(new)
      <3>1. g \in ListedGrants(old) <=> \E p \in Permissions : \E i \in DOMAIN old.lists[p] : g = Grant(p, old.lists[p][i])
        BY <2>1, ListedIs
      <3>2. g \in ListedGrants(new) <=> \E p \in Permissions : \E i \in DOMAIN new.lists[p] : g = Grant(p, new.lists[p][i])
        BY <2>1, ListedIs
      <3>3. QED
        BY <1>1, <1>2, <3>1, <3>2 DEF Holds
    <2>3. QED
      BY <2>2
  <1>4. QED
    BY <1>3 DEF AclSays, IsAclUnchanged

\* Only of an object the list may be missing.
RecordFits(kind, record) ==
    /\ record = [owner |-> record.owner, acl |-> record.acl]
    /\ (record.acl = None /\ kind = "object") \/ ListFits(kind, record.acl)
    /\ record.owner \in AccessIds
    /\ kind = "bucket" => record.owner = "bucketOwner"

StoreFits(s) ==
    /\ s = [bucket |-> s.bucket, object |-> s.object, policy |-> s.policy,
            publicRead |-> s.publicRead, asked |-> s.asked]
    /\ s.asked = [bucket |-> s.asked.bucket, object |-> s.asked.object]
    /\ RecordFits("bucket", s.bucket)
    /\ RecordFits("object", s.object)
    /\ s.policy \in Seq(Statements)

\* A request that is to write a list: the list says what was wanted.
PutsAcl(c) ==
    /\ c = [op |-> c.op, record |-> c.record, acl |-> c.acl, wanted |-> c.wanted]
    /\ c.op \in {"bucket", "object"}
    /\ RecordFits(c.op, c.record)
    /\ ListFits(c.op, c.acl)
    /\ c.wanted = AclSays(c.acl)

\* A request that was told a list.
WasTold(c, policy) ==
    /\ c.op \in {"bucketGetACL", "objectGetACL"}
    /\ StoreFits(c.of)
    /\ c.of.policy = policy
    /\ c.op = "bucketGetACL" => c.told = Told(c.of.bucket.acl, c.of.bucket.owner, c.of.bucket.owner)
    /\ c.op = "objectGetACL" => /\ c.of.object.acl # None
                                /\ c.told = Told(c.of.object.acl, c.of.object.owner, c.of.bucket.owner)

PutsList(r) == pc[r] \in {"getCanonicalIds", "putACL"}

AccessInv ==
    /\ pc \in [Reqs -> {"idle", "getCanonicalIds", "putACL", "ok", "failed"}]
    /\ ctx = [r \in Reqs |-> ctx[r]]
    /\ StoreFits(store)
    /\ \A r \in Reqs : PutsList(r) => PutsAcl(ctx[r])
    /\ \A r \in Reqs : ctx[r] = None \/ PutsAcl(ctx[r]) \/ WasTold(ctx[r], store.policy)

\* What is stored says what was asked, as far as requests have written, and the
\* request that runs is the only one.
AclAskedInv ==
    scene.sequential =>
        /\ \A r, q \in Reqs : Running(r) /\ Running(q) => r = q
        /\ \A r \in Reqs : PutsList(r) => ctx[r].record = store[ctx[r].op]
        /\ store.asked.bucket # None => store.asked.bucket = AclSays(store.bucket.acl)
        /\ store.asked.object # None => store.asked.object = AclSays(store.object.acl)

\* The invariants give the properties.
LEMMA AccessHolds ==
    ASSUME AccessInv, AclAskedInv
    PROVE  AccessIsAsAsked
  <1>1. DenyStands
    BY DenyHolds DEF AccessInv, StoreFits
  <1>2. AclAsAsked
    BY DEF AclAsAsked, AclAskedInv, AclSays
  <1>3. ToldIsEnforced
    <2> SUFFICES ASSUME store.policy = <<>>, NEW r \in Reqs, ctx[r] # None, NEW who \in Requesters
                 PROVE  /\ ctx[r].op = "bucketGetACL" =>
                              \A q \in {"bucketGet", "bucketGetACL", "bucketPutACL", "objectPut"} :
                                  BucketEnforces(ctx[r].of, ctx[r].told, q, who)
                        /\ ctx[r].op = "objectGetACL" =>
                              \A q \in {"objectGet", "objectGetACL", "objectPutACL"} :
                                  ObjectEnforces(ctx[r].of, ctx[r].told, q, who)
      BY DEF ToldIsEnforced, BucketEnforces, ObjectEnforces
    <2> DEFINE s == ctx[r].of
    <2>1. PutsAcl(ctx[r]) \/ WasTold(ctx[r], <<>>)
      BY DEF AccessInv
    <2>2. CASE PutsAcl(ctx[r])
      BY <2>2 DEF PutsAcl
    <2>3. CASE WasTold(ctx[r], <<>>)
      <3>1. /\ s.policy = <<>> /\ s.bucket.owner = "bucketOwner"
            /\ s.object.owner \in AccessIds
            /\ AclFits("bucket", s.bucket.acl)
            /\ s.object.acl # None => AclFits("object", s.object.acl)
        BY <2>3 DEF WasTold, StoreFits, RecordFits, ListFits
      <3>2. ASSUME ctx[r].op = "bucketGetACL",
                   NEW q \in {"bucketGet", "bucketGetACL", "bucketPutACL", "objectPut"}
            PROVE  BucketEnforces(s, ctx[r].told, q, who)
        <4>1. ctx[r].told = Told(s.bucket.acl, s.bucket.owner, s.bucket.owner)
          BY <2>3, <3>2 DEF WasTold
        <4> HIDE DEF s
        <4>2. QED
          BY <3>1, <4>1, ToldOfBucket
      <3>3. ASSUME ctx[r].op = "objectGetACL",
                   NEW q \in {"objectGet", "objectGetACL", "objectPutACL"}
            PROVE  ObjectEnforces(s, ctx[r].told, q, who)
        <4>1. s.object.acl # None /\ ctx[r].told = Told(s.object.acl, s.object.owner, s.bucket.owner)
          BY <2>3, <3>3 DEF WasTold
        <4> HIDE DEF s
        <4>2. QED
          BY <3>1, <4>1, ToldOfObject
      <3>4. QED
        BY <3>2, <3>3
    <2>4. QED
      BY <2>1, <2>2, <2>3
  <1>4. QED
    BY <1>1, <1>2, <1>3 DEF AccessIsAsAsked

\* The list that a bucket starts with is well formed.
LEMMA CannedFits ==
    ASSUME NEW kind \in {"bucket", "object"}
    PROVE  ListFits(kind, Canned("private"))
  <1>1. NoGrants \in [Permissions -> Seq(AclNames)] /\ \A p \in Permissions : NoGrants[p] = <<>>
    BY DEF NoGrants
  <1>2. "private" \in CannedFor["bucket"] /\ "private" \in CannedFor["object"]
    BY DEF CannedFor
  <1>3. Canned("private") \in AclSet /\ Canned("private").canned = "private" /\ Canned("private").lists = NoGrants
    BY <1>1, <1>2 DEF AclSet, Canned
  <1>4. AclFits(kind, Canned("private"))
    BY <1>2, <1>3 DEF AclFits
  <1>5. QED
    BY <1>1, <1>3, <1>4 DEF ListFits, Unrepeated

\* The invariants hold at first.
LEMMA AccessInitially ==
    ASSUME AccessInit
    PROVE  AccessInv /\ AclAskedInv
  <1>1. PICK owner \in {"bucketOwner", "objectOwner"},
             policy \in IF "policies" \in scene.ops THEN AX!BoundedSeq(Statements, 2) ELSE {<<>>},
             publicRead \in BOOLEAN, acl \in {Canned("private"), None} :
        store = [bucket |-> [owner |-> "bucketOwner", acl |-> Canned("private")],
                 object |-> [owner |-> owner, acl |-> acl],
                 policy |-> policy, publicRead |-> publicRead,
                 asked |-> [bucket |-> None, object |-> None]]
    BY DEF AccessInit
  <1>2. policy \in Seq(Statements)
    <2>1. CASE policy \in AX!BoundedSeq(Statements, 2)
      <3>1. policy \in UNION {[1..m -> Statements] : m \in 0..2}
        BY <2>1 DEF AX!BoundedSeq, AX!SeqOf
      <3>2. PICK m \in 0..2 : policy \in [1..m -> Statements]
        BY <3>1
      <3>3. QED
        BY <3>2
    <2>2. CASE policy = <<>>
      BY <2>2
    <2>3. QED
      BY <2>1, <2>2
  <1>3. StoreFits(store)
    <2>1. RecordFits("bucket", [owner |-> "bucketOwner", acl |-> Canned("private")])
      BY CannedFits DEF RecordFits, AccessIds, Accounts
    <2>2. RecordFits("object", [owner |-> owner, acl |-> acl])
      BY CannedFits DEF RecordFits, AccessIds, Accounts
    <2>3. QED
      BY <1>1, <1>2, <2>1, <2>2 DEF StoreFits
  <1>4. /\ pc = [r \in Reqs |-> "idle"] /\ ctx = [r \in Reqs |-> None]
        /\ store.asked = [bucket |-> None, object |-> None]
    BY <1>1 DEF AccessInit
  <1>5. QED
    BY <1>3, <1>4 DEF AccessInv, AclAskedInv, PutsList, Running

\* A step that only moves r on.
LEMMA AccessMoves ==
    ASSUME AccessInv, AclAskedInv, scene' = scene, NEW r \in Reqs,
           UNCHANGED <<store, ctx>>,
           NEW next, pc' = [pc EXCEPT ![r] = next],
           next = "failed" \/ (next = "putACL" /\ PutsList(r))
    PROVE  AccessInv' /\ AclAskedInv'
  <1>1. pc' \in [Reqs -> {"idle", "getCanonicalIds", "putACL", "ok", "failed"}]
    BY DEF AccessInv
  <1>2. \A x \in Reqs : pc'[x] = IF x = r THEN next ELSE pc[x]
    BY DEF AccessInv
  <1>3. \A x \in Reqs : PutsList(x)' => PutsList(x)
    BY <1>2 DEF PutsList
  <1>4. \A x \in Reqs : Running(x)' => Running(x)
    BY <1>2 DEF Running, PutsList
  <1>5. AccessInv'
    BY <1>1, <1>3 DEF AccessInv
  <1>6. AclAskedInv'
    BY <1>3, <1>4 DEF AclAskedInv
  <1>7. QED
    BY <1>5, <1>6

\* A request for a new list is authorized and read.
LEMMA AccessPuts ==
    ASSUME AccessInv, AclAskedInv, scene' = scene, NEW r \in Reqs, NEW kind \in {"bucket", "object"},
           NEW op, Sent(r, op), NEW body \in Bodies(kind), NEW authorized,
           PutACL(r, kind, store[kind], body, authorized)
    PROVE  AccessInv' /\ AclAskedInv'
  <1>1. CASE Refuse(r)
    BY <1>1, AccessMoves DEF Refuse, Goto
  <1>2. CASE Carry(r, [op |-> kind, record |-> store[kind], acl |-> AclOf(kind, body),
                       wanted |-> Wanted(kind, body)])
             /\ Goto(r, IF \E i \in DOMAIN body.items : body.items[i].type = "email"
                        THEN "getCanonicalIds" ELSE "putACL")
             /\ UNCHANGED store
    <2> DEFINE next == IF \E i \in DOMAIN body.items : body.items[i].type = "email"
                       THEN "getCanonicalIds" ELSE "putACL"
               acl == AclOf(kind, body)
               c == [op |-> kind, record |-> store[kind], acl |-> acl, wanted |-> Wanted(kind, body)]
    <2>1. next \in {"getCanonicalIds", "putACL"} /\ pc' = [pc EXCEPT ![r] = next]
      BY <1>2 DEF Goto
    <2>2. ctx' = [ctx EXCEPT ![r] = c] /\ store' = store
      BY <1>2 DEF Carry
    <2>3. ListFits(kind, acl) /\ Wanted(kind, body) = AclSays(acl)
      BY AclAsWanted
    <2>4. RecordFits(kind, store[kind])
      BY DEF AccessInv, StoreFits
    <2> HIDE DEF next, acl
    <2>5. PutsAcl(c) /\ c.op = kind /\ c.record = store[kind]
      BY <2>3, <2>4 DEF PutsAcl
    <2> HIDE DEF c
    <2>6. \A x \in Reqs : /\ pc'[x] = IF x = r THEN next ELSE pc[x]
                          /\ ctx'[x] = IF x = r THEN c ELSE ctx[x]
      BY <2>1, <2>2 DEF AccessInv
    <2>7. pc' \in [Reqs -> {"idle", "getCanonicalIds", "putACL", "ok", "failed"}]
      BY <2>1 DEF AccessInv
    <2>8. ctx' = [x \in Reqs |-> ctx'[x]]
      BY <2>2 DEF AccessInv
    <2>9. \A x \in Reqs : PutsList(x)' => x = r \/ PutsList(x)
      BY <2>6 DEF PutsList
    <2>10. AccessInv'
      BY <2>2, <2>5, <2>6, <2>7, <2>8, <2>9 DEF AccessInv
    <2>11. ASSUME scene.sequential PROVE \A x \in Reqs : Running(x)' => x = r
      <3>1. \A x \in Reqs : ~Running(x)
        BY <2>11 DEF Sent, Quiet
      <3>2. QED
        BY <2>6, <3>1 DEF Running
    <2>12. AclAskedInv'
      BY <2>2, <2>5, <2>6, <2>9, <2>11 DEF AclAskedInv
    <2>13. QED
      BY <2>10, <2>12
  <1>3. QED
    BY <1>1, <1>2 DEF PutACL

\* A list is written, unless it is an object's that did not change.
LEMMA AccessWrites ==
    ASSUME AccessInv, AclAskedInv, scene' = scene, NEW r \in Reqs, AddACL(r)
    PROVE  AccessInv' /\ AclAskedInv'
  <1> DEFINE c == ctx[r]
             unchanged == c.op = "object" /\ IsAclUnchanged(c.record.acl, c.acl)
             new == [c.record EXCEPT !.acl = c.acl]
  <1>1. /\ pc[r] = "putACL" /\ PutsAcl(c) /\ PutsList(r) /\ StoreFits(store) /\ c.record.acl # None
    BY DEF AddACL, AccessInv, PutsList
  <1>2. store' = [store EXCEPT ![c.op] = IF unchanged THEN @ ELSE new, !.asked[c.op] = c.wanted]
    BY DEF AddACL
  <1>3. pc' = [pc EXCEPT ![r] = "ok"] /\ ctx' = ctx
    BY DEF AddACL, Goto
  <1>4. RecordFits(c.op, new) /\ new.acl = c.acl /\ c.op \in {"bucket", "object"} /\ c.wanted = AclSays(c.acl)
    <2>1. c.record = [owner |-> c.record.owner, acl |-> c.record.acl]
      BY <1>1 DEF PutsAcl, RecordFits
    <2>2. new = [owner |-> c.record.owner, acl |-> c.acl]
      BY <2>1
    <2>3. QED
      BY <1>1, <2>2 DEF PutsAcl, RecordFits
  <1>5. unchanged => c.op = "object" /\ AclSays(c.record.acl) = AclSays(c.acl)
    BY <1>1, UnchangedSaysSame DEF PutsAcl, RecordFits
  <1> HIDE DEF unchanged, new
  <1>6. CASE c.op = "bucket"
    <2>1. /\ store'.bucket = new /\ store'.object = store.object /\ store'.policy = store.policy
          /\ store'.asked.bucket = c.wanted /\ store'.asked.object = store.asked.object
          /\ store' = [bucket |-> store'.bucket, object |-> store'.object,
                       policy |-> store'.policy,
                       publicRead |-> store'.publicRead, asked |-> store'.asked]
          /\ store'.asked = [bucket |-> store'.asked.bucket, object |-> store'.asked.object]
      <3>1. store' = [store EXCEPT !["bucket"] = new, !.asked["bucket"] = c.wanted]
        BY <1>2, <1>5, <1>6
      <3>2. QED
        BY <1>1, <3>1 DEF StoreFits
    <2>2. QED
      <3>1. StoreFits(store)'
        BY <1>1, <1>4, <1>6, <2>1 DEF StoreFits
      <3>2. \A x \in Reqs : pc'[x] = IF x = r THEN "ok" ELSE pc[x]
        BY <1>3 DEF AccessInv
      <3>3. pc' \in [Reqs -> {"idle", "getCanonicalIds", "putACL", "ok", "failed"}]
        BY <1>3 DEF AccessInv
      <3>4. \A x \in Reqs : (PutsList(x)' => x # r /\ PutsList(x)) /\ (Running(x)' => x # r /\ Running(x))
        BY <3>2 DEF PutsList, Running
      <3>5. AccessInv'
        BY <1>3, <2>1, <3>1, <3>3, <3>4 DEF AccessInv
      <3>6. ASSUME scene.sequential PROVE \A x \in Reqs : ~Running(x)'
        <4>1. Running(r)
          BY <1>1 DEF Running
        <4>2. QED
          BY <3>4, <3>6, <4>1 DEF AclAskedInv
      <3>7. \A x \in Reqs : PutsList(x) => Running(x)
        BY DEF PutsList, Running
      <3>8. AclAskedInv'
        BY <1>3, <1>4, <2>1, <3>4, <3>6, <3>7 DEF AclAskedInv, PutsList, Running
      <3>9. QED
        BY <3>5, <3>8
  <1>7. CASE c.op = "object"
    <2>1. /\ store'.object = (IF unchanged THEN store.object ELSE new)
          /\ store'.bucket = store.bucket /\ store'.policy = store.policy
          /\ store'.asked.object = c.wanted /\ store'.asked.bucket = store.asked.bucket
          /\ store' = [bucket |-> store'.bucket, object |-> store'.object,
                       policy |-> store'.policy,
                       publicRead |-> store'.publicRead, asked |-> store'.asked]
          /\ store'.asked = [bucket |-> store'.asked.bucket, object |-> store'.asked.object]
      <3> DEFINE o == IF unchanged THEN store.object ELSE new
      <3>1. store' = [store EXCEPT !["object"] = o, !.asked["object"] = c.wanted]
        BY <1>1, <1>2, <1>7 DEF StoreFits
      <3> HIDE DEF o
      <3>2. /\ store'.object = o
          /\ store'.bucket = store.bucket /\ store'.policy = store.policy
          /\ store'.asked.object = c.wanted /\ store'.asked.bucket = store.asked.bucket
          /\ store' = [bucket |-> store'.bucket, object |-> store'.object,
                       policy |-> store'.policy,
                       publicRead |-> store'.publicRead, asked |-> store'.asked]
          /\ store'.asked = [bucket |-> store'.asked.bucket, object |-> store'.asked.object]
        BY <1>1, <3>1 DEF StoreFits
      <3>3. QED
        BY <3>2 DEF o
    <2>2. QED
      <3>1. StoreFits(store)'
        BY <1>1, <1>4, <1>7, <2>1 DEF StoreFits
      <3>2. \A x \in Reqs : pc'[x] = IF x = r THEN "ok" ELSE pc[x]
        BY <1>3 DEF AccessInv
      <3>3. pc' \in [Reqs -> {"idle", "getCanonicalIds", "putACL", "ok", "failed"}]
        BY <1>3 DEF AccessInv
      <3>4. \A x \in Reqs : (PutsList(x)' => x # r /\ PutsList(x)) /\ (Running(x)' => x # r /\ Running(x))
        BY <3>2 DEF PutsList, Running
      <3>5. AccessInv'
        BY <1>3, <2>1, <3>1, <3>3, <3>4 DEF AccessInv
      <3>6. ASSUME scene.sequential PROVE \A x \in Reqs : ~Running(x)'
        <4>1. Running(r)
          BY <1>1 DEF Running
        <4>2. QED
          BY <3>4, <3>6, <4>1 DEF AclAskedInv
      <3>7. ASSUME scene.sequential PROVE c.wanted = AclSays(store'.object.acl)
        <4>1. c.record = store.object
          BY <1>1, <1>7, <3>7 DEF AclAskedInv
        <4>2. QED
          BY <1>4, <1>5, <2>1, <4>1
      <3>8. \A x \in Reqs : PutsList(x)' => Running(x)'
        BY DEF PutsList, Running
      <3>9. AclAskedInv'
        BY <2>1, <3>6, <3>7, <3>8 DEF AclAskedInv
      <3>10. QED
        BY <3>5, <3>9
  <1>8. QED
    BY <1>4, <1>6, <1>7

\* An object is stored with its list.
LEMMA AccessOwns ==
    ASSUME AccessInv, AclAskedInv, scene' = scene, NEW r \in Reqs, PutOwnObject(r)
    PROVE  AccessInv' /\ AclAskedInv'
  <1>0. PICK who \in Requesters, body \in Bodies("object") :
        \/ ~IsBucketAuthorized(store, "objectPut", who) /\ Refuse(r)
        \/ /\ IsBucketAuthorized(store, "objectPut", who)
           /\ store' = [store EXCEPT
                  !.object = [owner |-> who.id, acl |-> [AclOf("object", body) EXCEPT !.keys = 6]],
                  !.asked["object"] = Wanted("object", body)]
           /\ Goto(r, "ok")
           /\ UNCHANGED ctx
    BY DEF PutOwnObject
  <1>1. CASE Refuse(r)
    BY <1>1, AccessMoves DEF Refuse, Goto
  <1>2. CASE /\ store' = [store EXCEPT
                  !.object = [owner |-> who.id, acl |-> [AclOf("object", body) EXCEPT !.keys = 6]],
                  !.asked["object"] = Wanted("object", body)]
             /\ Goto(r, "ok")
             /\ UNCHANGED ctx
    <2> DEFINE acl == AclOf("object", body)
               six == [acl EXCEPT !.keys = 6]
               wanted == Wanted("object", body)
               new == [owner |-> who.id, acl |-> six]
    <2>1. ListFits("object", acl) /\ wanted = AclSays(acl)
      BY AclAsWanted
    <2>2. store' = [store EXCEPT !.object = new, !.asked["object"] = wanted]
      BY <1>2
    <2>3. pc' = [pc EXCEPT ![r] = "ok"] /\ ctx' = ctx
      BY <1>2 DEF Goto
    <2> HIDE DEF acl, wanted
    <2>4. acl = [canned |-> acl.canned, lists |-> acl.lists, keys |-> acl.keys]
      BY <2>1 DEF ListFits, AclFits, AclSet
    <2>5. six = [canned |-> acl.canned, lists |-> acl.lists, keys |-> 6]
      BY <2>4
    <2>6. ListFits("object", six) /\ AclSays(six) = AclSays(acl)
      <3> HIDE DEF six
      <3>1. six.canned = acl.canned /\ six.lists = acl.lists
        BY <2>5
      <3>2. acl \in AclSet
        BY <2>1 DEF ListFits, AclFits
      <3>3. six \in AclSet
        BY <2>5, <3>2 DEF AclSet
      <3>4. ListFits("object", six)
        BY <2>1, <3>1, <3>3 DEF ListFits, AclFits
      <3>5. ListedGrants(six) = ListedGrants(acl)
        BY <3>1 DEF ListedGrants
      <3>6. QED
        BY <3>1, <3>4, <3>5 DEF AclSays
    <2> HIDE DEF six
    <2>7. RecordFits("object", new) /\ new.acl = six
      BY <2>6, RequesterIds DEF RecordFits
    <2> HIDE DEF new
    <2>8. /\ store'.object = new
          /\ store'.bucket = store.bucket /\ store'.policy = store.policy
          /\ store'.asked.object = wanted /\ store'.asked.bucket = store.asked.bucket
          /\ store' = [bucket |-> store'.bucket, object |-> store'.object,
                       policy |-> store'.policy,
                       publicRead |-> store'.publicRead, asked |-> store'.asked]
          /\ store'.asked = [bucket |-> store'.asked.bucket, object |-> store'.asked.object]
      BY <2>2 DEF AccessInv, StoreFits
    <2>9. StoreFits(store)'
      BY <2>7, <2>8 DEF AccessInv, StoreFits
    <2>10. \A x \in Reqs : pc'[x] = IF x = r THEN "ok" ELSE pc[x]
      BY <2>3 DEF AccessInv
    <2>11. pc' \in [Reqs -> {"idle", "getCanonicalIds", "putACL", "ok", "failed"}]
      BY <2>3 DEF AccessInv
    <2>12. \A x \in Reqs : (PutsList(x)' => PutsList(x)) /\ (Running(x)' => Running(x))
      BY <2>10 DEF PutsList, Running
    <2>13. AccessInv'
      BY <2>3, <2>8, <2>9, <2>11, <2>12 DEF AccessInv
    <2>14. ASSUME scene.sequential PROVE \A x \in Reqs : ~Running(x)'
      BY <2>12, <2>14 DEF PutOwnObject, Sent, Quiet
    <2>15. \A x \in Reqs : PutsList(x)' => Running(x)'
      BY DEF PutsList, Running
    <2>16. AclAskedInv'
      BY <2>1, <2>6, <2>7, <2>8, <2>14, <2>15 DEF AclAskedInv
    <2>17. QED
      BY <2>13, <2>16
  <1>3. QED
    BY <1>0, <1>1, <1>2

\* A list is told.
LEMMA AccessTells ==
    ASSUME AccessInv, AclAskedInv, scene' = scene, NEW r \in Reqs, GetAccess(r)
    PROVE  AccessInv' /\ AclAskedInv'
  <1>0. PICK kind \in {"bucket", "object"}, who \in Requesters :
        LET request == IF kind = "bucket" THEN "bucketGetACL" ELSE "objectGetACL"
            owner == store[kind].owner
        IN  /\ Sent(r, request)
            /\ \/ /\ store[kind].acl # None
                  /\ Carry(r, [op |-> request, of |-> store,
                               told |-> Told(store[kind].acl, owner, store.bucket.owner)])
                  /\ Goto(r, "ok")
                  /\ UNCHANGED store
               \/ Refuse(r)
    BY DEF GetAccess
  <1> DEFINE request == IF kind = "bucket" THEN "bucketGetACL" ELSE "objectGetACL"
             c == [op |-> request, of |-> store,
                   told |-> Told(store[kind].acl, store[kind].owner, store.bucket.owner)]
  <1>1. CASE Refuse(r)
    BY <1>1, AccessMoves DEF Refuse, Goto
  <1>2. CASE store[kind].acl # None /\ Carry(r, c) /\ Goto(r, "ok") /\ UNCHANGED store
    <2>1. pc' = [pc EXCEPT ![r] = "ok"] /\ ctx' = [ctx EXCEPT ![r] = c] /\ store' = store
      BY <1>2 DEF Carry, Goto
    <2>2. WasTold(c, store.policy)
      BY <1>2 DEF AccessInv, WasTold
    <2> HIDE DEF c
    <2>3. \A x \in Reqs : /\ pc'[x] = IF x = r THEN "ok" ELSE pc[x]
                          /\ ctx'[x] = IF x = r THEN c ELSE ctx[x]
      BY <2>1 DEF AccessInv
    <2>4. pc' \in [Reqs -> {"idle", "getCanonicalIds", "putACL", "ok", "failed"}]
      BY <2>1 DEF AccessInv
    <2>5. ctx' = [x \in Reqs |-> ctx'[x]]
      BY <2>1 DEF AccessInv
    <2>6. \A x \in Reqs : (PutsList(x)' => x # r /\ PutsList(x)) /\ (Running(x)' => Running(x))
      BY <2>3 DEF PutsList, Running
    <2>7. AccessInv'
      BY <2>1, <2>2, <2>3, <2>4, <2>5, <2>6 DEF AccessInv
    <2>8. AclAskedInv'
      BY <2>1, <2>3, <2>6 DEF AclAskedInv
    <2>9. QED
      BY <2>7, <2>8
  <1>3. QED
    BY <1>0, <1>1, <1>2

\* Every step keeps the invariants.
LEMMA AccessSteps ==
    ASSUME AccessInv, AclAskedInv, AccessNext
    PROVE  AccessInv' /\ AclAskedInv'
  <1>1. scene' = scene
    BY DEF AccessNext
  <1>2. PICK r \in Reqs : \/ BucketPutAccess(r) \/ ObjectPutAccess(r) \/ GetCanonicalIds(r)
                          \/ AddACL(r) \/ AddToNoACL(r) \/ PutOwnObject(r) \/ GetAccess(r) \/ Die(r)
    BY DEF AccessNext
  <1>3. CASE BucketPutAccess(r)
    <2>1. PICK who \in Requesters, body \in Bodies("bucket") :
             PutACL(r, "bucket", store.bucket, body, IsBucketAuthorized(store, "bucketPutACL", who))
      BY <1>3 DEF BucketPutAccess
    <2>2. Sent(r, "bucketPutACL")
      BY <1>3 DEF BucketPutAccess
    <2> DEFINE authorized == IsBucketAuthorized(store, "bucketPutACL", who)
    <2> HIDE DEF authorized
    <2>3. PutACL(r, "bucket", store["bucket"], body, authorized)
      BY <2>1 DEF authorized
    <2>4. QED
      BY <1>1, <2>2, <2>3, AccessPuts
  <1>4. CASE ObjectPutAccess(r)
    <2> DEFINE authorized(who) == IsBucketAuthorized(store, "objectPutACL", who)
                                    /\ IsObjAuthorized(store, "objectPutACL", who)
    <2>1. PICK who \in Requesters, body \in Bodies("object") :
             PutACL(r, "object", store.object, body, authorized(who))
      BY <1>4 DEF ObjectPutAccess
    <2>2. Sent(r, "objectPutACL")
      BY <1>4 DEF ObjectPutAccess
    <2> HIDE DEF authorized
    <2>3. PutACL(r, "object", store["object"], body, authorized(who))
      BY <2>1
    <2>4. QED
      BY <1>1, <2>2, <2>3, AccessPuts
  <1>5. CASE GetCanonicalIds(r)
    <2>1. PutsList(r)
      BY <1>5 DEF GetCanonicalIds, PutsList
    <2>2. CASE Refuse(r)
      BY <1>1, <2>2, AccessMoves DEF Refuse, Goto
    <2>3. CASE Goto(r, "putACL") /\ UNCHANGED <<store, ctx>>
      BY <1>1, <2>1, <2>3, AccessMoves DEF Goto
    <2>4. QED
      BY <1>5, <2>2, <2>3 DEF GetCanonicalIds
  <1>6. CASE AddACL(r)
    BY <1>1, <1>6, AccessWrites
  <1>7. CASE PutOwnObject(r)
    BY <1>1, <1>7, AccessOwns
  <1>8. CASE GetAccess(r)
    BY <1>1, <1>8, AccessTells
  <1>9. CASE Die(r)
    BY <1>1, <1>9, AccessMoves DEF Die, Goto
  <1>10. CASE AddToNoACL(r)
    BY <1>1, <1>10, AccessMoves DEF AddToNoACL, Refuse, Goto
  <1>11. QED
    BY <1>2, <1>3, <1>4, <1>5, <1>6, <1>7, <1>8, <1>9, <1>10

-----------------------------------------------------------------------------
(* The bytes that are returned *)

LocRec == [key: (Reqs \cup {First}) \X Nat, start: Nat, size: Nat \ {0}, part: Nat,
           range: {None} \cup (Nat \X Nat)]

\* The first byte that is read of a location, and the first one after.
FirstOf(loc) == IF loc.range = None THEN loc.start ELSE loc.start + loc.range[1]
AfterOf(loc) ==
    IF loc.range = None THEN loc.start + loc.size ELSE loc.start + loc.range[2] + 1

\* A location of the object that p put, whose size is what is read of it.
IsLocation(loc, p) ==
    /\ loc \in LocRec /\ loc.key[1] = p
    /\ FirstOf(loc) < AfterOf(loc) /\ loc.size = AfterOf(loc) - FirstOf(loc)

\* What is read of the locations are the bytes from b to before e, in order.
Spans(locs, p, b, e) ==
    /\ locs \in Seq(LocRec) /\ \A i \in 1..Len(locs) : IsLocation(locs[i], p)
    /\ locs = <<>> => b = e
    /\ locs # <<>> => FirstOf(locs[1]) = b /\ AfterOf(locs[Len(locs)]) = e
    /\ \A i \in 1..Len(locs) : i < Len(locs) => FirstOf(locs[i + 1]) = AfterOf(locs[i])

\* The bounds of a location are numbers.
LEMMA BoundsOfLocation ==
    ASSUME NEW loc \in LocRec
    PROVE  FirstOf(loc) \in Nat /\ AfterOf(loc) \in Nat
  BY DEF LocRec, FirstOf, AfterOf

\* No location covers nothing.
LEMMA SpansNothing ==
    ASSUME NEW p, NEW b
    PROVE  Spans(<<>>, p, b, b)
  BY DEF Spans

\* A location that starts where the others end comes after them.
LEMMA SpansOneMore ==
    ASSUME NEW locs, NEW p, NEW b, NEW e, NEW loc,
           Spans(locs, p, b, e), IsLocation(loc, p), FirstOf(loc) = e
    PROVE  Spans(Append(locs, loc), p, b, AfterOf(loc))
  <1> DEFINE more == Append(locs, loc)
             n == Len(locs)
  <1>1. /\ locs \in Seq(LocRec) /\ loc \in LocRec /\ n \in Nat
        /\ \A i \in 1..n : IsLocation(locs[i], p)
        /\ locs = <<>> => b = e
        /\ locs # <<>> => FirstOf(locs[1]) = b /\ AfterOf(locs[n]) = e
        /\ \A i \in 1..n : i < n => FirstOf(locs[i + 1]) = AfterOf(locs[i])
    BY DEF Spans, IsLocation
  <1>2. /\ more \in Seq(LocRec) /\ Len(more) = n + 1 /\ more[n + 1] = loc
        /\ \A i \in 1..n : more[i] = locs[i]
    BY <1>1
  <1>3. more # <<>> /\ (locs # <<>> => n > 0) /\ (locs = <<>> => n = 0)
    BY <1>1, <1>2
  <1> HIDE DEF more, n
  <1>4. \A i \in 1..(n + 1) : IsLocation(more[i], p)
    BY <1>1, <1>2
  <1>5. FirstOf(more[1]) = b
    BY <1>1, <1>2, <1>3
  <1>6. ASSUME NEW i \in 1..(n + 1), i < n + 1
        PROVE FirstOf(more[i + 1]) = AfterOf(more[i])
    <2>1. CASE i = n
      BY <1>1, <1>2, <1>3, <2>1
    <2>2. CASE i < n
      BY <1>1, <1>2, <1>6, <2>2
    <2> QED  BY <1>1, <1>6, <2>1, <2>2
  <1>7. Spans(more, p, b, AfterOf(loc))
    BY <1>2, <1>3, <1>4, <1>5, <1>6 DEF Spans
  <1> QED  BY <1>7 DEF more

\* What is read of the first location is where the bytes start, and the others
\* go on from there.
LEMMA SpansRest ==
    ASSUME NEW locs, NEW p, NEW b, NEW e, Spans(locs, p, b, e), locs # <<>>
    PROVE  /\ IsLocation(Head(locs), p) /\ FirstOf(Head(locs)) = b
           /\ Spans(Tail(locs), p, AfterOf(Head(locs)), e)
  <1> DEFINE rest == Tail(locs)
             n == Len(locs)
  <1>1. /\ locs \in Seq(LocRec) /\ n \in Nat /\ n > 0
        /\ \A i \in 1..n : IsLocation(locs[i], p)
        /\ FirstOf(locs[1]) = b /\ AfterOf(locs[n]) = e
        /\ \A i \in 1..n : i < n => FirstOf(locs[i + 1]) = AfterOf(locs[i])
        /\ Head(locs) = locs[1]
    BY DEF Spans
  <1>2. /\ rest \in Seq(LocRec) /\ Len(rest) = n - 1
        /\ \A i \in 1..(n - 1) : rest[i] = locs[i + 1]
    BY <1>1
  <1> HIDE DEF rest, n
  <1>3. (rest = <<>> => n = 1) /\ (rest # <<>> => n > 1)
    BY <1>1, <1>2
  <1>4. \A i \in 1..(n - 1) : IsLocation(rest[i], p)
    BY <1>1, <1>2
  <1>5. rest = <<>> => AfterOf(locs[1]) = e
    BY <1>1, <1>3
  <1>6. rest # <<>> => FirstOf(rest[1]) = AfterOf(locs[1]) /\ AfterOf(rest[n - 1]) = e
    BY <1>1, <1>2, <1>3
  <1>7. \A i \in 1..(n - 1) : i < n - 1 => FirstOf(rest[i + 1]) = AfterOf(rest[i])
    BY <1>1, <1>2
  <1>8. Spans(rest, p, AfterOf(locs[1]), e)
    BY <1>2, <1>4, <1>5, <1>6, <1>7 DEF Spans
  <1> QED  BY <1>1, <1>8 DEF rest

\* A location of which the bytes from a to z are read.
Cut(loc, a, z) == [loc EXCEPT !.range = <<a, z>>, !.size = z - a + 1]

\* It starts and ends where it was cut.
LEMMA CutLocation ==
    ASSUME NEW p, NEW loc, IsLocation(loc, p), loc.range = None,
           NEW a \in Nat, NEW z \in Nat, a <= z, z < loc.size
    PROVE  /\ IsLocation(Cut(loc, a, z), p)
           /\ FirstOf(Cut(loc, a, z)) = loc.start + a
           /\ AfterOf(Cut(loc, a, z)) = loc.start + z + 1
  <1> DEFINE cut == Cut(loc, a, z)
  <1>1. /\ loc \in LocRec /\ loc.key[1] = p /\ loc.start \in Nat /\ loc.size \in Nat
    BY DEF IsLocation, LocRec
  <1>2. <<a, z>> \in Nat \X Nat /\ <<a, z>> # None
    BY ReadAssumption
  <1>3. z - a + 1 \in Nat \ {0}
    OBVIOUS
  <1>4. /\ cut \in LocRec /\ cut.key = loc.key /\ cut.start = loc.start
        /\ cut.range = <<a, z>> /\ cut.size = z - a + 1
    BY <1>1, <1>2, <1>3 DEF LocRec, Cut
  <1> HIDE DEF cut
  <1>5. FirstOf(cut) = loc.start + a /\ AfterOf(cut) = loc.start + z + 1
    BY <1>2, <1>4 DEF FirstOf, AfterOf
  <1>6. IsLocation(cut, p)
    BY <1>1, <1>4, <1>5 DEF IsLocation
  <1> QED  BY <1>5, <1>6 DEF cut

AccRec == [locs: Seq(LocRec), total: Nat, done: BOOLEAN]

\* What one turn of the loop comes to that looks at size bytes from start on.
Turns(next, acc, loc, total, start, size, begin, max) ==
    /\ acc.done \/ total >= max \/ start + size <= begin => next = acc
    /\ ~acc.done /\ total < max /\ start >= begin /\ total + size <= max
       /\ begin < start + size
         => next = [locs |-> Append(acc.locs, loc), total |-> total + size, done |-> FALSE]
    /\ ~acc.done /\ total < max /\ start >= begin /\ total + size > max
       /\ begin < start + size
         => next = [locs |-> Append(acc.locs, Cut(loc, 0, max - total - 1)),
                    total |-> total, done |-> TRUE]
    /\ ~acc.done /\ total < max /\ start < begin /\ begin < start + size
         => LET offset == begin - start
                endPart == Lower(size - 1, max - total + offset - 1)
            IN  next = [locs |-> Append(acc.locs, Cut(loc, offset, endPart)),
                        total |-> total + endPart - offset + 1, done |-> FALSE]

\* The four cases of a turn.
LEMMA AddsLocation ==
    ASSUME NEW begin \in Nat, NEW max \in Nat, NEW acc \in AccRec,
           NEW loc \in LocRec, loc.range = None
    PROVE  Turns(AddLocation(acc, loc, begin, max), acc, loc, acc.total, loc.start,
                 loc.size, begin, max)
  <1>1. /\ acc = [locs |-> acc.locs, total |-> acc.total, done |-> acc.done]
        /\ acc.total \in Nat /\ acc.done \in BOOLEAN
        /\ loc.start \in Nat /\ loc.size \in Nat
    BY DEF AccRec, LocRec
  <1>2. ASSUME acc.done \/ acc.total >= max \/ loc.start + loc.size <= begin
        PROVE  AddLocation(acc, loc, begin, max) = acc
    BY <1>2 DEF AddLocation
  <1>3. ASSUME ~(acc.done \/ acc.total >= max \/ loc.start + loc.size <= begin),
               loc.start >= begin, acc.total + loc.size <= max
        PROVE  AddLocation(acc, loc, begin, max)
                 = [locs |-> Append(acc.locs, loc), total |-> acc.total + loc.size,
                    done |-> FALSE]
    <2>1. AddLocation(acc, loc, begin, max)
            = [acc EXCEPT !.locs = Append(@, loc), !.total = @ + loc.size]
      BY <1>3 DEF AddLocation
    <2> QED  BY <1>1, <1>3, <2>1
  <1>4. ASSUME ~(acc.done \/ acc.total >= max \/ loc.start + loc.size <= begin),
               loc.start >= begin, ~(acc.total + loc.size <= max)
        PROVE  AddLocation(acc, loc, begin, max)
                 = [locs |-> Append(acc.locs, Cut(loc, 0, max - acc.total - 1)),
                    total |-> acc.total, done |-> TRUE]
    <2> DEFINE endPart == Lower(loc.size - 1, max - acc.total - 1)
    <2>1. endPart = max - acc.total - 1 /\ endPart \in Nat
      BY <1>1, <1>4 DEF Lower
    <2>2. AddLocation(acc, loc, begin, max)
            = [acc EXCEPT !.done = TRUE, !.locs = Append(@,
                  [loc EXCEPT !.range = <<0, endPart>>, !.size = endPart + 1])]
      BY <1>4 DEF AddLocation
    <2> HIDE DEF endPart
    <2>3. [loc EXCEPT !.range = <<0, endPart>>, !.size = endPart + 1] = Cut(loc, 0, endPart)
      <3>1. endPart - 0 + 1 = endPart + 1
        BY <2>1
      <3> QED  BY <3>1 DEF Cut
    <2>4. AddLocation(acc, loc, begin, max)
            = [acc EXCEPT !.done = TRUE, !.locs = Append(@, Cut(loc, 0, endPart))]
      BY <2>2, <2>3
    <2>5. AddLocation(acc, loc, begin, max)
            = [locs |-> Append(acc.locs, Cut(loc, 0, endPart)), total |-> acc.total,
               done |-> TRUE]
      BY <1>1, <2>4
    <2> QED  BY <2>1, <2>5
  <1>5. ASSUME ~(acc.done \/ acc.total >= max \/ loc.start + loc.size <= begin),
               ~(loc.start >= begin)
        PROVE  LET offset == begin - loc.start
                   endPart == Lower(loc.size - 1, max - acc.total + offset - 1)
               IN  AddLocation(acc, loc, begin, max)
                     = [locs |-> Append(acc.locs, Cut(loc, offset, endPart)),
                        total |-> acc.total + endPart - offset + 1, done |-> FALSE]
    <2> DEFINE offset == begin - loc.start
               endPart == Lower(loc.size - 1, max - acc.total + offset - 1)
               cut == Cut(loc, offset, endPart)
    <2>1. AddLocation(acc, loc, begin, max)
            = [acc EXCEPT !.total = @ + endPart - offset + 1, !.locs = Append(@, cut)]
      BY <1>5 DEF AddLocation, Cut
    <2> HIDE DEF cut, offset, endPart
    <2>2. AddLocation(acc, loc, begin, max)
            = [locs |-> Append(acc.locs, cut), total |-> acc.total + endPart - offset + 1,
               done |-> FALSE]
      BY <1>1, <1>5, <2>1
    <2> QED  BY <2>2 DEF cut, offset, endPart
  <1> QED  BY <1>1, <1>2, <1>3, <1>4, <1>5 DEF Turns

\* Where the loop is when the locations that end before byte e were looked at.
Gathers(acc, p, begin, max, e) ==
    /\ acc \in AccRec
    /\ \/ /\ e <= begin /\ ~acc.done
          /\ acc.locs = <<>> /\ acc.total = 0
       \/ /\ begin < e /\ e <= begin + max /\ ~acc.done
          /\ acc.total = e - begin /\ Spans(acc.locs, p, begin, e)
       \/ /\ begin + max <= e /\ (acc.done \/ acc.total >= max)
          /\ Spans(acc.locs, p, begin, begin + max)

\* Another location to gather.
LEMMA GathersOneMore ==
    ASSUME NEW acc \in AccRec, NEW p, NEW b, NEW e, NEW loc,
           Spans(acc.locs, p, b, e), IsLocation(loc, p), FirstOf(loc) = e,
           NEW n \in Nat, NEW d \in BOOLEAN
    PROVE  /\ [locs |-> Append(acc.locs, loc), total |-> n, done |-> d] \in AccRec
           /\ Spans(Append(acc.locs, loc), p, b, AfterOf(loc))
  <1>1. Spans(Append(acc.locs, loc), p, b, AfterOf(loc))
    BY SpansOneMore
  <1>2. Append(acc.locs, loc) \in Seq(LocRec)
    BY <1>1 DEF Spans
  <1> QED  BY <1>1, <1>2 DEF AccRec

\* One turn of the loop keeps to the range.
LEMMA AddLocationGathers ==
    ASSUME NEW p, NEW begin \in Nat, NEW max \in Nat \ {0}, NEW e \in Nat,
           NEW acc, Gathers(acc, p, begin, max, e),
           NEW loc, IsLocation(loc, p), loc.range = None, loc.start = e
    PROVE  Gathers(AddLocation(acc, loc, begin, max), p, begin, max, e + loc.size)
  <1> DEFINE next == AddLocation(acc, loc, begin, max)
  <1>1. /\ acc \in AccRec /\ loc \in LocRec /\ loc.size \in Nat /\ loc.size > 0
        /\ acc.locs \in Seq(LocRec) /\ acc.total \in Nat /\ acc.done \in BOOLEAN
    BY DEF Gathers, IsLocation, LocRec, AccRec
  <1>2. PICK size \in Nat : size = loc.size
    BY <1>1
  <1>3. PICK total \in Nat : total = acc.total
    BY <1>1
  <1>4. PICK after \in Nat : after = e + size
    OBVIOUS
  <1>5. FirstOf(loc) = e /\ AfterOf(loc) = after
    BY <1>2, <1>4 DEF FirstOf, AfterOf
  <1>6. Turns(next, acc, loc, total, e, size, begin, max)
    <2>1. max \in Nat
      OBVIOUS
    <2>2. Turns(next, acc, loc, acc.total, loc.start, loc.size, begin, max)
      BY <1>1, <2>1, AddsLocation
    <2> HIDE DEF next
    <2> QED  BY <1>2, <1>3, <2>2
  <1> HIDE DEF next
  <1>7. Gathers(next, p, begin, max, after)
    <2>1. CASE acc.done \/ total >= max \/ after <= begin
      <3>1. next = acc
        BY <1>4, <1>6, <2>1 DEF Turns
      <3>2. CASE e <= begin /\ ~acc.done /\ acc.locs = <<>> /\ total = 0
        <4>1. after <= begin
          BY <2>1, <3>2
        <4> QED  BY <1>1, <1>3, <3>1, <3>2, <4>1 DEF Gathers
      <3>3. CASE /\ begin < e /\ e <= begin + max /\ ~acc.done
                 /\ total = e - begin /\ Spans(acc.locs, p, begin, e)
        <4>1. e = begin + max /\ begin + max <= after /\ total >= max
          BY <1>4, <2>1, <3>3
        <4> QED  BY <1>1, <1>3, <3>1, <3>3, <4>1 DEF Gathers
      <3>4. CASE /\ begin + max <= e /\ (acc.done \/ total >= max)
                 /\ Spans(acc.locs, p, begin, begin + max)
        <4>1. begin + max <= after
          BY <1>4, <3>4
        <4> QED  BY <1>1, <1>3, <3>1, <3>4, <4>1 DEF Gathers
      <3> QED  BY <1>3, <3>2, <3>3, <3>4 DEF Gathers
    <2>2. CASE ~acc.done /\ total < max /\ begin < after
      <3>1. /\ e <= begin => acc.locs = <<>> /\ total = 0
            /\ begin < e => total = e - begin /\ Spans(acc.locs, p, begin, e)
        BY <1>3, <2>2 DEF Gathers
      <3>2. begin <= e => Spans(acc.locs, p, begin, e) /\ total = e - begin
        BY <3>1, SpansNothing
      <3>3. CASE begin <= e /\ after <= begin + max
        <4>1. PICK n \in Nat : n = total + size
          OBVIOUS
        <4>2. n <= max /\ n = after - begin
          BY <1>4, <3>2, <3>3, <4>1
        <4>3. next = [locs |-> Append(acc.locs, loc), total |-> n, done |-> FALSE]
          BY <1>4, <1>6, <2>2, <3>3, <4>1, <4>2 DEF Turns
        <4>4. Spans(acc.locs, p, begin, e)
          BY <3>2, <3>3
        <4>5. /\ [locs |-> Append(acc.locs, loc), total |-> n, done |-> FALSE] \in AccRec
              /\ Spans(Append(acc.locs, loc), p, begin, after)
          BY <1>1, <1>5, <4>4, GathersOneMore
        <4> QED  BY <2>2, <3>3, <4>2, <4>3, <4>5 DEF Gathers
      <3>4. CASE begin <= e /\ ~(after <= begin + max)
        <4>1. PICK z \in Nat : z = max - total - 1
          BY <2>2
        <4>2. total + size > max /\ 0 <= z /\ z < size /\ e + z + 1 = begin + max
          BY <1>4, <3>2, <3>4, <4>1
        <4>3. next = [locs |-> Append(acc.locs, Cut(loc, 0, z)), total |-> total, done |-> TRUE]
          BY <1>4, <1>6, <2>2, <3>4, <4>1, <4>2 DEF Turns
        <4>4. IsLocation(Cut(loc, 0, z), p) /\ FirstOf(Cut(loc, 0, z)) = e
              /\ AfterOf(Cut(loc, 0, z)) = begin + max
          <5>1. /\ IsLocation(Cut(loc, 0, z), p)
                /\ FirstOf(Cut(loc, 0, z)) = loc.start + 0
                /\ AfterOf(Cut(loc, 0, z)) = loc.start + z + 1
            BY <1>2, <4>2, CutLocation
          <5> QED  BY <4>2, <5>1
        <4>5. PICK cut : cut = Cut(loc, 0, z)
          OBVIOUS
        <4>6. Spans(acc.locs, p, begin, e)
          BY <3>2, <3>4
        <4>7. /\ [locs |-> Append(acc.locs, cut), total |-> total, done |-> TRUE] \in AccRec
              /\ Spans(Append(acc.locs, cut), p, begin, begin + max)
          <5>1. IsLocation(cut, p) /\ FirstOf(cut) = e /\ AfterOf(cut) = begin + max
            BY <4>4, <4>5, Zenon
          <5>2. acc \in AccRec /\ total \in Nat
            BY <1>1
          <5>3. /\ [locs |-> Append(acc.locs, cut), total |-> total, done |-> TRUE] \in AccRec
                /\ Spans(Append(acc.locs, cut), p, begin, AfterOf(cut))
            BY ONLY <4>6, <5>1, <5>2, GathersOneMore
          <5> QED  BY <5>1, <5>3, Zenon
        <4>8. begin + max <= after
          BY <3>4
        <4> QED  BY <4>3, <4>5, <4>7, <4>8 DEF Gathers
      <3>5. CASE e < begin
        <4>1. total = 0 /\ acc.locs = <<>>
          BY <3>1, <3>5
        <4>2. PICK offset \in Nat : offset = begin - e
          BY <3>5
        <4>3. offset < size /\ e + offset = begin
          BY <1>4, <2>2, <4>2
        <4>4. PICK z \in Nat : /\ z = Lower(size - 1, max - total + offset - 1)
                               /\ offset <= z /\ z < size
                               /\ \/ z = size - 1 /\ size <= max + offset
                                  \/ z = max + offset - 1 /\ max + offset <= size
          BY <4>1, <4>3 DEF Lower
        <4>5. PICK n \in Nat : n = total + z - offset + 1
          BY <4>1, <4>4
        <4>6. PICK cut : cut = Cut(loc, offset, z)
          OBVIOUS
        <4>7. next = [locs |-> Append(acc.locs, cut), total |-> n, done |-> FALSE]
          BY <1>4, <1>6, <2>2, <3>5, <4>2, <4>4, <4>5, <4>6 DEF Turns
        <4>8. IsLocation(cut, p) /\ FirstOf(cut) = begin /\ AfterOf(cut) = e + z + 1
          <5>1. /\ IsLocation(Cut(loc, offset, z), p)
                /\ FirstOf(Cut(loc, offset, z)) = loc.start + offset
                /\ AfterOf(Cut(loc, offset, z)) = loc.start + z + 1
            BY <1>2, <4>4, CutLocation
          <5> QED  BY <4>3, <4>6, <5>1
        <4>9. Spans(acc.locs, p, begin, begin)
          BY <4>1, SpansNothing
        <4>10. /\ [locs |-> Append(acc.locs, cut), total |-> n, done |-> FALSE] \in AccRec
               /\ Spans(Append(acc.locs, cut), p, begin, AfterOf(cut))
          BY <1>1, <4>8, <4>9, GathersOneMore
        <4>11. CASE z = size - 1 /\ size <= max + offset
          <5>1. AfterOf(cut) = after /\ n = after - begin /\ after <= begin + max
            BY <1>4, <4>1, <4>3, <4>5, <4>8, <4>11
          <5> QED  BY <2>2, <4>7, <4>10, <5>1 DEF Gathers
        <4>12. CASE z = max + offset - 1 /\ max + offset <= size
          <5>1. e + z + 1 = begin + max /\ n >= max /\ begin + max <= after
            BY <1>4, <4>1, <4>3, <4>5, <4>12
          <5>2. AfterOf(cut) = begin + max
            BY <4>8, <5>1, Zenon
          <5> QED  BY <4>7, <4>10, <5>1, <5>2 DEF Gathers
        <4> QED  BY <4>4, <4>11, <4>12
      <3> QED  BY <3>3, <3>4, <3>5
    <2> QED  BY <1>1, <2>1, <2>2
  <1> QED  BY <1>2, <1>4, <1>7 DEF next

\* A location that was looked at is a location.
LEMMA AddLocationTyped ==
    ASSUME NEW p, NEW begin \in Nat, NEW max \in Nat, NEW acc \in AccRec,
           NEW loc, IsLocation(loc, p), loc.range = None
    PROVE  AddLocation(acc, loc, begin, max) \in AccRec
  <1> DEFINE next == AddLocation(acc, loc, begin, max)
  <1>1. /\ loc \in LocRec /\ loc.size \in Nat /\ loc.size > 0 /\ loc.start \in Nat
        /\ acc.locs \in Seq(LocRec) /\ acc.total \in Nat /\ acc.done \in BOOLEAN
    BY DEF IsLocation, LocRec, AccRec
  <1>2. Turns(next, acc, loc, acc.total, loc.start, loc.size, begin, max)
    BY <1>1, AddsLocation
  <1> HIDE DEF next
  <1>3. ASSUME NEW cut \in LocRec, NEW n \in Nat, NEW d \in BOOLEAN
        PROVE  [locs |-> Append(acc.locs, cut), total |-> n, done |-> d] \in AccRec
    <2>1. Append(acc.locs, cut) \in Seq(LocRec)
      BY <1>1, AppendProperties
    <2> QED  BY <2>1 DEF AccRec
  <1>4. PICK size \in Nat : size = loc.size
    BY <1>1
  <1>5. PICK total \in Nat : total = acc.total
    BY <1>1
  <1>6. PICK start \in Nat : start = loc.start
    BY <1>1
  <1>7. Turns(next, acc, loc, total, start, size, begin, max) /\ size > 0
    BY <1>1, <1>2, <1>4, <1>5, <1>6
  <1>8. ASSUME NEW a \in Nat, NEW z \in Nat, a <= z, z < size
        PROVE Cut(loc, a, z) \in LocRec
    BY <1>4, <1>8, CutLocation DEF IsLocation
  <1>9. next \in AccRec
    <2>1. CASE acc.done \/ total >= max \/ start + size <= begin
      BY <1>7, <2>1 DEF Turns
    <2>2. CASE ~acc.done /\ total < max /\ start >= begin /\ total + size <= max
                /\ begin < start + size
      <3>1. PICK n \in Nat : n = total + size
        OBVIOUS
      <3>2. next = [locs |-> Append(acc.locs, loc), total |-> n, done |-> FALSE]
        BY <1>7, <2>2, <3>1 DEF Turns
      <3> QED  BY <1>1, <1>3, <3>2
    <2>3. CASE ~acc.done /\ total < max /\ start >= begin /\ total + size > max
                /\ begin < start + size
      <3>1. PICK z \in Nat : z = max - total - 1
        BY <2>3
      <3>2. next = [locs |-> Append(acc.locs, Cut(loc, 0, z)), total |-> total, done |-> TRUE]
        BY <1>7, <2>3, <3>1 DEF Turns
      <3>3. Cut(loc, 0, z) \in LocRec
        BY <1>8, <2>3, <3>1
      <3> QED  BY <1>3, <3>2, <3>3
    <2>4. CASE ~acc.done /\ total < max /\ start < begin /\ begin < start + size
      <3>1. PICK a \in Nat : a = begin - start
        BY <2>4
      <3>2. PICK z \in Nat : z = Lower(size - 1, max - total + a - 1) /\ a <= z /\ z < size
        <4>1. a < size /\ size - 1 \in Nat /\ max - total + a - 1 \in Nat
              /\ a <= max - total + a - 1
          BY <2>4, <3>1
        <4>2. PICK x \in Nat, y \in Nat : x = size - 1 /\ y = max - total + a - 1
          BY <4>1
        <4>3. a <= x /\ a <= y /\ x < size
          BY <4>1, <4>2
        <4>4. Lower(x, y) \in Nat /\ a <= Lower(x, y) /\ Lower(x, y) <= x
          BY <4>3 DEF Lower
        <4>5. Lower(x, y) < size
          BY <4>3, <4>4
        <4> QED  BY <4>2, <4>4, <4>5
      <3>3. PICK n \in Nat : n = total + z - a + 1
        BY <3>2
      <3>4. next = [locs |-> Append(acc.locs, Cut(loc, a, z)), total |-> n, done |-> FALSE]
        BY <1>7, <2>4, <3>1, <3>2, <3>3 DEF Turns
      <3>5. Cut(loc, a, z) \in LocRec
        BY <1>8, <3>2
      <3> QED  BY <1>3, <3>4, <3>5
    <2> QED  BY <2>1, <2>2, <2>3, <2>4
  <1> QED  BY <1>9 DEF next

\* The loop over the locations, and the sum of their sizes, are functions that are
\* defined turn by turn.
NoneYet == [locs |-> <<>>, total |-> 0, done |-> FALSE]
Loop(g, locs, begin, max) ==
    [n \in 0..Len(locs) |-> IF n = 0 THEN NoneYet
                            ELSE AddLocation(g[n - 1], locs[n], begin, max)]
Sum(g, locs) == [n \in 0..Len(locs) |-> IF n = 0 THEN 0 ELSE g[n - 1] + locs[n].size]

\* There is such a loop over the locations of an object.
LEMMA LoopRuns ==
    ASSUME NEW p, NEW begin \in Nat, NEW max \in Nat, NEW locs \in Seq(LocRec),
           \A i \in 1..Len(locs) : IsLocation(locs[i], p) /\ locs[i].range = None
    PROVE  \E g : g = Loop(g, locs, begin, max)
  <1> DEFINE step == [n \in 1..Len(locs) |-> [v \in AccRec |-> AddLocation(v, locs[n], begin, max)]]
  <1>1. step \in [1..Len(locs) -> [AccRec -> AccRec]]
    BY AddLocationTyped
  <1>2. Len(locs) \in Nat /\ NoneYet \in AccRec
    BY DEF NoneYet, AccRec
  <1>3. PICK L \in Nat : L = Len(locs)
    BY <1>2
  <1>4. PICK st : st = step
    OBVIOUS
  <1>5. PICK g \in [0..L -> AccRec] : g[0] = NoneYet /\ \A n \in 1..L : g[n] = st[n][g[n - 1]]
    <2>0. L \in Nat
      OBVIOUS
    <2>1. PICK W, base : W = AccRec /\ base = NoneYet
      OBVIOUS
    <2>2. st \in [1..L -> [W -> W]] /\ base \in W
      BY <1>1, <1>2, <1>3, <1>4, <2>1
    <2>3. \E g \in [0..L -> W] : g[0] = base /\ \A n \in 1..L : g[n] = st[n][g[n - 1]]
      BY ONLY <2>0, <2>2, Recursion
    <2> QED  BY <2>1, <2>3
  <1>6. ASSUME NEW n \in 1..L PROVE g[n] = AddLocation(g[n - 1], locs[n], begin, max)
    <2>1. n - 1 \in 0..L
      OBVIOUS
    <2>2. g[n - 1] \in AccRec
      BY <2>1
    <2> QED  BY <1>3, <1>4, <1>5, <2>2
  <1>7. g = [n \in 0..L |-> IF n = 0 THEN NoneYet ELSE AddLocation(g[n - 1], locs[n], begin, max)]
    <2>1. ASSUME NEW n \in 0..L
          PROVE  g[n] = IF n = 0 THEN NoneYet ELSE AddLocation(g[n - 1], locs[n], begin, max)
      BY <1>5, <1>6
    <2> QED  BY <2>1
  <1> QED  BY <1>3, <1>7 DEF Loop

\* There is such a sum.
LEMMA SumRuns ==
    ASSUME NEW locs, Len(locs) \in Nat, \A i \in 1..Len(locs) : locs[i].size \in Nat
    PROVE  \E g : g = Sum(g, locs)
  <1> DEFINE step == [n \in 1..Len(locs) |-> [v \in Nat |-> v + locs[n].size]]
  <1>1. step \in [1..Len(locs) -> [Nat -> Nat]]
    OBVIOUS
  <1>3. PICK L \in Nat : L = Len(locs)
    OBVIOUS
  <1>4. PICK st : st = step
    OBVIOUS
  <1>5. PICK g \in [0..L -> Nat] : g[0] = 0 /\ \A n \in 1..L : g[n] = st[n][g[n - 1]]
    <2>0. L \in Nat
      OBVIOUS
    <2>1. PICK W, base : W = Nat /\ base = 0
      OBVIOUS
    <2>2. st \in [1..L -> [W -> W]] /\ base \in W
      BY <1>1, <1>3, <1>4, <2>1
    <2>3. \E g \in [0..L -> W] : g[0] = base /\ \A n \in 1..L : g[n] = st[n][g[n - 1]]
      BY ONLY <2>0, <2>2, Recursion
    <2> QED  BY <2>1, <2>3
  <1>6. ASSUME NEW n \in 1..L PROVE g[n] = g[n - 1] + locs[n].size
    <2>1. n - 1 \in 0..L
      OBVIOUS
    <2>2. g[n - 1] \in Nat
      BY <2>1
    <2> QED  BY <1>3, <1>4, <1>5, <2>2
  <1>7. g = [n \in 0..L |-> IF n = 0 THEN 0 ELSE g[n - 1] + locs[n].size]
    <2>1. ASSUME NEW n \in 0..L
          PROVE  g[n] = IF n = 0 THEN 0 ELSE g[n - 1] + locs[n].size
      BY <1>5, <1>6
    <2> QED  BY <2>1
  <1> QED  BY <1>3, <1>7 DEF Sum

\* The size of the first locations is 0 and grows by that of each.
LEMMA SizeGrows ==
    ASSUME NEW locs, Len(locs) \in Nat, \A i \in 1..Len(locs) : locs[i].size \in Nat
    PROVE  /\ SizeUpTo(locs)[0] = 0
           /\ \A n \in 1..Len(locs) :
                  SizeUpTo(locs)[n] = SizeUpTo(locs)[n - 1] + locs[n].size
  <1> DEFINE G == CHOOSE g : g = Sum(g, locs)
  <1>1. G = Sum(G, locs)
    BY SumRuns
  <1>2. SizeUpTo(locs) = G
    BY DEF SizeUpTo, Sum
  <1> HIDE DEF G
  <1>3. ASSUME NEW n \in 0..Len(locs)
        PROVE  G[n] = IF n = 0 THEN 0 ELSE G[n - 1] + locs[n].size
    BY <1>1 DEF Sum
  <1>4. G[0] = 0
    BY <1>3
  <1>5. ASSUME NEW n \in 1..Len(locs)  PROVE G[n] = G[n - 1] + locs[n].size
    BY <1>3
  <1> QED  BY <1>2, <1>4, <1>5, Zenon

\* The locations of an object: one after the other from byte 0, none cut, the
\* part numbers not descending.
WellLaid(object) ==
    /\ object # <<>> /\ Spans(object, object[1].key[1], 0, Length(object))
    /\ \A i \in 1..Len(object) : object[i].range = None
    /\ \A i, j \in 1..Len(object) : i <= j => object[i].part <= object[j].part

\* Where the locations of an object begin and end.
LEMMA LaidOut ==
    ASSUME NEW object, WellLaid(object)
    PROVE  /\ object \in Seq(LocRec) /\ Len(object) \in Nat /\ Len(object) > 0
           /\ Length(object) \in Nat /\ Length(object) > 0
           /\ \A i \in 1..Len(object) :
                /\ IsLocation(object[i], object[1].key[1]) /\ object[i].range = None
                /\ object[i].start \in Nat /\ object[i].size \in Nat
                /\ object[i].size > 0
                /\ object[i].part \in Nat
                /\ FirstOf(object[i]) = object[i].start
                /\ AfterOf(object[i]) = object[i].start + object[i].size
                /\ i < Len(object) => object[i + 1].start = object[i].start + object[i].size
           /\ object[1].start = 0
           /\ Length(object) = object[Len(object)].start + object[Len(object)].size
  <1>1. /\ object \in Seq(LocRec) /\ Len(object) \in Nat /\ Len(object) > 0
        /\ \A i \in 1..Len(object) : IsLocation(object[i], object[1].key[1])
                                     /\ object[i].range = None
        /\ FirstOf(object[1]) = 0
        /\ \A i \in 1..Len(object) : i < Len(object) => FirstOf(object[i + 1]) = AfterOf(object[i])
    BY DEF WellLaid, Spans
  <1>2. ASSUME NEW i \in 1..Len(object)
        PROVE  /\ object[i].start \in Nat /\ object[i].size \in Nat /\ object[i].size > 0
               /\ object[i].part \in Nat
               /\ FirstOf(object[i]) = object[i].start
               /\ AfterOf(object[i]) = object[i].start + object[i].size
    <2>1. object[i] \in LocRec /\ object[i].range = None
      BY <1>1 DEF IsLocation
    <2> QED  BY <2>1 DEF LocRec, FirstOf, AfterOf
  <1>3. 1 \in 1..Len(object) /\ Len(object) \in 1..Len(object)
    BY <1>1
  <1>4. ASSUME NEW i \in 1..Len(object), i < Len(object)
        PROVE  object[i + 1].start = object[i].start + object[i].size
    <2>1. i + 1 \in 1..Len(object)
      BY <1>1, <1>4
    <2>2. FirstOf(object[i + 1]) = object[i + 1].start
      BY <1>2, <2>1
    <2> QED  BY <1>1, <1>2, <1>4, <2>2
  <1>5. object[1].start = 0
    BY <1>1, <1>2, <1>3
  <1>6. Length(object) = object[Len(object)].start + object[Len(object)].size
    BY DEF Length
  <1>7. Length(object) \in Nat /\ Length(object) > 0
    BY <1>2, <1>3, <1>6
  <1> QED  BY <1>1, <1>2, <1>4, <1>5, <1>6, <1>7

\* The locations ascend.
LEMMA LocationsAscend ==
    ASSUME NEW object, WellLaid(object),
           NEW i \in 1..Len(object), NEW j \in 1..Len(object), i <= j
    PROVE  /\ object[i].start <= object[j].start
           /\ object[i].start + object[i].size <= object[j].start + object[j].size
  <1> DEFINE S == {k \in 0..(j - i) : object[i].start <= object[i + k].start
                        /\ object[i].start + object[i].size <= object[i + k].start + object[i + k].size}
  <1>1. Len(object) \in Nat
    BY LaidOut
  <1>2. 0 \in S
    <2>1. object[i].start \in Nat /\ object[i].size \in Nat
      BY LaidOut
    <2> QED  BY <2>1
  <1>3. ASSUME NEW k \in Nat, k < j - i, k \in S  PROVE k + 1 \in S
    <2>1. i + k \in 1..Len(object) /\ i + k < Len(object) /\ i + (k + 1) = (i + k) + 1
          /\ (i + k) + 1 \in 1..Len(object)
      BY <1>1, <1>3
    <2>2. /\ object[(i + k) + 1].start = object[i + k].start + object[i + k].size
          /\ object[i + k].start \in Nat /\ object[i + k].size \in Nat
          /\ object[(i + k) + 1].size \in Nat
          /\ object[i].start \in Nat /\ object[i].size \in Nat
      BY <2>1, LaidOut
    <2>3. /\ object[i].start <= object[i + (k + 1)].start
          /\ object[i].start + object[i].size
                <= object[i + (k + 1)].start + object[i + (k + 1)].size
      <3>1. /\ object[i].start <= object[i + k].start
            /\ object[i].start + object[i].size <= object[i + k].start + object[i + k].size
        BY <1>3
      <3>2. PICK m, before, next :
                m \in Nat /\ m = i + k /\ before = object[m] /\ next = object[m + 1]
        BY <2>1
      <3>3. object[i + (k + 1)] = next /\ object[i + k] = before
        BY <2>1, <3>2
      <3>4. /\ next.start = before.start + before.size
            /\ before.start \in Nat /\ before.size \in Nat /\ next.size \in Nat
        BY <2>2, <3>2
      <3>5. /\ object[i].start <= next.start
            /\ object[i].start + object[i].size <= next.start + next.size
        <4>1. PICK a \in Nat, n \in Nat : a = object[i].start /\ n = object[i].size
          BY <2>2
        <4>2. a <= before.start /\ a + n <= before.start + before.size
          BY <3>1, <3>3, <4>1
        <4>3. a <= next.start /\ a + n <= next.start + next.size
          BY <3>4, <4>2
        <4> QED  BY <4>1, <4>3
      <3> QED  BY <3>3, <3>5
    <2> QED  BY <1>3, <2>3
  <1>4. j - i \in Nat
    OBVIOUS
  <1>5. j - i \in S
    <2> HIDE DEF S
    <2>1. 0..(j - i) \subseteq S
      BY <1>2, <1>3, <1>4, StepByStep
    <2> QED  BY <1>4, <2>1
  <1>6. i + (j - i) = j
    OBVIOUS
  <1> QED  BY <1>5, <1>6

\* A range of an object, and how its sole location, or the loop over its
\* locations, keeps to it.
LEMMA RangeIsKept ==
    ASSUME NEW object, WellLaid(object), NEW range \in ValidRanges(object)
    PROVE  /\ range[1] \in Nat /\ range[2] \in Nat /\ range[1] <= range[2] /\ range # None
           /\ range[2] < Length(object)
           /\ Spans(SetPartRanges(object, range), object[1].key[1], range[1], range[2] + 1)
  <1> DEFINE p == object[1].key[1]
  <1>1. /\ object \in Seq(LocRec) /\ Len(object) \in Nat /\ Len(object) > 0
        /\ Length(object) \in Nat /\ Length(object) > 0
        /\ \A i \in 1..Len(object) : IsLocation(object[i], p) /\ object[i].range = None
    BY LaidOut
  <1>2. PICK begin \in Nat, end \in Nat : range = <<begin, end>> /\ begin <= end
                                         /\ end < Length(object)
    BY <1>1 DEF ValidRanges
  <1>3. range # None /\ range[1] = begin /\ range[2] = end
    BY <1>2, ReadAssumption
  <1>4. PICK max \in Nat : max = end - begin + 1 /\ max > 0 /\ begin + max = end + 1
    BY <1>2
  <1>5. CASE Len(object) = 1
    <2>1. PICK loc : loc = object[1]
      OBVIOUS
    <2>2. /\ IsLocation(loc, p) /\ loc.range = None /\ loc.start = 0
          /\ loc.size = Length(object) /\ loc.size \in Nat
      BY <1>5, <2>1, LaidOut
    <2>3. SetPartRanges(object, range) = << Cut(loc, begin, end) >>
      <3>1. SetPartRanges(object, range)
              = << [loc EXCEPT !.range = <<begin, end>>, !.size = Lower(@, end - begin + 1)] >>
        BY <1>2, <1>3, <1>5, <2>1 DEF SetPartRanges
      <3>2. Lower(loc.size, end - begin + 1) = end - begin + 1
        BY <1>2, <2>2 DEF Lower
      <3> QED  BY <3>1, <3>2 DEF Cut
    <2>4. PICK cut : cut = Cut(loc, begin, end)
      OBVIOUS
    <2>5. IsLocation(cut, p) /\ FirstOf(cut) = begin /\ AfterOf(cut) = end + 1
      <3>1. /\ IsLocation(Cut(loc, begin, end), p)
            /\ FirstOf(Cut(loc, begin, end)) = loc.start + begin
            /\ AfterOf(Cut(loc, begin, end)) = loc.start + end + 1
        BY <1>2, <2>2, CutLocation
      <3> QED  BY <2>2, <2>4, <3>1
    <2>6. Spans(Append(<<>>, cut), p, begin, end + 1)
      <3>1. Spans(<<>>, p, begin, begin)
        BY SpansNothing
      <3> QED  BY <2>5, <3>1, SpansOneMore
    <2>7. Append(<<>>, cut) = <<cut>>
      OBVIOUS
    <2> QED  BY <1>2, <1>3, <2>3, <2>4, <2>6, <2>7
  <1>6. CASE Len(object) # 1
    <2> DEFINE G == CHOOSE g : g = Loop(g, object, begin, max)
               S == {k \in 0..Len(object) :
                        Gathers(G[k], p, begin, max, IF k = 0 THEN 0
                                                 ELSE object[k].start + object[k].size)}
    <2>1. G = Loop(G, object, begin, max)
      BY <1>1, LoopRuns
    <2>2. SetPartRanges(object, range) = G[Len(object)].locs
      BY <1>3, <1>4, <1>6 DEF SetPartRanges, Loop, NoneYet
    <2> HIDE DEF G
    <2>3. G[0] = NoneYet
          /\ \A k \in 1..Len(object) : G[k] = AddLocation(G[k - 1], object[k], begin, max)
      BY <1>1, <2>1 DEF Loop
    <2>4. 0 \in S
      <3>1. Gathers(NoneYet, p, begin, max, 0)
        BY <1>2 DEF Gathers, NoneYet, AccRec
      <3> QED  BY <1>1, <2>3, <3>1
    <2>5. ASSUME NEW k \in Nat, k < Len(object), k \in S  PROVE k + 1 \in S
      <3>1. k + 1 \in 1..Len(object) /\ (k + 1) - 1 = k
        BY <1>1, <2>5
      <3>2. PICK e \in Nat : e = IF k = 0 THEN 0 ELSE object[k].start + object[k].size
        BY <1>1, <2>5, LaidOut
      <3>3. PICK loc : loc = object[k + 1]
        OBVIOUS
      <3>4. IsLocation(loc, p) /\ loc.range = None
        BY <1>1, <3>1, <3>3
      <3>5. loc.start = e
        <4>1. CASE k = 0
          BY <3>2, <3>3, <4>1, LaidOut
        <4>2. CASE k # 0
          BY <2>5, <3>2, <3>3, <4>2, LaidOut
        <4> QED  BY <4>1, <4>2
      <3>6. Gathers(G[k], p, begin, max, e)
        BY <2>5, <3>2
      <3>7. PICK acc : acc = G[k]
        OBVIOUS
      <3>8. Gathers(AddLocation(acc, loc, begin, max), p, begin, max, e + loc.size)
        BY <1>4, <3>4, <3>5, <3>6, <3>7, AddLocationGathers
      <3>9. G[k + 1] = AddLocation(acc, loc, begin, max)
        BY <2>3, <3>1, <3>3, <3>7
      <3>10. Gathers(G[k + 1], p, begin, max, object[k + 1].start + object[k + 1].size)
        BY <3>3, <3>5, <3>8, <3>9
      <3> QED  BY <3>1, <3>10
    <2>6. Gathers(G[Len(object)], p, begin, max, Length(object))
      <3>1. 0..Len(object) \subseteq S
        <4> HIDE DEF S
        <4> QED  BY <1>1, <2>4, <2>5, StepByStep
      <3>2. Len(object) \in S
        BY <1>1, <3>1
      <3> QED  BY <1>1, <3>2 DEF Length
    <2>7. Spans(G[Len(object)].locs, p, begin, begin + max)
      <3>1. begin + max <= Length(object) /\ ~(Length(object) <= begin)
        BY <1>1, <1>2, <1>4
      <3>2. PICK e \in Nat : e = Length(object)
        BY <1>1
      <3> QED  BY <2>6, <3>1, <3>2 DEF Gathers
    <2> QED  BY <1>2, <1>3, <1>4, <2>2, <2>7
  <1> QED  BY <1>5, <1>6

\* The bytes of the object of p from b to before e.
BytesFrom(p, b, e) == [j \in 1..(e - b) |-> <<p, b + j - 1>>]

\* Where the range of a read begins and ends.
BeginOf(c) == IF c.range = None THEN 0 ELSE c.range[1]
EndOf(c) == IF c.range = None THEN Length(c.object) ELSE c.range[2] + 1

\* A read: the bytes up to m were returned, what is left are those from m on.
ReadsUpTo(c, m) ==
    LET p == c.object[1].key[1]
    IN  /\ BeginOf(c) <= m /\ c.got = BytesFrom(p, BeginOf(c), m)
        /\ Spans(c.left, p, m, EndOf(c))

Reads(c) ==
    /\ c = [op |-> c.op, object |-> c.object, range |-> c.range,
            locs |-> c.locs, left |-> c.left, got |-> c.got]
    /\ c.op \in {"get", "copyPart"}
    /\ WellLaid(c.object)
    /\ c.range = None \/ c.range \in ValidRanges(c.object)
    /\ Spans(c.locs, c.object[1].key[1], BeginOf(c), EndOf(c))
    /\ \E m \in Nat : ReadsUpTo(c, m)

\* The size that HEAD told of a part is that of the object it read.
Tells(c) ==
    WellLaid(c.object) /\ c.number \in Nat /\ c.size = GetPartSize(c.object, c.number)

ReadCalls == {"idle", "stream", "deleteOverwritten", "ok", "failed"}

\* What a request carries to its next call.
Fits(call, c) ==
    /\ call = "stream" => Reads(c)
    /\ call = "deleteOverwritten" => c.op = "put"
    /\ call = "ok" =>
        /\ c.op \in {"get", "copyPart"} => Reads(c) /\ c.left = <<>>
        /\ c.op = "head" => Tells(c)

\* The record is well laid, and what a read returned are the first of the bytes it
\* was asked for, what it has left the others, all of the record it read.
ReadInv ==
    /\ store = [object |-> store.object, data |-> store.data]
    /\ WellLaid(store.object)
    /\ pc \in [Reqs -> ReadCalls] /\ DOMAIN ctx = Reqs
    /\ \A r \in Reqs : Fits(pc[r], ctx[r])

\* The first and the last of some of the locations.
Least(T) == CHOOSE i \in T : \A j \in T : i <= j
Latest(T) == CHOOSE i \in T : \A j \in T : j <= i

\* CHOOSE finds them.
LEMMA EndsOfSome ==
    ASSUME NEW n \in Nat, NEW T \in SUBSET (1..n), T # {}
    PROVE  /\ Least(T) \in T /\ Latest(T) \in T
           /\ \A i \in T : Least(T) <= i /\ i <= Latest(T)
  <1>1. \E i \in T : \A j \in T : i <= j
    BY LeastNumber
  <1>2. \E i \in T : \A j \in T : j <= i
    <2> DEFINE U == {n - i : i \in T}
    <2>1. U \in SUBSET Nat /\ U # {}
      <3>1. \A i \in T : n - i \in Nat
        OBVIOUS
      <3> QED  BY <3>1
    <2>2. PICK u \in U : \A v \in U : u <= v
      <3> HIDE DEF U
      <3> QED  BY <2>1, LeastNumber
    <2>3. PICK i \in T : u = n - i
      BY <2>2
    <2>4. ASSUME NEW j \in T PROVE j <= i
      <3>1. n - j \in U
        OBVIOUS
      <3>2. n - i <= n - j
        BY <2>2, <2>3, <3>1
      <3>3. i \in Nat /\ j \in Nat
        OBVIOUS
      <3> QED  BY <3>2, <3>3
    <2> QED  BY <2>4
  <1> QED  BY <1>1, <1>2 DEF Least, Latest

\* The locations of a part are a stretch of the object's.
LEMMA PartIsStretch ==
    ASSUME NEW object, WellLaid(object), NEW number \in Nat
    PROVE  \/ /\ PartLocations(object, number) = <<>>
              /\ \A i \in 1..Len(object) : object[i].part # number
           \/ \E f, l \in 1..Len(object) :
                /\ f <= l /\ PartLocations(object, number) = SubSeq(object, f, l)
                /\ object[f].part = number
  <1> DEFINE of == {i \in DOMAIN object : object[i].part = number}
  <1>1. PartLocations(object, number)
          = IF of = {} THEN <<>> ELSE SubSeq(object, Least(of), Latest(of))
    BY DEF PartLocations, Least, Latest
  <1>2. Len(object) \in Nat /\ DOMAIN object = 1..Len(object)
    BY LaidOut
  <1>3. CASE of = {}
    BY <1>1, <1>2, <1>3
  <1>4. CASE of # {}
    <2>1. of \in SUBSET (1..Len(object))
      BY <1>2
    <2>2. /\ Least(of) \in of /\ Latest(of) \in of /\ Least(of) <= Latest(of)
      <3> HIDE DEF of
      <3> QED  BY <1>2, <1>4, <2>1, EndsOfSome
    <2>3. object[Least(of)].part = number
      BY <2>2
    <2> HIDE DEF of
    <2> QED  BY <1>1, <1>4, <2>1, <2>2, <2>3
  <1> QED  BY <1>3, <1>4

\* The span of a part is a range of the object, and the sum of the sizes of its
\* locations.
LEMMA SpanOfPart ==
    ASSUME NEW object, WellLaid(object), NEW f \in 1..Len(object),
           NEW l \in 1..Len(object),
           f <= l
    PROVE  LET of == SubSeq(object, f, l)
           IN  /\ of # <<>> /\ SpanOf(of) \in ValidRanges(object)
               /\ SpanOf(of)[2] - SpanOf(of)[1] + 1 = SizeUpTo(of)[Len(of)]
  <1> DEFINE of == SubSeq(object, f, l)
             n == l - f + 1
  <1>1. /\ object \in Seq(LocRec) /\ Len(object) \in Nat
    BY LaidOut
  <1>2. /\ n = l - f + 1 /\ n \in Nat /\ n > 0 /\ Len(of) = n /\ of \in Seq(LocRec)
        /\ \A k \in 1..n : of[k] = object[f + k - 1]
    BY <1>1
  <1>3. of # <<>>
    BY <1>2
  <1>4. \A k \in 1..n : /\ of[k].start \in Nat /\ of[k].size \in Nat /\ of[k].size > 0
                        /\ k < n => of[k + 1].start = of[k].start + of[k].size
    <2> SUFFICES ASSUME NEW k \in 1..n
                 PROVE  /\ of[k].start \in Nat /\ of[k].size \in Nat /\ of[k].size > 0
                        /\ k < n => of[k + 1].start = of[k].start + of[k].size
      OBVIOUS
    <2> HIDE DEF of
    <2>1. PICK i \in 1..Len(object) : i = f + k - 1
      BY <1>1
    <2>2. of[k] = object[i]
      BY <1>2, <2>1
    <2>3. k < n => of[k + 1] = object[i + 1] /\ i < Len(object)
      <3>1. SUFFICES ASSUME k < n PROVE of[k + 1] = object[i + 1] /\ i < Len(object)
        OBVIOUS
      <3>2. k + 1 \in 1..n /\ f + (k + 1) - 1 = i + 1
        BY <2>1, <3>1
      <3> QED  BY <1>1, <1>2, <2>1, <3>1, <3>2
    <2> QED  BY <2>2, <2>3, LaidOut
  <1> HIDE DEF of, n
  <1>5. SizeUpTo(of)[0] = 0
        /\ \A k \in 1..n : SizeUpTo(of)[k] = SizeUpTo(of)[k - 1] + of[k].size
    BY <1>2, <1>4, SizeGrows
  <1>6. SizeUpTo(of)[n] = of[n].start + of[n].size - of[1].start
    <2> DEFINE S == {k \in 0..n : k > 0 => SizeUpTo(of)[k] = of[k].start + of[k].size - of[1].start}
    <2>1. 0 \in S
      BY <1>2
    <2>2. ASSUME NEW k \in Nat, k < n, k \in S  PROVE k + 1 \in S
      <3>1. k + 1 \in 1..n /\ (k + 1) - 1 = k /\ 1 \in 1..n
        BY <1>2, <2>2
      <3>2. SizeUpTo(of)[k + 1] = SizeUpTo(of)[k] + of[k + 1].size
        BY <1>5, <3>1
      <3>3. SizeUpTo(of)[k + 1] = of[k + 1].start + of[k + 1].size - of[1].start
        <4>1. CASE k = 0
          BY <1>4, <1>5, <3>1, <3>2, <4>1
        <4>2. CASE k # 0
          <5>1. k \in 1..n /\ k < n
            BY <2>2, <4>2
          <5>2. PICK a \in Nat, b \in Nat, c \in Nat, d \in Nat, x \in Nat :
                    /\ a = of[1].start /\ b = of[k].start /\ c = of[k].size
                    /\ d = of[k + 1].size /\ x = of[k + 1].start
            BY <1>4, <3>1, <5>1
          <5>3. x = b + c
            BY <1>4, <5>1, <5>2
          <5>4. SizeUpTo(of)[k] = b + c - a
            BY <2>2, <5>1, <5>2
          <5>5. SizeUpTo(of)[k + 1] = x + d - a
            <6>1. PICK s, t : s = SizeUpTo(of)[k] /\ t = SizeUpTo(of)[k + 1]
              OBVIOUS
            <6>2. t = s + d
              BY <3>2, <5>2, <6>1
            <6>3. s = b + c - a
              BY <5>4, <6>1
            <6>4. t = x + d - a
              BY <5>3, <6>2, <6>3
            <6> QED  BY <6>1, <6>4
          <5> QED  BY <5>2, <5>5
        <4> QED  BY <4>1, <4>2
      <3> QED  BY <2>2, <3>1, <3>3
    <2>3. n \in S
      <3> HIDE DEF S, n
      <3>1. 0..n \subseteq S
        BY <1>2, <2>1, <2>2, StepByStep
      <3> QED  BY <1>2, <3>1
    <2> QED  BY <1>2, <2>3
  <1>7. /\ Length(of) = of[n].start + of[n].size
        /\ SpanOf(of) = <<of[1].start, Length(of) - 1>>
    <2>1. Length(of) = of[n].start + of[n].size
      BY <1>2 DEF Length
    <2> QED  BY <2>1 DEF SpanOf
  <1>8. of[1] = object[f] /\ of[n] = object[l]
    <2>1. f + 1 - 1 = f /\ f + n - 1 = l /\ 1 \in 1..n /\ n \in 1..n
      BY <1>2
    <2> QED  BY <1>2, <2>1
  <1>9. SpanOf(of) \in ValidRanges(object)
    <2>1. /\ object[f].start \in Nat /\ object[f].size > 0 /\ object[f].size \in Nat
          /\ object[l].start \in Nat /\ object[l].size \in Nat /\ object[l].size > 0
          /\ Length(object) \in Nat
      BY LaidOut
    <2>2. /\ object[f].start <= object[l].start
          /\ object[l].start + object[l].size <= Length(object)
      <3>1. Len(object) \in 1..Len(object) /\ l <= Len(object)
        BY <1>1
      <3>2. Length(object) = object[Len(object)].start + object[Len(object)].size
        BY LaidOut
      <3> QED  BY <3>1, <3>2, LocationsAscend
    <2>3. PICK b \in Nat, e \in Nat : b = object[f].start /\ e = object[l].start + object[l].size - 1
      BY <2>1
    <2>4. b \in 0..(Length(object) - 1) /\ e \in 0..(Length(object) - 1) /\ b <= e
      <3>1. PICK fs \in Nat, ls \in Nat, lz \in Nat, whole \in Nat :
               /\ fs = object[f].start /\ ls = object[l].start
               /\ lz = object[l].size /\ whole = Length(object)
        BY <2>1
      <3>2. fs <= ls /\ ls + lz <= whole /\ lz > 0
        BY <2>1, <2>2, <3>1
      <3>3. b = fs /\ e = ls + lz - 1
        BY <2>3, <3>1
      <3>4. /\ fs \in Nat /\ ls \in Nat /\ lz \in Nat /\ whole \in Nat
            /\ b \in Nat /\ e \in Nat
        BY <2>3, <3>1
      <3>5. b < whole /\ e < whole /\ b <= e
        BY ONLY <3>2, <3>3, <3>4
      <3>6. b \in 0..(whole - 1) /\ e \in 0..(whole - 1)
        BY ONLY <3>4, <3>5
      <3>7. whole = Length(object)
        BY <3>1
      <3> QED  BY <3>5, <3>6, <3>7
    <2>5. SpanOf(of) = <<b, e>>
      <3>1. Length(of) - 1 = e /\ of[1].start = b
        BY <1>7, <1>8, <2>1, <2>3
      <3> QED  BY <1>7, <3>1
    <2> QED  BY <2>4, <2>5 DEF ValidRanges
  <1>10. SpanOf(of)[2] - SpanOf(of)[1] + 1 = SizeUpTo(of)[Len(of)]
    <2>1. of[1].start \in Nat /\ of[n].start \in Nat /\ of[n].size \in Nat
      BY <1>2, <1>4
    <2>2. PICK a \in Nat, b \in Nat, c \in Nat :
              a = of[1].start /\ b = of[n].start /\ c = of[n].size
      BY <2>1
    <2>3. Length(of) = b + c /\ SizeUpTo(of)[Len(of)] = b + c - a
      BY <1>2, <1>6, <1>7, <2>2
    <2>4. PICK e : e = Length(of) - 1
      OBVIOUS
    <2>5. SpanOf(of) = <<a, e>> /\ e = b + c - 1
      <3>1. SpanOf(of) = <<a, e>>
        BY <1>7, <2>2, <2>4
      <3>2. e = b + c - 1
        BY <2>3, <2>4
      <3> QED  BY <3>1, <3>2
    <2>6. SpanOf(of)[2] - SpanOf(of)[1] + 1 = b + c - a
      BY <2>5
    <2> QED  BY <2>3, <2>6
  <1> QED  BY <1>3, <1>9, <1>10 DEF of

\* When no part number is left out HEAD tells what the parts sum up to.
LEMMA HeadIsPart ==
    ASSUME NEW object, WellLaid(object), NEW number \in Nat,
           LET numbers == {object[i].part : i \in DOMAIN object}
           IN  numbers = 1..Cardinality(numbers)
    PROVE  LET of == PartLocations(object, number)
           IN  GetPartSize(object, number) = IF of = <<>> THEN None ELSE SizeUpTo(of)[Len(of)]
  <1> DEFINE numbers == {object[i].part : i \in DOMAIN object}
             of == PartLocations(object, number)
  <1>1. Len(object) \in Nat /\ DOMAIN object = 1..Len(object)
    BY LaidOut
  <1>2. CASE of = <<>>
    BY <1>2 DEF GetPartSize
  <1>3. CASE of # <<>>
    <2>1. PICK f \in 1..Len(object), l \in 1..Len(object) :
              f <= l /\ of = SubSeq(object, f, l) /\ object[f].part = number
      <3> HIDE <1>1
      <3> QED  BY <1>3, PartIsStretch
    <2>2. SpanOf(of)[2] - SpanOf(of)[1] + 1 = SizeUpTo(of)[Len(of)]
      BY <2>1, SpanOfPart
    <2>3. number <= Len(object)
      <3>1. number \in numbers
        BY <1>1, <2>1
      <3>2. IsFiniteSet(1..Len(object)) /\ Cardinality(1..Len(object)) = Len(object)
        <4>1. PICK n \in Nat : n = Len(object)
          BY <1>1
        <4>2. IsFiniteSet(1..n) /\ Cardinality(1..n) = IF 1 > n THEN 0 ELSE n - 1 + 1
          <5>1. n \in Nat
            OBVIOUS
          <5> QED  BY ONLY <5>1, FS_Interval
        <4> QED  BY <4>1, <4>2
      <3>3. PICK S, part : S = 1..Len(object) /\ part = [i \in S |-> object[i].part]
        OBVIOUS
      <3>4. part \in Surjection(S, numbers)
        BY <1>1, <3>3 DEF Surjection
      <3>5. PICK T : T = numbers
        OBVIOUS
      <3>6. Cardinality(T) <= Cardinality(S) /\ IsFiniteSet(T)
        BY <3>2, <3>3, <3>4, <3>5, FS_Surjection
      <3>7. T = 1..Cardinality(T) /\ number \in T
        BY <3>1, <3>5
      <3>8. Cardinality(T) \in Nat
        BY <3>6, FS_CardinalityType
      <3>9. number <= Cardinality(T)
        BY <3>7, <3>8
      <3> QED  BY <1>1, <3>2, <3>3, <3>6, <3>8, <3>9
    <2>4. GetPartSize(object, number) = SpanOf(of)[2] - SpanOf(of)[1] + 1
      <3>1. ~(Len(object) < number)
        BY <1>1, <2>3
      <3> QED  BY <1>3, <3>1 DEF GetPartSize
    <2> QED  BY <1>3, <2>2, <2>4
  <1> QED  BY <1>2, <1>3

\* The sizes and parts of some locations.
SizeAndPart == [size: Nat \ {0}, part: Nat]

\* The locations that a put recorded are well laid.
LEMMA LocationsAreLaid ==
    ASSUME NEW p \in Reqs \cup {First}, NEW shape \in Seq(SizeAndPart), shape # <<>>,
           \A i, j \in 1..Len(shape) : i <= j => shape[i].part <= shape[j].part
    PROVE  WellLaid(Locations(p, shape))
  <1> DEFINE n == Len(shape)
             object == Locations(p, shape)
             size == SizeUpTo(shape)
  <1>1. n \in Nat /\ n > 0 /\ DOMAIN shape = 1..n
    BY EmptySeq
  <1>2. \A i \in 1..n : shape[i].size \in Nat /\ shape[i].size > 0 /\ shape[i].part \in Nat
    <2>1. \A i \in 1..n : shape[i] \in SizeAndPart
      BY <1>1
    <2> QED  BY <2>1 DEF SizeAndPart
  <1>3. size[0] = 0 /\ \A i \in 1..n : size[i] = size[i - 1] + shape[i].size
    <2>1. \A i \in 1..Len(shape) : shape[i].size \in Nat
      BY <1>2
    <2> QED  BY <1>1, <2>1, SizeGrows
  <1> HIDE DEF size
  <1>4. \A i \in 0..n : size[i] \in Nat
    <2> DEFINE S == {i \in 0..n : size[i] \in Nat}
    <2>1. 0 \in S
      BY <1>1, <1>3
    <2>2. ASSUME NEW k \in Nat, k < n, k \in S  PROVE k + 1 \in S
      <3>1. k + 1 \in 1..n /\ (k + 1) - 1 = k
        BY <1>1, <2>2
      <3>2. size[k + 1] = size[k] + shape[k + 1].size
        BY <1>3, <3>1
      <3> QED  BY <1>2, <2>2, <3>1, <3>2
    <2> HIDE DEF S, n
    <2>3. 0..n \subseteq S
      BY <1>1, <2>1, <2>2, StepByStep
    <2> QED  BY <2>3 DEF S
  <1>5. object = [i \in 1..n |-> [key |-> <<p, i>>, start |-> size[i - 1], size |-> shape[i].size,
                                  part |-> shape[i].part, range |-> None]]
    BY <1>1 DEF Locations, size
  <1> HIDE DEF object, n
  <1>6. \A i \in 1..n : /\ object[i] \in LocRec /\ object[i].key[1] = p
                        /\ object[i].range = None /\ object[i].part = shape[i].part
                        /\ FirstOf(object[i]) = size[i - 1]
                        /\ AfterOf(object[i]) = size[i]
                        /\ object[i].start + object[i].size = size[i]
                        /\ object[i].size = shape[i].size
    <2> SUFFICES ASSUME NEW i \in 1..n
                 PROVE  /\ object[i] \in LocRec /\ object[i].key[1] = p
                        /\ object[i].range = None /\ object[i].part = shape[i].part
                        /\ FirstOf(object[i]) = size[i - 1]
                        /\ AfterOf(object[i]) = size[i]
                        /\ object[i].start + object[i].size = size[i]
                        /\ object[i].size = shape[i].size
      OBVIOUS
    <2>1. i - 1 \in 0..n /\ i \in Nat
      BY <1>1
    <2>2. size[i - 1] \in Nat
      BY <1>4, <2>1
    <2>3. object[i] = [key |-> <<p, i>>, start |-> size[i - 1], size |-> shape[i].size,
                       part |-> shape[i].part, range |-> None]
      BY <1>5
    <2>4. shape[i].size \in Nat /\ shape[i].size > 0 /\ shape[i].part \in Nat
      BY <1>2
    <2>5. object[i] \in LocRec
      BY <2>1, <2>2, <2>3, <2>4 DEF LocRec
    <2>6. size[i - 1] + shape[i].size = size[i]
      BY <1>3
    <2> QED  BY <2>3, <2>5, <2>6 DEF FirstOf, AfterOf
  <1>7. /\ object \in Seq(LocRec) /\ Len(object) = n /\ object # <<>>
    <2>1. object \in [1..n -> LocRec]
      BY <1>5, <1>6
    <2> QED  BY <1>1, <2>1
  <1>8. \A i \in 1..n : IsLocation(object[i], p)
    <2> SUFFICES ASSUME NEW i \in 1..n PROVE IsLocation(object[i], p)
      OBVIOUS
    <2>1. size[i] = size[i - 1] + shape[i].size /\ shape[i].size > 0
          /\ size[i - 1] \in Nat
          /\ shape[i].size \in Nat
      <3>1. i - 1 \in 0..n
        BY <1>1
      <3> QED  BY <1>2, <1>3, <1>4, <3>1
    <2>2. PICK a \in Nat, b \in Nat, c \in Nat : a = size[i - 1] /\ b = shape[i].size /\ c = size[i]
      BY <2>1
    <2>3. a < c /\ b = c - a
      BY <2>1, <2>2
    <2> QED  BY <1>6, <2>2, <2>3 DEF IsLocation
  <1>9. Length(object) = size[n] /\ 1 \in 1..n /\ n \in 1..n
    BY <1>1, <1>6, <1>7 DEF Length
  <1>10. Spans(object, p, 0, Length(object))
    <2>1. FirstOf(object[1]) = 0
      BY <1>3, <1>6, <1>9
    <2>2. AfterOf(object[n]) = Length(object)
      BY <1>6, <1>9
    <2>3. ASSUME NEW i \in 1..n, i < n
          PROVE FirstOf(object[i + 1]) = AfterOf(object[i])
      <3>1. i + 1 \in 1..n /\ (i + 1) - 1 = i
        BY <1>1, <2>3
      <3> QED  BY <1>6, <3>1
    <2> QED  BY <1>7, <1>8, <2>1, <2>2, <2>3 DEF Spans
  <1>11. object[1].key[1] = p
    BY <1>6, <1>9
  <1>12. \A i, j \in 1..n : i <= j => object[i].part <= object[j].part
    BY <1>6 DEF n
  <1>13. WellLaid(object)
    BY <1>6, <1>7, <1>10, <1>11, <1>12 DEF WellLaid
  <1> QED  BY <1>13 DEF object

\* The objects of a behaviour have some locations, the parts in their order.
LEMMA ShapesAscend ==
    ASSUME NEW shape \in Shapes \cup {NewShape}
    PROVE  /\ shape \in Seq(SizeAndPart) /\ shape # <<>>
           /\ \A i, j \in 1..Len(shape) : i <= j => shape[i].part <= shape[j].part
  <1>1. CASE shape = NewShape
    <2>1. /\ Len(NewShape) = 2 /\ NewShape[1].part = 1 /\ NewShape[2].part = 1
          /\ NewShape \in Seq(SizeAndPart) /\ NewShape # <<>>
      BY DEF NewShape, SizeAndPart
    <2>2. \A i \in 1..2 : NewShape[i].part = 1
      BY <2>1
    <2> QED  BY <1>1, <2>1, <2>2
  <1>2. CASE shape \in Shapes
    <2>1. PICK n \in 1..3 : /\ shape \in [1..n -> [size : {1, 3}, part : 1..3]]
                            /\ \A i, j \in 1..n : i < j => shape[i].part <= shape[j].part
      BY <1>2 DEF Shapes
    <2>2. [size : {1, 3}, part : 1..3] \subseteq SizeAndPart
      BY DEF SizeAndPart
    <2>3. shape \in [1..n -> SizeAndPart] /\ n \in Nat
      BY <2>1, <2>2
    <2>4. shape \in Seq(SizeAndPart) /\ Len(shape) = n
      BY <2>3
    <2>5. shape # <<>>
      BY <2>1, <2>4
    <2>6. ASSUME NEW i \in 1..n, NEW j \in 1..n, i <= j
          PROVE shape[i].part <= shape[j].part
      <3>1. shape[i].part \in Nat
        BY <2>3 DEF SizeAndPart
      <3>2. CASE i = j
        BY <3>1, <3>2
      <3>3. CASE i < j
        BY <2>1, <3>3
      <3> QED  BY <2>6, <3>2, <3>3
    <2> QED  BY <2>4, <2>5, <2>6
  <1> QED  BY <1>1, <1>2

\* The bytes of a location.
LEMMA BytesOfLocation ==
    ASSUME NEW p, NEW loc, IsLocation(loc, p)
    PROVE  /\ BytesOf(loc) = BytesFrom(p, FirstOf(loc), AfterOf(loc))
           /\ Len(BytesOf(loc)) = loc.size
  <1>1. /\ loc \in LocRec /\ loc.key[1] = p /\ FirstOf(loc) \in Nat
        /\ AfterOf(loc) \in Nat
        /\ loc.size = AfterOf(loc) - FirstOf(loc) /\ FirstOf(loc) < AfterOf(loc)
    BY BoundsOfLocation DEF IsLocation
  <1>2. loc.start \in Nat /\ loc.size \in Nat
        /\ (loc.range # None => loc.range \in Nat \X Nat)
    BY <1>1 DEF LocRec
  <1>3. PICK span : span = IF loc.range = None THEN <<0, loc.size - 1>> ELSE loc.range
    OBVIOUS
  <1>4. PICK a \in Int, z \in Int : a = span[1] /\ z = span[2]
    BY <1>2, <1>3
  <1>5. FirstOf(loc) = loc.start + a /\ AfterOf(loc) = loc.start + z + 1
    <2>1. CASE loc.range = None
      BY <1>2, <1>3, <1>4, <2>1 DEF FirstOf, AfterOf
    <2>2. CASE loc.range # None
      BY <1>2, <1>3, <1>4, <2>2 DEF FirstOf, AfterOf
    <2> QED  BY <2>1, <2>2
  <1>6. BytesOf(loc) = [j \in 1..(z - a + 1) |-> <<p, loc.start + a + j - 1>>]
    BY <1>1, <1>3, <1>4 DEF BytesOf
  <1>7. AfterOf(loc) - FirstOf(loc) = z - a + 1
    BY <1>2, <1>5
  <1>8. BytesOf(loc) = BytesFrom(p, FirstOf(loc), AfterOf(loc))
    BY <1>2, <1>5, <1>6, <1>7 DEF BytesFrom
  <1>9. Len(BytesOf(loc)) = z - a + 1
    <2>1. PICK n \in Nat : n = z - a + 1
      BY <1>1, <1>7
    <2>2. BytesOf(loc) = [j \in 1..n |-> <<p, loc.start + a + j - 1>>]
      BY <1>6, <2>1
    <2> QED  BY <2>1, <2>2
  <1> QED  BY <1>1, <1>7, <1>8, <1>9

\* Bytes that go on where others end.
LEMMA BytesJoin ==
    ASSUME NEW p, NEW b \in Nat, NEW m \in Nat, NEW e \in Nat, b <= m, m <= e
    PROVE  BytesFrom(p, b, m) \o BytesFrom(p, m, e) = BytesFrom(p, b, e)
  <1> DEFINE s == BytesFrom(p, b, m)
             t == BytesFrom(p, m, e)
             u == BytesFrom(p, b, e)
             Places == {<<p, k>> : k \in Nat}
  <1>1. ASSUME NEW x \in Nat, NEW y \in Nat, x <= y
        PROVE  /\ BytesFrom(p, x, y) \in Seq(Places) /\ Len(BytesFrom(p, x, y)) = y - x
               /\ \A j \in 1..(y - x) : BytesFrom(p, x, y)[j] = <<p, x + j - 1>>
    <2>1. PICK n \in Nat : n = y - x
      BY <1>1
    <2>2. \A j \in 1..n : x + j - 1 \in Nat
      OBVIOUS
    <2>3. BytesFrom(p, x, y) = [j \in 1..n |-> <<p, x + j - 1>>]
      BY <2>1 DEF BytesFrom
    <2>4. BytesFrom(p, x, y) \in [1..n -> Places]
      BY <2>2, <2>3
    <2> HIDE DEF Places
    <2>5. BytesFrom(p, x, y) \in Seq(Places) /\ Len(BytesFrom(p, x, y)) = n
      BY <2>4
    <2>6. \A j \in 1..n : BytesFrom(p, x, y)[j] = <<p, x + j - 1>>
      BY <2>3
    <2> QED  BY <2>1, <2>5, <2>6
  <1>2. b <= e
    OBVIOUS
  <1>3. /\ s \in Seq(Places) /\ Len(s) = m - b
        /\ \A j \in 1..(m - b) : s[j] = <<p, b + j - 1>>
        /\ t \in Seq(Places) /\ Len(t) = e - m
        /\ \A j \in 1..(e - m) : t[j] = <<p, m + j - 1>>
        /\ u \in Seq(Places) /\ Len(u) = e - b
        /\ \A j \in 1..(e - b) : u[j] = <<p, b + j - 1>>
    BY <1>1, <1>2
  <1> HIDE DEF s, t, u, Places
  <1> DEFINE w == s \o t
  <1>4. /\ w \in Seq(Places) /\ Len(w) = Len(s) + Len(t)
        /\ \A i \in 1..Len(s) : w[i] = s[i]
        /\ \A i \in 1..Len(t) : w[Len(s) + i] = t[i]
    <2>1. PICK h : h = s /\ h \in Seq(Places)
      BY <1>3
    <2>2. PICK l : l = t /\ l \in Seq(Places)
      BY <1>3
    <2>3. PICK both : both = h \o l
      OBVIOUS
    <2>4. /\ both \in Seq(Places) /\ Len(both) = Len(h) + Len(l)
          /\ \A i \in 1..(Len(h) + Len(l)) :
                both[i] = IF i <= Len(h) THEN h[i] ELSE l[i - Len(h)]
      BY <2>1, <2>2, <2>3, ConcatProperties
    <2>5. Len(h) \in Nat /\ Len(l) \in Nat
      BY <2>1, <2>2
    <2>6. \A i \in 1..Len(h) : both[i] = h[i]
      BY <2>4, <2>5
    <2>7. \A i \in 1..Len(l) : both[Len(h) + i] = l[i]
      BY <2>4, <2>5
    <2>8. w = both
      BY <2>1, <2>2, <2>3
    <2> HIDE DEF w
    <2> QED  BY <2>1, <2>2, <2>4, <2>6, <2>7, <2>8
  <1> HIDE DEF w
  <1>5. w \in Seq(Places) /\ Len(w) = e - b
    BY <1>3, <1>4
  <1>6. ASSUME NEW j \in 1..(e - b)  PROVE w[j] = u[j]
    <2>1. u[j] = <<p, b + j - 1>>
      BY <1>3
    <2>2. CASE j <= m - b
      <3>1. j \in 1..(m - b)
        BY <2>2
      <3> QED  BY <1>3, <1>4, <2>1, <3>1
    <2>3. CASE ~(j <= m - b)
      <3>1. PICK i \in Nat : i = j - (m - b)
        BY <2>3
      <3>2. i \in 1..(e - m) /\ (m - b) + i = j /\ m + i - 1 = b + j - 1
        BY <2>3, <3>1
      <3>3. w[j] = t[i]
        BY <1>3, <1>4, <3>2
      <3>4. t[i] = <<p, m + i - 1>>
        BY <1>3, <3>2
      <3> QED  BY <2>1, <3>2, <3>3, <3>4
    <2> QED  BY <2>2, <2>3
  <1>7. w = u
    BY <1>3, <1>5, <1>6, SeqEqual
  <1> QED  BY <1>7 DEF s, t, u, w

\* A read starts with all to return and ends with none.
LEMMA ReadStarts ==
    ASSUME NEW object, WellLaid(object), NEW op \in {"get", "copyPart"},
           NEW range, range = None \/ range \in ValidRanges(object)
    PROVE  Reads([op |-> op, object |-> object, range |-> range,
                  locs |-> SetPartRanges(object, range), left |-> SetPartRanges(object, range),
                  got |-> <<>>])
  <1> DEFINE locs == SetPartRanges(object, range)
             c == [op |-> op, object |-> object, range |-> range,
                   locs |-> locs, left |-> locs, got |-> <<>>]
  <1>1. BeginOf(c) \in Nat /\ Spans(locs, object[1].key[1], BeginOf(c), EndOf(c))
    <2>1. CASE range = None
      <3>1. BeginOf(c) = 0 /\ EndOf(c) = Length(object) /\ locs = object
        BY <2>1 DEF BeginOf, EndOf, SetPartRanges
      <3> HIDE DEF locs, c
      <3> QED  BY <3>1 DEF WellLaid
    <2>2. CASE range # None
      <3>1. BeginOf(c) = range[1] /\ EndOf(c) = range[2] + 1
        BY <2>2 DEF BeginOf, EndOf
      <3>2. /\ range[1] \in Nat
            /\ Spans(locs, object[1].key[1], range[1], range[2] + 1)
        BY <2>2, RangeIsKept
      <3> HIDE DEF locs, c
      <3> QED  BY <3>1, <3>2
    <2> QED  BY <2>1, <2>2
  <1>2. /\ c.op = op /\ c.object = object /\ c.range = range /\ c.locs = locs
        /\ c.left = locs /\ c.got = <<>>
        /\ c = [op |-> c.op, object |-> c.object, range |-> c.range,
                locs |-> c.locs, left |-> c.left, got |-> c.got]
    OBVIOUS
  <1> HIDE DEF locs, c
  <1>3. BytesFrom(c.object[1].key[1], BeginOf(c), BeginOf(c)) = <<>>
    <2>1. PICK b \in Nat : b = BeginOf(c)
      BY <1>1
    <2>2. 1..(b - b) = {}
      OBVIOUS
    <2>3. \A p : BytesFrom(p, b, b) = <<>>
      BY <2>2 DEF BytesFrom
    <2> QED  BY <2>1, <2>3
  <1>4. ReadsUpTo(c, BeginOf(c))
    BY <1>1, <1>2, <1>3 DEF ReadsUpTo
  <1>5. Reads(c)
    BY <1>1, <1>2, <1>4 DEF Reads
  <1> QED  BY <1>5 DEF c, locs

\* One more location is returned.
LEMMA ReadGoesOn ==
    ASSUME NEW c, Reads(c), c.left # <<>>
    PROVE  Reads([c EXCEPT !.left = Tail(@), !.got = @ \o BytesOf(Head(c.left))])
  <1> DEFINE d == [c EXCEPT !.left = Tail(@), !.got = @ \o BytesOf(Head(c.left))]
             p == c.object[1].key[1]
  <1>1. PICK m \in Nat : ReadsUpTo(c, m)
    BY DEF Reads
  <1>2. PICK loc : loc = Head(c.left)
    OBVIOUS
  <1>3. IsLocation(loc, p) /\ FirstOf(loc) = m
        /\ Spans(Tail(c.left), p, AfterOf(loc), EndOf(c))
    BY <1>1, <1>2, SpansRest DEF ReadsUpTo
  <1>4. PICK e \in Nat : e = AfterOf(loc) /\ m <= e
    BY <1>3, BoundsOfLocation DEF IsLocation
  <1>5. PICK b \in Nat : b = BeginOf(c)
    <2>1. CASE c.range = None
      BY <2>1 DEF BeginOf
    <2>2. CASE c.range # None
      BY <2>2, RangeIsKept DEF BeginOf, Reads
    <2> QED  BY <2>1, <2>2
  <1>6. BytesOf(loc) = BytesFrom(p, m, e) /\ b <= m /\ c.got = BytesFrom(p, b, m)
    BY <1>1, <1>3, <1>4, <1>5, BytesOfLocation DEF ReadsUpTo
  <1>7. c.got \o BytesOf(loc) = BytesFrom(p, b, e)
    <2>1. BytesFrom(p, b, m) \o BytesFrom(p, m, e) = BytesFrom(p, b, e)
      BY <1>4, <1>6, BytesJoin
    <2> QED  BY <1>6, <2>1, Zenon
  <1>8. c = [op |-> c.op, object |-> c.object, range |-> c.range,
             locs |-> c.locs, left |-> c.left, got |-> c.got]
    BY DEF Reads
  <1>9. d = [op |-> c.op, object |-> c.object, range |-> c.range,
             locs |-> c.locs, left |-> Tail(c.left), got |-> c.got \o BytesOf(loc)]
    <2>1. PICK x, y : x = c.got \o BytesOf(loc) /\ y = Tail(c.left)
      OBVIOUS
    <2>2. d = [c EXCEPT !.left = y, !.got = x]
      BY <1>2, <2>1
    <2>3. PICK next : next = [c EXCEPT !.left = y]
      OBVIOUS
    <2>4. next
            = [op |-> c.op, object |-> c.object, range |-> c.range,
               locs |-> c.locs, left |-> y, got |-> c.got]
      BY <1>8, <2>3
    <2>5. [next EXCEPT !.got = x]
            = [op |-> c.op, object |-> c.object, range |-> c.range,
               locs |-> c.locs, left |-> y, got |-> x]
      BY <2>4
    <2>6. d = [next EXCEPT !.got = x]
      BY <2>2, <2>3
    <2> HIDE DEF d
    <2> QED  BY <2>1, <2>5, <2>6
  <1> HIDE DEF d
  <1>10. /\ d.op = c.op /\ d.object = c.object /\ d.range = c.range /\ d.locs = c.locs
         /\ d.left = Tail(c.left) /\ d.got = c.got \o BytesOf(loc)
         /\ d = [op |-> d.op, object |-> d.object, range |-> d.range,
                 locs |-> d.locs, left |-> d.left, got |-> d.got]
    BY <1>9
  <1>11. BeginOf(d) = b /\ EndOf(d) = EndOf(c)
    BY <1>5, <1>10 DEF BeginOf, EndOf
  <1>12. ReadsUpTo(d, e)
    <2>1. b <= e
      BY <1>4, <1>6
    <2>2. d.got = BytesFrom(p, b, e)
      BY <1>7, <1>10
    <2>3. Spans(d.left, p, e, EndOf(d))
      BY <1>3, <1>4, <1>10, <1>11
    <2> QED  BY <1>10, <1>11, <2>1, <2>2, <2>3 DEF ReadsUpTo
  <1>13. Reads(d)
    <2>1. Spans(d.locs, p, BeginOf(d), EndOf(d))
      BY <1>5, <1>10, <1>11 DEF Reads
    <2> QED  BY <1>10, <1>12, <2>1 DEF Reads
  <1> QED  BY <1>13 DEF d

\* A request's next call, with what it carries to it.
LEMMA CarriesOn ==
    ASSUME ReadInv, NEW r \in Reqs, NEW call \in ReadCalls, NEW c,
           pc' = [pc EXCEPT ![r] = call], ctx' = [ctx EXCEPT ![r] = c],
           Fits(call, c)
    PROVE  pc' \in [Reqs -> ReadCalls] /\ DOMAIN ctx' = Reqs
           /\ \A q \in Reqs : Fits(pc'[q], ctx'[q])
  <1>1. ASSUME NEW q \in Reqs PROVE Fits(pc'[q], ctx'[q])
    <2>1. CASE q = r
      BY <2>1 DEF ReadInv
    <2>2. CASE q # r
      BY <2>2 DEF ReadInv
    <2> QED  BY <2>1, <2>2
  <1> QED  BY <1>1 DEF ReadInv

\* The same when what it carries stays.
LEMMA GoesOn ==
    ASSUME ReadInv, NEW r \in Reqs, NEW call \in ReadCalls,
           pc' = [pc EXCEPT ![r] = call], UNCHANGED ctx, Fits(call, ctx[r])
    PROVE  pc' \in [Reqs -> ReadCalls] /\ DOMAIN ctx' = Reqs
           /\ \A q \in Reqs : Fits(pc'[q], ctx'[q])
  <1>1. ASSUME NEW q \in Reqs PROVE Fits(pc'[q], ctx'[q])
    <2>1. CASE q = r
      BY <2>1 DEF ReadInv
    <2>2. CASE q # r
      BY <2>2 DEF ReadInv
    <2> QED  BY <2>1, <2>2
  <1> QED  BY <1>1 DEF ReadInv

\* What does not write leaves the record well laid.
LEMMA StoreStays ==
    ASSUME ReadInv, UNCHANGED store
    PROVE  store' = [object |-> store'.object, data |-> store'.data] /\ WellLaid(store'.object)
  BY DEF ReadInv

\* A range or a part of the record is read.
LEMMA LocateSteps ==
    ASSUME ReadInv, NEW r \in Reqs, NEW op \in {"get", "copyPart"},
           NEW range, range = None \/ range \in ValidRanges(store.object),
           Locate(r, op, range, store.object)
    PROVE  ReadInv'
  <1> DEFINE c == [op |-> op, object |-> store.object, range |-> range,
                   locs |-> SetPartRanges(store.object, range),
                   left |-> SetPartRanges(store.object, range), got |-> <<>>]
  <1>1. Reads(c)
    BY ReadStarts DEF ReadInv
  <1>2. pc' = [pc EXCEPT ![r] = "stream"] /\ ctx' = [ctx EXCEPT ![r] = c]
        /\ UNCHANGED store
    BY DEF Locate, Carry, Goto
  <1> HIDE DEF c
  <1>3. Fits("stream", c) /\ "stream" \in ReadCalls
    BY <1>1 DEF Fits, ReadCalls
  <1> QED  BY <1>2, <1>3, CarriesOn, StoreStays DEF ReadInv

\* A GET of a part reads its span.
LEMMA GetPartSteps ==
    ASSUME ReadInv, NEW r \in Reqs, ObjectGetPart(r)
    PROVE  ReadInv'
  <1>1. PICK n \in 1..4 :
            LET of == PartLocations(store.object, n)
            IN  IF of = <<>> THEN Refuse(r)
                ELSE Locate(r, "get", SpanOf(of), store.object)
    BY DEF ObjectGetPart
  <1>2. PICK of : of = PartLocations(store.object, n)
    OBVIOUS
  <1>3. CASE of = <<>>
    <2>1. Refuse(r)
      BY <1>1, <1>2, <1>3
    <2>2. pc' = [pc EXCEPT ![r] = "failed"] /\ UNCHANGED <<store, ctx>>
      BY <2>1 DEF Refuse, Goto
    <2>3. Fits("failed", ctx[r]) /\ "failed" \in ReadCalls
      BY DEF Fits, ReadCalls
    <2> QED  BY <2>2, <2>3, GoesOn, StoreStays DEF ReadInv
  <1>4. CASE of # <<>>
    <2>1. Locate(r, "get", SpanOf(of), store.object)
      BY <1>1, <1>2, <1>4
    <2>2. WellLaid(store.object) /\ n \in Nat
      BY DEF ReadInv
    <2>3. PICK f \in 1..Len(store.object), l \in 1..Len(store.object) :
              f <= l /\ of = SubSeq(store.object, f, l)
      <3>1. PICK object : object = store.object
        OBVIOUS
      <3>2. \/ PartLocations(object, n) = <<>>
            \/ \E f, l \in 1..Len(object) :
                  f <= l /\ PartLocations(object, n) = SubSeq(object, f, l)
        BY <2>2, <3>1, PartIsStretch
      <3> QED  BY <1>2, <1>4, <3>1, <3>2
    <2>4. SpanOf(of) \in ValidRanges(store.object)
      BY <2>2, <2>3, SpanOfPart
    <2> QED  BY <2>1, <2>4, LocateSteps
  <1> QED  BY <1>3, <1>4

\* HEAD of a part tells its size.
LEMMA HeadPartSteps ==
    ASSUME ReadInv, NEW r \in Reqs, ObjectHeadPart(r)
    PROVE  ReadInv'
  <1>1. PICK n \in 1..4 :
            Carry(r, [op |-> "head", object |-> store.object, number |-> n,
                      size |-> GetPartSize(store.object, n)])
    BY DEF ObjectHeadPart
  <1>2. PICK c : c = [op |-> "head", object |-> store.object, number |-> n,
                      size |-> GetPartSize(store.object, n)]
    OBVIOUS
  <1>3. pc' = [pc EXCEPT ![r] = "ok"] /\ ctx' = [ctx EXCEPT ![r] = c] /\ UNCHANGED store
    BY <1>1, <1>2 DEF ObjectHeadPart, Carry, Goto
  <1>4. c.op = "head" /\ c.object = store.object /\ c.number = n
        /\ c.size = GetPartSize(store.object, n)
    BY <1>2
  <1>5. Tells(c)
    BY <1>4 DEF Tells, ReadInv
  <1>6. Fits("ok", c) /\ "ok" \in ReadCalls
    BY <1>4, <1>5 DEF Fits, ReadCalls
  <1> QED  BY <1>3, <1>6, CarriesOn, StoreStays DEF ReadInv

\* A location is returned, or its data is gone.
LEMMA StreamSteps ==
    ASSUME ReadInv, NEW r \in Reqs, StreamLocation(r) \/ EndStream(r)
    PROVE  ReadInv'
  <1>1. pc[r] = "stream" /\ Reads(ctx[r])
    BY DEF StreamLocation, EndStream, ReadInv, Fits
  <1>2. CASE StreamLocation(r)
    <2>1. PICK c : c = [ctx[r] EXCEPT !.left = Tail(@), !.got = @ \o BytesOf(Head(ctx[r].left))]
      OBVIOUS
    <2>2. CASE ctx' = [ctx EXCEPT ![r] = c] /\ UNCHANGED <<store, pc>>
      <3>1. Reads(c)
        BY <1>1, <1>2, <2>1, ReadGoesOn DEF StreamLocation
      <3>2. Fits("stream", c) /\ "stream" \in ReadCalls
        BY <3>1 DEF Fits, ReadCalls
      <3>3. pc' = [pc EXCEPT ![r] = "stream"]
        BY <1>1, <2>2 DEF ReadInv
      <3> QED  BY <2>2, <3>2, <3>3, CarriesOn, StoreStays DEF ReadInv
    <2>3. CASE Refuse(r)
      <3>1. pc' = [pc EXCEPT ![r] = "failed"] /\ UNCHANGED <<store, ctx>>
        BY <2>3 DEF Refuse, Goto
      <3>2. Fits("failed", ctx[r]) /\ "failed" \in ReadCalls
        BY DEF Fits, ReadCalls
      <3> QED  BY <3>1, <3>2, GoesOn, StoreStays DEF ReadInv
    <2> QED  BY <1>2, <2>1, <2>2, <2>3 DEF StreamLocation, Carry
  <1>3. CASE EndStream(r)
    <2>1. pc' = [pc EXCEPT ![r] = "ok"] /\ UNCHANGED <<store, ctx>>
          /\ ctx[r].left = <<>>
      BY <1>3 DEF EndStream, Goto
    <2>2. ctx[r].op # "head"
      BY <1>1 DEF Reads
    <2>3. Fits("ok", ctx[r]) /\ "ok" \in ReadCalls
      BY <1>1, <2>1, <2>2 DEF Fits, ReadCalls
    <2> QED  BY <2>1, <2>3, GoesOn, StoreStays DEF ReadInv
  <1> QED  BY <1>2, <1>3

\* The object is overwritten: its record is well laid again.
LEMMA OverwriteSteps ==
    ASSUME ReadInv, NEW r \in Reqs, Overwrite(r) \/ DeleteOverwrittenData(r)
    PROVE  ReadInv'
  <1>1. CASE Overwrite(r)
    <2>1. PICK c : c = [op |-> "put", old |-> store.object]
      OBVIOUS
    <2>2. pc' = [pc EXCEPT ![r] = "deleteOverwritten"] /\ ctx' = [ctx EXCEPT ![r] = c]
      BY <1>1, <2>1 DEF Overwrite, Goto, Carry
    <2>3. WellLaid(Locations(r, NewShape))
      BY ShapesAscend, LocationsAreLaid
    <2>4. PICK object, data : store' = [object |-> object, data |-> data]
                              /\ object = Locations(r, NewShape)
      <3>1. PICK object, data : /\ object = Locations(r, NewShape)
                                /\ data = store.data \cup KeysOf(Locations(r, NewShape))
        OBVIOUS
      <3>2. store' = [store EXCEPT !.object = object, !.data = data]
        BY <1>1, <3>1 DEF Overwrite
      <3>3. store' = [object |-> object, data |-> data]
        BY <3>2 DEF ReadInv
      <3> QED  BY <3>1, <3>3
    <2>5. store' = [object |-> store'.object, data |-> store'.data]
          /\ WellLaid(store'.object)
      BY <2>3, <2>4
    <2>6. Fits("deleteOverwritten", c) /\ "deleteOverwritten" \in ReadCalls
      BY <2>1 DEF Fits, ReadCalls
    <2> QED  BY <2>2, <2>5, <2>6, CarriesOn DEF ReadInv
  <1>2. CASE DeleteOverwrittenData(r)
    <2>1. pc[r] = "deleteOverwritten" /\ ctx[r].op = "put"
      BY <1>2 DEF DeleteOverwrittenData, ReadInv, Fits
    <2>2. pc' = [pc EXCEPT ![r] = "ok"] /\ UNCHANGED ctx
      BY <1>2 DEF DeleteOverwrittenData, Goto
    <2>3. store' = [object |-> store'.object, data |-> store'.data]
          /\ WellLaid(store'.object)
      <3>1. PICK data : store' = [store EXCEPT !.data = data]
        BY <1>2 DEF DeleteOverwrittenData
      <3>2. store' = [object |-> store.object, data |-> data]
        BY <3>1 DEF ReadInv
      <3> QED  BY <3>2 DEF ReadInv
    <2>4. Fits("ok", ctx[r]) /\ "ok" \in ReadCalls
      BY <2>1 DEF Fits, ReadCalls
    <2> QED  BY <2>2, <2>3, <2>4, GoesOn DEF ReadInv
  <1> QED  BY <1>1, <1>2

\* The invariant of the reads.
LEMMA ReadInitially == ReadInit => ReadInv
  <1> SUFFICES ASSUME ReadInit PROVE ReadInv
    OBVIOUS
  <1>1. PICK s \in Shapes :
            store = [object |-> Locations(First, s), data |-> KeysOf(Locations(First, s))]
    BY DEF ReadInit
  <1>2. WellLaid(Locations(First, s))
    BY ShapesAscend, LocationsAreLaid
  <1>3. pc = [r \in Reqs |-> "idle"] /\ ctx = [r \in Reqs |-> None]
    BY DEF ReadInit
  <1>4. pc \in [Reqs -> ReadCalls] /\ DOMAIN ctx = Reqs
    BY <1>3 DEF ReadCalls
  <1>5. \A r \in Reqs : Fits(pc[r], ctx[r])
    BY <1>3 DEF Fits
  <1>6. PICK object, data : store = [object |-> object, data |-> data] /\ WellLaid(object)
    BY <1>1, <1>2
  <1> QED  BY <1>4, <1>5, <1>6 DEF ReadInv

\* Every step keeps it.
LEMMA ReadSteps == ASSUME ReadInv, ReadNext PROVE ReadInv'
  <1>1. PICK r \in Reqs : ReadStep(r) \/ Die(r)
    BY DEF ReadNext
  <1>2. CASE ObjectGet(r)
    <2>1. PICK range \in {None} \cup ValidRanges(store.object) :
              Locate(r, "get", range, store.object)
      BY <1>2 DEF ObjectGet
    <2> QED  BY <2>1, LocateSteps
  <1>3. CASE CopyPartRange(r)
    <2>1. PICK range \in {None} \cup ValidRanges(store.object) :
              Locate(r, "copyPart", range, store.object)
      BY <1>3 DEF CopyPartRange
    <2> QED  BY <2>1, LocateSteps
  <1>4. CASE ObjectGetPart(r) \/ ObjectHeadPart(r) \/ StreamLocation(r) \/ EndStream(r)
             \/ Overwrite(r) \/ DeleteOverwrittenData(r)
    BY <1>4, GetPartSteps, HeadPartSteps, StreamSteps, OverwriteSteps
  <1>5. CASE Die(r)
    <2>1. pc' = [pc EXCEPT ![r] = "failed"] /\ UNCHANGED <<store, ctx>>
      BY <1>5 DEF Die, Goto
    <2>2. Fits("failed", ctx[r]) /\ "failed" \in ReadCalls
      BY DEF Fits, ReadCalls
    <2> QED  BY <2>1, <2>2, GoesOn, StoreStays DEF ReadInv
  <1> QED  BY <1>1, <1>2, <1>3, <1>4, <1>5 DEF ReadStep

\* A read that ended returned what it was asked for, HEAD told the truth.
LEMMA ReadsHold == ReadInv => ReadsAreTrue
  <1> SUFFICES ASSUME ReadInv PROVE ReadsAreTrue
    OBVIOUS
  <1>1. ASSUME NEW r \in Reqs, Answered(r), ctx[r].op \in {"get", "copyPart"}
        PROVE  /\ ctx[r].got = Asked(r)
               /\ \A i \in DOMAIN ctx[r].locs : ctx[r].locs[i].size = Len(BytesOf(ctx[r].locs[i]))
    <2>1. PICK c : c = ctx[r]
      OBVIOUS
    <2>2. Reads(c) /\ c.left = <<>>
      BY <1>1, <2>1 DEF ReadInv, Fits, Answered
    <2>3. PICK p : p = c.object[1].key[1]
      OBVIOUS
    <2>4. c.got = BytesFrom(p, BeginOf(c), EndOf(c))
      <3>1. PICK m \in Nat : ReadsUpTo(c, m)
        BY <2>2 DEF Reads
      <3>2. m = EndOf(c)
        BY <2>2, <3>1 DEF ReadsUpTo, Spans
      <3> QED  BY <2>3, <3>1, <3>2 DEF ReadsUpTo
    <2>5. Asked(r) = BytesFrom(p, BeginOf(c), EndOf(c))
      <3>1. CASE c.range = None
        <4>1. BeginOf(c) = 0 /\ EndOf(c) = Length(c.object) /\ Length(c.object) \in Nat
          BY <2>2, <3>1, LaidOut DEF BeginOf, EndOf, Reads
        <4>2. Asked(r) = [j \in 1..(Length(c.object) - 1 - 0 + 1) |-> <<p, 0 + j - 1>>]
          BY <2>1, <2>3, <3>1 DEF Asked, ObjectOf
        <4>3. PICK n \in Nat : n = Length(c.object)
          BY <4>1
        <4>4. n - 1 - 0 + 1 = n /\ n - 0 = n
          OBVIOUS
        <4> QED  BY <4>1, <4>2, <4>3, <4>4 DEF BytesFrom
      <3>2. CASE c.range # None
        <4>1. /\ BeginOf(c) = c.range[1] /\ EndOf(c) = c.range[2] + 1
              /\ c.range[1] \in Nat /\ c.range[2] \in Nat
          BY <2>2, <3>2, RangeIsKept DEF BeginOf, EndOf, Reads
        <4>2. PICK a \in Nat, z \in Nat : a = c.range[1] /\ z = c.range[2]
          BY <4>1
        <4>3. Asked(r) = [j \in 1..(z - a + 1) |-> <<p, a + j - 1>>]
          BY <2>1, <2>3, <3>2, <4>2 DEF Asked, ObjectOf
        <4>4. z - a + 1 = (z + 1) - a
          OBVIOUS
        <4>5. BytesFrom(p, a, z + 1) = [j \in 1..((z + 1) - a) |-> <<p, a + j - 1>>]
          BY DEF BytesFrom
        <4> QED  BY <4>1, <4>2, <4>3, <4>4, <4>5
      <3> QED  BY <3>1, <3>2
    <2>6. ASSUME NEW i \in DOMAIN c.locs PROVE c.locs[i].size = Len(BytesOf(c.locs[i]))
      <3>1. IsLocation(c.locs[i], p)
        BY <2>2, <2>3 DEF Reads, Spans
      <3> QED  BY <3>1, BytesOfLocation
    <2> QED  BY <2>1, <2>4, <2>5, <2>6
  <1>2. GotWhatWasAsked
    BY <1>1 DEF GotWhatWasAsked
  <1>3. CopiedSizesAreTrue
    BY <1>1 DEF CopiedSizesAreTrue
  <1>4. HeadAgreesWithGet
    <2> SUFFICES ASSUME NEW r \in Reqs, Answered(r), ctx[r].op = "head",
                        LET numbers == {ctx[r].object[i].part : i \in DOMAIN ctx[r].object}
                        IN  numbers = 1..Cardinality(numbers)
                 PROVE  LET of == PartLocations(ctx[r].object, ctx[r].number)
                        IN  ctx[r].size = IF of = <<>> THEN None ELSE SizeUpTo(of)[Len(of)]
      BY DEF HeadAgreesWithGet
    <2>1. Tells(ctx[r])
      BY DEF ReadInv, Fits, Answered
    <2>2. PICK object, number : object = ctx[r].object /\ number = ctx[r].number
      OBVIOUS
    <2>3. WellLaid(object) /\ number \in Nat
          /\ ctx[r].size = GetPartSize(object, number)
      BY <2>1, <2>2 DEF Tells
    <2>4. LET numbers == {object[i].part : i \in DOMAIN object}
          IN  numbers = 1..Cardinality(numbers)
      BY <2>2
    <2>5. LET of == PartLocations(object, number)
          IN  GetPartSize(object, number) = IF of = <<>> THEN None ELSE SizeUpTo(of)[Len(of)]
      BY <2>3, <2>4, HeadIsPart
    <2> QED  BY <2>2, <2>3, <2>5
  <1> QED  BY <1>2, <1>3, <1>4 DEF ReadsAreTrue

-----------------------------------------------------------------------------
(* Listings *)

KindOf(op) ==
    CASE op \in {"listVersions", "nonCurrents"} -> "version"
      [] op = "listUploads" -> "upload"
      [] op = "listParts" -> "part"
      [] OTHER -> "key"

\* What may be told in a listing.
IsEntry(op, x) ==
    /\ x = Subject(KindOf(op), x.name, x.id) /\ x.name \in Names /\ x.id \in Nat
    /\ KindOf(op) \in {"key", "part"} => x.id = 0
    /\ KindOf(op) = "upload" => x.id > 0

IsRow(op, delimiter, x) ==
    IF delimiter THEN x = Prefix \/ (IsEntry(op, x) /\ x.name > LastInPrefix) ELSE IsEntry(op, x)

Kinds == {"key", "version", "upload", "part", "prefix"}
RowRec == [kind: Kinds, name: Nat, id: Nat]

VersionRec == [id: Nat, dm: BOOLEAN, cold: BOOLEAN]

\* The versions of a key from the newest, none newer than the newest of all.
Filed(vs, newest) ==
    /\ vs \in Seq(VersionRec)
    /\ \A i \in 1..Len(vs) : vs[i].id <= newest
    /\ \A i, j \in 1..Len(vs) : i < j => vs[i].id > vs[j].id

BucketFits(s) ==
    /\ s = [versioned |-> s.versioned, md |-> s.md, uploads |-> s.uploads, parts |-> s.parts,
            newest |-> s.newest, lapsed |-> s.lapsed]
    /\ s.newest \in Nat /\ DOMAIN s.md = Names /\ s.md = [k \in Names |-> s.md[k]]
    /\ \A k \in Names : Filed(s.md[k], s.newest)
    /\ s.uploads \subseteq UploadNames \X Uploads /\ s.parts \subseteq Names

\* What was told: rows of the listing in their order, of which the first version
\* of each key is said to be the latest.
TellsInOrder(op, delimiter, shown) ==
    /\ shown \in Seq([of: RowRec, latest: BOOLEAN])
    /\ \A i \in 1..Len(shown) : IsRow(op, delimiter, shown[i].of)
    /\ \A i, j \in 1..Len(shown) : i < j => Precedes(shown[i].of, shown[j].of)
    /\ \A i \in 1..Len(shown) :
          shown[i].latest <=> /\ shown[i].of.kind = "version"
                              /\ i > 1 => shown[i - 1].of.name # shown[i].of.name

\* x was told, itself or its prefix.
HasBeenTold(delimiter, shown, x) ==
    \/ \E i \in 1..Len(shown) : shown[i].of = x
    \/ delimiter /\ x.name <= LastInPrefix /\ \E i \in 1..Len(shown) : shown[i].of = Prefix

ListingFits(c) ==
    /\ c = [op |-> c.op, max |-> c.max, delimiter |-> c.delimiter, encoding |-> c.encoding,
            next |-> c.next, start |-> c.start, shown |-> c.shown]
    /\ c.op \in AllListings /\ c.op \in scene.ops /\ c.max \in Nat /\ c.delimiter \in BOOLEAN
    /\ c.encoding \in {"xml", "url"}
    /\ c.op \notin ObjectListings \cup {"listUploads"} => c.encoding = "xml"
    /\ TellsInOrder(c.op, c.delimiter, c.shown) /\ (c.max = 0 => c.shown = <<>>)
    /\ scene.sequential => \A i \in 1..Len(c.shown) : c.shown[i].of \in c.start \cup {Prefix}

\* What was there all the while.
StoodAll(c) == IF scene.sequential THEN c.start ELSE c.start \ store.lapsed[c.op]

ListsOn(c) ==
    /\ IF c.shown = <<>> THEN c.next = None
       ELSE c.next = TellNext(c, c.shown[Len(c.shown)].of)
    /\ \A x \in StoodAll(c) :
          /\ x \in Listed(c.op, store)
          /\ HasBeenTold(c.delimiter, c.shown, x) \/ Follows(x, ReadMarker(c, c.next))
    /\ scene.sequential => Listed(c.op, store) = c.start

ListedWhole(c) ==
    c.max # 0 => \A x \in StoodAll(c) : HasBeenTold(c.delimiter, c.shown, x)

ListingInv ==
    /\ BucketFits(store) /\ DOMAIN store.lapsed = AllListings \cap scene.ops
    /\ pc \in [Reqs -> {"idle", "page", "ok", "failed"}] /\ ctx = [r \in Reqs |-> ctx[r]]
    /\ \A r \in Reqs : ctx[r] = None \/ ListingFits(ctx[r])
    /\ \A r \in Reqs : pc[r] = "idle" => ctx[r] = None
    /\ \A r \in Reqs : pc[r] = "page" => ListingFits(ctx[r]) /\ ListsOn(ctx[r])
    /\ \A r \in Reqs : pc[r] = "ok" /\ ctx[r] # None => ListedWhole(ctx[r])
    /\ scene.sequential => \A r, q \in Reqs : Running(r) /\ Running(q) => r = q

\* The fields of a row.
LEMMA RowIs ==
    ASSUME NEW op, NEW d \in BOOLEAN, NEW x, IsRow(op, d, x)
    PROVE  /\ x \in RowRec /\ x = Subject(x.kind, x.name, x.id)
           /\ x = Prefix \/ (x.kind = KindOf(op) /\ x.name \in Names /\ IsEntry(op, x))
           /\ x # Prefix => 0 < x.name
  <1>1. CASE x = Prefix
    BY <1>1 DEF Prefix, Subject, RowRec, Kinds
  <1>2. CASE x # Prefix
    <2>1. IsEntry(op, x)
      BY <1>2 DEF IsRow
    <2>2. KindOf(op) \in Kinds
      BY DEF KindOf, Kinds
    <2> QED  BY <2>1, <2>2 DEF IsEntry, Subject, RowRec, Names
  <1> QED  BY <1>1, <1>2

\* The order of rows is a total one.
LEMMA RowsAreOrdered ==
    ASSUME NEW op, NEW d \in BOOLEAN, NEW x, NEW y, IsRow(op, d, x), IsRow(op, d, y)
    PROVE  /\ x # y => Precedes(x, y) \/ Precedes(y, x)
           /\ ~(Precedes(x, y) /\ Precedes(y, x))
           /\ Precedes(x, y) => x.name <= y.name /\ x # y
  <1>1. /\ x \in RowRec /\ x = Subject(x.kind, x.name, x.id)
        /\ x = Prefix \/ (x.kind = KindOf(op) /\ x.name \in Names)
        /\ x # Prefix => 0 < x.name
    BY RowIs
  <1>2. /\ y \in RowRec /\ y = Subject(y.kind, y.name, y.id)
        /\ y = Prefix \/ (y.kind = KindOf(op) /\ y.name \in Names)
        /\ y # Prefix => 0 < y.name
    BY RowIs
  <1>3. x.name \in Nat /\ x.id \in Nat /\ y.name \in Nat /\ y.id \in Nat
    BY <1>1, <1>2 DEF RowRec
  <1>4. Prefix.name = 0
    BY DEF Prefix, Subject
  <1>5. x.name = y.name => x.kind = y.kind
    BY <1>1, <1>2, <1>4
  <1>6. x.name = y.name /\ x.id = y.id => x = y
    BY <1>1, <1>2, <1>5
  <1> QED  BY <1>3, <1>5, <1>6 DEF Precedes

\* What precedes what precedes.
LEMMA PrecedesFurther ==
    ASSUME NEW op, NEW d \in BOOLEAN, NEW x, NEW y, NEW z,
           IsRow(op, d, x), IsRow(op, d, y), IsRow(op, d, z), Precedes(x, y), Precedes(y, z)
    PROVE  Precedes(x, z)
  <1>1. /\ x \in RowRec /\ (x = Prefix \/ x.kind = KindOf(op)) /\ (x # Prefix => 0 < x.name)
    BY RowIs
  <1>2. /\ y \in RowRec /\ (y = Prefix \/ y.kind = KindOf(op)) /\ (y # Prefix => 0 < y.name)
    BY RowIs
  <1>3. z \in RowRec
    BY RowIs
  <1>4. /\ x.name \in Nat /\ x.id \in Nat /\ y.name \in Nat /\ y.id \in Nat
        /\ z.name \in Nat /\ z.id \in Nat
    BY <1>1, <1>2, <1>3 DEF RowRec
  <1>5. Prefix.name = 0
    BY DEF Prefix, Subject
  <1>6. x.name = y.name => x.kind = y.kind
    BY <1>1, <1>2, <1>5, RowIs
  <1> QED  BY <1>4, <1>6 DEF Precedes

\* Rows of a listing, none newer than b.
RowsOf(op, d, b, rows) == \A x \in rows : IsRow(op, d, x) /\ x.id <= b

\* One of some rows precedes the others.
LEMMA OneIsFirst ==
    ASSUME NEW op, NEW d \in BOOLEAN, NEW B \in Nat, NEW S, S # {}, RowsOf(op, d, B, S)
    PROVE  \E x \in S : \A y \in S \ {x} : Precedes(x, y)
  <1>1. \A x \in S : x.name \in Nat /\ x.id \in Nat /\ x.id <= B
    BY RowIs DEF RowRec, RowsOf
  <1> DEFINE T == {x.name : x \in S}
  <1>2. T \in SUBSET Nat /\ T # {}
    BY <1>1
  <1>3. PICK n \in T : \A m \in T : n <= m
    <2> HIDE DEF T
    <2> QED  BY <1>2, LeastNumber
  <1> DEFINE Rank(x) == IF x.kind = "version" THEN B - x.id ELSE x.id
             U == {Rank(x) : x \in {z \in S : z.name = n}}
  <1>4. U \in SUBSET Nat /\ U # {}
    <2>1. \A x \in S : Rank(x) \in Nat
      BY <1>1
    <2>2. \E x \in S : x.name = n
      BY <1>3
    <2> QED  BY <2>1, <2>2
  <1>5. PICK u \in U : \A v \in U : u <= v
    <2> HIDE DEF U
    <2> QED  BY <1>4, LeastNumber
  <1>6. PICK x \in S : x.name = n /\ Rank(x) = u
    BY <1>5
  <1>7. ASSUME NEW y \in S, y # x PROVE Precedes(x, y)
    <2>1. IsRow(op, d, x) /\ IsRow(op, d, y)
      BY <1>6, <1>7 DEF RowsOf
    <2>2. Precedes(x, y) \/ Precedes(y, x)
      BY <1>7, <2>1, RowsAreOrdered
    <2>3. SUFFICES ASSUME Precedes(y, x) PROVE FALSE
      BY <2>2
    <2>4. y.name <= x.name
      BY <2>1, <2>3, RowsAreOrdered
    <2>5. n <= y.name
      BY <1>3
    <2>6. y.name = n
      BY <1>1, <1>6, <2>4, <2>5
    <2>7. u <= Rank(y)
      BY <1>5, <2>6
    <2>8. x.kind = y.kind
      <3>1. Prefix.name = 0
        BY DEF Prefix, Subject
      <3>2. (x = Prefix \/ x.kind = KindOf(op)) /\ (x # Prefix => 0 < x.name)
        BY <2>1, RowIs
      <3>3. (y = Prefix \/ y.kind = KindOf(op)) /\ (y # Prefix => 0 < y.name)
        BY <2>1, RowIs
      <3> QED  BY <1>6, <2>6, <3>1, <3>2, <3>3
    <2>9. IF y.kind = "version" THEN y.id > x.id ELSE y.id < x.id
      BY <1>1, <1>6, <2>3, <2>6 DEF Precedes
    <2> QED  BY <1>1, <1>6, <2>7, <2>8, <2>9
  <1> QED  BY <1>7

\* The markers of an answer say of its last row what the engine needs.
LEMMA MarkerIs ==
    ASSUME NEW c, c.op \in AllListings, NEW d \in BOOLEAN, NEW l, IsRow(c.op, d, l),
           c.encoding \in {"xml", "url"},
           c.op \notin ObjectListings \cup {"listUploads"} => c.encoding = "xml"
    PROVE  /\ TellNext(c, l) # None
           /\ ReadMarker(c, TellNext(c, l)) =
                  [name |-> l.name,
                   id |-> IF (l.kind = "version" /\ l.id # 0) \/ l.kind = "upload"
                          THEN l.id ELSE None]
  <1> DEFINE of(form) == [form |-> form, of |-> l.name]
             id == [form |-> IF l.id = 0 THEN "null" ELSE "hex", of |-> l.id]
             plain == [form |-> "plain", of |-> l.id]
  <1>1. l \in RowRec /\ l.name \in Nat /\ l.id \in Nat
    BY RowIs DEF RowRec
  <1>2. /\ l = Prefix => l.kind = "prefix" /\ l.name = 0 /\ l.id = 0
        /\ l # Prefix => l.kind = KindOf(c.op) /\ IsEntry(c.op, l)
    BY RowIs DEF Prefix, Subject
  <1>3. /\ id \in ToldAs /\ plain \in ToldAs /\ of("xml") \in ToldAs /\ of("base64") \in ToldAs
        /\ of(c.encoding) \in ToldAs
    BY <1>1 DEF ToldAs
  <1>4. None \notin ToldAs /\ None \notin [name: ToldAs, id: ToldAs \cup {None}]
    BY ListingAssumption
  <1>5. CASE c.op = "listVersions"
    <2>1. TellNext(c, l) = [name |-> of(c.encoding), id |-> IF l.kind = "version" THEN id ELSE None]
      BY <1>5 DEF TellNext, VersionsNext, EscapeXmlFn, EncodeVersionId
    <2>2. TellNext(c, l) # None
      BY <1>3, <1>4, <2>1
    <2>3. KindOf(c.op) = "version"
      BY <1>5 DEF KindOf
    <2> QED  BY <1>2, <1>3, <1>4, <1>5, <2>1, <2>2, <2>3 DEF ReadMarker, Unescaped, DecodeVersionId
  <1>6. CASE c.op = "listObjectsV2"
    <2>1. TellNext(c, l) = [name |-> of("base64"), id |-> None]
      BY <1>6 DEF TellNext, MasterVersionsNext, NextContinuationToken, GenerateToken, ObjectListings
    <2>2. TellNext(c, l) # None
      BY <1>3, <1>4, <2>1
    <2>3. KindOf(c.op) = "key"
      BY <1>6 DEF KindOf
    <2> QED  BY <1>2, <1>6, <2>1, <2>2, <2>3 DEF ReadMarker, DecryptToken, DecodeVersionId
  <1>7. CASE c.op \in {"listObjects", "metadataSearch"}
    <2>1. TellNext(c, l) = [name |-> of(c.encoding), id |-> None]
      BY <1>7 DEF TellNext, MasterVersionsNext, EscapeXmlFn, ObjectListings
    <2>2. TellNext(c, l) # None
      BY <1>3, <1>4, <2>1
    <2>3. KindOf(c.op) = "key"
      BY <1>7 DEF KindOf
    <2> QED  BY <1>2, <1>7, <2>1, <2>2, <2>3 DEF ReadMarker, Unescaped, DecodeVersionId
  <1>8. CASE c.op \in {"currents", "orphans", "listParts"}
    <2>1. TellNext(c, l) = [name |-> of("xml"), id |-> None]
      BY <1>8 DEF TellNext, CurrentsNext, PartsNext, ObjectListings
    <2>2. TellNext(c, l) # None
      BY <1>3, <1>4, <2>1
    <2>3. KindOf(c.op) \in {"key", "part"} /\ c.encoding = "xml"
      BY <1>8 DEF KindOf, ObjectListings
    <2> QED  BY <1>2, <1>8, <2>1, <2>2, <2>3 DEF ReadMarker, Unescaped, DecodeVersionId
  <1>9. CASE c.op = "nonCurrents"
    <2>1. TellNext(c, l) = [name |-> of("xml"), id |-> id]
      BY <1>9 DEF TellNext, CurrentsNext, NonCurrentsNext, EncodeVersionId, ObjectListings
    <2>2. TellNext(c, l) # None
      BY <1>3, <1>4, <2>1
    <2>3. KindOf(c.op) = "version" /\ c.encoding = "xml"
      BY <1>9 DEF KindOf, ObjectListings
    <2> QED  BY <1>2, <1>3, <1>4, <1>9, <2>1, <2>2, <2>3 DEF ReadMarker, Unescaped, DecodeVersionId
  <1>10. CASE c.op = "listUploads"
    <2>1. TellNext(c, l) = [name |-> of(c.encoding), id |-> IF l.kind = "upload" THEN plain ELSE None]
      BY <1>10 DEF TellNext, UploadsNext, EscapeXmlFn, ObjectListings
    <2>2. TellNext(c, l) # None
      BY <1>3, <1>4, <2>1
    <2>3. KindOf(c.op) = "upload"
      BY <1>10 DEF KindOf
    <2> QED  BY <1>2, <1>3, <1>4, <1>10, <2>1, <2>2, <2>3 DEF ReadMarker, Unescaped, DecodeVersionId
  <1> QED  BY <1>5, <1>6, <1>7, <1>8, <1>9, <1>10 DEF AllListings, ObjectListings, LifecycleListings

\* What follows the markers is what comes after the last row.
LEMMA FollowsLast ==
    ASSUME NEW c, c.op \in AllListings, NEW d \in BOOLEAN, NEW l, IsRow(c.op, d, l),
           c.encoding \in {"xml", "url"},
           c.op \notin ObjectListings \cup {"listUploads"} => c.encoding = "xml",
           NEW x, IsEntry(c.op, x)
    PROVE  Follows(x, ReadMarker(c, TellNext(c, l))) <=>
               IF l = Prefix THEN x.name > LastInPrefix ELSE Precedes(l, x)
  <1> DEFINE marker == ReadMarker(c, TellNext(c, l))
  <1>1. /\ marker.name = l.name
        /\ marker.id = IF (l.kind = "version" /\ l.id # 0) \/ l.kind = "upload" THEN l.id ELSE None
    BY MarkerIs
  <1>2. l.name \in Nat /\ l.id \in Nat /\ None \notin Nat
    BY RowIs, ListingAssumption DEF RowRec
  <1>3. /\ x = Subject(KindOf(c.op), x.name, x.id) /\ x.name \in Nat /\ x.id \in Nat
        /\ KindOf(c.op) \in {"key", "part"} => x.id = 0
    BY DEF IsEntry, Names
  <1> HIDE DEF marker
  <1>4. CASE l = Prefix
    <2>1. l.name = 0 /\ Prefix.name = 0
      BY <1>4 DEF Prefix, Subject
    <2> QED  BY <1>1, <1>2, <1>4, <2>1 DEF Follows, marker
  <1>5. CASE l # Prefix
    <2>1. /\ l.kind = KindOf(c.op) /\ IsEntry(c.op, l) /\ 0 < l.name
      BY <1>5, RowIs
    <2>2. Prefix.name = 0
      BY DEF Prefix, Subject
    <2>3. marker.name # None /\ marker.name # Prefix.name
      BY <1>1, <1>2, <2>1, <2>2
    <2>4. Follows(x, marker) <=> \/ x.name > l.name
                                 \/ /\ x.name = l.name /\ marker.id # None
                                    /\ Precedes([x EXCEPT !.id = marker.id], x)
      BY <1>1, <2>3 DEF Follows
    <2>5. x.name = l.name /\ marker.id # None => [x EXCEPT !.id = marker.id] = l
      <3>1. SUFFICES ASSUME x.name = l.name, marker.id # None PROVE [x EXCEPT !.id = marker.id] = l
        OBVIOUS
      <3>2. marker.id = l.id
        BY <1>1, <3>1
      <3>3. l = Subject(KindOf(c.op), l.name, l.id)
        BY <2>1 DEF IsEntry
      <3>4. [x EXCEPT !.id = l.id] = Subject(KindOf(c.op), x.name, l.id)
        BY <1>3 DEF Subject
      <3> QED  BY <3>1, <3>2, <3>3, <3>4
    <2>6. x.name = l.name /\ marker.id = None => ~Precedes(l, x)
      <3>1. SUFFICES ASSUME x.name = l.name, marker.id = None PROVE ~Precedes(l, x)
        OBVIOUS
      <3>2. l.kind # "upload" /\ (l.kind = "version" => l.id = 0)
        BY <1>1, <1>2, <3>1
      <3>3. l.kind # "version" => l.id = 0
        BY <2>1, <3>2 DEF IsEntry, KindOf
      <3>4. l.kind # "version" => x.id = 0
        BY <1>3, <2>1, <3>2 DEF KindOf
      <3> QED  BY <1>2, <1>3, <3>1, <3>2, <3>3, <3>4 DEF Precedes
    <2>7. x.name > l.name => Precedes(l, x)
      BY <1>2, <1>3 DEF Precedes
    <2>8. Precedes(l, x) => x.name > l.name \/ x.name = l.name
      BY <1>2, <1>3 DEF Precedes
    <2> QED  BY <1>5, <2>4, <2>5, <2>6, <2>7, <2>8 DEF marker
  <1> QED  BY <1>4, <1>5 DEF marker

IsTold(page, x) == \E i \in 1..Len(page) : page[i] = x

\* The first n of the rows, or all of them.
Paged(page, rows, n) ==
    /\ page \in Seq(rows)
    /\ \A i, j \in 1..Len(page) : i < j => Precedes(page[i], page[j])
    /\ \A i \in 1..Len(page), y \in rows : IsTold(page, y) \/ Precedes(page[i], y)
    /\ Len(page) = n \/ \A y \in rows : IsTold(page, y)

\* One row more.
LEMMA PutNextPages ==
    ASSUME NEW op, NEW d \in BOOLEAN, NEW b \in Nat, NEW rows, RowsOf(op, d, b, rows),
           NEW n \in Nat, NEW page, Paged(page, rows, n)
    PROVE  Paged(PutNext(page, rows), rows, n + 1)
  <1> DEFINE rest == rows \ {page[i] : i \in DOMAIN page}
             x == CHOOSE z \in rest : \A y \in rest \ {z} : Precedes(z, y)
             next == Append(page, x)
  <1>1. page \in Seq(rows) /\ Len(page) \in Nat /\ DOMAIN page = 1..Len(page)
    BY DEF Paged
  <1>2. \A y \in rows : y \in rest <=> ~IsTold(page, y)
    BY <1>1 DEF IsTold
  <1>3. CASE rest = {}
    <2>1. PutNext(page, rows) = page
      BY <1>3 DEF PutNext
    <2>2. \A y \in rows : IsTold(page, y)
      BY <1>2, <1>3
    <2> QED  BY <2>1, <2>2 DEF Paged
  <1>4. CASE rest # {}
    <2>1. PutNext(page, rows) = next
      BY <1>4 DEF PutNext
    <2>2. \E z \in rest : \A y \in rest \ {z} : Precedes(z, y)
      <3>1. PICK S : S = rest
        OBVIOUS
      <3>2. S # {} /\ RowsOf(op, d, b, S)
        BY <1>4, <3>1 DEF RowsOf
      <3>3. \E z \in S : \A y \in S \ {z} : Precedes(z, y)
        BY <3>2, OneIsFirst
      <3> QED  BY <3>1, <3>3, Zenon
    <2>3. x \in rest /\ \A y \in rest \ {x} : Precedes(x, y)
      <3> HIDE DEF rest
      <3> QED  BY <2>2
    <2>4. x \in rows /\ ~IsTold(page, x)
      BY <1>2, <2>3
    <2>5. PICK z \in rows : z = x
      BY <2>4
    <2>6. PICK more : more = Append(page, z)
      OBVIOUS
    <2>7. /\ more \in Seq(rows) /\ Len(more) = Len(page) + 1 /\ more[Len(page) + 1] = z
          /\ \A i \in 1..Len(page) : more[i] = page[i]
      BY <1>1, <2>6
    <2>8. \A y \in rows : IsTold(more, y) <=> IsTold(page, y) \/ y = z
      BY <1>1, <2>7 DEF IsTold
    <2>9. \A y \in rows : IsTold(more, y) \/ Precedes(z, y)
      <3>1. \A y \in rows : ~IsTold(page, y) /\ y # z => Precedes(z, y)
        BY <1>2, <2>3, <2>5
      <3> QED  BY <2>8, <3>1
    <2>10. Paged(more, rows, n + 1)
      <3>1. ASSUME NEW i \in 1..Len(more), NEW j \in 1..Len(more), i < j
            PROVE  Precedes(more[i], more[j])
        <4>1. i \in 1..Len(page)
          BY <1>1, <2>7, <3>1
        <4>2. CASE j \in 1..Len(page)
          BY <2>7, <3>1, <4>1, <4>2 DEF Paged
        <4>3. CASE j = Len(page) + 1
          <5>1. Precedes(page[i], z)
            BY <2>4, <2>5, <4>1 DEF Paged
          <5> QED  BY <2>7, <4>1, <4>3, <5>1
        <4> QED  BY <1>1, <2>7, <4>2, <4>3
      <3>2. ASSUME NEW i \in 1..Len(more), NEW y \in rows
            PROVE  IsTold(more, y) \/ Precedes(more[i], y)
        <4>1. CASE i \in 1..Len(page)
          BY <2>7, <2>8, <4>1 DEF Paged
        <4>2. CASE i = Len(page) + 1
          BY <2>7, <2>9, <4>2
        <4> QED  BY <1>1, <2>7, <4>1, <4>2
      <3>3. Len(more) = n + 1 \/ \A y \in rows : IsTold(more, y)
        BY <2>7, <2>8 DEF Paged
      <3> QED  BY <2>7, <3>1, <3>2, <3>3 DEF Paged
    <2>11. PutNext(page, rows) = more
      BY <2>1, <2>5, <2>6
    <2> QED  BY <2>10, <2>11
  <1> QED  BY <1>3, <1>4

\* The loop that makes a page.
PageLoop(g, rows, max) == [n \in 0..max |-> IF n = 0 THEN <<>> ELSE PutNext(g[n - 1], rows)]

\* There is such a loop.
LEMMA PageLoopRuns ==
    ASSUME NEW op, NEW d \in BOOLEAN, NEW b \in Nat, NEW rows, RowsOf(op, d, b, rows), NEW max \in Nat
    PROVE  \E g : g = PageLoop(g, rows, max)
  <1> DEFINE V == {page \in Seq(rows) : \E n \in Nat : Paged(page, rows, n)}
             step == [n \in 1..max |-> [v \in V |-> PutNext(v, rows)]]
  <1>1. step \in [1..max -> [V -> V]]
    <2>1. ASSUME NEW v \in V PROVE PutNext(v, rows) \in V
      <3>1. PICK n \in Nat : Paged(v, rows, n)
        OBVIOUS
      <3>2. Paged(PutNext(v, rows), rows, n + 1) /\ n + 1 \in Nat
        BY <3>1, PutNextPages
      <3>3. PutNext(v, rows) \in Seq(rows)
        BY <3>2 DEF Paged
      <3> QED  BY <3>2, <3>3
    <2> QED  BY <2>1
  <1>2. <<>> \in V
    <2>1. Paged(<<>>, rows, 0)
      BY DEF Paged
    <2> QED  BY <2>1
  <1>3. PICK g \in [0..max -> V] : g[0] = <<>> /\ \A n \in 1..max : g[n] = step[n][g[n - 1]]
    <2>0. max \in Nat
      OBVIOUS
    <2>1. PICK W, base, st : W = V /\ base = <<>> /\ st = step
      BY Zenon
    <2> HIDE DEF V, step
    <2>2. st \in [1..max -> [W -> W]] /\ base \in W
      BY <1>1, <1>2, <2>1
    <2>3. \E g \in [0..max -> W] : g[0] = base /\ \A n \in 1..max : g[n] = st[n][g[n - 1]]
      BY <2>0, <2>2, Recursion
    <2> QED  BY <2>1, <2>3
  <1>4. ASSUME NEW n \in 1..max PROVE g[n] = PutNext(g[n - 1], rows)
    <2>1. n - 1 \in 0..max
      OBVIOUS
    <2>2. g[n - 1] \in V
      <3> HIDE DEF V
      <3> QED  BY <1>3, <2>1
    <2>3. step[n][g[n - 1]] = PutNext(g[n - 1], rows)
      <3> HIDE DEF V
      <3> QED  BY <2>2
    <2> HIDE DEF step, V
    <2> QED  BY <1>3, <2>3
  <1> HIDE DEF step, V
  <1>5. g = [n \in 0..max |-> IF n = 0 THEN <<>> ELSE PutNext(g[n - 1], rows)]
    <2>1. ASSUME NEW n \in 0..max
          PROVE  g[n] = IF n = 0 THEN <<>> ELSE PutNext(g[n - 1], rows)
      BY <1>3, <1>4
    <2> QED  BY <1>3, <2>1
  <1> QED  BY <1>5 DEF PageLoop

\* A page has the first rows, in their order.
LEMMA FirstRowsPaged ==
    ASSUME NEW op, NEW d \in BOOLEAN, NEW b \in Nat, NEW rows, RowsOf(op, d, b, rows), NEW max \in Nat
    PROVE  Paged(FirstRows(rows, max), rows, max)
  <1> DEFINE G == CHOOSE g : g = PageLoop(g, rows, max)
  <1>1. G = PageLoop(G, rows, max)
    BY PageLoopRuns
  <1>2. FirstRows(rows, max) = G[max]
    BY DEF FirstRows, PageLoop
  <1> HIDE DEF G
  <1>3. PICK f : f = G
    OBVIOUS
  <1>4. f = [n \in 0..max |-> IF n = 0 THEN <<>> ELSE PutNext(f[n - 1], rows)]
    BY <1>1, <1>3 DEF PageLoop
  <1> DEFINE S == {k \in 0..max : Paged(f[k], rows, k)}
  <1>5. 0 \in S
    <2>1. f[0] = <<>>
      BY <1>4
    <2>2. Paged(<<>>, rows, 0)
      BY DEF Paged
    <2> QED  BY <2>1, <2>2
  <1>6. ASSUME NEW k \in Nat, k < max, k \in S PROVE k + 1 \in S
    <2>1. k + 1 \in 0..max /\ k + 1 # 0 /\ (k + 1) - 1 = k
      BY <1>6
    <2>2. f[k + 1] = PutNext(f[k], rows)
      BY <1>4, <2>1
    <2>3. Paged(f[k], rows, k)
      BY <1>6
    <2>4. Paged(PutNext(f[k], rows), rows, k + 1)
      BY <2>3, PutNextPages
    <2> QED  BY <2>1, <2>2, <2>4
  <1> HIDE DEF S
  <1>7. 0..max \subseteq S
    BY <1>5, <1>6, StepByStep
  <1>8. Paged(f[max], rows, max)
    BY <1>7 DEF S
  <1> QED  BY <1>2, <1>3, <1>8

\* What is listed are entries of the listing.
LEMMA ListedAre ==
    ASSUME NEW s, BucketFits(s), NEW op \in AllListings
    PROVE  \A x \in Listed(op, s) : IsEntry(op, x) /\ x.id <= s.newest + 2
  <1>1. s.newest \in Nat /\ DOMAIN s.md = Names /\ \A k \in Names : Filed(s.md[k], s.newest)
    BY DEF BucketFits
  <1> DEFINE places == UNION {{k} \X DOMAIN s.md[k] : k \in Names}
             Keys == {Subject("key", k, 0) : k \in Names}
             Versions == {Subject("version", p[1], s.md[p[1]][p[2]].id) : p \in places}
  <1>2. CASE KindOf(op) = "key"
    <2>1. \A K \in SUBSET Names : {Subject("key", k, 0) : k \in K} \subseteq Keys
      OBVIOUS
    <2>2. op \in {"listObjects", "listObjectsV2", "metadataSearch", "currents", "orphans"}
      BY <1>2 DEF KindOf, AllListings, ObjectListings, LifecycleListings
    <2>3. Listed(op, s) \subseteq Keys
      BY <2>1, <2>2 DEF Listed
    <2>4. \A x \in Keys : IsEntry(op, x) /\ x.id <= s.newest + 2
      BY <1>1, <1>2 DEF IsEntry, Subject
    <2> QED  BY <2>3, <2>4
  <1>3. CASE KindOf(op) = "version"
    <2>1. \A P \in SUBSET places : {Subject("version", p[1], s.md[p[1]][p[2]].id) : p \in P} \subseteq Versions
      OBVIOUS
    <2>2. op \in {"listVersions", "nonCurrents"}
      BY <1>3 DEF KindOf, AllListings, ObjectListings, LifecycleListings
    <2>3. Listed(op, s) \subseteq Versions
      <3>1. CASE op = "listVersions"
        BY <3>1 DEF Listed
      <3>2. CASE op = "nonCurrents"
        BY <3>2 DEF Listed
      <3> QED  BY <2>2, <3>1, <3>2
    <2>4. ASSUME NEW x \in Versions PROVE IsEntry(op, x) /\ x.id <= s.newest + 2
      <3>1. PICK p \in places : x = Subject("version", p[1], s.md[p[1]][p[2]].id)
        OBVIOUS
      <3>2. PICK k \in Names : p \in {k} \X DOMAIN s.md[k]
        OBVIOUS
      <3>3. Filed(s.md[k], s.newest) /\ p[1] = k /\ p[2] \in DOMAIN s.md[k]
        BY <1>1, <3>2
      <3>4. s.md[k] \in Seq(VersionRec) /\ \A i \in 1..Len(s.md[k]) : s.md[k][i].id <= s.newest
        BY <3>3 DEF Filed
      <3>5. p[2] \in 1..Len(s.md[k])
        BY <3>3, <3>4
      <3>6. s.md[k][p[2]] \in VersionRec /\ s.md[k][p[2]].id <= s.newest
        BY <3>4, <3>5
      <3>7. PICK id \in Nat : id = s.md[k][p[2]].id /\ id <= s.newest
        BY <3>6 DEF VersionRec
      <3>8. x = Subject("version", k, id)
        BY <3>1, <3>3, <3>7
      <3>9. x.id <= s.newest + 2
        BY <1>1, <3>7, <3>8 DEF Subject
      <3> QED  BY <1>3, <3>8, <3>9 DEF IsEntry, Subject
    <2> QED  BY <2>3, <2>4
  <1>4. CASE KindOf(op) = "upload"
    <2>1. op = "listUploads"
      BY <1>4 DEF KindOf, AllListings, ObjectListings, LifecycleListings
    <2>2. Listed(op, s) = {Subject("upload", u[1], u[2]) : u \in s.uploads}
      BY <2>1 DEF Listed
    <2>3. s.uploads \subseteq {2, 3} \X (1..2)
      <3>1. UploadNames = {2, 3} /\ Uploads = 1..2
        BY DEF UploadNames, Uploads, LastInPrefix
      <3> QED  BY <3>1 DEF BucketFits
    <2>4. ASSUME NEW u \in s.uploads
          PROVE  IsEntry(op, Subject("upload", u[1], u[2])) /\ Subject("upload", u[1], u[2]).id <= s.newest + 2
      <3>0. u[1] \in {2, 3} /\ u[2] \in 1..2
        BY <2>3
      <3>1. PICK a \in {2, 3}, b \in 1..2 : a = u[1] /\ b = u[2]
        BY <3>0
      <3> QED  BY <1>1, <1>4, <3>1 DEF IsEntry, Subject, Names
    <2> QED  BY <2>2, <2>4
  <1>5. CASE KindOf(op) = "part"
    <2>1. op = "listParts"
      BY <1>5 DEF KindOf, AllListings, ObjectListings, LifecycleListings
    <2>2. Listed(op, s) = {Subject("part", n, 0) : n \in s.parts}
      BY <2>1 DEF Listed
    <2>3. s.parts \subseteq Names
      BY DEF BucketFits
    <2> QED  BY <1>1, <1>5, <2>2, <2>3 DEF IsEntry, Subject
  <1> QED  BY <1>2, <1>3, <1>4, <1>5 DEF KindOf

\* What is yet to be told are rows of the listing: every entry that follows the
\* marker, or its prefix.
LEMMA RowsAfterAre ==
    ASSUME NEW s, BucketFits(s), NEW op \in AllListings, NEW d \in BOOLEAN, NEW marker,
           NEW max,
           NEW rows, rows = RowsAfter(op, [marker |-> marker, delimiter |-> d, maxKeys |-> max], s)
    PROVE  /\ RowsOf(op, d, s.newest + 2, rows)
           /\ \A x \in rows : x # Prefix => x \in Listed(op, s) /\ Follows(x, marker)
           /\ Prefix \in rows => d /\ \E y \in Listed(op, s) : Follows(y, marker) /\ y.name <= LastInPrefix
           /\ \A x \in Listed(op, s) : Follows(x, marker) =>
                 x \in rows \/ (d /\ x.name <= LastInPrefix /\ Prefix \in rows)
  <1> DEFINE left == {x \in Listed(op, s) : Follows(x, marker)}
             below == {x \in left : d /\ x.name <= LastInPrefix}
  <1>1. rows = (left \ below) \cup (IF below = {} THEN {} ELSE {Prefix})
    BY DEF RowsAfter
  <1>2. \A x \in Listed(op, s) : IsEntry(op, x) /\ x.id <= s.newest + 2
    BY ListedAre
  <1>3. s.newest \in Nat /\ Prefix.id = 0 /\ Prefix.name = 0 /\ LastInPrefix = 2
    BY DEF BucketFits, Prefix, Subject, LastInPrefix
  <1>4. \A x \in Listed(op, s) : x # Prefix
    BY <1>2, <1>3 DEF IsEntry, Names
  <1>5. \A x \in left : x.name \in Nat
    BY <1>2 DEF IsEntry, Names
  <1>6. ASSUME NEW x \in rows PROVE IsRow(op, d, x) /\ x.id <= s.newest + 2
    <2>1. CASE x = Prefix
      <3>1. below # {}
        BY <1>1, <1>4, <2>1
      <3> QED  BY <1>3, <2>1, <3>1 DEF IsRow
    <2>2. CASE x # Prefix
      <3>1. x \in left \ below
        BY <1>1, <2>2
      <3>2. d => x.name > LastInPrefix
        BY <1>3, <1>5, <3>1
      <3> QED  BY <1>2, <3>1, <3>2 DEF IsRow
    <2> QED  BY <2>1, <2>2
  <1>7. RowsOf(op, d, s.newest + 2, rows)
    BY <1>6 DEF RowsOf
  <1>8. \A x \in rows : x # Prefix => x \in Listed(op, s) /\ Follows(x, marker)
    BY <1>1
  <1>9. Prefix \in rows => below # {}
    BY <1>1, <1>4
  <1>10. \A x \in left : x \in rows \/ (d /\ x.name <= LastInPrefix /\ Prefix \in rows)
    BY <1>1
  <1> QED  BY <1>7, <1>8, <1>9, <1>10

\* What is to be told comes after what was, of which the marker names the last one.
Resumes(shown, rows, marker) ==
    /\ shown = <<>> => marker.name = None
    /\ shown # <<>> => /\ marker.name = shown[Len(shown)].of.name
                       /\ \A x \in rows : Precedes(shown[Len(shown)].of, x)
    /\ Prefix \in rows => marker.name = None

\* A page put after what was told, in their order.
GoneOn(op, d, told, page, all) ==
    /\ TellsInOrder(op, d, all) /\ Len(all) = Len(told) + Len(page)
    /\ \A i \in 1..Len(told) : all[i] = told[i]
    /\ \A i \in 1..Len(page) : all[Len(told) + i].of = page[i]

\* A page goes on from what was told.
LEMMA TellsMore ==
    ASSUME NEW op, NEW d \in BOOLEAN, NEW shown, TellsInOrder(op, d, shown),
           NEW b \in Nat, NEW rows, RowsOf(op, d, b, rows),
           NEW max \in Nat, NEW page, Paged(page, rows, max), NEW marker,
           Resumes(shown, rows, marker),
           NEW told, told = shown \o Shown(marker, page)
    PROVE  GoneOn(op, d, shown, page, told)
  <1> DEFINE V == [of: RowRec, latest: BOOLEAN]
             more == Shown(marker, page)
  <1>0. /\ shown = <<>> => marker.name = None
        /\ shown # <<>> => /\ marker.name = shown[Len(shown)].of.name
                           /\ \A x \in rows : Precedes(shown[Len(shown)].of, x)
        /\ Prefix \in rows => marker.name = None
    BY DEF Resumes
  <1>1. shown \in Seq(V) /\ Len(shown) \in Nat /\ page \in Seq(rows) /\ Len(page) \in Nat
    BY DEF TellsInOrder, Paged
  <1>2. DOMAIN page = 1..Len(page) /\ \A i \in 1..Len(page) : page[i] \in rows
    BY <1>1
  <1>3. \A i \in 1..Len(page) : IsRow(op, d, page[i]) /\ page[i] \in RowRec
    BY <1>2, RowIs DEF RowsOf
  <1>4. PICK n \in Nat, m \in Nat : n = Len(shown) /\ m = Len(page)
    BY <1>1
  <1>5. \A i \in 1..m : IsLatest(marker, page, i) \in BOOLEAN
    BY DEF IsLatest
  <1>6. more = [i \in 1..m |-> [of |-> page[i], latest |-> IsLatest(marker, page, i)]]
    BY <1>2, <1>4 DEF Shown
  <1>7. more \in Seq(V) /\ Len(more) = m
    <2>1. \A i \in 1..m : [of |-> page[i], latest |-> IsLatest(marker, page, i)] \in V
      BY <1>3, <1>4, <1>5
    <2>2. more \in [1..m -> V]
      <3>1. PICK W : W = V
        OBVIOUS
      <3> HIDE DEF V, more
      <3>2. \A i \in 1..m : [of |-> page[i], latest |-> IsLatest(marker, page, i)] \in W
        BY <2>1, <3>1
      <3>3. [i \in 1..m |-> [of |-> page[i], latest |-> IsLatest(marker, page, i)]] \in [1..m -> W]
        BY <3>2
      <3> QED  BY <1>6, <3>1, <3>3, Zenon
    <2> HIDE DEF more
    <2>3. PICK t, W : t = more /\ W = V
      BY Zenon
    <2>4. t \in [1..m -> W] /\ m \in Nat
      BY <2>2, <2>3, Zenon
    <2>5. t \in Seq(W) /\ Len(t) = m
      BY <2>4
    <2> QED  BY <2>3, <2>5, Zenon
  <1>8. PICK q : q = shown \o more
    OBVIOUS
  <1>9. /\ q \in Seq(V) /\ Len(q) = n + m
        /\ \A i \in 1..n : q[i] = shown[i]
        /\ \A i \in 1..m : q[n + i] = more[i]
    <2>1. PICK t, W : t = more /\ W = V
      BY Zenon
    <2> HIDE DEF V, more
    <2>2. t \in Seq(W) /\ Len(t) = m /\ shown \in Seq(W) /\ Len(shown) = n /\ q = shown \o t
      BY <1>1, <1>4, <1>7, <1>8, <2>1
    <2>3. /\ q \in Seq(W) /\ Len(q) = n + m
          /\ \A i \in 1..n : q[i] = shown[i]
          /\ \A i \in 1..m : q[n + i] = t[i]
      <3> HIDE DEF V
      <3>1. /\ q \in Seq(W) /\ Len(q) = Len(shown) + Len(t)
            /\ \A i \in 1..(Len(shown) + Len(t)) :
                  q[i] = IF i <= Len(shown) THEN shown[i] ELSE t[i - Len(shown)]
        BY <2>2, ConcatProperties
      <3>2. \A i \in 1..n : q[i] = shown[i]
        BY <2>2, <3>1
      <3>3. ASSUME NEW i \in 1..m PROVE q[n + i] = t[i]
        <4>1. n + i \in 1..(n + m) /\ ~(n + i <= n) /\ (n + i) - n = i
          OBVIOUS
        <4> QED  BY <2>2, <3>1, <4>1
      <3> QED  BY <2>2, <3>1, <3>2, <3>3
    <2> QED  BY <2>1, <2>3, Zenon
  <1>10. \A i \in 1..m : q[n + i].of = page[i] /\ (q[n + i].latest <=> IsLatest(marker, page, i))
    BY <1>6, <1>9
  <1>11. ASSUME NEW k \in 1..Len(q) PROVE k \in 1..n \/ \E i \in 1..m : k = n + i
    <2>1. CASE k <= n
      BY <1>9, <2>1
    <2>2. CASE k > n
      <3>1. k - n \in 1..m /\ k = n + (k - n)
        BY <1>9, <2>2
      <3> QED  BY <3>1
    <2> QED  BY <1>9, <2>1, <2>2
  <1>12. ASSUME NEW k \in 1..Len(q) PROVE IsRow(op, d, q[k].of)
    <2>1. CASE k \in 1..n
      BY <1>4, <1>9, <2>1 DEF TellsInOrder
    <2>2. ASSUME NEW i \in 1..m, k = n + i PROVE IsRow(op, d, q[k].of)
      BY <1>3, <1>4, <1>10, <2>2
    <2> QED  BY <1>11, <2>1, <2>2
  <1>13. ASSUME NEW i \in 1..n, NEW j \in 1..m PROVE Precedes(shown[i].of, page[j])
    <2>1. n > 0 /\ n \in 1..n /\ shown # <<>>
      BY <1>1, <1>4
    <2>2. Precedes(shown[n].of, page[j])
      BY <1>0, <1>2, <1>4, <2>1
    <2>3. CASE i = n
      BY <2>2, <2>3
    <2>4. CASE i # n
      <3>1. Precedes(shown[i].of, shown[n].of)
        BY <1>4, <2>1, <2>4 DEF TellsInOrder
      <3>2. IsRow(op, d, shown[i].of) /\ IsRow(op, d, shown[n].of) /\ IsRow(op, d, page[j])
        BY <1>3, <1>4, <2>1 DEF TellsInOrder
      <3> QED  BY <2>2, <3>1, <3>2, PrecedesFurther
    <2> QED  BY <2>3, <2>4
  <1>14. ASSUME NEW k \in 1..Len(q), NEW l \in 1..Len(q), k < l PROVE Precedes(q[k].of, q[l].of)
    <2>1. CASE k \in 1..n /\ l \in 1..n
      BY <1>4, <1>9, <1>14, <2>1 DEF TellsInOrder
    <2>2. ASSUME k \in 1..n, NEW j \in 1..m, l = n + j PROVE Precedes(q[k].of, q[l].of)
      BY <1>9, <1>10, <1>13, <2>2
    <2>3. ASSUME NEW i \in 1..m, k = n + i, NEW j \in 1..m, l = n + j PROVE Precedes(q[k].of, q[l].of)
      <3>1. i < j
        BY <1>14, <2>3
      <3> QED  BY <1>4, <1>10, <2>3, <3>1 DEF Paged
    <2>4. ASSUME NEW i \in 1..m, k = n + i PROVE l \notin 1..n
      BY <1>14, <2>4
    <2> QED  BY <1>11, <2>1, <2>2, <2>3, <2>4
  <1>15. ASSUME NEW i \in 1..m
         PROVE  IsLatest(marker, page, i) <=>
                    /\ page[i].kind = "version"
                    /\ n + i > 1 => q[n + i - 1].of.name # page[i].name
    <2>1. None \notin Nat /\ page[i].name \in Nat
      BY <1>3, <1>4, ListingAssumption DEF RowRec
    <2>2. CASE i = 1
      <3>1. LastKey(marker, page, i) = marker.name
        <4>1. {j \in 1..(i - 1) : page[j].kind = "version"} = {}
          BY <2>2
        <4> QED  BY <4>1 DEF LastKey
      <3>2. CASE n = 0
        <4>1. marker.name = None
          <5>1. Len(shown) = 0
            BY <1>4, <3>2
          <5>2. shown = <<>>
            BY <1>1, <5>1, EmptySeq
          <5> QED  BY <1>0, <5>2
        <4> QED  BY <2>1, <2>2, <3>1, <3>2, <4>1 DEF IsLatest
      <3>3. CASE n > 0
        <4>1. marker.name = shown[n].of.name
          <5>1. Len(shown) # 0
            BY <1>4, <3>3
          <5>2. shown # <<>>
            BY <5>1, EmptySeq
          <5> QED  BY <1>0, <1>4, <5>2
        <4>2. n + i - 1 = n /\ n \in 1..n
          BY <2>2, <3>3
        <4>3. q[n + i - 1].of.name = marker.name
          BY <1>9, <4>1, <4>2
        <4> QED  BY <2>2, <3>1, <3>3, <4>3 DEF IsLatest
      <3> QED  BY <3>2, <3>3
    <2>3. CASE i > 1
      <3>1. PICK h \in 1..m : h = i - 1
        BY <2>3
      <3>2. q[n + i - 1].of = page[h]
        BY <1>10, <3>1
      <3>3. IsRow(op, d, page[h]) /\ IsRow(op, d, page[i]) /\ Precedes(page[h], page[i])
        BY <1>3, <1>4, <3>1 DEF Paged
      <3> DEFINE earlier == {j \in 1..(i - 1) : page[j].kind = "version"}
      <3>4. CASE page[h].kind = "version"
        <4>1. h \in earlier /\ \A j \in earlier : j <= h
          BY <3>1, <3>4
        <4>2. (CHOOSE j \in earlier : \A k \in earlier : k <= j) = h
          <5>1. \A j \in earlier : j \in Nat
            OBVIOUS
          <5>2. PICK E : E = earlier
            OBVIOUS
          <5>3. h \in E /\ (\A j \in E : j <= h) /\ (\A j \in E : j \in Nat)
            BY <4>1, <5>1, <5>2
          <5>4. \A j \in E : (\A k \in E : k <= j) => j = h
            BY <5>3
          <5>5. (CHOOSE j \in E : \A k \in E : k <= j) = h
            BY <5>3, <5>4
          <5> QED  BY <5>2, <5>5
        <4>3. LastKey(marker, page, i) = page[h].name
          <5>1. earlier # {}
            BY <4>1
          <5> QED  BY <4>2, <5>1 DEF LastKey
        <4> QED  BY <2>3, <3>2, <4>3 DEF IsLatest
      <3>5. CASE page[h].kind # "version"
        <4>1. CASE page[i].kind # "version"
          BY <4>1 DEF IsLatest
        <4>2. CASE page[i].kind = "version"
          <5>1. page[i] # Prefix /\ page[i].kind = KindOf(op)
            <6>1. Prefix.kind = "prefix"
              BY DEF Prefix, Subject
            <6> QED  BY <3>3, <4>2, <6>1, RowIs
          <5>2. page[h] = Prefix
            BY <3>3, <3>5, <4>2, <5>1, RowIs
          <5>3. marker.name = None
            BY <1>0, <1>2, <1>4, <5>2
          <5>4. \A j \in 1..(i - 1) : j = h
            <6>1. ASSUME NEW j \in 1..(i - 1), j # h PROVE FALSE
              <7>1. j \in 1..m /\ j < h
                BY <3>1, <6>1
              <7>2. Precedes(page[j], Prefix) /\ page[j] \in RowRec
                BY <1>3, <1>4, <3>1, <5>2, <7>1 DEF Paged
              <7>3. Prefix.name = 0 /\ page[j].name \in Nat
                BY <7>2 DEF Prefix, Subject, RowRec
              <7>4. page[j].name = 0
                BY <7>2, <7>3 DEF Precedes
              <7>5. IsRow(op, d, page[j])
                BY <1>3, <1>4, <7>1
              <7>6. page[j] = Prefix
                <8>1. page[j] # Prefix => 0 < page[j].name
                  BY <7>5, RowIs
                <8> QED  BY <7>4, <8>1
              <7> QED  BY <7>2, <7>6 DEF Precedes, Prefix, Subject
            <6> QED  BY <6>1
          <5>5. earlier = {}
            BY <3>5, <5>4
          <5>6. LastKey(marker, page, i) = None
            BY <5>3, <5>5 DEF LastKey
          <5>7. page[h].name # page[i].name
            <6>1. page[h].name = 0
              BY <5>2 DEF Prefix, Subject
            <6>2. 0 < page[i].name
              BY <3>3, <5>1, RowIs
            <6> QED  BY <6>1, <6>2
          <5>8. IsLatest(marker, page, i)
            BY <2>1, <4>2, <5>6 DEF IsLatest
          <5> QED  BY <3>2, <4>2, <5>7, <5>8
        <4> QED  BY <4>1, <4>2
      <3> QED  BY <3>4, <3>5
    <2> QED  BY <2>2, <2>3
  <1>16. ASSUME NEW k \in 1..Len(q)
         PROVE  q[k].latest <=> /\ q[k].of.kind = "version"
                                /\ k > 1 => q[k - 1].of.name # q[k].of.name
    <2>1. CASE k \in 1..n
      <3>1. k > 1 => k - 1 \in 1..n
        BY <2>1
      <3>2. shown[k].latest <=> /\ shown[k].of.kind = "version"
                                /\ k > 1 => shown[k - 1].of.name # shown[k].of.name
        BY <1>4, <2>1 DEF TellsInOrder
      <3> QED  BY <1>9, <2>1, <3>1, <3>2
    <2>2. ASSUME NEW i \in 1..m, k = n + i
          PROVE  q[k].latest <=> /\ q[k].of.kind = "version"
                                 /\ k > 1 => q[k - 1].of.name # q[k].of.name
      <3>1. q[k].of = page[i] /\ (q[k].latest <=> IsLatest(marker, page, i))
        BY <1>10, <2>2
      <3>2. n + i - 1 = k - 1
        BY <2>2
      <3>3. IsLatest(marker, page, i) <=> /\ page[i].kind = "version"
                                          /\ n + i > 1 => q[n + i - 1].of.name # page[i].name
        BY <1>15
      <3> HIDE DEF V
      <3> QED  BY <2>2, <3>1, <3>2, <3>3
    <2> QED  BY <1>11, <2>1, <2>2
  <1>17. TellsInOrder(op, d, q)
    <2>1. q \in Seq([of: RowRec, latest: BOOLEAN])
      BY <1>9
    <2> QED  BY <1>12, <1>14, <1>16, <2>1 DEF TellsInOrder
  <1>18. GoneOn(op, d, shown, page, q)
    BY <1>4, <1>9, <1>10, <1>17 DEF GoneOn
  <1> QED  BY <1>8, <1>18

\* What goes on from the markers comes after what was told.
LEMMA ListingGoesOn ==
    ASSUME NEW c, ListingFits(c), BucketFits(store), ListsOn(c),
           NEW marker, marker = ReadMarker(c, c.next),
           NEW all, all = RowsAfter(c.op, [marker |-> marker, delimiter |-> c.delimiter,
                                           maxKeys |-> c.max], store)
    PROVE  /\ RowsOf(c.op, c.delimiter, store.newest + 2, all)
           /\ Resumes(c.shown, all, marker)
  <1>1. /\ c.op \in AllListings /\ c.delimiter \in BOOLEAN /\ c.encoding \in {"xml", "url"}
        /\ c.op \notin ObjectListings \cup {"listUploads"} => c.encoding = "xml"
        /\ TellsInOrder(c.op, c.delimiter, c.shown)
    BY DEF ListingFits
  <1>2. /\ RowsOf(c.op, c.delimiter, store.newest + 2, all)
        /\ \A x \in all : x # Prefix => x \in Listed(c.op, store) /\ Follows(x, marker)
        /\ Prefix \in all => /\ c.delimiter
                             /\ \E y \in Listed(c.op, store) :
                                    Follows(y, marker) /\ y.name <= LastInPrefix
    BY <1>1, RowsAfterAre
  <1>3. \A x \in Listed(c.op, store) : IsEntry(c.op, x) /\ x.name \in Nat /\ 0 < x.name
    <2>1. \A x \in Listed(c.op, store) : IsEntry(c.op, x)
      BY <1>1, ListedAre
    <2> QED  BY <2>1 DEF IsEntry, Names
  <1>4. CASE c.shown = <<>>
    <2>1. marker.name = None
      BY <1>4 DEF ListsOn, ReadMarker
    <2> QED  BY <1>2, <1>4, <2>1 DEF Resumes
  <1>5. CASE c.shown # <<>>
    <2>1. PICK l : l = c.shown[Len(c.shown)].of
      OBVIOUS
    <2>2. IsRow(c.op, c.delimiter, l)
      <3>1. Len(c.shown) \in 1..Len(c.shown)
        BY <1>1, <1>5, EmptySeq DEF TellsInOrder
      <3> QED  BY <1>1, <2>1, <3>1 DEF TellsInOrder
    <2>3. marker = ReadMarker(c, TellNext(c, l))
      BY <1>5, <2>1 DEF ListsOn
    <2>4. marker.name = l.name
      <3>1. ReadMarker(c, TellNext(c, l)).name = l.name
        BY <1>1, <2>2, MarkerIs
      <3> QED  BY <2>3, <3>1
    <2>5. \A x \in Listed(c.op, store) : Follows(x, marker) =>
              IF l = Prefix THEN x.name > LastInPrefix ELSE Precedes(l, x)
      BY <1>1, <1>3, <2>2, <2>3, FollowsLast
    <2>6. /\ l.name \in Nat /\ Prefix.name = 0 /\ LastInPrefix = 2
          /\ l # Prefix => IsEntry(c.op, l)
      BY <1>1, <2>2, RowIs DEF RowRec, Prefix, Subject, LastInPrefix
    <2>7. Prefix \notin all
      <3>1. SUFFICES ASSUME Prefix \in all PROVE FALSE
        OBVIOUS
      <3>2. PICK y \in Listed(c.op, store) : Follows(y, marker) /\ y.name <= LastInPrefix
        BY <1>2, <3>1
      <3>3. l # Prefix /\ Precedes(l, y)
        BY <1>3, <2>5, <2>6, <3>2
      <3>4. l.name > LastInPrefix
        BY <1>2, <2>2, <3>1, <3>3 DEF IsRow
      <3> QED  BY <1>3, <2>6, <3>2, <3>3, <3>4 DEF Precedes
    <2>8. ASSUME NEW x \in all PROVE Precedes(l, x)
      <3>1. x \in Listed(c.op, store) /\ Follows(x, marker)
        BY <1>2, <2>7, <2>8
      <3>2. CASE l = Prefix
        BY <1>3, <2>6, <3>1, <3>2 DEF Precedes
      <3>3. CASE l # Prefix
        BY <2>5, <3>1, <3>3
      <3> QED  BY <3>2, <3>3
    <2> QED  BY <1>2, <1>5, <2>1, <2>4, <2>7, <2>8 DEF Resumes
  <1> QED  BY <1>4, <1>5

\* A page: what was told still is, and what is left comes after it.
LEMMA PageTold ==
    ASSUME NEW c, ListingFits(c), BucketFits(store), ListsOn(c), c.max # 0,
           NEW marker, marker = ReadMarker(c, c.next),
           NEW list, list = EnginePage(c.op, [marker |-> marker, delimiter |-> c.delimiter,
                                              maxKeys |-> c.max], store),
           NEW e, e = [op |-> c.op, max |-> c.max, delimiter |-> c.delimiter,
                       encoding |-> c.encoding,
                       next |-> IF list.truncated THEN TellNext(c, list.rows[Len(list.rows)]) ELSE None,
                       start |-> c.start, shown |-> c.shown \o Shown(marker, list.rows)]
    PROVE  /\ ListingFits(e)
           /\ list.truncated => ListsOn(e)
           /\ ~list.truncated => ListedWhole(e)
  <1>1. /\ c.op \in AllListings /\ c.delimiter \in BOOLEAN /\ c.encoding \in {"xml", "url"}
        /\ c.op \notin ObjectListings \cup {"listUploads"} => c.encoding = "xml"
        /\ TellsInOrder(c.op, c.delimiter, c.shown) /\ c.max \in Nat /\ c.op \in scene.ops
        /\ scene.sequential => \A i \in 1..Len(c.shown) : c.shown[i].of \in c.start \cup {Prefix}
    BY DEF ListingFits
  <1>2. PICK all : all = RowsAfter(c.op, [marker |-> marker, delimiter |-> c.delimiter,
                                          maxKeys |-> c.max], store)
    OBVIOUS
  <1>3. /\ RowsOf(c.op, c.delimiter, store.newest + 2, all)
        /\ Resumes(c.shown, all, marker)
    BY <1>2, ListingGoesOn
  <1>4. /\ \A x \in all : x # Prefix => x \in Listed(c.op, store) /\ Follows(x, marker)
        /\ Prefix \in all => c.delimiter
        /\ \A x \in Listed(c.op, store) : Follows(x, marker) =>
              x \in all \/ (c.delimiter /\ x.name <= LastInPrefix /\ Prefix \in all)
    BY <1>1, <1>2, RowsAfterAre
  <1>5. store.newest + 2 \in Nat
    BY DEF BucketFits
  <1>6. PICK page : page = FirstRows(all, c.max)
    OBVIOUS
  <1>7. Paged(page, all, c.max)
    BY <1>1, <1>3, <1>5, <1>6, FirstRowsPaged
  <1>8. /\ list.rows = page
        /\ list.truncated <=> \E x \in all : \A i \in DOMAIN page : page[i] # x
    BY <1>2, <1>6 DEF EnginePage
  <1>9. PICK shown : shown = c.shown \o Shown(marker, page)
    OBVIOUS
  <1>10. /\ TellsInOrder(c.op, c.delimiter, shown)
         /\ Len(shown) = Len(c.shown) + Len(page)
         /\ \A i \in 1..Len(c.shown) : shown[i] = c.shown[i]
         /\ \A i \in 1..Len(page) : shown[Len(c.shown) + i].of = page[i]
    <2>1. GoneOn(c.op, c.delimiter, c.shown, page, shown)
      <3>1. PICK b \in Nat : b = store.newest + 2
        BY <1>5
      <3>2. PICK max \in Nat : max = c.max
        BY <1>1
      <3>3. PICK old : old = c.shown
        OBVIOUS
      <3>4. PICK op, d : op = c.op /\ d = c.delimiter
        OBVIOUS
      <3>5. d \in BOOLEAN /\ TellsInOrder(op, d, old)
        BY <1>1, <3>3, <3>4
      <3>6. RowsOf(op, d, b, all) /\ Paged(page, all, max)
        BY <1>3, <1>7, <3>1, <3>2, <3>4
      <3>7. Resumes(old, all, marker)
        BY <1>3, <3>3
      <3>8. shown = old \o Shown(marker, page)
        BY <1>9, <3>3
      <3>9. GoneOn(op, d, old, page, shown)
        BY <3>5, <3>6, <3>7, <3>8, TellsMore
      <3> QED  BY <3>3, <3>4, <3>9
    <2> QED  BY <2>1 DEF GoneOn
  <1>11. /\ e.op = c.op /\ e.max = c.max /\ e.delimiter = c.delimiter /\ e.encoding = c.encoding
         /\ e.start = c.start /\ e.shown = shown
         /\ e.next = IF list.truncated THEN TellNext(c, page[Len(page)]) ELSE None
    BY <1>8, <1>9
  <1>12. /\ page \in Seq(all) /\ DOMAIN page = 1..Len(page) /\ Len(page) \in Nat
         /\ Len(c.shown) \in Nat
         /\ \A i \in 1..Len(page) : page[i] \in all
    BY <1>1, <1>7 DEF Paged, TellsInOrder
  <1>13. PICK n \in Nat, m \in Nat : n = Len(c.shown) /\ m = Len(page)
    BY <1>12
  <1>14. \A i \in 1..m : n + i \in 1..Len(shown) /\ shown[n + i].of = page[i]
    BY <1>10, <1>13
  <1>15. \A i \in 1..n : i \in 1..Len(shown) /\ shown[i] = c.shown[i]
    BY <1>10, <1>13
  <1>16. ListingFits(e)
    <2>1. ASSUME scene.sequential, NEW k \in 1..Len(shown) PROVE shown[k].of \in c.start \cup {Prefix}
      <3>1. CASE k <= n
        BY <1>1, <1>13, <1>15, <2>1, <3>1
      <3>2. CASE k > n
        <4>1. PICK i \in 1..m : k = n + i
          <5>1. k - n \in 1..m /\ k = n + (k - n)
            BY <1>10, <1>13, <3>2
          <5> QED  BY <5>1
        <4>2. page[i] \in all /\ shown[k].of = page[i]
          BY <1>12, <1>13, <1>14, <4>1
        <4>3. Listed(c.op, store) = c.start
          BY <2>1 DEF ListsOn
        <4> QED  BY <1>4, <4>2, <4>3
      <3> QED  BY <1>13, <3>1, <3>2
    <2>2. e = [op |-> e.op, max |-> e.max, delimiter |-> e.delimiter, encoding |-> e.encoding,
               next |-> e.next, start |-> e.start, shown |-> e.shown]
      OBVIOUS
    <2>3. /\ e.op \in AllListings /\ e.op \in scene.ops /\ e.max \in Nat /\ e.delimiter \in BOOLEAN
          /\ e.encoding \in {"xml", "url"}
          /\ e.op \notin ObjectListings \cup {"listUploads"} => e.encoding = "xml"
      BY <1>1, <1>11
    <2>4. TellsInOrder(e.op, e.delimiter, e.shown) /\ e.max # 0
      BY <1>10, <1>11
    <2>5. scene.sequential => \A i \in 1..Len(e.shown) : e.shown[i].of \in e.start \cup {Prefix}
      BY <1>11, <2>1
    <2> QED  BY <2>2, <2>3, <2>4, <2>5 DEF ListingFits
  <1>17. \A y \in all : IsTold(page, y) => \E i \in 1..Len(shown) : shown[i].of = y
    BY <1>13, <1>14 DEF IsTold
  <1>18. \A x : HasBeenTold(c.delimiter, c.shown, x) => HasBeenTold(c.delimiter, shown, x)
    BY <1>13, <1>15 DEF HasBeenTold
  <1>19. \A x \in StoodAll(c) : /\ x \in Listed(c.op, store)
                                /\ HasBeenTold(c.delimiter, c.shown, x) \/ Follows(x, marker)
    BY DEF ListsOn
  <1>20. StoodAll(e) = StoodAll(c)
    BY <1>11 DEF StoodAll
  <1>21. CASE ~list.truncated
    <2>1. \A y \in all : IsTold(page, y)
      BY <1>8, <1>12, <1>21 DEF IsTold
    <2>2. ASSUME NEW x \in StoodAll(c) PROVE HasBeenTold(c.delimiter, shown, x)
      <3>1. CASE HasBeenTold(c.delimiter, c.shown, x)
        BY <1>18, <3>1
      <3>2. CASE Follows(x, marker)
        <4>1. x \in all \/ (c.delimiter /\ x.name <= LastInPrefix /\ Prefix \in all)
          BY <1>4, <1>19, <3>2
        <4> QED  BY <1>17, <2>1, <4>1 DEF HasBeenTold
      <3> QED  BY <1>19, <3>1, <3>2
    <2>3. ListedWhole(e)
      BY <1>11, <1>20, <2>2 DEF ListedWhole
    <2> QED  BY <1>16, <1>21, <2>3
  <1>22. CASE list.truncated
    <2>1. \E y \in all : ~IsTold(page, y)
      BY <1>8, <1>12, <1>22 DEF IsTold
    <2>2. m > 0 /\ m = c.max
      BY <1>1, <1>7, <1>13, <2>1 DEF Paged
    <2>3. PICK l : l = page[m]
      OBVIOUS
    <2>4. l \in all /\ IsRow(c.op, c.delimiter, l)
      BY <1>3, <1>12, <1>13, <2>2, <2>3 DEF RowsOf
    <2>5. \A y \in all : IsTold(page, y) \/ Precedes(l, y)
      BY <1>7, <1>13, <2>2, <2>3 DEF Paged
    <2>6. shown # <<>> /\ shown[Len(shown)].of = l
      <3>1. Len(shown) = n + m /\ Len(shown) # 0
        BY <1>10, <1>13, <2>2
      <3>2. shown # <<>>
        BY <3>1, EmptySeq
      <3> QED  BY <1>14, <2>2, <2>3, <3>1, <3>2
    <2>7. e.next = TellNext(e, l)
      <3>1. e.next = TellNext(c, l)
        BY <1>11, <1>13, <1>22, <2>3
      <3>2. TellNext(e, l) = TellNext(c, l)
        BY <1>11 DEF TellNext, VersionsNext, MasterVersionsNext, CurrentsNext, NonCurrentsNext,
              PartsNext, UploadsNext, EscapeXmlFn, NextContinuationToken
      <3> QED  BY <3>1, <3>2
    <2>8. l = Prefix \/ l.name > 0
      BY <1>1, <2>4, RowIs
    <2>9. Prefix.name = 0 /\ Prefix.id = 0 /\ l.name \in Nat
      <3>1. l \in RowRec
        BY <1>1, <2>4, RowIs
      <3> QED  BY <3>1 DEF Prefix, Subject, RowRec
    <2>10. ~Precedes(l, Prefix)
      BY <2>8, <2>9 DEF Precedes
    <2>11. ASSUME NEW x \in StoodAll(c)
           PROVE  HasBeenTold(c.delimiter, shown, x) \/ Follows(x, ReadMarker(e, e.next))
      <3>1. CASE HasBeenTold(c.delimiter, c.shown, x)
        BY <1>18, <3>1
      <3>2. CASE Follows(x, marker)
        <4>1. CASE x \in all
          <5>1. CASE IsTold(page, x)
            BY <1>17, <4>1, <5>1 DEF HasBeenTold
          <5>2. CASE ~IsTold(page, x)
            <6>1. Precedes(l, x)
              BY <2>5, <4>1, <5>2
            <6>2. IsEntry(c.op, x) /\ IsRow(c.op, c.delimiter, x)
              <7>1. \A y \in Listed(c.op, store) : IsEntry(c.op, y)
                BY <1>1, ListedAre
              <7> QED  BY <1>3, <1>19, <4>1, <7>1 DEF RowsOf
            <6>3. l = Prefix => x.name > LastInPrefix
              <7>1. l = Prefix => c.delimiter
                BY <1>4, <2>4
              <7>2. x # Prefix
                BY <6>2, <2>9 DEF IsEntry, Names
              <7> QED  BY <6>2, <7>1, <7>2 DEF IsRow
            <6>4. Follows(x, ReadMarker(e, TellNext(e, l))) <=>
                      IF l = Prefix THEN x.name > LastInPrefix ELSE Precedes(l, x)
              BY <1>1, <1>11, <2>4, <6>2, FollowsLast
            <6> QED  BY <2>7, <6>1, <6>3, <6>4
          <5> QED  BY <5>1, <5>2
        <4>2. CASE c.delimiter /\ x.name <= LastInPrefix /\ Prefix \in all
          <5>1. IsTold(page, Prefix)
            BY <2>5, <2>10, <4>2
          <5> QED  BY <1>17, <4>2, <5>1 DEF HasBeenTold
        <4> QED  BY <1>4, <1>19, <3>2, <4>1, <4>2
      <3> QED  BY <1>19, <3>1, <3>2
    <2>12. ListsOn(e)
      <3>1. scene.sequential => Listed(c.op, store) = c.start
        BY DEF ListsOn
      <3> QED  BY <1>11, <1>19, <1>20, <2>6, <2>7, <2>11, <3>1 DEF ListsOn
    <2> QED  BY <1>16, <1>22, <2>12
  <1> QED  BY <1>21, <1>22

\* A listing is about the versions, the uploads and the parts that are stored.
LEMMA ListedSame ==
    ASSUME NEW s, NEW t, t.md = s.md, t.uploads = s.uploads, t.parts = s.parts, NEW op
    PROVE  Listed(op, t) = Listed(op, s)
  BY DEF Listed

\* A version put before those of a key.
LEMMA VersionPut ==
    ASSUME NEW vs, NEW newest \in Nat, Filed(vs, newest), NEW v \in VersionRec, v.id = newest + 1
    PROVE  Filed(<<v>> \o vs, newest + 1)
  <1>1. vs \in Seq(VersionRec) /\ Len(vs) \in Nat /\ <<v>> \in Seq(VersionRec) /\ Len(<<v>>) = 1
    BY DEF Filed
  <1>2. PICK ws : ws = <<v>> \o vs
    OBVIOUS
  <1>3. /\ ws \in Seq(VersionRec) /\ Len(ws) = Len(vs) + 1
        /\ \A i \in 1..(Len(vs) + 1) : ws[i] = IF i <= 1 THEN v ELSE vs[i - 1]
    <2>1. /\ ws \in Seq(VersionRec) /\ Len(ws) = 1 + Len(vs)
          /\ \A i \in 1..(1 + Len(vs)) : ws[i] = IF i <= 1 THEN <<v>>[i] ELSE vs[i - 1]
      BY <1>1, <1>2, ConcatProperties
    <2> QED  BY <1>1, <2>1
  <1>4. PICK n \in Nat : n = Len(vs)
    BY <1>1
  <1>5. ws[1] = v /\ \A i \in 2..(n + 1) : i - 1 \in 1..n /\ ws[i] = vs[i - 1]
    BY <1>3, <1>4
  <1>6. /\ \A i \in 1..n : vs[i] \in VersionRec /\ vs[i].id <= newest
        /\ \A i, j \in 1..n : i < j => vs[i].id > vs[j].id
    BY <1>1, <1>4 DEF Filed
  <1>7. \A i \in 1..n : vs[i].id \in Nat
    BY <1>6 DEF VersionRec
  <1>8. ASSUME NEW i \in 1..(n + 1) PROVE ws[i].id <= newest + 1
    <2>1. CASE i = 1
      BY <1>5, <2>1
    <2>2. CASE i # 1
      BY <1>5, <1>6, <1>7, <2>2
    <2> QED  BY <2>1, <2>2
  <1>9. ASSUME NEW i \in 1..(n + 1), NEW j \in 1..(n + 1), i < j PROVE ws[i].id > ws[j].id
    <2>1. j - 1 \in 1..n /\ ws[j] = vs[j - 1]
      BY <1>5, <1>9
    <2>2. CASE i = 1
      BY <1>5, <1>6, <1>7, <2>1, <2>2
    <2>3. CASE i # 1
      <3>1. i - 1 \in 1..n /\ ws[i] = vs[i - 1] /\ i - 1 < j - 1
        BY <1>5, <1>9, <2>3
      <3> QED  BY <1>6, <2>1, <3>1
    <2> QED  BY <2>2, <2>3
  <1>10. Filed(ws, newest + 1)
    BY <1>3, <1>4, <1>8, <1>9 DEF Filed
  <1> QED  BY <1>2, <1>10

\* A version removed from those of a key.
LEMMA VersionRemoved ==
    ASSUME NEW vs, NEW newest \in Nat, Filed(vs, newest), NEW i \in 1..Len(vs)
    PROVE  Filed(LX!RemoveAt(vs, i), newest)
  <1>1. vs \in Seq(VersionRec) /\ Len(vs) \in Nat
    BY DEF Filed
  <1>2. PICK n \in Nat, m \in Nat, k \in Nat : n = Len(vs) /\ m = i - 1 /\ k = n - i
    <2>1. i - 1 \in Nat /\ Len(vs) - i \in Nat
      BY <1>1
    <2> QED  BY <1>1, <2>1
  <1>3. PICK a, b : a = SubSeq(vs, 1, i - 1) /\ b = SubSeq(vs, i + 1, Len(vs))
    OBVIOUS
  <1>4. /\ a \in Seq(VersionRec) /\ Len(a) = m /\ \A j \in 1..m : a[j] = vs[j]
        /\ b \in Seq(VersionRec) /\ Len(b) = k /\ \A j \in 1..k : b[j] = vs[j + i]
    <2>1. a \in Seq(VersionRec) /\ Len(a) = m /\ \A j \in 1..m : a[j] = vs[j]
      BY <1>1, <1>2, <1>3, SubSeqProperties
    <2>2. b \in Seq(VersionRec) /\ Len(b) = k /\ \A j \in 1..k : b[j] = vs[j + i]
      BY <1>1, <1>2, <1>3, SubSeqProperties
    <2> QED  BY <2>1, <2>2
  <1>5. PICK ws : ws = a \o b
    OBVIOUS
  <1>6. /\ ws \in Seq(VersionRec) /\ Len(ws) = m + k
        /\ \A j \in 1..(m + k) : ws[j] = IF j <= m THEN a[j] ELSE b[j - m]
    BY <1>4, <1>5, ConcatProperties
  <1> DEFINE at(j) == IF j <= m THEN j ELSE j + 1
  <1>7. \A j \in 1..(m + k) : at(j) \in 1..n /\ ws[j] = vs[at(j)]
    <2>1. ASSUME NEW j \in 1..(m + k), j <= m PROVE at(j) \in 1..n /\ ws[j] = vs[at(j)]
      BY <1>2, <1>4, <1>6, <2>1
    <2>2. ASSUME NEW j \in 1..(m + k), j > m PROVE at(j) \in 1..n /\ ws[j] = vs[at(j)]
      <3>1. j - m \in 1..k /\ (j - m) + i = j + 1 /\ ~(j <= m) /\ j + 1 \in 1..n
        BY <1>2, <2>2
      <3> QED  BY <1>4, <1>6, <3>1
    <2> QED  BY <2>1, <2>2
  <1>8. \A j, l \in 1..(m + k) : j < l => at(j) < at(l)
    OBVIOUS
  <1> HIDE DEF at
  <1>9. /\ \A j \in 1..n : vs[j].id <= newest
        /\ \A j, l \in 1..n : j < l => vs[j].id > vs[l].id
    BY <1>2 DEF Filed
  <1>10. Filed(ws, newest)
    <2>1. ASSUME NEW j \in 1..(m + k) PROVE ws[j].id <= newest
      BY <1>7, <1>9
    <2>2. ASSUME NEW j \in 1..(m + k), NEW l \in 1..(m + k), j < l PROVE ws[j].id > ws[l].id
      BY <1>7, <1>8, <1>9, <2>2
    <2> QED  BY <1>6, <2>1, <2>2 DEF Filed
  <1> QED  BY <1>3, <1>5, <1>10 DEF LX!RemoveAt

\* Another request changes what is stored.
LEMMA ListedChanges ==
    ASSUME ListingInv, scene' = scene, NEW r \in Reqs, NEW sent, Sent(r, sent),
           NEW s, BucketFits(s), s.lapsed = store.lapsed, ChangeListed(r, s)
    PROVE  ListingInv'
  <1>1. /\ BucketFits(store) /\ DOMAIN store.lapsed = AllListings \cap scene.ops
        /\ pc \in [Reqs -> {"idle", "page", "ok", "failed"}] /\ ctx = [q \in Reqs |-> ctx[q]]
        /\ \A q \in Reqs : ctx[q] = None \/ ListingFits(ctx[q])
        /\ \A q \in Reqs : pc[q] = "idle" => ctx[q] = None
        /\ \A q \in Reqs : pc[q] = "page" => ListingFits(ctx[q]) /\ ListsOn(ctx[q])
        /\ \A q \in Reqs : pc[q] = "ok" /\ ctx[q] # None => ListedWhole(ctx[q])
        /\ scene.sequential => \A q, p \in Reqs : Running(q) /\ Running(p) => q = p
    BY DEF ListingInv
  <1>2. pc[r] = "idle" /\ (scene.sequential => Quiet)
    BY DEF Sent
  <1>3. pc' = [pc EXCEPT ![r] = "ok"] /\ ctx' = ctx
    BY DEF ChangeListed, Goto
  <1>4. PICK lapsed : lapsed = [o \in AllListings \cap scene.ops |->
                                    s.lapsed[o] \cup (Listed(o, store) \ Listed(o, s))]
    OBVIOUS
  <1>5. s = [versioned |-> s.versioned, md |-> s.md, uploads |-> s.uploads, parts |-> s.parts,
             newest |-> s.newest, lapsed |-> s.lapsed]
    BY DEF BucketFits
  <1>6. store' = [versioned |-> s.versioned, md |-> s.md, uploads |-> s.uploads, parts |-> s.parts,
                  newest |-> s.newest, lapsed |-> lapsed]
    BY <1>4, <1>5 DEF ChangeListed
  <1>7. BucketFits(store)' /\ DOMAIN store'.lapsed = AllListings \cap scene'.ops
    <2>1. BucketFits(store')
      BY <1>6 DEF BucketFits
    <2>2. BucketFits(store)'
      BY <2>1 DEF BucketFits
    <2> QED  BY <1>4, <1>6, <2>2
  <1>8. \A o : Listed(o, store') = Listed(o, s)
    <2>1. store'.md = s.md /\ store'.uploads = s.uploads /\ store'.parts = s.parts
      BY <1>6
    <2> QED  BY <2>1, ListedSame
  <1>9. /\ pc' \in [Reqs -> {"idle", "page", "ok", "failed"}]
        /\ \A q \in Reqs : q # r => pc'[q] = pc[q]
        /\ pc'[r] = "ok"
    BY <1>1, <1>3
  <1>10. ASSUME NEW q \in Reqs PROVE ctx'[q] = None \/ ListingFits(ctx[q])'
    <2>1. CASE ctx[q] = None
      BY <1>3, <2>1
    <2>2. CASE ctx[q] # None
      <3>1. PICK c : c = ctx[q]
        OBVIOUS
      <3>2. ListingFits(c)
        BY <1>1, <2>2, <3>1
      <3>3. ListingFits(c)'
        BY <3>2 DEF ListingFits
      <3>4. ctx'[q] = c
        BY <1>3, <3>1
      <3> QED  BY <3>3, <3>4 DEF ListingFits
    <2> QED  BY <2>1, <2>2
  <1>11. ASSUME NEW q \in Reqs, ctx'[q] # None
         PROVE  /\ q # r /\ pc[q] = pc'[q] /\ ctx'[q] = ctx[q] /\ ListingFits(ctx[q])
    BY <1>1, <1>2, <1>3, <1>9, <1>11
  <1>12. ASSUME NEW c, ListingFits(c) PROVE /\ ~scene.sequential => StoodAll(c)' \subseteq StoodAll(c)
                                            /\ scene.sequential => StoodAll(c)' = StoodAll(c)
    <2>1. CASE scene.sequential
      BY <2>1 DEF StoodAll
    <2>2. CASE ~scene.sequential
      <3>1. c.op \in AllListings \cap scene.ops
        BY <1>12 DEF ListingFits
      <3>2. store.lapsed[c.op] \subseteq store'.lapsed[c.op]
        BY <1>4, <1>6, <3>1
      <3> QED  BY <2>2, <3>2 DEF StoodAll
    <2> QED  BY <2>1, <2>2
  <1>13. ASSUME NEW q \in Reqs, pc'[q] = "page" PROVE ListingFits(ctx[q])' /\ ListsOn(ctx[q])'
    <2>1. q # r /\ pc[q] = "page" /\ ctx'[q] = ctx[q]
      BY <1>1, <1>3, <1>9, <1>13
    <2>2. ~scene.sequential
      BY <1>2, <2>1 DEF Quiet, Running
    <2>3. PICK c : c = ctx[q]
      OBVIOUS
    <2>4. ListsOn(c) /\ ListingFits(c)
      BY <1>1, <2>1, <2>3
    <2>5. ASSUME NEW x \in StoodAll(c)' PROVE x \in StoodAll(c) /\ x \in Listed(c.op, store')
      <3>1. x \in StoodAll(c)
        BY <1>12, <2>2, <2>4, <2>5
      <3>2. x \in Listed(c.op, store)
        BY <2>4, <3>1 DEF ListsOn
      <3>3. c.op \in AllListings \cap scene.ops
        BY <2>4 DEF ListingFits
      <3>4. x \notin store'.lapsed[c.op]
        BY <2>2, <2>5 DEF StoodAll
      <3>5. x \in Listed(c.op, s)
        BY <1>4, <1>6, <3>2, <3>3, <3>4
      <3> QED  BY <1>8, <3>1, <3>5
    <2>6. ListsOn(c)'
      BY <2>2, <2>4, <2>5 DEF ListsOn
    <2>7. ListingFits(c)'
      BY <2>4 DEF ListingFits
    <2>8. ctx'[q] = c
      BY <2>1, <2>3
    <2>9. ListingFits(ctx[q])'
      BY <2>7, <2>8 DEF ListingFits
    <2>10. ListsOn(ctx[q])'
      BY <2>6, <2>8 DEF ListsOn
    <2> QED  BY <2>9, <2>10
  <1>14. ASSUME NEW q \in Reqs, pc'[q] = "ok", ctx'[q] # None PROVE ListedWhole(ctx[q])'
    <2>1. pc[q] = "ok" /\ ctx[q] # None /\ ctx'[q] = ctx[q] /\ ListingFits(ctx[q])
      BY <1>11, <1>14
    <2>2. PICK c : c = ctx[q]
      OBVIOUS
    <2>3. ListedWhole(c) /\ ListingFits(c)
      BY <1>1, <2>1, <2>2
    <2>4. StoodAll(c)' \subseteq StoodAll(c)
      BY <1>12, <2>3
    <2>5. ListedWhole(c)'
      BY <2>3, <2>4 DEF ListedWhole
    <2>6. ctx'[q] = c
      BY <2>1, <2>2
    <2> QED  BY <2>5, <2>6 DEF ListedWhole
  <1>15. \A q \in Reqs : pc'[q] = "idle" => ctx'[q] = None
    BY <1>1, <1>3, <1>9
  <1>16. scene'.sequential => \A q, p \in Reqs : Running(q)' /\ Running(p)' => q = p
    BY <1>1, <1>9 DEF Running
  <1> QED  BY <1>1, <1>3, <1>7, <1>9, <1>10, <1>13, <1>14, <1>15, <1>16 DEF ListingInv

\* The bucket with other versions of a key.
WithVersions(k, vs, newest) ==
    [versioned |-> store.versioned, md |-> [store.md EXCEPT ![k] = vs], uploads |-> store.uploads,
     parts |-> store.parts, newest |-> newest, lapsed |-> store.lapsed]

\* It is in order when they are.
LEMMA BucketFitsPut ==
    ASSUME BucketFits(store), NEW k \in Names, NEW vs, NEW newest \in Nat, newest >= store.newest,
           Filed(vs, newest), NEW s, s = WithVersions(k, vs, newest)
    PROVE  BucketFits(s) /\ s.lapsed = store.lapsed
  <1>2. PICK md : md = [store.md EXCEPT ![k] = vs]
    OBVIOUS
  <1>3. s = [versioned |-> store.versioned, md |-> md, uploads |-> store.uploads,
             parts |-> store.parts, newest |-> newest, lapsed |-> store.lapsed]
    BY <1>2 DEF WithVersions
  <1>4. DOMAIN md = Names /\ md = [n \in Names |-> md[n]]
    BY <1>2 DEF BucketFits
  <1>5. ASSUME NEW n \in Names PROVE Filed(md[n], newest)
    <2>1. CASE n = k
      BY <1>2, <2>1 DEF BucketFits
    <2>2. CASE n # k
      <3>1. PICK ws : ws = store.md[n]
        OBVIOUS
      <3>2. Filed(ws, store.newest) /\ md[n] = ws
        BY <1>2, <2>2, <3>1 DEF BucketFits
      <3>3. ws \in Seq(VersionRec) /\ Len(ws) \in Nat
        BY <3>2 DEF Filed
      <3>4. \A i \in 1..Len(ws) : ws[i].id \in Nat
        <4>1. \A i \in 1..Len(ws) : ws[i] \in VersionRec
          BY <3>3
        <4> QED  BY <4>1 DEF VersionRec
      <3>5. store.newest \in Nat
        BY DEF BucketFits
      <3>6. \A i \in 1..Len(ws) : ws[i].id <= newest
        BY <3>2, <3>4, <3>5 DEF Filed
      <3> QED  BY <3>2, <3>6 DEF Filed
    <2> QED  BY <2>1, <2>2
  <1>6. /\ s.versioned = store.versioned /\ s.md = md /\ s.uploads = store.uploads
        /\ s.parts = store.parts /\ s.newest = newest /\ s.lapsed = store.lapsed
    BY <1>3
  <1>7. s = [versioned |-> s.versioned, md |-> s.md, uploads |-> s.uploads, parts |-> s.parts,
             newest |-> s.newest, lapsed |-> s.lapsed]
    BY <1>3, <1>6
  <1>8. s.uploads \subseteq UploadNames \X Uploads /\ s.parts \subseteq Names
    BY <1>6 DEF BucketFits
  <1>9. s.newest \in Nat /\ DOMAIN s.md = Names /\ s.md = [n \in Names |-> s.md[n]]
    BY <1>4, <1>6
  <1>10. \A n \in Names : Filed(s.md[n], s.newest)
    BY <1>5, <1>6
  <1>11. BucketFits(s)
    BY <1>7, <1>8, <1>9, <1>10 DEF BucketFits
  <1> QED  BY <1>6, <1>11

\* An object or a delete marker is put.
LEMMA PutListedKeeps ==
    ASSUME ListingInv, scene' = scene, NEW r \in Reqs, PutListed(r)
    PROVE  ListingInv'
  <1>1. BucketFits(store) /\ store.newest \in Nat /\ DOMAIN store.md = Names
    BY DEF ListingInv, BucketFits
  <1>2. store = [versioned |-> store.versioned, md |-> store.md, uploads |-> store.uploads,
                 parts |-> store.parts, newest |-> store.newest, lapsed |-> store.lapsed]
    BY <1>1 DEF BucketFits
  <1>3. Sent(r, "putObject")
    BY DEF PutListed
  <1>4. CASE store.versioned
    <2>1. PICK k \in Names, dm \in BOOLEAN :
              ChangeListed(r, [store EXCEPT !.md[k] = <<Stored(store.newest + 1, dm, FALSE)>> \o @,
                                            !.newest = @ + 1])
      BY <1>4 DEF PutListed
    <2>2. PICK vs : vs = <<Stored(store.newest + 1, dm, FALSE)>> \o store.md[k]
      OBVIOUS
    <2>3. PICK s : s = [store EXCEPT !.md[k] = vs, !.newest = store.newest + 1]
      OBVIOUS
    <2>4. ChangeListed(r, s)
      BY <2>1, <2>2, <2>3
    <2>5. Filed(vs, store.newest + 1)
      <3>1. Filed(store.md[k], store.newest)
        BY <1>1 DEF BucketFits
      <3>2. PICK v : v = Stored(store.newest + 1, dm, FALSE)
        OBVIOUS
      <3>3. v \in VersionRec /\ v.id = store.newest + 1
        BY <1>1, <3>2 DEF Stored, VersionRec
      <3> QED  BY <1>1, <2>2, <3>1, <3>2, <3>3, VersionPut
    <2>6. BucketFits(s) /\ s.lapsed = store.lapsed
      <3>1. PICK newest \in Nat : newest = store.newest + 1 /\ newest >= store.newest
        BY <1>1
      <3>2. Filed(vs, newest) /\ s = WithVersions(k, vs, newest)
        BY <1>2, <2>3, <2>5, <3>1 DEF WithVersions
      <3> QED  BY <1>1, <3>1, <3>2, BucketFitsPut
    <2> QED  BY <1>3, <2>4, <2>6, ListedChanges
  <1>5. CASE ~store.versioned
    <2>1. PICK k \in Names :
              ChangeListed(r, [store EXCEPT !.md[k] = <<Stored(0, FALSE, FALSE)>>])
      BY <1>5 DEF PutListed
    <2>2. PICK vs : vs = <<Stored(0, FALSE, FALSE)>>
      OBVIOUS
    <2>3. PICK s : s = [store EXCEPT !.md[k] = vs, !.newest = store.newest]
      OBVIOUS
    <2>4. ChangeListed(r, s)
      <3>1. s = [store EXCEPT !.md[k] = <<Stored(0, FALSE, FALSE)>>]
        BY <1>2, <2>2, <2>3
      <3> QED  BY <2>1, <3>1
    <2>5. Filed(vs, store.newest)
      <3>1. PICK v : v = Stored(0, FALSE, FALSE)
        OBVIOUS
      <3>2. v \in VersionRec /\ v.id = 0
        BY <3>1 DEF Stored, VersionRec
      <3>3. vs \in Seq(VersionRec) /\ Len(vs) = 1 /\ vs[1] = v
        <4>1. \A W : v \in W => <<v>> \in Seq(W)
          OBVIOUS
        <4>2. vs = <<v>>
          BY <2>2, <3>1
        <4>3. vs \in Seq(VersionRec)
          BY <3>2, <4>1, <4>2
        <4> QED  BY <4>2, <4>3
      <3>4. \A i \in 1..Len(vs) : i = 1
        BY <3>3
      <3> QED  BY <1>1, <3>2, <3>3, <3>4 DEF Filed
    <2>6. BucketFits(s) /\ s.lapsed = store.lapsed
      <3>1. PICK newest \in Nat : newest = store.newest /\ newest >= store.newest
        BY <1>1
      <3>2. Filed(vs, newest) /\ s = WithVersions(k, vs, newest)
        BY <1>2, <2>3, <2>5, <3>1 DEF WithVersions
      <3> QED  BY <1>1, <3>1, <3>2, BucketFitsPut
    <2> QED  BY <1>3, <2>4, <2>6, ListedChanges
  <1> QED  BY <1>4, <1>5

\* A version is deleted.
LEMMA DeleteListedKeeps ==
    ASSUME ListingInv, scene' = scene, NEW r \in Reqs, DeleteListed(r)
    PROVE  ListingInv'
  <1>1. BucketFits(store) /\ store.newest \in Nat /\ DOMAIN store.md = Names
    BY DEF ListingInv, BucketFits
  <1>2. store = [versioned |-> store.versioned, md |-> store.md, uploads |-> store.uploads,
                 parts |-> store.parts, newest |-> store.newest, lapsed |-> store.lapsed]
    BY <1>1 DEF BucketFits
  <1>3. Sent(r, "deleteObject")
    BY DEF DeleteListed
  <1>4. PICK k \in Names : \E i \in DOMAIN store.md[k] :
            ChangeListed(r, [store EXCEPT !.md[k] = LX!RemoveAt(@, i)])
    BY DEF DeleteListed
  <1>5. PICK i \in DOMAIN store.md[k] : ChangeListed(r, [store EXCEPT !.md[k] = LX!RemoveAt(@, i)])
    BY <1>4
  <1>6. PICK vs : vs = LX!RemoveAt(store.md[k], i)
    OBVIOUS
  <1>7. PICK s : s = [store EXCEPT !.md[k] = vs, !.newest = store.newest]
    OBVIOUS
  <1>8. ChangeListed(r, s)
    <2>1. s = [store EXCEPT !.md[k] = LX!RemoveAt(@, i)]
      BY <1>2, <1>6, <1>7
    <2> QED  BY <1>5, <2>1
  <1>9. Filed(vs, store.newest)
    <2>1. Filed(store.md[k], store.newest)
      BY <1>1 DEF BucketFits
    <2>2. i \in 1..Len(store.md[k])
      BY <2>1 DEF Filed
    <2> QED  BY <1>1, <1>6, <2>1, <2>2, VersionRemoved
  <1>10. BucketFits(s) /\ s.lapsed = store.lapsed
    <2>1. PICK newest \in Nat : newest = store.newest /\ newest >= store.newest
      BY <1>1
    <2>2. Filed(vs, newest) /\ s = WithVersions(k, vs, newest)
      BY <1>2, <1>7, <1>9, <2>1 DEF WithVersions
    <2> QED  BY <1>1, <2>1, <2>2, BucketFitsPut
  <1> QED  BY <1>3, <1>8, <1>10, ListedChanges

\* An upload is initiated or ended, or a part stored.
LEMMA UploadChangesKeep ==
    ASSUME ListingInv, scene' = scene, NEW r \in Reqs,
           InitiateListed(r) \/ EndListed(r) \/ StoreListedPart(r)
    PROVE  ListingInv'
  <1>1. BucketFits(store) /\ store.uploads \subseteq UploadNames \X Uploads /\ store.parts \subseteq Names
    BY DEF ListingInv, BucketFits
  <1>2. store = [versioned |-> store.versioned, md |-> store.md, uploads |-> store.uploads,
                 parts |-> store.parts, newest |-> store.newest, lapsed |-> store.lapsed]
    BY <1>1 DEF BucketFits
  <1>3. Sent(r, "upload")
    BY DEF InitiateListed, EndListed, StoreListedPart
  <1>4. ASSUME NEW us \in SUBSET (UploadNames \X Uploads), NEW ps \in SUBSET Names,
               NEW s, s = [store EXCEPT !.uploads = us, !.parts = ps]
        PROVE  BucketFits(s) /\ s.lapsed = store.lapsed
    <2>1. s = [versioned |-> store.versioned, md |-> store.md, uploads |-> us,
               parts |-> ps, newest |-> store.newest, lapsed |-> store.lapsed]
      BY <1>2, <1>4
    <2> QED  BY <1>1, <2>1 DEF BucketFits
  <1>5. ASSUME NEW us \in SUBSET (UploadNames \X Uploads), NEW ps \in SUBSET Names,
               ChangeListed(r, [store EXCEPT !.uploads = us, !.parts = ps])
        PROVE  ListingInv'
    <2>1. PICK s : s = [store EXCEPT !.uploads = us, !.parts = ps]
      OBVIOUS
    <2>2. BucketFits(s) /\ s.lapsed = store.lapsed
      BY <1>4, <2>1
    <2>3. ChangeListed(r, s)
      BY <1>5, <2>1
    <2> QED  BY <1>3, <2>2, <2>3, ListedChanges
  <1>6. ASSUME NEW u \in UploadNames \X Uploads,
               ChangeListed(r, [store EXCEPT !.uploads = @ \cup {u}])
        PROVE  ListingInv'
    <2>1. [store EXCEPT !.uploads = @ \cup {u}] =
              [store EXCEPT !.uploads = store.uploads \cup {u}, !.parts = store.parts]
      BY <1>2
    <2>2. store.uploads \cup {u} \in SUBSET (UploadNames \X Uploads)
      BY <1>1
    <2> QED  BY <1>1, <1>5, <1>6, <2>1, <2>2
  <1>7. ASSUME NEW u \in UploadNames \X Uploads,
               ChangeListed(r, [store EXCEPT !.uploads = @ \ {u}, !.parts = {}])
        PROVE  ListingInv'
    <2>1. [store EXCEPT !.uploads = @ \ {u}, !.parts = {}] =
              [store EXCEPT !.uploads = store.uploads \ {u}, !.parts = {}]
      OBVIOUS
    <2>2. store.uploads \ {u} \in SUBSET (UploadNames \X Uploads) /\ {} \in SUBSET Names
      BY <1>1
    <2> QED  BY <1>5, <1>7, <2>1, <2>2
  <1>8. ASSUME NEW n \in Names, ChangeListed(r, [store EXCEPT !.parts = @ \cup {n}])
        PROVE  ListingInv'
    <2>1. [store EXCEPT !.parts = @ \cup {n}] =
              [store EXCEPT !.uploads = store.uploads, !.parts = store.parts \cup {n}]
      BY <1>2
    <2>2. store.parts \cup {n} \in SUBSET Names
      BY <1>1
    <2> QED  BY <1>1, <1>5, <1>8, <2>1, <2>2
  <1> QED  BY <1>1, <1>6, <1>7, <1>8 DEF InitiateListed, EndListed, StoreListedPart

\* A request changes nothing that is stored: the others are as they were.
LEMMA ListingStaysPut ==
    ASSUME scene' = scene, store' = store, NEW c
    PROVE  /\ ListingFits(c)' <=> ListingFits(c)
           /\ ListsOn(c)' <=> ListsOn(c)
           /\ ListedWhole(c)' <=> ListedWhole(c)
  BY DEF ListingFits, ListsOn, ListedWhole, StoodAll

\* A request goes on: if what it carries is in order, all is.
LEMMA ListingGoes ==
    ASSUME ListingInv, scene' = scene, store' = store, NEW r \in Reqs,
           scene.sequential => \A q \in Reqs : Running(q) => q = r,
           NEW call \in {"page", "ok", "failed"}, pc' = [pc EXCEPT ![r] = call],
           NEW c, ctx' = [ctx EXCEPT ![r] = c],
           c = None \/ ListingFits(c),
           call = "page" => ListingFits(c) /\ ListsOn(c),
           call = "ok" /\ c # None => ListedWhole(c)
    PROVE  ListingInv'
  <1>1. /\ BucketFits(store) /\ DOMAIN store.lapsed = AllListings \cap scene.ops
        /\ pc \in [Reqs -> {"idle", "page", "ok", "failed"}] /\ ctx = [q \in Reqs |-> ctx[q]]
        /\ \A q \in Reqs : ctx[q] = None \/ ListingFits(ctx[q])
        /\ \A q \in Reqs : pc[q] = "idle" => ctx[q] = None
        /\ \A q \in Reqs : pc[q] = "page" => ListingFits(ctx[q]) /\ ListsOn(ctx[q])
        /\ \A q \in Reqs : pc[q] = "ok" /\ ctx[q] # None => ListedWhole(ctx[q])
    BY DEF ListingInv
  <1>2. BucketFits(store)' /\ DOMAIN store'.lapsed = AllListings \cap scene'.ops
    BY <1>1 DEF BucketFits
  <1>3. /\ pc' \in [Reqs -> {"idle", "page", "ok", "failed"}] /\ ctx' = [q \in Reqs |-> ctx'[q]]
        /\ pc'[r] = call /\ ctx'[r] = c
        /\ \A q \in Reqs : q # r => pc'[q] = pc[q] /\ ctx'[q] = ctx[q]
    BY <1>1
  <1>4. ASSUME NEW q \in Reqs
        PROVE  /\ ctx'[q] = None \/ ListingFits(ctx[q])'
               /\ pc'[q] = "idle" => ctx'[q] = None
               /\ pc'[q] = "page" => ListingFits(ctx[q])' /\ ListsOn(ctx[q])'
               /\ pc'[q] = "ok" /\ ctx'[q] # None => ListedWhole(ctx[q])'
    <2>1. PICK e : e = ctx'[q]
      OBVIOUS
    <2>2. /\ e = None \/ ListingFits(e)
          /\ pc'[q] = "idle" => e = None
          /\ pc'[q] = "page" => ListingFits(e) /\ ListsOn(e)
          /\ pc'[q] = "ok" /\ e # None => ListedWhole(e)
      <3>1. CASE q = r
        BY <1>3, <2>1, <3>1
      <3>2. CASE q # r
        BY <1>1, <1>3, <2>1, <3>2
      <3> QED  BY <3>1, <3>2
    <2>3. /\ ListingFits(e)' <=> ListingFits(e)
          /\ ListsOn(e)' <=> ListsOn(e)
          /\ ListedWhole(e)' <=> ListedWhole(e)
      BY ListingStaysPut
    <2>4. /\ ListingFits(e)' = ListingFits(ctx[q])'
          /\ ListsOn(e)' = ListsOn(ctx[q])'
          /\ ListedWhole(e)' = ListedWhole(ctx[q])'
      BY <2>1
    <2> QED  BY <2>1, <2>2, <2>3, <2>4
  <1>5. scene'.sequential => \A q, p \in Reqs : Running(q)' /\ Running(p)' => q = p
    BY <1>3 DEF Running
  <1> QED  BY <1>2, <1>3, <1>4, <1>5 DEF ListingInv

\* A listing begins or is refused.
LEMMA ListingBegins ==
    ASSUME ListingInv, scene' = scene, NEW r \in Reqs, NEW op \in AllListings, Sent(r, op),
           NEW max \in Nat \cup {None}, NEW d \in BOOLEAN, NEW e \in {"xml", "url"},
           op \notin ObjectListings \cup {"listUploads"} => e = "xml",
           BeginListing(r, op, max, d, e)
    PROVE  ListingInv'
  <1>1. /\ pc[r] = "idle" /\ op \in scene.ops /\ (scene.sequential => Quiet)
        /\ ctx[r] = None /\ ctx = [q \in Reqs |-> ctx[q]]
    BY DEF Sent, ListingInv
  <1>2. scene.sequential => \A q \in Reqs : Running(q) => q = r
    BY <1>1 DEF Quiet
  <1>3. CASE max = None /\ Refuse(r)
    <2>1. store' = store /\ pc' = [pc EXCEPT ![r] = "failed"] /\ ctx' = [ctx EXCEPT ![r] = None]
      BY <1>1, <1>3 DEF Refuse, Goto
    <2> QED  BY <1>2, <2>1, ListingGoes
  <1>4. CASE max # None /\ ~(max = None /\ Refuse(r))
    <2>1. PICK c : c = [op |-> op, max |-> ActualMax(max), delimiter |-> d, encoding |-> e,
                        next |-> None, start |-> Listed(op, store), shown |-> <<>>]
      OBVIOUS
    <2>2. store' = store /\ pc' = [pc EXCEPT ![r] = "page"] /\ ctx' = [ctx EXCEPT ![r] = c]
      BY <1>4, <2>1 DEF BeginListing, Goto, Carry
    <2>3. ListingFits(c)
      <3>1. ActualMax(max) \in Nat
        BY <1>4 DEF ActualMax, ListingHardLimit
      <3>2. TellsInOrder(op, d, <<>>)
        BY DEF TellsInOrder
      <3> QED  BY <1>1, <2>1, <3>1, <3>2 DEF ListingFits
    <2>4. ListsOn(c)
      <3>1. ASSUME NEW x PROVE Follows(x, ReadMarker(c, None))
        <4>1. PICK marker : marker = ReadMarker(c, None)
          OBVIOUS
        <4>2. marker.name = None
          BY <4>1 DEF ReadMarker
        <4>3. Prefix.name # None
          BY ListingAssumption DEF Prefix, Subject
        <4> QED  BY <4>1, <4>2, <4>3 DEF Follows
      <3>2. StoodAll(c) \subseteq Listed(op, store)
        BY <2>1 DEF StoodAll
      <3> QED  BY <2>1, <3>1, <3>2 DEF ListsOn
    <2> QED  BY <1>2, <2>2, <2>3, <2>4, ListingGoes
  <1> QED  BY <1>3, <1>4 DEF BeginListing

\* The next page is told.
LEMMA TellPageKeeps ==
    ASSUME ListingInv, scene' = scene, NEW r \in Reqs, TellPage(r)
    PROVE  ListingInv'
  <1>1. PICK c : c = ctx[r]
    OBVIOUS
  <1>2. /\ pc[r] = "page" /\ ListingFits(c) /\ ListsOn(c) /\ BucketFits(store)
        /\ ctx = [q \in Reqs |-> ctx[q]] /\ store' = store /\ pc \in [Reqs -> {"idle", "page", "ok", "failed"}]
    BY <1>1 DEF ListingInv, TellPage
  <1>3. scene.sequential => \A q \in Reqs : Running(q) => q = r
    BY <1>2 DEF ListingInv, Running
  <1>4. PICK marker : marker = ReadMarker(c, c.next)
    OBVIOUS
  <1>5. PICK list : list = EnginePage(c.op, [marker |-> marker, delimiter |-> c.delimiter,
                                             maxKeys |-> c.max], store)
    OBVIOUS
  <1>6. \/ c.max = 0 /\ Goto(r, "ok") /\ UNCHANGED ctx
        \/ Goto(r, "failed") /\ UNCHANGED ctx
        \/ /\ c.max # 0
           /\ Carry(r, [c EXCEPT !.shown = @ \o Shown(marker, list.rows),
                                !.next = IF list.truncated
                                         THEN TellNext(c, list.rows[Len(list.rows)])
                                         ELSE None])
           /\ IF list.truncated THEN UNCHANGED pc ELSE Goto(r, "ok")
    BY <1>1, <1>4, <1>5 DEF TellPage
  <1>7. CASE c.max = 0 /\ Goto(r, "ok") /\ UNCHANGED ctx
    <2>1. pc' = [pc EXCEPT ![r] = "ok"] /\ ctx' = [ctx EXCEPT ![r] = c]
      BY <1>1, <1>2, <1>7 DEF Goto
    <2>2. ListedWhole(c)
      BY <1>7 DEF ListedWhole
    <2> QED  BY <1>2, <1>3, <2>1, <2>2, ListingGoes
  <1>8. CASE Goto(r, "failed") /\ UNCHANGED ctx
    <2>1. pc' = [pc EXCEPT ![r] = "failed"] /\ ctx' = [ctx EXCEPT ![r] = c]
      BY <1>1, <1>2, <1>8 DEF Goto
    <2> QED  BY <1>2, <1>3, <2>1, ListingGoes
  <1>9. CASE /\ c.max # 0
             /\ Carry(r, [c EXCEPT !.shown = @ \o Shown(marker, list.rows),
                                  !.next = IF list.truncated
                                           THEN TellNext(c, list.rows[Len(list.rows)])
                                           ELSE None])
             /\ IF list.truncated THEN UNCHANGED pc ELSE Goto(r, "ok")
    <2>1. PICK e : e = [op |-> c.op, max |-> c.max, delimiter |-> c.delimiter,
                        encoding |-> c.encoding,
                        next |-> IF list.truncated THEN TellNext(c, list.rows[Len(list.rows)])
                                 ELSE None,
                        start |-> c.start, shown |-> c.shown \o Shown(marker, list.rows)]
      OBVIOUS
    <2>2. c = [op |-> c.op, max |-> c.max, delimiter |-> c.delimiter, encoding |-> c.encoding,
               next |-> c.next, start |-> c.start, shown |-> c.shown]
      BY <1>2 DEF ListingFits
    <2>3. e = [c EXCEPT !.shown = @ \o Shown(marker, list.rows),
                        !.next = IF list.truncated THEN TellNext(c, list.rows[Len(list.rows)])
                                 ELSE None]
      <3>1. PICK next, shown :
                /\ next = IF list.truncated THEN TellNext(c, list.rows[Len(list.rows)]) ELSE None
                /\ shown = c.shown \o Shown(marker, list.rows)
        OBVIOUS
      <3>2. e = [op |-> c.op, max |-> c.max, delimiter |-> c.delimiter, encoding |-> c.encoding,
                 next |-> next, start |-> c.start, shown |-> shown]
        BY <2>1, <3>1
      <3>3. [c EXCEPT !.shown = shown, !.next = next] =
                [op |-> c.op, max |-> c.max, delimiter |-> c.delimiter, encoding |-> c.encoding,
                 next |-> next, start |-> c.start, shown |-> shown]
        <4>1. PICK o : o = [c EXCEPT !.shown = shown]
          OBVIOUS
        <4>2. o = [op |-> c.op, max |-> c.max, delimiter |-> c.delimiter, encoding |-> c.encoding,
                   next |-> c.next, start |-> c.start, shown |-> shown]
          BY <2>2, <4>1
        <4>3. [o EXCEPT !.next = next] =
                  [op |-> c.op, max |-> c.max, delimiter |-> c.delimiter, encoding |-> c.encoding,
                   next |-> next, start |-> c.start, shown |-> shown]
          BY <4>2
        <4>4. [c EXCEPT !.shown = shown, !.next = next] = [o EXCEPT !.next = next]
          BY <4>1
        <4> QED  BY <4>3, <4>4
      <3> QED  BY <3>1, <3>2, <3>3
    <2>4. ctx' = [ctx EXCEPT ![r] = e]
      BY <1>9, <2>3 DEF Carry
    <2>5. /\ ListingFits(e)
          /\ list.truncated => ListsOn(e)
          /\ ~list.truncated => ListedWhole(e)
      BY <1>2, <1>4, <1>5, <1>9, <2>1, PageTold
    <2>7. CASE list.truncated
      <3>1. pc' = [pc EXCEPT ![r] = "page"]
        BY <1>2, <1>9, <2>7
      <3> QED  BY <1>2, <1>3, <2>4, <2>5, <2>7, <3>1, ListingGoes
    <2>8. CASE ~list.truncated
      <3>1. pc' = [pc EXCEPT ![r] = "ok"]
        BY <1>9, <2>8 DEF Goto
      <3> QED  BY <1>2, <1>3, <2>4, <2>5, <2>8, <3>1, ListingGoes
    <2> QED  BY <2>7, <2>8
  <1> QED  BY <1>6, <1>7, <1>8, <1>9

\* What the lists of versions look like at first.
LEMMA FiledAtFirst ==
    ASSUME NEW vs \in Histories \cup NeverVersioned
    PROVE  Filed(vs, OldId)
  <1>1. OldId = 2
    BY DEF OldId
  <1>2. ASSUME NEW v \in VersionRec, v.id <= 2, vs = <<v>> PROVE Filed(vs, OldId)
    <2>1. vs \in Seq(VersionRec) /\ Len(vs) = 1 /\ vs[1] = v
      <3>1. \A W : v \in W => <<v>> \in Seq(W)
        OBVIOUS
      <3>2. vs \in Seq(VersionRec)
        BY <1>2, <3>1
      <3> QED  BY <1>2, <3>2
    <2>2. \A i \in 1..Len(vs) : i = 1
      BY <2>1
    <2> QED  BY <1>1, <1>2, <2>1, <2>2 DEF Filed
  <1>3. ASSUME NEW v \in VersionRec, NEW w \in VersionRec, v.id <= 2, v.id > w.id, vs = <<v, w>>
        PROVE  Filed(vs, OldId)
    <2>1. vs \in Seq(VersionRec) /\ Len(vs) = 2 /\ vs[1] = v /\ vs[2] = w
      <3>1. \A W : v \in W /\ w \in W => <<v, w>> \in Seq(W)
        OBVIOUS
      <3>2. vs \in Seq(VersionRec)
        BY <1>3, <3>1
      <3> QED  BY <1>3, <3>2
    <2>2. \A i \in 1..Len(vs) : i = 1 \/ i = 2
      BY <2>1
    <2>3. v.id \in Nat /\ w.id \in Nat
      BY DEF VersionRec
    <2>4. \A i \in 1..Len(vs) : vs[i].id <= 2
      BY <1>3, <2>1, <2>2, <2>3
    <2>5. \A i, j \in 1..Len(vs) : i < j => vs[i].id > vs[j].id
      BY <1>3, <2>1, <2>2
    <2> QED  BY <1>1, <2>1, <2>4, <2>5 DEF Filed
  <1>4. CASE vs = <<>>
    BY <1>4 DEF Filed
  <1>5. \/ vs = <<>>
        \/ vs = <<Stored(0, FALSE, FALSE)>> \/ vs = <<Stored(1, FALSE, FALSE)>>
        \/ vs = <<Stored(2, TRUE, FALSE)>>
        \/ vs = <<Stored(1, FALSE, TRUE), Stored(0, FALSE, FALSE)>>
        \/ vs = <<Stored(2, FALSE, FALSE), Stored(1, FALSE, TRUE)>>
        \/ vs = <<Stored(2, TRUE, FALSE), Stored(1, FALSE, FALSE)>>
    BY DEF Histories, NeverVersioned
  <1>6. CASE vs = <<Stored(0, FALSE, FALSE)>>
    <2>1. PICK v : v = Stored(0, FALSE, FALSE)
      OBVIOUS
    <2>2. vs = <<v>> /\ v \in VersionRec /\ v.id <= 2
      BY <1>6, <2>1 DEF Stored, VersionRec
    <2> QED  BY <1>2, <2>2
  <1>7. CASE vs = <<Stored(1, FALSE, FALSE)>>
    <2>1. PICK v : v = Stored(1, FALSE, FALSE)
      OBVIOUS
    <2>2. vs = <<v>> /\ v \in VersionRec /\ v.id <= 2
      BY <1>7, <2>1 DEF Stored, VersionRec
    <2> QED  BY <1>2, <2>2
  <1>8. CASE vs = <<Stored(2, TRUE, FALSE)>>
    <2>1. PICK v : v = Stored(2, TRUE, FALSE)
      OBVIOUS
    <2>2. vs = <<v>> /\ v \in VersionRec /\ v.id <= 2
      BY <1>8, <2>1 DEF Stored, VersionRec
    <2> QED  BY <1>2, <2>2
  <1>9. CASE vs = <<Stored(1, FALSE, TRUE), Stored(0, FALSE, FALSE)>>
    <2>1. PICK v, w : v = Stored(1, FALSE, TRUE) /\ w = Stored(0, FALSE, FALSE)
      OBVIOUS
    <2>2. vs = <<v, w>> /\ v \in VersionRec /\ w \in VersionRec /\ v.id <= 2 /\ v.id > w.id
      BY <1>9, <2>1 DEF Stored, VersionRec
    <2> QED  BY <1>3, <2>2
  <1>10. CASE vs = <<Stored(2, FALSE, FALSE), Stored(1, FALSE, TRUE)>>
    <2>1. PICK v, w : v = Stored(2, FALSE, FALSE) /\ w = Stored(1, FALSE, TRUE)
      OBVIOUS
    <2>2. vs = <<v, w>> /\ v \in VersionRec /\ w \in VersionRec /\ v.id <= 2 /\ v.id > w.id
      BY <1>10, <2>1 DEF Stored, VersionRec
    <2> QED  BY <1>3, <2>2
  <1>11. CASE vs = <<Stored(2, TRUE, FALSE), Stored(1, FALSE, FALSE)>>
    <2>1. PICK v, w : v = Stored(2, TRUE, FALSE) /\ w = Stored(1, FALSE, FALSE)
      OBVIOUS
    <2>2. vs = <<v, w>> /\ v \in VersionRec /\ w \in VersionRec /\ v.id <= 2 /\ v.id > w.id
      BY <1>11, <2>1 DEF Stored, VersionRec
    <2> QED  BY <1>3, <2>2
  <1> QED  BY <1>4, <1>5, <1>6, <1>7, <1>8, <1>9, <1>10, <1>11

\* At first nothing is asked.
LEMMA ListingInitially ==
    ASSUME ListingInit
    PROVE  ListingInv
  <1>1. PICK v \in BOOLEAN, u \in SUBSET (UploadNames \X Uploads), ps \in SUBSET Names :
            \E md \in [Names -> IF v THEN Histories ELSE NeverVersioned] :
                store = [versioned |-> v, md |-> md, uploads |-> u, parts |-> ps, newest |-> OldId,
                         lapsed |-> [o \in AllListings \cap scene.ops |-> {}]]
    BY DEF ListingInit
  <1>2. PICK md \in [Names -> IF v THEN Histories ELSE NeverVersioned] :
            store = [versioned |-> v, md |-> md, uploads |-> u, parts |-> ps, newest |-> OldId,
                     lapsed |-> [o \in AllListings \cap scene.ops |-> {}]]
    BY <1>1
  <1>3. ASSUME NEW k \in Names PROVE Filed(md[k], OldId)
    <2>1. md[k] \in Histories \cup NeverVersioned
      OBVIOUS
    <2> QED  BY <2>1, FiledAtFirst
  <1>4. BucketFits(store)
    <2>1. md = [k \in Names |-> md[k]] /\ DOMAIN md = Names
      OBVIOUS
    <2> QED  BY <1>2, <1>3, <2>1 DEF BucketFits, OldId
  <1>5. DOMAIN store.lapsed = AllListings \cap scene.ops
    BY <1>2
  <1>6. pc = [r \in Reqs |-> "idle"] /\ ctx = [r \in Reqs |-> None]
    BY DEF ListingInit
  <1> QED  BY <1>4, <1>5, <1>6 DEF ListingInv, Running

\* Every step keeps it so.
LEMMA ListingSteps ==
    ASSUME ListingInv, ListingNext
    PROVE  ListingInv'
  <1>1. scene' = scene
    BY DEF ListingNext
  <1>2. PICK r \in Reqs :
            \/ BucketGet(r) \/ MetadataSearch(r) \/ ListMultipartUploads(r) \/ ListParts(r)
            \/ ListLifecycleCurrents(r) \/ ListLifecycleNonCurrents(r)
            \/ ListLifecycleOrphanDeleteMarkers(r) \/ TellPage(r)
            \/ PutListed(r) \/ DeleteListed(r)
            \/ InitiateListed(r) \/ EndListed(r) \/ StoreListedPart(r) \/ Die(r)
    BY DEF ListingNext
  <1>3. /\ ListingHardLimit = 2 /\ MaxAsked \subseteq Nat \cup {None} /\ Encodings \subseteq {"xml", "url"}
    BY DEF MaxAsked, Encodings, ListingHardLimit
  <1>4. AllListings = {"listObjects", "listObjectsV2", "metadataSearch", "listVersions", "currents",
                       "nonCurrents", "orphans", "listUploads", "listParts"}
    BY DEF AllListings, ObjectListings, LifecycleListings
  <1>5. ASSUME NEW op, Sent(r, op), Refuse(r) PROVE ListingInv'
    <2>1. pc[r] = "idle" /\ ctx[r] = None /\ ctx = [q \in Reqs |-> ctx[q]]
      BY <1>5 DEF Sent, ListingInv
    <2>2. scene.sequential => \A q \in Reqs : Running(q) => q = r
      BY <1>5 DEF Sent, Quiet
    <2>3. store' = store /\ pc' = [pc EXCEPT ![r] = "failed"] /\ ctx' = [ctx EXCEPT ![r] = None]
      BY <1>5, <2>1 DEF Refuse, Goto
    <2> QED  BY <1>1, <2>2, <2>3, ListingGoes
  <1>6. CASE BucketGet(r)
    <2>1. PICK op \in {"listObjects", "listObjectsV2", "listVersions"} :
              /\ Sent(r, op)
              /\ \E max \in MaxAsked, d \in BOOLEAN, e \in Encodings : BeginListing(r, op, max, d, e)
      BY <1>6 DEF BucketGet
    <2>2. op \in AllListings /\ op \in ObjectListings
      BY <1>4, <2>1 DEF ObjectListings
    <2> QED  BY <1>1, <1>3, <2>1, <2>2, ListingBegins
  <1>7. CASE MetadataSearch(r)
    <2>1. "metadataSearch" \in AllListings /\ "metadataSearch" \in ObjectListings
      BY <1>4 DEF ObjectListings
    <2> QED  BY <1>1, <1>3, <1>7, <2>1, ListingBegins DEF MetadataSearch
  <1>8. CASE ListMultipartUploads(r)
    <2>1. "listUploads" \in AllListings
      BY <1>4
    <2> QED  BY <1>1, <1>3, <1>8, <2>1, ListingBegins DEF ListMultipartUploads
  <1>9. CASE ListParts(r)
    <2>1. "listParts" \in AllListings
      BY <1>4
    <2>2. PICK max \in Nat \cup {None} : BeginListing(r, "listParts", max, FALSE, "xml")
      <3>1. PICK asked \in MaxAsked :
                BeginListing(r, "listParts", IF asked = 0 THEN ListingHardLimit ELSE asked, FALSE, "xml")
        BY <1>9 DEF ListParts
      <3>2. (IF asked = 0 THEN ListingHardLimit ELSE asked) \in Nat \cup {None}
        BY <1>3
      <3> QED  BY <3>1, <3>2
    <2>3. Sent(r, "listParts")
      BY <1>9 DEF ListParts
    <2> QED  BY <1>1, <2>1, <2>2, <2>3, ListingBegins
  <1>10. CASE ListLifecycleCurrents(r)
    <2>1. "currents" \in AllListings
      BY <1>4
    <2> QED  BY <1>1, <1>3, <1>10, <2>1, ListingBegins DEF ListLifecycleCurrents
  <1>11. CASE ListLifecycleNonCurrents(r)
    <2>1. "nonCurrents" \in AllListings /\ Sent(r, "nonCurrents")
      BY <1>4, <1>11 DEF ListLifecycleNonCurrents
    <2> QED  BY <1>1, <1>3, <1>5, <1>11, <2>1, ListingBegins DEF ListLifecycleNonCurrents
  <1>12. CASE ListLifecycleOrphanDeleteMarkers(r)
    <2>1. "orphans" \in AllListings /\ Sent(r, "orphans")
      BY <1>4, <1>12 DEF ListLifecycleOrphanDeleteMarkers
    <2> QED  BY <1>1, <1>3, <1>5, <1>12, <2>1, ListingBegins DEF ListLifecycleOrphanDeleteMarkers
  <1>13. CASE Die(r)
    <2>1. PICK c : c = ctx[r]
      OBVIOUS
    <2>2. /\ c = None \/ ListingFits(c)
          /\ ctx = [q \in Reqs |-> ctx[q]] /\ Running(r)
          /\ scene.sequential => \A q \in Reqs : Running(q) => q = r
      BY <1>13, <2>1 DEF ListingInv, Die
    <2>3. store' = store /\ pc' = [pc EXCEPT ![r] = "failed"] /\ ctx' = [ctx EXCEPT ![r] = c]
      BY <1>13, <2>1, <2>2 DEF Die, Goto
    <2> QED  BY <1>1, <2>2, <2>3, ListingGoes
  <1> QED  BY <1>1, <1>2, <1>6, <1>7, <1>8, <1>9, <1>10, <1>11, <1>12, <1>13, TellPageKeeps,
              PutListedKeeps, DeleteListedKeeps, UploadChangesKeep

\* Rows of one name follow each other.
LEMMA RowsBetween ==
    ASSUME NEW op, NEW d \in BOOLEAN, NEW shown, TellsInOrder(op, d, shown),
           NEW i \in 1..Len(shown), NEW j \in 1..Len(shown), i < j
    PROVE  /\ j - 1 \in 1..Len(shown) /\ i <= j - 1
           /\ shown[i].of.name <= shown[j - 1].of.name /\ shown[j - 1].of.name <= shown[j].of.name
           /\ shown[i].of.name \in Nat /\ shown[j - 1].of.name \in Nat /\ shown[j].of.name \in Nat
  <1>1. PICK h \in 1..Len(shown) : h = j - 1 /\ i <= h /\ h < j
    <2>1. Len(shown) \in Nat
      BY DEF TellsInOrder
    <2> QED  BY <2>1
  <1>2. IsRow(op, d, shown[i].of) /\ IsRow(op, d, shown[h].of) /\ IsRow(op, d, shown[j].of)
    BY <1>1 DEF TellsInOrder
  <1>3. shown[i].of \in RowRec /\ shown[h].of \in RowRec /\ shown[j].of \in RowRec
    BY <1>2, RowIs
  <1>4. shown[i].of.name \in Nat /\ shown[h].of.name \in Nat /\ shown[j].of.name \in Nat
    BY <1>3 DEF RowRec
  <1>5. shown[h].of.name <= shown[j].of.name
    <2>1. Precedes(shown[h].of, shown[j].of)
      BY <1>1 DEF TellsInOrder
    <2> QED  BY <1>2, <2>1, RowsAreOrdered
  <1>6. shown[i].of.name <= shown[h].of.name
    <2>1. CASE i = h
      BY <1>4, <2>1
    <2>2. CASE i # h
      <3>1. i < h
        BY <1>1, <2>2
      <3>2. Precedes(shown[i].of, shown[h].of)
        BY <1>1, <3>1 DEF TellsInOrder
      <3> QED  BY <1>2, <3>2, RowsAreOrdered
    <2> QED  BY <2>1, <2>2
  <1> QED  BY <1>1, <1>4, <1>5, <1>6

\* A key has one latest version in a listing.
LEMMA LatestOnce ==
    ASSUME NEW op, NEW d \in BOOLEAN, NEW shown, TellsInOrder(op, d, shown),
           NEW i \in 1..Len(shown), NEW j \in 1..Len(shown), shown[i].latest, shown[j].latest,
           shown[i].of.name = shown[j].of.name
    PROVE  i = j
  <1>1. ASSUME NEW h \in 1..Len(shown), NEW k \in 1..Len(shown), h < k,
               shown[k].latest, shown[h].of.name = shown[k].of.name
        PROVE  FALSE
    <2>1. /\ shown[h].of.name <= shown[k - 1].of.name /\ shown[k - 1].of.name <= shown[k].of.name
          /\ shown[h].of.name \in Nat /\ shown[k - 1].of.name \in Nat /\ shown[k].of.name \in Nat
      BY <1>1, RowsBetween
    <2>2. shown[k - 1].of.name = shown[k].of.name
      BY <1>1, <2>1
    <2>3. k > 1
      BY <1>1
    <2>4. k > 1 => shown[k - 1].of.name # shown[k].of.name
      BY <1>1 DEF TellsInOrder
    <2> QED  BY <2>2, <2>3, <2>4
  <1>2. CASE i < j
    BY <1>1, <1>2
  <1>3. CASE j < i
    BY <1>1, <1>3
  <1> QED  BY <1>2, <1>3

\* What is listed of the versions.
LEMMA VersionsListed ==
    ASSUME BucketFits(store)
    PROVE  /\ \A x \in Listed("listVersions", store) :
                 /\ x.name \in Names /\ x.id \in Nat /\ x = Subject("version", x.name, x.id)
                 /\ store.md[x.name][1].id \in Nat /\ x.id <= store.md[x.name][1].id
                 /\ Subject("version", x.name, store.md[x.name][1].id) \in Listed("listVersions", store)
  <1> DEFINE places == UNION {{k} \X DOMAIN store.md[k] : k \in Names}
  <1>1. Listed("listVersions", store) =
            {Subject("version", p[1], store.md[p[1]][p[2]].id) : p \in places}
    BY DEF Listed
  <1>2. ASSUME NEW x \in Listed("listVersions", store)
        PROVE  /\ x.name \in Names /\ x.id \in Nat /\ x = Subject("version", x.name, x.id)
               /\ store.md[x.name][1].id \in Nat /\ x.id <= store.md[x.name][1].id
               /\ Subject("version", x.name, store.md[x.name][1].id) \in Listed("listVersions", store)
    <2>1. PICK p \in places : x = Subject("version", p[1], store.md[p[1]][p[2]].id)
      BY <1>1
    <2>2. PICK k \in Names : p \in {k} \X DOMAIN store.md[k]
      OBVIOUS
    <2>3. PICK i \in DOMAIN store.md[k] : p = <<k, i>>
      BY <2>2
    <2>4. PICK vs : vs = store.md[k]
      OBVIOUS
    <2>5. Filed(vs, store.newest) /\ x = Subject("version", k, vs[i].id)
      BY <2>1, <2>3, <2>4 DEF BucketFits
    <2>6. vs \in Seq(VersionRec) /\ DOMAIN vs = 1..Len(vs) /\ Len(vs) \in Nat
      BY <2>5 DEF Filed
    <2>7. i \in 1..Len(vs) /\ 1 \in 1..Len(vs)
      BY <2>3, <2>4, <2>6
    <2>8. vs[i] \in VersionRec /\ vs[1] \in VersionRec
      BY <2>6, <2>7
    <2>9. vs[i].id \in Nat /\ vs[1].id \in Nat
      BY <2>8 DEF VersionRec
    <2>10. vs[i].id <= vs[1].id
      <3>1. CASE i = 1
        BY <2>9, <3>1
      <3>2. CASE i # 1
        <4>1. 1 < i
          BY <2>7, <3>2
        <4> QED  BY <2>5, <2>7, <2>9, <4>1 DEF Filed
      <3> QED  BY <3>1, <3>2
    <2>11. x.name = k /\ x.id = vs[i].id
      BY <2>5 DEF Subject
    <2>12. Subject("version", k, vs[1].id) \in Listed("listVersions", store)
      <3>1. PICK q : q = <<k, 1>>
        OBVIOUS
      <3>2. q \in {k} \X DOMAIN store.md[k] /\ q[1] = k /\ q[2] = 1
        BY <2>4, <2>6, <2>7, <3>1
      <3>3. q \in places
        BY <3>2
      <3>4. Subject("version", q[1], store.md[q[1]][q[2]].id) = Subject("version", k, vs[1].id)
        BY <2>4, <3>2
      <3> QED  BY <1>1, <3>3, <3>4
    <2> QED  BY <2>4, <2>5, <2>9, <2>10, <2>11, <2>12
  <1> QED  BY <1>2

\* In a listing that nothing else disturbed, the latest version is said to be.
LEMMA LatestIsIt ==
    ASSUME BucketFits(store), NEW c, ListingFits(c), c.op = "listVersions", scene.sequential,
           c.start = Listed("listVersions", store), ListedWhole(c),
           NEW i \in 1..Len(c.shown), c.shown[i].of.kind = "version"
    PROVE  c.shown[i].latest <=> c.shown[i].of.id = store.md[c.shown[i].of.name][1].id
  <1>1. /\ TellsInOrder(c.op, c.delimiter, c.shown) /\ c.delimiter \in BOOLEAN
        /\ \A k \in 1..Len(c.shown) : c.shown[k].of \in c.start \cup {Prefix}
        /\ c.max = 0 => c.shown = <<>>
    BY DEF ListingFits
  <1>2. PICK shown, d : shown = c.shown /\ d = c.delimiter
    OBVIOUS
  <1>3. TellsInOrder("listVersions", d, shown) /\ d \in BOOLEAN
    BY <1>1, <1>2
  <1>4. PICK x : x = shown[i].of
    OBVIOUS
  <1>5. Prefix.kind = "prefix" /\ Prefix.name = 0
    BY DEF Prefix, Subject
  <1>6. \A k \in 1..Len(shown) : shown[k].of \in Listed("listVersions", store) \cup {Prefix}
    BY <1>1, <1>2
  <1>7. x \in Listed("listVersions", store)
    BY <1>2, <1>4, <1>5, <1>6
  <1>8. PICK y : y = Subject("version", x.name, store.md[x.name][1].id)
    OBVIOUS
  <1>9. /\ x.name \in Names /\ x.id \in Nat /\ x = Subject("version", x.name, x.id)
        /\ store.md[x.name][1].id \in Nat /\ x.id <= store.md[x.name][1].id
        /\ y \in Listed("listVersions", store)
    BY <1>7, <1>8, VersionsListed
  <1>10. y.name = x.name /\ y.id = store.md[x.name][1].id /\ y.kind = "version" /\ x.kind = "version"
    BY <1>8, <1>9 DEF Subject
  <1>11. shown # <<>> /\ c.max # 0
    <2>1. Len(shown) # 0
      BY <1>2
    <2>2. shown # <<>>
      BY <2>1, EmptySeq
    <2> QED  BY <1>1, <1>2, <2>2
  <1>12. IsRow("listVersions", d, x)
    BY <1>2, <1>3, <1>4 DEF TellsInOrder
  <1>13. PICK j \in 1..Len(shown) : shown[j].of = y
    <2>1. HasBeenTold(d, shown, y)
      BY <1>2, <1>9, <1>11 DEF ListedWhole, StoodAll
    <2>2. ~(d /\ y.name <= LastInPrefix)
      <3>1. x # Prefix
        BY <1>5, <1>10
      <3>2. d => x.name > LastInPrefix
        BY <1>12, <3>1 DEF IsRow
      <3> QED  BY <1>9, <1>10, <3>2 DEF Names, LastInPrefix
    <2> QED  BY <2>1, <2>2 DEF HasBeenTold
  <1>14. /\ IsRow("listVersions", d, y)
         /\ shown[i].latest <=> (i > 1 => shown[i - 1].of.name # x.name)
    BY <1>2, <1>3, <1>4, <1>10, <1>13 DEF TellsInOrder
  <1>15. ASSUME shown[i].latest PROVE x.id = store.md[x.name][1].id
    <2>1. SUFFICES ASSUME x.id # y.id PROVE FALSE
      BY <1>10
    <2>2. Precedes(y, x)
      BY <1>9, <1>10, <2>1 DEF Precedes
    <2>3. j < i
      <3>1. ~Precedes(x, y) /\ x # y
        <4>1. ~(Precedes(x, y) /\ Precedes(y, x))
          BY <1>3, <1>12, <1>14, RowsAreOrdered
        <4> QED  BY <2>1, <2>2, <4>1
      <3>2. ~(i < j)
        BY <1>2, <1>3, <1>4, <1>13, <3>1 DEF TellsInOrder
      <3>3. i # j
        BY <1>4, <1>13, <3>1
      <3> QED  BY <1>2, <3>2, <3>3
    <2>4. /\ shown[j].of.name <= shown[i - 1].of.name /\ shown[i - 1].of.name <= shown[i].of.name
          /\ shown[j].of.name \in Nat /\ shown[i - 1].of.name \in Nat /\ shown[i].of.name \in Nat
      BY <1>2, <1>3, <2>3, RowsBetween
    <2>5. shown[i - 1].of.name = x.name
      BY <1>4, <1>10, <1>13, <2>4
    <2>6. i > 1
      BY <2>3
    <2> QED  BY <1>14, <1>15, <2>5, <2>6
  <1>16. ASSUME x.id = store.md[x.name][1].id, ~shown[i].latest PROVE FALSE
    <2>1. i > 1 /\ shown[i - 1].of.name = x.name
      BY <1>14, <1>16
    <2>2. PICK h \in 1..Len(shown) : h = i - 1 /\ h < i
      BY <1>2, <2>1
    <2>3. PICK z : z = shown[h].of
      OBVIOUS
    <2>4. Precedes(z, x)
      BY <1>2, <1>3, <1>4, <2>2, <2>3 DEF TellsInOrder
    <2>5. z.name = x.name
      BY <2>1, <2>2, <2>3
    <2>6. z # Prefix
      BY <1>5, <1>9, <2>5 DEF Names
    <2>7. z \in Listed("listVersions", store)
      BY <1>6, <2>3, <2>6
    <2>8. /\ z.id \in Nat /\ z = Subject("version", z.name, z.id) /\ z.id <= store.md[z.name][1].id
      BY <2>7, VersionsListed
    <2>9. z.kind = "version"
      BY <2>8 DEF Subject
    <2>10. z.id > x.id
      <3>1. x.name \in Nat
        BY <1>9 DEF Names
      <3> QED  BY <2>4, <2>5, <2>9, <3>1 DEF Precedes
    <2> QED  BY <1>9, <1>16, <2>5, <2>8, <2>10
  <1> QED  BY <1>2, <1>4, <1>15, <1>16

\* Listings are whole.
LEMMA ListingHolds ==
    ASSUME In("listing") => ListingInv
    PROVE  ListingsAreWhole
  <1>1. ASSUME In("listing"), NEW r \in Reqs, ctx[r] # None, NEW c, c = ctx[r]
        PROVE  /\ ListingFits(c) /\ DOMAIN c.shown = 1..Len(c.shown)
               /\ TellsInOrder(c.op, c.delimiter, c.shown) /\ c.delimiter \in BOOLEAN
               /\ Answered(r) => ListedWhole(c)
               /\ BucketFits(store) /\ c.op \in AllListings
    <2>1. ListingFits(c)
      BY <1>1 DEF ListingInv
    <2>2. TellsInOrder(c.op, c.delimiter, c.shown) /\ c.delimiter \in BOOLEAN /\ c.op \in AllListings
      BY <2>1 DEF ListingFits
    <2>3. DOMAIN c.shown = 1..Len(c.shown)
      BY <2>2 DEF TellsInOrder
    <2> QED  BY <1>1, <2>1, <2>2, <2>3 DEF ListingInv, Answered
  <1>2. PagesAreComplete
    <2>1. SUFFICES ASSUME In("listing"), NEW r \in Reqs, ctx[r] # None, NEW c, c = ctx[r]
          PROVE  /\ \A i, j \in DOMAIN c.shown : i < j => Precedes(c.shown[i].of, c.shown[j].of)
                 /\ Answered(r) /\ c.max # 0 =>
                      \A x \in c.start \ store.lapsed[c.op] :
                          \/ x \in {c.shown[i].of : i \in DOMAIN c.shown}
                          \/ /\ c.delimiter /\ x.name <= LastInPrefix
                             /\ Prefix \in {c.shown[i].of : i \in DOMAIN c.shown}
      BY DEF PagesAreComplete
    <2>2. /\ DOMAIN c.shown = 1..Len(c.shown) /\ TellsInOrder(c.op, c.delimiter, c.shown)
          /\ Answered(r) => ListedWhole(c)
      BY <1>1, <2>1
    <2>3. \A i, j \in DOMAIN c.shown : i < j => Precedes(c.shown[i].of, c.shown[j].of)
      BY <2>2 DEF TellsInOrder
    <2>4. ASSUME Answered(r), c.max # 0, NEW x \in c.start \ store.lapsed[c.op]
          PROVE  \/ x \in {c.shown[i].of : i \in DOMAIN c.shown}
                 \/ /\ c.delimiter /\ x.name <= LastInPrefix
                    /\ Prefix \in {c.shown[i].of : i \in DOMAIN c.shown}
      <3>1. x \in StoodAll(c)
        BY <2>4 DEF StoodAll
      <3>2. HasBeenTold(c.delimiter, c.shown, x)
        BY <2>2, <2>4, <3>1 DEF ListedWhole
      <3> QED  BY <2>2, <3>2 DEF HasBeenTold
    <2> QED  BY <2>3, <2>4
  <1>3. LatestIsToldOnce
    <2>1. SUFFICES ASSUME In("listing"), NEW r \in Reqs, ctx[r] # None, NEW c, c = ctx[r],
                          c.op = "listVersions"
          PROVE  /\ \A i, j \in {k \in DOMAIN c.shown : c.shown[k].latest} :
                       c.shown[i].of.name = c.shown[j].of.name => i = j
                 /\ scene.sequential /\ Answered(r) /\ c.start = Listed("listVersions", store) =>
                      \A i \in DOMAIN c.shown : c.shown[i].of.kind = "version" =>
                          (i \in {k \in DOMAIN c.shown : c.shown[k].latest}
                             <=> c.shown[i].of.id = store.md[c.shown[i].of.name][1].id)
      BY DEF LatestIsToldOnce
    <2>2. /\ ListingFits(c) /\ DOMAIN c.shown = 1..Len(c.shown)
          /\ TellsInOrder(c.op, c.delimiter, c.shown) /\ c.delimiter \in BOOLEAN
          /\ Answered(r) => ListedWhole(c)
          /\ BucketFits(store)
      BY <1>1, <2>1
    <2>3. ASSUME NEW i \in DOMAIN c.shown, NEW j \in DOMAIN c.shown, c.shown[i].latest,
                 c.shown[j].latest, c.shown[i].of.name = c.shown[j].of.name
          PROVE  i = j
      BY <2>2, <2>3, LatestOnce
    <2>4. ASSUME scene.sequential, Answered(r), c.start = Listed("listVersions", store),
                 NEW i \in DOMAIN c.shown, c.shown[i].of.kind = "version"
          PROVE  c.shown[i].latest <=> c.shown[i].of.id = store.md[c.shown[i].of.name][1].id
      BY <2>1, <2>2, <2>4, LatestIsIt
    <2> QED  BY <2>3, <2>4
  <1> QED  BY <1>2, <1>3 DEF ListingsAreWhole
=============================================================================
