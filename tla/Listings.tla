------------------------------- MODULE Listings -------------------------------
(***************************************************************************)
(* Listings told page by page: the objects and the versions of a bucket    *)
(* (bucketGet, metadataSearch), its uploads and their parts, and what the  *)
(* lifecycle service asks for.  A request of the model is a client that    *)
(* asks for one page after the other, with the marker of the last answer,  *)
(* while others write, delete and upload.                                  *)
(***************************************************************************)
EXTENDS Requests, Sequences

LX == INSTANCE SequencesExt

ListingHardLimit == 2    \* in place of 1000

\* "d/1", "d/2" and "e", in the order of the engine; two share a prefix.
Names == 1..3
LastInPrefix == 2
UploadNames == {LastInPrefix, 3}
Uploads == 1..2
OldId == 2               \* versions up to this one are before the date asked

ObjectListings == {"listObjects", "listObjectsV2", "metadataSearch", "listVersions"}
LifecycleListings == {"currents", "nonCurrents", "orphans"}
AllListings == ObjectListings \cup LifecycleListings \cup {"listUploads", "listParts"}

\* A version; the null one of a bucket that never kept versions has no number.
Stored(id, dm, cold) == [id |-> id, dm |-> dm, cold |-> cold]
NeverVersioned == {<<>>, <<Stored(0, FALSE, FALSE)>>}
Histories ==
    {<<>>, <<Stored(1, FALSE, FALSE)>>, <<Stored(1, FALSE, TRUE), Stored(0, FALSE, FALSE)>>,
     <<Stored(2, FALSE, FALSE), Stored(1, FALSE, TRUE)>>, <<Stored(2, TRUE, FALSE)>>,
     <<Stored(2, TRUE, FALSE), Stored(1, FALSE, FALSE)>>}

\* What a name, a token or a version id looks like in an answer.
ToldAs == [form: {"xml", "url", "base64", "hex", "null", "plain"}, of: Nat]

ASSUME ListingAssumption == None \notin Nat \cup ToldAs \cup [name: ToldAs, id: ToldAs \cup {None}]

Subject(kind, name, id) == [kind |-> kind, name |-> name, id |-> id]
Prefix == Subject("prefix", 0, 0)

-----------------------------------------------------------------------------
(* The metadata engine (external) *)

\* What a listing is about, of what is stored in s.
Listed(op, s) ==
    LET keys == {k \in Names : s.md[k] # <<>>}
        last(k) == s.md[k][1]
        places == UNION {{k} \X DOMAIN s.md[k] : k \in Names}
        at(k, i) == s.md[k][i]
        Keys(of) == {Subject("key", k, 0) : k \in of}
        Versions(of) == {Subject("version", p[1], at(p[1], p[2]).id) : p \in of}
    IN  CASE op \in {"listObjects", "listObjectsV2"} -> Keys({k \in keys : ~last(k).dm})
          [] op = "metadataSearch" -> Keys({k \in keys : ~last(k).dm /\ ~last(k).cold})
          [] op = "currents" ->
                 Keys({k \in keys : ~last(k).dm /\ ~last(k).cold /\ last(k).id <= OldId})
          [] op = "orphans" ->
                 Keys({k \in keys : Len(s.md[k]) = 1 /\ last(k).dm /\ last(k).id <= OldId})
          [] op = "listVersions" -> Versions(places)
          [] op = "nonCurrents" ->
                 Versions({p \in places : p[2] > 1 /\ ~at(p[1], p[2]).cold
                                          /\ at(p[1], p[2] - 1).id <= OldId})
          [] op = "listUploads" -> {Subject("upload", u[1], u[2]) : u \in s.uploads}
          [] op = "listParts" -> {Subject("part", n, 0) : n \in s.parts}

\* By name; the versions of a name from the newest, its uploads from the first.
Precedes(x, y) ==
    \/ x.name < y.name
    \/ x.name = y.name /\ IF x.kind = "version" THEN x.id > y.id ELSE x.id < y.id

\* Whether x comes after the marker; a version marker that cannot be read
\* stands for the end of its key.
Follows(x, marker) ==
    CASE marker.name = None -> TRUE
      [] marker.name = Prefix.name -> x.name > LastInPrefix
      [] OTHER -> \/ x.name > marker.name
                  \/ /\ x.name = marker.name /\ marker.id # None
                     /\ Precedes([x EXCEPT !.id = marker.id], x)

\* What a listing has yet to tell; what is below a delimited prefix is one row.
RowsAfter(op, listParams, s) ==
    LET left == {x \in Listed(op, s) : Follows(x, listParams.marker)}
        below == {x \in left : listParams.delimiter /\ x.name <= LastInPrefix}
    IN  (left \ below) \cup (IF below = {} THEN {} ELSE {Prefix})

\* The first of what is left of some rows, put to those on the page.
PutNext(page, rows) ==
    LET rest == rows \ {page[i] : i \in DOMAIN page}
    IN  IF rest = {} THEN page
        ELSE Append(page, CHOOSE x \in rest : \A y \in rest \ {x} : Precedes(x, y))

\* The first so many of some rows, in their order.
FirstRows(rows, max) ==
    LET page[n \in 0..max] == IF n = 0 THEN <<>> ELSE PutNext(page[n - 1], rows)
    IN  page[max]

\* A page of at most max rows.
EnginePage(op, listParams, s) ==
    LET all == RowsAfter(op, listParams, s)
        rows == FirstRows(all, listParams.maxKeys)
    IN  [rows |-> rows, truncated |-> \E x \in all : \A i \in DOMAIN rows : rows[i] # x]

-----------------------------------------------------------------------------
(* Markers, as they are told and read *)

\* Names go out escaped as the client asked, tokens and version ids encoded.
EscapeXmlFn(c, name) == [form |-> c.encoding, of |-> name]
GenerateToken(name) == [form |-> "base64", of |-> name]
EncodeVersionId(id) == [form |-> IF id = 0 THEN "null" ELSE "hex", of |-> id]

\* Mutant: tokens are escaped like names.
TokenEscaped(c, name) == EscapeXmlFn(c, GenerateToken(name))

\* skipUrlEncoding.
NextContinuationToken(c, name) == GenerateToken(name)

DecryptToken(token) == IF token.form = "base64" THEN token.of ELSE None
DecodeVersionId(told) == IF told = None \/ told.form = "null" THEN None ELSE told.of

\* What a client (external) sends for a name it was told.
Unescaped(c, told) == IF told.form = c.encoding THEN told.of ELSE told

\* Mutant: the name alone is told.
VersionsNextNameOnly(c, row) == [name |-> EscapeXmlFn(c, row.name), id |-> None]

\* processVersions, the markers: none of a version when the page ends in a prefix.
VersionsNext(c, row) ==
    [name |-> EscapeXmlFn(c, row.name),
     id |-> IF row.kind = "version" THEN EncodeVersionId(row.id) ELSE None]

\* processMasterVersions, the markers.  NextMarker comes only with a delimiter
\* (external); without one, a client goes on from the last key.
MasterVersionsNext(c, row) ==
    [name |-> IF c.op = "listObjectsV2" THEN NextContinuationToken(c, row.name)
              ELSE EscapeXmlFn(c, row.name),
     id |-> None]

\* processCurrents, processOrphans and processNonCurrents: nothing is escaped in JSON.
CurrentsNext(c, row) == [name |-> [form |-> "xml", of |-> row.name], id |-> None]
NonCurrentsNext(c, row) == [CurrentsNext(c, row) EXCEPT !.id = EncodeVersionId(row.id)]

\* The number of the last part shown.
PartsNext(c, row) == [name |-> [form |-> "xml", of |-> row.name], id |-> None]

\* convertToXml (external).
UploadsNext(c, row) ==
    [name |-> EscapeXmlFn(c, row.name),
     id |-> IF row.kind = "upload" THEN [form |-> "plain", of |-> row.id] ELSE None]

\* The markers told with a truncated page.
TellNext(c, row) ==
    CASE c.op = "listVersions" -> VersionsNext(c, row)
      [] c.op \in ObjectListings \ {"listVersions"} -> MasterVersionsNext(c, row)
      [] c.op \in {"currents", "orphans"} -> CurrentsNext(c, row)
      [] c.op = "nonCurrents" -> NonCurrentsNext(c, row)
      [] c.op = "listParts" -> PartsNext(c, row)
      [] c.op = "listUploads" -> UploadsNext(c, row)

\* The marker that the engine is given for those of a request.
ReadMarker(c, told) ==
    IF told = None THEN [name |-> None, id |-> None]
    ELSE [name |-> IF c.op = "listObjectsV2" THEN DecryptToken(told.name)
                   ELSE Unescaped(c, told.name),
          id |-> DecodeVersionId(told.id)]

\* The key of the version told before row i of a page, that of the marker at first.
LastKey(marker, rows, i) ==
    LET earlier == {j \in 1..(i - 1) : rows[j].kind = "version"}
    IN  IF earlier = {} THEN marker.name
        ELSE rows[CHOOSE j \in earlier : \A k \in earlier : k <= j].name

\* Mutant: each page is taken for the beginning.
FirstIsLatest(marker, rows, i) ==
    rows[i].kind = "version" /\ (i = 1 \/ LastKey(marker, rows, i) # rows[i].name)

\* The first version listed of a key is the latest, unless the page goes on in
\* the versions of the last one.
IsLatest(marker, rows, i) ==
    rows[i].kind = "version" /\ LastKey(marker, rows, i) # rows[i].name

\* The rows as told: which versions are said to be the latest ones.
Shown(marker, rows) ==
    [i \in DOMAIN rows |-> [of |-> rows[i], latest |-> IsLatest(marker, rows, i)]]

-----------------------------------------------------------------------------
ListingInit ==
    /\ In("listing")
    /\ \E v \in BOOLEAN, u \in SUBSET (UploadNames \X Uploads), ps \in SUBSET Names :
        /\ "listUploads" \notin scene.ops => u = {}
        /\ "listParts" \notin scene.ops => ps = {}
        /\ \E md \in [Names -> IF v THEN Histories ELSE NeverVersioned] :
            /\ scene.ops \cap (ObjectListings \cup LifecycleListings) = {} =>
                   md = [k \in Names |-> <<>>] /\ ~v
            /\ ~scene.sequential => Len(md[LastInPrefix]) < 2
            /\ store = [versioned |-> v, md |-> md, uploads |-> u, parts |-> ps, newest |-> OldId,
                        lapsed |-> [o \in AllListings \cap scene.ops |-> {}]]
    /\ pc = [r \in Reqs |-> "idle"]
    /\ ctx = [r \in Reqs |-> None]

\* max-keys as clients send it, None when it is one that is refused: below zero
\* and, for objects and the lifecycle, no number; beside other requests, only
\* what differs there.
MaxAsked == IF scene.sequential THEN (0..ListingHardLimit + 1) \cup {None} ELSE 1..ListingHardLimit
Encodings == IF scene.sequential THEN {"xml", "url"} ELSE {"xml"}
ActualMax(max) == IF max > ListingHardLimit THEN ListingHardLimit ELSE max

\* A listing begins; with a bad max-keys it is refused.
BeginListing(r, op, max, d, e) ==
    \/ max = None /\ Refuse(r)
    \/ /\ max # None
       /\ Carry(r, [op |-> op, max |-> ActualMax(max), delimiter |-> d, encoding |-> e,
                    next |-> None, start |-> Listed(op, store), shown |-> <<>>])
       /\ Goto(r, "page")
       /\ UNCHANGED store

BucketGet(r) ==
    \E op \in {"listObjects", "listObjectsV2", "listVersions"} :
        /\ Sent(r, op)
        /\ \E max \in MaxAsked, d \in BOOLEAN, e \in Encodings : BeginListing(r, op, max, d, e)

MetadataSearch(r) ==
    /\ Sent(r, "metadataSearch")
    /\ \E max \in MaxAsked, d \in BOOLEAN, e \in Encodings :
        BeginListing(r, "metadataSearch", max, d, e)

\* Asking for no uploads, or for what is no number, is left to the engine.
ListMultipartUploads(r) ==
    /\ Sent(r, "listUploads")
    /\ \E max \in MaxAsked \ {0}, d \in BOOLEAN, e \in Encodings :
        BeginListing(r, "listUploads", max, d, e)

\* Asking for no parts, or for what is no number, is asking for as many as there may be.
ListParts(r) ==
    /\ Sent(r, "listParts")
    /\ \E max \in MaxAsked :
        BeginListing(r, "listParts", IF max = 0 THEN ListingHardLimit ELSE max, FALSE, "xml")

ListLifecycleCurrents(r) ==
    /\ Sent(r, "currents")
    /\ \E max \in MaxAsked : BeginListing(r, "currents", max, FALSE, "xml")

\* Only buckets that keep versions, or did, have other ones.
ListLifecycleNonCurrents(r) ==
    /\ Sent(r, "nonCurrents")
    /\ IF store.versioned
       THEN \E max \in MaxAsked : BeginListing(r, "nonCurrents", max, FALSE, "xml")
       ELSE Refuse(r)

ListLifecycleOrphanDeleteMarkers(r) ==
    /\ Sent(r, "orphans")
    /\ IF store.versioned
       THEN \E max \in MaxAsked : BeginListing(r, "orphans", max, FALSE, "xml")
       ELSE Refuse(r)

\* getObjectListing, getLifecycleListing, getMultipartUploadListing or
\* getSomeMPUparts, and the answer; a client goes on while it is truncated.  The
\* parts of an upload that has ended are not told.
TellPage(r) ==
    /\ pc[r] = "page"
    /\ LET c == ctx[r]
           marker == ReadMarker(c, c.next)
           list == EnginePage(c.op, [marker |-> marker, delimiter |-> c.delimiter,
                                     maxKeys |-> c.max], store)
       IN  \/ c.max = 0 /\ Goto(r, "ok") /\ UNCHANGED ctx
           \/ c.op = "listParts" /\ store.parts = {} /\ Goto(r, "failed") /\ UNCHANGED ctx
           \/ /\ c.max # 0
              /\ Carry(r, [c EXCEPT !.shown = @ \o Shown(marker, list.rows),
                                   !.next = IF list.truncated
                                            THEN TellNext(c, list.rows[Len(list.rows)])
                                            ELSE None])
              /\ IF list.truncated THEN UNCHANGED pc ELSE Goto(r, "ok")
    /\ UNCHANGED store

\* Another request changes what is stored; store.lapsed keeps what it unlists.
ChangeListed(r, s) ==
    /\ store' = [s EXCEPT !.lapsed =
                    [o \in AllListings \cap scene.ops |-> @[o] \cup (Listed(o, store) \ Listed(o, s))]]
    /\ Goto(r, "ok")
    /\ UNCHANGED ctx

PutListed(r) ==
    /\ Sent(r, "putObject")
    /\ \E k \in Names, dm \in BOOLEAN :
        /\ dm => store.versioned
        /\ IF store.versioned
           THEN ChangeListed(r, [store EXCEPT !.md[k] = <<Stored(store.newest + 1, dm, FALSE)>> \o @,
                                        !.newest = @ + 1])
           ELSE ChangeListed(r, [store EXCEPT !.md[k] = <<Stored(0, FALSE, FALSE)>>])

DeleteListed(r) ==
    /\ Sent(r, "deleteObject")
    /\ \E k \in Names : \E i \in DOMAIN store.md[k] :
        ChangeListed(r, [store EXCEPT !.md[k] = LX!RemoveAt(@, i)])

InitiateListed(r) ==
    /\ Sent(r, "upload")
    /\ \E u \in (UploadNames \X Uploads) \ store.uploads :
        ChangeListed(r, [store EXCEPT !.uploads = @ \cup {u}])

\* An upload is completed or aborted, which removes its parts.
EndListed(r) ==
    /\ Sent(r, "upload")
    /\ \E u \in store.uploads : ChangeListed(r, [store EXCEPT !.uploads = @ \ {u}, !.parts = {}])

StoreListedPart(r) ==
    /\ Sent(r, "upload")
    /\ \E n \in Names : ChangeListed(r, [store EXCEPT !.parts = @ \cup {n}])

ListingNext ==
    /\ In("listing")
    /\ \E r \in Reqs :
        \/ BucketGet(r) \/ MetadataSearch(r) \/ ListMultipartUploads(r) \/ ListParts(r)
        \/ ListLifecycleCurrents(r) \/ ListLifecycleNonCurrents(r)
        \/ ListLifecycleOrphanDeleteMarkers(r) \/ TellPage(r)
        \/ PutListed(r) \/ DeleteListed(r)
        \/ InitiateListed(r) \/ EndListed(r) \/ StoreListedPart(r) \/ Die(r)
    /\ UNCHANGED scene

-----------------------------------------------------------------------------
(* Properties *)

\* A listing that a client follows to its end has told, once and in order,
\* everything that was there all the while, itself or its prefix, whatever was
\* written, deleted or uploaded between its pages.
PagesAreComplete ==
    In("listing") => \A r \in Reqs : ctx[r] # None =>
        LET shown == ctx[r].shown
            told == {shown[i].of : i \in DOMAIN shown}
        IN  /\ \A i, j \in DOMAIN shown : i < j => Precedes(shown[i].of, shown[j].of)
            /\ Answered(r) /\ ctx[r].max # 0 =>
                 \A x \in ctx[r].start \ store.lapsed[ctx[r].op] :
                     x \in told \/ (ctx[r].delimiter /\ x.name <= LastInPrefix /\ Prefix \in told)

\* No key has two latest versions in one listing, wherever its pages end, and
\* when nothing changes the latest version is the one that is said to be.
LatestIsToldOnce ==
    In("listing") => \A r \in Reqs : ctx[r] # None /\ ctx[r].op = "listVersions" =>
        LET shown == ctx[r].shown
            latest == {i \in DOMAIN shown : shown[i].latest}
        IN  /\ \A i, j \in latest : shown[i].of.name = shown[j].of.name => i = j
            /\ scene.sequential /\ Answered(r) /\ ctx[r].start = Listed("listVersions", store) =>
                 \A i \in DOMAIN shown : shown[i].of.kind = "version" =>
                     (i \in latest <=> shown[i].of.id = store.md[shown[i].of.name][1].id)

\* Following the markers shows everything, once, and the latest versions as such.
ListingsAreWhole == PagesAreComplete /\ LatestIsToldOnce
=============================================================================
