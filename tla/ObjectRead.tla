------------------------------ MODULE ObjectRead ------------------------------
(***************************************************************************)
(* Which bytes a read of an object returns: objectGet and objectHead with  *)
(* a range or a part number, and objectPutCopyPart with a source range.    *)
(* The record lists the locations of the data; each is read in a call of   *)
(* its own, while the object may be overwritten.                           *)
(***************************************************************************)
EXTENDS Requests, Sequences

\* A range is no absent range.
ASSUME ReadAssumption == None \notin Nat \X Nat

\* Sizes and part numbers of an object's locations: a part may have several
\* (a copied part), and part numbers may be missing.
Shapes == UNION {{s \in [1..n -> [size : {1, 3}, part : 1..3]] :
                    \A i, j \in 1..n : i < j => s[i].part <= s[j].part} : n \in 1..3}
NewShape == << [size |-> 2, part |-> 1], [size |-> 2, part |-> 1] >>

First == "first"        \* the put of the object that is there

\* The size of the first n of some locations.
SizeUpTo(locs) ==
    LET size[n \in 0..Len(locs)] == IF n = 0 THEN 0 ELSE size[n - 1] + locs[n].size
    IN  size

\* The locations that put p recorded.
Locations(p, shape) ==
    [i \in DOMAIN shape |-> [key |-> <<p, i>>, start |-> SizeUpTo(shape)[i - 1],
                             size |-> shape[i].size, part |-> shape[i].part, range |-> None]]

KeysOf(locs) == {locs[i].key : i \in DOMAIN locs}
Length(locs) == LET l == locs[Len(locs)] IN l.start + l.size

ReadInit ==
    /\ In("read")
    /\ \E s \in Shapes :
        /\ "putObject" \in scene.ops => s = NewShape
        /\ store = [object |-> Locations(First, s), data |-> KeysOf(Locations(First, s))]
    /\ pc = [r \in Reqs |-> "idle"]
    /\ ctx = [r \in Reqs |-> None]

-----------------------------------------------------------------------------
(* setPartRanges.js *)

Lower(a, b) == IF a < b THEN a ELSE b

\* Mutant: from the offset to the end of the location.
AddLocationToEnd(acc, loc, begin, max) ==
    IF acc.done \/ acc.total >= max \/ loc.start + loc.size <= begin THEN acc
    ELSE IF loc.start >= begin /\ acc.total + loc.size <= max
         THEN [acc EXCEPT !.locs = Append(@, loc), !.total = @ + loc.size]
    ELSE IF loc.start >= begin
         THEN LET endPart == Lower(loc.size - 1, max - acc.total - 1)
              IN  [acc EXCEPT !.done = TRUE, !.locs = Append(@,
                      [loc EXCEPT !.range = <<0, endPart>>, !.size = endPart + 1])]
    ELSE LET offset == begin - loc.start
         IN  [acc EXCEPT !.total = @ + loc.size - offset, !.locs = Append(@,
                 [loc EXCEPT !.range = <<offset, loc.size - 1>>, !.size = loc.size - offset])]

\* Mutant: the size is not adjusted.
AddLocationWhole(acc, loc, begin, max) ==
    IF acc.done \/ acc.total >= max \/ loc.start + loc.size <= begin THEN acc
    ELSE IF loc.start >= begin /\ acc.total + loc.size <= max
         THEN [acc EXCEPT !.locs = Append(@, loc), !.total = @ + loc.size]
    ELSE IF loc.start >= begin
         THEN [acc EXCEPT !.done = TRUE, !.locs = Append(@,
                  [loc EXCEPT !.range = <<0, Lower(loc.size - 1, max - acc.total - 1)>>])]
    ELSE LET offset == begin - loc.start
             endPart == Lower(loc.size - 1, max - acc.total + offset - 1)
         IN  [acc EXCEPT !.total = @ + endPart - offset + 1, !.locs = Append(@,
                 [loc EXCEPT !.range = <<offset, endPart>>])]

\* One turn of the loop: past the range, before it, wholly inside, cut at the
\* end (the last one), or cut at the start.
AddLocation(acc, loc, begin, max) ==
    IF acc.done \/ acc.total >= max \/ loc.start + loc.size <= begin THEN acc
    ELSE IF loc.start >= begin /\ acc.total + loc.size <= max
         THEN [acc EXCEPT !.locs = Append(@, loc), !.total = @ + loc.size]
    ELSE IF loc.start >= begin
         THEN LET endPart == Lower(loc.size - 1, max - acc.total - 1)
              IN  [acc EXCEPT !.done = TRUE, !.locs = Append(@,
                      [loc EXCEPT !.range = <<0, endPart>>, !.size = endPart + 1])]
    ELSE LET offset == begin - loc.start
             endPart == Lower(loc.size - 1, max - acc.total + offset - 1)
         IN  [acc EXCEPT !.total = @ + endPart - offset + 1, !.locs = Append(@,
                 [loc EXCEPT !.range = <<offset, endPart>>, !.size = endPart - offset + 1])]

\* A sole location has the range of the object.
SetPartRanges(locs, range) ==
    IF range = None THEN locs
    ELSE LET begin == range[1]
             max == range[2] - begin + 1
             acc[n \in 0..Len(locs)] ==
                 IF n = 0 THEN [locs |-> <<>>, total |-> 0, done |-> FALSE]
                 ELSE AddLocation(acc[n - 1], locs[n], begin, max)
         IN  IF Len(locs) = 1
             THEN << [locs[1] EXCEPT !.range = range, !.size = Lower(@, max)] >>
             ELSE acc[Len(locs)].locs

-----------------------------------------------------------------------------
(* partInfo.js, and the same search in objectGet *)

\* The locations of a part: numbers do not descend, so they follow one another
\* and the search ends at a later part.
PartLocations(locs, number) ==
    LET of == {i \in DOMAIN locs : locs[i].part = number}
        first == CHOOSE i \in of : \A j \in of : i <= j
        last == CHOOSE i \in of : \A j \in of : j <= i
    IN  IF of = {} THEN <<>> ELSE SubSeq(locs, first, last)

SpanOf(locs) == <<locs[1].start, Length(locs) - 1>>

\* Mutant: the size is that of the first location.
SizeOfFirst(locs, number) ==
    LET of == PartLocations(locs, number)
    IN  IF Len(locs) < number \/ of = <<>> THEN None ELSE of[1].size

\* getPartSize wants as many locations as the number says.
GetPartSize(locs, number) ==
    LET of == PartLocations(locs, number)
    IN  IF Len(locs) < number \/ of = <<>> THEN None
        ELSE SpanOf(of)[2] - SpanOf(of)[1] + 1

-----------------------------------------------------------------------------
(* Requests *)

ValidRanges(locs) ==
    {range \in (0..Length(locs) - 1) \X (0..Length(locs) - 1) : range[1] <= range[2]}

\* The record is read, the range (parseRange, external) is one of the object's.
Locate(r, op, range, locs) ==
    /\ Carry(r, [op |-> op, object |-> store.object, range |-> range,
                 locs |-> SetPartRanges(locs, range), left |-> SetPartRanges(locs, range),
                 got |-> <<>>])
    /\ Goto(r, "stream")
    /\ UNCHANGED store

ObjectGet(r) ==
    /\ Sent(r, "getObject")
    /\ \E range \in {None} \cup ValidRanges(store.object) :
           Locate(r, "get", range, store.object)

ObjectGetPart(r) ==
    /\ Sent(r, "getPart")
    /\ \E n \in 1..4 :
        LET of == PartLocations(store.object, n)
        IN  IF of = <<>> THEN Refuse(r)
            ELSE Locate(r, "get", SpanOf(of), store.object)

\* objectPutCopyPart with setUpCopyLocator.
CopyPartRange(r) ==
    /\ Sent(r, "copyPart")
    /\ \E range \in {None} \cup ValidRanges(store.object) :
           Locate(r, "copyPart", range, store.object)

ObjectHeadPart(r) ==
    /\ Sent(r, "headPart")
    /\ \E n \in 1..4 :
           Carry(r, [op |-> "head", object |-> store.object, number |-> n,
                     size |-> GetPartSize(store.object, n)])
    /\ Goto(r, "ok")
    /\ UNCHANGED store

\* The bytes of a location, or of its range.
BytesOf(loc) ==
    LET span == IF loc.range = None THEN <<0, loc.size - 1>> ELSE loc.range
    IN  [j \in 1..(span[2] - span[1] + 1) |-> <<loc.key[1], loc.start + span[1] + j - 1>>]

\* The data of one location; if it is gone the connection breaks.
StreamLocation(r) ==
    LET loc == Head(ctx[r].left)
    IN  /\ pc[r] = "stream" /\ ctx[r].left # <<>>
        /\ IF loc.key \in store.data
           THEN /\ Carry(r, [ctx[r] EXCEPT !.left = Tail(@), !.got = @ \o BytesOf(loc)])
                /\ UNCHANGED <<store, pc>>
           ELSE Refuse(r)

EndStream(r) ==
    /\ pc[r] = "stream" /\ ctx[r].left = <<>>
    /\ Goto(r, "ok")
    /\ UNCHANGED <<store, ctx>>

\* createAndStoreObject of the same key: data, record, and the old data.
Overwrite(r) ==
    /\ Sent(r, "putObject")
    /\ Carry(r, [op |-> "put", old |-> store.object])
    /\ store' = [store EXCEPT !.object = Locations(r, NewShape),
                              !.data = @ \cup KeysOf(Locations(r, NewShape))]
    /\ Goto(r, "deleteOverwritten")

DeleteOverwrittenData(r) ==
    /\ pc[r] = "deleteOverwritten"
    /\ store' = [store EXCEPT !.data = @ \ KeysOf(ctx[r].old)]
    /\ Goto(r, "ok")
    /\ UNCHANGED ctx

ReadStep(r) ==
    \/ ObjectGet(r) \/ ObjectGetPart(r) \/ CopyPartRange(r) \/ ObjectHeadPart(r)
    \/ StreamLocation(r) \/ EndStream(r) \/ Overwrite(r) \/ DeleteOverwrittenData(r)

ReadNext ==
    /\ In("read")
    /\ \E r \in Reqs : ReadStep(r) \/ Die(r)
    /\ UNCHANGED scene

-----------------------------------------------------------------------------
(* Properties *)

ObjectOf(r) == ctx[r].object[1].key[1]
Asked(r) ==
    LET range == IF ctx[r].range = None THEN <<0, Length(ctx[r].object) - 1>> ELSE ctx[r].range
    IN  [j \in 1..(range[2] - range[1] + 1) |-> <<ObjectOf(r), range[1] + j - 1>>]

\* A read that ends well returned the bytes that were asked for, in order, all
\* of the one object whose record it read, however it is cut into locations and
\* whatever overwrote it meanwhile; and so many as the Content-Length said.
GotWhatWasAsked ==
    In("read") => \A r \in Reqs :
        Answered(r) /\ ctx[r].op \in {"get", "copyPart"} => ctx[r].got = Asked(r)

\* The sizes that a copied part records for its locations are those of the data
\* that is read from them: they add up to the part.
CopiedSizesAreTrue ==
    In("read") => \A r \in Reqs :
        Answered(r) /\ ctx[r].op = "copyPart" =>
            \A i \in DOMAIN ctx[r].locs :
                ctx[r].locs[i].size = Len(BytesOf(ctx[r].locs[i]))

\* When no part number is left out, HEAD of a part tells the size of what GET
\* of it returns, and that there is no such part when there is none.
HeadAgreesWithGet ==
    In("read") => \A r \in Reqs :
        Answered(r) /\ ctx[r].op = "head" =>
            LET numbers == {ctx[r].object[i].part : i \in DOMAIN ctx[r].object}
                of == PartLocations(ctx[r].object, ctx[r].number)
            IN  numbers = 1..Cardinality(numbers) =>
                  ctx[r].size = IF of = <<>> THEN None
                                ELSE SizeUpTo(of)[Len(of)]

\* Reads, the sizes that copies record and HEAD tell the truth.
ReadsAreTrue == GotWhatWasAsked /\ CopiedSizesAreTrue /\ HeadAgreesWithGet
=============================================================================
