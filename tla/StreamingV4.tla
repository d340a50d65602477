----------------------------- MODULE StreamingV4 -----------------------------
(***************************************************************************)
(* lib/auth/streamingV4/V4Transform.js: the body of a PUT that is signed   *)
(* chunk by chunk.  The stream arrives in pieces that may end anywhere;    *)
(* the transform takes it apart, has each chunk authenticated and passes   *)
(* its data on.                                                            *)
(***************************************************************************)
EXTENDS Requests, Sequences

\* The chunks that the client signed, of so many bytes; the last one is empty.
Sizes == <<2, 1, 0>>
Chunks == 1..Len(Sizes)

Line == << <<"cr">>, <<"lf">> >>
Header(i) == << <<"size", i>>, <<"signature", i>> >>
Signed(i) == [j \in 1..Sizes[i] |-> <<"data", i, j>>]
Chunk(i) == Header(i) \o Line \o Signed(i) \o Line
Body == Signed(1) \o Signed(2)

\* The stream as signed, and as it should not be: chunks swapped, a byte
\* changed, cut off, a line break too many.
Streams == [wellFormed |-> Chunk(1) \o Chunk(2) \o Chunk(3),
            swapped    |-> Chunk(2) \o Chunk(1) \o Chunk(3),
            changed    |-> [Chunk(1) EXCEPT ![5] = <<"data", 3, 1>>] \o Chunk(2) \o Chunk(3),
            cutOff     |-> Chunk(1) \o Header(2),
            longer     |-> Chunk(1) \o Line \o Chunk(2) \o Chunk(3)]

\* input: yet to arrive; piece: not parsed yet; the other fields are those of
\* the transform.  passed: what it pushed.
V4Init ==
    /\ In("v4")
    /\ \E s \in scene.ops \cap DOMAIN Streams :
        store = [stream |-> s, input |-> Streams[s], piece |-> <<>>, passed |-> <<>>,
                 currentMetadata |-> <<>>, haveMetadata |-> FALSE, seekingDataSize |-> 0,
                 currentData |-> <<>>, dataCursor |-> 0, lastSignature |-> 0,
                 currentSignature |-> None, lastChunk |-> FALSE, lastPieceDone |-> FALSE,
                 clientError |-> FALSE]
    /\ pc = [r \in Reqs |-> "idle"]
    /\ ctx = [r \in Reqs |-> None]

\* Buffer.slice(0, n), with n from the end if negative, and Buffer.slice(n).
Before(s, n) == SubSeq(s, 1, IF n < 0 THEN Len(s) + n ELSE n)
From(s, n) == SubSeq(s, n + 1, Len(s))

\* Buffer.copy: what does not fit is dropped.
Copied(target, at, s) ==
    [k \in DOMAIN target |-> IF k > at /\ k <= at + Len(s) THEN s[k - at] ELSE target[k]]

\* indexOf('\r\n')
Breaks(s) == {i \in 0..(Len(s) - 2) : s[i + 1] = <<"cr">> /\ s[i + 2] = <<"lf">>}
LineBreakIndex(s) == CHOOSE i \in Breaks(s) : \A j \in Breaks(s) : i <= j

\* The body of one request.
PutStreaming(r) ==
    /\ Sent(r, "putStreaming")
    /\ \A q \in Reqs : pc[q] = "idle"
    /\ Goto(r, "await")
    /\ UNCHANGED <<store, ctx>>

\* _transform; after an error, or the end, the rest is ignored.
Transform(r) ==
    /\ pc[r] = "await"
    /\ \E n \in 1..Len(store.input) :
        /\ store' = [store EXCEPT !.input = From(@, n), !.piece = Before(store.input, n)]
        /\ Goto(r, IF store.clientError \/ store.lastPieceDone THEN "await"
                   ELSE IF store.haveMetadata THEN "data" ELSE "metadata")
        /\ UNCHANGED ctx

Fail(r) ==
    /\ store' = [store EXCEPT !.clientError = TRUE]
    /\ Goto(r, "await")
    /\ UNCHANGED ctx

KeepMetadata(r, s) ==
    /\ store' = [store EXCEPT !.currentMetadata = s]
    /\ Goto(r, "await")
    /\ UNCHANGED ctx

\* What _parseMetadata finds in s: a full line, after a leading line break too.
FullMetadata(s) ==
    IF LineBreakIndex(s) > 0 THEN s ELSE From(s, 2)

\* Mutant: the metadata that came before is not put in front.
ForgetMetadata == store.piece

RemainingPlusStored == store.currentMetadata \o store.piece

\* _parseMetadata: the rest starts after the first line, counted from the start
\* of s even when a leading line break was skipped.
ParseMetadata(r) ==
    LET s == RemainingPlusStored
        line == FullMetadata(s)
        full == Before(line, LineBreakIndex(line))
    IN  /\ pc[r] = "metadata"
        /\ IF Breaks(s) = {} THEN KeepMetadata(r, s)
           ELSE IF Breaks(line) = {} THEN KeepMetadata(r, line)
           ELSE IF ~\E i \in Chunks : full = Header(i) THEN Fail(r)
           ELSE LET size == Sizes[full[1][2]]
                IN  /\ store' = [store EXCEPT
                           !.currentMetadata = <<>>, !.haveMetadata = TRUE,
                           !.currentSignature = full[2][2],
                           !.lastChunk = size = 0,
                           !.seekingDataSize = size + 2,
                           !.currentData = [j \in 1..size |-> None],
                           !.piece = From(s, LineBreakIndex(line) + 2)]
                    /\ Goto(r, IF size = 0 THEN "authenticate" ELSE "data")
                    /\ UNCHANGED ctx

\* Mutant: the cursor stays.
CopyToStart(r) ==
    /\ pc[r] = "data"
    /\ Len(store.piece) < store.seekingDataSize
    /\ store' = [store EXCEPT !.currentData = Copied(@, store.dataCursor, store.piece),
                              !.seekingDataSize = @ - Len(store.piece)]
    /\ Goto(r, "await")
    /\ UNCHANGED ctx

\* The data goes on in a later piece.
AddData(r) ==
    /\ pc[r] = "data"
    /\ Len(store.piece) < store.seekingDataSize
    /\ store' = [store EXCEPT !.currentData = Copied(@, store.dataCursor, store.piece),
                              !.dataCursor = @ + Len(store.piece),
                              !.seekingDataSize = @ - Len(store.piece)]
    /\ Goto(r, "await")
    /\ UNCHANGED ctx

CompleteData(r) ==
    /\ pc[r] = "data"
    /\ Len(store.piece) >= store.seekingDataSize
    /\ store' = [store EXCEPT !.currentData =
           Copied(@, store.dataCursor, Before(store.piece, store.seekingDataSize - 2))]
    /\ Goto(r, "authenticate")
    /\ UNCHANGED ctx

\* Mutant: the signature before is not part of what was signed.
SignedAlone(data, signature, last) == data = Signed(signature)

\* The client signed this data with this signature after that one.
Authentic(data, signature, last) == data = Signed(signature) /\ last = signature - 1

\* _authenticate, and what follows when vault (external) agrees.
Authenticate(r) ==
    /\ pc[r] = "authenticate"
    /\ IF ~Authentic(store.currentData, store.currentSignature, store.lastSignature)
       THEN Fail(r)
       ELSE LET rest == From(store.piece, store.seekingDataSize)
            IN  /\ store' = IF store.lastChunk
                            THEN [store EXCEPT !.lastPieceDone = TRUE, !.piece = <<>>]
                            ELSE [store EXCEPT !.passed = @ \o store.currentData,
                                               !.lastSignature = store.currentSignature,
                                               !.piece = rest, !.haveMetadata = FALSE,
                                               !.currentData = <<>>, !.dataCursor = 0]
                /\ Goto(r, IF store.lastChunk \/ rest = <<>> THEN "await" ELSE "metadata")
                /\ UNCHANGED ctx

\* The body ends; the request is answered.
EndBody(r) ==
    /\ pc[r] = "await" /\ store.input = <<>>
    /\ Goto(r, IF store.clientError THEN "failed" ELSE "ok")
    /\ UNCHANGED <<store, ctx>>

V4Next ==
    /\ In("v4")
    /\ \E r \in Reqs : PutStreaming(r) \/ Transform(r) \/ ParseMetadata(r) \/ AddData(r)
                       \/ CompleteData(r) \/ Authenticate(r) \/ EndBody(r)
    /\ UNCHANGED scene

-----------------------------------------------------------------------------
(* Properties *)

\* Wherever the pieces end, and whatever was done to the stream, only data that
\* the client signed is passed on, in the order it was signed.
OnlySignedDataPasses ==
    In("v4") => /\ Len(store.passed) <= Len(Body)
                /\ store.passed = Before(Body, Len(store.passed))

\* A stream that is as the client signed it is passed on whole, wherever the
\* pieces end, even inside a header or between the bytes of a line break.
SignedStreamPasses ==
    In("v4") /\ store.stream = "wellFormed" /\ (\E r \in Reqs : pc[r] \in {"ok", "failed"}) =>
        store.passed = Body /\ store.lastPieceDone /\ ~store.clientError

\* What was signed is passed on, all of it if nothing was done to it.
StreamIsSigned == OnlySignedDataPasses /\ SignedStreamPasses
=============================================================================
