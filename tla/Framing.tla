------------------------------ MODULE Framing ------------------------------
(***************************************************************************)
(* How requests and responses are written to a connection one after the    *)
(* other and read from it again (fasthttp/http.go, streaming.go, header.go *)
(* as far as it says how long a body is): bodies of known length, chunked  *)
(* bodies with their trailers, bodies that end with the connection,        *)
(* streams, limits, and connections that end early.                        *)
(*                                                                         *)
(* A connection is a sequence of tokens <<kind, owner, number, status>>: a *)
(* header, a unit of a body, a chunk's size or its end, a trailer's line   *)
(* or its end.  A body of known length takes tokens of any kind.           *)
(***************************************************************************)
EXTENDS Integers, Sequences, SequencesExt

CONSTANTS
  Chunk,      \* what a read of a stream gives at most
  Prefetch    \* the first part of a streamed body that is read at once

(* A copy moves a byte at least, and so does a read ahead of a handler. *)
Sizes == Chunk \in Nat \ {0} /\ Prefetch \in Nat \ {0}
ASSUME SizesAssumption == Sizes

(* A message: of a response, status is ok, none (a status without a body)  *)
(* or late (such a status that is set after the body), and skip is         *)
(* SkipBody.  Of a request, status is get (GET or HEAD) or post.  The body *)
(* has actual units; a stream says how many, or -1.                        *)
Message(dir, status, skip, stream, size, actual, trailer) ==
  [dir |-> dir, status |-> status, skip |-> skip, stream |-> stream,
   size |-> size, actual |-> actual, trailer |-> trailer]

Unit(id) == <<"unit", id, 0, "">>
Size(n) == <<"size", 0, n, "">>
Crlf == <<"crlf", 0, 0, "">>
Line(id) == <<"line", id, 0, "">>
End == <<"end", 0, 0, "">>
Units(id, n) == [i \in 1 .. n |-> Unit(id)]

NoLength == -2
Chunked == -1

-----------------------------------------------------------------------------
(* Writing                                                                 *)

HeadOf(id, length, m) == <<"head", id, length, IF m.status = "late" THEN "none" ELSE m.status>>

Least(a, b) == IF a < b THEN a ELSE b

(* The body of a stream goes out as it is read: sent[k] is what goes out   *)
(* when k units are left.                                                  *)
WriteBodyChunked(id, n) ==
  LET sent[k \in 0 .. n] ==
        LET size == Least(k, Chunk)
        IN  IF k = 0 THEN <<Size(0)>>
            ELSE (<<Size(size)>> \o Units(id, size) \o <<Crlf>>) \o sent[k - size]
  IN  sent[n]

WriteTrailer(id, m) == (IF m.trailer THEN <<Line(id)>> ELSE <<>>) \o <<End>>

Written(tokens, error) == [tokens |-> tokens, error |-> error]

MustSkipBody(m) == m.skip \/ m.status \in {"none", "late"}

(* A status without a body leaves the length as it is: 0. *)
StreamLength(m) == IF m.status = "none" THEN 0 ELSE m.size

(* Of a body that is not sent the trailer is. *)
WriteBodyStream(id, m, sendBody) ==
  LET length == StreamLength(m)
      body == IF sendBody THEN WriteBodyChunked(id, m.actual) ELSE <<>>
  IN  IF length >= 0
      THEN Written(<<HeadOf(id, IF m.status = "none" THEN NoLength ELSE length, m)>>
                     \o (IF sendBody THEN Units(id, m.actual) ELSE <<>>),
                   sendBody /\ m.actual # length)
      ELSE Written(<<HeadOf(id, Chunked, m)>> \o body \o WriteTrailer(id, m), FALSE)

WriteResponse(id, m) ==
  LET sendBody == ~MustSkipBody(m)
      length == IF m.status \in {"none", "late"} \/ (~sendBody /\ m.actual = 0) THEN NoLength ELSE m.actual
  IN  IF m.stream THEN WriteBodyStream(id, m, sendBody)
      ELSE Written(<<HeadOf(id, length, m)>>
                     \o (IF sendBody THEN Units(id, m.actual) ELSE <<>>), FALSE)

WriteRequest(id, m) ==
  LET length == IF m.actual = 0 /\ m.status = "get" THEN NoLength ELSE m.actual
  IN  IF m.stream THEN WriteBodyStream(id, m, TRUE)
      ELSE Written(<<HeadOf(id, length, m)>> \o Units(id, m.actual), FALSE)

(* Another server may end a response with its connection. *)
Identity(m) == m.dir = "response" /\ ~m.stream /\ m.size = NoLength
WriteIdentity(id, m) == Written(<<HeadOf(id, NoLength, m)>> \o Units(id, m.actual), FALSE)

Write(id, m) ==
  IF m.dir = "request" THEN WriteRequest(id, m)
  ELSE IF Identity(m) THEN WriteIdentity(id, m) ELSE WriteResponse(id, m)

(* What the program, or another server, may write: a request has a method  *)
(* and a response a status; a response that ends with its connection has a *)
(* body and somebody who reads it.                                         *)
Writable ==
  {m \in [dir : {"request", "response"}, status : {"ok", "none", "late", "get", "post"},
          skip : BOOLEAN, stream : BOOLEAN, size : Int, actual : Nat, trailer : BOOLEAN] :
     /\ m.dir = "response" <=> m.status \in {"ok", "none", "late"}
     /\ Identity(m) => m.status = "ok" /\ ~m.skip}

-----------------------------------------------------------------------------
(* Reading: what was read, the tokens that are left, and the error.  After *)
(* its last token a connection has ended (eof), been reset or is open, and *)
(* then the reader waits.                                                  *)
Ends == {"open", "eof", "reset"}

Result(error, body, rest) == [error |-> error, body |-> body, lines |-> <<>>, rest |-> rest]

First(n, s) == SubSeq(s, 1, n)
After(n, s) == SubSeq(s, n + 1, Len(s))

Unexpected(end) == IF end = "eof" THEN "ErrUnexpectedEOF" ELSE end

AppendBodyFixedSize(s, n, end) ==
  IF Len(s) < n THEN Result(Unexpected(end), s, <<>>)
  ELSE Result("none", First(n, s), After(n, s))

Exceeds(n, limit) == limit > 0 /\ n > limit

ReadBodyFixed(s, n, limit, end) ==
  IF Exceeds(n, limit) THEN Result("ErrBodyTooLarge", <<>>, s)
  ELSE AppendBodyFixedSize(s, n, end)

ReadBodyIdentity(s, limit, end) ==
  IF Exceeds(Len(s), limit) THEN Result("ErrBodyTooLarge", First(limit + 1, s), After(limit + 1, s))
  ELSE Result(IF end = "eof" THEN "none" ELSE end, s, <<>>)

(* A chunk, after those of r; its CRLF is read as a last unit of it. *)
ReadChunk(r, limit, end) ==
  LET s == r.rest
      size == s[1][3]
      chunk == AppendBodyFixedSize(Tail(s), size + 1, end)
  IN  IF s = <<>> THEN Result(Unexpected(end), r.body, s)
      ELSE IF s[1][1] # "size" THEN Result("ErrBrokenChunk", r.body, s)
      ELSE IF size = 0 THEN Result("none", r.body, Tail(s))
      ELSE IF Exceeds(Len(r.body) + size, limit) THEN Result("ErrBodyTooLarge", r.body, s)
      ELSE IF chunk.error # "none" THEN Result(chunk.error, r.body \o chunk.body, <<>>)
      ELSE IF Last(chunk.body) # Crlf THEN Result("ErrBrokenChunk", r.body \o chunk.body, s)
      ELSE Result("more", r.body \o Front(chunk.body), chunk.rest)

(* Each chunk takes a token at least, so that there is an end to them. *)
ReadChunks(s, limit, end) ==
  LET read[k \in 0 .. Len(s) + 1] ==
        IF k = 0 THEN Result("more", <<>>, s)
        ELSE LET r == read[k - 1]
             IN  IF r.error = "more" THEN ReadChunk(r, limit, end) ELSE r
  IN  read[Len(s) + 1]

Trailing(s) == SelectInSeq(s, LAMBDA t : t[1] # "line")

(* The trailer is taken to come as a whole: when it does not, it is read   *)
(* from its start again and its first lines are there twice.               *)
ReadTrailer(r, end) ==
  LET i == Trailing(r.rest)
      lines == First(i - 1, r.rest)
  IN  IF i = 0
      THEN [r EXCEPT !.error = IF end = "eof" THEN "none" ELSE end,
                     !.lines = r.rest, !.rest = <<>>]
      ELSE IF r.rest[i] # End THEN [r EXCEPT !.error = "ErrTrailer"]
      ELSE [r EXCEPT !.lines = lines,
                     !.rest = After(i, r.rest)]

ReadChunked(s, limit, end) ==
  LET r == ReadChunks(s, limit, end)
  IN  IF r.error = "none" THEN ReadTrailer(r, end) ELSE r

NoHead(s, end) == Result(IF s = <<>> THEN end ELSE "ErrHead", <<>>, s)
IsHead(s) == s # <<>> /\ s[1][1] = "head"

(* A response.  A body that is skipped still has its trailer. *)
ReadLimitBody(s, skip, limit, end) ==
  LET length == s[1][3]
      rest == Tail(s)
      skipped == skip \/ s[1][4] = "none"
  IN  IF ~IsHead(s) THEN NoHead(s, end)
      ELSE IF length = Chunked
           THEN IF skipped THEN ReadTrailer(Result("none", <<>>, rest), end)
                ELSE ReadChunked(rest, limit, end)
      ELSE IF skipped THEN Result("none", <<>>, rest)
      ELSE IF length = NoLength THEN ReadBodyIdentity(rest, limit, end)
      ELSE ReadBodyFixed(rest, length, limit, end)

(* A connection that was reset passes for the end of the response. *)
ReadResponse(s, skip, limit, end) ==
  LET r == ReadLimitBody(s, skip, limit, end)
  IN  IF IsHead(s) /\ r.error = "reset" THEN [r EXCEPT !.error = "none"] ELSE r

ContinueReadBody(s, limit, end) ==
  LET length == s[1][3]
      rest == Tail(s)
  IN  IF ~IsHead(s) THEN NoHead(s, end)
      ELSE IF length = NoLength THEN Result("none", <<>>, rest)
      ELSE IF length = Chunked THEN ReadChunked(rest, limit, end)
      ELSE ReadBodyFixed(rest, length, limit, end)

Read(dir, s, skip, limit, end) ==
  IF dir = "response" THEN ReadResponse(s, skip, limit, end)
  ELSE ContinueReadBody(s, limit, end)

-----------------------------------------------------------------------------
(* Requests whose bodies are read by their handlers (StreamRequestBody)    *)

(* The part of the body that is read with the header: of a body over the   *)
(* limit at least one unit more than the limit, up to what is there.       *)
Prefetched(s, length, limit, available) ==
  IF length <= limit THEN Least(length, Prefetch)
  ELSE Least(Len(s), IF available > Least(limit, Prefetch) THEN available
                     ELSE Least(limit, Prefetch) + 1)

(* Mutant of ReadStream: what was read with the header is counted twice. *)
ReadStreamTwice(s, length, limit, available, end) ==
  LET n == Prefetched(s, length, limit, available)
  IN  IF length <= limit /\ Len(s) < n THEN Result(Unexpected(end), s, <<>>)
      ELSE Result("none", First(Least(length - n, Len(s)), s), After(length - n, s))

(* The handler reads all of it: first what was read with the header, then  *)
(* from the connection, whose end is the end of the body.  More than the   *)
(* body may have been read with the header, and then the handler panics.   *)
ReadStream(s, length, limit, available, end) ==
  LET n == Prefetched(s, length, limit, available)
  IN  IF length <= limit /\ Len(s) < n THEN Result(Unexpected(end), s, <<>>)
      ELSE IF n > length THEN Result("panic", First(n, s), After(n, s))
      ELSE IF Len(s) < length /\ end # "eof" THEN Result(end, s, <<>>)
      ELSE Result("none", First(Least(length, Len(s)), s), After(length, s))

(* The chunks are read as before, but no limit is looked at. *)
ContinueReadBodyStream(s, limit, available, end) ==
  LET length == s[1][3]
      rest == Tail(s)
  IN  IF ~IsHead(s) THEN NoHead(s, end)
      ELSE IF length = NoLength THEN Result("none", <<>>, rest)
      ELSE IF length = Chunked THEN ReadChunked(rest, 0, end)
      ELSE ReadStream(rest, length, limit, available, end)
-----------------------------------------------------------------------------
(* What is promised of two messages m1 and m2 of one direction that are    *)
(* written to a connection one after the other.                            *)

Sent(id, m) == IF m.dir = "response" /\ MustSkipBody(m) THEN <<>> ELSE Units(id, m.actual)
Lines(id, m) == IF Write(id, m).tokens[1][3] = Chunked /\ m.trailer THEN <<Line(id)>> ELSE <<>>
InTurn(m1, m2) == Write(1, m1).tokens \o Write(2, m2).tokens
IsOwn(r, id, m, rest) ==
  r.error = "none" /\ r.body = Sent(id, m) /\ r.lines = Lines(id, m) /\ r.rest = rest

(* Each is read back with its own body and trailer and the next one starts *)
(* where it ends, under a limit that just suffices; a smaller limit is     *)
(* reported (http.go, Write and ReadLimitBody of both).                    *)
MessagesAreOwn(m1, m2) ==
  ~Identity(m1) /\ ~Write(1, m1).error /\ ~Write(2, m2).error =>
    LET r1 == Read(m1.dir, InTurn(m1, m2), m1.skip, m1.actual, "open")
        r2 == Read(m1.dir, r1.rest, m2.skip, m2.actual, "eof")
        less == Read(m1.dir, InTurn(m1, m2), m1.skip, m1.actual - 1, "open")
    IN  /\ IsOwn(r1, 1, m1, Write(2, m2).tokens) /\ IsOwn(r2, 2, m2, <<>>)
        /\ m1.actual > 1 /\ Sent(1, m1) # <<>> => less.error = "ErrBodyTooLarge"

(* A message that was cut off is not taken for a whole one, unless its end *)
(* was to be the connection's or the connection was reset; of a streamed   *)
(* body of known length the handler does not notice (http.go, readBody...; *)
(* streaming.go, Read).                                                    *)
CutIsNoticed(m, cut, end, streamed) ==
  LET s == First(cut, Write(1, m).tokens)
      r == IF streamed THEN ContinueReadBodyStream(s, Prefetch, Prefetch, end)
           ELSE Read(m.dir, s, m.skip, 0, end)
      unnoticed == \/ Identity(m)
                   \/ m.dir = "response" /\ end = "reset"
                   \/ streamed /\ end = "eof" /\ s[1][3] > Prefetch
      whole == cut = Len(Write(1, m).tokens) /\ ~Write(1, m).error
      long == m.stream /\ m.size \in 0 .. m.actual - 1
  IN  ~whole /\ ~long /\ r.error = "none" /\ ~unnoticed => r.body = Sent(1, m)

(* A handler that reads its body to the end gets that body and leaves the  *)
(* next request to be read, however much has come with the header, unless  *)
(* the limit is smaller than the body and the next request has come with   *)
(* it (http.go, ContinueReadBodyStream; streaming.go).                     *)
StreamedBodiesAreOwn(m1, m2, limit, available) ==
  LET r == ContinueReadBodyStream(InTurn(m1, m2), limit, available, "open")
      overread == limit < m1.actual /\ available > m1.actual
                    /\ Write(1, m1).tokens[1][3] # Chunked
  IN  m1.dir = "request" /\ ~Write(1, m1).error /\ ~overread =>
        IsOwn(r, 1, m1, Write(2, m2).tokens)
=============================================================================
