------------------------------ MODULE Headers ------------------------------
(***************************************************************************)
(* The header of a request or a response (fasthttp/header.go, args.go,     *)
(* cookie.go): fields for the names the program knows, a list of names and *)
(* values for the others, cookies, trailers and the length of the body.    *)
(* It is read in three ways, by Peek, by VisitAll and as it is written to  *)
(* a connection, and what is written is parsed by the other side.          *)
(*                                                                         *)
(* A value is a sequence of items: a header that lists several things has  *)
(* one for each, all others have one.                                      *)
(***************************************************************************)
EXTENDS Integers, Sequences, SequencesExt

CONSTANTS
  Values,        \* of headers that are not special
  Cookies,       \* the cookies, as they are written
  CookieName,    \* the name of a cookie
  TrailerNames,  \* headers that may be named as trailers; no other may
  Lengths,       \* the values of Content-Length
  Number,        \* and the numbers they are
  Received,      \* headers that come from other programs, as written
  MaxArgs        \* bound: list entries and cookies of a header

VARIABLE h

None == <<>>
Close == <<"close">>
ChunkedValue == <<"chunked">>
IdentityValue == <<"identity">>

(* One of the names that have a field of their own stands for all of them: *)
(* User-Agent, Content-Type and Content-Encoding are handled alike.        *)
Specials(kind) == IF kind = "request" THEN {"Host"} ELSE {"Server"}

CookieKey(kind) == IF kind = "request" THEN "Cookie" ELSE "Set-Cookie"

Empty(kind) ==
  [kind |-> kind, body |-> TRUE, connectionClose |-> FALSE,
   contentLength |-> 0, contentLengthBytes |-> None,
   special |-> [k \in Specials(kind) |-> None],
   args |-> <<>>, trailer |-> <<>>, cookies |-> <<>>, cookiesCollected |-> FALSE]

-----------------------------------------------------------------------------
(* Lists of names and values                                               *)

SetArg(args, k, v) ==
  IF \E i \in DOMAIN args : args[i][1] = k
  THEN [args EXCEPT ![SelectInSeq(args, LAMBDA a : a[1] = k)] = <<k, v>>]
  ELSE Append(args, <<k, v>>)

DelAllArgs(args, k) == SelectSeq(args, LAMBDA a : a[1] # k)

PeekArg(args, k) ==
  IF \E i \in DOMAIN args : args[i][1] = k
  THEN args[SelectInSeq(args, LAMBDA a : a[1] = k)][2]
  ELSE None

(* All the values of a name in a list, one after the other. *)
ValuesOf(args, k) ==
  FlattenSeq([i \in DOMAIN args |-> IF args[i][1] = k THEN args[i][2] ELSE <<>>])

-----------------------------------------------------------------------------
(* Setting                                                                 *)

(* A status that has no body takes no length. *)
MustSkipContentLength(r) == r.kind = "response" /\ ~r.body

SetContentLength(r, n) ==
  IF MustSkipContentLength(r) THEN r
  ELSE IF n >= 0
  THEN [r EXCEPT !.contentLength = n, !.args = DelAllArgs(@, "Transfer-Encoding"),
                 !.contentLengthBytes = CHOOSE v \in Lengths : Number[v] = n]
  ELSE IF n = -2 /\ r.kind = "response"
  THEN [r EXCEPT !.contentLength = n, !.contentLengthBytes = None, !.connectionClose = TRUE,
                 !.args = SetArg(@, "Transfer-Encoding", IdentityValue)]
  ELSE [r EXCEPT !.contentLength = n, !.contentLengthBytes = None,
                 !.args = SetArg(@, "Transfer-Encoding", ChunkedValue)]

ResetConnectionClose(r) ==
  IF r.connectionClose
  THEN [r EXCEPT !.connectionClose = FALSE, !.args = DelAllArgs(@, "Connection")]
  ELSE r

(* The cookies of a request stay in the list until they are asked for. *)
CollectCookies(r) ==
  IF r.kind = "response" \/ r.cookiesCollected THEN r
  ELSE [r EXCEPT !.cookies = @ \o ValuesOf(r.args, "Cookie"),
                 !.args = DelAllArgs(@, "Cookie"), !.cookiesCollected = TRUE]

(* Trailers that are not allowed are left out, and the error is dropped. *)
SetTrailer(r, v) == [r EXCEPT !.trailer = SelectSeq(v, LAMBDA k : k \in TrailerNames)]

Managed(kind) == {"Transfer-Encoding"} \cup IF kind = "response" THEN {"Date"} ELSE {}
SpecialKeys(kind) ==
  Specials(kind) \cup Managed(kind)
    \cup {"Content-Length", "Connection", CookieKey(kind), "Trailer"}

SetSpecialHeader(r, k, v) ==
  CASE k \in Specials(r.kind) -> [r EXCEPT !.special[k] = v]
    [] k = "Content-Length" ->
         [r EXCEPT !.contentLength = Number[v], !.contentLengthBytes = v]
    [] k = "Connection" ->
         IF v = Close THEN [r EXCEPT !.connectionClose = TRUE]
         ELSE LET s == ResetConnectionClose(r)
              IN  [s EXCEPT !.args = SetArg(@, k, v)]
    [] k = CookieKey(r.kind) ->
         LET s == CollectCookies(r) IN [s EXCEPT !.cookies = @ \o v]
    [] k = "Trailer" -> SetTrailer(r, v)
    [] k \in Managed(r.kind) -> r

SetHeader(r, k, v) ==
  IF k \in SpecialKeys(r.kind) THEN SetSpecialHeader(r, k, v)
  ELSE [r EXCEPT !.args = SetArg(@, k, v)]

AddHeader(r, k, v) ==
  IF k \in SpecialKeys(r.kind) THEN SetSpecialHeader(r, k, v)
  ELSE [r EXCEPT !.args = Append(@, <<k, v>>)]

DelHeader(r, k) ==
  LET s == [r EXCEPT !.args = DelAllArgs(@, k)] IN
  CASE k \in Specials(r.kind) -> [s EXCEPT !.special[k] = None]
    [] k = CookieKey(r.kind) -> [s EXCEPT !.cookies = <<>>]
    [] k = "Content-Length" -> [s EXCEPT !.contentLength = 0, !.contentLengthBytes = None]
    [] k = "Connection" -> [s EXCEPT !.connectionClose = FALSE]
    [] k = "Trailer" -> [s EXCEPT !.trailer = <<>>]
    [] OTHER -> s

SetCookie(r, c) ==
  LET s == CollectCookies(r)
      i == SelectInSeq(s.cookies, LAMBDA d : CookieName[d] = CookieName[c])
  IN  IF i = 0 THEN [s EXCEPT !.cookies = Append(@, c)] ELSE [s EXCEPT !.cookies[i] = c]

DelCookie(r, name) ==
  LET s == CollectCookies(r)
  IN  [s EXCEPT !.cookies = SelectSeq(@, LAMBDA d : CookieName[d] # name)]

-----------------------------------------------------------------------------
(* Reading                                                                 *)

Peek(r, k) ==
  CASE k \in Specials(r.kind) -> r.special[k]
    [] k = "Connection" /\ r.connectionClose -> Close
    [] k = "Content-Length" -> r.contentLengthBytes
    [] k = CookieKey(r.kind) /\ (r.kind = "response" \/ r.cookiesCollected) -> r.cookies
    [] k = "Trailer" -> r.trailer
    [] OTHER -> PeekArg(r.args, k)

Fields(r) ==
  (IF r.contentLengthBytes = None THEN <<>> ELSE <<<<"Content-Length", r.contentLengthBytes>>>>)
    \o SelectSeq(SetToSeq({<<k, r.special[k]>> : k \in Specials(r.kind)}), LAMBDA f : f[2] # None)

Listed(k, v) == IF v = <<>> THEN <<>> ELSE <<<<k, v>>>>
Closing(r) == IF r.connectionClose THEN <<<<"Connection", Close>>>> ELSE <<>>

VisitAll(r) ==
  LET s == CollectCookies(r)
  IN  Fields(s) \o Listed("Trailer", s.trailer) \o Listed(CookieKey(s.kind), s.cookies)
        \o s.args \o Closing(s)

(* What is to be a trailer is left out, and of a response that it closes   *)
(* the connection.                                                         *)
AppendBytes(r) ==
  Fields(r) \o SelectSeq(r.args, LAMBDA a : a[1] \notin ToSet(r.trailer))
    \o Listed("Trailer", r.trailer) \o Listed(CookieKey(r.kind), r.cookies)
    \o (IF r.kind = "request" THEN Closing(r) ELSE <<>>)

TrailerHeader(r) == [i \in DOMAIN r.trailer |-> <<r.trailer[i], Peek(r, r.trailer[i])>>]

-----------------------------------------------------------------------------
(* Parsing                                                                 *)

ParseLine(r, line) ==
  LET k == line[1]  v == line[2] IN
  CASE k \in Specials(r.kind) -> [r EXCEPT !.special[k] = v]
    [] k = "Content-Length" ->
         IF r.contentLength = -1 THEN r
         ELSE [r EXCEPT !.contentLength = Number[v], !.contentLengthBytes = v]
    [] k = "Connection" ->
         IF v = Close THEN [r EXCEPT !.connectionClose = TRUE]
         ELSE [r EXCEPT !.connectionClose = FALSE, !.args = Append(@, line)]
    [] k = "Set-Cookie" /\ r.kind = "response" -> [r EXCEPT !.cookies = @ \o v]
    [] k = "Transfer-Encoding" ->
         IF v = IdentityValue THEN r
         ELSE [r EXCEPT !.contentLength = -1, !.args = SetArg(@, k, ChunkedValue)]
    [] k = "Trailer" -> SetTrailer(r, v)
    [] OTHER -> [r EXCEPT !.args = Append(@, line)]

(* Mutant of ParseHeaders: a length stays beside Transfer-Encoding. *)
ParseHeadersBoth(kind, body, lines) ==
  FoldLeft(ParseLine, [Empty(kind) EXCEPT !.contentLength = -2, !.body = body], lines)

(* A length that Transfer-Encoding made void is dropped; a response that   *)
(* has neither ends with the connection.                                   *)
ParseHeaders(kind, body, lines) ==
  LET r == FoldLeft(ParseLine, [Empty(kind) EXCEPT !.contentLength = -2, !.body = body], lines)
      s == IF r.contentLength < 0 THEN [r EXCEPT !.contentLengthBytes = None] ELSE r
  IN  IF kind = "response" /\ body /\ s.contentLength = -2
      THEN [s EXCEPT !.connectionClose = TRUE,
                     !.args = SetArg(@, "Transfer-Encoding", IdentityValue)]
      ELSE s

ParseTrailer(r, lines) == [r EXCEPT !.args = @ \o lines]

Parsed(r) == ParseHeaders(r.kind, r.body, AppendBytes(r))

-----------------------------------------------------------------------------
(* A program that receives a header and changes it                         *)

Keys(kind) == SpecialKeys(kind) \cup TrailerNames

ValuesFor(k) ==
  CASE k = "Content-Length" -> Lengths
    [] k = "Connection" -> {Close, <<"keep-alive">>}
    [] k \in {"Cookie", "Set-Cookie"} -> {<<c>> : c \in Cookies}
    [] k = "Trailer" -> {<<n>> : n \in TrailerNames} \cup {<<"Host">>}
    [] k = "Transfer-Encoding" -> {ChunkedValue}
    [] OTHER -> Values

Init ==
  \E kind \in {"request", "response"} :
    h \in {Empty(kind)} \cup {ParseHeaders(kind, b, l) : l \in Received, b \in BOOLEAN}

Bounded(r) == Len(r.args) <= MaxArgs /\ Len(r.cookies) <= MaxArgs

Change(r) == Bounded(r) /\ h' = r

Set == \E k \in Keys(h.kind) : \E v \in ValuesFor(k) : Change(SetHeader(h, k, v))
Add == \E k \in Keys(h.kind) : \E v \in ValuesFor(k) : Change(AddHeader(h, k, v))
Del == \E k \in Keys(h.kind) : Change(DelHeader(h, k))
SetLength == \E n \in -2 .. 1 : Change(SetContentLength(h, n))
SetACookie == \E c \in Cookies : Change(SetCookie(h, c))
DelACookie == \E c \in Cookies : Change(DelCookie(h, CookieName[c]))
DelAllCookies == Change([CollectCookies(h) EXCEPT !.cookies = <<>>])
SetConnectionClose == Change([h EXCEPT !.connectionClose = TRUE])
Reopen == Change(ResetConnectionClose(h))
SetStatus == h.kind = "response" /\ Change([h EXCEPT !.body = ~@])
Visit == Change(CollectCookies(h))

Next ==
  \/ Set \/ Add \/ Del \/ SetLength \/ SetACookie \/ DelACookie \/ DelAllCookies
  \/ SetConnectionClose \/ Reopen \/ SetStatus \/ Visit

Spec == Init /\ [][Next]_h

-----------------------------------------------------------------------------
Shown(lines, k) == ToSet(ValuesOf(lines, k))

Settable(kind) == Keys(kind) \ (Managed(kind) \cup {CookieKey(kind), "Trailer"})

(* A header is the same whether it is asked for, visited or written: Peek  *)
(* returns a value if and only if VisitAll shows one, and that one, and    *)
(* what VisitAll shows is written, but for the names of trailers and the   *)
(* Connection: close of a response.  However a header came to have a value *)
(* a new one that is set is the one that is read, and one that is deleted  *)
(* is in none of the three (header.go, peek, VisitAll, AppendBytes, del).  *)
ReadingsAgree ==
  \A k \in Keys(h.kind) :
    LET visited == ValuesOf(VisitAll(h), k) IN
    /\ Peek(h, k) = None <=> visited = <<>>
    /\ ToSet(Peek(h, k)) \subseteq ToSet(visited)
    /\ \/ Shown(AppendBytes(h), k) = ToSet(visited)
       \/ k \in ToSet(h.trailer)
       \/ h.kind = "response" /\ k = "Connection" /\ h.connectionClose
    /\ ValuesOf(VisitAll(DelHeader(h, k)) \o AppendBytes(DelHeader(h, k)), k) = <<>>
    /\ k \in Settable(h.kind) =>
         \A v \in ValuesFor(k) : Peek(SetHeader(h, k, v), k) = v

(* Set with a length, or deleting one header, leaves the two ways to say   *)
(* how long the body is in disagreement.                                   *)
Encoding(r) == PeekArg(r.args, "Transfer-Encoding")
LengthIsClear(r) ==
  IF r.contentLengthBytes # None THEN Encoding(r) = None
  ELSE Encoding(r) # None /\ r.contentLength = -1

(* Who parses what was written has the same header and agrees on where the *)
(* body ends, and writes the same again; with the trailers it has all that *)
(* was visited (header.go, AppendBytes, parseHeaders, parseTrailer).       *)
HeadersSurvive ==
  LET p == Parsed(h)
      all == ParseTrailer(p, TrailerHeader(h))
  IN  LengthIsClear(h) /\ ~MustSkipContentLength(h) =>
        /\ p.contentLength = h.contentLength
        /\ \A k \in Keys(h.kind) : ValuesOf(AppendBytes(p), k) = ValuesOf(AppendBytes(h), k)
        /\ \A k \in ToSet(h.trailer) : Peek(all, k) = Peek(h, k)
=============================================================================
