------------------------------- MODULE Cookie -------------------------------
(***************************************************************************)
(* Cookies as text (fasthttp/cookie.go): what is written for a cookie of   *)
(* a response and for those of a request, and what is read back.           *)
(*                                                                         *)
(* A text is a sequence of words and marks.                                *)
(***************************************************************************)
EXTENDS Integers, Sequences, SequencesExt

CONSTANTS
  Number,  \* of each word that is a number: the number
  Dates    \* the words that are dates

Place(t, mark) == SelectInSeq(t, LAMBDA w : w = mark)
Before(t, i) == SubSeq(t, 1, i - 1)
Beyond(t, i) == SubSeq(t, i + 1, Len(t))

Quoted(t) == Len(t) > 1 /\ t[1] = "quote" /\ t[Len(t)] = "quote"
Trimmed(t) ==
  LET words == {i \in DOMAIN t : t[i] # " "}
  IN  IF words = {} THEN <<>> ELSE SubSeq(t, Min(words), Max(words))

decodeCookieArg(t, skipQuotes) ==
  LET u == Trimmed(t)
  IN  IF skipQuotes /\ Quoted(u) THEN SubSeq(u, 2, Len(u) - 1) ELSE u

(* The key and the value of each part; a part without = has no key. *)
ScanPart(t) ==
  LET equals == Place(t, "=")
  IN  [key |-> decodeCookieArg(Before(t, equals), FALSE),
       value |-> decodeCookieArg(Beyond(t, equals), TRUE)]

RECURSIVE Scan(_)
Scan(t) ==
  LET end == Place(t, ";")
  IN  IF t = <<>> THEN <<>>
      ELSE IF end = 0 THEN <<ScanPart(t)>>
      ELSE <<ScanPart(Before(t, end))>> \o Scan(Beyond(t, end))

-----------------------------------------------------------------------------
(* The cookies of a request                                                *)

Written(kv) == (IF kv.key = <<>> THEN <<>> ELSE kv.key \o <<"=">>) \o kv.value

appendRequestCookieBytes(cookies) ==
  FlattenSeq([i \in DOMAIN cookies |->
    Written(cookies[i]) \o IF i < Len(cookies) THEN <<";", " ">> ELSE <<>>])

parseRequestCookies(t) == SelectSeq(Scan(t), LAMBDA kv : kv.key # <<>> \/ kv.value # <<>>)

-----------------------------------------------------------------------------
(* The cookie of a response                                                *)

Blank == [key |-> <<>>, value |-> <<>>, maxAge |-> 0, expire |-> <<>>, domain |-> <<>>,
          path |-> <<>>, httpOnly |-> FALSE, secure |-> FALSE, sameSite |-> "disabled",
          error |-> FALSE]

Attribute(name, value) == <<";", " ", name, "=">> \o value
Flag(name, set) == IF set THEN <<";", " ", name>> ELSE <<>>

AppendBytes(c) ==
  Written(c)
    \o (IF c.maxAge > 0
        THEN Attribute("max-age", <<CHOOSE w \in DOMAIN Number : Number[w] = c.maxAge>>)
        ELSE IF c.expire # <<>> THEN Attribute("expires", c.expire) ELSE <<>>)
    \o (IF c.domain # <<>> THEN Attribute("domain", c.domain) ELSE <<>>)
    \o (IF c.path # <<>> THEN Attribute("path", c.path) ELSE <<>>)
    \o Flag("httponly", c.httpOnly) \o Flag("secure", c.secure)
    \o Flag("samesite", c.sameSite = "default")
    \o (IF c.sameSite \in {"disabled", "default"} THEN <<>>
        ELSE Attribute("samesite", <<c.sameSite>>))

Failed(c) == [c EXCEPT !.error = TRUE]

ReadKeyed(c, name, value) ==
  CASE name = <<"max-age">> ->
         IF Len(value) = 1 /\ value[1] \in DOMAIN Number
         THEN [c EXCEPT !.maxAge = Number[value[1]]] ELSE Failed(c)
    [] name = <<"expires">> ->
         IF Len(value) = 1 /\ value[1] \in Dates THEN [c EXCEPT !.expire = value] ELSE Failed(c)
    [] name = <<"domain">> -> [c EXCEPT !.domain = @ \o value]
    [] name = <<"path">> -> [c EXCEPT !.path = @ \o value]
    [] name = <<"samesite">> ->
         IF Len(value) = 1 /\ value[1] \in {"lax", "strict", "none"}
         THEN [c EXCEPT !.sameSite = value[1]] ELSE c
    [] OTHER -> c

ReadFlag(c, value) ==
  CASE value = <<"httponly">> -> [c EXCEPT !.httpOnly = TRUE]
    [] value = <<"secure">> -> [c EXCEPT !.secure = TRUE]
    [] value = <<"samesite">> -> [c EXCEPT !.sameSite = "default"]
    [] OTHER -> c

(* What was read before an error stays. *)
ReadPart(c, kv) ==
  IF c.error THEN c
  ELSE IF kv.key # <<>> THEN ReadKeyed(c, kv.key, kv.value) ELSE ReadFlag(c, kv.value)

ParseBytes(t) ==
  LET parts == Scan(t)
  IN  IF parts = <<>> THEN Failed(Blank)
      ELSE FoldLeft(ReadPart, [Blank EXCEPT !.key = parts[1].key, !.value = parts[1].value],
                    Tail(parts))

-----------------------------------------------------------------------------
(* A value in two pairs of quotes loses one each time it is read, and one  *)
(* with an = and no key is a key the next time (cookie.go:529, 495).       *)
Stable(kv) ==
  /\ ~Quoted(kv.value) /\ Trimmed(kv.value) = kv.value
  /\ kv.key = <<>> => Place(kv.value, "=") = 0

(* What a client or a server reads of the other's cookies it can pass on:  *)
(* they are read as the same cookies again, but for an expiry beside a     *)
(* maximal age, which is left out (cookie.go:254-308, 341-433, 450-489).   *)
CookieSurvives(t) ==
  LET c == ParseBytes(t)
      list == parseRequestCookies(t)
  IN  /\ ~c.error /\ Stable(c) /\ AppendBytes(c) # <<>>
           => ParseBytes(AppendBytes(c)) = [c EXCEPT !.expire = IF c.maxAge > 0 THEN <<>> ELSE @]
      /\ (\A i \in DOMAIN list : Stable(list[i]))
           => parseRequestCookies(appendRequestCookieBytes(list)) = list
=============================================================================
