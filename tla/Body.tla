-------------------------------- MODULE Body --------------------------------
(***************************************************************************)
(* The body of a request or a response (fasthttp/http.go), which is in one *)
(* of four places: the message's buffer, bytes of the user that are not    *)
(* copied (raw), a stream that is read when the body is asked for and, of  *)
(* a request, a parsed multipart form.                                     *)
(***************************************************************************)
EXTENDS Naturals, Sequences

CONSTANTS
  Messages, Values, None,
  Streams,      \* the streams that users set; the content of s is <<s>>
  MaxLen        \* bound: the longest body that is appended to

VARIABLES
  kind,         \* what the messages are: request or response
  keep,         \* keepBodyBuffer of the messages
  msg,          \* the places of each message's body
  left,         \* what a stream has not given yet
  state,        \* of a stream: new, open or closed
  expected,     \* history: the body, as the calls of the user make it
  drained       \* history: the messages whose form was read from their stream

config == <<kind, keep>>
streams == <<left, state>>
vars == <<config, msg, streams, expected, drained>>

NoBody == [body |-> None, raw |-> None, stream |-> None, form |-> None]

Init ==
  /\ kind \in {"request", "response"} /\ keep \in BOOLEAN
  /\ msg = [m \in Messages |-> NoBody]
  /\ left = [s \in Streams |-> <<s>>] /\ state = [s \in Streams |-> "new"]
  /\ expected = [m \in Messages |-> <<>>] /\ drained = {}

-----------------------------------------------------------------------------
Content(b) == IF b = None THEN <<>> ELSE b
Left(m) == IF msg[m].stream = None THEN <<>> ELSE left[msg[m].stream]
OnlyMultipartForm(m) == msg[m].form # None /\ Content(msg[m].body) = <<>>
Stored(m) == IF msg[m].raw # None THEN msg[m].raw ELSE Content(msg[m].body)

Expect(m, b) == expected' = [expected EXCEPT ![m] = b]

CloseBodyStream(ms) ==
  LET closed == {msg[m].stream : m \in ms} IN
    /\ state' = [s \in Streams |-> IF s \in closed THEN "closed" ELSE state[s]]
    /\ left' = [s \in Streams |-> IF s \in closed THEN <<>> ELSE left[s]]

(* The buffer of a message that is reset goes back to the pool or is kept. *)
Emptied(m) == IF keep /\ msg[m].body # None THEN <<>> ELSE None

(* A body that is set takes the place of the one before, wherever it was. *)
Store(m, b, r) ==
  /\ msg' = [msg EXCEPT ![m] = [NoBody EXCEPT !.body = b, !.raw = r]]
  /\ CloseBodyStream({m})
  /\ drained' = drained \ {m}
  /\ UNCHANGED config

SetBody(m, v) == Store(m, <<v>>, None) /\ Expect(m, <<v>>)

SetBodyRaw(m, v) == Store(m, Emptied(m), <<v>>) /\ Expect(m, <<v>>)

(* Reset also drops a large buffer that would be kept. *)
ResetBody(m) ==
  /\ \E b \in {Emptied(m), None} : Store(m, b, None)
  /\ Expect(m, <<>>)

(* Mutant of AppendBody: raw bytes stay. *)
AppendBodyRaw(m, v) ==
  /\ msg[m].form = None /\ Len(Content(msg[m].body)) < MaxLen
  /\ Store(m, Append(Content(msg[m].body), v), msg[m].raw)
  /\ Expect(m, IF msg[m].raw # None \/ msg[m].stream # None
               THEN <<v>> ELSE Append(expected[m], v))

(* Only a body that has been copied is appended to, else it is replaced. *)
AppendBody(m, v) ==
  /\ msg[m].form = None /\ Len(Content(msg[m].body)) < MaxLen
  /\ Store(m, Append(Content(msg[m].body), v), None)
  /\ Expect(m, IF msg[m].raw # None \/ msg[m].stream # None
               THEN <<v>> ELSE Append(expected[m], v))

SetBodyStream(m, s) ==
  /\ state[s] = "new"
  /\ msg' = [msg EXCEPT ![m] = [NoBody EXCEPT !.body = Emptied(m), !.stream = s]]
  /\ LET old == msg[m].stream IN
       /\ state' = [t \in Streams |-> IF t = s THEN "open"
                                      ELSE IF t = old THEN "closed" ELSE state[t]]
       /\ left' = [t \in Streams |-> IF t = old THEN <<>> ELSE left[t]]
  /\ Expect(m, <<s>>) /\ drained' = drained \ {m}
  /\ UNCHANGED config

(* The previous body, which the caller gets, is read from its stream. *)
SwapBody(m, v) ==
  /\ msg' = [msg EXCEPT ![m] = [@ EXCEPT !.body = <<v>>, !.raw = None, !.stream = None]]
  /\ CloseBodyStream({m})
  /\ Expect(m, <<v>>) /\ drained' = drained \ {m}
  /\ UNCHANGED config

(* Of a stream, Body reads what is left of it into the buffer. *)
ReadBody(m) ==
  /\ msg[m].stream # None
  /\ kind = "request" => msg[m].raw = None /\ ~OnlyMultipartForm(m)
  /\ msg' = [msg EXCEPT ![m].body = Left(m), ![m].raw = None, ![m].stream = None]
  /\ CloseBodyStream({m})
  /\ drained' = drained \ {m}
  /\ UNCHANGED <<config, expected>>

(* BodyWriteTo and Write: a stream is used up. *)
WriteStream(m) ==
  /\ msg[m].stream # None
  /\ msg' = [msg EXCEPT ![m].stream = None]
  /\ CloseBodyStream({m})
  /\ Expect(m, IF OnlyMultipartForm(m) THEN msg[m].form ELSE <<>>)
  /\ drained' = drained \ {m}
  /\ UNCHANGED config

-----------------------------------------------------------------------------
(* Multipart forms                                                         *)

(* ContinueReadBody: a form of known length is parsed while it is read. *)
ReadForm(m, v) ==
  /\ kind = "request"
  /\ msg' = [msg EXCEPT ![m] = [NoBody EXCEPT !.body = Emptied(m), !.form = <<v>>]]
  /\ CloseBodyStream({m})
  /\ Expect(m, <<v>>) /\ drained' = drained \ {m}
  /\ UNCHANGED config

(* The form is read from the stream, which stays where it is, or parsed. *)
MultipartForm(m) ==
  /\ kind = "request" /\ msg[m].form = None
  /\ IF msg[m].stream # None
     THEN /\ msg' = [msg EXCEPT ![m].form = Left(m)]
          /\ left' = [left EXCEPT ![msg[m].stream] = <<>>]
          /\ drained' = drained \cup {m}
          /\ UNCHANGED state
     ELSE /\ Stored(m) # <<>>
          /\ msg' = [msg EXCEPT ![m].form = Stored(m)]
          /\ UNCHANGED <<streams, drained>>
  /\ UNCHANGED <<config, expected>>

RemoveMultipartFormFiles(m) ==
  /\ msg[m].form # None
  /\ msg' = [msg EXCEPT ![m].form = None]
  /\ Expect(m, IF OnlyMultipartForm(m) /\ msg[m].raw = None THEN <<>> ELSE expected[m])
  /\ drained' = drained \ {m}
  /\ UNCHANGED <<config, streams>>

-----------------------------------------------------------------------------
(* Two messages                                                            *)

(* CopyTo copies neither a stream nor a form. *)
CopyTo(m, d) ==
  /\ m # d
  /\ \E old \in {Emptied(d), None} :
       LET b == IF msg[m].raw # None THEN (IF old = None THEN None ELSE <<>>)
                ELSE IF msg[m].body # None THEN msg[m].body
                ELSE old
       IN  msg' = [msg EXCEPT ![d] = [NoBody EXCEPT !.body = b, !.raw = msg[m].raw]]
  /\ CloseBodyStream({d})
  /\ Expect(d, IF msg[m].stream # None \/ (OnlyMultipartForm(m) /\ msg[m].raw = None)
               THEN <<>> ELSE expected[m])
  /\ drained' = drained \ {d}
  /\ UNCHANGED config

(* copyToSkipBody and swapRequestBody or swapResponseBody: the body moves  *)
(* to a message that was reset, without its form.                          *)
Swap(m, d) ==
  /\ m # d
  /\ \E old \in {Emptied(d), None} :
       msg' = [msg EXCEPT ![d] = [msg[m] EXCEPT !.form = None],
                          ![m] = [NoBody EXCEPT !.body = old, !.form = msg[m].form]]
  /\ CloseBodyStream({d})
  /\ expected' = [expected EXCEPT
       ![d] = IF msg[m].stream # None THEN Left(m)
              ELSE IF OnlyMultipartForm(m) /\ msg[m].raw = None THEN <<>> ELSE expected[m],
       ![m] = Content(msg[m].form)]
  /\ drained' = drained \ {m, d}
  /\ UNCHANGED config

-----------------------------------------------------------------------------
Next ==
  \E m \in Messages :
    \/ \E v \in Values : SetBody(m, v) \/ SetBodyRaw(m, v) \/ AppendBody(m, v)
                           \/ SwapBody(m, v) \/ ReadForm(m, v)
    \/ \E s \in Streams : SetBodyStream(m, s)
    \/ ResetBody(m) \/ ReadBody(m) \/ WriteStream(m)
    \/ MultipartForm(m) \/ RemoveMultipartFormFiles(m)
    \/ \E d \in Messages : CopyTo(m, d) \/ Swap(m, d)

Spec == Init /\ [][Next]_vars

-----------------------------------------------------------------------------
(* What Body returns and what Write sends. *)
Bytes(m) ==
  CASE msg[m].stream # None /\ (kind = "response" \/ (msg[m].raw = None /\ ~OnlyMultipartForm(m)))
         -> Left(m)
    [] kind = "request" /\ msg[m].raw = None /\ OnlyMultipartForm(m) -> msg[m].form
    [] OTHER -> Stored(m)

Written(m) ==
  IF msg[m].stream # None THEN Left(m)
  ELSE IF OnlyMultipartForm(m) THEN msg[m].form ELSE Stored(m)

(* A message has the body that was given to it last, wherever that is and  *)
(* whatever was there before, and Body and Write agree on it, but for a    *)
(* form that was read from a stream, of which Write sends nothing          *)
(* (http.go: the order in which bodyRaw, bodyStream, body and              *)
(* multipartForm are looked at).                                           *)
BodyIsWhatWasSet ==
  \A m \in Messages :
    /\ Bytes(m) = expected[m]
    /\ m \in drained \/ Written(m) = expected[m]

(* A stream is closed once, when no message has it any more, and two       *)
(* messages never have one stream (http.go, closeBodyStream, CopyTo,       *)
(* swapRequestBody).                                                       *)
StreamsAreClosed ==
  /\ \A s \in Streams : state[s] = "open" <=> \E m \in Messages : msg[m].stream = s
  /\ \A m, d \in Messages : m # d /\ msg[m].stream # None => msg[m].stream # msg[d].stream

-----------------------------------------------------------------------------
(* Why they hold: a body is in one place, but for a form, which the raw    *)
(* bytes or the stream it was read from stay beside.                       *)
Bodies == Seq(Values \cup Streams)

TypeOK ==
  /\ kind \in {"request", "response"} /\ keep \in BOOLEAN
  /\ msg \in [Messages -> [body : Bodies \cup {None}, raw : Bodies \cup {None},
                           stream : Streams \cup {None}, form : Bodies \cup {None}]]
  /\ left \in [Streams -> Bodies] /\ state \in [Streams -> {"new", "open", "closed"}]
  /\ expected \in [Messages -> Bodies] /\ drained \subseteq Messages

PlacesDiffer ==
  \A m \in Messages :
    /\ msg[m].stream # None => msg[m].raw = None
    /\ msg[m].stream # None \/ msg[m].raw # None => Content(msg[m].body) = <<>>
    /\ msg[m].raw # None /\ msg[m].form # None => msg[m].form = msg[m].raw
    /\ m \in drained <=> msg[m].stream # None /\ msg[m].form # None
    /\ m \in drained => left[msg[m].stream] = <<>>
    /\ kind = "response" => msg[m].form = None

NewStreamsAreWhole == \A s \in Streams : state[s] = "new" => left[s] = <<s>>

Inv ==
  /\ TypeOK /\ PlacesDiffer /\ NewStreamsAreWhole
  /\ BodyIsWhatWasSet /\ StreamsAreClosed
=============================================================================
