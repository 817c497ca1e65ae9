-------------------------------- MODULE Wire --------------------------------
(***************************************************************************)
(* Messages on connections: which of them are written, one after the other *)
(* or cut off, and how they are read.  A behaviour picks one case, and     *)
(* MessagesSurvive says what the reader makes of it.                       *)
(***************************************************************************)
EXTENDS Framing

CONSTANTS
  Requests, Responses,    \* the messages that are written
  Limits,                 \* the limits of bodies that handlers read
  Arrivals                \* how much of a body may have come with its header

ASSUME WireAssumption ==
  /\ \A m \in Requests : m \in Writable /\ m.dir = "request"
  /\ \A m \in Responses : m \in Writable /\ m.dir = "response"
  /\ Limits \subseteq Nat /\ Arrivals \subseteq Nat

VARIABLE case

SendTwo ==
  \E p \in (Responses \X Responses) \cup (Requests \X Requests) :
    case' = [of |-> "two", one |-> p[1], other |-> p[2]]
CutOff ==
  \E m \in Responses \cup Requests, end \in Ends, streamed \in BOOLEAN :
    /\ streamed => m.dir = "request"
    /\ \E cut \in 0 .. Len(Write(1, m).tokens) :
         case' = [of |-> "cut", one |-> m, cut |-> cut, end |-> end, streamed |-> streamed]
Streamed ==
  \E p \in Requests \X Requests, limit \in Limits, available \in Arrivals :
    case' = [of |-> "streamed", one |-> p[1], other |-> p[2], limit |-> limit,
             available |-> available]

WireInit == case = [of |-> "nothing"]
WireNext == case.of = "nothing" /\ (SendTwo \/ CutOff \/ Streamed)
WireSpec == WireInit /\ [][WireNext]_case

-----------------------------------------------------------------------------
(* Messages that follow each other on a connection are read one by one as  *)
(* they were written, whatever their kinds of bodies; a connection that    *)
(* ends within one is noticed; and of a streamed body no more is taken     *)
(* than is its own. (http.go, streaming.go, header.go)                     *)
MessagesSurvive ==
  /\ case.of = "two" => MessagesAreOwn(case.one, case.other)
  /\ case.of = "cut" => CutIsNoticed(case.one, case.cut, case.end, case.streamed)
  /\ case.of = "streamed" =>
       StreamedBodiesAreOwn(case.one, case.other, case.limit, case.available)
=============================================================================
