------------------------------ MODULE Username ------------------------------
(***************************************************************************)
(* The targeting of a request: UsernameParser.Parse (username.go) reads    *)
(* the parameters that the client put in its user name, separated by "-",  *)
(* and asks the locations database (location/base.go) whether there is     *)
(* such a place.                                                           *)
(*                                                                         *)
(* A parameter is a string, up to the case of its letters when it is the   *)
(* name of an option; a field that was not set (nil) is Nil.               *)
(***************************************************************************)
EXTENDS Integers, Sequences

CONSTANTS
  Nil,
  Words,            \* the parameters
  Countries,        \* the countries of the gountries database
  Regions, Cities,  \* pairs of a country and a region or a city of it
  Long,             \* the values of more than two characters
  Numbers,          \* the values strconv.Atoi reads, and what it makes of them
  Letters,          \* the letters of a word, for the digest of a session
  TimeSecond, Width, \* time.Second, and the bits of a duration
  Default, Maximum  \* sessionDuration and sessionDurationMax

(* The defaults are positive, whatever is configured (server.go:115, 120). *)
ASSUME UsernameAssumption ==
  /\ Nil \notin Words
  /\ Nil \notin {"panic", "ErrInvalidParam", "ErrSyntax", "ErrInvalidTargeting",
                 "ErrUnknownCity", "ErrUnknownRegion", "ErrUnknownCountry"}
  /\ Letters \in [Words -> Seq(STRING)]
  /\ \A v, w \in Words : Letters[v] = Letters[w] => v = w
  /\ \A v \in DOMAIN Numbers : Numbers[v] \in Int
  /\ TimeSecond \in Nat /\ 2^Width \in Nat \ {0} /\ 2^(Width - 1) \in Nat
  /\ Default \in Nat \ {0} /\ Maximum \in Nat \ {0}

ValueOptions == {"country", "region", "city", "session", "duration", "ip", "pool"}
FlagOptions == {"ipv4", "ipv6"}

NoTarget ==
  [o \in ValueOptions \cup FlagOptions |->
     CASE o \in FlagOptions -> FALSE [] o = "duration" -> 0 [] OTHER -> Nil]

-----------------------------------------------------------------------------
(* The locations database                                                  *)

(* An alias: the United Kingdom is known as gb. *)
Alias(c) == IF c \notin Countries /\ c = "uk" THEN "gb" ELSE c

(* Only uk is ever looked up again, and only that look-up can fail. *)
FindCountry(c) == Alias(c) # c => Alias(c) \in Countries

FindRegion(c, r) == <<Alias(c), r>> \in Regions

FindCity(c, t) == <<c, t>> \in Cities

-----------------------------------------------------------------------------
(* The parameters: the odd ones are names, each followed by its value.     *)

(* A duration is a number of 2^Width: it wraps when it is multiplied. *)
Duration(v) ==
  LET n == (Numbers[v] * TimeSecond) % 2^Width
  IN  IF n >= 2^(Width - 1) THEN n - 2^Width ELSE n

Outcome(r, error) == [target |-> r, error |-> error]

ReadOption(params, i, t) ==
  LET o == params[i]
      v == params[i + 1]
  IN  IF o \in FlagOptions THEN Outcome([t EXCEPT ![o] = TRUE], Nil)
      ELSE IF o \notin ValueOptions THEN Outcome(t, Nil)
      ELSE IF i = Len(params) THEN Outcome(t, "panic")
      ELSE IF o = "country" /\ v \in Long THEN Outcome(t, "ErrInvalidParam")
      ELSE IF o # "duration" THEN Outcome([t EXCEPT ![o] = v], Nil)
      ELSE IF v \notin DOMAIN Numbers THEN Outcome(t, "ErrSyntax")
      ELSE Outcome([t EXCEPT ![o] = Duration(v)], Nil)

ReadNext(params, i, out) ==
  IF i % 2 = 0 \/ out.error # Nil THEN out ELSE ReadOption(params, i, out.target)

ReadOptions(params) ==
  LET read[i \in 0 .. Len(params)] ==
        IF i = 0 THEN Outcome(NoTarget, Nil)
        ELSE ReadNext(params, i, read[i - 1])
  IN  read[Len(params)]

-----------------------------------------------------------------------------
(* The target                                                              *)

Untargeted(t) == \A o \in {"country", "region", "city", "pool", "ip"} : t[o] = Nil

CheckLocation(t) ==
  IF Untargeted(t) THEN "ErrInvalidTargeting"
  ELSE IF t["country"] = Nil THEN Nil
  ELSE IF t["city"] # Nil
       THEN IF FindCity(t["country"], t["city"]) THEN Nil ELSE "ErrUnknownCity"
  ELSE IF t["region"] # Nil
       THEN IF FindRegion(t["country"], t["region"]) THEN Nil ELSE "ErrUnknownRegion"
  ELSE IF FindCountry(t["country"]) THEN Nil ELSE "ErrUnknownCountry"

Spelling(v) == IF v = Nil THEN <<>> ELSE Letters[v]

Sticky(t) == Spelling(t["session"]) # <<>>

(* Mutant of SessionDuration: no duration, or a negative one, is kept. *)
SessionDurationUnchecked(t) ==
  IF t["duration"] > Maximum THEN Default ELSE t["duration"]

SessionDuration(t) ==
  IF t["duration"] <= 0 \/ t["duration"] > Maximum THEN Default ELSE t["duration"]

(* The digest is written the parts one after the other, without a mark. *)
SessionID(t, password) ==
  Spelling(t["country"]) \o Spelling(t["pool"]) \o Spelling(t["session"]) \o Spelling(password)

(* What Parse leaves in the request, and what it returns. *)
Parse(params, password) ==
  LET read == ReadOptions(params)
      t == read.target
      error == IF read.error # Nil THEN read.error ELSE CheckLocation(t)
      sticky == error = Nil /\ Sticky(t)
  IN  [error |-> error, target |-> t,
       id |-> IF sticky THEN SessionID(t, password) ELSE Nil,
       duration |-> IF sticky THEN SessionDuration(t) ELSE t["duration"]]

-----------------------------------------------------------------------------
(* What the parser promises of params, the parameters of a user name.      *)

Names(params) == {i \in DOMAIN params : i % 2 = 1}

(* A reading of the user name that goes by whole options, not by places:   *)
(* an option is named at an odd place and its value is the parameter after *)
(* it, the last one when it is named again.                                *)
Named(params, o) == {i \in Names(params) : params[i] = o}
ValueOf(params, o) ==
  LET last == CHOOSE i \in Named(params, o) : \A j \in Named(params, o) : j <= i
  IN  IF Named(params, o) = {} THEN Nil ELSE params[last + 1]

(* When a user name is accepted its fields are the values of its options,  *)
(* and no parameter was taken for two things (username.go, Parse).         *)
ReadsItsOptions(params, out) ==
  out.error = Nil =>
    /\ \A o \in ValueOptions \ {"duration"} : out.target[o] = ValueOf(params, o)
    /\ \A o \in FlagOptions : out.target[o] = (Named(params, o) # {})

(* Parse indexes past the parameters only when the last one is the name of *)
(* an option without its value, whatever came before (username.go, the     *)
(* checks of len(params)).                                                 *)
PanicsOnlyUnvalued(params, out) ==
  out.error = "panic" => Len(params) % 2 = 1 /\ params[Len(params)] \in ValueOptions

(* A sticky session lasts for a positive time of at most the maximum, or   *)
(* for the default time, whatever number the client wrote and however it   *)
(* wrapped (username.go).                                                  *)
DurationIsBounded(out) ==
  out.error = Nil /\ out.id # Nil => out.duration \in (1 .. Maximum) \cup {Default}

(* Two sessions of one user in one country and pool are told apart by      *)
(* their names (username.go, the digest).                                  *)
SessionsDiffer(out1, out2) ==
  /\ out1.error = Nil /\ out2.error = Nil /\ out1.id # Nil /\ out2.id # Nil
  /\ out1.target["country"] = out2.target["country"]
  /\ out1.target["pool"] = out2.target["pool"]
  /\ out1.target["session"] # out2.target["session"]
  => out1.id # out2.id
=============================================================================
