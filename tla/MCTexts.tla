------------------------------ MODULE MCTexts ------------------------------
(***************************************************************************)
(* Bounded inputs for what is read from texts: a behaviour picks one case, *)
(* and the properties say what the program makes of it.                    *)
(***************************************************************************)
EXTENDS Integers, Sequences, SequencesExt, TLC

VARIABLE case

Texts(S, n) == UNION {[1 .. k -> S] : k \in 0 .. n}
Joins(parts, mark) ==
  FlattenSeq([i \in DOMAIN parts |->
                parts[i] \o IF i < Len(parts) THEN <<mark>> ELSE <<>>])

-----------------------------------------------------------------------------
(* Addresses, arguments and cookies *)
Decoded == ("%2E" :> ".") @@ ("%2F" :> "/") @@ ("%25" :> "%") @@ ("%3F" :> "?") @@
           ("%23" :> "#") @@ ("%3D" :> "=") @@ ("%26" :> "&") @@ ("%20" :> " ") @@
           ("%2B" :> "+") @@ ("%C3" :> "c3")
U == INSTANCE URI WITH
  HostChars <- {"c3", "a", "h", "1", ":", "[", "]"}, Digits <- {"1"}, Percent <- "%25",
  Ascii <- {"%2E", "%2F", "%3F", "%23", "%3D", "%26", "%20", "%2B"}

Zones == {<<"[">> \o z \o <<"]">> \o p :
            z \in Texts({"a", "%25", "%2F", "%20"}, 3), p \in Texts({":", "1"}, 2)}
Addresses ==
  {<<"h", ":", "/", "/">> \o h \o t :
     h \in Texts({"a", ":", "1", "@"}, 3) \cup Zones, t \in {<<"/", "a">>, <<"?">>}}
Tails == Texts({"/", "?", "#", "a", "=", "&"}, 4) \cup Texts({"/", ".", "?", "%3F", "%2F"}, 4)
Bases == {U!parse(<<"a">>, t) : t \in {<<"/", "a", "/", "a">>, <<"/", "%3F">>, <<"/", "?", "=">>}}

Normalise == \E t \in Texts({"/", ".", "a", "%2E", "%2F"}, 6) : case' = [of |-> "path", text |-> t]
ReadAddress ==
  \E read \in BOOLEAN :
    \/ \E t \in Addresses : case' = [of |-> "uri", host |-> <<>>, text |-> t, read |-> read]
    \/ \E t \in Tails : case' = [of |-> "uri", host |-> <<"a">>, text |-> t, read |-> read]
Redirect ==
  \E u \in Bases, t \in Texts({"/", ".", "?", "#", "a", "%3F"}, 4) :
    case' = [of |-> "redirect", from |-> u, text |-> t]

C == INSTANCE Cookie WITH Number <- ("0" :> 0) @@ ("1" :> 1), Dates <- {"date"}

CookieParts ==
  {<<"k", "=", "v">>, <<"v">>, <<" ", "quote", "v", "quote">>, <<"=", "v">>, <<" ">>, <<>>,
   <<"k", " ", "=", "quote", "quote", "v", "quote", "quote">>, <<"k", "=", "v", "=", "v">>,
   <<"=", "k", "=", "v">>, <<"max-age", "=", "1">>, <<"max-age", "=", "v">>,
   <<" ", "expires", "=", "date">>, <<" ", "domain", "=", "v">>, <<"path", "=", "v">>,
   <<"httponly">>, <<" ", "secure">>, <<"samesite">>, <<"samesite", "=", "lax">>,
   <<"samesite", "=", "v">>}
ReadCookie ==
  \E parts \in Texts(CookieParts, 3) : case' = [of |-> "cookie", text |-> Joins(parts, ";")]

-----------------------------------------------------------------------------
Init == case = [of |-> "nothing"]
Next ==
  /\ case.of = "nothing"
  /\ \/ Normalise \/ ReadAddress \/ Redirect \/ ReadCookie
Spec == Init /\ [][Next]_case

AddressesAreRead ==
  /\ case.of = "path" => U!PathIsResolved(case.text)
  /\ case.of = "uri" => U!Survives(U!parse(case.host, case.text), case.read)
  /\ case.of = "redirect" => U!StaysOnItsHost(case.from, case.text)
CookiesAreRead == case.of = "cookie" => C!CookieSurvives(case.text)
=============================================================================
