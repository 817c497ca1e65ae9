------------------------------ MODULE MCParts ------------------------------
(***************************************************************************)
(* The parts that work by themselves at small instances, and with them     *)
(* fasthttp's headers, and what only computes.                             *)
(***************************************************************************)
EXTENDS Parts, Wire, Names, TLC

CONSTANTS
  HeaderValues, Cookies, CookieName, TrailerNames, Lengths, Number, Received, MaxArgs

CONSTANTS call1, call2, call3, n1, n2
MCCalls == {call1, call2, call3}
MCFew == {call2, call3}
MCFirstCall == {call1}
MCConnections == {n1, n2}

(* Nothing below tells call2 from call3 or n1 from n2. *)
Symmetry == Permutations(MCFew) \cup Permutations(MCConnections)

MCPoolConfigurations == {[wait |-> TRUE, lifo |-> TRUE], [wait |-> FALSE, lifo |-> FALSE]}
MCHostOf == [call \in MCCalls |-> IF call = call1 THEN "g" ELSE "h"]
MCFirst == <<"x", "y">>

MCHeaderValues == {<<"v">>, <<"w">>}
MCCookieName == ("a=1" :> "a") @@ ("a=2" :> "a") @@ ("b=1" :> "b")
MCNumber == (<<"0">> :> 0) @@ (<<"1">> :> 1)
MCReceived ==
  {<<<<"Content-Length", <<"1">>>>, <<"Transfer-Encoding", <<"chunked">>>>>>,
   <<<<"Transfer-Encoding", <<"gzip">>>>, <<"Content-Length", <<"1">>>>>>,
   <<<<"Cookie", <<"a=1">>>>, <<"Cookie", <<"b=1", "a=2">>>>>>,
   <<<<"Connection", <<"close">>>>, <<"Connection", <<"keep-alive">>>>,
     <<"X-Sum", <<"v">>>>, <<"X-Sum", <<"w">>>>>>}
MCCookies == DOMAIN MCCookieName
MCLengths == DOMAIN MCNumber

Header == INSTANCE Headers WITH Values <- HeaderValues, h <- v1

Text == INSTANCE MCTexts WITH case <- v1

MCSentResponses ==
  {Message("response", st, sk, FALSE, n, n, FALSE) :
     st \in {"ok", "none", "late"}, sk \in BOOLEAN, n \in 0 .. 3}
  \cup {Message("response", st, sk, TRUE, n, a, t) :
     st \in {"ok", "none", "late"}, sk \in BOOLEAN, n \in {-1, 2}, a \in 0 .. 3, t \in BOOLEAN}
  \cup {Message("response", "ok", FALSE, FALSE, NoLength, n, FALSE) : n \in 0 .. 2}
MCSentRequests ==
  {Message("request", st, FALSE, FALSE, n, n, FALSE) : st \in {"get", "post"}, n \in 0 .. 3}
  \cup {Message("request", "post", FALSE, TRUE, n, a, t) :
     n \in {-1, 2, 3}, a \in 0 .. 3, t \in BOOLEAN}
MCLimits == 1 .. 3
MCArrivals == 0 .. 6

(* A duration of Width bits has TimeSecond ticks to the second. *)
MCNumbers == ("60" :> 1) @@ ("99" :> 9) @@ ("600" :> 60) @@ ("-1" :> -1)
Options == {"country", "city", "pool", "session", "duration", "ipv4"}
MCWords == Options \cup DOMAIN MCNumbers \cup {"de", "uk", "x1", "x2", "", "secret"}
MCCountries == {"de", "gb"}
MCPlaces == {<<"de", "x1">>}
MCLong == MCWords \ {"de", "uk", "x1", "x2", "60", "99", "-1", ""}
MCLetters ==
  [w \in MCWords |->
     CASE w = "x1" -> <<"x", "1">> [] w = "x2" -> <<"x", "2">> [] w = "" -> <<>>
       [] OTHER -> <<w>>]
Lists(S, m, n) == UNION {[1 .. k -> S] : k \in m .. n}
MCUsernames == Lists(MCWords \ {"secret"}, 1, 4)
Targets == {<<>>, <<"country", "de">>, <<"pool", "x1">>, <<"country", "uk", "pool", "x2">>}
Tails == Lists(MCWords \ {"secret"}, 0, 1)
MCDuos ==
  {<<t \o <<"session", v>> \o <<"duration", d>> \o tail, t \o <<"session", w>> \o tail>> :
     t \in Targets, v, w \in MCWords, d \in DOMAIN MCNumbers, tail \in Tails}

-----------------------------------------------------------------------------
MCInit ==
  /\ WireInit /\ NamesInit
  /\ \/ Init
     \/ part = "header" /\ Header!Init /\ From2
     \/ part = "text" /\ Text!Init /\ From2
     \/ part \in {"wire", "names"} /\ v1 = 0 /\ From2

MCNext ==
  \/ Next /\ UNCHANGED <<case, user>>
  \/ /\ \/ part = "header" /\ Header!Next
        \/ part = "text" /\ Text!Next
     /\ UNCHANGED <<part, v2, v3, v4, v5, v6, v7, v8, v9, v10, v11, v12, v13, v14, v15,
                    v16, v17, v18, case, user>>
  \/ part = "wire" /\ WireNext /\ UNCHANGED <<part, cells, user>>
  \/ part = "names" /\ NamesNext /\ UNCHANGED <<part, cells, case>>

MCSpec == MCInit /\ [][MCNext]_<<part, cells, case, user>>

-----------------------------------------------------------------------------
(* The three readings of a header agree, and so does who parses what was   *)
(* written (header.go); addresses, paths, arguments, redirects and cookies *)
(* mean the same when they are written and read again (uri.go, args.go,    *)
(* cookie.go).                                                             *)
TextsAreRead ==
  /\ part = "header" => Header!ReadingsAgree /\ Header!HeadersSurvive
  /\ part = "text" => Text!AddressesAreRead /\ Text!CookiesAreRead
=============================================================================
