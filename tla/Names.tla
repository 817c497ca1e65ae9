------------------------------- MODULE Names -------------------------------
(***************************************************************************)
(* User names that clients log in with.  A behaviour picks one, or two of  *)
(* one client, and NamesAreRead says what the parser makes of them.        *)
(***************************************************************************)
EXTENDS Username

CONSTANTS
  Usernames,    \* lists of parameters
  Duos,         \* pairs of them that one client uses
  Password

ASSUME NamesAssumption ==
  /\ Password \in Words
  /\ \A params \in Usernames : params \in Seq(Words)
  /\ \A pair \in Duos : pair[1] \in Seq(Words) /\ pair[2] \in Seq(Words)

VARIABLE user

ReadName == \E params \in Usernames : user' = [of |-> "name", params |-> params]
ReadPair ==
  \E pair \in Duos : user' = [of |-> "pair", params |-> pair[1], others |-> pair[2]]

NamesInit == user = [of |-> "nobody"]
NamesNext == user.of = "nobody" /\ (ReadName \/ ReadPair)
NamesSpec == NamesInit /\ [][NamesNext]_user

Parsed(params) == Parse(params, Password)

-----------------------------------------------------------------------------
(* The options of a user name are the ones that count, the parser panics   *)
(* over nothing but an option without value, sticky sessions are bounded,  *)
(* and two of one client in one place are told apart. (username.go:40-190) *)
NamesAreRead ==
  /\ user.of \in {"name", "pair"} =>
       /\ ReadsItsOptions(user.params, Parsed(user.params))
       /\ PanicsOnlyUnvalued(user.params, Parsed(user.params))
       /\ DurationIsBounded(Parsed(user.params))
  /\ user.of = "pair" => SessionsDiffer(Parsed(user.params), Parsed(user.others))
=============================================================================
