-------------------------------- MODULE URI --------------------------------
(***************************************************************************)
(* Addresses and query arguments (fasthttp/uri.go, args.go): what parsing  *)
(* makes of an address, how a path is normalised, what is written again,   *)
(* and how a redirect's Location changes the address it came from.         *)
(*                                                                         *)
(* A text is a sequence of characters; a well-formed %-escape is one       *)
(* character, whose meaning is in Decoded.                                 *)
(***************************************************************************)
EXTENDS Integers, Sequences, SequencesExt

CONSTANTS
  Decoded,    \* of each escape: the character it stands for
  HostChars,  \* the characters a host may have as they are
  Digits,
  Ascii,      \* the escapes of ASCII characters, but that of %
  Percent     \* the escape of %

Escapes == DOMAIN Decoded

(* The first place of a pattern in a text and the last of a character, or 0. *)
First(t, pattern) ==
  LET n == Len(pattern)
  IN  SelectInSubSeq([i \in 1 .. Len(t) - n + 1 |-> SubSeq(t, i, i + n - 1)], 1, Len(t) - n + 1,
                     LAMBDA s : s = pattern)
LastIn(t, c) == SelectLastInSeq(t, LAMBDA d : d = c)
Until(t, i) == SubSeq(t, 1, i - 1)
After(t, i) == SubSeq(t, i + 1, Len(t))

Unquoted(t) == [i \in DOMAIN t |-> IF t[i] \in Escapes THEN Decoded[t[i]] ELSE t[i]]
EscapeOf(c) == CHOOSE e \in Escapes : Decoded[e] = c

-----------------------------------------------------------------------------
(* Paths                                                                   *)

RECURSIVE OneSlash(_), WithoutDots(_), WithoutParents(_)
OneSlash(b) ==
  LET n == First(b, <<"/", "/">>)
  IN  IF n = 0 THEN b ELSE OneSlash(Until(b, n) \o After(b, n))
WithoutDots(b) ==
  LET n == First(b, <<"/", ".", "/">>)
  IN  IF n = 0 THEN b ELSE WithoutDots(Until(b, n) \o After(b, n + 1))
WithoutParents(b) ==
  LET n == First(b, <<"/", ".", ".", "/">>)
      parent == LastIn(Until(b, n), "/")
  IN  IF n = 0 THEN b ELSE WithoutParents(Until(b, parent) \o After(b, n + 2))

WithoutLastParent(b) ==
  LET n == Len(b) - 2
      parent == LastIn(Until(b, n), "/")
  IN  IF ~IsSuffix(<<"/", ".", ".">>, b) THEN b
      ELSE IF parent = 0 THEN <<"/">> ELSE SubSeq(b, 1, parent)

Slashed(t) == (IF t = <<>> \/ t[1] # "/" THEN <<"/">> ELSE <<>>) \o t

(* Mutant of normalizePath: the parents go before the doubled slashes. *)
normalizePathParents(src) ==
  WithoutLastParent(WithoutDots(OneSlash(WithoutParents(Unquoted(Slashed(src))))))

normalizePath(src) ==
  WithoutLastParent(WithoutParents(WithoutDots(OneSlash(Unquoted(Slashed(src))))))

appendQuotedPath(t) ==
  IF t = <<"*">> THEN t
  ELSE [i \in DOMAIN t |-> IF t[i] \in {"%", "?", "#", " "} THEN EscapeOf(t[i]) ELSE t[i]]

-----------------------------------------------------------------------------
(* Hosts                                                                   *)

Error == <<"error">>

validOptionalPort(t) == t = <<>> \/ (t[1] = ":" /\ ToSet(Tail(t)) \subseteq Digits)

(* A host has no escape of an ASCII character but %; a zone has those of   *)
(* the characters a host may have as they are, and of a space.             *)
unescape(t, zone) ==
  IF \E i \in DOMAIN t :
       IF t[i] \in Escapes
       THEN t[i] # Percent /\ IF zone THEN Decoded[t[i]] \notin HostChars \cup {" "}
                                      ELSE t[i] \in Ascii
       ELSE t[i] \notin HostChars
  THEN Error ELSE Unquoted(t)

Joined(parts) == IF Error \in ToSet(parts) THEN Error ELSE FlattenSeq(parts)

parseHost(host) ==
  LET literal == host # <<>> /\ host[1] = "["
      i == LastIn(host, IF literal THEN "]" ELSE ":")
      port == IF literal THEN After(host, i) ELSE After(host, i - 1)
      zone == First(SubSeq(host, 1, i - 1), <<Percent>>)
  IN  IF IF i = 0 THEN literal ELSE ~validOptionalPort(port) THEN Error
      ELSE IF literal /\ zone # 0
      THEN Joined(<<unescape(Until(host, zone), FALSE),
                    unescape(SubSeq(host, zone, i - 1), TRUE),
                    unescape(SubSeq(host, i, Len(host)), FALSE)>>)
      ELSE unescape(host, FALSE)

-----------------------------------------------------------------------------
(* Addresses                                                               *)

(* Where the host of what follows // ends, or 0. *)
HostEnd(slash, query) == IF (query # 0 /\ query < slash) \/ slash = 0 THEN query ELSE slash
SplitAt(rest, cut) ==
  IF cut = 0 THEN <<rest, <<"/">>>> ELSE <<Until(rest, cut), After(rest, cut - 1)>>
WithScheme(scheme, parts) ==
  <<IF IsSuffix(<<":">>, scheme) THEN Front(scheme) ELSE scheme, parts[1], parts[2]>>
HostAndRest(rest) == SplitAt(rest, HostEnd(First(rest, <<"/">>), First(rest, <<"?">>)))

(* The scheme, the host and the rest of an address. *)
splitHostURI(host, uri) ==
  LET n == First(uri, <<"/", "/">>)
  IN  IF n = 0 \/ "/" \in ToSet(Until(uri, n)) THEN <<<<"http">>, host, uri>>
      ELSE WithScheme(Until(uri, n), HostAndRest(After(uri, n + 1)))

Blank == [scheme |-> <<>>, user |-> <<>>, password |-> <<>>, host |-> <<>>, path |-> <<>>,
          query |-> <<>>, hash |-> <<>>, error |-> FALSE]

(* The user and the password before the first @, and the host after it. *)
SplitUser(host) ==
  LET at == First(host, <<"@">>)
      auth == Until(host, at)
      colon == First(auth, <<":">>)
  IN  IF at = 0 THEN <<<<>>, <<>>, host>>
      ELSE IF colon = 0 THEN <<auth, <<>>, After(host, at)>>
      ELSE <<Until(auth, colon), After(auth, colon), After(host, at)>>

(* The path, the query and the fragment; a query in a fragment is not one. *)
SplitQuery(b) ==
  LET hash == First(b, <<"#">>)
      question == First(b, <<"?">>)
      query == IF hash # 0 /\ question > hash THEN 0 ELSE question
      end == IF hash = 0 THEN Len(b) + 1 ELSE hash
  IN  <<Until(b, IF query # 0 THEN query ELSE end),
        IF query = 0 THEN <<>> ELSE SubSeq(b, query + 1, end - 1),
        IF hash = 0 THEN <<>> ELSE After(b, hash)>>

ParsedAs(u, parsed, parts) ==
  IF parsed = Error THEN [u EXCEPT !.error = TRUE]
  ELSE [u EXCEPT !.host = parsed, !.path = normalizePath(parts[1]),
                 !.query = parts[2], !.hash = parts[3]]
ParseParts(scheme, user, rest) ==
  ParsedAs([Blank EXCEPT !.scheme = scheme, !.user = user[1], !.password = user[2],
                         !.host = user[3]],
           parseHost(user[3]), SplitQuery(rest))
ParseSplit(split) == ParseParts(split[1], SplitUser(split[2]), split[3])

parse(host, uri) ==
  IF "ctl" \in ToSet(uri) THEN [Blank EXCEPT !.error = TRUE]
  ELSE ParseSplit(IF host = <<>> \/ First(uri, <<":", "/", "/">>) # 0
                  THEN splitHostURI(host, uri) ELSE <<<<>>, host, uri>>)

Scheme(u) == IF u.scheme = <<>> THEN <<"http">> ELSE u.scheme
Path(u) == IF u.path = <<>> THEN <<"/">> ELSE u.path
Marked(mark, t) == IF t = <<>> THEN <<>> ELSE <<mark>> \o t

-----------------------------------------------------------------------------
(* Query arguments: a key, a value, and whether there is no = at all.      *)

Spaced(t, from, to) == [i \in DOMAIN t |-> IF t[i] = from THEN to ELSE t[i]]
decodeArg(t) == Unquoted(Spaced(t, "+", " "))

ScanArg(t) ==
  LET equals == First(t, <<"=">>)
  IN  IF equals = 0 THEN [key |-> decodeArg(t), value |-> <<>>, noValue |-> TRUE]
      ELSE [key |-> decodeArg(Until(t, equals)), value |-> decodeArg(After(t, equals)),
            noValue |-> FALSE]

(* An argument with neither a key nor a value is left out. *)
RECURSIVE ParseArgs(_)
ParseArgs(t) ==
  LET and == First(t, <<"&">>)
      one == ScanArg(IF and = 0 THEN t ELSE Until(t, and))
      rest == IF and = 0 THEN <<>> ELSE ParseArgs(After(t, and))
  IN  IF t = <<>> THEN <<>>
      ELSE IF one.key = <<>> /\ one.value = <<>> THEN rest ELSE <<one>> \o rest

AppendQuotedArg(t) ==
  [i \in DOMAIN t |-> IF t[i] = " " THEN "+"
                      ELSE IF \E e \in Escapes : Decoded[e] = t[i] THEN EscapeOf(t[i]) ELSE t[i]]

AppendArgs(args) ==
  FlattenSeq([i \in DOMAIN args |->
    AppendQuotedArg(args[i].key)
      \o (IF args[i].noValue THEN <<>> ELSE <<"=">> \o AppendQuotedArg(args[i].value))
      \o IF i < Len(args) THEN <<"&">> ELSE <<>>])

-----------------------------------------------------------------------------
(* Writing an address, and changing it                                     *)

(* Once the arguments were read (read), they are written, not the query. *)
RequestURI(u, read) ==
  LET args == ParseArgs(u.query)
  IN  appendQuotedPath(Path(u))
        \o Marked("?", IF read /\ args # <<>> THEN AppendArgs(args) ELSE u.query)
appendSchemeHost(u) == Scheme(u) \o <<":", "/", "/">> \o u.host
FullURI(u, read) == appendSchemeHost(u) \o RequestURI(u, read) \o Marked("#", u.hash)

(* A Location: the address with a host it names, or this one changed. *)
updateBytes(u, new) ==
  IF new = <<>> THEN u
  ELSE IF First(new, <<"/", "/">>) # 0
  THEN LET v == parse(<<>>, new)
       IN  IF v.scheme = <<>> /\ ~v.error THEN [v EXCEPT !.scheme = u.scheme] ELSE v
  ELSE IF new[1] = "/" THEN parse(<<>>, appendSchemeHost(u) \o new)
  ELSE IF new[1] = "?" THEN [u EXCEPT !.query = Tail(new)]
  ELSE IF new[1] = "#" THEN [u EXCEPT !.hash = Tail(new)]
  ELSE LET path == Path(u)
       IN  parse(<<>>, appendSchemeHost(u)
                         \o appendQuotedPath(SubSeq(path, 1, LastIn(path, "/"))) \o new)

-----------------------------------------------------------------------------
(* What a path means: its parts, without the empty ones and those that     *)
(* stand for this directory, each parent taking the part before it away.   *)
(* A last part that is empty or a dot stays.                               *)
RECURSIVE Parts(_)
Parts(t) ==
  LET slash == First(t, <<"/">>)
  IN  IF slash = 0 THEN <<t>> ELSE <<Until(t, slash)>> \o Parts(After(t, slash))

Step(stack, part) ==
  IF part \in {<<>>, <<".">>} THEN stack
  ELSE IF part # <<".", ".">> THEN Append(stack, part)
  ELSE IF stack = <<>> THEN stack ELSE Front(stack)

Meant(t) ==
  LET parts == Parts(t)
      last == parts[Len(parts)]
      tail == IF last = <<".", ".">> THEN <<>> ELSE last
      stack == FoldLeft(Step, <<>>, IF last = tail THEN Front(parts) ELSE parts)
  IN  FlattenSeq([i \in DOMAIN stack |-> <<"/">> \o stack[i]]) \o <<"/">> \o tail

(* A path means what it says once its escapes are read: a dot or a slash   *)
(* that came as an escape counts, whatever order the passes over it run in *)
(* (uri.go:581-693; the access log and handlers rely on it).               *)
PathIsResolved(t) == normalizePath(t) = Meant(Unquoted(t))

(* An address that was parsed can be written and parsed again: it keeps    *)
(* its scheme, host, path, fragment and arguments.  A host that shows a    *)
(* decoded % or space cannot (uri.go:826, 285): a zone's escape is not     *)
(* put back, and the next redirect to a path leaves an address in pieces.  *)
Writable(u) == ~u.error /\ u.host # <<>> /\ {"%", " "} \cap ToSet(u.host) = {}
SameAddress(u, v) ==
  /\ ~v.error /\ v.scheme = Scheme(u) /\ v.host = u.host
  /\ v.path = u.path /\ v.hash = u.hash
  /\ ParseArgs(v.query) = ParseArgs(u.query)
Survives(u, read) == Writable(u) => SameAddress(u, parse(<<>>, FullURI(u, read)))

(* A Location without two slashes stays on its host, and is resolved       *)
(* against the path it was answered for (uri.go:745-821).  With them it is *)
(* absolute, wherever they are: /login?next=http://b/ loses the host.      *)
Resolved(base, path) ==
  IF path[1] = "/" THEN normalizePath(path) ELSE Meant(base \o Unquoted(path))
RedirectedFrom(u, v, parts) ==
  /\ ~v.error /\ v.host = u.host /\ Scheme(v) = Scheme(u)
  /\ IF parts[1] = <<>> THEN v.path = u.path
     ELSE /\ v.path = Resolved(SubSeq(Path(u), 1, LastIn(Path(u), "/")), parts[1])
          /\ v.query = parts[2] /\ v.hash = parts[3]
StaysOnItsHost(u, new) ==
  Writable(u) /\ new # <<>> /\ First(new, <<"/", "/">>) = 0
    => RedirectedFrom(u, updateBytes(u, new), SplitQuery(new))
=============================================================================
