--------------------------- MODULE ReadingProofs ---------------------------
(***************************************************************************)
(* That messages are read as they were written, for bodies of any length,  *)
(* chunks and prefetched parts of any size, and every place at which a     *)
(* connection may end; and that user names are, whatever their parameters. *)
(***************************************************************************)
EXTENDS Wire, Names, SequenceTheorems, NaturalsInduction, WellFoundedInduction, TLAPS

Token ==
  {Unit(id) : id \in Nat} \cup {Line(id) : id \in Nat} \cup {Size(n) : n \in Nat}
    \cup {Crlf, End} \cup {HeadOf(id, n, m) : id \in Nat, n \in Int, m \in Writable}

-----------------------------------------------------------------------------
(* Induction, as a fact about sets of numbers: an operator cannot be       *)
(* instantiated, but the set of the numbers for which it holds can.        *)
LEMMA Induction ==
  ASSUME NEW S \in SUBSET Nat, \A n \in Nat : (\A k \in 0 .. n - 1 : k \in S) => n \in S
  PROVE  S = Nat
<1> DEFINE T == Nat \ S
<1>1. SUFFICES ASSUME T # {} PROVE FALSE OBVIOUS
<1>2. \E n \in T : \A k \in T : ~(<<k, n>> \in OpToRel(<, Nat))
  <2>1. T \subseteq Nat OBVIOUS
  <2> HIDE DEF T
  <2> QED BY <1>1, <2>1, NatLessThanWellFounded, WFMin
<1>3. PICK n \in T : \A k \in T : ~(k < n) BY <1>2 DEF OpToRel
<1>4. \A k \in 0 .. n - 1 : k \in S BY <1>3
<1> QED BY <1>3, <1>4

-----------------------------------------------------------------------------
(* The chunks of a body: f[k] is what is sent when k units are left. *)
ChunkOf(id, k) == <<Size(Least(k, Chunk))>> \o Units(id, Least(k, Chunk)) \o <<Crlf>>

IsSent(f, id, n) ==
  f = [k \in 0 .. n |-> IF k = 0 THEN <<Size(0)>> ELSE ChunkOf(id, k) \o f[k - Least(k, Chunk)]]

LEMMA SentIs ==
  ASSUME NEW id, NEW n \in Nat, NEW f, IsSent(f, id, n)
  PROVE  /\ f[0] = <<Size(0)>>
         /\ \A k \in 1 .. n : f[k] = ChunkOf(id, k) \o f[k - Least(k, Chunk)]
<1>1. \A k \in 0 .. n :
        f[k] = IF k = 0 THEN <<Size(0)>> ELSE ChunkOf(id, k) \o f[k - Least(k, Chunk)]
  BY DEF IsSent
<1>2. f[0] = <<Size(0)>> BY <1>1
<1>3. ASSUME NEW k \in 1 .. n PROVE f[k] = ChunkOf(id, k) \o f[k - Least(k, Chunk)]
  <2>1. k \in 0 .. n /\ k # 0 OBVIOUS
  <2> QED BY <1>1, <2>1, Zenon
<1> QED BY <1>2, <1>3

LEMMA SentExists ==
  ASSUME Sizes, NEW id, NEW n \in Nat
  PROVE  \E f : IsSent(f, id, n)
<1> DEFINE S == {m \in Nat : \E f : IsSent(f, id, m)}
<1>1. ASSUME NEW m \in Nat, \A k \in 0 .. m - 1 : k \in S PROVE m \in S
  <2>1. CASE m = 0
    <3> DEFINE g == [k \in 0 .. m |-> <<Size(0)>>]
    <3>1. IsSent(g, id, m) BY <2>1 DEF IsSent
    <3> QED BY <3>1
  <2>2. CASE m # 0
    <3>1. PICK f : IsSent(f, id, m - 1) BY <1>1, <2>2
    <3> DEFINE last == ChunkOf(id, m) \o f[m - Least(m, Chunk)]
               g == [k \in 0 .. m |-> IF k = m THEN last ELSE f[k]]
    <3>2. \A k \in 1 .. m : k - Least(k, Chunk) \in 0 .. k - 1 BY DEF Least, Sizes
    <3>3. \A k \in 0 .. m - 1 :
            /\ k = 0 => f[k] = <<Size(0)>>
            /\ k # 0 => f[k] = ChunkOf(id, k) \o f[k - Least(k, Chunk)]
      <4> DEFINE M == m - 1
      <4>1. M \in Nat /\ IsSent(f, id, M) BY <2>2, <3>1
      <4> HIDE DEF M, g, last
      <4>2. /\ f[0] = <<Size(0)>>
            /\ \A k \in 1 .. M : f[k] = ChunkOf(id, k) \o f[k - Least(k, Chunk)]
        BY <4>1, SentIs, ZenonT(30)
      <4>3. \A k \in 0 .. M : k # 0 => k \in 1 .. M BY <4>1
      <4> QED BY <4>2, <4>3, Zenon DEF M
    <3>4. \A k \in 0 .. m :
            g[k] = IF k = 0 THEN <<Size(0)>> ELSE ChunkOf(id, k) \o g[k - Least(k, Chunk)]
      <4> TAKE k \in 0 .. m
      <4>1. CASE k = m
        <5>1. m - Least(m, Chunk) \in 0 .. m - 1 BY <3>2, <2>2
        <5>2. g[m - Least(m, Chunk)] = f[m - Least(m, Chunk)] BY <5>1
        <5>3. g[m] = last OBVIOUS
        <5> HIDE DEF g
        <5> QED BY <4>1, <5>2, <5>3, <2>2
      <4>2. CASE k # m /\ k # 0
        <5>1. k - Least(k, Chunk) \in 0 .. m - 1 BY <3>2, <4>2
        <5>2. g[k - Least(k, Chunk)] = f[k - Least(k, Chunk)] BY <5>1
        <5>3. g[k] = f[k] BY <4>2
        <5>4. f[k] = ChunkOf(id, k) \o f[k - Least(k, Chunk)] BY <4>2, <3>3
        <5> HIDE DEF g
        <5> QED BY <4>2, <5>2, <5>3, <5>4
      <4>3. CASE k = 0 BY <4>3, <3>3, <2>2
      <4> QED BY <4>1, <4>2, <4>3
    <3>5. g = [k \in 0 .. m |-> g[k]] OBVIOUS
    <3> HIDE DEF g
    <3>6. IsSent(g, id, m) BY <3>4, <3>5 DEF IsSent
    <3> QED BY <3>6
  <2> QED BY <2>1, <2>2
<1>2. S = Nat
  <2>1. S \in SUBSET Nat OBVIOUS
  <2> HIDE DEF S
  <2> QED BY <1>1, <2>1, Induction
<1> QED BY <1>2

LEMMA SentIsOne ==
  ASSUME Sizes, NEW id, NEW m \in Nat, NEW n \in Nat, NEW f, NEW g,
         IsSent(f, id, m), IsSent(g, id, n)
  PROVE  \A k \in 0 .. m : k <= n => f[k] = g[k]
<1> DEFINE S == {k \in Nat : k <= m /\ k <= n => f[k] = g[k]}
<1>1. ASSUME NEW k \in Nat, \A j \in 0 .. k - 1 : j \in S PROVE k \in S
  <2>1. CASE k = 0
    <3> k \in 0 .. m /\ k \in 0 .. n BY <2>1
    <3>1. f[0] = <<Size(0)>> /\ g[0] = <<Size(0)>> BY SentIs
    <3> QED BY <2>1, <3>1
  <2>2. CASE k # 0 /\ k <= m /\ k <= n
    <3>1. k - Least(k, Chunk) \in 0 .. k - 1 BY <2>2 DEF Least, Sizes
    <3>2. f[k - Least(k, Chunk)] = g[k - Least(k, Chunk)] BY <1>1, <2>2, <3>1
    <3> k \in 1 .. m /\ k \in 1 .. n BY <2>2
    <3>3. f[k] = ChunkOf(id, k) \o f[k - Least(k, Chunk)]
      <4>1. \A j \in 1 .. m : f[j] = ChunkOf(id, j) \o f[j - Least(j, Chunk)]
        BY SentIs, ZenonT(30)
      <4> QED BY <4>1, Zenon
    <3>4. g[k] = ChunkOf(id, k) \o g[k - Least(k, Chunk)]
      <4>1. \A j \in 1 .. n : g[j] = ChunkOf(id, j) \o g[j - Least(j, Chunk)]
        BY SentIs, ZenonT(30)
      <4> QED BY <4>1, Zenon
    <3> QED BY <3>2, <3>3, <3>4
  <2>3. CASE ~(k <= m /\ k <= n) BY <2>3
  <2> QED BY <2>1, <2>2, <2>3
<1>2. S = Nat
  <2>1. S \in SUBSET Nat OBVIOUS
  <2> HIDE DEF S
  <2> QED BY <1>1, <2>1, Induction
<1> QED BY <1>2

LEMMA ChunksSent ==
  ASSUME Sizes, NEW id
  PROVE  /\ WriteBodyChunked(id, 0) = <<Size(0)>>
         /\ \A n \in Nat \ {0} :
              WriteBodyChunked(id, n) =
                ChunkOf(id, n) \o WriteBodyChunked(id, n - Least(n, Chunk))
<1> DEFINE sent(n) == CHOOSE f : IsSent(f, id, n)
<1>1. \A n \in Nat : WriteBodyChunked(id, n) = sent(n)[n]
  BY DEF WriteBodyChunked, IsSent, ChunkOf
<1>2. \A n \in Nat : IsSent(sent(n), id, n) BY SentExists
<1> HIDE DEF sent
<1>3. WriteBodyChunked(id, 0) = <<Size(0)>> BY <1>1, <1>2 DEF IsSent
<1>4. ASSUME NEW n \in Nat \ {0}
      PROVE  WriteBodyChunked(id, n) =
               ChunkOf(id, n) \o WriteBodyChunked(id, n - Least(n, Chunk))
  <2> DEFINE k == n - Least(n, Chunk)
  <2>1. k \in 0 .. n - 1 BY DEF Least, Sizes
  <2>2. sent(n)[n] = ChunkOf(id, n) \o sent(n)[k] BY <1>2 DEF IsSent
  <2> HIDE DEF k
  <2>3. sent(n)[k] = sent(k)[k] BY <1>2, <2>1, SentIsOne
  <2>4. WriteBodyChunked(id, n) = ChunkOf(id, n) \o WriteBodyChunked(id, k)
    <3>1. WriteBodyChunked(id, n) = sent(n)[n] BY <1>1
    <3>2. WriteBodyChunked(id, k) = sent(k)[k] BY <1>1, <2>1
    <3> QED BY <2>2, <2>3, <3>1, <3>2, Zenon
  <2> QED BY <2>4 DEF k
<1> QED BY <1>3, <1>4
-----------------------------------------------------------------------------
(* Sequences *)

LEMMA FirstAfterConcat ==
  ASSUME NEW T, NEW s \in Seq(T), NEW t \in Seq(T)
  PROVE  First(Len(s), s \o t) = s /\ After(Len(s), s \o t) = t
<1> DEFINE u == s \o t
<1>1. /\ u \in Seq(T) /\ Len(u) = Len(s) + Len(t)
      /\ \A i \in 1 .. Len(s) : u[i] = s[i]
      /\ \A i \in 1 .. Len(t) : u[Len(s) + i] = t[i]
      /\ \A i \in 1 .. Len(u) : u[i] \in T
      /\ Len(s) \in Nat /\ Len(t) \in Nat
  BY ConcatProperties, ElementOfSeq, LenProperties
<1> HIDE DEF u
<1>2. First(Len(s), u) = s
  <2> DEFINE v == SubSeq(u, 1, Len(s))
  <2>1. v \in Seq(T) /\ Len(v) = Len(s) /\ \A i \in 1 .. Len(s) : v[i] = u[i]
    BY <1>1, SubSeqProperties
  <2> HIDE DEF v
  <2>2. v = s BY <1>1, <2>1, SeqEqual
  <2> QED BY <2>2 DEF First, v
<1>3. After(Len(s), u) = t
  <2> DEFINE v == SubSeq(u, Len(s) + 1, Len(u))
  <2>1. v \in Seq(T) /\ Len(v) = Len(t) /\ \A i \in 1 .. Len(t) : v[i] = u[Len(s) + i]
    <3>1. \A i \in Len(s) + 1 .. Len(u) : u[i] \in T BY <1>1
    <3>2. /\ v \in Seq(T)
          /\ Len(v) = IF Len(s) + 1 <= Len(u) THEN Len(u) - (Len(s) + 1) + 1 ELSE 0
          /\ \A i \in 1 .. Len(u) - (Len(s) + 1) + 1 : v[i] = u[Len(s) + 1 + i - 1]
      BY <1>1, <3>1, SubSeqProperties
    <3> HIDE DEF v
    <3>3. Len(v) = Len(t) BY <1>1, <3>2
    <3>4. \A i \in 1 .. Len(t) : v[i] = u[Len(s) + i]
      <4> TAKE i \in 1 .. Len(t)
      <4>1. Len(s) + 1 + i - 1 = Len(s) + i /\ i \in 1 .. Len(u) - (Len(s) + 1) + 1 BY <1>1
      <4> QED BY <3>2, <4>1
    <3> QED BY <3>2, <3>3, <3>4
  <2> HIDE DEF v
  <2>2. v = t BY <1>1, <2>1, SeqEqual
  <2> QED BY <2>2 DEF After, v
<1> QED BY <1>2, <1>3 DEF u

LEMMA FirstAfterTyped ==
  ASSUME NEW T, NEW s \in Seq(T), NEW n \in 0 .. Len(s)
  PROVE  /\ First(n, s) \in Seq(T) /\ Len(First(n, s)) = n
         /\ After(n, s) \in Seq(T) /\ Len(After(n, s)) = Len(s) - n
         /\ \A i \in 1 .. n : First(n, s)[i] = s[i]
         /\ First(n, s) \o After(n, s) = s
<1>1. Len(s) \in Nat /\ \A i \in 1 .. Len(s) : s[i] \in T BY ElementOfSeq, LenProperties
<1>2. /\ First(n, s) \in Seq(T) /\ Len(First(n, s)) = n
      /\ \A i \in 1 .. n : First(n, s)[i] = s[i]
  <2>1. /\ SubSeq(s, 1, n) \in Seq(T)
        /\ Len(SubSeq(s, 1, n)) = IF 1 <= n THEN n - 1 + 1 ELSE 0
        /\ \A i \in 1 .. n - 1 + 1 : SubSeq(s, 1, n)[i] = s[1 + i - 1]
    BY <1>1, SubSeqProperties
  <2>2. Len(SubSeq(s, 1, n)) = n BY <1>1, <2>1
  <2>3. \A i \in 1 .. n : SubSeq(s, 1, n)[i] = s[i]
    <3> TAKE i \in 1 .. n
    <3>1. 1 + i - 1 = i /\ i \in 1 .. n - 1 + 1 BY <1>1
    <3> QED BY <2>1, <3>1
  <2> QED BY <2>1, <2>2, <2>3 DEF First
<1>3. /\ After(n, s) \in Seq(T) /\ Len(After(n, s)) = Len(s) - n
      /\ \A i \in 1 .. Len(s) - n : After(n, s)[i] = s[n + i]
  <2>1. \A i \in n + 1 .. Len(s) : s[i] \in T BY <1>1
  <2>2. /\ SubSeq(s, n + 1, Len(s)) \in Seq(T)
        /\ Len(SubSeq(s, n + 1, Len(s))) =
             IF n + 1 <= Len(s) THEN Len(s) - (n + 1) + 1 ELSE 0
        /\ \A i \in 1 .. Len(s) - (n + 1) + 1 :
             SubSeq(s, n + 1, Len(s))[i] = s[n + 1 + i - 1]
    BY <1>1, <2>1, SubSeqProperties
  <2>3. Len(SubSeq(s, n + 1, Len(s))) = Len(s) - n BY <1>1, <2>2
  <2>4. \A i \in 1 .. Len(s) - n : SubSeq(s, n + 1, Len(s))[i] = s[n + i]
    <3> TAKE i \in 1 .. Len(s) - n
    <3>1. n + 1 + i - 1 = n + i /\ i \in 1 .. Len(s) - (n + 1) + 1 BY <1>1
    <3> QED BY <2>2, <3>1
  <2> QED BY <2>2, <2>3, <2>4 DEF After
<1>4. First(n, s) \o After(n, s) = s
  <2> DEFINE a == First(n, s)
             b == After(n, s)
  <2> HIDE DEF a, b
  <2>1. /\ a \o b \in Seq(T) /\ Len(a \o b) = n + (Len(s) - n)
        /\ \A i \in 1 .. n + (Len(s) - n) : (a \o b)[i] = IF i <= n THEN a[i] ELSE b[i - n]
    BY <1>2, <1>3, ConcatProperties DEF a, b
  <2>2. Len(a \o b) = Len(s) BY <1>1, <2>1
  <2>3. \A i \in 1 .. Len(s) : (a \o b)[i] = s[i]
    <3> TAKE i \in 1 .. Len(s)
    <3>1. CASE i <= n BY <1>1, <1>2, <2>1, <3>1 DEF a
    <3>2. CASE ~(i <= n)
      <4>1. i - n \in 1 .. Len(s) - n /\ n + (i - n) = i BY <1>1, <3>2
      <4>2. b[i - n] = s[i] BY <1>3, <4>1 DEF b
      <4>3. i \in 1 .. n + (Len(s) - n) BY <1>1
      <4>4. (a \o b)[i] = b[i - n] BY <2>1, <3>2, <4>3
      <4> QED BY <4>2, <4>4
    <3> QED BY <3>1, <3>2
  <2>4. a \o b = s
    <3> DEFINE u == a \o b
    <3> HIDE DEF u
    <3>1. u \in Seq(T) /\ Len(u) = Len(s) /\ \A i \in 1 .. Len(u) : u[i] = s[i]
      BY <2>1, <2>2, <2>3 DEF u
    <3>2. u = s BY <3>1, SeqEqual
    <3> QED BY <3>2 DEF u
  <2> QED BY <2>4 DEF a, b
<1> QED BY <1>2, <1>3, <1>4

LEMMA FirstOfConcat ==
  ASSUME NEW T, NEW s \in Seq(T), NEW t \in Seq(T), NEW n \in 0 .. Len(s) + Len(t)
  PROVE  /\ n <= Len(s) => First(n, s \o t) = First(n, s)
         /\ n >= Len(s) => First(n, s \o t) = s \o First(n - Len(s), t)
<1> DEFINE u == s \o t
           v == First(n, u)
<1>1. /\ u \in Seq(T) /\ Len(u) = Len(s) + Len(t) /\ Len(s) \in Nat /\ Len(t) \in Nat
      /\ \A i \in 1 .. Len(s) + Len(t) : u[i] = IF i <= Len(s) THEN s[i] ELSE t[i - Len(s)]
  BY ConcatProperties, LenProperties
<1> HIDE DEF u
<1>2. v \in Seq(T) /\ Len(v) = n /\ \A i \in 1 .. n : v[i] = u[i]
  <2>1. n \in 0 .. Len(u) BY <1>1
  <2> QED BY <1>1, <2>1, FirstAfterTyped
<1> HIDE DEF v
<1>3. ASSUME n <= Len(s) PROVE v = First(n, s)
  <2> DEFINE p == First(n, s)
  <2>1. p \in Seq(T) /\ Len(p) = n /\ \A i \in 1 .. n : p[i] = s[i]
    BY <1>1, <1>3, FirstAfterTyped
  <2> HIDE DEF p
  <2>2. \A i \in 1 .. n : v[i] = p[i]
    <3> TAKE i \in 1 .. n
    <3>1. i <= Len(s) /\ i \in 1 .. Len(s) + Len(t) BY <1>1, <1>3
    <3> QED BY <1>1, <1>2, <2>1, <3>1
  <2>3. v = p BY <1>2, <2>1, <2>2, SeqEqual
  <2> QED BY <2>3 DEF p
<1>4. ASSUME n >= Len(s) PROVE v = s \o First(n - Len(s), t)
  <2> DEFINE d == n - Len(s)
  <2>1. d \in 0 .. Len(t) /\ n = Len(s) + d BY <1>1, <1>4
  <2> HIDE DEF d
  <2> DEFINE p == First(d, t)
             w == s \o p
  <2>2. p \in Seq(T) /\ Len(p) = d /\ \A i \in 1 .. d : p[i] = t[i] BY <2>1, FirstAfterTyped
  <2> HIDE DEF p
  <2>3. /\ w \in Seq(T) /\ Len(w) = Len(s) + Len(p)
        /\ \A i \in 1 .. Len(s) + Len(p) : w[i] = IF i <= Len(s) THEN s[i] ELSE p[i - Len(s)]
    BY <2>2, ConcatProperties
  <2> HIDE DEF w
  <2>4. \A i \in 1 .. n : v[i] = w[i]
    <3> TAKE i \in 1 .. n
    <3>1. i \in 1 .. Len(s) + Len(t) /\ i \in 1 .. Len(s) + Len(p) BY <1>1, <2>1, <2>2
    <3>2. CASE i <= Len(s) BY <1>1, <1>2, <2>3, <3>1, <3>2
    <3>3. CASE ~(i <= Len(s))
      <4>1. i - Len(s) \in 1 .. d BY <1>1, <2>1, <3>3
      <4>2. p[i - Len(s)] = t[i - Len(s)] BY <2>2, <4>1
      <4> QED BY <1>1, <1>2, <2>3, <3>1, <3>3, <4>2
    <3> QED BY <3>2, <3>3
  <2>5. Len(w) = n BY <2>1, <2>2, <2>3
  <2>6. v = w BY <1>2, <2>3, <2>4, <2>5, SeqEqual
  <2> QED BY <2>6 DEF w, p, d
<1> QED BY <1>3, <1>4 DEF v, u

LEMMA OneFirst ==
  ASSUME NEW T, NEW a \in T, NEW t \in Seq(T)
  PROVE  /\ <<a>> \o t \in Seq(T) /\ <<a>> \o t # <<>>
         /\ (<<a>> \o t)[1] = a /\ Tail(<<a>> \o t) = t
         /\ Len(<<a>> \o t) = Len(t) + 1
<1> DEFINE s == <<a>>
           u == s \o t
<1>1. s \in Seq(T) /\ Len(s) = 1 /\ s[1] = a OBVIOUS
<1> HIDE DEF s
<1>2. /\ u \in Seq(T) /\ Len(u) = 1 + Len(t) /\ u[1] = a /\ Len(t) \in Nat
      /\ \A i \in 1 .. Len(t) : u[1 + i] = t[i]
  <2>1. Len(t) \in Nat BY LenProperties
  <2>2. /\ u \in Seq(T) /\ Len(u) = Len(s) + Len(t)
        /\ \A i \in 1 .. Len(s) + Len(t) : u[i] = IF i <= Len(s) THEN s[i] ELSE t[i - Len(s)]
    BY <1>1, ConcatProperties, ZenonT(30)
  <2> HIDE DEF u
  <2> QED BY <1>1, <2>1, <2>2, SMTT(20)
<1>3. After(1, u) = t BY <1>1, FirstAfterConcat
<1> HIDE DEF u
<1>4. u # <<>> BY <1>2
<1>5. Tail(u) = t
  <2>1. Tail(u) = SubSeq(u, 2, Len(u)) BY <1>2, <1>4, TailIsSubSeq
  <2> QED BY <1>3, <2>1 DEF After
<1> QED BY <1>2, <1>4, <1>5 DEF u, s

LEMMA OneLast ==
  ASSUME NEW T, NEW b \in T, NEW s \in Seq(T)
  PROVE  /\ s \o <<b>> \in Seq(T) /\ Len(s \o <<b>>) = Len(s) + 1
         /\ Last(s \o <<b>>) = b /\ Front(s \o <<b>>) = s
<1> DEFINE t == <<b>>
           u == s \o t
<1>1. t \in Seq(T) /\ Len(t) = 1 /\ t[1] = b OBVIOUS
<1> HIDE DEF t
<1>2. u \in Seq(T) /\ Len(u) = Len(s) + 1 /\ u[Len(s) + 1] = b /\ Len(s) \in Nat
  <2>1. Len(s) \in Nat BY LenProperties
  <2>2. /\ u \in Seq(T) /\ Len(u) = Len(s) + Len(t)
        /\ \A i \in 1 .. Len(s) + Len(t) :
             u[i] = IF i <= Len(s) THEN s[i] ELSE t[i - Len(s)]
    BY <1>1, ConcatProperties
  <2> HIDE DEF u
  <2>3. u[Len(s) + 1] = t[Len(s) + 1 - Len(s)] BY <1>1, <2>1, <2>2
  <2> QED BY <1>1, <2>1, <2>2, <2>3
<1>3. First(Len(s), u) = s BY <1>1, FirstAfterConcat
<1> HIDE DEF u
<1>4. Last(u) = b /\ Front(u) = s
  <2>1. Len(u) - 1 = Len(s) BY <1>2
  <2> QED BY <1>2, <1>3, <2>1 DEF Last, Front, First
<1> QED BY <1>2, <1>4 DEF u, t

LEMMA UnitsAre ==
  ASSUME NEW id \in Nat, NEW n \in Nat
  PROVE  /\ Units(id, n) \in Seq(Token) /\ Len(Units(id, n)) = n
         /\ \A i \in 1 .. n : Units(id, n)[i] = Unit(id)
<1>1. Unit(id) \in Token BY DEF Token
<1>2. Units(id, n) \in [1 .. n -> Token] BY <1>1 DEF Units
<1>3. Units(id, n) \in Seq(Token) BY <1>2
<1>4. Len(Units(id, n)) = n BY <1>2, <1>3, LenProperties
<1> QED BY <1>3, <1>4 DEF Units

LEMMA UnitsJoin ==
  ASSUME NEW id \in Nat, NEW m \in Nat, NEW n \in Nat
  PROVE  Units(id, m) \o Units(id, n) = Units(id, m + n)
<1> DEFINE a == Units(id, m)
           b == Units(id, n)
           c == Units(id, m + n)
           u == a \o b
<1>1. /\ a \in Seq(Token) /\ b \in Seq(Token) /\ c \in Seq(Token)
      /\ Len(a) = m /\ Len(b) = n /\ Len(c) = m + n
      /\ \A i \in 1 .. m : a[i] = Unit(id)
      /\ \A i \in 1 .. n : b[i] = Unit(id)
      /\ \A i \in 1 .. m + n : c[i] = Unit(id)
  BY UnitsAre
<1> HIDE DEF a, b, c
<1>2. /\ u \in Seq(Token) /\ Len(u) = m + n
      /\ \A i \in 1 .. m + n : u[i] = IF i <= m THEN a[i] ELSE b[i - m]
  BY <1>1, ConcatProperties
<1> HIDE DEF u
<1>3. \A i \in 1 .. m + n : u[i] = c[i]
  <2> TAKE i \in 1 .. m + n
  <2>1. CASE i <= m BY <1>1, <1>2, <2>1
  <2>2. CASE i > m
    <3>1. i - m \in 1 .. n BY <2>2
    <3> QED BY <1>1, <1>2, <2>2, <3>1
  <2> QED BY <2>1, <2>2
<1>4. u = c BY <1>1, <1>2, <1>3, SeqEqual
<1> QED BY <1>4 DEF u, a, b, c

LEMMA NoUnits ==
  ASSUME NEW id \in Nat
  PROVE  Units(id, 0) = <<>>
<1>1. Units(id, 0) \in Seq(Token) /\ Len(Units(id, 0)) = 0 BY UnitsAre
<1> QED BY <1>1, EmptySeq

LEMMA LeastIs ==
  ASSUME Sizes, NEW n \in Nat \ {0}
  PROVE  /\ Least(n, Chunk) \in 1 .. n
         /\ n - Least(n, Chunk) \in 0 .. n - 1
         /\ Least(n, Chunk) + (n - Least(n, Chunk)) = n
BY DEF Least, Sizes

(* A chunk: its size, its units and its end. *)
LEMMA ChunkIs ==
  ASSUME Sizes, NEW id \in Nat, NEW n \in Nat \ {0}, NEW t \in Seq(Token)
  PROVE  LET k == Least(n, Chunk)
             unit == Units(id, k) \o <<Crlf>>
         IN  /\ unit \in Seq(Token) /\ Len(unit) = k + 1
             /\ Last(unit) = Crlf /\ Front(unit) = Units(id, k)
             /\ ChunkOf(id, n) \in Seq(Token) /\ Len(ChunkOf(id, n)) = k + 2
             /\ ChunkOf(id, n) = <<Size(k)>> \o unit
             /\ ChunkOf(id, n) \o t = <<Size(k)>> \o (unit \o t)
<1> DEFINE k == Least(n, Chunk)
           size == <<Size(k)>>
           units == Units(id, k)
           crlf == <<Crlf>>
<1>1. k \in 1 .. n BY LeastIs
<1>2. Crlf \in Token /\ Size(k) \in Token BY <1>1 DEF Token
<1>3. units \in Seq(Token) /\ Len(units) = k BY <1>1, UnitsAre
<1>4. size \in Seq(Token) /\ Len(size) = 1 /\ crlf \in Seq(Token) BY <1>2
<1>5. /\ units \o crlf \in Seq(Token) /\ Len(units \o crlf) = k + 1
      /\ Last(units \o crlf) = Crlf /\ Front(units \o crlf) = units
  <2> HIDE DEF k, units
  <2> QED BY <1>2, <1>3, OneLast
<1>6. ChunkOf(id, n) = (size \o units) \o crlf BY DEF ChunkOf
<1> DEFINE unit == units \o crlf
<1> HIDE DEF k, size, units, crlf
<1>7. ChunkOf(id, n) = size \o unit
  <2> size \in Seq(Token) /\ units \in Seq(Token) /\ crlf \in Seq(Token) BY <1>3, <1>4
  <2>1. (size \o units) \o crlf = size \o (units \o crlf) BY ConcatAssociative, SMTT(30)
  <2> QED BY <1>6, <2>1, Zenon DEF unit
<1>8. unit \in Seq(Token) /\ Len(unit) = k + 1 BY <1>5
<1> HIDE DEF unit
<1>9. size \o unit \in Seq(Token) /\ Len(size \o unit) = k + 2
  <2>1. size \o unit \in Seq(Token) /\ Len(size \o unit) = Len(size) + Len(unit)
    BY <1>4, <1>8, ConcatProperties
  <2> QED BY <1>1, <1>4, <1>8, <2>1
<1>10. (size \o unit) \o t = size \o (unit \o t)
  <2> size \in Seq(Token) /\ unit \in Seq(Token) BY <1>4, <1>8
  <2> QED BY ConcatAssociative, SMTT(30)
<1>11. /\ unit \in Seq(Token) /\ Len(unit) = k + 1
       /\ Last(unit) = Crlf /\ Front(unit) = units
       /\ ChunkOf(id, n) \in Seq(Token) /\ Len(ChunkOf(id, n)) = k + 2
       /\ ChunkOf(id, n) = size \o unit
       /\ ChunkOf(id, n) \o t = size \o (unit \o t)
  BY <1>5, <1>7, <1>8, <1>9, <1>10 DEF unit
<1> QED BY <1>11, Zenon DEF unit, units, size, crlf, k

LEMMA ChunksAre ==
  ASSUME Sizes, NEW id \in Nat, NEW n \in Nat
  PROVE  WriteBodyChunked(id, n) \in Seq(Token) /\ Len(WriteBodyChunked(id, n)) > 0
<1> DEFINE S == {k \in Nat : /\ WriteBodyChunked(id, k) \in Seq(Token)
                             /\ Len(WriteBodyChunked(id, k)) > 0}
<1>1. ASSUME NEW k \in Nat, \A j \in 0 .. k - 1 : j \in S PROVE k \in S
  <2>1. CASE k = 0
    <3>1. Size(0) \in Token BY DEF Token
    <3>2. WriteBodyChunked(id, 0) = <<Size(0)>> BY ChunksSent
    <3> QED BY <2>1, <3>1, <3>2
  <2>2. CASE k # 0
    <3> DEFINE left == WriteBodyChunked(id, k - Least(k, Chunk))
               chunk == ChunkOf(id, k)
    <3>1. left \in Seq(Token) BY <1>1, <2>2, LeastIs
    <3>2. WriteBodyChunked(id, k) = chunk \o left BY <2>2, ChunksSent
    <3>3. k \in Nat \ {0} BY <2>2
    <3>4. Least(k, Chunk) \in Nat BY <3>3, LeastIs
    <3>5. chunk \in Seq(Token) /\ Len(chunk) = Least(k, Chunk) + 2 BY <3>1, <3>3, ChunkIs, Zenon
    <3> HIDE DEF left, chunk
    <3>6. /\ chunk \o left \in Seq(Token) /\ Len(chunk \o left) = Len(chunk) + Len(left)
          /\ Len(left) \in Nat
      BY <3>1, <3>5, ConcatProperties, LenProperties
    <3>7. Len(chunk \o left) > 0 BY <3>4, <3>5, <3>6
    <3> QED BY <3>2, <3>6, <3>7
  <2> QED BY <2>1, <2>2
<1>2. S = Nat
  <2>1. S \in SUBSET Nat OBVIOUS
  <2> HIDE DEF S
  <2> QED BY <1>1, <2>1, Induction
<1> QED BY <1>2
-----------------------------------------------------------------------------
(* The rounds of ReadChunks: f[k] is what has been read after k of them. *)
IsRun(f, N, s, limit, end) ==
  f = [k \in 0 .. N |->
        IF k = 0 THEN Result("more", <<>>, s)
        ELSE IF f[k - 1].error = "more" THEN ReadChunk(f[k - 1], limit, end) ELSE f[k - 1]]

LEMMA RunIs ==
  ASSUME NEW s, NEW limit, NEW end, NEW N \in Nat, NEW f, IsRun(f, N, s, limit, end)
  PROVE  /\ f[0] = Result("more", <<>>, s)
         /\ \A k \in 1 .. N :
              /\ f[k - 1].error = "more" => f[k] = ReadChunk(f[k - 1], limit, end)
              /\ f[k - 1].error # "more" => f[k] = f[k - 1]
<1>1. \A k \in 0 .. N :
        f[k] = IF k = 0 THEN Result("more", <<>>, s)
               ELSE IF f[k - 1].error = "more" THEN ReadChunk(f[k - 1], limit, end)
               ELSE f[k - 1]
  BY DEF IsRun
<1>2. f[0] = Result("more", <<>>, s) BY <1>1
<1>3. \A k \in 1 .. N : k \in 0 .. N /\ k # 0 OBVIOUS
<1>4. ASSUME NEW k \in 1 .. N, f[k - 1].error = "more"
      PROVE  f[k] = ReadChunk(f[k - 1], limit, end)
  BY <1>1, <1>3, <1>4, Zenon
<1>5. ASSUME NEW k \in 1 .. N, f[k - 1].error # "more"
      PROVE  f[k] = f[k - 1]
  BY <1>1, <1>3, <1>5, Zenon
<1> QED BY <1>2, <1>4, <1>5

LEMMA RunExists ==
  ASSUME NEW s, NEW limit, NEW end, NEW N \in Nat
  PROVE  \E f : IsRun(f, N, s, limit, end)
<1> DEFINE S == {m \in Nat : \E f : IsRun(f, m, s, limit, end)}
<1>1. ASSUME NEW m \in Nat, \A k \in 0 .. m - 1 : k \in S PROVE m \in S
  <2>1. CASE m = 0
    <3> DEFINE g == [k \in 0 .. m |-> Result("more", <<>>, s)]
    <3>1. IsRun(g, m, s, limit, end) BY <2>1 DEF IsRun
    <3> QED BY <3>1
  <2>2. CASE m # 0
    <3> m - 1 \in Nat BY <2>2
    <3>1. PICK f : IsRun(f, m - 1, s, limit, end) BY <1>1, <2>2
    <3> DEFINE last == IF f[m - 1].error = "more" THEN ReadChunk(f[m - 1], limit, end)
                       ELSE f[m - 1]
               g == [k \in 0 .. m |-> IF k = m THEN last ELSE f[k]]
               Next(h, k) == IF h[k - 1].error = "more" THEN ReadChunk(h[k - 1], limit, end)
                             ELSE h[k - 1]
    <3>2. /\ f[0] = Result("more", <<>>, s)
          /\ \A k \in 1 .. m - 1 :
               /\ f[k - 1].error = "more" => f[k] = ReadChunk(f[k - 1], limit, end)
               /\ f[k - 1].error # "more" => f[k] = f[k - 1]
      <4> DEFINE M == m - 1
      <4>1. M \in Nat /\ IsRun(f, M, s, limit, end) BY <3>1
      <4> HIDE DEF M, g, last, Next
      <4>2. f[0] = Result("more", <<>>, s) BY <4>1 DEF IsRun
      <4>3. ASSUME NEW k \in 1 .. M
            PROVE  /\ f[k - 1].error = "more" => f[k] = ReadChunk(f[k - 1], limit, end)
                   /\ f[k - 1].error # "more" => f[k] = f[k - 1]
        BY <4>1, <4>3, RunIs
      <4> QED BY <4>2, <4>3 DEF M
    <3>3. \A k \in 1 .. m - 1 : f[k] = Next(f, k) BY <3>2, Zenon
    <3>4. last = Next(f, m) OBVIOUS
    <3>5. \A k \in 0 .. m - 1 : g[k] = f[k] OBVIOUS
    <3>6. g[m] = last OBVIOUS
    <3>7. g = [k \in 0 .. m |-> g[k]] OBVIOUS
    <3> HIDE DEF g, last
    <3>8. \A k \in 1 .. m : Next(g, k) = Next(f, k)
      <4> TAKE k \in 1 .. m
      <4> k - 1 \in 0 .. m - 1 OBVIOUS
      <4>1. g[k - 1] = f[k - 1] BY <3>5, Zenon
      <4> QED BY <4>1, Zenon
    <3> HIDE DEF Next
    <3>9. \A k \in 0 .. m : g[k] = IF k = 0 THEN Result("more", <<>>, s) ELSE Next(g, k)
      <4> TAKE k \in 0 .. m
      <4>1. CASE k = 0 BY <2>2, <3>2, <3>5, <4>1
      <4>2. CASE k = m BY <2>2, <3>4, <3>6, <3>8, <4>2
      <4>3. CASE k # 0 /\ k # m
        <5>1. k \in 1 .. m - 1 /\ k \in 0 .. m - 1 /\ k \in 1 .. m BY <4>3
        <5>2. g[k] = Next(g, k) BY <3>3, <3>5, <3>8, <5>1, Zenon
        <5> QED BY <4>3, <5>2
      <4> QED BY <4>1, <4>2, <4>3
    <3>10. g = [k \in 0 .. m |-> IF k = 0 THEN Result("more", <<>>, s) ELSE Next(g, k)]
      <4> DEFINE R(k) == IF k = 0 THEN Result("more", <<>>, s) ELSE Next(g, k)
      <4>1. \A k \in 0 .. m : g[k] = R(k) BY <3>9
      <4> HIDE DEF R
      <4>2. g = [k \in 0 .. m |-> R(k)] BY <3>7, <4>1
      <4> QED BY <4>2 DEF R
    <3>11. IsRun(g, m, s, limit, end) BY <3>10, Zenon DEF IsRun, Next
    <3> QED BY <3>11
  <2> QED BY <2>1, <2>2
<1>2. S = Nat
  <2>1. S \in SUBSET Nat OBVIOUS
  <2> HIDE DEF S
  <2> QED BY <1>1, <2>1, Induction
<1> QED BY <1>2

LEMMA ChunksRun ==
  ASSUME NEW s \in Seq(Token), NEW limit, NEW end
  PROVE  \E f : /\ IsRun(f, Len(s) + 1, s, limit, end)
                /\ ReadChunks(s, limit, end) = f[Len(s) + 1]
<1> DEFINE N == Len(s) + 1
           f == CHOOSE g : IsRun(g, N, s, limit, end)
<1>1. N \in Nat BY LenProperties
<1>2. ReadChunks(s, limit, end) = f[N] BY Zenon DEF ReadChunks, IsRun
<1> HIDE DEF N
<1>3. IsRun(f, N, s, limit, end) BY <1>1, RunExists
<1> QED BY <1>2, <1>3 DEF N

(* What has ended stays so. *)
LEMMA RunEnds ==
  ASSUME NEW s, NEW limit, NEW end, NEW N \in Nat, NEW f, IsRun(f, N, s, limit, end),
         NEW i \in 0 .. N, f[i].error # "more"
  PROVE  f[N] = f[i]
<1> DEFINE S == {k \in Nat : k \in i .. N => f[k] = f[i]}
<1>1. ASSUME NEW k \in Nat, \A j \in 0 .. k - 1 : j \in S PROVE k \in S
  <2>1. CASE k \notin i .. N \/ k = i BY <2>1
  <2>2. CASE k \in i .. N /\ k # i
    <3>1. k - 1 \in 0 .. k - 1 /\ k - 1 \in i .. N /\ k \in 1 .. N BY <2>2
    <3>2. f[k - 1] = f[i] BY <1>1, <3>1
    <3>3. f[k - 1].error # "more" BY <3>2
    <3>4. \A j \in 1 .. N : f[j - 1].error # "more" => f[j] = f[j - 1] BY RunIs
    <3>5. f[k] = f[k - 1] BY <3>1, <3>3, <3>4
    <3> QED BY <3>2, <3>5
  <2> QED BY <2>1, <2>2
<1>2. S = Nat
  <2>1. S \in SUBSET Nat OBVIOUS
  <2> HIDE DEF S
  <2> QED BY <1>1, <2>1, Induction
<1> QED BY <1>2

-----------------------------------------------------------------------------
(* One round *)

LEMMA ResultIs ==
  ASSUME NEW e, NEW b, NEW t
  PROVE  /\ Result(e, b, t).error = e /\ Result(e, b, t).body = b
         /\ Result(e, b, t).rest = t /\ Result(e, b, t).lines = <<>>
BY DEF Result

LEMMA SizeIs ==
  ASSUME NEW n \in Nat
  PROVE  Size(n) \in Token /\ Size(n)[1] = "size" /\ Size(n)[3] = n
<1>1. Size(n) \in Token BY DEF Token
<1>2. Size(n)[1] = "size" BY DEF Size
<1>3. Size(n)[3] = n BY DEF Size
<1> QED BY <1>1, <1>2, <1>3

(* What can be read as a whole is. *)
LEMMA ReadsWhole ==
  ASSUME NEW s \in Seq(Token), NEW t \in Seq(Token), NEW end
  PROVE  AppendBodyFixedSize(s \o t, Len(s), end) = Result("none", s, t)
<1>1. First(Len(s), s \o t) = s /\ After(Len(s), s \o t) = t BY FirstAfterConcat
<1>2. ~(Len(s \o t) < Len(s))
  <2> DEFINE u == s \o t
  <2>1. Len(u) = Len(s) + Len(t) BY ConcatProperties
  <2> HIDE DEF u
  <2>2. ~(Len(u) < Len(s)) BY <2>1, LenProperties
  <2> QED BY <2>2 DEF u
<1> QED BY <1>1, <1>2, Zenon DEF AppendBodyFixedSize

LEMMA ChunkRead ==
  ASSUME Sizes, NEW id \in Nat, NEW n \in Nat \ {0}, NEW a \in Nat, NEW t \in Seq(Token),
         NEW limit, NEW end
  PROVE  LET k == Least(n, Chunk)
             r == Result("more", Units(id, a), ChunkOf(id, n) \o t)
         IN  /\ Exceeds(a + k, limit) => ReadChunk(r, limit, end).error = "ErrBodyTooLarge"
             /\ ~Exceeds(a + k, limit) =>
                  ReadChunk(r, limit, end) = Result("more", Units(id, a + k), t)
<1> DEFINE k == Least(n, Chunk)
           unit == Units(id, k) \o <<Crlf>>
           s == ChunkOf(id, n) \o t
           r == Result("more", Units(id, a), s)
<1>1. /\ unit \in Seq(Token) /\ Len(unit) = k + 1
      /\ Last(unit) = Crlf /\ Front(unit) = Units(id, k)
      /\ s = <<Size(k)>> \o (unit \o t)
  BY ChunkIs, Zenon
<1>2. k \in 1 .. n BY LeastIs
<1>3. Size(k) \in Token /\ Size(k)[1] = "size" /\ Size(k)[3] = k BY <1>2, SizeIs
<1>4. r.error = "more" /\ r.body = Units(id, a) /\ r.rest = s
  <2> HIDE DEF s
  <2> QED BY DEF Result
<1>5. Len(Units(id, a)) = a BY UnitsAre
<1> HIDE DEF unit, k, s, r
<1>6. unit \o t \in Seq(Token) BY <1>1, ConcatProperties
<1>7. s # <<>> /\ s[1] = Size(k) /\ Tail(s) = unit \o t BY <1>1, <1>3, <1>6, OneFirst
<1>8. AppendBodyFixedSize(Tail(s), k + 1, end) = Result("none", unit, t)
  BY <1>1, <1>7, ReadsWhole
<1>9. s[1][1] = "size" /\ s[1][3] = k /\ k # 0 BY <1>2, <1>3, <1>7
<1>10. ASSUME Exceeds(a + k, limit) PROVE ReadChunk(r, limit, end).error = "ErrBodyTooLarge"
  <2>1. ReadChunk(r, limit, end) = Result("ErrBodyTooLarge", r.body, s)
    BY <1>4, <1>5, <1>7, <1>9, <1>10, Zenon DEF ReadChunk
  <2> QED BY <2>1, ResultIs
<1>11. ASSUME ~Exceeds(a + k, limit)
       PROVE  ReadChunk(r, limit, end) = Result("more", Units(id, a + k), t)
  <2>1. /\ Result("none", unit, t).error = "none" /\ Result("none", unit, t).body = unit
        /\ Result("none", unit, t).rest = t
    BY ResultIs
  <2>2. ReadChunk(r, limit, end) = Result("more", r.body \o Front(unit), t)
    BY <1>1, <1>4, <1>5, <1>7, <1>8, <1>9, <1>11, <2>1, Zenon DEF ReadChunk
  <2>3. k \in Nat BY <1>2
  <2>4. Units(id, a) \o Units(id, k) = Units(id, a + k) BY <2>3, UnitsJoin
  <2> QED BY <1>1, <1>4, <2>2, <2>4, Zenon
<1> QED BY <1>10, <1>11, Zenon DEF r, s, k

LEMMA EndRead ==
  ASSUME NEW b, NEW t \in Seq(Token), NEW limit, NEW end
  PROVE  ReadChunk(Result("more", b, <<Size(0)>> \o t), limit, end) = Result("none", b, t)
<1> DEFINE s == <<Size(0)>> \o t
           r == Result("more", b, s)
<1>1. Size(0) \in Token /\ Size(0)[1] = "size" /\ Size(0)[3] = 0 BY SizeIs
<1>2. r.error = "more" /\ r.body = b /\ r.rest = s
  <2> HIDE DEF s
  <2> QED BY DEF Result
<1> HIDE DEF r
<1>3. s # <<>> /\ s[1] = Size(0) /\ Tail(s) = t BY <1>1, OneFirst
<1> HIDE DEF s
<1>4. s[1][1] = "size" /\ s[1][3] = 0 BY <1>1, <1>3
<1>5. ReadChunk(r, limit, end) = Result("none", b, t)
  BY <1>2, <1>3, <1>4, Zenon DEF ReadChunk
<1> QED BY <1>5, Zenon DEF r, s

LEMMA CutRead ==
  ASSUME NEW b, NEW s \in Seq(Token), NEW k \in Nat \ {0}, NEW end, end # "none",
         s # <<>> => s[1] = Size(k) /\ Len(s) < k + 2
  PROVE  ReadChunk(Result("more", b, s), 0, end).error = Unexpected(end)
<1> DEFINE r == Result("more", b, s)
<1>1. r.error = "more" /\ r.body = b /\ r.rest = s BY ResultIs
<1> HIDE DEF r
<1>2. CASE s = <<>>
  <2>1. ReadChunk(r, 0, end) = Result(Unexpected(end), b, s)
    BY <1>1, <1>2, Zenon DEF ReadChunk
  <2> QED BY <2>1, ResultIs DEF r
<1>3. CASE s # <<>>
  <2>1. s[1][1] = "size" /\ s[1][3] = k /\ k # 0 BY <1>3, SizeIs
  <2>2. Tail(s) \in Seq(Token) /\ Len(Tail(s)) = Len(s) - 1 BY <1>3, HeadTailProperties
  <2>3. Len(Tail(s)) < k + 1 BY <1>3, <2>2, LenProperties
  <2>4. AppendBodyFixedSize(Tail(s), k + 1, end) = Result(Unexpected(end), Tail(s), <<>>)
    BY <2>3, Zenon DEF AppendBodyFixedSize
  <2>5. Unexpected(end) # "none" BY DEF Unexpected
  <2>6. ~Exceeds(Len(b) + k, 0) BY DEF Exceeds
  <2>7. ReadChunk(r, 0, end) = Result(Unexpected(end), b \o Tail(s), <<>>)
    <3>1. /\ AppendBodyFixedSize(Tail(s), k + 1, end).error = Unexpected(end)
          /\ AppendBodyFixedSize(Tail(s), k + 1, end).body = Tail(s)
      BY <2>4 DEF Result
    <3> QED BY <1>1, <1>3, <2>1, <2>5, <2>6, <3>1, Zenon DEF ReadChunk
  <2> QED BY <2>7, ResultIs DEF r
<1> QED BY <1>2, <1>3
-----------------------------------------------------------------------------
(* A body of chunks *)

(* The rest of the body after its first chunk. *)
LEMMA ChunkFirst ==
  ASSUME Sizes, NEW id \in Nat, NEW n \in Nat \ {0}, NEW t \in Seq(Token)
  PROVE  LET left == WriteBodyChunked(id, n - Least(n, Chunk))
         IN  /\ left \in Seq(Token) /\ left \o t \in Seq(Token)
             /\ WriteBodyChunked(id, n) = ChunkOf(id, n) \o left
             /\ WriteBodyChunked(id, n) \o t = ChunkOf(id, n) \o (left \o t)
             /\ Len(WriteBodyChunked(id, n)) > Len(left)
<1>4. Least(n, Chunk) \in Nat /\ n - Least(n, Chunk) \in Nat
  <2>1. Least(n, Chunk) \in 1 .. n /\ n - Least(n, Chunk) \in 0 .. n - 1 BY LeastIs, Zenon
  <2> QED BY <2>1
<1> DEFINE left == WriteBodyChunked(id, n - Least(n, Chunk))
           chunk == ChunkOf(id, n)
<1>1. left \in Seq(Token) BY <1>4, ChunksAre, Zenon
<1>2. WriteBodyChunked(id, n) = chunk \o left BY ChunksSent
<1>3. chunk \in Seq(Token) /\ Len(chunk) = Least(n, Chunk) + 2 BY ChunkIs, Zenon
<1> HIDE DEF left, chunk
<1>5. left \o t \in Seq(Token) BY <1>1, ConcatProperties
<1>6. (chunk \o left) \o t = chunk \o (left \o t)
  <2> chunk \in Seq(Token) /\ left \in Seq(Token) BY <1>1, <1>3
  <2> QED BY ConcatAssociative, SMTT(30)
<1>7. Len(chunk \o left) = Len(chunk) + Len(left) BY <1>1, <1>3, ConcatProperties
<1>8. Len(left) \in Nat BY <1>1, LenProperties
<1>9. Len(chunk \o left) > Len(left) BY <1>3, <1>4, <1>7, <1>8
<1>10. /\ left \in Seq(Token) /\ left \o t \in Seq(Token)
       /\ WriteBodyChunked(id, n) = chunk \o left
       /\ WriteBodyChunked(id, n) \o t = chunk \o (left \o t)
       /\ Len(WriteBodyChunked(id, n)) > Len(left)
  BY <1>1, <1>2, <1>5, <1>6, <1>9
<1> QED BY <1>10, Zenon DEF left, chunk

(* What a run comes to from where it has read a units and n are to come. *)
ReadsAll(f, N, id, limit, n) ==
  \A a, j \in Nat, t \in Seq(Token) :
    /\ j + Len(WriteBodyChunked(id, n)) <= N
    /\ f[j] = Result("more", Units(id, a), WriteBodyChunked(id, n) \o t)
    /\ ~Exceeds(a, limit)
    => \E i \in 0 .. N :
         IF Exceeds(a + n, limit) THEN f[i].error = "ErrBodyTooLarge"
         ELSE f[i] = Result("none", Units(id, a + n), t)

LEMMA RoundsRead ==
  ASSUME Sizes, NEW s, NEW limit \in Nat, NEW end, NEW N \in Nat,
         NEW f, IsRun(f, N, s, limit, end), NEW id \in Nat, NEW n \in Nat
  PROVE  ReadsAll(f, N, id, limit, n)
<1> DEFINE S == {m \in Nat : ReadsAll(f, N, id, limit, m)}
<1>1. ASSUME NEW m \in Nat, \A k \in 0 .. m - 1 : k \in S PROVE ReadsAll(f, N, id, limit, m)
  <2>1. SUFFICES ASSUME NEW a \in Nat, NEW j \in Nat, NEW t \in Seq(Token),
                        j + Len(WriteBodyChunked(id, m)) <= N,
                        f[j] = Result("more", Units(id, a), WriteBodyChunked(id, m) \o t),
                        ~Exceeds(a, limit)
                 PROVE  \E i \in 0 .. N :
                          IF Exceeds(a + m, limit) THEN f[i].error = "ErrBodyTooLarge"
                          ELSE f[i] = Result("none", Units(id, a + m), t)
    BY DEF ReadsAll
  <2>2. Len(WriteBodyChunked(id, m)) > 0 /\ Len(WriteBodyChunked(id, m)) \in Nat
    BY ChunksAre, LenProperties
  <2>3. j + 1 \in 1 .. N /\ j + 1 - 1 = j BY <2>1, <2>2
  <2>4. f[j].error = "more" BY <2>1, ResultIs
  <2>5. f[j + 1] = ReadChunk(f[j], limit, end)
    <3>1. \A k \in 1 .. N : f[k - 1].error = "more" => f[k] = ReadChunk(f[k - 1], limit, end)
      BY RunIs
    <3> QED BY <2>3, <2>4, <3>1
  <2>6. CASE m = 0
    <3>1. WriteBodyChunked(id, m) = <<Size(0)>> BY <2>6, ChunksSent
    <3>2. f[j + 1] = Result("none", Units(id, a), t) BY <2>1, <2>5, <3>1, EndRead
    <3>3. a + m = a BY <2>6
    <3>4. j + 1 \in 0 .. N BY <2>3
    <3> QED BY <2>1, <3>2, <3>3, <3>4, Zenon
  <2>7. CASE m # 0
    <3> DEFINE k == Least(m, Chunk)
               left == WriteBodyChunked(id, m - k)
    <3>1. m \in Nat \ {0} BY <2>7
    <3>2. k \in Nat /\ m - k \in 0 .. m - 1 /\ m - k \in Nat
      <4>1. k \in 1 .. m /\ m - k \in 0 .. m - 1 BY <3>1, LeastIs, Zenon
      <4> QED BY <4>1
    <3>3. /\ left \in Seq(Token) /\ left \o t \in Seq(Token)
          /\ WriteBodyChunked(id, m) \o t = ChunkOf(id, m) \o (left \o t)
          /\ Len(WriteBodyChunked(id, m)) > Len(left)
      BY <3>1, ChunkFirst, Zenon
    <3>4. m - k \in S BY <1>1, <3>2
    <3>5. ReadsAll(f, N, id, limit, m - k) BY <3>4
    <3>6. /\ Exceeds(a + k, limit) => f[j + 1].error = "ErrBodyTooLarge"
          /\ ~Exceeds(a + k, limit) => f[j + 1] = Result("more", Units(id, a + k), left \o t)
      <4>1. f[j] = Result("more", Units(id, a), ChunkOf(id, m) \o (left \o t))
        BY <2>1, <3>3
      <4> DEFINE u == left \o t
      <4>2. u \in Seq(Token) BY <3>3
      <4> HIDE DEF u
      <4>3. LET r == Result("more", Units(id, a), ChunkOf(id, m) \o u)
            IN  /\ Exceeds(a + k, limit) => ReadChunk(r, limit, end).error = "ErrBodyTooLarge"
                /\ ~Exceeds(a + k, limit) =>
                     ReadChunk(r, limit, end) = Result("more", Units(id, a + k), u)
        BY <3>1, <4>2, ChunkRead
      <4> QED BY <2>5, <4>1, <4>3, Zenon DEF u
    <3> HIDE DEF k
    <3>7. CASE Exceeds(a + k, limit)
      <4>1. Exceeds(a + m, limit) BY <3>2, <3>7 DEF Exceeds
      <4>2. j + 1 \in 0 .. N BY <2>3
      <4> QED BY <3>6, <3>7, <4>1, <4>2, Zenon
    <3>8. CASE ~Exceeds(a + k, limit)
      <4>1. a + k \in Nat /\ j + 1 \in Nat /\ a + k + (m - k) = a + m BY <3>2
      <4>2. j + 1 + Len(left) <= N BY <2>1, <2>2, <3>3, LenProperties
      <4>3. f[j + 1] = Result("more", Units(id, a + k), left \o t) BY <3>6, <3>8
      <4>4. \E i \in 0 .. N :
              IF Exceeds(a + k + (m - k), limit) THEN f[i].error = "ErrBodyTooLarge"
              ELSE f[i] = Result("none", Units(id, a + k + (m - k)), t)
        BY <3>5, <3>8, <4>1, <4>2, <4>3, Zenon DEF ReadsAll
      <4> QED BY <4>1, <4>4
    <3> QED BY <3>7, <3>8
  <2> QED BY <2>6, <2>7
<1>2. S = Nat
  <2>1. S \in SUBSET Nat OBVIOUS
  <2>2. \A m \in Nat : (\A k \in 0 .. m - 1 : k \in S) => m \in S BY <1>1
  <2> HIDE DEF S
  <2> QED BY <2>1, <2>2, Induction
<1> QED BY <1>2

LEMMA ChunksAreRead ==
  ASSUME Sizes, NEW id \in Nat, NEW n \in Nat, NEW t \in Seq(Token), NEW limit \in Nat, NEW end
  PROVE  LET r == ReadChunks(WriteBodyChunked(id, n) \o t, limit, end)
         IN  IF Exceeds(n, limit) THEN r.error = "ErrBodyTooLarge"
             ELSE r = Result("none", Units(id, n), t)
<1> DEFINE w == WriteBodyChunked(id, n)
           s == w \o t
           N == Len(s) + 1
<1>1. w \in Seq(Token) BY ChunksAre
<1>2. s \in Seq(Token) /\ Len(s) = Len(w) + Len(t) /\ Len(w) \in Nat /\ Len(t) \in Nat
  <2> HIDE DEF w
  <2> QED BY <1>1, ConcatProperties, LenProperties
<1> HIDE DEF s
<1>3. N \in Nat /\ 0 + Len(w) <= N BY <1>2
<1>4. PICK f : IsRun(f, N, s, limit, end) /\ ReadChunks(s, limit, end) = f[N]
  BY <1>2, ChunksRun
<1> HIDE DEF N
<1>5. f[0] = Result("more", Units(id, 0), w \o t)
  <2>1. f[0] = Result("more", <<>>, s) BY <1>3, <1>4 DEF IsRun
  <2> QED BY <2>1, NoUnits DEF s
<1>6. ~Exceeds(0, limit) BY DEF Exceeds
<1>7. \E i \in 0 .. N : IF Exceeds(0 + n, limit) THEN f[i].error = "ErrBodyTooLarge"
                       ELSE f[i] = Result("none", Units(id, 0 + n), t)
  <2>1. ReadsAll(f, N, id, limit, n) BY <1>3, <1>4, RoundsRead
  <2>2. 0 \in Nat OBVIOUS
  <2> QED BY <1>3, <1>5, <1>6, <2>1, <2>2, Zenon DEF ReadsAll
<1>8. 0 + n = n OBVIOUS
<1>9. PICK i \in 0 .. N : IF Exceeds(n, limit) THEN f[i].error = "ErrBodyTooLarge"
                         ELSE f[i] = Result("none", Units(id, n), t)
  BY <1>7, <1>8
<1>10. f[i].error # "more"
  <2>1. CASE Exceeds(n, limit) BY <1>9, <2>1
  <2>2. CASE ~Exceeds(n, limit)
    <3>1. f[i].error = "none" BY <1>9, <2>2, ResultIs
    <3> QED BY <3>1
  <2> QED BY <2>1, <2>2
<1>11. f[N] = f[i] BY <1>3, <1>4, <1>9, <1>10, RunEnds
<1> QED BY <1>4, <1>9, <1>11, Zenon DEF s

(* What a run comes to when only c of the tokens that are to come do. *)
NoticesCut(f, N, id, n, end) ==
  \A a, j, c \in Nat :
    /\ j + c < N /\ c < Len(WriteBodyChunked(id, n))
    /\ f[j] = Result("more", Units(id, a), First(c, WriteBodyChunked(id, n)))
    => \E i \in 0 .. N : f[i].error = Unexpected(end)

LEMMA CutsRead ==
  ASSUME Sizes, NEW s, NEW end, end # "none", NEW N \in Nat,
         NEW f, IsRun(f, N, s, 0, end), NEW id \in Nat, NEW n \in Nat
  PROVE  NoticesCut(f, N, id, n, end)
<1> DEFINE S == {m \in Nat : NoticesCut(f, N, id, m, end)}
<1>1. ASSUME NEW m \in Nat, \A k \in 0 .. m - 1 : k \in S PROVE NoticesCut(f, N, id, m, end)
  <2>1. SUFFICES ASSUME NEW a \in Nat, NEW j \in Nat, NEW c \in Nat,
                        j + c < N, c < Len(WriteBodyChunked(id, m)),
                        f[j] = Result("more", Units(id, a), First(c, WriteBodyChunked(id, m)))
                 PROVE  \E i \in 0 .. N : f[i].error = Unexpected(end)
    BY DEF NoticesCut
  <2>2. j + 1 \in 1 .. N /\ j + 1 - 1 = j /\ j + 1 \in 0 .. N BY <2>1
  <2>3. f[j].error = "more" BY <2>1, ResultIs
  <2>4. f[j + 1] = ReadChunk(f[j], 0, end)
    <3>1. \A k \in 1 .. N : f[k - 1].error = "more" => f[k] = ReadChunk(f[k - 1], 0, end)
      BY RunIs
    <3> QED BY <2>2, <2>3, <3>1
  <2> DEFINE w == WriteBodyChunked(id, m)
  <2>5. w \in Seq(Token) /\ c \in 0 .. Len(w)
    <3>1. w \in Seq(Token) BY ChunksAre
    <3> HIDE DEF w
    <3>2. Len(w) \in Nat BY <3>1, LenProperties
    <3> QED BY <2>1, <3>1, <3>2 DEF w
  <2>6. First(c, w) \in Seq(Token) /\ Len(First(c, w)) = c /\ \A i \in 1 .. c : First(c, w)[i] = w[i]
    <3> HIDE DEF w
    <3> QED BY <2>5, FirstAfterTyped
  <2>7. CASE m = 0
    <3>1. w = <<Size(0)>> BY <2>7, ChunksSent
    <3>2. c = 0 BY <2>1, <3>1
    <3> HIDE DEF w
    <3>3. First(c, w) = <<>> BY <2>6, <3>2, EmptySeq
    <3>4. ReadChunk(f[j], 0, end).error = Unexpected(end)
      <4>1. f[j] = Result("more", Units(id, a), <<>>) BY <2>1, <3>3 DEF w
      <4>2. <<>> \in Seq(Token) BY EmptySeq
      <4>3. 1 \in Nat \ {0} OBVIOUS
      <4> QED BY <4>1, <4>2, <4>3, CutRead, ZenonT(30)
    <3> QED BY <2>2, <2>4, <3>4
  <2>8. CASE m # 0
    <3> DEFINE k == Least(m, Chunk)
               left == WriteBodyChunked(id, m - k)
               chunk == ChunkOf(id, m)
               unit == Units(id, k) \o <<Crlf>>
    <3>1. m \in Nat \ {0} BY <2>8
    <3>2. k \in Nat \ {0} /\ m - k \in 0 .. m - 1 /\ m - k \in Nat BY <3>1, LeastIs
    <3>3. left \in Seq(Token) /\ w = chunk \o left
      <4>1. <<>> \in Seq(Token) BY EmptySeq
      <4> QED BY <3>1, <4>1, ChunkFirst, Zenon
    <3>4. /\ chunk \in Seq(Token) /\ Len(chunk) = k + 2
          /\ unit \in Seq(Token) /\ chunk = <<Size(k)>> \o unit
      <4>1. <<>> \in Seq(Token) BY EmptySeq
      <4> QED BY <3>1, <4>1, ChunkIs, Zenon
    <3>5. Size(k) \in Token BY <3>2, SizeIs
    <3>6. m - k \in S BY <1>1, <3>2
    <3>7. NoticesCut(f, N, id, m - k, end) BY <3>6
    <3> HIDE DEF unit
    <3>8. chunk[1] = Size(k) BY <3>4, <3>5, OneFirst
    <3> HIDE DEF k, left, chunk, w
    <3>9. Len(w) = k + 2 + Len(left) /\ Len(left) \in Nat
      <4>1. Len(w) = Len(chunk) + Len(left) /\ Len(left) \in Nat
        BY <3>3, <3>4, ConcatProperties, LenProperties
      <4> QED BY <3>4, <4>1
    <3>10. CASE c < k + 2
      <4>1. First(c, w) = First(c, chunk)
        <5>1. c \in 0 .. Len(chunk) + Len(left) /\ c <= Len(chunk) BY <3>2, <3>4, <3>9, <3>10
        <5> QED BY <3>3, <3>4, <5>1, FirstOfConcat
      <4>2. First(c, w) # <<>> => First(c, w)[1] = Size(k)
        <5>1. SUFFICES ASSUME First(c, w) # <<>> PROVE First(c, w)[1] = Size(k) OBVIOUS
        <5>2. c # 0 BY <2>6, <5>1, EmptySeq
        <5>3. 1 \in 1 .. c /\ c \in 0 .. Len(chunk) BY <3>2, <3>4, <3>10, <5>2
        <5>4. First(c, chunk)[1] = chunk[1]
          <6>1. \A i \in 1 .. c : First(c, chunk)[i] = chunk[i] BY <3>4, <5>3, FirstAfterTyped
          <6> QED BY <5>3, <6>1
        <5> QED BY <3>8, <4>1, <5>4
      <4>3. Len(First(c, w)) < k + 2 BY <2>6, <3>10
      <4>4. ReadChunk(Result("more", Units(id, a), First(c, w)), 0, end).error = Unexpected(end)
        BY <2>6, <3>2, <4>2, <4>3, CutRead
      <4> QED BY <2>1, <2>2, <2>4, <4>4 DEF w
    <3>11. CASE ~(c < k + 2)
      <4> DEFINE d == c - (k + 2)
                 p == First(d, left)
      <4>1. d \in Nat /\ d < Len(left) /\ d \in 0 .. Len(left)
        BY <2>1, <3>2, <3>9, <3>11 DEF w
      <4>2. p \in Seq(Token)
        <5> HIDE DEF d
        <5> QED BY <3>3, <4>1, FirstAfterTyped
      <4>5. First(c, w) = chunk \o p
        <5>1. c \in 0 .. Len(chunk) + Len(left) /\ c >= Len(chunk) BY <2>5, <3>2, <3>4, <3>9, <3>11
        <5>2. First(c, w) = chunk \o First(c - Len(chunk), left)
          BY <3>3, <3>4, <5>1, FirstOfConcat
        <5>3. c - Len(chunk) = d BY <3>4
        <5> QED BY <5>2, <5>3
      <4> HIDE DEF d, p
      <4>6. f[j] = Result("more", Units(id, a), chunk \o p) BY <2>1, <4>5 DEF w
      <4>7. f[j + 1] = Result("more", Units(id, a + k), p)
        <5>1. ~Exceeds(a + k, 0) BY DEF Exceeds
        <5>2. p \in Seq(Token) BY <4>2
        <5>3. ReadChunk(Result("more", Units(id, a), chunk \o p), 0, end)
                = Result("more", Units(id, a + k), p)
          <6>1. LET r == Result("more", Units(id, a), ChunkOf(id, m) \o p)
                IN  ~Exceeds(a + Least(m, Chunk), 0) =>
                      ReadChunk(r, 0, end) = Result("more", Units(id, a + Least(m, Chunk)), p)
            BY <3>1, <5>2, ChunkRead
          <6> QED BY <5>1, <6>1, Zenon DEF chunk, k
        <5> QED BY <2>4, <4>6, <5>3
      <4>8. a + k \in Nat /\ j + 1 \in Nat /\ j + 1 + d < N
        BY <2>1, <3>2, <4>1 DEF d
      <4> QED BY <3>7, <4>1, <4>7, <4>8, Zenon DEF NoticesCut, p, left
    <3> QED BY <3>10, <3>11
  <2> QED BY <2>7, <2>8
<1>2. S = Nat
  <2>1. S \in SUBSET Nat OBVIOUS
  <2>2. \A m \in Nat : (\A k \in 0 .. m - 1 : k \in S) => m \in S BY <1>1
  <2> HIDE DEF S
  <2> QED BY <2>1, <2>2, Induction
<1> QED BY <1>2

LEMMA CutChunksAreNoticed ==
  ASSUME Sizes, NEW id \in Nat, NEW n \in Nat, NEW end, end \in {"open", "eof", "reset"},
         NEW c \in Nat, c < Len(WriteBodyChunked(id, n))
  PROVE  ReadChunks(First(c, WriteBodyChunked(id, n)), 0, end).error = Unexpected(end)
<1> DEFINE w == WriteBodyChunked(id, n)
           s == First(c, w)
           N == Len(s) + 1
<1>1. w \in Seq(Token) /\ c \in 0 .. Len(w)
  <2>1. w \in Seq(Token) BY ChunksAre
  <2>2. c < Len(w) OBVIOUS
  <2> HIDE DEF w
  <2>3. Len(w) \in Nat BY <2>1, LenProperties
  <2> QED BY <2>1, <2>2, <2>3
<1>2. s \in Seq(Token) /\ Len(s) = c
  <2> HIDE DEF w
  <2> QED BY <1>1, FirstAfterTyped
<1> HIDE DEF s
<1>3. N \in Nat /\ 0 + c < N BY <1>2
<1>4. PICK f : IsRun(f, N, s, 0, end) /\ ReadChunks(s, 0, end) = f[N] BY <1>2, ChunksRun
<1> HIDE DEF N
<1>5. f[0] = Result("more", Units(id, 0), s)
  <2>1. f[0] = Result("more", <<>>, s) BY <1>3, <1>4 DEF IsRun
  <2> QED BY <2>1, NoUnits
<1>6. PICK i \in 0 .. N : f[i].error = Unexpected(end)
  <2>1. NoticesCut(f, N, id, n, end) BY <1>3, <1>4, CutsRead
  <2>2. 0 \in Nat OBVIOUS
  <2> QED BY <1>3, <1>5, <2>1, <2>2, Zenon DEF NoticesCut, s
<1>7. Unexpected(end) # "more" BY DEF Unexpected
<1>8. f[N] = f[i]
  <2> DEFINE limit == 0
  <2>1. IsRun(f, N, s, limit, end) /\ N \in Nat /\ i \in 0 .. N /\ f[i].error # "more"
    BY <1>3, <1>4, <1>6, <1>7
  <2> HIDE DEF w, limit
  <2> QED BY <2>1, RunEnds
<1> QED BY <1>4, <1>6, <1>8, Zenon DEF s
-----------------------------------------------------------------------------
(* Trailers *)

LEMMA TrailingIs ==
  ASSUME NEW s, NEW i \in Nat, Len(s) \in Nat, i \in 1 .. Len(s), s[i][1] # "line",
         \A j \in 1 .. i - 1 : s[j][1] = "line"
  PROVE  Trailing(s) = i
<1> DEFINE I == {j \in 1 .. Len(s) : s[j][1] # "line"}
<1>1. i \in I /\ \A j \in I : i <= j OBVIOUS
<1>2. I \subseteq Nat OBVIOUS
<1> HIDE DEF I
<1>3. I # {} BY <1>1
<1>4. (CHOOSE x \in I : \A y \in I : x <= y) = i
  <2> DEFINE x == CHOOSE x \in I : \A y \in I : x <= y
  <2>1. x \in I /\ \A y \in I : x <= y BY <1>1
  <2> HIDE DEF x
  <2>2. x <= i /\ i <= x BY <1>1, <2>1
  <2>3. x \in Nat /\ i \in Nat BY <1>1, <1>2, <2>1
  <2>4. x = i BY <2>2, <2>3
  <2> QED BY <2>4 DEF x
<1> QED BY <1>3, <1>4, Zenon DEF Trailing, SelectInSeq, Min, I

LEMMA TokensAre ==
  ASSUME NEW id \in Nat
  PROVE  /\ Line(id) \in Token /\ Line(id)[1] = "line"
         /\ End \in Token /\ End[1] # "line"
<1>1. Line(id) \in Token /\ End \in Token BY DEF Token
<1>2. Line(id)[1] = "line" BY DEF Line
<1>3. End[1] # "line" BY DEF End
<1> QED BY <1>1, <1>2, <1>3

LinesOf(id, m) == IF m.trailer THEN <<Line(id)>> ELSE <<>>

LEMMA TrailerIs ==
  ASSUME NEW id \in Nat, NEW m, NEW t \in Seq(Token)
  PROVE  /\ WriteTrailer(id, m) \in Seq(Token)
         /\ m.trailer => WriteTrailer(id, m) \o t = <<Line(id)>> \o (<<End>> \o t)
         /\ ~m.trailer => WriteTrailer(id, m) \o t = <<End>> \o t
<1> DEFINE line == <<Line(id)>>
           ending == <<End>>
<1>1. line \in Seq(Token) /\ ending \in Seq(Token) BY TokensAre
<1>2. m.trailer => WriteTrailer(id, m) = line \o ending BY Zenon DEF WriteTrailer
<1>3. ~m.trailer => WriteTrailer(id, m) = <<>> \o ending BY Zenon DEF WriteTrailer
<1> HIDE DEF line, ending
<1>4. <<>> \o ending = ending BY <1>1, ConcatEmptySeq
<1>5. line \o ending \in Seq(Token) BY <1>1, ConcatProperties
<1>6. (line \o ending) \o t = line \o (ending \o t) BY <1>1, ConcatAssociative
<1>7. /\ WriteTrailer(id, m) \in Seq(Token)
      /\ m.trailer => WriteTrailer(id, m) \o t = line \o (ending \o t)
      /\ ~m.trailer => WriteTrailer(id, m) \o t = ending \o t
  BY <1>1, <1>2, <1>3, <1>4, <1>5, <1>6, Zenon
<1> QED BY <1>7 DEF line, ending

LEMMA TrailerIsRead ==
  ASSUME NEW id \in Nat, NEW m, NEW t \in Seq(Token), NEW b, NEW end
  PROVE  LET r == ReadTrailer(Result("none", b, WriteTrailer(id, m) \o t), end)
         IN  /\ r.error = "none" /\ r.body = b
             /\ r.lines = LinesOf(id, m) /\ r.rest = t
<1> DEFINE s == WriteTrailer(id, m) \o t
           r == Result("none", b, s)
           ended == <<End>> \o t
<1>1. ended \in Seq(Token) /\ ended[1] = End /\ Len(ended) = Len(t) + 1 /\ Len(t) \in Nat
      /\ Tail(ended) = t /\ ended # <<>>
  BY TokensAre, OneFirst, LenProperties
<1>2. r.rest = s /\ r.error = "none" /\ r.body = b
  <2> HIDE DEF s
  <2> QED BY DEF Result
<1>3. /\ m.trailer => s = <<Line(id)>> \o ended
      /\ ~m.trailer => s = ended
  BY TrailerIs, Zenon
<1>4. \E i \in Nat : /\ Trailing(s) = i /\ i # 0 /\ s[i] = End
                    /\ First(i - 1, s) = LinesOf(id, m) /\ After(i, s) = t
  <2> HIDE DEF s, ended
  <2>1. CASE ~m.trailer
    <3>1. s = ended BY <1>3, <2>1
    <3>2. Trailing(s) = 1
      <4>1. /\ Len(s) \in Nat /\ 1 \in 1 .. Len(s) /\ s[1][1] # "line"
            /\ \A j \in 1 .. 1 - 1 : s[j][1] = "line" /\ 1 \in Nat
        BY <1>1, <3>1, TokensAre
      <4> QED BY <4>1, TrailingIs
    <3>3. First(0, s) = <<>> BY SubSeqEmpty DEF First
    <3>4. After(1, s) = t
      <4>1. Tail(s) = SubSeq(s, 2, Len(s)) BY <1>1, <3>1, TailIsSubSeq
      <4> QED BY <1>1, <3>1, <4>1 DEF After
    <3>5. LinesOf(id, m) = <<>> BY <2>1 DEF LinesOf
    <3>6. 1 - 1 = 0 /\ 1 \in Nat /\ 1 # 0 OBVIOUS
    <3> QED BY <1>1, <3>1, <3>2, <3>3, <3>4, <3>5, <3>6
  <2>2. CASE m.trailer
    <3>1. s = <<Line(id)>> \o ended BY <1>3, <2>2
    <3>2. /\ s \in Seq(Token) /\ s # <<>> /\ s[1] = Line(id) /\ Tail(s) = ended
          /\ Len(s) = Len(t) + 2
      <4>1. /\ s \in Seq(Token) /\ s # <<>> /\ s[1] = Line(id) /\ Tail(s) = ended
            /\ Len(s) = Len(ended) + 1
        BY <1>1, <3>1, TokensAre, OneFirst
      <4> QED BY <1>1, <4>1
    <3>3. s[2] = End
      <4>1. Len(Tail(s)) = Len(s) - 1 /\ \A i \in 1 .. Len(Tail(s)) : Tail(s)[i] = s[i + 1]
        BY <3>2, HeadTailProperties
      <4>2. 1 \in 1 .. Len(Tail(s)) BY <1>1, <3>2, <4>1
      <4>3. Tail(s)[1] = s[1 + 1] BY <4>1, <4>2
      <4> QED BY <1>1, <3>2, <4>3
    <3>4. Trailing(s) = 2
      <4>1. /\ Len(s) \in Nat /\ 2 \in 1 .. Len(s) /\ s[2][1] # "line"
            /\ \A j \in 1 .. 2 - 1 : s[j][1] = "line"
            /\ 2 \in Nat
        BY <1>1, <3>2, <3>3, TokensAre
      <4> QED BY <4>1, TrailingIs
    <3> DEFINE line == <<Line(id)>>
    <3>5. line \in Seq(Token) /\ Len(line) = 1 BY TokensAre
    <3>6. First(1, s) = line /\ After(1, s) = ended
      <4> HIDE DEF line
      <4>1. First(Len(line), line \o ended) = line /\ After(Len(line), line \o ended) = ended
        BY <1>1, <3>5, FirstAfterConcat
      <4> QED BY <3>1, <3>5, <4>1 DEF line
    <3>7. After(2, s) = t
      <4>1. /\ First(2, s) \in Seq(Token) /\ After(2, s) \in Seq(Token)
            /\ Len(After(2, s)) = Len(t)
        <5>1. 2 \in 0 .. Len(s) BY <1>1, <3>2
        <5>2. Len(After(2, s)) = Len(s) - 2 BY <3>2, <5>1, FirstAfterTyped
        <5> QED BY <1>1, <3>2, <5>1, <5>2, FirstAfterTyped
      <4>2. \A i \in 1 .. Len(t) : After(2, s)[i] = t[i]
        <5> TAKE i \in 1 .. Len(t)
        <5>1. \A j \in 3 .. Len(s) : s[j] \in Token BY <3>2, ElementOfSeq
        <5>2. \A j \in 1 .. Len(s) - 3 + 1 : SubSeq(s, 3, Len(s))[j] = s[3 + j - 1]
          BY <1>1, <3>2, <5>1, SubSeqProperties
        <5>3. i \in 1 .. Len(s) - 3 + 1 /\ 3 + i - 1 = i + 2 /\ 2 + 1 = 3 BY <1>1, <3>2
        <5>4. After(2, s)[i] = s[i + 2] BY <5>2, <5>3 DEF After
        <5>5. \A j \in 1 .. Len(ended) : ended[j] = s[j + 1]
          BY <3>2, HeadTailProperties
        <5>6. \A j \in 1 .. Len(t) : t[j] = ended[j + 1]
          BY <1>1, HeadTailProperties
        <5>7. i + 1 \in 1 .. Len(ended) /\ i + 1 + 1 = i + 2 BY <1>1
        <5> QED BY <5>4, <5>5, <5>6, <5>7
      <4> QED BY <4>1, <4>2, SeqEqual
    <3>8. LinesOf(id, m) = line BY <2>2 DEF LinesOf
    <3>9. 2 - 1 = 1 /\ 2 \in Nat /\ 2 # 0 OBVIOUS
    <3> QED BY <3>3, <3>4, <3>6, <3>7, <3>8, <3>9
  <2> QED BY <2>1, <2>2
<1> HIDE DEF s
<1>5. PICK i \in Nat : /\ Trailing(s) = i /\ i # 0 /\ s[i] = End
                      /\ First(i - 1, s) = LinesOf(id, m) /\ After(i, s) = t
  BY <1>4
<1>6. ReadTrailer(r, end) = [r EXCEPT !.lines = LinesOf(id, m), !.rest = t]
  <2> HIDE DEF r
  <2> QED BY <1>2, <1>5, Zenon DEF ReadTrailer
<1>7. /\ ReadTrailer(r, end).error = "none" /\ ReadTrailer(r, end).body = b
      /\ ReadTrailer(r, end).lines = LinesOf(id, m) /\ ReadTrailer(r, end).rest = t
  BY <1>6 DEF Result
<1> QED BY <1>7, Zenon DEF s

(* Whatever a trailer is, the body stays. *)
LEMMA TrailerKeepsBody ==
  ASSUME NEW b, NEW s, NEW end
  PROVE  /\ ReadTrailer(Result("none", b, s), end).body = b
         /\ end # "reset" => ReadTrailer(Result("none", b, s), end).error # "reset"
<1> DEFINE r == Result("none", b, s)
           read == ReadTrailer(r, end)
<1>1. r = [error |-> "none", body |-> b, lines |-> <<>>, rest |-> s] BY DEF Result
<1> HIDE DEF r
<1> DEFINE i == Trailing(r.rest)
<1>2. ASSUME i = 0 PROVE read.body = b /\ (end # "reset" => read.error # "reset")
  <2>1. read =
          [r EXCEPT !.error = IF end = "eof" THEN "none" ELSE end, !.lines = r.rest, !.rest = <<>>]
    BY <1>2, Zenon DEF ReadTrailer
  <2> QED BY <1>1, <2>1
<1>3. ASSUME i # 0, r.rest[i] # End PROVE read.body = b /\ read.error # "reset"
  <2>1. read = [r EXCEPT !.error = "ErrTrailer"] BY <1>3, Zenon DEF ReadTrailer
  <2> QED BY <1>1, <2>1
<1>4. ASSUME i # 0, r.rest[i] = End PROVE read.body = b /\ read.error # "reset"
  <2>1. read = [r EXCEPT !.lines = First(i - 1, r.rest), !.rest = After(i, r.rest)]
    BY <1>4, Zenon DEF ReadTrailer
  <2> QED BY <1>1, <2>1
<1>5. read.body = b /\ (end # "reset" => read.error # "reset") BY <1>2, <1>3, <1>4
<1> QED BY <1>5 DEF r
-----------------------------------------------------------------------------
(* What is written of a message: a header and what follows it *)

LengthOf(m) ==
  IF m.stream
  THEN IF m.status = "none" THEN NoLength ELSE IF m.size >= 0 THEN m.size ELSE Chunked
  ELSE IF \/ Identity(m)
          \/ m.dir = "response" /\ (m.status \in {"none", "late"} \/ (m.skip /\ m.actual = 0))
          \/ m.dir = "request" /\ m.status = "get" /\ m.actual = 0
       THEN NoLength ELSE m.actual

SendsBody(m) == m.dir = "request" \/ ~MustSkipBody(m)

Payload(id, m) ==
  IF LengthOf(m) = Chunked
  THEN (IF SendsBody(m) THEN WriteBodyChunked(id, m.actual) ELSE <<>>) \o WriteTrailer(id, m)
  ELSE IF SendsBody(m) THEN Units(id, m.actual) ELSE <<>>

LEMMA MessageIs ==
  ASSUME NEW m \in Writable
  PROVE  /\ m.dir \in {"request", "response"} /\ m.status \in {"ok", "none", "late", "get", "post"}
         /\ m.skip \in BOOLEAN /\ m.stream \in BOOLEAN /\ m.trailer \in BOOLEAN
         /\ m.size \in Int /\ m.actual \in Nat
         /\ m.dir = "response" <=> m.status \in {"ok", "none", "late"}
         /\ Identity(m) => m.status = "ok" /\ ~m.skip
BY DEF Writable

LEMMA LengthIs ==
  ASSUME NEW m \in Writable
  PROVE  /\ LengthOf(m) \in Nat \cup {Chunked, NoLength} /\ LengthOf(m) \in Int
         /\ LengthOf(m) \in Nat => LengthOf(m) # Chunked /\ LengthOf(m) # NoLength
         /\ Chunked # NoLength
BY MessageIs DEF LengthOf, Chunked, NoLength

LEMMA HeadIs ==
  ASSUME NEW id \in Nat, NEW m \in Writable
  PROVE  LET head == HeadOf(id, LengthOf(m), m)
         IN  /\ head \in Token /\ head[1] = "head" /\ head[3] = LengthOf(m)
             /\ head[4] = "none" <=> m.status \in {"none", "late"}
<1> DEFINE head == HeadOf(id, LengthOf(m), m)
<1>1. head \in Token BY LengthIs DEF Token
<1>2. head[1] = "head" BY DEF HeadOf
<1>3. head[3] = LengthOf(m) BY DEF HeadOf
<1>4. head[4] = IF m.status = "late" THEN "none" ELSE m.status BY DEF HeadOf
<1>5. head[4] = "none" <=> m.status \in {"none", "late"} BY <1>4
<1> QED BY <1>1, <1>2, <1>3, <1>5

LEMMA PayloadIs ==
  ASSUME Sizes, NEW id \in Nat, NEW m \in Writable
  PROVE  Payload(id, m) \in Seq(Token)
<1>1. m.actual \in Nat BY MessageIs
<1>2. <<>> \in Seq(Token) BY EmptySeq
<1>3. Units(id, m.actual) \in Seq(Token) BY <1>1, UnitsAre
<1>4. WriteBodyChunked(id, m.actual) \in Seq(Token) BY <1>1, ChunksAre
<1>5. WriteTrailer(id, m) \in Seq(Token) BY <1>2, TrailerIs
<1> DEFINE body == IF SendsBody(m) THEN WriteBodyChunked(id, m.actual) ELSE <<>>
           trailer == WriteTrailer(id, m)
<1>6. body \in Seq(Token) BY <1>2, <1>4
<1> HIDE DEF body, trailer
<1>7. body \o trailer \in Seq(Token) BY <1>5, <1>6, ConcatProperties DEF trailer
<1>8. CASE LengthOf(m) = Chunked BY <1>7, <1>8, Zenon DEF Payload, body, trailer
<1>9. CASE LengthOf(m) # Chunked BY <1>2, <1>3, <1>9 DEF Payload
<1> QED BY <1>8, <1>9

LEMMA StreamIs ==
  ASSUME Sizes, NEW id \in Nat, NEW m \in Writable, m.stream
  PROVE  /\ Write(id, m) = WriteBodyStream(id, m, SendsBody(m))
<1>1. CASE m.dir = "request" BY <1>1 DEF Write, WriteRequest, SendsBody
<1>2. CASE m.dir # "request"
  <2>1. ~Identity(m) BY DEF Identity
  <2>2. SendsBody(m) = ~MustSkipBody(m) BY <1>2 DEF SendsBody
  <2>3. Write(id, m) = WriteResponse(id, m) BY <1>2, <2>1, Zenon DEF Write
  <2> QED BY <2>2, <2>3, Zenon DEF WriteResponse
<1> QED BY <1>1, <1>2

LEMMA StreamWritten ==
  ASSUME Sizes, NEW id \in Nat, NEW m \in Writable, m.stream
  PROVE  /\ Write(id, m).tokens = <<HeadOf(id, LengthOf(m), m)>> \o Payload(id, m)
         /\ Write(id, m).error <=>
              LengthOf(m) \in Nat /\ SendsBody(m) /\ m.actual # LengthOf(m)
<1> DEFINE length == StreamLength(m)
           units == IF SendsBody(m) THEN Units(id, m.actual) ELSE <<>>
           body == IF SendsBody(m) THEN WriteBodyChunked(id, m.actual) ELSE <<>>
           trailer == WriteTrailer(id, m)
<1>1. Write(id, m) = WriteBodyStream(id, m, SendsBody(m)) BY StreamIs
<1>2. CASE length >= 0
  <2> DEFINE head == <<HeadOf(id, IF m.status = "none" THEN NoLength ELSE length, m)>>
             error == SendsBody(m) /\ m.actual # length
  <2>1. Write(id, m) = Written(head \o units, error) BY <1>1, <1>2, Zenon DEF WriteBodyStream
  <2>2. Write(id, m).tokens = head \o units /\ Write(id, m).error = error
    <3> HIDE DEF head, units, error
    <3> QED BY <2>1 DEF Written
  <2>3. LengthOf(m) = IF m.status = "none" THEN NoLength ELSE length
    BY <1>2, MessageIs DEF LengthOf, StreamLength
  <2>4. LengthOf(m) # Chunked
    BY <1>2, <2>3, MessageIs DEF StreamLength, NoLength, Chunked
  <2>5. Payload(id, m) = units BY <2>4, Zenon DEF Payload
  <2>6. error <=> LengthOf(m) \in Nat /\ SendsBody(m) /\ m.actual # LengthOf(m)
    <3>1. CASE m.status = "none"
      <4>1. ~SendsBody(m) BY <3>1, MessageIs DEF SendsBody, MustSkipBody
      <4> QED BY <4>1
    <3>2. CASE m.status # "none"
      <4>1. length \in Nat /\ LengthOf(m) = length
        BY <1>2, <2>3, <3>2, MessageIs DEF StreamLength
      <4> HIDE DEF length
      <4> QED BY <4>1
    <3> QED BY <3>1, <3>2
  <2> QED BY <2>2, <2>3, <2>5, <2>6, Zenon
<1>3. CASE ~(length >= 0)
  <2> DEFINE head == <<HeadOf(id, Chunked, m)>>
  <2>1. LengthOf(m) = Chunked
    BY <1>3, MessageIs DEF LengthOf, StreamLength
  <2>2. Write(id, m) = Written((head \o body) \o trailer, FALSE)
    BY <1>1, <1>3, Zenon DEF WriteBodyStream
  <2>3. Payload(id, m) = body \o trailer BY <2>1, Zenon DEF Payload
  <2>4. (head \o body) \o trailer = head \o (body \o trailer)
    <3>1. <<>> \in Seq(Token) BY EmptySeq
    <3>2. trailer \in Seq(Token) BY <3>1, TrailerIs
    <3>3. WriteBodyChunked(id, m.actual) \in Seq(Token) BY MessageIs, ChunksAre
    <3>4. body \in Seq(Token) BY <3>1, <3>3
    <3>5. head \in Seq(Token)
      <4>1. HeadOf(id, Chunked, m) \in Token BY <2>1, HeadIs
      <4> QED BY <4>1
    <3> HIDE DEF head, body, trailer
    <3> QED BY <3>2, <3>4, <3>5, ConcatAssociative
  <2>5. LengthOf(m) \notin Nat BY <2>1 DEF Chunked
  <2>6. Write(id, m).tokens = (head \o body) \o trailer /\ Write(id, m).error = FALSE
    <3> HIDE DEF head, body, trailer
    <3> QED BY <2>2 DEF Written
  <2> QED BY <2>1, <2>3, <2>4, <2>5, <2>6, Zenon
<1> QED BY <1>2, <1>3

LEMMA WholeWritten ==
  ASSUME NEW id \in Nat, NEW m \in Writable, ~m.stream
  PROVE  /\ Write(id, m).tokens = <<HeadOf(id, LengthOf(m), m)>> \o Payload(id, m)
         /\ Write(id, m).error = FALSE
<1> DEFINE units == IF SendsBody(m) THEN Units(id, m.actual) ELSE <<>>
           head == <<HeadOf(id, LengthOf(m), m)>>
<1>1. LengthOf(m) # Chunked BY MessageIs DEF LengthOf, NoLength, Chunked
<1>2. Payload(id, m) = units BY <1>1, Zenon DEF Payload
<1>3. Write(id, m) = Written(head \o units, FALSE)
  <2>1. CASE m.dir = "request"
    <3>1. SendsBody(m) BY <2>1 DEF SendsBody
    <3>2. ~Identity(m) BY <2>1 DEF Identity
    <3>3. LengthOf(m) = IF m.actual = 0 /\ m.status = "get" THEN NoLength ELSE m.actual
      BY <2>1, <3>2 DEF LengthOf
    <3>4. Write(id, m) = WriteRequest(id, m) BY <2>1, Zenon DEF Write
    <3> QED BY <3>1, <3>3, <3>4, Zenon DEF WriteRequest
  <2>2. CASE m.dir # "request" /\ Identity(m)
    <3>1. SendsBody(m) BY <2>2, MessageIs DEF SendsBody, MustSkipBody
    <3>2. LengthOf(m) = NoLength BY <2>2 DEF LengthOf
    <3>3. Write(id, m) = WriteIdentity(id, m) BY <2>2, Zenon DEF Write
    <3> QED BY <3>1, <3>2, <3>3, Zenon DEF WriteIdentity
  <2>3. CASE m.dir # "request" /\ ~Identity(m)
    <3> DEFINE none == m.status \in {"none", "late"} \/ (MustSkipBody(m) /\ m.actual = 0)
    <3>1. SendsBody(m) = ~MustSkipBody(m) BY <2>3 DEF SendsBody
    <3>2. m.dir = "response" BY <2>3, MessageIs
    <3>3. LengthOf(m) = IF none THEN NoLength ELSE m.actual
      <4>1. none <=> m.status \in {"none", "late"} \/ (m.skip /\ m.actual = 0)
        BY MessageIs DEF MustSkipBody
      <4> QED BY <2>3, <3>2, <4>1 DEF LengthOf
    <3>4. Write(id, m) = WriteResponse(id, m) BY <2>3, Zenon DEF Write
    <3>5. WriteResponse(id, m) =
            Written(<<HeadOf(id, IF none THEN NoLength ELSE m.actual, m)>>
                      \o (IF ~MustSkipBody(m) THEN Units(id, m.actual) ELSE <<>>), FALSE)
      BY Zenon DEF WriteResponse
    <3> QED BY <3>1, <3>3, <3>4, <3>5, Zenon
  <2> QED BY <2>1, <2>2, <2>3
<1>4. Write(id, m).tokens = head \o units /\ Write(id, m).error = FALSE
  <2> HIDE DEF head, units
  <2> QED BY <1>3 DEF Written
<1> QED BY <1>2, <1>4, Zenon

(* A stream that is written without an error has as many units as it said. *)
LEMMA WriteIs ==
  ASSUME Sizes, NEW id \in Nat, NEW m \in Writable
  PROVE  /\ Write(id, m).tokens = <<HeadOf(id, LengthOf(m), m)>> \o Payload(id, m)
         /\ Write(id, m).error <=>
              m.stream /\ LengthOf(m) \in Nat /\ SendsBody(m) /\ m.actual # LengthOf(m)
<1>1. CASE m.stream BY <1>1, StreamWritten
<1>2. CASE ~m.stream BY <1>2, WholeWritten
<1> QED BY <1>1, <1>2
-----------------------------------------------------------------------------
(* What is read of what was written *)

(* A header as the readers see it: its length, and whether its body is skipped. *)
LEMMA HeadRead ==
  ASSUME Sizes, NEW id \in Nat, NEW m \in Writable, NEW p \in Seq(Token)
  PROVE  LET s == <<HeadOf(id, LengthOf(m), m)>> \o p
         IN  /\ IsHead(s) /\ s[1][3] = LengthOf(m) /\ Tail(s) = p /\ s # <<>>
             /\ m.dir = "response" => (m.skip \/ s[1][4] = "none" <=> ~SendsBody(m))
<1> DEFINE head == HeadOf(id, LengthOf(m), m)
           s == <<head>> \o p
<1>1. /\ head \in Token /\ head[1] = "head" /\ head[3] = LengthOf(m)
      /\ head[4] = "none" <=> m.status \in {"none", "late"}
  BY HeadIs
<1>2. m.dir = "response" => (SendsBody(m) <=> ~(m.skip \/ m.status \in {"none", "late"}))
  BY DEF SendsBody, MustSkipBody
<1> HIDE DEF head
<1>3. s # <<>> /\ s[1] = head /\ Tail(s) = p BY <1>1, OneFirst
<1> HIDE DEF s
<1>4. IsHead(s) BY <1>1, <1>3 DEF IsHead
<1>5. m.dir = "response" => (m.skip \/ s[1][4] = "none" <=> ~SendsBody(m)) BY <1>1, <1>2, <1>3
<1>6. s[1][3] = LengthOf(m) BY <1>1, <1>3
<1>7. IsHead(s) /\ s[1][3] = LengthOf(m) /\ Tail(s) = p /\ s # <<>> BY <1>3, <1>4, <1>6
<1> QED BY <1>5, <1>7, Zenon DEF s, head

LEMMA HeadThenBody ==
  ASSUME Sizes, NEW id \in Nat, NEW m \in Writable, NEW t \in Seq(Token)
  PROVE  /\ Write(id, m).tokens \o t = <<HeadOf(id, LengthOf(m), m)>> \o (Payload(id, m) \o t)
         /\ Write(id, m).tokens \in Seq(Token)
<1> DEFINE head == <<HeadOf(id, LengthOf(m), m)>>
           p == Payload(id, m)
<1>1. p \in Seq(Token) BY PayloadIs
<1>2. head \in Seq(Token)
  <2>1. HeadOf(id, LengthOf(m), m) \in Token BY HeadIs
  <2> QED BY <2>1
<1>3. Write(id, m).tokens = head \o p BY WriteIs
<1> HIDE DEF head, p
<1>4. (head \o p) \o t = head \o (p \o t) BY <1>1, <1>2, ConcatAssociative
<1>5. head \o p \in Seq(Token) BY <1>1, <1>2, ConcatProperties
<1> QED BY <1>3, <1>4, <1>5 DEF head, p

(* What is promised of a message says how long its header is. *)
LEMMA OwnIs ==
  ASSUME Sizes, NEW id \in Nat, NEW m \in Writable
  PROVE  /\ Sent(id, m) = IF SendsBody(m) THEN Units(id, m.actual) ELSE <<>>
         /\ Write(id, m).tokens[1][3] = LengthOf(m)
         /\ Lines(id, m) = IF LengthOf(m) = Chunked THEN LinesOf(id, m) ELSE <<>>
<1>1. Sent(id, m) = IF SendsBody(m) THEN Units(id, m.actual) ELSE <<>>
  <2>1. SendsBody(m) <=> ~(m.dir = "response" /\ MustSkipBody(m)) BY MessageIs DEF SendsBody
  <2> QED BY <2>1 DEF Sent
<1>2. Write(id, m).tokens[1][3] = LengthOf(m)
  <2>1. Payload(id, m) \in Seq(Token) BY PayloadIs
  <2>2. Write(id, m).tokens = <<HeadOf(id, LengthOf(m), m)>> \o Payload(id, m) BY WriteIs
  <2> QED BY <2>1, <2>2, HeadRead
<1>3. Lines(id, m) = IF LengthOf(m) = Chunked THEN LinesOf(id, m) ELSE <<>>
  BY <1>2 DEF Lines, LinesOf
<1> QED BY <1>1, <1>2, <1>3

(* What is made of what follows a header. *)
BodyRead(m, length, p, limit, end) ==
  IF SendsBody(m)
  THEN IF length = Chunked THEN ReadChunked(p, limit, end)
       ELSE IF length # NoLength THEN ReadBodyFixed(p, length, limit, end)
       ELSE IF m.dir = "request" THEN Result("none", <<>>, p) ELSE ReadBodyIdentity(p, limit, end)
  ELSE IF length = Chunked THEN ReadTrailer(Result("none", <<>>, p), end)
       ELSE Result("none", <<>>, p)

LEMMA ReadIs ==
  ASSUME Sizes, NEW id \in Nat, NEW m \in Writable, NEW p \in Seq(Token), NEW limit, NEW end,
         m.dir = "request" \/ BodyRead(m, LengthOf(m), p, limit, end).error # "reset"
  PROVE  Read(m.dir, <<HeadOf(id, LengthOf(m), m)>> \o p, m.skip, limit, end)
           = BodyRead(m, LengthOf(m), p, limit, end)
<1> DEFINE s == <<HeadOf(id, LengthOf(m), m)>> \o p
           n == LengthOf(m)
           r == BodyRead(m, n, p, limit, end)
<1>1. /\ IsHead(s) /\ s[1][3] = n /\ Tail(s) = p
      /\ m.dir = "response" => (m.skip \/ s[1][4] = "none" <=> ~SendsBody(m))
  BY HeadRead
<1>2. Chunked # NoLength BY DEF Chunked, NoLength
<1> HIDE DEF s, n
<1>3. CASE m.dir = "request"
  <2>1. SendsBody(m) BY <1>3 DEF SendsBody
  <2>2. Read(m.dir, s, m.skip, limit, end) = ContinueReadBody(s, limit, end)
    BY <1>3, Zenon DEF Read
  <2>3. ContinueReadBody(s, limit, end) = r
    <3>1. CASE n = Chunked
      BY <1>1, <1>2, <2>1, <3>1, Zenon DEF ContinueReadBody, BodyRead
    <3>2. CASE n # Chunked /\ n = NoLength
      BY <1>1, <1>3, <2>1, <3>2, Zenon DEF ContinueReadBody, BodyRead
    <3>3. CASE n # Chunked /\ n # NoLength
      BY <1>1, <2>1, <3>3, Zenon DEF ContinueReadBody, BodyRead
    <3> QED BY <3>1, <3>2, <3>3
  <2> QED BY <2>2, <2>3, Zenon DEF s, n
<1>4. CASE m.dir # "request"
  <2>1. m.dir = "response" BY <1>4, MessageIs
  <2>2. ReadLimitBody(s, m.skip, limit, end) = r
    <3>1. CASE n = Chunked
      BY <1>1, <2>1, <3>1, Zenon DEF ReadLimitBody, BodyRead
    <3>2. CASE n # Chunked /\ n = NoLength
      BY <1>1, <1>4, <2>1, <3>2, Zenon DEF ReadLimitBody, BodyRead
    <3>3. CASE n # Chunked /\ n # NoLength
      BY <1>1, <2>1, <3>3, Zenon DEF ReadLimitBody, BodyRead
    <3> QED BY <3>1, <3>2, <3>3
  <2>3. r.error # "reset" BY <1>4 DEF n
  <2> HIDE DEF r
  <2>4. Read(m.dir, s, m.skip, limit, end) = ReadResponse(s, m.skip, limit, end)
    BY <2>1, Zenon DEF Read
  <2>5. ReadResponse(s, m.skip, limit, end) = r
    BY <2>2, <2>3, Zenon DEF ReadResponse
  <2> QED BY <2>4, <2>5, Zenon DEF s, n, r
<1> QED BY <1>3, <1>4

LEMMA FixedRead ==
  ASSUME NEW id \in Nat, NEW n \in Nat, NEW t \in Seq(Token), NEW limit \in Nat, NEW end
  PROVE  IF Exceeds(n, limit)
         THEN ReadBodyFixed(Units(id, n) \o t, n, limit, end).error = "ErrBodyTooLarge"
         ELSE ReadBodyFixed(Units(id, n) \o t, n, limit, end) = Result("none", Units(id, n), t)
<1> DEFINE u == Units(id, n)
           s == u \o t
<1>1. u \in Seq(Token) /\ Len(u) = n BY UnitsAre
<1>2. AppendBodyFixedSize(s, n, end) = Result("none", u, t)
  <2> HIDE DEF u
  <2> QED BY <1>1, ReadsWhole
<1> HIDE DEF s
<1>3. ASSUME Exceeds(n, limit) PROVE ReadBodyFixed(s, n, limit, end).error = "ErrBodyTooLarge"
  <2>1. ReadBodyFixed(s, n, limit, end) = Result("ErrBodyTooLarge", <<>>, s)
    BY <1>3, Zenon DEF ReadBodyFixed
  <2> QED BY <2>1, ResultIs
<1>4. ASSUME ~Exceeds(n, limit) PROVE ReadBodyFixed(s, n, limit, end) = Result("none", u, t)
  BY <1>2, <1>4, Zenon DEF ReadBodyFixed
<1> QED BY <1>3, <1>4, Zenon DEF s

(* What is read of a chunked body and its trailer. *)
Gives(r, body, lines, rest) ==
  r.error = "none" /\ r.body = body /\ r.lines = lines /\ r.rest = rest

ChunkedThen(id, m, n, t) == (WriteBodyChunked(id, n) \o WriteTrailer(id, m)) \o t

LEMMA ChunkedRead ==
  ASSUME Sizes, NEW id \in Nat, NEW m, NEW n \in Nat, NEW t \in Seq(Token),
         NEW limit \in Nat, NEW end
  PROVE  /\ Exceeds(n, limit) =>
              ReadChunked(ChunkedThen(id, m, n, t), limit, end).error = "ErrBodyTooLarge"
         /\ ~Exceeds(n, limit) =>
              Gives(ReadChunked(ChunkedThen(id, m, n, t), limit, end), Units(id, n), LinesOf(id, m), t)
<1> DEFINE s == ChunkedThen(id, m, n, t)
           w == WriteBodyChunked(id, n)
           e == WriteTrailer(id, m)
           q == e \o t
<1>1. w \in Seq(Token) BY ChunksAre
<1>2. e \in Seq(Token)
  <2>1. <<>> \in Seq(Token) BY EmptySeq
  <2> QED BY <2>1, TrailerIs
<1>3. s = w \o q /\ q \in Seq(Token)
  <2>1. s = (w \o e) \o t BY Zenon DEF ChunkedThen
  <2> HIDE DEF w, e
  <2>2. (w \o e) \o t = w \o (e \o t) BY <1>1, <1>2, ConcatAssociative
  <2> QED BY <1>2, <2>1, <2>2, ConcatProperties
<1> HIDE DEF q, s
<1>4. IF Exceeds(n, limit) THEN ReadChunks(s, limit, end).error = "ErrBodyTooLarge"
      ELSE ReadChunks(s, limit, end) = Result("none", Units(id, n), q)
  BY <1>3, ChunksAreRead
<1>5. ASSUME Exceeds(n, limit) PROVE ReadChunked(s, limit, end).error = "ErrBodyTooLarge"
  <2>1. ReadChunks(s, limit, end).error = "ErrBodyTooLarge" BY <1>4, <1>5
  <2>2. ReadChunks(s, limit, end).error # "none" BY <2>1
  <2> QED BY <2>1, <2>2, Zenon DEF ReadChunked
<1>6. ASSUME ~Exceeds(n, limit)
      PROVE  Gives(ReadChunked(s, limit, end), Units(id, n), LinesOf(id, m), t)
  <2>1. ReadChunks(s, limit, end) = Result("none", Units(id, n), q) BY <1>4, <1>6
  <2>2. Result("none", Units(id, n), q).error = "none" BY ResultIs
  <2>3. ReadChunked(s, limit, end) = ReadTrailer(Result("none", Units(id, n), q), end)
    BY <2>1, <2>2, Zenon DEF ReadChunked
  <2>4. LET r == ReadTrailer(Result("none", Units(id, n), e \o t), end)
        IN  /\ r.error = "none" /\ r.body = Units(id, n)
            /\ r.lines = LinesOf(id, m) /\ r.rest = t
    BY TrailerIsRead
  <2> QED BY <2>3, <2>4, Zenon DEF q, Gives
<1> QED BY <1>5, <1>6, Zenon DEF s

(* A message, with whatever follows it, is read as it was written. *)
LEMMA BodyIsRead ==
  ASSUME Sizes, NEW id \in Nat, NEW m \in Writable, ~Write(id, m).error,
         NEW t \in Seq(Token), NEW limit \in Nat, ~Exceeds(m.actual, limit), NEW end \in Ends,
         Identity(m) => t = <<>> /\ end = "eof"
  PROVE  IsOwn(BodyRead(m, LengthOf(m), Payload(id, m) \o t, limit, end), id, m, t)
<1> DEFINE p == Payload(id, m) \o t
           r == BodyRead(m, LengthOf(m), p, limit, end)
<1>1. m.actual \in Nat BY MessageIs
<1>2. <<>> \o t = t BY ConcatEmptySeq
<1>3. ASSUME NEW b, NEW l, NEW q, b = Sent(id, m), l = Lines(id, m), q = t,
             r.error = "none", r.body = b, r.lines = l, r.rest = q
      PROVE  IsOwn(r, id, m, t)
  BY <1>3, Zenon DEF IsOwn
<1>4. CASE LengthOf(m) = Chunked /\ SendsBody(m)
  <2> DEFINE q == ChunkedThen(id, m, m.actual, t)
  <2>1. p = q BY <1>4, Zenon DEF Payload, ChunkedThen
  <2>2. LET c == ReadChunked(q, limit, end)
        IN  /\ c.error = "none" /\ c.body = Units(id, m.actual)
            /\ c.lines = LinesOf(id, m) /\ c.rest = t
    <3>1. Gives(ReadChunked(q, limit, end), Units(id, m.actual), LinesOf(id, m), t)
      BY <1>1, ChunkedRead
    <3> QED BY <3>1, Zenon DEF Gives
  <2> HIDE DEF p, q
  <2>3. r = ReadChunked(q, limit, end) BY <1>4, <2>1, Zenon DEF BodyRead
  <2>4. Sent(id, m) = Units(id, m.actual) /\ Lines(id, m) = LinesOf(id, m) BY <1>4, OwnIs
  <2> HIDE DEF r
  <2>5. IsOwn(r, id, m, t) BY <2>2, <2>3, <2>4, Zenon DEF IsOwn
  <2> QED BY <2>5 DEF r, p
<1>5. CASE LengthOf(m) = Chunked /\ ~SendsBody(m)
  <2>1. p = (<<>> \o WriteTrailer(id, m)) \o t BY <1>5, Zenon DEF Payload
  <2>2. p = WriteTrailer(id, m) \o t
    <3>1. WriteTrailer(id, m) \in Seq(Token) BY TrailerIs
    <3>2. <<>> \o WriteTrailer(id, m) = WriteTrailer(id, m) BY <3>1, ConcatEmptySeq
    <3> QED BY <2>1, <3>2
  <2>3. LET c == ReadTrailer(Result("none", <<>>, WriteTrailer(id, m) \o t), end)
        IN  /\ c.error = "none" /\ c.body = <<>>
            /\ c.lines = LinesOf(id, m) /\ c.rest = t
    BY TrailerIsRead
  <2> HIDE DEF p
  <2>4. r = ReadTrailer(Result("none", <<>>, p), end) BY <1>5, Zenon DEF BodyRead
  <2>5. Sent(id, m) = <<>> /\ Lines(id, m) = LinesOf(id, m) BY <1>5, OwnIs
  <2> HIDE DEF r
  <2>6. IsOwn(r, id, m, t) BY <2>2, <2>3, <2>4, <2>5, Zenon DEF IsOwn
  <2> QED BY <2>6 DEF r, p
<1>6. ASSUME NEW b, r = Result("none", b, t), b = Sent(id, m), LengthOf(m) # Chunked
      PROVE  IsOwn(r, id, m, t)
  <2> HIDE DEF r
  <2>1. Lines(id, m) = <<>> BY <1>6, OwnIs
  <2>2. r.error = "none" /\ r.body = b /\ r.lines = <<>> /\ r.rest = t BY <1>6, ResultIs
  <2> QED BY <1>6, <2>1, <2>2, Zenon DEF IsOwn
<1>7. CASE LengthOf(m) # Chunked /\ ~SendsBody(m)
  <2>1. p = t BY <1>2, <1>7, Zenon DEF Payload
  <2>2. Sent(id, m) = <<>> BY <1>7, OwnIs
  <2> HIDE DEF p
  <2>3. r = Result("none", <<>>, t) BY <1>7, <2>1, Zenon DEF BodyRead
  <2> QED BY <1>6, <1>7, <2>2, <2>3, Zenon DEF p
<1>8. CASE LengthOf(m) \in Nat /\ SendsBody(m)
  <2>1. LengthOf(m) # Chunked /\ LengthOf(m) # NoLength BY <1>8, LengthIs
  <2>2. p = Units(id, m.actual) \o t BY <1>8, <2>1, Zenon DEF Payload
  <2>3. LengthOf(m) = m.actual
    <3>1. CASE m.stream BY <1>8, <3>1, WriteIs
    <3>2. CASE ~m.stream BY <2>1, <3>2 DEF LengthOf
    <3> QED BY <3>1, <3>2
  <2>4. ReadBodyFixed(Units(id, m.actual) \o t, m.actual, limit, end)
          = Result("none", Units(id, m.actual), t)
    BY <1>1, FixedRead
  <2>5. Sent(id, m) = Units(id, m.actual) BY <1>8, OwnIs
  <2> HIDE DEF p
  <2>6. r = ReadBodyFixed(p, m.actual, limit, end) BY <1>8, <2>1, <2>3, Zenon DEF BodyRead
  <2>7. r = Result("none", Units(id, m.actual), t) BY <2>2, <2>4, <2>6, Zenon
  <2> QED BY <1>6, <2>1, <2>5, <2>7, Zenon DEF p
<1>9. CASE LengthOf(m) = NoLength /\ SendsBody(m) /\ m.dir = "request"
  <2>1. LengthOf(m) # Chunked BY <1>9, LengthIs
  <2>2. m.actual = 0 BY <1>9, MessageIs DEF LengthOf, NoLength, Chunked, Identity
  <2>3. Units(id, m.actual) = <<>> BY <2>2, NoUnits
  <2>4. p = t BY <1>2, <1>9, <2>1, <2>3, Zenon DEF Payload
  <2>5. Sent(id, m) = <<>> BY <1>9, <2>3, OwnIs
  <2> HIDE DEF p
  <2>6. r = Result("none", <<>>, t) BY <1>9, <2>1, <2>4, Zenon DEF BodyRead
  <2> QED BY <1>6, <2>1, <2>5, <2>6, Zenon DEF p
<1>10. CASE LengthOf(m) = NoLength /\ SendsBody(m) /\ m.dir # "request"
  <2>1. LengthOf(m) # Chunked BY <1>10, LengthIs
  <2>2. Identity(m)
    BY <1>10, MessageIs DEF LengthOf, NoLength, Chunked, SendsBody, MustSkipBody
  <2>3. t = <<>> /\ end = "eof" BY <2>2
  <2>4. p = Units(id, m.actual)
    <3>1. p = Units(id, m.actual) \o <<>> BY <1>10, <2>1, <2>3, Zenon DEF Payload
    <3>2. Units(id, m.actual) \in Seq(Token) BY <1>1, UnitsAre
    <3> DEFINE u == Units(id, m.actual)
    <3> HIDE DEF u, p
    <3>3. u \o <<>> = u BY <3>2, ConcatEmptySeq DEF u
    <3> QED BY <3>1, <3>3, Zenon DEF u
  <2>5. Sent(id, m) = Units(id, m.actual) BY <1>10, OwnIs
  <2> HIDE DEF p
  <2>6. ReadBodyIdentity(p, limit, end) = Result("none", Units(id, m.actual), t)
    <3>1. Len(p) = m.actual BY <1>1, <2>4, UnitsAre
    <3> QED BY <2>3, <2>4, <3>1, Zenon DEF ReadBodyIdentity
  <2>7. r = ReadBodyIdentity(p, limit, end) BY <1>10, <2>1, Zenon DEF BodyRead
  <2> QED BY <1>6, <2>1, <2>5, <2>6, <2>7, Zenon DEF p
<1> QED BY <1>4, <1>5, <1>7, <1>8, <1>9, <1>10, LengthIs, Zenon

LEMMA OwnIsRead ==
  ASSUME Sizes, NEW id \in Nat, NEW m \in Writable, ~Write(id, m).error,
         NEW t \in Seq(Token), NEW limit \in Nat, ~Exceeds(m.actual, limit), NEW end \in Ends,
         Identity(m) => t = <<>> /\ end = "eof"
  PROVE  IsOwn(Read(m.dir, Write(id, m).tokens \o t, m.skip, limit, end), id, m, t)
<1> DEFINE p == Payload(id, m) \o t
<1>1. p \in Seq(Token)
  <2> DEFINE q == Payload(id, m)
  <2>1. q \in Seq(Token) BY PayloadIs
  <2> HIDE DEF q
  <2>2. q \o t \in Seq(Token) BY <2>1, ConcatProperties
  <2> QED BY <2>2 DEF q
<1>2. Write(id, m).tokens \o t = <<HeadOf(id, LengthOf(m), m)>> \o p BY HeadThenBody
<1>3. IsOwn(BodyRead(m, LengthOf(m), p, limit, end), id, m, t) BY BodyIsRead
<1> HIDE DEF p
<1>4. BodyRead(m, LengthOf(m), p, limit, end).error # "reset" BY <1>3 DEF IsOwn
<1>5. Read(m.dir, <<HeadOf(id, LengthOf(m), m)>> \o p, m.skip, limit, end)
        = BodyRead(m, LengthOf(m), p, limit, end)
  BY <1>1, <1>4, ReadIs
<1> QED BY <1>2, <1>3, <1>5, Zenon
(* A message that does not fit under the limit is reported. *)
LEMMA LimitHolds ==
  ASSUME Sizes, NEW id \in Nat, NEW m \in Writable, ~Write(id, m).error, ~Identity(m),
         NEW t \in Seq(Token), NEW limit \in Nat, Exceeds(m.actual, limit), NEW end \in Ends,
         SendsBody(m)
  PROVE  Read(m.dir, Write(id, m).tokens \o t, m.skip, limit, end).error = "ErrBodyTooLarge"
<1> DEFINE p == Payload(id, m) \o t
           r == BodyRead(m, LengthOf(m), p, limit, end)
<1>1. p \in Seq(Token)
  <2> DEFINE q == Payload(id, m)
  <2>1. q \in Seq(Token) BY PayloadIs
  <2> HIDE DEF q
  <2>2. q \o t \in Seq(Token) BY <2>1, ConcatProperties
  <2> QED BY <2>2 DEF q
<1>2. Write(id, m).tokens \o t = <<HeadOf(id, LengthOf(m), m)>> \o p BY HeadThenBody
<1>3. m.actual \in Nat /\ m.actual # 0 BY MessageIs DEF Exceeds
<1>4. r.error = "ErrBodyTooLarge"
  <2>1. CASE LengthOf(m) = Chunked
    <3> DEFINE q == ChunkedThen(id, m, m.actual, t)
    <3>1. p = q BY <2>1, Zenon DEF Payload, ChunkedThen
    <3>2. ReadChunked(q, limit, end).error = "ErrBodyTooLarge" BY <1>3, ChunkedRead
    <3> HIDE DEF p, q
    <3> QED BY <2>1, <3>1, <3>2, Zenon DEF BodyRead
  <2>2. CASE LengthOf(m) \in Nat
    <3>1. LengthOf(m) # Chunked /\ LengthOf(m) # NoLength BY <2>2, LengthIs
    <3>2. p = Units(id, m.actual) \o t BY <3>1, Zenon DEF Payload
    <3>3. LengthOf(m) = m.actual
      <4>1. CASE m.stream BY <2>2, <4>1, WriteIs
      <4>2. CASE ~m.stream BY <3>1, <4>2 DEF LengthOf
      <4> QED BY <4>1, <4>2
    <3>4. ReadBodyFixed(Units(id, m.actual) \o t, m.actual, limit, end).error = "ErrBodyTooLarge"
      BY <1>3, FixedRead
    <3> HIDE DEF p
    <3> QED BY <3>1, <3>2, <3>3, <3>4, Zenon DEF BodyRead
  <2>3. CASE LengthOf(m) = NoLength
    <3>1. FALSE
      BY <1>3, <2>3, MessageIs DEF LengthOf, NoLength, Chunked, SendsBody, MustSkipBody
    <3> QED BY <3>1
  <2> QED BY <2>1, <2>2, <2>3, LengthIs
<1> HIDE DEF p
<1>5. Read(m.dir, <<HeadOf(id, LengthOf(m), m)>> \o p, m.skip, limit, end) = r
  BY <1>1, <1>4, ReadIs
<1> QED BY <1>2, <1>4, <1>5, Zenon

(* Two messages that follow each other are read one by one, each with its  *)
(* own body and trailer, and one that is over the limit is reported        *)
(* (http.go, Write, ReadLimitBody and ContinueReadBody).                   *)
THEOREM MessagesAreReadBack ==
  ASSUME Sizes, NEW m1 \in Writable, NEW m2 \in Writable, m1.dir = m2.dir
  PROVE  MessagesAreOwn(m1, m2)
<1> SUFFICES ASSUME ~Identity(m1), ~Write(1, m1).error, ~Write(2, m2).error
             PROVE  LET r1 == Read(m1.dir, InTurn(m1, m2), m1.skip, m1.actual, "open")
                        r2 == Read(m1.dir, r1.rest, m2.skip, m2.actual, "eof")
                        less == Read(m1.dir, InTurn(m1, m2), m1.skip, m1.actual - 1, "open")
                    IN  /\ IsOwn(r1, 1, m1, Write(2, m2).tokens) /\ IsOwn(r2, 2, m2, <<>>)
                        /\ m1.actual > 1 /\ Sent(1, m1) # <<>> => less.error = "ErrBodyTooLarge"
  BY Zenon DEF MessagesAreOwn
<1> DEFINE t == Write(2, m2).tokens
           r1 == Read(m1.dir, InTurn(m1, m2), m1.skip, m1.actual, "open")
           r2 == Read(m1.dir, r1.rest, m2.skip, m2.actual, "eof")
           less == Read(m1.dir, InTurn(m1, m2), m1.skip, m1.actual - 1, "open")
<1>1. t \in Seq(Token) /\ <<>> \in Seq(Token)
  <2>1. <<>> \in Seq(Token) BY EmptySeq
  <2>2. 2 \in Nat OBVIOUS
  <2> QED BY <2>1, <2>2, HeadThenBody
<1>2. /\ m1.actual \in Nat /\ ~Exceeds(m1.actual, m1.actual)
      /\ m2.actual \in Nat /\ ~Exceeds(m2.actual, m2.actual)
  BY MessageIs DEF Exceeds
<1>3. "open" \in Ends /\ "eof" \in Ends /\ 1 \in Nat /\ 2 \in Nat BY DEF Ends
<1>4. InTurn(m1, m2) = Write(1, m1).tokens \o t BY DEF InTurn
<1> HIDE DEF t
<1>5. IsOwn(r1, 1, m1, t) BY <1>1, <1>2, <1>3, <1>4, OwnIsRead
<1>6. IsOwn(r2, 2, m2, <<>>)
  <2>1. r1.rest = t BY <1>5 DEF IsOwn
  <2>2. t = t \o <<>> BY <1>1, ConcatEmptySeq
  <2>3. IsOwn(Read(m2.dir, Write(2, m2).tokens \o <<>>, m2.skip, m2.actual, "eof"), 2, m2, <<>>)
    BY <1>1, <1>2, <1>3, OwnIsRead
  <2> HIDE DEF r1
  <2> QED BY <2>1, <2>2, <2>3, Zenon DEF t
<1>7. ASSUME m1.actual > 1, Sent(1, m1) # <<>> PROVE less.error = "ErrBodyTooLarge"
  <2>1. m1.actual - 1 \in Nat /\ Exceeds(m1.actual, m1.actual - 1) BY <1>2, <1>7 DEF Exceeds
  <2>2. SendsBody(m1) BY <1>3, <1>7, OwnIs
  <2> QED BY <1>1, <1>3, <1>4, <2>1, <2>2, LimitHolds
<1> QED BY <1>5, <1>6, <1>7, Zenon DEF t
-----------------------------------------------------------------------------
(* Bodies that their handlers read *)

(* Not more than the body comes with the header. *)
LEMMA PrefetchedIs ==
  ASSUME Sizes, NEW s, NEW n \in Nat, NEW limit \in Nat, NEW available \in Nat,
         Len(s) \in Nat, limit < n => available <= n
  PROVE  Prefetched(s, n, limit, available) <= n
<1> DEFINE len == Len(s)
<1>1. len \in Nat OBVIOUS
<1> HIDE DEF len
<1>2. CASE n <= limit
  <2>1. Prefetched(s, n, limit, available) = Least(n, Prefetch)
    BY <1>2, Zenon DEF Prefetched
  <2> QED BY <2>1 DEF Least, Sizes
<1>3. CASE ~(n <= limit)
  <2> DEFINE least == Least(limit, Prefetch)
             read == IF available > least THEN available ELSE least + 1
  <2>1. Prefetched(s, n, limit, available) = Least(len, read)
    BY <1>3, Zenon DEF Prefetched, len
  <2>2. least \in Nat /\ least <= limit BY DEF Least, Sizes
  <2> HIDE DEF least
  <2>3. read \in Nat /\ read <= n BY <1>3, <2>2
  <2> HIDE DEF read
  <2> QED BY <1>1, <2>1, <2>3 DEF Least
<1> QED BY <1>2, <1>3

LEMMA StreamRead ==
  ASSUME Sizes, NEW id \in Nat, NEW n \in Nat, NEW t \in Seq(Token), NEW limit \in Nat,
         NEW available \in Nat, limit < n => available <= n, NEW end
  PROVE  ReadStream(Units(id, n) \o t, n, limit, available, end) = Result("none", Units(id, n), t)
<1> DEFINE u == Units(id, n)
           s == u \o t
           pre == Prefetched(s, n, limit, available)
<1>1. u \in Seq(Token) /\ Len(u) = n BY UnitsAre
<1> HIDE DEF u
<1>2. Len(s) \in Nat /\ n <= Len(s)
  <2>1. Len(s) = n + Len(t) /\ Len(t) \in Nat BY <1>1, ConcatProperties, LenProperties
  <2> HIDE DEF s
  <2> QED BY <2>1
<1>3. First(n, s) = u /\ After(n, s) = t
  <2>1. First(Len(u), u \o t) = u /\ After(Len(u), u \o t) = t BY <1>1, FirstAfterConcat
  <2> QED BY <1>1, <2>1
<1> HIDE DEF s
<1>4. pre <= n BY <1>2, PrefetchedIs
<1>5. pre \in Int
  <2>1. Least(n, Prefetch) \in Int /\ Least(limit, Prefetch) \in Int BY DEF Least, Sizes
  <2>2. \A a, b \in Int : Least(a, b) \in Int BY DEF Least
  <2>3. CASE n <= limit BY <2>1, <2>3, Zenon DEF Prefetched
  <2>4. CASE ~(n <= limit)
    <3> DEFINE least == Least(limit, Prefetch)
               read == IF available > least THEN available ELSE least + 1
    <3>1. pre = Least(Len(s), read) BY <2>4, Zenon DEF Prefetched
    <3> HIDE DEF least, pre
    <3>2. read \in Int BY <2>1 DEF least
    <3> HIDE DEF read
    <3> QED BY <1>2, <2>2, <3>1, <3>2
  <2> QED BY <2>3, <2>4
<1> HIDE DEF pre
<1>6. ~(Len(s) < pre) /\ ~(pre > n) /\ ~(Len(s) < n) /\ Least(n, Len(s)) = n
  BY <1>2, <1>4, <1>5 DEF Least
<1>7. ReadStream(s, n, limit, available, end) = Result("none", First(n, s), After(n, s))
  BY <1>6, Zenon DEF ReadStream, pre
<1> QED BY <1>3, <1>7, Zenon DEF u, s

LEMMA StreamIsRead ==
  ASSUME Sizes, NEW id \in Nat, NEW m \in Writable, m.dir = "request", ~Write(id, m).error,
         NEW t \in Seq(Token), NEW limit \in Nat, NEW available \in Nat,
         limit < m.actual /\ LengthOf(m) # Chunked => available <= m.actual,
         NEW end \in Ends
  PROVE  IsOwn(ContinueReadBodyStream(Write(id, m).tokens \o t, limit, available, end), id, m, t)
<1> DEFINE p == Payload(id, m) \o t
           s == <<HeadOf(id, LengthOf(m), m)>> \o p
           n == LengthOf(m)
           r == ContinueReadBodyStream(s, limit, available, end)
<1>1. p \in Seq(Token)
  <2> DEFINE q == Payload(id, m)
  <2>1. q \in Seq(Token) BY PayloadIs
  <2> HIDE DEF q
  <2>2. q \o t \in Seq(Token) BY <2>1, ConcatProperties
  <2> QED BY <2>2 DEF q
<1>2. SUFFICES IsOwn(r, id, m, t)
  <2>1. Write(id, m).tokens \o t = s BY HeadThenBody
  <2> HIDE DEF s
  <2> QED BY <2>1
<1>3. SendsBody(m) /\ m.actual \in Nat /\ ~Identity(m)
  BY MessageIs DEF SendsBody, Identity
<1> HIDE DEF p
<1>4. IsHead(s) /\ s[1][3] = n /\ Tail(s) = p BY <1>1, HeadRead
<1> HIDE DEF s, n
<1>5. n \in Nat \cup {Chunked, NoLength} /\ Chunked # NoLength
      /\ (n \in Nat => n # Chunked /\ n # NoLength)
  BY LengthIs DEF n
<1>6. Sent(id, m) = Units(id, m.actual)
      /\ Lines(id, m) = IF n = Chunked THEN LinesOf(id, m) ELSE <<>>
  BY <1>3, OwnIs DEF n
<1>7. ASSUME r = Result("none", Units(id, m.actual), t), n # Chunked
      PROVE  IsOwn(r, id, m, t)
  <2> HIDE DEF r
  <2>1. r.error = "none" /\ r.body = Units(id, m.actual) /\ r.lines = <<>> /\ r.rest = t
    BY <1>7, ResultIs
  <2> QED BY <1>6, <1>7, <2>1, Zenon DEF IsOwn
<1>8. CASE n = NoLength
  <2>1. m.actual = 0
    BY <1>3, <1>8, MessageIs DEF LengthOf, NoLength, Chunked, n
  <2>2. Units(id, m.actual) = <<>> BY <2>1, NoUnits
  <2>3. p = <<>> \o t BY <1>3, <1>5, <1>8, <2>2, Zenon DEF Payload, p, n
  <2>4. p = t BY <2>3, ConcatEmptySeq
  <2>5. r = Result("none", <<>>, t) BY <1>4, <1>5, <1>8, <2>4, Zenon DEF ContinueReadBodyStream
  <2> HIDE DEF r
  <2>6. r = Result("none", Units(id, m.actual), t) BY <2>2, <2>5
  <2> QED BY <1>5, <1>7, <1>8, <2>6, Zenon
<1>9. CASE n = Chunked
  <2> DEFINE q == ChunkedThen(id, m, m.actual, t)
             c == ReadChunked(q, 0, end)
  <2>1. p = q BY <1>3, <1>9, Zenon DEF Payload, ChunkedThen, p, n
  <2>2. ~Exceeds(m.actual, 0) /\ 0 \in Nat BY DEF Exceeds
  <2>3. Gives(c, Units(id, m.actual), LinesOf(id, m), t) BY <1>3, <2>2, ChunkedRead
  <2> HIDE DEF q
  <2>4. r = c BY <1>4, <1>5, <1>9, <2>1, Zenon DEF ContinueReadBodyStream
  <2> HIDE DEF r, c
  <2>5. IsOwn(r, id, m, t) BY <1>6, <1>9, <2>3, <2>4, Zenon DEF Gives, IsOwn
  <2> QED BY <2>5
<1>10. CASE n \in Nat
  <2>1. n = m.actual
    <3>1. CASE m.stream BY <1>3, <1>10, <3>1, WriteIs DEF n
    <3>2. CASE ~m.stream BY <1>5, <1>10, <3>2 DEF LengthOf, n
    <3> QED BY <3>1, <3>2
  <2>2. p = Units(id, m.actual) \o t BY <1>3, <1>5, <1>10, Zenon DEF Payload, p, n
  <2>3. ReadStream(Units(id, m.actual) \o t, m.actual, limit, available, end)
          = Result("none", Units(id, m.actual), t)
    <3>1. limit < m.actual => available <= m.actual BY <1>5, <1>10 DEF n
    <3> QED BY <1>3, <3>1, StreamRead
  <2>4. r = ReadStream(p, m.actual, limit, available, end)
    BY <1>4, <1>5, <1>10, <2>1, Zenon DEF ContinueReadBodyStream
  <2> HIDE DEF r
  <2>5. r = Result("none", Units(id, m.actual), t) BY <2>2, <2>3, <2>4, Zenon
  <2> QED BY <1>5, <1>7, <1>10, <2>5, Zenon
<1> QED BY <1>5, <1>8, <1>9, <1>10

(* A handler that reads its body to the end gets that body, and the next   *)
(* request starts where it ends, however much has come with the header,    *)
(* but where the limit is smaller than the body and more than the body has *)
(* come (http.go, ContinueReadBodyStream; streaming.go).                   *)
THEOREM StreamsAreReadBack ==
  ASSUME Sizes, NEW m1 \in Writable, NEW m2 \in Writable,
         NEW limit \in Nat, NEW available \in Nat
  PROVE  StreamedBodiesAreOwn(m1, m2, limit, available)
<1> DEFINE t == Write(2, m2).tokens
           overread == limit < m1.actual /\ available > m1.actual
                         /\ Write(1, m1).tokens[1][3] # Chunked
<1>1. SUFFICES ASSUME m1.dir = "request", ~Write(1, m1).error, ~overread
               PROVE  IsOwn(ContinueReadBodyStream(InTurn(m1, m2), limit, available, "open"), 1, m1, t)
  BY Zenon DEF StreamedBodiesAreOwn
<1>2. 1 \in Nat /\ 2 \in Nat /\ "open" \in Ends BY DEF Ends
<1>3. t \in Seq(Token)
  <2>1. <<>> \in Seq(Token) BY EmptySeq
  <2> QED BY <1>2, <2>1, HeadThenBody
<1>4. InTurn(m1, m2) = Write(1, m1).tokens \o t BY DEF InTurn
<1>5. limit < m1.actual /\ LengthOf(m1) # Chunked => available <= m1.actual
  <2>1. Write(1, m1).tokens[1][3] = LengthOf(m1) BY <1>2, OwnIs
  <2>2. m1.actual \in Nat BY MessageIs
  <2> QED BY <1>1, <2>1, <2>2
<1> HIDE DEF t
<1> QED BY <1>1, <1>2, <1>3, <1>4, <1>5, StreamIsRead
-----------------------------------------------------------------------------
(* Connections that end early *)

LEMMA UnexpectedIs ==
  ASSUME NEW end \in Ends
  PROVE  /\ end # "none" /\ Unexpected(end) # "none"
         /\ end # "reset" => Unexpected(end) # "reset"
BY DEF Ends, Unexpected

(* What a cut leaves of a body with a known length is too short for it. *)
LEMMA TooShort ==
  ASSUME Sizes, NEW id \in Nat, NEW m \in Writable, LengthOf(m) \in Nat, SendsBody(m),
         NEW c \in 0 .. Len(Payload(id, m)),
         c = Len(Payload(id, m)) => Write(id, m).error,
         ~(m.stream /\ m.size \in 0 .. m.actual - 1)
  PROVE  Len(First(c, Payload(id, m))) = c /\ c < LengthOf(m)
<1>1. LengthOf(m) # Chunked /\ m.actual \in Nat /\ m.size \in Int BY LengthIs, MessageIs
<1>2. Payload(id, m) = Units(id, m.actual) BY <1>1, Zenon DEF Payload
<1>3. Payload(id, m) \in Seq(Token) /\ Len(Payload(id, m)) = m.actual
  <2>1. Units(id, m.actual) \in Seq(Token) /\ Len(Units(id, m.actual)) = m.actual
    BY <1>1, UnitsAre
  <2> QED BY <1>2, <2>1, Zenon
<1>4. Len(First(c, Payload(id, m))) = c
  <2> DEFINE s == Payload(id, m)
  <2>1. s \in Seq(Token) /\ c \in 0 .. Len(s) BY <1>3
  <2> HIDE DEF s
  <2>2. Len(First(c, s)) = c BY <2>1, FirstAfterTyped, Zenon
  <2> QED BY <2>2 DEF s
<1>5. LengthOf(m) >= m.actual
  <2>1. CASE m.stream
    <3>1. LengthOf(m) = m.size BY <2>1, LengthIs, MessageIs DEF LengthOf, NoLength, Chunked
    <3> QED BY <1>1, <2>1, <3>1
  <2>2. CASE ~m.stream
    <3>1. LengthOf(m) = m.actual BY <2>2, LengthIs DEF LengthOf
    <3> QED BY <1>1, <3>1
  <2> QED BY <2>1, <2>2
<1>6. c = m.actual => LengthOf(m) # m.actual
  <2>1. Write(id, m).error => m.actual # LengthOf(m) BY WriteIs
  <2> QED BY <1>3, <2>1
<1> QED BY <1>1, <1>3, <1>4, <1>5, <1>6

(* Of chunks that were cut off either the chunks are noticed to be, or the *)
(* body is whole and only the trailer is not.                              *)
LEMMA ChunkedCut ==
  ASSUME Sizes, NEW id \in Nat, NEW m \in Writable, NEW n \in Nat,
         NEW c \in 0 .. Len(WriteBodyChunked(id, n) \o WriteTrailer(id, m)), NEW end \in Ends
  PROVE  LET r == ReadChunked(First(c, WriteBodyChunked(id, n) \o WriteTrailer(id, m)), 0, end)
         IN  \/ r.error = Unexpected(end)
             \/ r.body = Units(id, n) /\ (end # "reset" => r.error # "reset")
<1> DEFINE w == WriteBodyChunked(id, n)
           e == WriteTrailer(id, m)
           p == First(c, w \o e)
           r == ReadChunked(p, 0, end)
<1>1. w \in Seq(Token) BY ChunksAre
<1>2. e \in Seq(Token)
  <2>1. <<>> \in Seq(Token) BY EmptySeq
  <2> QED BY <2>1, TrailerIs
<1>3. end \in {"open", "eof", "reset"} /\ Unexpected(end) # "none" BY UnexpectedIs DEF Ends
<1>4. c \in 0 .. Len(w) + Len(e) /\ Len(w) \in Nat /\ Len(e) \in Nat
  <2>1. c \in 0 .. Len(w \o e) OBVIOUS
  <2> HIDE DEF w, e
  <2>2. Len(w \o e) = Len(w) + Len(e) BY <1>1, <1>2, ConcatProperties
  <2> QED BY <1>1, <1>2, <2>1, <2>2, LenProperties
<1>5. CASE c < Len(w)
  <2>1. p = First(c, w)
    <3>1. c <= Len(w) BY <1>5, <1>4
    <3> HIDE DEF w, e
    <3> QED BY <1>1, <1>2, <1>4, <3>1, FirstOfConcat
  <2>2. ReadChunks(First(c, w), 0, end).error = Unexpected(end)
    <3>1. c \in Nat
      <4> HIDE DEF w, e
      <4> QED BY <1>4
    <3>2. end \in {"open", "eof", "reset"} BY DEF Ends
    <3>3. c < Len(w) BY <1>5
    <3> QED BY <3>1, <3>2, <3>3, CutChunksAreNoticed
  <2> HIDE DEF p, w
  <2>3. r = ReadChunks(p, 0, end) BY <1>3, <2>1, <2>2, Zenon DEF ReadChunked
  <2>4. r.error = Unexpected(end) BY <2>1, <2>2, <2>3
  <2> QED BY <2>4, Zenon DEF p, w
<1>6. CASE ~(c < Len(w))
  <2> DEFINE d == c - Len(w)
             t == First(d, e)
  <2>1. d \in 0 .. Len(e)
    <3> HIDE DEF w, e
    <3> QED BY <1>4, <1>6
  <2>2. t \in Seq(Token)
    <3> HIDE DEF d, e
    <3> QED BY <1>2, <2>1, FirstAfterTyped
  <2>3. p = w \o t
    <3>1. c >= Len(w) BY <1>4, <1>6
    <3> HIDE DEF w, e
    <3> QED BY <1>1, <1>2, <1>4, <3>1, FirstOfConcat
  <2> HIDE DEF t, d
  <2>4. ReadChunks(w \o t, 0, end) = Result("none", Units(id, n), t)
    <3>1. ~Exceeds(n, 0) /\ 0 \in Nat BY DEF Exceeds
    <3> QED BY <2>2, <3>1, ChunksAreRead
  <2> HIDE DEF w, p
  <2>5. Result("none", Units(id, n), t).error = "none" BY ResultIs
  <2>6. r = ReadTrailer(Result("none", Units(id, n), t), end)
    BY <2>3, <2>4, <2>5, Zenon DEF ReadChunked
  <2>7. r.body = Units(id, n) /\ (end # "reset" => r.error # "reset")
    BY <2>6, TrailerKeepsBody
  <2> QED BY <2>7, Zenon DEF p, w
<1> QED BY <1>5, <1>6

LEMMA BodyCut ==
  ASSUME Sizes, NEW id \in Nat, NEW m \in Writable, ~Identity(m),
         NEW c \in 0 .. Len(Payload(id, m)),
         c = Len(Payload(id, m)) => Write(id, m).error,
         ~(m.stream /\ m.size \in 0 .. m.actual - 1), NEW end \in Ends
  PROVE  LET r == BodyRead(m, LengthOf(m), First(c, Payload(id, m)), 0, end)
         IN  \/ r.error = Unexpected(end)
             \/ r.body = Sent(id, m) /\ (end # "reset" => r.error # "reset")
<1> DEFINE n == LengthOf(m)
           p == First(c, Payload(id, m))
           r == BodyRead(m, n, p, 0, end)
<1>1. /\ n \in Nat \cup {Chunked, NoLength} /\ Chunked # NoLength
      /\ n \in Nat => n # Chunked /\ n # NoLength
      /\ m.actual \in Nat
  BY LengthIs, MessageIs
<1>2. Sent(id, m) = IF SendsBody(m) THEN Units(id, m.actual) ELSE <<>> BY OwnIs
<1> SUFFICES \/ r.error = Unexpected(end)
             \/ r.body = Sent(id, m) /\ (end # "reset" => r.error # "reset")
  OBVIOUS
<1>3. CASE ~SendsBody(m)
  <2> HIDE DEF p
  <2>1. CASE n = Chunked
    <3>1. r = ReadTrailer(Result("none", <<>>, p), end) BY <1>3, <2>1, Zenon DEF BodyRead
    <3> HIDE DEF r
    <3>2. r.body = <<>> /\ (end # "reset" => r.error # "reset") BY <3>1, TrailerKeepsBody
    <3> QED BY <1>2, <1>3, <3>2
  <2>2. CASE n # Chunked
    <3>1. r = Result("none", <<>>, p) BY <1>3, <2>2, Zenon DEF BodyRead
    <3> HIDE DEF r
    <3>2. r.body = <<>> /\ r.error = "none" BY <3>1, ResultIs
    <3> QED BY <1>2, <1>3, <3>2
  <2> QED BY <2>1, <2>2
<1>4. CASE SendsBody(m) /\ n = Chunked
  <2> DEFINE q == WriteBodyChunked(id, m.actual) \o WriteTrailer(id, m)
  <2>1. Payload(id, m) = q BY <1>4, Zenon DEF Payload
  <2>2. LET k == ReadChunked(First(c, q), 0, end)
        IN  \/ k.error = Unexpected(end)
            \/ k.body = Units(id, m.actual) /\ (end # "reset" => k.error # "reset")
    <3>1. c \in 0 .. Len(q)
      <4> HIDE DEF q
      <4> QED BY <2>1
    <3> QED BY <1>1, <3>1, ChunkedCut
  <2> HIDE DEF q
  <2>3. r = ReadChunked(First(c, q), 0, end) BY <1>4, <2>1, Zenon DEF BodyRead
  <2> HIDE DEF r
  <2> QED BY <1>2, <1>4, <2>2, <2>3
<1>5. CASE SendsBody(m) /\ n \in Nat
  <2>1. Len(p) = c /\ c < n BY <1>5, TooShort
  <2> HIDE DEF p
  <2>2. Len(p) < n BY <2>1
  <2>3. ~Exceeds(n, 0) BY DEF Exceeds
  <2>4. AppendBodyFixedSize(p, n, end) = Result(Unexpected(end), p, <<>>)
    BY <2>2, Zenon DEF AppendBodyFixedSize
  <2>5. r = Result(Unexpected(end), p, <<>>)
    BY <1>1, <1>5, <2>3, <2>4, Zenon DEF BodyRead, ReadBodyFixed
  <2> HIDE DEF r
  <2>6. r.error = Unexpected(end) BY <2>5, ResultIs
  <2> QED BY <2>6
<1>6. CASE SendsBody(m) /\ n = NoLength
  <2>1. m.dir = "request" /\ m.actual = 0
    BY <1>6, MessageIs DEF LengthOf, NoLength, Chunked, SendsBody, MustSkipBody
  <2>2. Units(id, m.actual) = <<>> BY <2>1, NoUnits
  <2> HIDE DEF p
  <2>3. r = Result("none", <<>>, p) BY <1>1, <1>6, <2>1, Zenon DEF BodyRead
  <2> HIDE DEF r
  <2>4. r.body = <<>> /\ r.error = "none" BY <2>3, ResultIs
  <2> QED BY <1>2, <1>6, <2>2, <2>4
<1> QED BY <1>1, <1>3, <1>4, <1>5, <1>6

(* The same of a request whose body its handler reads. *)
LEMMA StreamCut ==
  ASSUME Sizes, NEW id \in Nat, NEW m \in Writable, m.dir = "request",
         NEW c \in 0 .. Len(Payload(id, m)),
         c = Len(Payload(id, m)) => Write(id, m).error,
         ~(m.stream /\ m.size \in 0 .. m.actual - 1), NEW end \in Ends,
         ~(end = "eof" /\ LengthOf(m) > Prefetch)
  PROVE  LET r == ContinueReadBodyStream(
                    <<HeadOf(id, LengthOf(m), m)>> \o First(c, Payload(id, m)),
                    Prefetch, Prefetch, end)
         IN  r.error = "none" => r.body = Sent(id, m)
<1> DEFINE n == LengthOf(m)
           p == First(c, Payload(id, m))
           s == <<HeadOf(id, LengthOf(m), m)>> \o p
           r == ContinueReadBodyStream(s, Prefetch, Prefetch, end)
<1>1. SendsBody(m) /\ ~Identity(m) BY DEF SendsBody, Identity
<1>2. /\ n \in Nat \cup {Chunked, NoLength} /\ Chunked # NoLength
      /\ n \in Nat => n # Chunked /\ n # NoLength
  BY LengthIs
<1>3. p \in Seq(Token)
  <2>1. Payload(id, m) \in Seq(Token) BY PayloadIs
  <2> QED BY <2>1, FirstAfterTyped
<1>4. end # "none" /\ Unexpected(end) # "none" BY UnexpectedIs
<1>5. LET b == BodyRead(m, n, p, 0, end)
      IN  \/ b.error = Unexpected(end)
          \/ b.body = Sent(id, m) /\ (end # "reset" => b.error # "reset")
  BY <1>1, BodyCut
<1>6. n \in Nat => Len(p) = c /\ c < n BY <1>1, TooShort
<1> HIDE DEF p
<1>7. IsHead(s) /\ s[1][3] = n /\ Tail(s) = p BY <1>3, HeadRead
<1> HIDE DEF s
<1> SUFFICES r.error = "none" => r.body = Sent(id, m) BY DEF s, p
<1>8. CASE n = Chunked
  <2>1. r = ReadChunked(p, 0, end) BY <1>2, <1>7, <1>8, Zenon DEF ContinueReadBodyStream
  <2>2. BodyRead(m, n, p, 0, end) = ReadChunked(p, 0, end) BY <1>1, <1>8, Zenon DEF BodyRead
  <2> HIDE DEF r
  <2> QED BY <1>4, <1>5, <2>1, <2>2
<1>9. CASE n = NoLength
  <2>1. r = Result("none", <<>>, p) BY <1>2, <1>7, <1>9, Zenon DEF ContinueReadBodyStream
  <2>2. BodyRead(m, n, p, 0, end) = Result("none", <<>>, p)
    BY <1>1, <1>2, <1>9, Zenon DEF BodyRead
  <2> HIDE DEF r
  <2> QED BY <1>4, <1>5, <2>1, <2>2
<1>10. CASE n \in Nat
  <2> DEFINE pre == Prefetched(p, n, Prefetch, Prefetch)
  <2>1. r = ReadStream(p, n, Prefetch, Prefetch, end)
    BY <1>2, <1>7, <1>10, Zenon DEF ContinueReadBodyStream
  <2>2. Len(p) < n BY <1>6, <1>10
  <2>3. CASE n <= Prefetch
    <3>1. pre = Least(n, Prefetch) BY <2>3, Zenon DEF Prefetched
    <3>2. pre = n BY <1>10, <2>3, <3>1 DEF Least, Sizes
    <3>3. r = Result(Unexpected(end), p, <<>>) BY <2>1, <2>2, <2>3, <3>2, Zenon DEF ReadStream
    <3> HIDE DEF r
    <3>4. r.error = Unexpected(end) BY <3>3, ResultIs
    <3> QED BY <1>4, <3>4
  <2>4. CASE ~(n <= Prefetch)
    <3>1. n > Prefetch BY <1>10, <2>4 DEF Sizes
    <3>2. end # "eof" BY <3>1
    <3>3. r = Result("panic", First(pre, p), After(pre, p)) \/ r = Result(end, p, <<>>)
      <4>1. CASE pre > n BY <2>1, <2>4, <4>1, Zenon DEF ReadStream
      <4>2. CASE ~(pre > n) BY <2>1, <2>2, <2>4, <3>2, <4>2, Zenon DEF ReadStream
      <4> QED BY <4>1, <4>2
    <3> HIDE DEF r, pre
    <3>4. r.error \in {"panic", end} BY <3>3, ResultIs
    <3> QED BY <1>4, <3>4
  <2> QED BY <2>3, <2>4
<1> QED BY <1>2, <1>8, <1>9, <1>10

(* A message of which a part is missing is not taken for a whole one,      *)
(* wherever it was cut off, but in the cases CutIsNoticed names (http.go,  *)
(* appendBodyFixedSize and readBodyChunked; streaming.go, Read).           *)
THEOREM CutsAreAlwaysNoticed ==
  ASSUME Sizes, NEW m \in Writable, NEW cut \in 0 .. Len(Write(1, m).tokens), NEW end \in Ends,
         NEW streamed \in BOOLEAN, streamed => m.dir = "request"
  PROVE  CutIsNoticed(m, cut, end, streamed)
<1> DEFINE w == Write(1, m)
           s == First(cut, w.tokens)
           r == IF streamed THEN ContinueReadBodyStream(s, Prefetch, Prefetch, end)
                ELSE Read(m.dir, s, m.skip, 0, end)
           head == <<HeadOf(1, LengthOf(m), m)>>
           body == Payload(1, m)
           c == cut - 1
           p == First(c, body)
<1>1. SUFFICES ASSUME ~(cut = Len(w.tokens) /\ ~w.error),
                      ~(m.stream /\ m.size \in 0 .. m.actual - 1), r.error = "none",
                      ~Identity(m), m.dir = "response" => end # "reset",
                      ~(streamed /\ end = "eof" /\ s[1][3] > Prefetch)
               PROVE  r.body = Sent(1, m)
  BY Zenon DEF CutIsNoticed
<1>2. 1 \in Nat /\ m.dir \in {"request", "response"} BY MessageIs
<1>3. end # "none" /\ Unexpected(end) # "none" /\ (end # "reset" => Unexpected(end) # "reset")
  BY UnexpectedIs
<1>4. /\ body \in Seq(Token) /\ head \in Seq(Token) /\ Len(head) = 1
      /\ w.tokens = head \o body
  <2>1. body \in Seq(Token) BY <1>2, PayloadIs
  <2>2. HeadOf(1, LengthOf(m), m) \in Token BY <1>2, HeadIs
  <2>3. head \in Seq(Token) /\ Len(head) = 1 BY <2>2
  <2>4. w.tokens = head \o body BY <1>2, WriteIs
  <2> QED BY <2>1, <2>3, <2>4
<1>5. Len(w.tokens) = 1 + Len(body) /\ Len(body) \in Nat
  <2> HIDE DEF w, head, body
  <2> QED BY <1>4, ConcatProperties, LenProperties
<1>6. CASE cut = 0
  <2>1. s = <<>> BY <1>6, SubSeqEmpty DEF First
  <2> HIDE DEF s
  <2>2. ~IsHead(s) BY <2>1 DEF IsHead
  <2>3. NoHead(s, end) = Result(end, <<>>, s) BY <2>1, Zenon DEF NoHead
  <2>4. ContinueReadBodyStream(s, Prefetch, Prefetch, end) = NoHead(s, end)
    BY <2>2, Zenon DEF ContinueReadBodyStream
  <2>5. Read(m.dir, s, m.skip, 0, end) = NoHead(s, end)
    BY <2>2, Zenon DEF Read, ReadResponse, ReadLimitBody, ContinueReadBody
  <2>6. r = Result(end, <<>>, s) BY <2>3, <2>4, <2>5, Zenon
  <2> HIDE DEF r
  <2>7. r.error = end BY <2>6, ResultIs
  <2> QED BY <1>1, <1>3, <2>7
<1>7. CASE cut # 0
  <2>1. c \in 0 .. Len(body)
    <3>1. cut \in 0 .. Len(w.tokens) OBVIOUS
    <3> HIDE DEF w, body
    <3> QED BY <1>5, <1>7, <3>1
  <2>2. s = head \o p
    <3>1. cut \in 0 .. Len(head) + Len(body) /\ cut >= Len(head)
      <4>1. cut \in 0 .. Len(w.tokens) OBVIOUS
      <4> HIDE DEF w, body, head
      <4> QED BY <1>4, <1>5, <1>7, <4>1
    <3> HIDE DEF w, body, head
    <3>2. First(cut, head \o body) = head \o First(cut - Len(head), body)
      BY <1>4, <3>1, FirstOfConcat
    <3> QED BY <1>4, <3>2
  <2>3. c = Len(body) => w.error
    <3> HIDE DEF w, body
    <3> QED BY <1>1, <1>5, <2>1
  <2>4. p \in Seq(Token)
    <3> HIDE DEF body, c
    <3> QED BY <1>4, <2>1, FirstAfterTyped
  <2>5. CASE streamed
    <3>1. m.dir = "request" BY <2>5
    <3>2. s[1][3] = LengthOf(m)
      <4> HIDE DEF p, s
      <4> QED BY <1>2, <2>2, <2>4, HeadRead
    <3>3. ~(end = "eof" /\ LengthOf(m) > Prefetch) BY <1>1, <2>5, <3>2
    <3> DEFINE t == ContinueReadBodyStream(head \o p, Prefetch, Prefetch, end)
    <3>4. t.error = "none" => t.body = Sent(1, m)
      <4> HIDE DEF c
      <4> QED BY <1>1, <1>2, <2>1, <2>3, <3>1, <3>3, StreamCut
    <3> HIDE DEF head, p, s
    <3>5. r = t BY <2>2, <2>5
    <3> QED BY <1>1, <3>4, <3>5
  <2>6. CASE ~streamed
    <3> DEFINE b == BodyRead(m, LengthOf(m), p, 0, end)
    <3>1. \/ b.error = Unexpected(end)
          \/ b.body = Sent(1, m) /\ (end # "reset" => b.error # "reset")
      <4> HIDE DEF c
      <4> QED BY <1>1, <1>2, <2>1, <2>3, BodyCut
    <3>2. m.dir = "request" \/ b.error # "reset" BY <1>1, <1>2, <1>3, <3>1
    <3> HIDE DEF p
    <3>3. Read(m.dir, head \o p, m.skip, 0, end) = b BY <1>2, <2>4, <3>2, ReadIs
    <3> HIDE DEF b, s, head
    <3>4. r = b BY <2>2, <2>6, <3>3
    <3> QED BY <1>1, <1>3, <3>1, <3>4
  <2> QED BY <2>5, <2>6
<1> QED BY <1>6, <1>7

-----------------------------------------------------------------------------
(* What the runs send *)

(* The case that a behaviour has picked: two messages of one direction, a  *)
(* message and the place where it is cut off, or two requests of which the *)
(* first one's body is read by its handler (http.go, streaming.go).        *)
TwoPicked ==
  case.of = "two" =>
    /\ case.one \in Writable /\ case.other \in Writable
    /\ case.one.dir = case.other.dir
CutPicked ==
  case.of = "cut" =>
    /\ case.one \in Writable /\ case.cut \in 0 .. Len(Write(1, case.one).tokens)
    /\ case.end \in Ends /\ case.streamed \in BOOLEAN
    /\ case.streamed => case.one.dir = "request"
StreamPicked ==
  case.of = "streamed" =>
    /\ case.one \in Writable /\ case.other \in Writable
    /\ case.limit \in Nat /\ case.available \in Nat
CaseOK == TwoPicked /\ CutPicked /\ StreamPicked

LEMMA CaseInit == WireInit => CaseOK
BY DEF WireInit, CaseOK, TwoPicked, CutPicked, StreamPicked

LEMMA CaseStep == CaseOK /\ [WireNext]_case => CaseOK'
<1> SUFFICES ASSUME CaseOK, [WireNext]_case PROVE CaseOK' OBVIOUS
<1>1. CASE SendTwo
  <2>1. PICK p \in (Responses \X Responses) \cup (Requests \X Requests) :
          case' = [of |-> "two", one |-> p[1], other |-> p[2]]
    BY <1>1 DEF SendTwo
  <2>2. p[1] \in Writable /\ p[2] \in Writable /\ p[1].dir = p[2].dir
    BY <2>1, WireAssumption
  <2> QED BY <2>1, <2>2 DEF CaseOK, TwoPicked, CutPicked, StreamPicked
<1>2. CASE CutOff
  <2>1. PICK m \in Responses \cup Requests, end \in Ends, streamed \in BOOLEAN :
          /\ streamed => m.dir = "request"
          /\ \E cut \in 0 .. Len(Write(1, m).tokens) :
               case' = [of |-> "cut", one |-> m, cut |-> cut, end |-> end, streamed |-> streamed]
    BY <1>2 DEF CutOff
  <2>2. PICK cut \in 0 .. Len(Write(1, m).tokens) :
          case' = [of |-> "cut", one |-> m, cut |-> cut, end |-> end, streamed |-> streamed]
    BY <2>1
  <2>3. m \in Writable BY <2>1, WireAssumption
  <2>4. case'.one = m /\ case'.cut = cut /\ case'.end = end /\ case'.streamed = streamed
          /\ case'.of = "cut"
    BY <2>2
  <2>5. case'.cut \in 0 .. Len(Write(1, case'.one).tokens) BY <2>2, <2>4
  <2> QED BY <2>1, <2>3, <2>4, <2>5 DEF CaseOK, TwoPicked, CutPicked, StreamPicked
<1>3. CASE Streamed
  <2>1. PICK p \in Requests \X Requests, limit \in Limits, available \in Arrivals :
          case' = [of |-> "streamed", one |-> p[1], other |-> p[2], limit |-> limit,
                   available |-> available]
    BY <1>3 DEF Streamed
  <2>2. p[1] \in Writable /\ p[2] \in Writable BY <2>1, WireAssumption
  <2>3. limit \in Nat /\ available \in Nat BY <2>1, WireAssumption
  <2> QED BY <2>1, <2>2, <2>3 DEF CaseOK, TwoPicked, CutPicked, StreamPicked
<1>4. CASE UNCHANGED case BY <1>4 DEF CaseOK, TwoPicked, CutPicked, StreamPicked
<1> QED BY <1>1, <1>2, <1>3, <1>4 DEF WireNext

LEMMA CasesSurvive == CaseOK => MessagesSurvive
<1> SUFFICES ASSUME CaseOK PROVE MessagesSurvive OBVIOUS
<1>1. ASSUME case.of = "two" PROVE MessagesAreOwn(case.one, case.other)
  BY <1>1, SizesAssumption, MessagesAreReadBack DEF CaseOK, TwoPicked
<1>2. ASSUME case.of = "cut"
      PROVE  CutIsNoticed(case.one, case.cut, case.end, case.streamed)
  BY <1>2, SizesAssumption, CutsAreAlwaysNoticed DEF CaseOK, CutPicked
<1>3. ASSUME case.of = "streamed"
      PROVE  StreamedBodiesAreOwn(case.one, case.other, case.limit, case.available)
  BY <1>3, SizesAssumption, StreamsAreReadBack DEF CaseOK, StreamPicked
<1> QED BY <1>1, <1>2, <1>3 DEF MessagesSurvive

(* Whatever messages are written to a connection, of any length, in chunks *)
(* of any size, with whatever limits, and wherever the connection ends:    *)
(* each is read as it was written, the cut is noticed, and a handler gets  *)
(* its own body and no more (http.go, streaming.go).                       *)
THEOREM EveryMessageSurvives == WireSpec => []MessagesSurvive
<1>1. WireInit => CaseOK BY CaseInit
<1>2. CaseOK /\ [WireNext]_case => CaseOK' BY CaseStep
<1>3. CaseOK => MessagesSurvive BY CasesSurvive
<1> QED BY <1>1, <1>2, <1>3, PTL DEF WireSpec

-----------------------------------------------------------------------------
(* The parameters are read one by one: f[i] is what the first i come to. *)
Start == Outcome(NoTarget, Nil)

IsReading(f, n, params) ==
  f = [i \in 0 .. n |-> IF i = 0 THEN Start ELSE ReadNext(params, i, f[i - 1])]

LEMMA ReadingIs ==
  ASSUME NEW params, NEW n \in Nat, NEW f, IsReading(f, n, params)
  PROVE  /\ f[0] = Start
         /\ \A i \in 1 .. n : f[i] = ReadNext(params, i, f[i - 1])
<1>1. \A i \in 0 .. n : f[i] = IF i = 0 THEN Start ELSE ReadNext(params, i, f[i - 1])
  BY DEF IsReading
<1>2. f[0] = Start BY <1>1
<1>3. ASSUME NEW i \in 1 .. n PROVE f[i] = ReadNext(params, i, f[i - 1])
  <2>1. i \in 0 .. n /\ i # 0 OBVIOUS
  <2> QED BY <1>1, <2>1, Zenon
<1> QED BY <1>2, <1>3

LEMMA ReadingExists ==
  ASSUME NEW params, NEW n \in Nat
  PROVE  \E f : IsReading(f, n, params)
<1> DEFINE S == {m \in Nat : \E f : IsReading(f, m, params)}
<1>1. ASSUME NEW m \in Nat, \A k \in 0 .. m - 1 : k \in S PROVE m \in S
  <2>1. CASE m = 0
    <3> DEFINE g == [i \in 0 .. m |-> Start]
    <3>1. IsReading(g, m, params) BY <2>1 DEF IsReading
    <3> QED BY <3>1
  <2>2. CASE m # 0
    <3> DEFINE M == m - 1
    <3>1. M \in Nat /\ M \in 0 .. m - 1 /\ m = M + 1 BY <2>2
    <3> HIDE DEF M
    <3>2. PICK f : IsReading(f, M, params) BY <1>1, <3>1
    <3>3. f[0] = Start /\ \A i \in 1 .. M : f[i] = ReadNext(params, i, f[i - 1])
      BY <3>1, <3>2, ReadingIs, ZenonT(30)
    <3> DEFINE g == [i \in 0 .. m |-> IF i = m THEN ReadNext(params, m, f[M]) ELSE f[i]]
    <3>4. \A i \in 0 .. M : g[i] = f[i] BY <3>1
    <3>5. g[m] = ReadNext(params, m, f[M]) OBVIOUS
    <3>6. g = [i \in 0 .. m |-> g[i]] OBVIOUS
    <3> HIDE DEF g
    <3>7. g[0] = Start BY <3>1, <3>3, <3>4
    <3>8. ASSUME NEW i \in 1 .. m PROVE g[i] = ReadNext(params, i, g[i - 1])
      <4>1. CASE i = m
        <5>1. i - 1 = M /\ M \in 0 .. M BY <3>1, <4>1
        <5>2. g[i - 1] = f[M] BY <3>4, <5>1
        <5> QED BY <3>5, <4>1, <5>2
      <4>2. CASE i # m
        <5>1. i \in 1 .. M /\ i \in 0 .. M /\ i - 1 \in 0 .. M BY <3>1, <4>2
        <5>2. g[i] = f[i] /\ g[i - 1] = f[i - 1] BY <3>4, <5>1
        <5>3. f[i] = ReadNext(params, i, f[i - 1]) BY <3>3, <5>1
        <5> QED BY <5>2, <5>3
      <4> QED BY <4>1, <4>2
    <3>9. \A i \in 0 .. m : g[i] = IF i = 0 THEN Start ELSE ReadNext(params, i, g[i - 1])
      <4> TAKE i \in 0 .. m
      <4>1. CASE i = 0 BY <3>7, <4>1
      <4>2. CASE i # 0
        <5>1. i \in 1 .. m BY <4>2
        <5> QED BY <3>8, <4>2, <5>1
      <4> QED BY <4>1, <4>2
    <3>10. g = [i \in 0 .. m |-> IF i = 0 THEN Start ELSE ReadNext(params, i, g[i - 1])]
      <4> DEFINE R(i) == IF i = 0 THEN Start ELSE ReadNext(params, i, g[i - 1])
      <4>1. \A i \in 0 .. m : g[i] = R(i) BY <3>9
      <4> HIDE DEF R
      <4>2. g = [i \in 0 .. m |-> R(i)] BY <3>6, <4>1
      <4> QED BY <4>2 DEF R
    <3>11. IsReading(g, m, params) BY <3>10, Zenon DEF IsReading
    <3> QED BY <3>11
  <2> QED BY <2>1, <2>2
<1>2. S = Nat
  <2>1. S \in SUBSET Nat OBVIOUS
  <2> HIDE DEF S
  <2> QED BY <1>1, <2>1, Induction
<1> QED BY <1>2

LEMMA OptionsRead ==
  ASSUME NEW params \in Seq(Words)
  PROVE  \E f : IsReading(f, Len(params), params) /\ ReadOptions(params) = f[Len(params)]
<1> DEFINE n == Len(params)
           f == CHOOSE g : IsReading(g, n, params)
<1>1. n \in Nat BY LenProperties
<1>2. ReadOptions(params) = f[n] BY Zenon DEF ReadOptions, IsReading, Start
<1> HIDE DEF n
<1>3. IsReading(f, n, params) BY <1>1, ReadingExists
<1> QED BY <1>2, <1>3 DEF n

-----------------------------------------------------------------------------
(* What the first i parameters come to. *)
Plain == ValueOptions \ {"duration"}
Before(params, i, o) == {j \in Named(params, o) : j <= i}

TargetOK(t) ==
  /\ DOMAIN t = ValueOptions \cup FlagOptions
  /\ \A o \in Plain : t[o] \in Words \cup {Nil}
  /\ \A o \in FlagOptions : t[o] \in BOOLEAN
  /\ t["duration"] \in Int

HasValue(params, i, o, t) ==
  \/ Before(params, i, o) = {} /\ t[o] = Nil
  \/ \E j \in Before(params, i, o) :
       (\A k \in Before(params, i, o) : k <= j) /\ t[o] = params[j + 1]

HasFlag(params, i, o, t) == t[o] = TRUE <=> Before(params, i, o) # {}

HasRead(params, i, t) ==
  /\ \A o \in Plain : HasValue(params, i, o, t)
  /\ \A o \in FlagOptions : HasFlag(params, i, o, t)

ReadOK(params, i, out) ==
  /\ TargetOK(out.target)
  /\ out.error \in {Nil, "panic", "ErrInvalidParam", "ErrSyntax"}
  /\ out.error = Nil => HasRead(params, i, out.target)
  /\ out.error = "panic" => Len(params) % 2 = 1 /\ params[Len(params)] \in ValueOptions

LEMMA OutcomeIs ==
  ASSUME NEW t, NEW e
  PROVE  Outcome(t, e).target = t /\ Outcome(t, e).error = e
BY DEF Outcome

LEMMA ParamsAre ==
  ASSUME NEW params \in Seq(Words)
  PROVE  /\ Len(params) \in Nat /\ DOMAIN params = 1 .. Len(params)
         /\ \A i \in 1 .. Len(params) : params[i] \in Words
BY ElementOfSeq, LenProperties

LEMMA BeforeSkips ==
  ASSUME NEW params \in Seq(Words), NEW i \in 1 .. Len(params), NEW o,
         i % 2 = 0 \/ params[i] # o
  PROVE  Before(params, i, o) = Before(params, i - 1, o)
<1>1. i \notin Named(params, o)
  <2>1. i \in Nat OBVIOUS
  <2> QED BY <2>1 DEF Named, Names
<1>2. \A j \in Named(params, o) : j \in Int
  BY ParamsAre DEF Named, Names
<1>3. ASSUME NEW j \in Named(params, o) PROVE j <= i <=> j <= i - 1 BY <1>1, <1>2
<1> QED BY <1>3 DEF Before

LEMMA BeforeTakes ==
  ASSUME NEW params \in Seq(Words), NEW i \in 1 .. Len(params), i % 2 # 0
  PROVE  /\ i \in Before(params, i, params[i])
         /\ \A k \in Before(params, i, params[i]) : k <= i
<1>1. i % 2 = 1 OBVIOUS
<1>2. i \in DOMAIN params BY ParamsAre
<1> QED BY <1>1, <1>2 DEF Before, Named, Names

LEMMA DurationIs ==
  ASSUME NEW v \in DOMAIN Numbers
  PROVE  Duration(v) \in Int
<1> DEFINE p == 2^Width
           q == Numbers[v] * TimeSecond
           n == q % p
<1>1. p \in Nat \ {0} BY UsernameAssumption
<1>2. q \in Int
  <2>1. Numbers[v] \in Int /\ TimeSecond \in Int BY UsernameAssumption
  <2> QED BY <2>1
<1>3. n \in Int
  <2> HIDE DEF p, q
  <2> QED BY <1>1, <1>2
<1>4. Duration(v) = IF n >= 2^(Width - 1) THEN n - p ELSE n BY Zenon DEF Duration
<1> HIDE DEF n, p
<1> QED BY <1>1, <1>3, <1>4

LEMMA NothingRead ==
  ASSUME NEW params \in Seq(Words)
  PROVE  ReadOK(params, 0, Start)
<1>1. Start.target = NoTarget /\ Start.error = Nil BY OutcomeIs DEF Start
<1>2. TargetOK(NoTarget)
  <2>1. \A o \in Plain : NoTarget[o] = Nil
    BY DEF NoTarget, Plain, ValueOptions, FlagOptions
  <2>2. \A o \in FlagOptions : NoTarget[o] = FALSE
    BY DEF NoTarget, ValueOptions, FlagOptions
  <2>3. NoTarget["duration"] = 0
    BY DEF NoTarget, ValueOptions, FlagOptions
  <2>4. DOMAIN NoTarget = ValueOptions \cup FlagOptions BY DEF NoTarget
  <2>5. \A o \in FlagOptions : NoTarget[o] \in BOOLEAN BY <2>2, Zenon
  <2> QED BY <2>1, <2>3, <2>4, <2>5 DEF TargetOK
<1>3. \A o : Before(params, 0, o) = {} BY ParamsAre DEF Before, Named, Names
<1>4. /\ \A o \in Plain : NoTarget[o] = Nil
      /\ \A o \in FlagOptions : NoTarget[o] = FALSE
  BY DEF NoTarget, Plain, ValueOptions, FlagOptions
<1>5. HasRead(params, 0, NoTarget) BY <1>3, <1>4 DEF HasRead, HasValue, HasFlag
<1>6. Nil # "panic" BY UsernameAssumption
<1> QED BY <1>1, <1>2, <1>5, <1>6 DEF ReadOK

(* A parameter that says nothing of the options leaves them as they are. *)
LEMMA OthersStay ==
  ASSUME NEW params \in Seq(Words), NEW i \in 1 .. Len(params), NEW t, NEW u, NEW O,
         HasRead(params, i - 1, t),
         \A o \in Plain \cup FlagOptions :
           o \notin O => u[o] = t[o] /\ (i % 2 = 0 \/ params[i] # o)
  PROVE  /\ \A o \in Plain \ O : HasValue(params, i, o, u)
         /\ \A o \in FlagOptions \ O : HasFlag(params, i, o, u)
<1>1. \A o \in Plain \cup FlagOptions :
        o \notin O => Before(params, i, o) = Before(params, i - 1, o)
  BY BeforeSkips
<1>2. ASSUME NEW o \in Plain \ O PROVE HasValue(params, i, o, u)
  <2>1. HasValue(params, i - 1, o, t) BY DEF HasRead
  <2>2. u[o] = t[o] /\ Before(params, i, o) = Before(params, i - 1, o) BY <1>1
  <2> QED BY <2>1, <2>2 DEF HasValue
<1>3. ASSUME NEW o \in FlagOptions \ O PROVE HasFlag(params, i, o, u)
  <2>1. HasFlag(params, i - 1, o, t) BY DEF HasRead
  <2>2. u[o] = t[o] /\ Before(params, i, o) = Before(params, i - 1, o) BY <1>1
  <2> QED BY <2>1, <2>2 DEF HasFlag
<1> QED BY <1>2, <1>3

LEMMA NextRead ==
  ASSUME NEW params \in Seq(Words), NEW i \in 1 .. Len(params), NEW out,
         ReadOK(params, i - 1, out)
  PROVE  ReadOK(params, i, ReadNext(params, i, out))
<1> DEFINE o == params[i]
           v == params[i + 1]
           t == out.target
<1> o \in Words BY ParamsAre
<1>1. TargetOK(t) BY DEF ReadOK
<1>2. Nil # "panic" /\ Nil # "ErrInvalidParam" /\ Nil # "ErrSyntax" BY UsernameAssumption
<1>3. CASE out.error # Nil
  <2>1. ReadNext(params, i, out) = out BY <1>3 DEF ReadNext
  <2> QED BY <1>3, <2>1 DEF ReadOK
<1>4. CASE out.error = Nil /\ i % 2 = 0
  <2>1. ReadNext(params, i, out) = out BY <1>4 DEF ReadNext
  <2>2. HasRead(params, i - 1, t) BY <1>4 DEF ReadOK
  <2>3. HasRead(params, i, t)
    <3>1. /\ \A p \in Plain \ {} : HasValue(params, i, p, t)
          /\ \A p \in FlagOptions \ {} : HasFlag(params, i, p, t)
      BY <1>4, <2>2, OthersStay
    <3> QED BY <3>1 DEF HasRead
  <2> QED BY <1>1, <1>2, <1>4, <2>1, <2>3 DEF ReadOK
<1>5. CASE out.error = Nil /\ i % 2 # 0
  <2>1. ReadNext(params, i, out) = ReadOption(params, i, t) BY <1>5 DEF ReadNext
  <2>2. HasRead(params, i - 1, t) BY <1>5 DEF ReadOK
  <2>3. CASE o \in FlagOptions
    <3> DEFINE u == [t EXCEPT ![o] = TRUE]
    <3>1. ReadOption(params, i, t) = Outcome(u, Nil) BY <2>3 DEF ReadOption
    <3>2. TargetOK(u) /\ u[o] = TRUE /\ \A p \in Plain \cup FlagOptions : p # o => u[p] = t[p]
      BY <1>1, <2>3 DEF TargetOK, Plain, ValueOptions, FlagOptions
    <3> HIDE DEF u
    <3>3. /\ \A p \in Plain \ {o} : HasValue(params, i, p, u)
          /\ \A p \in FlagOptions \ {o} : HasFlag(params, i, p, u)
      BY <2>2, <3>2, OthersStay
    <3>4. HasFlag(params, i, o, u) BY <1>5, <3>2, BeforeTakes DEF HasFlag
    <3>5. o \notin Plain BY <2>3 DEF Plain, ValueOptions, FlagOptions
    <3>6. HasRead(params, i, u) BY <3>3, <3>4, <3>5 DEF HasRead
    <3> QED BY <1>2, <2>1, <3>1, <3>2, <3>6, OutcomeIs DEF ReadOK
  <2>4. CASE o \notin FlagOptions /\ o \notin ValueOptions
    <3>1. ReadOption(params, i, t) = Outcome(t, Nil) BY <2>4 DEF ReadOption
    <3>2. /\ \A p \in Plain \ {} : HasValue(params, i, p, t)
          /\ \A p \in FlagOptions \ {} : HasFlag(params, i, p, t)
      BY <2>2, <2>4, OthersStay DEF Plain
    <3>3. HasRead(params, i, t) BY <3>2 DEF HasRead
    <3> QED BY <1>1, <1>2, <2>1, <3>1, <3>3, OutcomeIs DEF ReadOK
  <2>5. CASE o \notin FlagOptions /\ o \in ValueOptions /\ i = Len(params)
    <3>1. ReadOption(params, i, t) = Outcome(t, "panic") BY <2>5 DEF ReadOption
    <3>2. Len(params) % 2 = 1 BY <1>5, <2>5
    <3> QED BY <1>1, <1>2, <2>1, <2>5, <3>1, <3>2, OutcomeIs DEF ReadOK
  <2>6. CASE o \notin FlagOptions /\ o \in ValueOptions /\ i # Len(params)
    <3> v \in Words
      <4>1. i + 1 \in 1 .. Len(params) BY <2>6, ParamsAre
      <4> QED BY <4>1, ParamsAre
    <3>1. CASE o = "country" /\ v \in Long
      <4>1. ReadOption(params, i, t) = Outcome(t, "ErrInvalidParam") BY <2>6, <3>1 DEF ReadOption
      <4> QED BY <1>1, <1>2, <2>1, <4>1, OutcomeIs DEF ReadOK
    <3>2. CASE ~(o = "country" /\ v \in Long) /\ o # "duration"
      <4> DEFINE u == [t EXCEPT ![o] = v]
      <4>1. ReadOption(params, i, t) = Outcome(u, Nil) BY <2>6, <3>2 DEF ReadOption
      <4>2. TargetOK(u) /\ u[o] = v /\ \A p \in Plain \cup FlagOptions : p # o => u[p] = t[p]
        BY <1>1, <2>6, <3>2 DEF TargetOK, Plain, ValueOptions, FlagOptions
      <4> HIDE DEF u
      <4>3. /\ \A p \in Plain \ {o} : HasValue(params, i, p, u)
            /\ \A p \in FlagOptions \ {o} : HasFlag(params, i, p, u)
        BY <2>2, <4>2, OthersStay
      <4>4. HasValue(params, i, o, u) BY <1>5, <4>2, BeforeTakes DEF HasValue
      <4>5. HasRead(params, i, u) BY <2>6, <4>3, <4>4 DEF HasRead
      <4> QED BY <1>2, <2>1, <4>1, <4>2, <4>5, OutcomeIs DEF ReadOK
    <3>3. CASE o = "duration" /\ v \notin DOMAIN Numbers
      <4>1. ReadOption(params, i, t) = Outcome(t, "ErrSyntax") BY <2>6, <3>3 DEF ReadOption
      <4> QED BY <1>1, <1>2, <2>1, <4>1, OutcomeIs DEF ReadOK
    <3>4. CASE o = "duration" /\ v \in DOMAIN Numbers
      <4> DEFINE d == Duration(v)
                 u == [t EXCEPT ![o] = d]
      <4>1. ReadOption(params, i, t) = Outcome(u, Nil) BY <2>6, <3>4 DEF ReadOption
      <4>2. d \in Int BY <3>4, DurationIs
      <4> HIDE DEF d
      <4>3. TargetOK(u) /\ \A p \in Plain \cup FlagOptions : u[p] = t[p] /\ p # o
        BY <1>1, <3>4, <4>2 DEF TargetOK, Plain, ValueOptions, FlagOptions
      <4> HIDE DEF u
      <4>4. /\ \A p \in Plain \ {} : HasValue(params, i, p, u)
            /\ \A p \in FlagOptions \ {} : HasFlag(params, i, p, u)
        BY <2>2, <4>3, OthersStay
      <4>5. HasRead(params, i, u) BY <4>4 DEF HasRead
      <4> QED BY <1>2, <2>1, <4>1, <4>3, <4>5, OutcomeIs DEF ReadOK
    <3> QED BY <3>1, <3>2, <3>3, <3>4
  <2> QED BY <2>3, <2>4, <2>5, <2>6
<1> QED BY <1>3, <1>4, <1>5

LEMMA AllRead ==
  ASSUME NEW params \in Seq(Words)
  PROVE  ReadOK(params, Len(params), ReadOptions(params))
<1>1. PICK f : IsReading(f, Len(params), params) /\ ReadOptions(params) = f[Len(params)]
  BY OptionsRead
<1>2. Len(params) \in Nat BY ParamsAre
<1>3. f[0] = Start /\ \A i \in 1 .. Len(params) : f[i] = ReadNext(params, i, f[i - 1])
  BY <1>1, <1>2, ReadingIs, ZenonT(30)
<1> DEFINE S == {i \in Nat : i <= Len(params) => ReadOK(params, i, f[i])}
<1>4. ASSUME NEW i \in Nat, \A k \in 0 .. i - 1 : k \in S PROVE i \in S
  <2>1. CASE i = 0 BY <1>3, <2>1, NothingRead
  <2>2. CASE i # 0 /\ i <= Len(params)
    <3>1. i \in 1 .. Len(params) /\ i - 1 \in 0 .. i - 1 BY <1>2, <2>2
    <3>2. ReadOK(params, i - 1, f[i - 1]) BY <1>2, <1>4, <2>2, <3>1
    <3>3. ReadOK(params, i, ReadNext(params, i, f[i - 1])) BY <3>1, <3>2, NextRead
    <3>4. f[i] = ReadNext(params, i, f[i - 1]) BY <1>3, <3>1
    <3> QED BY <3>3, <3>4
  <2>3. CASE ~(i <= Len(params)) BY <2>3
  <2> QED BY <2>1, <2>2, <2>3
<1>5. S = Nat
  <2>1. S \in SUBSET Nat OBVIOUS
  <2> HIDE DEF S
  <2> QED BY <1>4, <2>1, Induction
<1> QED BY <1>1, <1>2, <1>5

-----------------------------------------------------------------------------
(* What Parse makes of what it has read *)

LEMMA ParseIs ==
  ASSUME NEW params, NEW password
  PROVE  LET read == ReadOptions(params)
             t == read.target
             error == IF read.error # Nil THEN read.error ELSE CheckLocation(t)
             sticky == error = Nil /\ Sticky(t)
             out == Parse(params, password)
         IN  /\ out.error = error /\ out.target = t
             /\ out.id = (IF sticky THEN SessionID(t, password) ELSE Nil)
             /\ out.duration = (IF sticky THEN SessionDuration(t) ELSE t["duration"])
BY DEF Parse

LEMMA LocationNeverPanics ==
  ASSUME NEW t
  PROVE  CheckLocation(t) # "panic"
BY UsernameAssumption DEF CheckLocation

LEMMA AcceptedIsRead ==
  ASSUME NEW params \in Seq(Words), NEW password
  PROVE  LET out == Parse(params, password)
         IN  /\ TargetOK(out.target)
             /\ out.error = Nil => HasRead(params, Len(params), out.target)
             /\ out.error = "panic" => Len(params) % 2 = 1 /\ params[Len(params)] \in ValueOptions
             /\ out.error = Nil /\ out.id # Nil =>
                  /\ Sticky(out.target)
                  /\ out.id = SessionID(out.target, password)
                  /\ out.duration = SessionDuration(out.target)
<1> DEFINE read == ReadOptions(params)
           out == Parse(params, password)
           error == IF read.error # Nil THEN read.error ELSE CheckLocation(read.target)
<1>1. ReadOK(params, Len(params), read) BY AllRead
<1>2. /\ out.error = error /\ out.target = read.target
      /\ out.id = (IF error = Nil /\ Sticky(read.target)
                   THEN SessionID(read.target, password) ELSE Nil)
      /\ out.duration = (IF error = Nil /\ Sticky(read.target)
                         THEN SessionDuration(read.target) ELSE read.target["duration"])
  BY ParseIs, Zenon
<1> HIDE DEF out, read
<1>3. error = Nil => read.error = Nil OBVIOUS
<1>4. error = "panic" => read.error = "panic" BY LocationNeverPanics
<1> HIDE DEF error
<1>5. /\ TargetOK(out.target)
      /\ out.error = Nil => HasRead(params, Len(params), out.target)
      /\ out.error = "panic" => Len(params) % 2 = 1 /\ params[Len(params)] \in ValueOptions
  BY <1>1, <1>2, <1>3, <1>4 DEF ReadOK
<1>6. out.error = Nil /\ out.id # Nil =>
        /\ Sticky(out.target)
        /\ out.id = SessionID(out.target, password)
        /\ out.duration = SessionDuration(out.target)
  BY <1>2
<1> QED BY <1>5, <1>6 DEF out

LEMMA AllBefore ==
  ASSUME NEW params \in Seq(Words), NEW o
  PROVE  Before(params, Len(params), o) = Named(params, o)
BY ParamsAre DEF Before, Named, Names

(* The fields of a user name that is accepted are the values of its        *)
(* options, for lists of parameters of any length (username.go, Parse).    *)
THEOREM OptionsAreRead ==
  ASSUME NEW params \in Seq(Words), NEW password
  PROVE  ReadsItsOptions(params, Parse(params, password))
<1> DEFINE out == Parse(params, password)
           t == out.target
<1>1. SUFFICES ASSUME out.error = Nil
               PROVE  /\ \A o \in Plain : t[o] = ValueOf(params, o)
                      /\ \A o \in FlagOptions : t[o] = (Named(params, o) # {})
  BY Zenon DEF ReadsItsOptions, Plain
<1>2. TargetOK(t) /\ HasRead(params, Len(params), t) BY <1>1, AcceptedIsRead, Zenon
<1> HIDE DEF out
<1>3. ASSUME NEW o \in Plain PROVE t[o] = ValueOf(params, o)
  <2> DEFINE N == Named(params, o)
  <2>1. HasValue(params, Len(params), o, t) BY <1>2 DEF HasRead
  <2>2. \/ N = {} /\ t[o] = Nil
        \/ \E j \in N : (\A k \in N : k <= j) /\ t[o] = params[j + 1]
    BY <2>1, AllBefore DEF HasValue
  <2>3. CASE N = {} BY <2>2, <2>3 DEF ValueOf
  <2>4. CASE N # {}
    <3>1. PICK j \in N : (\A k \in N : k <= j) /\ t[o] = params[j + 1] BY <2>2, <2>4
    <3> DEFINE last == CHOOSE i \in N : \A k \in N : k <= i
    <3>2. last \in N /\ \A k \in N : k <= last BY <3>1, Zenon
    <3>3. N \subseteq Int BY ParamsAre DEF Named, Names
    <3>4. last = j
      <4> HIDE DEF last, N
      <4> QED BY <3>1, <3>2, <3>3
    <3>5. ValueOf(params, o) = params[last + 1] BY <2>4, Zenon DEF ValueOf
    <3> QED BY <3>1, <3>4, <3>5
  <2> QED BY <2>3, <2>4
<1>4. ASSUME NEW o \in FlagOptions PROVE t[o] = (Named(params, o) # {})
  <2>1. HasFlag(params, Len(params), o, t) BY <1>2 DEF HasRead
  <2>2. t[o] = TRUE <=> Named(params, o) # {} BY <2>1, AllBefore, Zenon DEF HasFlag
  <2>3. t[o] \in BOOLEAN BY <1>2 DEF TargetOK
  <2> QED BY <2>2, <2>3, Zenon
<1> QED BY <1>3, <1>4

(* Parse indexes past its parameters only where the last one is the name   *)
(* of an option (username.go, the checks of len(params)).                  *)
THEOREM PanicsAreKnown ==
  ASSUME NEW params \in Seq(Words), NEW password
  PROVE  PanicsOnlyUnvalued(params, Parse(params, password))
BY AcceptedIsRead, Zenon DEF PanicsOnlyUnvalued

(* A sticky session is given a positive time, of at most the maximum or    *)
(* the default, whatever its number comes to (username.go:86-91, 140-142). *)
THEOREM DurationsAreBounded ==
  ASSUME NEW params \in Seq(Words), NEW password
  PROVE  DurationIsBounded(Parse(params, password))
<1> DEFINE out == Parse(params, password)
           d == out.target["duration"]
<1>1. SUFFICES ASSUME out.error = Nil, out.id # Nil
               PROVE  out.duration \in (1 .. Maximum) \cup {Default}
  BY Zenon DEF DurationIsBounded
<1>2. TargetOK(out.target) /\ out.duration = SessionDuration(out.target)
  BY <1>1, AcceptedIsRead, Zenon
<1> HIDE DEF out
<1>3. d \in Int BY <1>2 DEF TargetOK
<1>4. out.duration = IF d <= 0 \/ d > Maximum THEN Default ELSE d
  BY <1>2, Zenon DEF SessionDuration
<1> HIDE DEF d
<1> QED BY <1>3, <1>4, UsernameAssumption

LEMMA ConcatCancels ==
  ASSUME NEW T, NEW a \in Seq(T), NEW s \in Seq(T), NEW t \in Seq(T), NEW b \in Seq(T),
         (a \o s) \o b = (a \o t) \o b
  PROVE  s = t
<1> DEFINE u == a \o s
           w == a \o t
<1>1. u \in Seq(T) /\ Len(u) = Len(a) + Len(s) BY ConcatProperties
<1>2. w \in Seq(T) /\ Len(w) = Len(a) + Len(t) BY ConcatProperties
<1>3. After(Len(a), u) = s BY FirstAfterConcat
<1>4. After(Len(a), w) = t BY FirstAfterConcat
<1>5. u \o b = w \o b OBVIOUS
<1> HIDE DEF u, w
<1>6. /\ Len(u \o b) = Len(u) + Len(b)
      /\ First(Len(u), u \o b) = u
  <2>1. u \in Seq(T) BY <1>1
  <2>2. Len(u \o b) = Len(u) + Len(b) BY <2>1, ConcatProperties, Zenon
  <2> QED BY <2>1, <2>2, FirstAfterConcat, Zenon
<1>7. /\ Len(w \o b) = Len(w) + Len(b)
      /\ First(Len(w), w \o b) = w
  <2>1. w \in Seq(T) BY <1>2
  <2>2. Len(w \o b) = Len(w) + Len(b) BY <2>1, ConcatProperties, Zenon
  <2> QED BY <2>1, <2>2, FirstAfterConcat, Zenon
<1>8. Len(u) \in Nat /\ Len(w) \in Nat /\ Len(b) \in Nat BY <1>1, <1>2, LenProperties
<1>9. Len(u) = Len(w) BY <1>5, <1>6, <1>7, <1>8
<1>10. u = w BY <1>5, <1>6, <1>7, <1>9
<1> QED BY <1>3, <1>4, <1>10

LEMMA SpellingIs ==
  ASSUME NEW v \in Words \cup {Nil}
  PROVE  Spelling(v) \in Seq(STRING)
<1>1. <<>> \in Seq(STRING) BY EmptySeq
<1> QED BY <1>1, UsernameAssumption DEF Spelling

(* Two sticky sessions of one client in one country and pool have          *)
(* different ids when they have different names (username.go:144-172).     *)
THEOREM SessionsAreToldApart ==
  ASSUME NEW params \in Seq(Words), NEW others \in Seq(Words), NEW password \in Words
  PROVE  SessionsDiffer(Parse(params, password), Parse(others, password))
<1> DEFINE out1 == Parse(params, password)
           out2 == Parse(others, password)
           t == out1.target
           u == out2.target
<1>1. SUFFICES ASSUME out1.error = Nil, out2.error = Nil, out1.id # Nil, out2.id # Nil,
                      t["country"] = u["country"], t["pool"] = u["pool"],
                      t["session"] # u["session"], out1.id = out2.id
               PROVE  FALSE
  BY Zenon DEF SessionsDiffer
<1>2. TargetOK(t) /\ Sticky(t) /\ out1.id = SessionID(t, password)
  BY <1>1, AcceptedIsRead, Zenon
<1>3. TargetOK(u) /\ Sticky(u) /\ out2.id = SessionID(u, password)
  BY <1>1, AcceptedIsRead, Zenon
<1>4. SessionID(t, password) = SessionID(u, password) BY <1>1, <1>2, <1>3
<1>5. \A o \in {"country", "pool", "session"} :
        t[o] \in Words \cup {Nil} /\ u[o] \in Words \cup {Nil}
  BY <1>2, <1>3 DEF TargetOK, Plain, ValueOptions
<1> DEFINE a == Spelling(t["country"]) \o Spelling(t["pool"])
           x == Spelling(t["session"])
           y == Spelling(u["session"])
           b == Spelling(password)
<1>6. SessionID(t, password) = (a \o x) \o b BY DEF SessionID
<1>7. SessionID(u, password) = (a \o y) \o b BY <1>1 DEF SessionID
<1>8. a \in Seq(STRING) /\ x \in Seq(STRING) /\ y \in Seq(STRING) /\ b \in Seq(STRING)
  <2>1. Spelling(t["country"]) \in Seq(STRING) /\ Spelling(t["pool"]) \in Seq(STRING)
    BY <1>5, SpellingIs
  <2>2. x \in Seq(STRING) /\ y \in Seq(STRING) /\ b \in Seq(STRING) BY <1>5, SpellingIs
  <2>3. a \in Seq(STRING) BY <2>1, ConcatProperties
  <2> QED BY <2>2, <2>3
<1>9. x # <<>> /\ y # <<>> BY <1>2, <1>3, Zenon DEF Sticky
<1>10. x = y
  <2> HIDE DEF a, x, y, b
  <2>1. (a \o x) \o b = (a \o y) \o b BY <1>4, <1>6, <1>7
  <2>2. a \in Seq(STRING) /\ x \in Seq(STRING) /\ y \in Seq(STRING) /\ b \in Seq(STRING)
    BY <1>8
  <2> QED BY <2>1, <2>2, ConcatCancels, Zenon
<1>11. t["session"] # Nil /\ u["session"] # Nil BY <1>9 DEF Spelling
<1>12. Letters[t["session"]] = Letters[u["session"]] BY <1>10, <1>11 DEF Spelling
<1>13. t["session"] \in Words /\ u["session"] \in Words BY <1>5, <1>11
<1> QED BY <1>1, <1>12, <1>13, UsernameAssumption

-----------------------------------------------------------------------------
(* The user name, or the two of them, that a behaviour has picked. *)
UserOK ==
  /\ user.of \in {"name", "pair"} => user.params \in Seq(Words)
  /\ user.of = "pair" => user.others \in Seq(Words)

LEMMA UserStep == UserOK /\ [NamesNext]_user => UserOK'
<1> SUFFICES ASSUME UserOK, [NamesNext]_user PROVE UserOK' OBVIOUS
<1>1. CASE ReadName
  <2>1. PICK params \in Usernames : user' = [of |-> "name", params |-> params]
    BY <1>1 DEF ReadName
  <2>2. params \in Seq(Words) BY <2>1, NamesAssumption
  <2> QED BY <2>1, <2>2 DEF UserOK
<1>2. CASE ReadPair
  <2>1. PICK pair \in Duos : user' = [of |-> "pair", params |-> pair[1], others |-> pair[2]]
    BY <1>2 DEF ReadPair
  <2>2. pair[1] \in Seq(Words) /\ pair[2] \in Seq(Words) BY <2>1, NamesAssumption
  <2> QED BY <2>1, <2>2 DEF UserOK
<1>3. CASE UNCHANGED user BY <1>3 DEF UserOK
<1> QED BY <1>1, <1>2, <1>3 DEF NamesNext

LEMMA UsersAreRead == UserOK => NamesAreRead
<1> SUFFICES ASSUME UserOK PROVE NamesAreRead OBVIOUS
<1>1. ASSUME user.of \in {"name", "pair"}
      PROVE  /\ ReadsItsOptions(user.params, Parsed(user.params))
             /\ PanicsOnlyUnvalued(user.params, Parsed(user.params))
             /\ DurationIsBounded(Parsed(user.params))
  <2>1. user.params \in Seq(Words) BY <1>1 DEF UserOK
  <2> QED BY <2>1, OptionsAreRead, PanicsAreKnown, DurationsAreBounded DEF Parsed
<1>2. ASSUME user.of = "pair"
      PROVE  SessionsDiffer(Parsed(user.params), Parsed(user.others))
  <2>1. user.params \in Seq(Words) /\ user.others \in Seq(Words) /\ Password \in Words
    BY <1>2, NamesAssumption DEF UserOK
  <2> QED BY <2>1, SessionsAreToldApart DEF Parsed
<1> QED BY <1>1, <1>2 DEF NamesAreRead

(* Whatever a client writes in its user name, however long: the options    *)
(* count that it names, the parser panics over nothing but an option with- *)
(* out value, sticky sessions end in time, and a client's sessions are     *)
(* told apart (username.go:40-190).                                        *)
THEOREM EveryNameIsRead == NamesSpec => []NamesAreRead
<1>1. NamesInit => UserOK BY DEF NamesInit, UserOK
<1>2. UserOK /\ [NamesNext]_user => UserOK' BY UserStep
<1>3. UserOK => NamesAreRead BY UsersAreRead
<1> QED BY <1>1, <1>2, <1>3, PTL DEF NamesSpec
=============================================================================
