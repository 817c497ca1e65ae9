---------------------------- MODULE PartsProofs ----------------------------
(***************************************************************************)
(* Proofs about the parts that work by themselves.  A step of Parts is a   *)
(* step of one part, or leaves its cells alone: for each part there is a   *)
(* lemma that its invariant holds at first, one that its steps preserve    *)
(* it, and one that stuttering does; the theorems at the end put them      *)
(* together.  The definitions of a part are cited through its instance,    *)
(* whose variables are the cells v1, v2, ... named in Parts.               *)
(***************************************************************************)
EXTENDS Parts, TLAPS, FiniteSetTheorems, SequenceTheorems

-----------------------------------------------------------------------------
(* Sequences                                                               *)

(* Some set of naturals that is not empty has a least element. *)
LEMMA LeastElement ==
  ASSUME NEW T \in SUBSET Nat, T # {}
  PROVE  \E x \in T : \A y \in T : x <= y
<1> DEFINE R == OpToRel(<, Nat)
<1>1. IsWellFoundedOn(R, Nat)
  BY NatLessThanWellFounded
<1>2. \A y, x \in Nat : <<y, x>> \in R <=> y < x
  BY DEF OpToRel
<1> HIDE DEF R
<1>3. PICK x \in T : \A y \in T : ~ (<<y, x>> \in R)
  BY <1>1, WFMin
<1>4. x \in Nat /\ \A y \in T : y \in Nat /\ ~ (y < x)
  BY <1>2, <1>3
<1>5. \A y \in T : x <= y
  BY <1>4
<1> QED BY <1>5

LEMMA Slices ==
  ASSUME NEW S, NEW s \in Seq(S), NEW m \in Int, NEW n \in Int,
         1 <= m, m <= n + 1, n <= Len(s)
  PROVE  /\ SubSeq(s, m, n) \in Seq(S)
         /\ Len(SubSeq(s, m, n)) = n - m + 1
         /\ \A i \in 1 .. n - m + 1 : SubSeq(s, m, n)[i] = s[m + i - 1]
<1>1. \A i \in m .. n : s[i] \in S
  OBVIOUS
<1> QED BY <1>1, SubSeqProperties

(* An element of a sequence is at a place of it. *)
LEMMA Elements ==
  ASSUME NEW S, NEW s \in Seq(S)
  PROVE  /\ Len(s) \in Nat /\ DOMAIN s = 1 .. Len(s)
         /\ \A x : x \in Host!Range(s) <=> \E i \in 1 .. Len(s) : s[i] = x
         /\ Host!Range(s) \subseteq S
         /\ Host!IsInjective(s) <=> \A i, j \in 1 .. Len(s) : s[i] = s[j] => i = j
  BY DEF Host!Range, Host!IsInjective

LEMMA NoElements == Host!Range(<<>>) = {} /\ Host!IsInjective(<<>>)
  BY DEF Host!Range, Host!IsInjective

LEMMA OneElement ==
  ASSUME NEW S, NEW t \in Seq(S), Len(t) = 1 PROVE Host!Range(t) = {t[1]}
<1>1. \A x : x \in Host!Range(t) <=> \E i \in 1 .. 1 : t[i] = x
  BY Elements
<1>2. \A i \in 1 .. 1 : i = 1
  OBVIOUS
<1>3. 1 \in 1 .. 1
  OBVIOUS
<1> QED BY <1>1, <1>2, <1>3

LEMMA Appended ==
  ASSUME NEW S, NEW s \in Seq(S), NEW x \in S, Host!IsInjective(s)
  PROVE  /\ Append(s, x) \in Seq(S) /\ Append(s, x) # <<>>
         /\ Host!Range(Append(s, x)) = Host!Range(s) \cup {x}
         /\ x \notin Host!Range(s) => Host!IsInjective(Append(s, x))
<1> DEFINE t == Append(s, x)
<1>1. t \in Seq(S) /\ Len(t) = Len(s) + 1 /\ t[Len(s) + 1] = x
  BY AppendProperties
<1>2. \A i \in 1 .. Len(s) : t[i] = s[i]
  BY AppendProperties
<1> HIDE DEF t
<1>3. Len(s) \in Nat
  BY Elements
<1>4. Host!Range(t) = Host!Range(s) \cup {x}
  <2>1. ASSUME NEW y \in Host!Range(t) PROVE y \in Host!Range(s) \cup {x}
    <3>1. PICK i \in 1 .. Len(t) : t[i] = y
      BY <1>1, <2>1, Elements
    <3>2. CASE i \in 1 .. Len(s)
      BY <1>2, <3>1, <3>2, Elements
    <3>3. CASE i = Len(s) + 1
      BY <1>1, <3>1, <3>3
    <3> QED BY <1>1, <1>3, <3>2, <3>3
  <2>2. ASSUME NEW y \in Host!Range(s) PROVE y \in Host!Range(t)
    <3>1. PICK i \in 1 .. Len(s) : s[i] = y
      BY <2>2, Elements
    <3>2. i \in 1 .. Len(t) /\ t[i] = y
      BY <1>1, <1>2, <1>3, <3>1
    <3> QED BY <1>1, <3>2, Elements
  <2>3. x \in Host!Range(t)
    <3>1. Len(s) + 1 \in 1 .. Len(t)
      BY <1>1, <1>3
    <3> QED BY <1>1, <3>1, Elements
  <2> QED BY <2>1, <2>2, <2>3
<1>5. ASSUME x \notin Host!Range(s) PROVE Host!IsInjective(t)
  <2>1. \A i \in 1 .. Len(s) : s[i] # x
    BY <1>5, Elements
  <2>2. \A i, j \in 1 .. Len(s) : s[i] = s[j] => i = j
    BY Elements
  <2>3. \A i \in 1 .. Len(t) : i \in 1 .. Len(s) \/ i = Len(s) + 1
    BY <1>1, <1>3
  <2>4. \A i, j \in 1 .. Len(t) : t[i] = t[j] => i = j
    BY <1>1, <1>2, <2>1, <2>2, <2>3
  <2> QED BY <1>1, <2>4, Elements
<1>6. t # <<>>
  BY <1>1, <1>3
<1> QED BY <1>1, <1>4, <1>5, <1>6 DEF t

(* A sequence cut in two. *)
LEMMA Parting ==
  ASSUME NEW S, NEW s \in Seq(S), NEW n \in 0 .. Len(s), Host!IsInjective(s)
  PROVE  LET a == SubSeq(s, 1, n)  b == SubSeq(s, n + 1, Len(s)) IN
         /\ a \in Seq(S) /\ b \in Seq(S) /\ Host!IsInjective(a) /\ Host!IsInjective(b)
         /\ Host!Range(a) \cup Host!Range(b) = Host!Range(s)
         /\ Host!Range(a) \cap Host!Range(b) = {}
         /\ Host!Range(b) = {s[i] : i \in n + 1 .. Len(s)}
<1> DEFINE a == SubSeq(s, 1, n)  b == SubSeq(s, n + 1, Len(s))
<1>0. Len(s) \in Nat /\ n \in Nat /\ n <= Len(s)
  BY Elements
<1>1. a \in Seq(S) /\ Len(a) = n /\ \A i \in 1 .. n : a[i] = s[i]
  BY <1>0, Slices
<1>2. /\ b \in Seq(S) /\ Len(b) = Len(s) - n
      /\ \A i \in 1 .. Len(s) - n : b[i] = s[n + i]
  <2>1. /\ b \in Seq(S) /\ Len(b) = Len(s) - (n + 1) + 1
        /\ \A i \in 1 .. Len(s) - (n + 1) + 1 : b[i] = s[n + 1 + i - 1]
    BY <1>0, Slices
  <2> HIDE DEF b
  <2> QED BY <1>0, <2>1
<1>3. \A i, j \in 1 .. Len(s) : s[i] = s[j] => i = j
  BY Elements
<1> HIDE DEF a, b
<1>4. Host!IsInjective(a)
  BY <1>0, <1>1, <1>3, Elements
<1>5. Host!IsInjective(b)
  <2>1. ASSUME NEW i \in 1 .. Len(b), NEW j \in 1 .. Len(b), b[i] = b[j] PROVE i = j
    <3>1. n + i \in 1 .. Len(s) /\ n + j \in 1 .. Len(s)
      BY <1>0, <1>2
    <3>2. n + i = n + j
      BY <1>2, <1>3, <2>1, <3>1
    <3> QED BY <1>0, <3>2
  <2> QED BY <1>2, <2>1, Elements
<1>6. Host!Range(a) = {s[i] : i \in 1 .. n}
  BY <1>1, Elements
<1>7. Host!Range(b) = {s[i] : i \in n + 1 .. Len(s)}
  <2>1. ASSUME NEW x \in Host!Range(b) PROVE x \in {s[i] : i \in n + 1 .. Len(s)}
    <3>1. PICK i \in 1 .. Len(b) : b[i] = x
      BY <1>2, Elements
    <3>2. n + i \in n + 1 .. Len(s) /\ s[n + i] = x
      BY <1>0, <1>2, <3>1
    <3> QED BY <3>2
  <2>2. ASSUME NEW i \in n + 1 .. Len(s) PROVE s[i] \in Host!Range(b)
    <3>1. i - n \in 1 .. Len(b) /\ i - n \in 1 .. Len(s) - n /\ n + (i - n) = i
      BY <1>0, <1>2
    <3>2. b[i - n] = s[i]
      BY <1>2, <3>1
    <3> QED BY <1>2, <3>1, <3>2, Elements
  <2> QED BY <2>1, <2>2
<1>8. Host!Range(s) = {s[i] : i \in 1 .. Len(s)}
  BY Elements
<1>9. \A i \in 1 .. Len(s) : i \in 1 .. n \/ i \in n + 1 .. Len(s)
  BY <1>0
<1>10. Host!Range(a) \cup Host!Range(b) = Host!Range(s)
  <2>1. \A i \in 1 .. n : i \in 1 .. Len(s)
    BY <1>0
  <2>2. \A i \in n + 1 .. Len(s) : i \in 1 .. Len(s)
    BY <1>0
  <2> QED BY <1>6, <1>7, <1>8, <1>9, <2>1, <2>2
<1>11. Host!Range(a) \cap Host!Range(b) = {}
  <2>1. \A i \in 1 .. n, j \in n + 1 .. Len(s) : i \in 1 .. Len(s) /\ j \in 1 .. Len(s) /\ i # j
    BY <1>0
  <2> QED BY <1>3, <1>6, <1>7, <2>1
<1> QED BY <1>1, <1>2, <1>4, <1>5, <1>7, <1>10, <1>11 DEF a, b

(* The first and the last of a sequence, and what is left. *)
LEMMA WithoutHead ==
  ASSUME NEW S, NEW s \in Seq(S), Host!IsInjective(s), s # <<>>
  PROVE  /\ Tail(s) \in Seq(S) /\ Host!IsInjective(Tail(s))
         /\ Head(s) \in Host!Range(s)
         /\ Host!Range(Tail(s)) = Host!Range(s) \ {Head(s)}
<1>1. Len(s) \in Nat /\ Len(s) > 0 /\ 1 \in 0 .. Len(s)
  BY Elements, EmptySeq
<1>2. Tail(s) = SubSeq(s, 2, Len(s))
  BY TailIsSubSeq
<1>3. Head(s) = s[1] /\ SubSeq(s, 1, 1) \in Seq(S)
        /\ Len(SubSeq(s, 1, 1)) = 1 /\ SubSeq(s, 1, 1)[1] = s[1]
  BY <1>1, Slices
<1>4. Host!Range(SubSeq(s, 1, 1)) = {Head(s)}
  BY <1>3, OneElement
<1>5. /\ SubSeq(s, 2, Len(s)) \in Seq(S) /\ Host!IsInjective(SubSeq(s, 2, Len(s)))
      /\ Host!Range(SubSeq(s, 1, 1)) \cup Host!Range(SubSeq(s, 2, Len(s))) = Host!Range(s)
      /\ Host!Range(SubSeq(s, 1, 1)) \cap Host!Range(SubSeq(s, 2, Len(s))) = {}
  <2>1. 1 + 1 = 2
    OBVIOUS
  <2> QED BY <1>1, <2>1, Parting
<1> QED BY <1>2, <1>4, <1>5

LEMMA WithoutLast ==
  ASSUME NEW S, NEW s \in Seq(S), Host!IsInjective(s), s # <<>>
  PROVE  /\ SubSeq(s, 1, Len(s) - 1) \in Seq(S) /\ Host!IsInjective(SubSeq(s, 1, Len(s) - 1))
         /\ s[Len(s)] \in Host!Range(s)
         /\ Host!Range(SubSeq(s, 1, Len(s) - 1)) = Host!Range(s) \ {s[Len(s)]}
<1> DEFINE n == Len(s) - 1
<1>1. Len(s) \in Nat /\ Len(s) > 0 /\ n \in 0 .. Len(s) /\ n + 1 = Len(s)
  BY Elements, EmptySeq
<1> HIDE DEF n
<1>2. /\ SubSeq(s, Len(s), Len(s)) \in Seq(S)
      /\ Len(SubSeq(s, Len(s), Len(s))) = 1 /\ SubSeq(s, Len(s), Len(s))[1] = s[Len(s)]
  BY <1>1, Slices
<1>3. Host!Range(SubSeq(s, Len(s), Len(s))) = {s[Len(s)]}
  BY <1>2, OneElement
<1>4. /\ SubSeq(s, 1, n) \in Seq(S) /\ Host!IsInjective(SubSeq(s, 1, n))
      /\ Host!Range(SubSeq(s, 1, n)) \cup Host!Range(SubSeq(s, n + 1, Len(s))) = Host!Range(s)
      /\ Host!Range(SubSeq(s, 1, n)) \cap Host!Range(SubSeq(s, n + 1, Len(s))) = {}
  BY <1>1, Parting
<1>5. SubSeq(s, n + 1, Len(s)) = SubSeq(s, Len(s), Len(s))
  BY <1>1
<1> QED BY <1>3, <1>4, <1>5 DEF n

-----------------------------------------------------------------------------
(* The pool of connections of a host (HostClient)                          *)

(* What ReleaseConn and decConnsCount leave of the queue, and a connection *)
(* that is put with the idle ones.                                         *)
QueueShrinks ==
  v4' \in Seq(Calls) /\ Host!IsInjective(v4') /\ Host!Range(v4') \subseteq Host!Range(v4)
Pooling(n) ==
  /\ v3' \in Seq(Connections) /\ v3' # <<>> /\ Host!IsInjective(v3')
  /\ Host!Range(v3') = Host!Range(v3) \cup {n}

LEMMA HostCounts == \A S : Host!Cardinality(S) = Cardinality(S)
  BY DEF Host!Cardinality, Cardinality

(* The first call of the queue that waits, and the queue behind a place. *)
LEMMA HostFirst ==
  ASSUME Host!TypeOK, Host!SomeoneWaits
  PROVE  /\ Host!FirstWaiting \in 1 .. Len(v4)
         /\ Host!Waiting(v4[Host!FirstWaiting])
<1> DEFINE places == {i \in 1 .. Len(v4) : Host!Waiting(v4[i])}
<1>1. v4 \in Seq(Calls) /\ Len(v4) \in Nat /\ DOMAIN v4 = 1 .. Len(v4)
  BY Elements DEF Host!TypeOK
<1>2. places # {} /\ places \subseteq Nat
  BY <1>1, Elements DEF Host!SomeoneWaits
<1>3. PICK i \in places : \A j \in places : i <= j
  <2> HIDE DEF places
  <2> QED BY <1>2, LeastElement
<1>4. \A j \in 1 .. i - 1 : ~ Host!Waiting(v4[j])
  BY <1>1, <1>3
<1>5. i \in DOMAIN v4 /\ Host!Waiting(v4[i]) /\ \A j \in 1 .. i - 1 : ~ Host!Waiting(v4[j])
  BY <1>1, <1>3, <1>4
<1>6. \E k \in DOMAIN v4 : Host!Waiting(v4[k]) /\ \A j \in 1 .. k - 1 : ~ Host!Waiting(v4[j])
  BY <1>5
<1>7. Host!FirstWaiting \in DOMAIN v4 /\ Host!Waiting(v4[Host!FirstWaiting])
  BY <1>6 DEF Host!FirstWaiting
<1> QED BY <1>1, <1>7

LEMMA HostBehind ==
  ASSUME Host!TypeOK, Host!QueueIsOrdered, NEW n \in 0 .. Len(v4)
  PROVE  /\ Host!Behind(n) \in Seq(Calls) /\ Host!IsInjective(Host!Behind(n))
         /\ Host!Range(Host!Behind(n)) \subseteq Host!Range(v4)
         /\ n > 0 => v4[n] \notin Host!Range(Host!Behind(n))
<1>1. v4 \in Seq(Calls) /\ Host!IsInjective(v4) /\ Len(v4) \in Nat
  BY Elements DEF Host!TypeOK, Host!QueueIsOrdered
<1>2. /\ Host!Behind(n) \in Seq(Calls) /\ Host!IsInjective(Host!Behind(n))
      /\ Host!Range(SubSeq(v4, 1, n)) \cup Host!Range(Host!Behind(n)) = Host!Range(v4)
      /\ Host!Range(Host!Behind(n)) = {v4[i] : i \in n + 1 .. Len(v4)}
  BY <1>1, Parting DEF Host!Behind
<1>3. ASSUME n > 0, v4[n] \in Host!Range(Host!Behind(n)) PROVE FALSE
  <2>1. PICK i \in n + 1 .. Len(v4) : v4[i] = v4[n]
    BY <1>2, <1>3
  <2>2. i \in 1 .. Len(v4) /\ n \in 1 .. Len(v4) /\ i # n
    BY <1>1, <1>3, <2>1
  <2> QED BY <1>1, <2>1, <2>2, Elements
<1> QED BY <1>2, <1>3

(* The place of a connection that ends, and one that is free. *)
LEMMA HostDecConnsCount ==
  ASSUME Host!TypeOK, Host!QueueIsOrdered, Host!DecConnsCount
  PROVE  /\ QueueShrinks
         /\ v3' = v3
         /\ \/ /\ \E w \in Host!Range(v4) :
                    /\ w \in Calls /\ Host!Waiting(w) /\ w \notin Host!Range(v4')
                    /\ v10' = [v10 EXCEPT ![w] = "dial"]
               /\ v2' = v2 /\ (v5 = "off" => v15')
            \/ v4' = <<>> /\ v10' = v10 /\ v2' = v2 - 1 /\ v15' = v15
<1> USE DEF QueueShrinks
<1>1. CASE Host!SomeoneWaits
  <2> DEFINE i == Host!FirstWaiting
  <2>1. i \in 1 .. Len(v4) /\ Host!Waiting(v4[i])
    BY <1>1, HostFirst
  <2>2. v4[i] \in Host!Range(v4) /\ v4[i] \in Calls /\ i > 0 /\ i \in 0 .. Len(v4)
    BY <2>1, Elements DEF Host!TypeOK
  <2>3. /\ v10' = [v10 EXCEPT ![v4[i]] = "dial"] /\ v4' = Host!Behind(i)
        /\ v2' = v2 /\ v3' = v3 /\ v15' = (v15 \/ v5 = "off")
    BY <1>1 DEF Host!DecConnsCount
  <2>4. v5 = "off" => v15'
    BY <2>3, Zenon
  <2> HIDE DEF i
  <2> QED BY <2>1, <2>2, <2>3, <2>4, HostBehind
<1>2. CASE ~ Host!SomeoneWaits
  BY <1>2, NoElements DEF Host!DecConnsCount
<1> QED BY <1>1, <1>2

LEMMA HostDecreased ==
  ASSUME Host!TypeOK, Host!QueueIsOrdered, Host!DecConnsCount
  PROVE  Host!Range(v4') \subseteq Host!Range(v4) /\ v3' = v3 /\ (v2' = v2 \/ v4' = <<>>)
BY HostDecConnsCount DEF QueueShrinks

LEMMA HostReleaseConn ==
  ASSUME Host!TypeOK, Host!QueueIsOrdered, Host!PoolIsOwn, NEW n \in Connections,
         n \notin Host!Range(v3), NEW calls, Host!ReleaseConn(n, calls)
  PROVE  /\ QueueShrinks
         /\ v2' = v2
         /\ \/ /\ \E w \in Host!Range(v4) :
                    /\ w \in Calls /\ Host!Waiting(w) /\ w \notin Host!Range(v4')
                    /\ v9' = [v9 EXCEPT ![w] = n]
               /\ v7' = calls /\ v3' = v3 /\ v14' = v14
            \/ /\ \E w \in Host!Range(v4) :
                    /\ w \in Calls /\ Host!Waiting(w) /\ w \notin Host!Range(v4')
                    /\ v7[w] = "cancel" /\ v9' = [v9 EXCEPT ![w] = "none"]
                    /\ v7' = [calls EXCEPT ![w] = "failed"]
               /\ Pooling(n) /\ v14'
            \/ v4' = <<>> /\ v9' = v9 /\ v7' = calls /\ Pooling(n) /\ v14' = v14
<1> USE DEF QueueShrinks, Pooling
<1>0. ASSUME v3' = Append(v3, n) PROVE Pooling(n)
  BY <1>0, Appended DEF Host!TypeOK, Host!PoolIsOwn
<1>1. CASE Host!SomeoneWaits
  <2> DEFINE i == Host!FirstWaiting
  <2>1. i \in 1 .. Len(v4) /\ Host!Waiting(v4[i])
    BY <1>1, HostFirst
  <2>2. v4[i] \in Host!Range(v4) /\ v4[i] \in Calls /\ i > 0 /\ i \in 0 .. Len(v4)
    BY <2>1, Elements DEF Host!TypeOK
  <2>3. /\ v2' = v2 /\ v4' = Host!Behind(i)
        /\ \/ v9' = [v9 EXCEPT ![v4[i]] = n] /\ v7' = calls /\ v3' = v3 /\ v14' = v14
           \/ /\ v7[v4[i]] = "cancel" /\ v9' = [v9 EXCEPT ![v4[i]] = "none"]
              /\ v7' = [calls EXCEPT ![v4[i]] = "failed"] /\ v3' = Append(v3, n) /\ v14'
    BY <1>1 DEF Host!ReleaseConn
  <2>4. QueueShrinks /\ v4[i] \notin Host!Range(v4')
    <3> HIDE DEF i
    <3> QED BY <2>2, <2>3, HostBehind
  <2> HIDE DEF i
  <2> QED BY <1>0, <2>1, <2>2, <2>3, <2>4
<1>2. CASE ~ Host!SomeoneWaits
  <2>1. v2' = v2 /\ v3' = Append(v3, n) /\ v4' = <<>> /\ v7' = calls /\ v9' = v9 /\ v14' = v14
    BY <1>2 DEF Host!ReleaseConn
  <2>2. QueueShrinks
    BY <2>1, NoElements
  <2> QED BY <1>0, <2>1, <2>2
<1> QED BY <1>1, <1>2

(* The same as the invariants of the counts need it. *)
LEMMA HostReleased ==
  ASSUME Host!TypeOK, Host!QueueIsOrdered, Host!PoolIsOwn, NEW n \in Connections,
         n \notin Host!Range(v3), NEW calls, Host!ReleaseConn(n, calls)
  PROVE  /\ v2' = v2 /\ Host!Range(v4') \subseteq Host!Range(v4)
         /\ \/ /\ \E w \in Calls :
                    w \in Host!Range(v4) /\ Host!Waiting(w) /\ v9' = [v9 EXCEPT ![w] = n]
               /\ v7' = calls /\ v3' = v3 /\ v14' = v14
            \/ /\ \E w \in Calls :
                    /\ Host!Waiting(w) /\ v7[w] = "cancel" /\ v9' = [v9 EXCEPT ![w] = "none"]
                    /\ v7' = [calls EXCEPT ![w] = "failed"]
               /\ Host!Range(v3') = Host!Range(v3) \cup {n} /\ v14'
            \/ /\ v4' = <<>> /\ v9' = v9 /\ v7' = calls
               /\ Host!Range(v3') = Host!Range(v3) \cup {n}
<1>1. /\ v2' = v2 /\ Host!Range(v4') \subseteq Host!Range(v4)
      /\ Pooling(n) => Host!Range(v3') = Host!Range(v3) \cup {n}
  BY HostReleaseConn DEF Pooling, QueueShrinks
<1>2. CASE /\ \E w \in Host!Range(v4) :
                /\ w \in Calls /\ Host!Waiting(w) /\ w \notin Host!Range(v4')
                /\ v9' = [v9 EXCEPT ![w] = n]
           /\ v7' = calls /\ v3' = v3 /\ v14' = v14
  BY <1>1, <1>2
<1>3. CASE /\ \E w \in Host!Range(v4) :
                /\ w \in Calls /\ Host!Waiting(w) /\ w \notin Host!Range(v4')
                /\ v7[w] = "cancel" /\ v9' = [v9 EXCEPT ![w] = "none"]
                /\ v7' = [calls EXCEPT ![w] = "failed"]
           /\ Pooling(n) /\ v14'
  BY <1>1, <1>3
<1>4. CASE v4' = <<>> /\ v9' = v9 /\ v7' = calls /\ Pooling(n) /\ v14' = v14
  BY <1>1, <1>4
<1> QED BY <1>2, <1>3, <1>4, HostReleaseConn

LEMMA HostTakeIdle ==
  ASSUME Host!TypeOK, Host!PoolIsOwn, NEW c \in Calls, Host!TakeIdle(c)
  PROVE  \E n \in Host!Range(v3) :
           /\ v8' = [v8 EXCEPT ![c] = n] /\ v3' \in Seq(Connections)
           /\ Host!IsInjective(v3') /\ Host!Range(v3') = Host!Range(v3) \ {n}
<1>1. v3 \in Seq(Connections) /\ Host!IsInjective(v3) /\ v3 # <<>>
  BY DEF Host!TypeOK, Host!PoolIsOwn, Host!TakeIdle
<1>2. CASE v1.lifo
  <2>1. v8' = [v8 EXCEPT ![c] = v3[Len(v3)]] /\ v3' = SubSeq(v3, 1, Len(v3) - 1)
    BY <1>2 DEF Host!TakeIdle
  <2> QED BY <1>1, <2>1, WithoutLast
<1>3. CASE ~ v1.lifo
  <2>1. v8' = [v8 EXCEPT ![c] = Head(v3)] /\ v3' = Tail(v3)
    BY <1>3 DEF Host!TakeIdle
  <2> QED BY <1>1, <2>1, WithoutHead
<1> QED BY <1>2, <1>3

LEMMA HostScan ==
  ASSUME Host!TypeOK, Host!PoolIsOwn, Host!Scan \/ Host!CloseIdleConnections
  PROVE  /\ v3' \in Seq(Connections) /\ Host!IsInjective(v3')
         /\ Host!Range(v3') \cup v6' = Host!Range(v3) \cup v6 /\ v6' \subseteq Connections
         /\ Host!Range(v3') \cap v6' = {}
         /\ v3 = <<>> => v3' = <<>>
<1>1. /\ v3 \in Seq(Connections) /\ Host!IsInjective(v3) /\ Host!Range(v3) \subseteq Connections
      /\ v6 \subseteq Connections /\ Host!Range(v3) \cap v6 = {}
  BY Elements DEF Host!TypeOK, Host!PoolIsOwn
<1>2. CASE Host!Scan
  <2>1. PICK i \in 0 .. Len(v3) : /\ v6' = v6 \cup Host!Range(SubSeq(v3, 1, i))
                                 /\ v3' = SubSeq(v3, i + 1, Len(v3))
    BY <1>2 DEF Host!Scan
  <2>2. /\ v3' \in Seq(Connections) /\ Host!IsInjective(v3')
        /\ Host!Range(SubSeq(v3, 1, i)) \cup Host!Range(v3') = Host!Range(v3)
        /\ Host!Range(SubSeq(v3, 1, i)) \cap Host!Range(v3') = {}
    BY <1>1, <2>1, Parting
  <2>3. v3 = <<>> => v3' = <<>>
    <3>1. ASSUME v3 = <<>> PROVE v3' = <<>>
      <4>1. Len(v3) = 0 /\ i = 0
        BY <1>1, <3>1, EmptySeq
      <4>2. SubSeq(v3, 1, 0) = <<>>
        BY SubSeqEmpty
      <4> QED BY <2>1, <3>1, <4>1, <4>2
    <3> QED BY <3>1
  <2> QED BY <1>1, <2>1, <2>2, <2>3
<1>3. CASE Host!CloseIdleConnections
  BY <1>1, <1>3, NoElements, EmptySeq DEF Host!CloseIdleConnections
<1> QED BY <1>2, <1>3

LEMMA HostUnused ==
  ASSUME Host!TypeOK, Host!Unused # {}
  PROVE  /\ Host!New \in Connections /\ Host!New \notin Host!Pooled /\ Host!New # Nobody
         /\ \A c \in Calls : Host!New \notin {v8[c], v9[c], v10[c]}
  <1>1. Host!New \in Host!Unused
    BY DEF Host!New
  <1> QED BY <1>1, HostAssumption DEF Host!Unused, Host!Pooled

LEMMA HostOwners ==
  ASSUME Host!TypeOK, Host!OwnersDiffer, Host!PoolIsOwn, Host!QueueIsOrdered, Host!Next
  PROVE  Host!TypeOK' /\ Host!OwnersDiffer' /\ Host!PoolIsOwn' /\ Host!QueueIsOrdered'
<1> USE DEF QueueShrinks, Pooling
<1> USE HostAssumption DEF Host!Goto, Host!Waiting
<1>0. /\ Host!Range(v4) \subseteq Calls /\ Host!Range(v3) \subseteq Connections
      /\ v6 \subseteq Connections
  BY Elements DEF Host!TypeOK
<1>1. ASSUME NEW c \in Calls, Host!NoFreeConns(c)
      PROVE  Host!TypeOK' /\ Host!OwnersDiffer' /\ Host!PoolIsOwn' /\ Host!QueueIsOrdered'
  <2>1. Host!TypeOK'
    BY <1>0, <1>1
       DEF Host!TypeOK, Host!OwnersDiffer, Host!Places, Host!NoFreeConns, Host!poolVars,
       Host!cleanVars
  <2>2. Host!OwnersDiffer'
    BY <1>0, <1>1
       DEF Host!TypeOK, Host!OwnersDiffer, Host!NoFreeConns, Host!poolVars, Host!cleanVars
  <2>3. Host!PoolIsOwn'
    BY <1>0, <1>1
       DEF Host!TypeOK, Host!OwnersDiffer, Host!PoolIsOwn, Host!Pooled, Host!NoFreeConns,
       Host!poolVars, Host!cleanVars
  <2>4. Host!QueueIsOrdered'
    BY <1>0, <1>1
       DEF Host!TypeOK, Host!OwnersDiffer, Host!QueueIsOrdered, Host!NoFreeConns, Host!poolVars,
       Host!cleanVars
  <2> QED BY <2>1, <2>2, <2>3, <2>4
<1>2. ASSUME NEW c \in Calls, Host!Create(c)
      PROVE  Host!TypeOK' /\ Host!OwnersDiffer' /\ Host!PoolIsOwn' /\ Host!QueueIsOrdered'
  <2>1. Host!TypeOK'
    BY <1>0, <1>2 DEF Host!TypeOK, Host!OwnersDiffer, Host!Places, Host!Create, Host!history
  <2>2. Host!OwnersDiffer'
    BY <1>0, <1>2 DEF Host!TypeOK, Host!OwnersDiffer, Host!Create, Host!history
  <2>3. Host!PoolIsOwn'
    BY <1>0, <1>2
       DEF Host!TypeOK, Host!OwnersDiffer, Host!PoolIsOwn, Host!Pooled, Host!Create,
       Host!history
  <2>4. Host!QueueIsOrdered'
    BY <1>0, <1>2
       DEF Host!TypeOK, Host!OwnersDiffer, Host!QueueIsOrdered, Host!Create, Host!history
  <2> QED BY <2>1, <2>2, <2>3, <2>4
<1>3. ASSUME NEW c \in Calls, Host!DialFailed(c)
      PROVE  Host!TypeOK' /\ Host!OwnersDiffer' /\ Host!PoolIsOwn' /\ Host!QueueIsOrdered'
  <2>1. Host!TypeOK'
    BY <1>0, <1>3
       DEF Host!TypeOK, Host!OwnersDiffer, Host!Places, Host!DialFailed, Host!poolVars,
       Host!cleanVars
  <2>2. Host!OwnersDiffer'
    BY <1>0, <1>3
       DEF Host!TypeOK, Host!OwnersDiffer, Host!DialFailed, Host!poolVars, Host!cleanVars
  <2>3. Host!PoolIsOwn'
    BY <1>0, <1>3
       DEF Host!TypeOK, Host!OwnersDiffer, Host!PoolIsOwn, Host!Pooled, Host!DialFailed,
       Host!poolVars, Host!cleanVars
  <2>4. Host!QueueIsOrdered'
    BY <1>0, <1>3
       DEF Host!TypeOK, Host!OwnersDiffer, Host!QueueIsOrdered, Host!DialFailed, Host!poolVars,
       Host!cleanVars
  <2> QED BY <2>1, <2>2, <2>3, <2>4
<1>4. ASSUME NEW c \in Calls, Host!WaitEnds(c)
      PROVE  Host!TypeOK' /\ Host!OwnersDiffer' /\ Host!PoolIsOwn' /\ Host!QueueIsOrdered'
  <2>1. Host!TypeOK'
    BY <1>0, <1>4
       DEF Host!TypeOK, Host!OwnersDiffer, Host!Places, Host!WaitEnds, Host!poolVars,
       Host!cleanVars
  <2>2. Host!OwnersDiffer'
    BY <1>0, <1>4
       DEF Host!TypeOK, Host!OwnersDiffer, Host!WaitEnds, Host!poolVars, Host!cleanVars
  <2>3. Host!PoolIsOwn'
    BY <1>0, <1>4
       DEF Host!TypeOK, Host!OwnersDiffer, Host!PoolIsOwn, Host!Pooled, Host!WaitEnds,
       Host!poolVars, Host!cleanVars
  <2>4. Host!QueueIsOrdered'
    BY <1>0, <1>4
       DEF Host!TypeOK, Host!OwnersDiffer, Host!QueueIsOrdered, Host!WaitEnds, Host!poolVars,
       Host!cleanVars
  <2> QED BY <2>1, <2>2, <2>3, <2>4
<1>5. ASSUME NEW c \in Calls, Host!Write(c)
      PROVE  Host!TypeOK' /\ Host!OwnersDiffer' /\ Host!PoolIsOwn' /\ Host!QueueIsOrdered'
  <2>1. Host!TypeOK'
    BY <1>0, <1>5
       DEF Host!TypeOK, Host!OwnersDiffer, Host!Places, Host!Write, Host!poolVars,
       Host!cleanVars
  <2>2. Host!OwnersDiffer'
    BY <1>0, <1>5 DEF Host!TypeOK, Host!OwnersDiffer, Host!Write, Host!poolVars, Host!cleanVars
  <2>3. Host!PoolIsOwn'
    BY <1>0, <1>5
       DEF Host!TypeOK, Host!OwnersDiffer, Host!PoolIsOwn, Host!Pooled, Host!Write,
       Host!poolVars, Host!cleanVars
  <2>4. Host!QueueIsOrdered'
    BY <1>0, <1>5
       DEF Host!TypeOK, Host!OwnersDiffer, Host!QueueIsOrdered, Host!Write, Host!poolVars,
       Host!cleanVars
  <2> QED BY <2>1, <2>2, <2>3, <2>4
<1>6. ASSUME NEW c \in Calls, Host!Read(c)
      PROVE  Host!TypeOK' /\ Host!OwnersDiffer' /\ Host!PoolIsOwn' /\ Host!QueueIsOrdered'
  <2>1. Host!TypeOK'
    BY <1>0, <1>6
       DEF Host!TypeOK, Host!OwnersDiffer, Host!Places, Host!Read, Host!poolVars, Host!cleanVars
  <2>2. Host!OwnersDiffer'
    BY <1>0, <1>6 DEF Host!TypeOK, Host!OwnersDiffer, Host!Read, Host!poolVars, Host!cleanVars
  <2>3. Host!PoolIsOwn'
    BY <1>0, <1>6
       DEF Host!TypeOK, Host!OwnersDiffer, Host!PoolIsOwn, Host!Pooled, Host!Read,
       Host!poolVars, Host!cleanVars
  <2>4. Host!QueueIsOrdered'
    BY <1>0, <1>6
       DEF Host!TypeOK, Host!OwnersDiffer, Host!QueueIsOrdered, Host!Read, Host!poolVars,
       Host!cleanVars
  <2> QED BY <2>1, <2>2, <2>3, <2>4
<1>7. ASSUME NEW c \in Calls, Host!Close(c)
      PROVE  Host!TypeOK' /\ Host!OwnersDiffer' /\ Host!PoolIsOwn' /\ Host!QueueIsOrdered'
  <2>1. Host!TypeOK'
    BY <1>0, <1>7
       DEF Host!TypeOK, Host!OwnersDiffer, Host!Places, Host!Close, Host!poolVars,
       Host!cleanVars
  <2>2. Host!OwnersDiffer'
    BY <1>0, <1>7 DEF Host!TypeOK, Host!OwnersDiffer, Host!Close, Host!poolVars, Host!cleanVars
  <2>3. Host!PoolIsOwn'
    BY <1>0, <1>7
       DEF Host!TypeOK, Host!OwnersDiffer, Host!PoolIsOwn, Host!Pooled, Host!Close,
       Host!poolVars, Host!cleanVars
  <2>4. Host!QueueIsOrdered'
    <3>1. /\ UNCHANGED <<v4, v9, v10>> /\ v7[c] = "close"
          /\ v7'[c] \in {"acquire", "done", "failed"} /\ \A d \in Calls \ {c} : v7'[d] = v7[d]
      BY <1>7 DEF Host!Close, Host!poolVars, Host!TypeOK
    <3> QED BY <1>0, <3>1 DEF Host!QueueIsOrdered
  <2> QED BY <2>1, <2>2, <2>3, <2>4
<1>8. ASSUME NEW c \in Calls, Host!Delivered(c)
      PROVE  Host!TypeOK' /\ Host!OwnersDiffer' /\ Host!PoolIsOwn' /\ Host!QueueIsOrdered'
  <2>1. Host!TypeOK'
    BY <1>0, <1>8
       DEF Host!TypeOK, Host!OwnersDiffer, Host!Places, Host!Delivered, Host!poolVars,
       Host!cleanVars
  <2>2. Host!OwnersDiffer'
    BY <1>0, <1>8
       DEF Host!TypeOK, Host!OwnersDiffer, Host!Delivered, Host!poolVars, Host!cleanVars
  <2>3. Host!PoolIsOwn'
    BY <1>0, <1>8
       DEF Host!TypeOK, Host!OwnersDiffer, Host!PoolIsOwn, Host!Pooled, Host!Delivered,
       Host!poolVars, Host!cleanVars
  <2>4. Host!QueueIsOrdered'
    BY <1>0, <1>8
       DEF Host!TypeOK, Host!OwnersDiffer, Host!QueueIsOrdered, Host!Delivered, Host!poolVars,
       Host!cleanVars
  <2> QED BY <2>1, <2>2, <2>3, <2>4
<1>9. ASSUME NEW c \in Calls, Host!Cancel(c)
      PROVE  Host!TypeOK' /\ Host!OwnersDiffer' /\ Host!PoolIsOwn' /\ Host!QueueIsOrdered'
  <2>1. Host!TypeOK'
    BY <1>0, <1>9
       DEF Host!TypeOK, Host!OwnersDiffer, Host!Places, Host!Cancel, Host!poolVars,
       Host!cleanVars
  <2>2. Host!OwnersDiffer'
    BY <1>0, <1>9 DEF Host!TypeOK, Host!OwnersDiffer, Host!Cancel, Host!poolVars, Host!cleanVars
  <2>3. Host!PoolIsOwn'
    BY <1>0, <1>9
       DEF Host!TypeOK, Host!OwnersDiffer, Host!PoolIsOwn, Host!Pooled, Host!Cancel,
       Host!poolVars, Host!cleanVars
  <2>4. Host!QueueIsOrdered'
    BY <1>0, <1>9
       DEF Host!TypeOK, Host!OwnersDiffer, Host!QueueIsOrdered, Host!Cancel, Host!poolVars,
       Host!cleanVars
  <2> QED BY <2>1, <2>2, <2>3, <2>4
<1>10. ASSUME NEW c \in Calls, Host!Dial(c)
      PROVE  Host!TypeOK' /\ Host!OwnersDiffer' /\ Host!PoolIsOwn' /\ Host!QueueIsOrdered'
  <2>1. Host!TypeOK'
    BY <1>0, HostUnused, <1>10
       DEF Host!TypeOK, Host!OwnersDiffer, Host!Places, Host!Dial, Host!poolVars, Host!cleanVars
  <2>2. Host!OwnersDiffer'
    <3>1. /\ v9' = v9 /\ v10' = v10 /\ \A d \in Calls \ {c} : v8'[d] = v8[d] /\ v7'[d] = v7[d]
          /\ \/ Host!Unused # {} /\ v8'[c] = Host!New /\ v7'[c] = "write"
             \/ v8'[c] = v8[c] /\ v7'[c] = "count"
      BY <1>10 DEF Host!Dial, Host!TypeOK
    <3> QED BY <3>1, HostUnused DEF Host!OwnersDiffer
  <2>3. Host!PoolIsOwn'
    <3>1. /\ v3' = v3 /\ v6' = v6 /\ v9' = v9 /\ v10' = v10
          /\ \A d \in Calls \ {c} : v8'[d] = v8[d]
          /\ \/ Host!Unused # {} /\ v8'[c] = Host!New
             \/ v8'[c] = v8[c]
      BY <1>10 DEF Host!Dial, Host!poolVars, Host!cleanVars, Host!TypeOK
    <3>2. Host!Pooled' = Host!Pooled
      BY <3>1 DEF Host!Pooled
    <3>3. \A d, e \in Calls : d # e /\ v8'[d] # Nobody => v8'[d] # v8'[e]
      BY <3>1, HostUnused DEF Host!PoolIsOwn
    <3>4. \A d \in Calls, k \in Host!Pooled : k \notin {v8'[d], v9'[d], v10'[d]}
      BY <3>1, HostUnused DEF Host!PoolIsOwn
    <3> QED BY <3>1, <3>2, <3>3, <3>4 DEF Host!PoolIsOwn
  <2>4. Host!QueueIsOrdered'
    BY <1>0, HostUnused, <1>10
       DEF Host!TypeOK, Host!OwnersDiffer, Host!QueueIsOrdered, Host!Dial, Host!poolVars,
       Host!cleanVars
  <2> QED BY <2>1, <2>2, <2>3, <2>4
<1>11. ASSUME NEW c \in Calls, Host!TakeIdle(c)
      PROVE  Host!TypeOK' /\ Host!OwnersDiffer' /\ Host!PoolIsOwn' /\ Host!QueueIsOrdered'
  <2>0. PICK n \in Host!Range(v3) :
           /\ v8' = [v8 EXCEPT ![c] = n] /\ v3' \in Seq(Connections)
           /\ Host!IsInjective(v3') /\ Host!Range(v3') = Host!Range(v3) \ {n}
    BY <1>11, HostTakeIdle
  <2>1. Host!TypeOK'
    BY <1>0, <2>0, <1>11
       DEF Host!TypeOK, Host!OwnersDiffer, Host!Places, Host!TakeIdle, Host!cleanVars,
       Host!Pooled
  <2>2. Host!OwnersDiffer'
    <3>1. /\ v8'[c] = n /\ n \in Host!Pooled /\ n \in Connections
          /\ \A d \in Calls \ {c} : v8'[d] = v8[d] /\ v7'[d] = v7[d]
          /\ v9' = v9 /\ v10' = v10
      BY <1>0, <2>0, <1>11 DEF Host!TakeIdle, Host!TypeOK, Host!Pooled
    <3>2. \A d \in Calls : n \notin {v8[d], v9[d], v10[d]}
      BY <3>1 DEF Host!PoolIsOwn
    <3> QED BY <3>1, <3>2 DEF Host!OwnersDiffer
  <2>3. Host!PoolIsOwn'
    <3>1. /\ v8'[c] = n /\ n \in Host!Pooled /\ n \in Connections
          /\ \A d \in Calls \ {c} : v8'[d] = v8[d]
          /\ v9' = v9 /\ v10' = v10 /\ v6' = v6
      BY <1>0, <2>0, <1>11 DEF Host!TakeIdle, Host!cleanVars, Host!TypeOK, Host!Pooled
    <3>2. Host!Pooled' = Host!Pooled \ {n}
      BY <2>0, <3>1 DEF Host!Pooled, Host!PoolIsOwn
    <3>3. \A d \in Calls : n \notin {v8[d], v9[d], v10[d]}
      BY <3>1 DEF Host!PoolIsOwn
    <3>4. \A d \in Calls, k \in Host!Pooled : k \notin {v8[d], v9[d], v10[d]}
      BY DEF Host!PoolIsOwn
    <3>5. \A d, e \in Calls : d # e /\ v8'[d] # Nobody => v8'[d] # v8'[e]
      BY <3>1, <3>3 DEF Host!PoolIsOwn
    <3>6. \A d \in Calls, k \in Host!Pooled' : k \notin {v8'[d], v9'[d], v10'[d]}
      BY <3>1, <3>2, <3>4
    <3>7. Host!IsInjective(v3') /\ Host!Range(v3') \cap v6' = {}
      BY <2>0, <3>1 DEF Host!PoolIsOwn
    <3> QED BY <3>5, <3>6, <3>7 DEF Host!PoolIsOwn
  <2>4. Host!QueueIsOrdered'
    BY <1>0, <2>0, <1>11
       DEF Host!TypeOK, Host!OwnersDiffer, Host!QueueIsOrdered, Host!TakeIdle, Host!cleanVars,
       Host!Pooled
  <2> QED BY <2>1, <2>2, <2>3, <2>4
<1>12. ASSUME NEW c \in Calls, Host!DialFor(c)
      PROVE  Host!TypeOK' /\ Host!OwnersDiffer' /\ Host!PoolIsOwn' /\ Host!QueueIsOrdered'
  <2>1. Host!TypeOK'
    <3>1. v9' \in [Calls -> Connections \cup {"none", "waiting", "error"}]
      BY HostUnused, <1>12 DEF Host!TypeOK, Host!DialFor
    <3>2. v10' \in [Calls -> Connections \cup {"none", "dial", "count"}]
      BY HostUnused, <1>12 DEF Host!TypeOK, Host!DialFor
    <3>3. UNCHANGED <<v2, v3, v4, v5, v6, v7, v8>>
      BY <1>12 DEF Host!DialFor, Host!poolVars, Host!cleanVars, Host!callVars
    <3> QED BY <3>1, <3>2, <3>3 DEF Host!TypeOK
  <2>2. Host!OwnersDiffer'
    BY <1>0, HostUnused, <1>12
       DEF Host!TypeOK, Host!OwnersDiffer, Host!DialFor, Host!poolVars, Host!cleanVars,
       Host!callVars
  <2>3. Host!PoolIsOwn'
    BY <1>0, HostUnused, <1>12
       DEF Host!TypeOK, Host!OwnersDiffer, Host!PoolIsOwn, Host!Pooled, Host!DialFor,
       Host!poolVars, Host!cleanVars, Host!callVars
  <2>4. Host!QueueIsOrdered'
    BY <1>0, HostUnused, <1>12
       DEF Host!TypeOK, Host!OwnersDiffer, Host!QueueIsOrdered, Host!DialFor, Host!poolVars,
       Host!cleanVars, Host!callVars
  <2> QED BY <2>1, <2>2, <2>3, <2>4
<1>13. ASSUME Host!Scan \/ Host!CloseIdleConnections
      PROVE  Host!TypeOK' /\ Host!OwnersDiffer' /\ Host!PoolIsOwn' /\ Host!QueueIsOrdered'
  <2>1. Host!TypeOK'
    BY <1>0, HostScan, <1>13
       DEF Host!TypeOK, Host!OwnersDiffer, Host!Places, Host!Scan, Host!CloseIdleConnections,
       Host!callVars
  <2>2. Host!OwnersDiffer'
    BY <1>0, HostScan, <1>13
       DEF Host!TypeOK, Host!OwnersDiffer, Host!Scan, Host!CloseIdleConnections, Host!callVars
  <2>3. Host!PoolIsOwn'
    BY <1>0, HostScan, <1>13
       DEF Host!TypeOK, Host!OwnersDiffer, Host!PoolIsOwn, Host!Pooled, Host!Scan,
       Host!CloseIdleConnections, Host!callVars
  <2>4. Host!QueueIsOrdered'
    BY <1>0, HostScan, <1>13
       DEF Host!TypeOK, Host!OwnersDiffer, Host!QueueIsOrdered, Host!Scan,
       Host!CloseIdleConnections, Host!callVars
  <2> QED BY <2>1, <2>2, <2>3, <2>4
<1>14. ASSUME Host!CleanerStops
      PROVE  Host!TypeOK' /\ Host!OwnersDiffer' /\ Host!PoolIsOwn' /\ Host!QueueIsOrdered'
  <2>1. Host!TypeOK'
    BY <1>0, <1>14
       DEF Host!TypeOK, Host!OwnersDiffer, Host!Places, Host!CleanerStops, Host!poolVars,
       Host!callVars
  <2>2. Host!OwnersDiffer'
    BY <1>0, <1>14
       DEF Host!TypeOK, Host!OwnersDiffer, Host!CleanerStops, Host!poolVars, Host!callVars
  <2>3. Host!PoolIsOwn'
    BY <1>0, <1>14
       DEF Host!TypeOK, Host!OwnersDiffer, Host!PoolIsOwn, Host!Pooled, Host!CleanerStops,
       Host!poolVars, Host!callVars
  <2>4. Host!QueueIsOrdered'
    BY <1>0, <1>14
       DEF Host!TypeOK, Host!OwnersDiffer, Host!QueueIsOrdered, Host!CleanerStops,
       Host!poolVars, Host!callVars
  <2> QED BY <2>1, <2>2, <2>3, <2>4
<1>15. ASSUME NEW c \in Calls, Host!QueueForIdle(c)
      PROVE  Host!TypeOK' /\ Host!OwnersDiffer' /\ Host!PoolIsOwn' /\ Host!QueueIsOrdered'
  <2>0. /\ v4' \in Seq(Calls) /\ Host!IsInjective(v4')
        /\ Host!Range(v4') \subseteq Host!Range(v4) \cup {c}
    <3> DEFINE q == IF Host!SomeoneWaits THEN Host!Behind(Host!FirstWaiting - 1) ELSE <<>>
    <3>1. q \in Seq(Calls) /\ Host!IsInjective(q) /\ Host!Range(q) \subseteq Host!Range(v4)
      <4>1. CASE Host!SomeoneWaits
        <5>1. Host!FirstWaiting - 1 \in 0 .. Len(v4)
          BY <4>1, HostFirst, Elements DEF Host!TypeOK
        <5> QED BY <4>1, <5>1, HostBehind
      <4>2. CASE ~ Host!SomeoneWaits
        BY <4>2, NoElements
      <4> QED BY <4>1, <4>2
    <3>2. v4' = Append(q, c) /\ v7[c] = "queue"
      BY <1>15 DEF Host!QueueForIdle
    <3> HIDE DEF q
    <3>3. c \notin Host!Range(v4)
      BY <3>2 DEF Host!QueueIsOrdered
    <3> QED BY <3>1, <3>2, <3>3, Appended
  <2>1. Host!TypeOK'
    BY <1>0, <2>0, <1>15
       DEF Host!TypeOK, Host!OwnersDiffer, Host!Places, Host!QueueForIdle, Host!cleanVars
  <2>2. Host!OwnersDiffer'
    BY <1>0, <2>0, <1>15 DEF Host!TypeOK, Host!OwnersDiffer, Host!QueueForIdle, Host!cleanVars
  <2>3. Host!PoolIsOwn'
    BY <1>0, <2>0, <1>15
       DEF Host!TypeOK, Host!OwnersDiffer, Host!PoolIsOwn, Host!Pooled, Host!QueueForIdle,
       Host!cleanVars
  <2>4. Host!QueueIsOrdered'
    BY <1>0, <2>0, <1>15
       DEF Host!TypeOK, Host!OwnersDiffer, Host!QueueIsOrdered, Host!QueueForIdle,
       Host!cleanVars
  <2> QED BY <2>1, <2>2, <2>3, <2>4
<1>16. ASSUME NEW c \in Calls, Host!Uncount(c)
      PROVE  Host!TypeOK' /\ Host!OwnersDiffer' /\ Host!PoolIsOwn' /\ Host!QueueIsOrdered'
  <2>0. /\ QueueShrinks /\ v3' = v3
        /\ \/ /\ \E w \in Host!Range(v4) :
                    /\ w \in Calls /\ Host!Waiting(w) /\ w \notin Host!Range(v4')
                    /\ v10' = [v10 EXCEPT ![w] = "dial"]
              /\ v2' = v2
           \/ v4' = <<>> /\ v10' = v10 /\ v2' = v2 - 1
    BY <1>16, HostDecConnsCount DEF Host!Uncount
  <2>1. Host!TypeOK'
    BY <1>0, NoElements, <2>0, <1>16
       DEF Host!TypeOK, Host!OwnersDiffer, Host!Places, Host!Uncount, Host!cleanVars
  <2>2. Host!OwnersDiffer'
    BY <1>0, NoElements, <2>0, <1>16
       DEF Host!TypeOK, Host!OwnersDiffer, Host!Uncount, Host!cleanVars
  <2>3. Host!PoolIsOwn'
    BY <1>0, NoElements, <2>0, <1>16
       DEF Host!TypeOK, Host!OwnersDiffer, Host!PoolIsOwn, Host!Pooled, Host!Uncount,
       Host!cleanVars
  <2>4. Host!QueueIsOrdered'
    BY <1>0, NoElements, <2>0, <1>16
       DEF Host!TypeOK, Host!OwnersDiffer, Host!QueueIsOrdered, Host!Uncount, Host!cleanVars
  <2> QED BY <2>1, <2>2, <2>3, <2>4
<1>17. ASSUME NEW n \in Connections, Host!CloseScratch(n)
      PROVE  Host!TypeOK' /\ Host!OwnersDiffer' /\ Host!PoolIsOwn' /\ Host!QueueIsOrdered'
  <2>0. /\ QueueShrinks /\ v3' = v3
        /\ \/ /\ \E w \in Host!Range(v4) :
                    /\ w \in Calls /\ Host!Waiting(w) /\ w \notin Host!Range(v4')
                    /\ v10' = [v10 EXCEPT ![w] = "dial"]
              /\ v2' = v2
           \/ v4' = <<>> /\ v10' = v10 /\ v2' = v2 - 1
    BY <1>17, HostDecConnsCount DEF Host!CloseScratch
  <2>1. Host!TypeOK'
    BY <1>0, NoElements, <2>0, <1>17
       DEF Host!TypeOK, Host!OwnersDiffer, Host!Places, Host!CloseScratch, Host!callVars
  <2>2. Host!OwnersDiffer'
    BY <1>0, NoElements, <2>0, <1>17
       DEF Host!TypeOK, Host!OwnersDiffer, Host!CloseScratch, Host!callVars
  <2>3. Host!PoolIsOwn'
    BY <1>0, NoElements, <2>0, <1>17
       DEF Host!TypeOK, Host!OwnersDiffer, Host!PoolIsOwn, Host!Pooled, Host!CloseScratch,
       Host!callVars
  <2>4. Host!QueueIsOrdered'
    BY <1>0, NoElements, <2>0, <1>17
       DEF Host!TypeOK, Host!OwnersDiffer, Host!QueueIsOrdered, Host!CloseScratch, Host!callVars
  <2> QED BY <2>1, <2>2, <2>3, <2>4
<1>18. ASSUME NEW c \in Calls, Host!DialForUncounts(c)
      PROVE  Host!TypeOK' /\ Host!OwnersDiffer' /\ Host!PoolIsOwn' /\ Host!QueueIsOrdered'
  <2>0. /\ QueueShrinks
        /\ v10[c] = "count" /\ v10'[c] = "none"
        /\ \/ \E w \in Calls \ {c} :
                /\ w \in Host!Range(v4) /\ Host!Waiting(w) /\ w \notin Host!Range(v4')
                /\ v10'[w] = "dial" /\ \A d \in Calls \ {c, w} : v10'[d] = v10[d]
           \/ v4' = <<>> /\ \A d \in Calls \ {c} : v10'[d] = v10[d]
    <3>0. v10[c] = "count"
      BY <1>18 DEF Host!DialForUncounts
    <3>1. CASE Host!SomeoneWaits
      <4> DEFINE w == v4[Host!FirstWaiting]
      <4>1. Host!FirstWaiting \in 1 .. Len(v4) /\ Host!Waiting(w)
        BY <3>1, HostFirst
      <4>2. /\ w \in Host!Range(v4) /\ w \in Calls
            /\ Host!FirstWaiting > 0 /\ Host!FirstWaiting \in 0 .. Len(v4)
        BY <4>1, Elements DEF Host!TypeOK
      <4>3. /\ v10' = [v10 EXCEPT ![c] = "none", ![w] = "dial"]
            /\ v4' = Host!Behind(Host!FirstWaiting)
        BY <1>18, <3>1 DEF Host!DialForUncounts
      <4>4. w # c
        BY <3>0, <4>2 DEF Host!QueueIsOrdered
      <4>5. QueueShrinks /\ w \notin Host!Range(v4')
        BY <4>2, <4>3, HostBehind
      <4> HIDE DEF w
      <4>6. /\ v10'[c] = "none" /\ v10'[w] = "dial"
            /\ \A d \in Calls \ {c, w} : v10'[d] = v10[d]
        BY <4>2, <4>3, <4>4 DEF Host!TypeOK
      <4> QED BY <3>0, <4>1, <4>2, <4>4, <4>5, <4>6
    <3>2. CASE ~ Host!SomeoneWaits
      <4>1. v10' = [v10 EXCEPT ![c] = "none"] /\ v4' = <<>>
        BY <1>18, <3>2 DEF Host!DialForUncounts
      <4>2. v10'[c] = "none" /\ \A d \in Calls \ {c} : v10'[d] = v10[d]
        BY <4>1 DEF Host!TypeOK
      <4> QED BY <3>0, <4>1, <4>2, NoElements
    <3> QED BY <3>1, <3>2
  <2>t. /\ v10' \in [Calls -> Connections \cup {"none", "dial", "count"}]
        /\ v2' \in Int /\ UNCHANGED <<v3, v5, v6, v7, v8, v9>>
    BY <1>18 DEF Host!DialForUncounts, Host!callVars, Host!cleanVars, Host!TypeOK
  <2>1. Host!TypeOK'
    BY <2>0, <2>t DEF Host!TypeOK
  <2>2. Host!OwnersDiffer'
    BY <2>0, <2>t DEF Host!OwnersDiffer
  <2>3. Host!PoolIsOwn'
    BY <1>0, <2>0, <2>t DEF Host!PoolIsOwn, Host!Pooled
  <2>4. Host!QueueIsOrdered'
    BY <1>0, <2>0, <2>t, NoElements DEF Host!QueueIsOrdered
  <2> QED BY <2>1, <2>2, <2>3, <2>4
<1>19. ASSUME NEW c \in Calls, Host!Release(c)
      PROVE  Host!TypeOK' /\ Host!OwnersDiffer' /\ Host!PoolIsOwn' /\ Host!QueueIsOrdered'
  <2> DEFINE n == v8[c]  calls == [v7 EXCEPT ![c] = IF v7[c] = "give" THEN "failed" ELSE "done"]
  <2>r. n \in Connections /\ n \notin Host!Range(v3) /\ n \notin v6 /\ Host!ReleaseConn(n, calls)
    BY <1>19 DEF Host!Release, Host!OwnersDiffer, Host!PoolIsOwn, Host!Pooled, Host!TypeOK
  <2>c. /\ calls \in [Calls -> Host!Places] /\ v7[c] \in {"release", "give"}
        /\ calls[c] \in {"failed", "done"} /\ \A d \in Calls \ {c} : calls[d] = v7[d]
    BY <1>19 DEF Host!Release, Host!TypeOK, Host!Places
  <2>o. /\ UNCHANGED <<v5, v6, v10>> /\ v8' \in [Calls -> Connections \cup {Nobody}]
        /\ v8'[c] = Nobody /\ v8[c] = n /\ \A d \in Calls \ {c} : v8'[d] = v8[d]
    BY <1>19 DEF Host!Release, Host!cleanVars, Host!TypeOK
  <2>f. \A d \in Calls : n # v8'[d] /\ n # v9[d] /\ n # v10'[d]
    BY <2>r, <2>o DEF Host!OwnersDiffer, Host!PoolIsOwn
  <2> HIDE DEF n, calls
  <2>0. /\ QueueShrinks /\ v2' = v2
        /\ \/ /\ \E w \in Host!Range(v4) :
                    /\ w \in Calls /\ Host!Waiting(w) /\ w \notin Host!Range(v4')
                    /\ v9' = [v9 EXCEPT ![w] = n]
              /\ v7' = calls /\ v3' = v3
           \/ /\ \E w \in Host!Range(v4) :
                    /\ w \in Calls /\ Host!Waiting(w) /\ w \notin Host!Range(v4')
                    /\ v7[w] = "cancel" /\ v9' = [v9 EXCEPT ![w] = "none"]
                    /\ v7' = [calls EXCEPT ![w] = "failed"]
              /\ Pooling(n)
           \/ v4' = <<>> /\ v9' = v9 /\ v7' = calls /\ Pooling(n)
    BY <2>r, HostReleaseConn
  <2>w. QueueShrinks
    BY <2>0
  <2>p. /\ QueueShrinks
        /\ \/ \E w \in Calls :
                /\ w \in Host!Range(v4) /\ Host!Waiting(w) /\ w \notin Host!Range(v4')
                /\ v9'[w] = n /\ \A d \in Calls \ {w} : v9'[d] = v9[d]
                /\ v7' = calls /\ v3' = v3
           \/ \E w \in Calls :
                /\ w \in Host!Range(v4) /\ Host!Waiting(w) /\ w \notin Host!Range(v4')
                /\ v7[w] = "cancel" /\ v9'[w] = "none" /\ \A d \in Calls \ {w} : v9'[d] = v9[d]
                /\ v7'[w] = "failed" /\ \A d \in Calls \ {w} : v7'[d] = calls[d]
                /\ Pooling(n)
           \/ v4' = <<>> /\ v9' = v9 /\ v7' = calls /\ Pooling(n)
    BY <2>0, <2>c DEF Host!TypeOK
  <2>t. /\ v9' \in [Calls -> Connections \cup {"none", "waiting", "error"}]
        /\ v7' \in [Calls -> Host!Places]
    <3>1. v9' \in [Calls -> Connections \cup {"none", "waiting", "error"}]
      BY <2>0, <2>r DEF Host!TypeOK
    <3>2. v7' = calls \/ \E w : v7' = [calls EXCEPT ![w] = "failed"]
      BY <2>0
    <3> QED BY <2>c, <3>1, <3>2 DEF Host!Places
  <2>1. Host!TypeOK'
    BY <2>0, <2>t, <2>o, <2>c DEF Host!TypeOK
  <2>2. Host!OwnersDiffer'
    <3>1. ASSUME NEW w \in Calls, w \in Host!Range(v4), Host!Waiting(w), w \notin Host!Range(v4'),
                 v9'[w] = n, \A d \in Calls \ {w} : v9'[d] = v9[d], v7' = calls, v3' = v3
          PROVE  Host!OwnersDiffer'
      BY <1>0, <2>c, <2>o, <2>r, <2>w, <2>f, <3>1 DEF Host!OwnersDiffer
    <3>2. ASSUME NEW w \in Calls, w \in Host!Range(v4), Host!Waiting(w), w \notin Host!Range(v4'),
                 v7[w] = "cancel", v9'[w] = "none", \A d \in Calls \ {w} : v9'[d] = v9[d],
                 v7'[w] = "failed", \A d \in Calls \ {w} : v7'[d] = calls[d],
                 Pooling(n)
          PROVE  Host!OwnersDiffer'
      BY <1>0, <2>c, <2>o, <2>r, <2>w, <2>f, <3>2 DEF Host!OwnersDiffer
    <3>3. ASSUME v4' = <<>>, v9' = v9, v7' = calls, Pooling(n)
          PROVE  Host!OwnersDiffer'
      BY <1>0, <2>c, <2>o, <2>r, <2>w, <2>f, <3>3, NoElements DEF Host!OwnersDiffer
    <3> QED BY <2>p, <3>1, <3>2, <3>3
  <2>3. Host!PoolIsOwn'
    <3>1. ASSUME NEW w \in Calls, w \in Host!Range(v4), Host!Waiting(w), w \notin Host!Range(v4'),
                 v9'[w] = n, \A d \in Calls \ {w} : v9'[d] = v9[d], v7' = calls, v3' = v3
          PROVE  Host!PoolIsOwn'
      BY <1>0, <2>c, <2>o, <2>r, <2>w, <2>f, <3>1 DEF Host!PoolIsOwn, Host!Pooled
    <3>2. ASSUME NEW w \in Calls, w \in Host!Range(v4), Host!Waiting(w), w \notin Host!Range(v4'),
                 v7[w] = "cancel", v9'[w] = "none", \A d \in Calls \ {w} : v9'[d] = v9[d],
                 v7'[w] = "failed", \A d \in Calls \ {w} : v7'[d] = calls[d],
                 Pooling(n)
          PROVE  Host!PoolIsOwn'
      BY <1>0, <2>c, <2>o, <2>r, <2>w, <2>f, <3>2 DEF Host!PoolIsOwn, Host!Pooled
    <3>3. ASSUME v4' = <<>>, v9' = v9, v7' = calls, Pooling(n)
          PROVE  Host!PoolIsOwn'
      BY <1>0, <2>c, <2>o, <2>r, <2>w, <2>f, <3>3, NoElements DEF Host!PoolIsOwn, Host!Pooled
    <3> QED BY <2>p, <3>1, <3>2, <3>3
  <2>4. Host!QueueIsOrdered'
    <3>1. ASSUME NEW w \in Calls, w \in Host!Range(v4), Host!Waiting(w), w \notin Host!Range(v4'),
                 v9'[w] = n, \A d \in Calls \ {w} : v9'[d] = v9[d], v7' = calls, v3' = v3
          PROVE  Host!QueueIsOrdered'
      <4>1. \A d \in Calls : v9'[d] # "none" <=> v7'[d] \in {"wait", "cancel"}
        BY <1>0, <2>c, <2>o, <2>r, <2>w, <2>f, <3>1 DEF Host!QueueIsOrdered
      <4>2. \A d \in Host!Range(v4') :
             /\ v10'[d] = "none"
             /\ (v7'[d] \in {"wait", "cancel"} /\ v9'[d] = "waiting") \/ v7'[d] = "failed"
        BY <1>0, <2>c, <2>o, <2>r, <2>w, <2>f, <3>1 DEF Host!QueueIsOrdered
      <4>3. \A d \in Calls :
              v10'[d] # "none" => v9'[d] \in {"waiting", "error"} \/ v7'[d] = "failed"
        BY <1>0, <2>c, <2>o, <2>r, <2>w, <2>f, <3>1 DEF Host!QueueIsOrdered
      <4> QED BY <2>w, <4>1, <4>2, <4>3 DEF Host!QueueIsOrdered
    <3>2. ASSUME NEW w \in Calls, w \in Host!Range(v4), Host!Waiting(w), w \notin Host!Range(v4'),
                 v7[w] = "cancel", v9'[w] = "none", \A d \in Calls \ {w} : v9'[d] = v9[d],
                 v7'[w] = "failed", \A d \in Calls \ {w} : v7'[d] = calls[d],
                 Pooling(n)
          PROVE  Host!QueueIsOrdered'
      <4>1. \A d \in Calls : v9'[d] # "none" <=> v7'[d] \in {"wait", "cancel"}
        BY <1>0, <2>c, <2>o, <2>r, <2>w, <2>f, <3>2 DEF Host!QueueIsOrdered
      <4>2. \A d \in Host!Range(v4') :
             /\ v10'[d] = "none"
             /\ (v7'[d] \in {"wait", "cancel"} /\ v9'[d] = "waiting") \/ v7'[d] = "failed"
        BY <1>0, <2>c, <2>o, <2>r, <2>w, <2>f, <3>2 DEF Host!QueueIsOrdered
      <4>3. \A d \in Calls :
              v10'[d] # "none" => v9'[d] \in {"waiting", "error"} \/ v7'[d] = "failed"
        BY <1>0, <2>c, <2>o, <2>r, <2>w, <2>f, <3>2 DEF Host!QueueIsOrdered
      <4> QED BY <2>w, <4>1, <4>2, <4>3 DEF Host!QueueIsOrdered
    <3>3. ASSUME v4' = <<>>, v9' = v9, v7' = calls, Pooling(n)
          PROVE  Host!QueueIsOrdered'
      <4>1. \A d \in Calls : v9'[d] # "none" <=> v7'[d] \in {"wait", "cancel"}
        BY <1>0, <2>c, <2>o, <2>r, <2>w, <2>f, <3>3, NoElements DEF Host!QueueIsOrdered
      <4>2. \A d \in Host!Range(v4') :
             /\ v10'[d] = "none"
             /\ (v7'[d] \in {"wait", "cancel"} /\ v9'[d] = "waiting") \/ v7'[d] = "failed"
        BY <1>0, <2>c, <2>o, <2>r, <2>w, <2>f, <3>3, NoElements DEF Host!QueueIsOrdered
      <4>3. \A d \in Calls :
              v10'[d] # "none" => v9'[d] \in {"waiting", "error"} \/ v7'[d] = "failed"
        BY <1>0, <2>c, <2>o, <2>r, <2>w, <2>f, <3>3, NoElements DEF Host!QueueIsOrdered
      <4> QED BY <2>w, <4>1, <4>2, <4>3 DEF Host!QueueIsOrdered
    <3> QED BY <2>p, <3>1, <3>2, <3>3
  <2> QED BY <2>1, <2>2, <2>3, <2>4
<1>20. ASSUME NEW c \in Calls, Host!DialForReleases(c)
      PROVE  Host!TypeOK' /\ Host!OwnersDiffer' /\ Host!PoolIsOwn' /\ Host!QueueIsOrdered'
  <2> DEFINE n == v10[c]  calls == v7
  <2>r. n \in Connections /\ n \notin Host!Range(v3) /\ n \notin v6 /\ Host!ReleaseConn(n, calls)
    BY <1>20
       DEF Host!DialForReleases, Host!OwnersDiffer, Host!PoolIsOwn, Host!Pooled, Host!TypeOK
  <2>c. calls \in [Calls -> Host!Places] /\ calls = v7
    BY <1>20 DEF Host!DialForReleases, Host!TypeOK, Host!Places
  <2>o. /\ UNCHANGED <<v5, v6, v8>>
        /\ v10' \in [Calls -> Connections \cup {"none", "dial", "count"}]
        /\ v10'[c] = "none" /\ v10[c] = n /\ \A d \in Calls \ {c} : v10'[d] = v10[d]
    BY <1>20 DEF Host!DialForReleases, Host!cleanVars, Host!TypeOK
  <2>f. \A d \in Calls : n # v8'[d] /\ n # v9[d] /\ n # v10'[d]
    BY <2>r, <2>o DEF Host!OwnersDiffer, Host!PoolIsOwn
  <2> HIDE DEF n, calls
  <2>0. /\ QueueShrinks /\ v2' = v2
        /\ \/ /\ \E w \in Host!Range(v4) :
                    /\ w \in Calls /\ Host!Waiting(w) /\ w \notin Host!Range(v4')
                    /\ v9' = [v9 EXCEPT ![w] = n]
              /\ v7' = calls /\ v3' = v3
           \/ /\ \E w \in Host!Range(v4) :
                    /\ w \in Calls /\ Host!Waiting(w) /\ w \notin Host!Range(v4')
                    /\ v7[w] = "cancel" /\ v9' = [v9 EXCEPT ![w] = "none"]
                    /\ v7' = [calls EXCEPT ![w] = "failed"]
              /\ Pooling(n)
           \/ v4' = <<>> /\ v9' = v9 /\ v7' = calls /\ Pooling(n)
    BY <2>r, HostReleaseConn
  <2>w. QueueShrinks
    BY <2>0
  <2>p. /\ QueueShrinks
        /\ \/ \E w \in Calls :
                /\ w \in Host!Range(v4) /\ Host!Waiting(w) /\ w \notin Host!Range(v4')
                /\ v9'[w] = n /\ \A d \in Calls \ {w} : v9'[d] = v9[d]
                /\ v7' = calls /\ v3' = v3
           \/ \E w \in Calls :
                /\ w \in Host!Range(v4) /\ Host!Waiting(w) /\ w \notin Host!Range(v4')
                /\ v7[w] = "cancel" /\ v9'[w] = "none" /\ \A d \in Calls \ {w} : v9'[d] = v9[d]
                /\ v7'[w] = "failed" /\ \A d \in Calls \ {w} : v7'[d] = calls[d]
                /\ Pooling(n)
           \/ v4' = <<>> /\ v9' = v9 /\ v7' = calls /\ Pooling(n)
    BY <2>0, <2>c DEF Host!TypeOK
  <2>t. /\ v9' \in [Calls -> Connections \cup {"none", "waiting", "error"}]
        /\ v7' \in [Calls -> Host!Places]
    <3>1. v9' \in [Calls -> Connections \cup {"none", "waiting", "error"}]
      BY <2>0, <2>r DEF Host!TypeOK
    <3>2. v7' = calls \/ \E w : v7' = [calls EXCEPT ![w] = "failed"]
      BY <2>0
    <3> QED BY <2>c, <3>1, <3>2 DEF Host!Places
  <2>1. Host!TypeOK'
    BY <2>0, <2>t, <2>o, <2>c DEF Host!TypeOK
  <2>2. Host!OwnersDiffer'
    <3>1. ASSUME NEW w \in Calls, w \in Host!Range(v4), Host!Waiting(w), w \notin Host!Range(v4'),
                 v9'[w] = n, \A d \in Calls \ {w} : v9'[d] = v9[d], v7' = calls, v3' = v3
          PROVE  Host!OwnersDiffer'
      BY <1>0, <2>c, <2>o, <2>r, <2>w, <2>f, <3>1 DEF Host!OwnersDiffer
    <3>2. ASSUME NEW w \in Calls, w \in Host!Range(v4), Host!Waiting(w), w \notin Host!Range(v4'),
                 v7[w] = "cancel", v9'[w] = "none", \A d \in Calls \ {w} : v9'[d] = v9[d],
                 v7'[w] = "failed", \A d \in Calls \ {w} : v7'[d] = calls[d],
                 Pooling(n)
          PROVE  Host!OwnersDiffer'
      BY <1>0, <2>c, <2>o, <2>r, <2>w, <2>f, <3>2 DEF Host!OwnersDiffer
    <3>3. ASSUME v4' = <<>>, v9' = v9, v7' = calls, Pooling(n)
          PROVE  Host!OwnersDiffer'
      BY <1>0, <2>c, <2>o, <2>r, <2>w, <2>f, <3>3, NoElements DEF Host!OwnersDiffer
    <3> QED BY <2>p, <3>1, <3>2, <3>3
  <2>3. Host!PoolIsOwn'
    <3>1. ASSUME NEW w \in Calls, w \in Host!Range(v4), Host!Waiting(w), w \notin Host!Range(v4'),
                 v9'[w] = n, \A d \in Calls \ {w} : v9'[d] = v9[d], v7' = calls, v3' = v3
          PROVE  Host!PoolIsOwn'
      BY <1>0, <2>c, <2>o, <2>r, <2>w, <2>f, <3>1 DEF Host!PoolIsOwn, Host!Pooled
    <3>2. ASSUME NEW w \in Calls, w \in Host!Range(v4), Host!Waiting(w), w \notin Host!Range(v4'),
                 v7[w] = "cancel", v9'[w] = "none", \A d \in Calls \ {w} : v9'[d] = v9[d],
                 v7'[w] = "failed", \A d \in Calls \ {w} : v7'[d] = calls[d],
                 Pooling(n)
          PROVE  Host!PoolIsOwn'
      BY <1>0, <2>c, <2>o, <2>r, <2>w, <2>f, <3>2 DEF Host!PoolIsOwn, Host!Pooled
    <3>3. ASSUME v4' = <<>>, v9' = v9, v7' = calls, Pooling(n)
          PROVE  Host!PoolIsOwn'
      BY <1>0, <2>c, <2>o, <2>r, <2>w, <2>f, <3>3, NoElements DEF Host!PoolIsOwn, Host!Pooled
    <3> QED BY <2>p, <3>1, <3>2, <3>3
  <2>4. Host!QueueIsOrdered'
    <3>1. ASSUME NEW w \in Calls, w \in Host!Range(v4), Host!Waiting(w), w \notin Host!Range(v4'),
                 v9'[w] = n, \A d \in Calls \ {w} : v9'[d] = v9[d], v7' = calls, v3' = v3
          PROVE  Host!QueueIsOrdered'
      <4>1. \A d \in Calls : v9'[d] # "none" <=> v7'[d] \in {"wait", "cancel"}
        BY <1>0, <2>c, <2>o, <2>r, <2>w, <2>f, <3>1 DEF Host!QueueIsOrdered
      <4>2. \A d \in Host!Range(v4') :
             /\ v10'[d] = "none"
             /\ (v7'[d] \in {"wait", "cancel"} /\ v9'[d] = "waiting") \/ v7'[d] = "failed"
        BY <1>0, <2>c, <2>o, <2>r, <2>w, <2>f, <3>1 DEF Host!QueueIsOrdered
      <4>3. \A d \in Calls :
              v10'[d] # "none" => v9'[d] \in {"waiting", "error"} \/ v7'[d] = "failed"
        BY <1>0, <2>c, <2>o, <2>r, <2>w, <2>f, <3>1 DEF Host!QueueIsOrdered
      <4> QED BY <2>w, <4>1, <4>2, <4>3 DEF Host!QueueIsOrdered
    <3>2. ASSUME NEW w \in Calls, w \in Host!Range(v4), Host!Waiting(w), w \notin Host!Range(v4'),
                 v7[w] = "cancel", v9'[w] = "none", \A d \in Calls \ {w} : v9'[d] = v9[d],
                 v7'[w] = "failed", \A d \in Calls \ {w} : v7'[d] = calls[d],
                 Pooling(n)
          PROVE  Host!QueueIsOrdered'
      <4>1. \A d \in Calls : v9'[d] # "none" <=> v7'[d] \in {"wait", "cancel"}
        BY <1>0, <2>c, <2>o, <2>r, <2>w, <2>f, <3>2 DEF Host!QueueIsOrdered
      <4>2. \A d \in Host!Range(v4') :
             /\ v10'[d] = "none"
             /\ (v7'[d] \in {"wait", "cancel"} /\ v9'[d] = "waiting") \/ v7'[d] = "failed"
        BY <1>0, <2>c, <2>o, <2>r, <2>w, <2>f, <3>2 DEF Host!QueueIsOrdered
      <4>3. \A d \in Calls :
              v10'[d] # "none" => v9'[d] \in {"waiting", "error"} \/ v7'[d] = "failed"
        BY <1>0, <2>c, <2>o, <2>r, <2>w, <2>f, <3>2 DEF Host!QueueIsOrdered
      <4> QED BY <2>w, <4>1, <4>2, <4>3 DEF Host!QueueIsOrdered
    <3>3. ASSUME v4' = <<>>, v9' = v9, v7' = calls, Pooling(n)
          PROVE  Host!QueueIsOrdered'
      <4>1. \A d \in Calls : v9'[d] # "none" <=> v7'[d] \in {"wait", "cancel"}
        BY <1>0, <2>c, <2>o, <2>r, <2>w, <2>f, <3>3, NoElements DEF Host!QueueIsOrdered
      <4>2. \A d \in Host!Range(v4') :
             /\ v10'[d] = "none"
             /\ (v7'[d] \in {"wait", "cancel"} /\ v9'[d] = "waiting") \/ v7'[d] = "failed"
        BY <1>0, <2>c, <2>o, <2>r, <2>w, <2>f, <3>3, NoElements DEF Host!QueueIsOrdered
      <4>3. \A d \in Calls :
              v10'[d] # "none" => v9'[d] \in {"waiting", "error"} \/ v7'[d] = "failed"
        BY <1>0, <2>c, <2>o, <2>r, <2>w, <2>f, <3>3, NoElements DEF Host!QueueIsOrdered
      <4> QED BY <2>w, <4>1, <4>2, <4>3 DEF Host!QueueIsOrdered
    <3> QED BY <2>p, <3>1, <3>2, <3>3
  <2> QED BY <2>1, <2>2, <2>3, <2>4
<1> QED BY <1>1, <1>2, <1>3, <1>4, <1>5, <1>6, <1>7, <1>8, <1>9, <1>10, <1>11, <1>12, <1>13,
  <1>14, <1>15, <1>16, <1>17, <1>18, <1>19, <1>20
  DEF Host!Next, Host!CallStep

LEMMA HostSets ==
  /\ Host!TypeOK => IsFiniteSet(Host!Pooled) /\ Cardinality(Host!Pooled) \in Nat
  /\ IsFiniteSet(Host!Delivering) /\ Cardinality(Host!Delivering) \in Nat
  /\ IsFiniteSet(Host!Dialling) /\ Cardinality(Host!Dialling) \in Nat
  /\ IsFiniteSet(Host!Using) /\ Cardinality(Host!Using) \in Nat
<1>1. Host!TypeOK => Host!Pooled \subseteq Connections
  BY Elements DEF Host!Pooled, Host!TypeOK
<1>2. /\ Host!Delivering \subseteq Calls /\ Host!Dialling \subseteq Calls
      /\ Host!Using \subseteq Calls
  BY DEF Host!Delivering, Host!Dialling, Host!Using
<1> QED BY <1>1, <1>2, HostAssumption, CallsAssumption, FS_Subset, FS_CardinalityType

(* A connection more, or less, changes the count by one. *)
LEMMA HostCount ==
  ASSUME Host!TypeOK, Host!OwnersDiffer, Host!PoolIsOwn, Host!QueueIsOrdered,
         Host!CountIsExact, v2 <= MaxConns, Host!Next
  PROVE  Host!CountIsExact' /\ v2' <= MaxConns
<1> USE HostAssumption DEF Host!Goto, Host!Waiting
<1>0. /\ v2 = Cardinality(Host!Pooled) + Cardinality(Host!Delivering) + Cardinality(Host!Dialling)
               + Cardinality(Host!Using)
      /\ v2 \in Int
  BY HostCounts DEF Host!CountIsExact, Host!TypeOK
<1>a. ASSUME /\ v2' = Cardinality(Host!Pooled') + Cardinality(Host!Delivering')
                       + Cardinality(Host!Dialling') + Cardinality(Host!Using')
             /\ v2' <= MaxConns
      PROVE  Host!CountIsExact' /\ v2' <= MaxConns
  BY <1>a, HostCounts DEF Host!CountIsExact
<1>b. /\ IsFiniteSet(Host!Pooled) /\ Cardinality(Host!Pooled) \in Nat
      /\ IsFiniteSet(Host!Delivering) /\ Cardinality(Host!Delivering) \in Nat
      /\ IsFiniteSet(Host!Dialling) /\ Cardinality(Host!Dialling) \in Nat
      /\ IsFiniteSet(Host!Using) /\ Cardinality(Host!Using) \in Nat
  BY HostSets
<1>1. ASSUME NEW c \in Calls,
             \/ Host!NoFreeConns(c) \/ Host!QueueForIdle(c) \/ Host!DialFailed(c)
             \/ Host!WaitEnds(c) \/ Host!Dial(c) \/ Host!Write(c) \/ Host!Read(c) \/ Host!Close(c)
      PROVE  Host!CountIsExact' /\ v2' <= MaxConns
  <2>1. /\ v2' = v2 /\ v3' = v3 /\ v6' = v6 /\ v10' = v10
        /\ v9'[c] \in Connections <=> v9[c] \in Connections
        /\ v7'[c] \in {"dial", "give", "write", "read", "release", "count"}
             <=> v7[c] \in {"dial", "give", "write", "read", "release", "count"}
        /\ \A d \in Calls \ {c} : v7'[d] = v7[d] /\ v9'[d] = v9[d]
    BY <1>1 DEF Host!NoFreeConns, Host!QueueForIdle, Host!DialFailed, Host!WaitEnds, Host!Dial,
       Host!Write, Host!Read, Host!Close, Host!poolVars, Host!cleanVars, Host!TypeOK,
       Host!QueueIsOrdered
  <2>2. Host!Pooled' = Host!Pooled
    BY <2>1 DEF Host!Pooled
  <2>3. Host!Delivering' = Host!Delivering
    BY <2>1 DEF Host!Delivering
  <2>4. Host!Dialling' = Host!Dialling
    BY <2>1 DEF Host!Dialling
  <2>5. Host!Using' = Host!Using
    BY <2>1 DEF Host!Using
  <2>6. Cardinality(Host!Pooled') = Cardinality(Host!Pooled)
    BY <2>2
  <2>7. Cardinality(Host!Delivering') = Cardinality(Host!Delivering)
    BY <2>3
  <2>8. Cardinality(Host!Dialling') = Cardinality(Host!Dialling)
    BY <2>4
  <2>9. Cardinality(Host!Using') = Cardinality(Host!Using)
    BY <2>5
  <2> QED BY <1>0, <1>a, <2>1, <2>6, <2>7, <2>8, <2>9
<1>2. CASE Host!Scan \/ Host!CloseIdleConnections \/ Host!CleanerStops
  <2>1. v2' = v2 /\ v7' = v7 /\ v9' = v9 /\ v10' = v10
    BY <1>2
       DEF Host!Scan, Host!CloseIdleConnections, Host!CleanerStops, Host!callVars, Host!poolVars
  <2>0. Host!Range(v3') \cup v6' = Host!Range(v3) \cup v6
    BY <1>2, HostScan DEF Host!CleanerStops, Host!poolVars
  <2>2. Host!Pooled' = Host!Pooled
    BY <2>0, <2>1 DEF Host!Pooled
  <2>3. Host!Delivering' = Host!Delivering
    BY <2>0, <2>1 DEF Host!Delivering
  <2>4. Host!Dialling' = Host!Dialling
    BY <2>0, <2>1 DEF Host!Dialling
  <2>5. Host!Using' = Host!Using
    BY <2>0, <2>1 DEF Host!Using
  <2>6. Cardinality(Host!Pooled') = Cardinality(Host!Pooled)
    BY <2>2
  <2>7. Cardinality(Host!Delivering') = Cardinality(Host!Delivering)
    BY <2>3
  <2>8. Cardinality(Host!Dialling') = Cardinality(Host!Dialling)
    BY <2>4
  <2>9. Cardinality(Host!Using') = Cardinality(Host!Using)
    BY <2>5
  <2> QED BY <1>0, <1>a, <2>1, <2>6, <2>7, <2>8, <2>9
<1>3. ASSUME NEW c \in Calls, Host!TakeIdle(c)
      PROVE  Host!CountIsExact' /\ v2' <= MaxConns
  <2>0. PICK n \in Host!Range(v3) : Host!Range(v3') = Host!Range(v3) \ {n}
    BY <1>3, HostTakeIdle
  <2>1. /\ v2' = v2 /\ v6' = v6 /\ v9' = v9 /\ v10' = v10 /\ n \notin v6
        /\ v7[c] = "acquire" /\ v7'[c] = "write" /\ \A d \in Calls \ {c} : v7'[d] = v7[d]
    BY <1>3, <2>0 DEF Host!TakeIdle, Host!cleanVars, Host!PoolIsOwn, Host!TypeOK
  <2>2. Host!Pooled' = Host!Pooled \ {n} /\ n \in Host!Pooled
    BY <2>0, <2>1 DEF Host!Pooled
  <2>3. Host!Delivering' = Host!Delivering
    BY <2>0, <2>1 DEF Host!Delivering
  <2>4. Host!Dialling' = Host!Dialling
    BY <2>0, <2>1 DEF Host!Dialling
  <2>5. Host!Using' = Host!Using \cup {c} /\ c \notin Host!Using
    BY <2>0, <2>1 DEF Host!Using
  <2>6. Cardinality(Host!Pooled') = Cardinality(Host!Pooled) - 1
    BY <2>2, <1>b, FS_RemoveElement
  <2>7. Cardinality(Host!Delivering') = Cardinality(Host!Delivering)
    BY <2>3
  <2>8. Cardinality(Host!Dialling') = Cardinality(Host!Dialling)
    BY <2>4
  <2>9. Cardinality(Host!Using') = Cardinality(Host!Using) + 1
    BY <2>5, <1>b, FS_AddElement
  <2> QED BY <1>0, <1>a, <1>b, <2>1, <2>6, <2>7, <2>8, <2>9
<1>4. ASSUME NEW c \in Calls, Host!Create(c)
      PROVE  Host!CountIsExact' /\ v2' <= MaxConns
  <2>1. /\ v2' = v2 + 1 /\ v2 < MaxConns /\ v3' = v3 /\ v6' = v6 /\ v9' = v9 /\ v10' = v10
        /\ v7[c] = "acquire" /\ v7'[c] = "dial" /\ \A d \in Calls \ {c} : v7'[d] = v7[d]
    BY <1>4 DEF Host!Create, Host!TypeOK
  <2>2. Host!Pooled' = Host!Pooled
    BY <2>1 DEF Host!Pooled
  <2>3. Host!Delivering' = Host!Delivering
    BY <2>1 DEF Host!Delivering
  <2>4. Host!Dialling' = Host!Dialling
    BY <2>1 DEF Host!Dialling
  <2>5. Host!Using' = Host!Using \cup {c} /\ c \notin Host!Using
    BY <2>1 DEF Host!Using
  <2>6. Cardinality(Host!Pooled') = Cardinality(Host!Pooled)
    BY <2>2
  <2>7. Cardinality(Host!Delivering') = Cardinality(Host!Delivering)
    BY <2>3
  <2>8. Cardinality(Host!Dialling') = Cardinality(Host!Dialling)
    BY <2>4
  <2>9. Cardinality(Host!Using') = Cardinality(Host!Using) + 1
    BY <2>5, <1>b, FS_AddElement
  <2> QED BY <1>0, <1>a, <1>b, <2>1, <2>6, <2>7, <2>8, <2>9
<1>5. ASSUME NEW c \in Calls, Host!Delivered(c) \/ (Host!Cancel(c) /\ v9[c] \in Connections)
      PROVE  Host!CountIsExact' /\ v2' <= MaxConns
  <2>1. /\ v2' = v2 /\ v3' = v3 /\ v6' = v6 /\ v10' = v10
        /\ v9[c] \in Connections /\ v9'[c] = "none" /\ \A d \in Calls \ {c} : v9'[d] = v9[d]
        /\ v7[c] \in {"wait", "cancel"} /\ v7'[c] \in {"write", "give"}
        /\ \A d \in Calls \ {c} : v7'[d] = v7[d]
    BY <1>5 DEF Host!Delivered, Host!Cancel, Host!poolVars, Host!cleanVars, Host!TypeOK
  <2>2. Host!Pooled' = Host!Pooled
    BY <2>1 DEF Host!Pooled
  <2>3. Host!Delivering' = Host!Delivering \ {c} /\ c \in Host!Delivering
    BY <2>1 DEF Host!Delivering
  <2>4. Host!Dialling' = Host!Dialling
    BY <2>1 DEF Host!Dialling
  <2>5. Host!Using' = Host!Using \cup {c} /\ c \notin Host!Using
    BY <2>1 DEF Host!Using
  <2>6. Cardinality(Host!Pooled') = Cardinality(Host!Pooled)
    BY <2>2
  <2>7. Cardinality(Host!Delivering') = Cardinality(Host!Delivering) - 1
    BY <2>3, <1>b, FS_RemoveElement
  <2>8. Cardinality(Host!Dialling') = Cardinality(Host!Dialling)
    BY <2>4
  <2>9. Cardinality(Host!Using') = Cardinality(Host!Using) + 1
    BY <2>5, <1>b, FS_AddElement
  <2> QED BY <1>0, <1>a, <1>b, <2>1, <2>6, <2>7, <2>8, <2>9
<1>6. ASSUME NEW c \in Calls, Host!Cancel(c) /\ v9[c] \notin Connections
      PROVE  Host!CountIsExact' /\ v2' <= MaxConns
  <2>1. /\ v2' = v2 /\ v3' = v3 /\ v6' = v6 /\ v10' = v10
        /\ v9[c] \notin Connections /\ v9'[c] = "none" /\ \A d \in Calls \ {c} : v9'[d] = v9[d]
        /\ v7[c] = "cancel" /\ v7'[c] = "failed"
        /\ \A d \in Calls \ {c} : v7'[d] = v7[d]
    BY <1>6 DEF Host!Cancel, Host!poolVars, Host!cleanVars, Host!TypeOK
  <2>2. Host!Pooled' = Host!Pooled
    BY <2>1 DEF Host!Pooled
  <2>3. Host!Delivering' = Host!Delivering
    BY <2>1 DEF Host!Delivering
  <2>4. Host!Dialling' = Host!Dialling
    BY <2>1 DEF Host!Dialling
  <2>5. Host!Using' = Host!Using
    BY <2>1 DEF Host!Using
  <2>6. Cardinality(Host!Pooled') = Cardinality(Host!Pooled)
    BY <2>2
  <2>7. Cardinality(Host!Delivering') = Cardinality(Host!Delivering)
    BY <2>3
  <2>8. Cardinality(Host!Dialling') = Cardinality(Host!Dialling)
    BY <2>4
  <2>9. Cardinality(Host!Using') = Cardinality(Host!Using)
    BY <2>5
  <2> QED BY <1>0, <1>a, <1>b, <2>1, <2>6, <2>7, <2>8, <2>9
<1>7. ASSUME NEW c \in Calls, Host!DialFor(c) /\ v10'[c] = "none"
      PROVE  Host!CountIsExact' /\ v2' <= MaxConns
  <2>1. /\ v2' = v2 /\ v3' = v3 /\ v6' = v6 /\ v7' = v7
        /\ v9[c] = "waiting" /\ v9'[c] \in Connections /\ \A d \in Calls \ {c} : v9'[d] = v9[d]
        /\ v10[c] = "dial" /\ v10'[c] = "none" /\ \A d \in Calls \ {c} : v10'[d] = v10[d]
    BY <1>7, HostUnused
       DEF Host!DialFor, Host!poolVars, Host!cleanVars, Host!callVars, Host!TypeOK
  <2>2. Host!Pooled' = Host!Pooled
    BY <2>1 DEF Host!Pooled
  <2>3. Host!Delivering' = Host!Delivering \cup {c} /\ c \notin Host!Delivering
    BY <2>1 DEF Host!Delivering
  <2>4. Host!Dialling' = Host!Dialling \ {c} /\ c \in Host!Dialling
    BY <2>1 DEF Host!Dialling
  <2>5. Host!Using' = Host!Using
    BY <2>1 DEF Host!Using
  <2>6. Cardinality(Host!Pooled') = Cardinality(Host!Pooled)
    BY <2>2
  <2>7. Cardinality(Host!Delivering') = Cardinality(Host!Delivering) + 1
    BY <2>3, <1>b, FS_AddElement
  <2>8. Cardinality(Host!Dialling') = Cardinality(Host!Dialling) - 1
    BY <2>4, <1>b, FS_RemoveElement
  <2>9. Cardinality(Host!Using') = Cardinality(Host!Using)
    BY <2>5
  <2> QED BY <1>0, <1>a, <1>b, <2>1, <2>6, <2>7, <2>8, <2>9
<1>8. ASSUME NEW c \in Calls, Host!DialFor(c) /\ v10'[c] # "none"
      PROVE  Host!CountIsExact' /\ v2' <= MaxConns
  <2>1. /\ v2' = v2 /\ v3' = v3 /\ v6' = v6 /\ v7' = v7
        /\ v9'[c] \in Connections <=> v9[c] \in Connections
        /\ \A d \in Calls \ {c} : v9'[d] = v9[d]
        /\ v10[c] = "dial" /\ v10'[c] # "none" /\ \A d \in Calls \ {c} : v10'[d] = v10[d]
    BY <1>8 DEF Host!DialFor, Host!poolVars, Host!cleanVars, Host!callVars, Host!TypeOK
  <2>2. Host!Pooled' = Host!Pooled
    BY <2>1 DEF Host!Pooled
  <2>3. Host!Delivering' = Host!Delivering
    BY <2>1 DEF Host!Delivering
  <2>4. Host!Dialling' = Host!Dialling
    BY <2>1 DEF Host!Dialling
  <2>5. Host!Using' = Host!Using
    BY <2>1 DEF Host!Using
  <2>6. Cardinality(Host!Pooled') = Cardinality(Host!Pooled)
    BY <2>2
  <2>7. Cardinality(Host!Delivering') = Cardinality(Host!Delivering)
    BY <2>3
  <2>8. Cardinality(Host!Dialling') = Cardinality(Host!Dialling)
    BY <2>4
  <2>9. Cardinality(Host!Using') = Cardinality(Host!Using)
    BY <2>5
  <2> QED BY <1>0, <1>a, <1>b, <2>1, <2>6, <2>7, <2>8, <2>9
<1>9. ASSUME NEW c \in Calls, Host!Uncount(c)
      PROVE  Host!CountIsExact' /\ v2' <= MaxConns
  <2>1. /\ v6' = v6 /\ v9' = v9 /\ v7[c] = "count" /\ v7'[c] = "close"
        /\ \A d \in Calls \ {c} : v7'[d] = v7[d]
    BY <1>9 DEF Host!Uncount, Host!cleanVars, Host!TypeOK
  <2>2. /\ v3' = v3
        /\ \/ /\ \E w \in Calls :
                   /\ w \in Host!Range(v4) /\ v10' = [v10 EXCEPT ![w] = "dial"]
              /\ v2' = v2
           \/ v10' = v10 /\ v2' = v2 - 1
    BY <1>9, HostDecConnsCount DEF Host!Uncount
  <2>3. CASE v10' = v10 /\ v2' = v2 - 1
    <3>2. Host!Pooled' = Host!Pooled
      BY <2>1, <2>2, <2>3 DEF Host!Pooled
    <3>3. Host!Delivering' = Host!Delivering
      BY <2>1, <2>2, <2>3 DEF Host!Delivering
    <3>4. Host!Dialling' = Host!Dialling
      BY <2>1, <2>2, <2>3 DEF Host!Dialling
    <3>5. Host!Using' = Host!Using \ {c} /\ c \in Host!Using
      BY <2>1, <2>2, <2>3 DEF Host!Using
    <3>6. Cardinality(Host!Pooled') = Cardinality(Host!Pooled)
      BY <3>2
    <3>7. Cardinality(Host!Delivering') = Cardinality(Host!Delivering)
      BY <3>3
    <3>8. Cardinality(Host!Dialling') = Cardinality(Host!Dialling)
      BY <3>4
    <3>9. Cardinality(Host!Using') = Cardinality(Host!Using) - 1
      BY <3>5, <1>b, FS_RemoveElement
    <3> QED BY <1>0, <1>a, <1>b, <2>3, <3>6, <3>7, <3>8, <3>9
  <2>4. ASSUME NEW w \in Calls, w \in Host!Range(v4), v10' = [v10 EXCEPT ![w] = "dial"], v2' = v2
        PROVE  Host!CountIsExact' /\ v2' <= MaxConns
    <3>1. v10[w] = "none" /\ v10'[w] = "dial" /\ \A d \in Calls \ {w} : v10'[d] = v10[d]
      BY <2>4 DEF Host!QueueIsOrdered, Host!TypeOK
    <3>2. Host!Pooled' = Host!Pooled
      BY <2>1, <2>2, <3>1 DEF Host!Pooled
    <3>3. Host!Delivering' = Host!Delivering
      BY <2>1, <2>2, <3>1 DEF Host!Delivering
    <3>4. Host!Dialling' = Host!Dialling \cup {w} /\ w \notin Host!Dialling
      BY <2>1, <2>2, <3>1 DEF Host!Dialling
    <3>5. Host!Using' = Host!Using \ {c} /\ c \in Host!Using
      BY <2>1, <2>2, <3>1 DEF Host!Using
    <3>6. Cardinality(Host!Pooled') = Cardinality(Host!Pooled)
      BY <3>2
    <3>7. Cardinality(Host!Delivering') = Cardinality(Host!Delivering)
      BY <3>3
    <3>8. Cardinality(Host!Dialling') = Cardinality(Host!Dialling) + 1
      BY <3>4, <1>b, FS_AddElement
    <3>9. Cardinality(Host!Using') = Cardinality(Host!Using) - 1
      BY <3>5, <1>b, FS_RemoveElement
    <3> QED BY <1>0, <1>a, <1>b, <2>4, <3>6, <3>7, <3>8, <3>9
  <2> QED BY <2>2, <2>3, <2>4
<1>10. ASSUME NEW n \in Connections, Host!CloseScratch(n)
      PROVE  Host!CountIsExact' /\ v2' <= MaxConns
  <2>1. /\ n \in v6 /\ v6' = v6 \ {n} /\ n \notin Host!Range(v3) /\ v9' = v9 /\ v7' = v7
    BY <1>10 DEF Host!CloseScratch, Host!callVars, Host!PoolIsOwn
  <2>2. /\ v3' = v3
        /\ \/ /\ \E w \in Calls :
                   /\ w \in Host!Range(v4) /\ v10' = [v10 EXCEPT ![w] = "dial"]
              /\ v2' = v2
           \/ v10' = v10 /\ v2' = v2 - 1
    BY <1>10, HostDecConnsCount DEF Host!CloseScratch
  <2>3. CASE v10' = v10 /\ v2' = v2 - 1
    <3>2. Host!Pooled' = Host!Pooled \ {n} /\ n \in Host!Pooled
      BY <2>1, <2>2, <2>3 DEF Host!Pooled
    <3>3. Host!Delivering' = Host!Delivering
      BY <2>1, <2>2, <2>3 DEF Host!Delivering
    <3>4. Host!Dialling' = Host!Dialling
      BY <2>1, <2>2, <2>3 DEF Host!Dialling
    <3>5. Host!Using' = Host!Using
      BY <2>1, <2>2, <2>3 DEF Host!Using
    <3>6. Cardinality(Host!Pooled') = Cardinality(Host!Pooled) - 1
      BY <3>2, <1>b, FS_RemoveElement
    <3>7. Cardinality(Host!Delivering') = Cardinality(Host!Delivering)
      BY <3>3
    <3>8. Cardinality(Host!Dialling') = Cardinality(Host!Dialling)
      BY <3>4
    <3>9. Cardinality(Host!Using') = Cardinality(Host!Using)
      BY <3>5
    <3> QED BY <1>0, <1>a, <1>b, <2>3, <3>6, <3>7, <3>8, <3>9
  <2>4. ASSUME NEW w \in Calls, w \in Host!Range(v4), v10' = [v10 EXCEPT ![w] = "dial"], v2' = v2
        PROVE  Host!CountIsExact' /\ v2' <= MaxConns
    <3>1. v10[w] = "none" /\ v10'[w] = "dial" /\ \A d \in Calls \ {w} : v10'[d] = v10[d]
      BY <2>4 DEF Host!QueueIsOrdered, Host!TypeOK
    <3>2. Host!Pooled' = Host!Pooled \ {n} /\ n \in Host!Pooled
      BY <2>1, <2>2, <3>1 DEF Host!Pooled
    <3>3. Host!Delivering' = Host!Delivering
      BY <2>1, <2>2, <3>1 DEF Host!Delivering
    <3>4. Host!Dialling' = Host!Dialling \cup {w} /\ w \notin Host!Dialling
      BY <2>1, <2>2, <3>1 DEF Host!Dialling
    <3>5. Host!Using' = Host!Using
      BY <2>1, <2>2, <3>1 DEF Host!Using
    <3>6. Cardinality(Host!Pooled') = Cardinality(Host!Pooled) - 1
      BY <3>2, <1>b, FS_RemoveElement
    <3>7. Cardinality(Host!Delivering') = Cardinality(Host!Delivering)
      BY <3>3
    <3>8. Cardinality(Host!Dialling') = Cardinality(Host!Dialling) + 1
      BY <3>4, <1>b, FS_AddElement
    <3>9. Cardinality(Host!Using') = Cardinality(Host!Using)
      BY <3>5
    <3> QED BY <1>0, <1>a, <1>b, <2>4, <3>6, <3>7, <3>8, <3>9
  <2> QED BY <2>2, <2>3, <2>4
<1>11. ASSUME NEW c \in Calls, Host!DialForUncounts(c)
      PROVE  Host!CountIsExact' /\ v2' <= MaxConns
  <2>1. UNCHANGED <<v3, v6, v7, v9>> /\ v10[c] = "count"
    BY <1>11 DEF Host!DialForUncounts, Host!cleanVars, Host!callVars
  <2>2. CASE Host!SomeoneWaits
    <3> DEFINE w == v4[Host!FirstWaiting]
    <3>0. /\ w \in Calls /\ w \in Host!Range(v4) /\ v10[w] = "none" /\ w # c
      <4>1. w \in Calls /\ w \in Host!Range(v4)
        BY <2>2, HostFirst, Elements DEF Host!TypeOK
      <4> QED BY <2>1, <4>1 DEF Host!QueueIsOrdered
    <3>1. v2' = v2 /\ v10' = [v10 EXCEPT ![c] = "none", ![w] = "dial"]
      BY <1>11, <2>2 DEF Host!DialForUncounts
    <3> HIDE DEF w
    <3>s. /\ v10'[c] = "none" /\ v10'[w] = "dial" /\ \A d \in Calls \ {c, w} : v10'[d] = v10[d]
      BY <3>0, <3>1 DEF Host!TypeOK
    <3>2. Host!Pooled' = Host!Pooled
      BY <2>1 DEF Host!Pooled
    <3>3. Host!Delivering' = Host!Delivering
      BY <2>1 DEF Host!Delivering
    <3>4. Host!Using' = Host!Using
      BY <2>1 DEF Host!Using
    <3>5. /\ Host!Dialling' = (Host!Dialling \ {c}) \cup {w} /\ c \in Host!Dialling
          /\ w \notin Host!Dialling \ {c}
      BY <2>1, <3>0, <3>s DEF Host!Dialling
    <3>6. /\ IsFiniteSet(Host!Dialling \ {c})
          /\ Cardinality(Host!Dialling \ {c}) = Cardinality(Host!Dialling) - 1
      BY <1>b, <3>5, FS_RemoveElement
    <3>7. Cardinality(Host!Dialling') = Cardinality(Host!Dialling \ {c}) + 1
      BY <3>5, <3>6, FS_AddElement
    <3> QED BY <1>0, <1>a, <1>b, <3>1, <3>2, <3>3, <3>4, <3>6, <3>7
  <2>3. CASE ~ Host!SomeoneWaits
    <3>1. v2' = v2 - 1 /\ v10'[c] = "none" /\ \A d \in Calls \ {c} : v10'[d] = v10[d]
      BY <1>11, <2>3 DEF Host!DialForUncounts, Host!TypeOK
    <3>2. Host!Pooled' = Host!Pooled
      BY <2>1, <3>1 DEF Host!Pooled
    <3>3. Host!Delivering' = Host!Delivering
      BY <2>1, <3>1 DEF Host!Delivering
    <3>4. Host!Dialling' = Host!Dialling \ {c} /\ c \in Host!Dialling
      BY <2>1, <3>1 DEF Host!Dialling
    <3>5. Host!Using' = Host!Using
      BY <2>1, <3>1 DEF Host!Using
    <3>6. Cardinality(Host!Pooled') = Cardinality(Host!Pooled)
      BY <3>2
    <3>7. Cardinality(Host!Delivering') = Cardinality(Host!Delivering)
      BY <3>3
    <3>8. Cardinality(Host!Dialling') = Cardinality(Host!Dialling) - 1
      BY <3>4, <1>b, FS_RemoveElement
    <3>9. Cardinality(Host!Using') = Cardinality(Host!Using)
      BY <3>5
    <3> QED BY <1>0, <1>a, <1>b, <3>1, <3>6, <3>7, <3>8, <3>9
  <2> QED BY <2>2, <2>3
<1>12. ASSUME NEW c \in Calls, Host!Release(c)
      PROVE  Host!CountIsExact' /\ v2' <= MaxConns
  <2> DEFINE n == v8[c]  calls == [v7 EXCEPT ![c] = IF v7[c] = "give" THEN "failed" ELSE "done"]
  <2>1. n \in Connections /\ n \notin Host!Range(v3) /\ Host!ReleaseConn(n, calls) /\ n \notin v6
    BY <1>12 DEF Host!Release, Host!OwnersDiffer, Host!PoolIsOwn, Host!Pooled, Host!TypeOK
  <2>2. /\ v6' = v6
        /\ v10' = v10 /\ v7[c] \in {"release", "give"} /\ calls[c] \in {"failed", "done"}
        /\ calls \in [Calls -> Host!Places \cup {"failed", "done"}]
        /\ \A d \in Calls \ {c} : calls[d] = v7[d]
    BY <1>12 DEF Host!Release, Host!cleanVars, Host!TypeOK
  <2>3. /\ v2' = v2
        /\ \/ /\ \E w \in Calls :
                    w \in Host!Range(v4) /\ Host!Waiting(w) /\ v9' = [v9 EXCEPT ![w] = n]
              /\ v7' = calls /\ v3' = v3 /\ v14' = v14
           \/ /\ \E w \in Calls :
                    /\ Host!Waiting(w) /\ v7[w] = "cancel" /\ v9' = [v9 EXCEPT ![w] = "none"]
                    /\ v7' = [calls EXCEPT ![w] = "failed"]
              /\ Host!Range(v3') = Host!Range(v3) \cup {n} /\ v14'
           \/ /\ v4' = <<>> /\ v9' = v9 /\ v7' = calls
              /\ Host!Range(v3') = Host!Range(v3) \cup {n}
    <3> HIDE DEF n, calls
    <3> QED BY <2>1, HostReleased
  <2> HIDE DEF n, calls
  <2>4. ASSUME NEW w \in Calls, Host!Waiting(w), v9' = [v9 EXCEPT ![w] = n], v7' = calls, v3' = v3
        PROVE  Host!CountIsExact' /\ v2' <= MaxConns
    <3>1. v9[w] \notin Connections /\ v9'[w] = n /\ \A d \in Calls \ {w} : v9'[d] = v9[d]
      BY <2>4 DEF Host!TypeOK
    <3>2. Host!Pooled' = Host!Pooled
      BY <2>1, <2>2, <2>4, <3>1 DEF Host!Pooled
    <3>3. Host!Delivering' = Host!Delivering \cup {w} /\ w \notin Host!Delivering
      BY <2>1, <2>2, <2>4, <3>1 DEF Host!Delivering
    <3>4. Host!Dialling' = Host!Dialling
      BY <2>1, <2>2, <2>4, <3>1 DEF Host!Dialling
    <3>5. Host!Using' = Host!Using \ {c} /\ c \in Host!Using
      BY <2>1, <2>2, <2>4, <3>1 DEF Host!Using
    <3>6. Cardinality(Host!Pooled') = Cardinality(Host!Pooled)
      BY <3>2
    <3>7. Cardinality(Host!Delivering') = Cardinality(Host!Delivering) + 1
      BY <3>3, <1>b, FS_AddElement
    <3>8. Cardinality(Host!Dialling') = Cardinality(Host!Dialling)
      BY <3>4
    <3>9. Cardinality(Host!Using') = Cardinality(Host!Using) - 1
      BY <3>5, <1>b, FS_RemoveElement
    <3> QED BY <1>0, <1>a, <1>b, <2>3, <3>6, <3>7, <3>8, <3>9
  <2>5. ASSUME NEW w \in Calls, Host!Waiting(w), v7[w] = "cancel",
               v9' = [v9 EXCEPT ![w] = "none"],
               v7' = [calls EXCEPT ![w] = "failed"], Host!Range(v3') = Host!Range(v3) \cup {n}
        PROVE  Host!CountIsExact' /\ v2' <= MaxConns
    <3>1. /\ v9[w] \notin Connections /\ v9'[w] = "none" /\ \A d \in Calls \ {w} : v9'[d] = v9[d]
          /\ v7'[w] = "failed" /\ \A d \in Calls \ {w} : v7'[d] = calls[d]
      BY <2>2, <2>5 DEF Host!TypeOK
    <3>2. Host!Pooled' = Host!Pooled \cup {n} /\ n \notin Host!Pooled
      BY <2>1, <2>2, <2>5, <3>1 DEF Host!Pooled
    <3>3. Host!Delivering' = Host!Delivering
      BY <2>1, <2>2, <2>5, <3>1 DEF Host!Delivering
    <3>4. Host!Dialling' = Host!Dialling
      BY <2>1, <2>2, <2>5, <3>1 DEF Host!Dialling
    <3>5. Host!Using' = Host!Using \ {c} /\ c \in Host!Using
      BY <2>1, <2>2, <2>5, <3>1 DEF Host!Using
    <3>6. Cardinality(Host!Pooled') = Cardinality(Host!Pooled) + 1
      BY <3>2, <1>b, FS_AddElement
    <3>7. Cardinality(Host!Delivering') = Cardinality(Host!Delivering)
      BY <3>3
    <3>8. Cardinality(Host!Dialling') = Cardinality(Host!Dialling)
      BY <3>4
    <3>9. Cardinality(Host!Using') = Cardinality(Host!Using) - 1
      BY <3>5, <1>b, FS_RemoveElement
    <3> QED BY <1>0, <1>a, <1>b, <2>3, <3>6, <3>7, <3>8, <3>9
  <2>6. ASSUME v9' = v9, v7' = calls, Host!Range(v3') = Host!Range(v3) \cup {n}
        PROVE  Host!CountIsExact' /\ v2' <= MaxConns
    <3>2. Host!Pooled' = Host!Pooled \cup {n} /\ n \notin Host!Pooled
      BY <2>1, <2>2, <2>6 DEF Host!Pooled
    <3>3. Host!Delivering' = Host!Delivering
      BY <2>1, <2>2, <2>6 DEF Host!Delivering
    <3>4. Host!Dialling' = Host!Dialling
      BY <2>1, <2>2, <2>6 DEF Host!Dialling
    <3>5. Host!Using' = Host!Using \ {c} /\ c \in Host!Using
      BY <2>1, <2>2, <2>6 DEF Host!Using
    <3>6. Cardinality(Host!Pooled') = Cardinality(Host!Pooled) + 1
      BY <3>2, <1>b, FS_AddElement
    <3>7. Cardinality(Host!Delivering') = Cardinality(Host!Delivering)
      BY <3>3
    <3>8. Cardinality(Host!Dialling') = Cardinality(Host!Dialling)
      BY <3>4
    <3>9. Cardinality(Host!Using') = Cardinality(Host!Using) - 1
      BY <3>5, <1>b, FS_RemoveElement
    <3> QED BY <1>0, <1>a, <1>b, <2>3, <3>6, <3>7, <3>8, <3>9
  <2> QED BY <2>3, <2>4, <2>5, <2>6
<1>13. ASSUME NEW c \in Calls, Host!DialForReleases(c)
      PROVE  Host!CountIsExact' /\ v2' <= MaxConns
  <2> DEFINE n == v10[c]  calls == v7
  <2>1. n \in Connections /\ n \notin Host!Range(v3) /\ Host!ReleaseConn(n, calls) /\ n \notin v6
    BY <1>13
       DEF Host!DialForReleases, Host!OwnersDiffer, Host!PoolIsOwn, Host!Pooled, Host!TypeOK
  <2>2. /\ v6' = v6
        /\ v10[c] # "none" /\ v10'[c] = "none" /\ \A d \in Calls \ {c} : v10'[d] = v10[d]
        /\ calls = v7 /\ v7 \in [Calls -> Host!Places] /\ \A d \in Calls : calls[d] = v7[d]
    BY <1>13 DEF Host!DialForReleases, Host!cleanVars, Host!TypeOK
  <2>3. /\ v2' = v2
        /\ \/ /\ \E w \in Calls :
                    w \in Host!Range(v4) /\ Host!Waiting(w) /\ v9' = [v9 EXCEPT ![w] = n]
              /\ v7' = calls /\ v3' = v3 /\ v14' = v14
           \/ /\ \E w \in Calls :
                    /\ Host!Waiting(w) /\ v7[w] = "cancel" /\ v9' = [v9 EXCEPT ![w] = "none"]
                    /\ v7' = [calls EXCEPT ![w] = "failed"]
              /\ Host!Range(v3') = Host!Range(v3) \cup {n} /\ v14'
           \/ /\ v4' = <<>> /\ v9' = v9 /\ v7' = calls
              /\ Host!Range(v3') = Host!Range(v3) \cup {n}
    <3> HIDE DEF n, calls
    <3> QED BY <2>1, HostReleased
  <2> HIDE DEF n, calls
  <2>4. ASSUME NEW w \in Calls, Host!Waiting(w), v9' = [v9 EXCEPT ![w] = n], v7' = calls, v3' = v3
        PROVE  Host!CountIsExact' /\ v2' <= MaxConns
    <3>1. v9[w] \notin Connections /\ v9'[w] = n /\ \A d \in Calls \ {w} : v9'[d] = v9[d]
      BY <2>4 DEF Host!TypeOK
    <3>2. Host!Pooled' = Host!Pooled
      BY <2>1, <2>2, <2>4, <3>1 DEF Host!Pooled
    <3>3. Host!Delivering' = Host!Delivering \cup {w} /\ w \notin Host!Delivering
      BY <2>1, <2>2, <2>4, <3>1 DEF Host!Delivering
    <3>4. Host!Dialling' = Host!Dialling \ {c} /\ c \in Host!Dialling
      BY <2>1, <2>2, <2>4, <3>1 DEF Host!Dialling
    <3>5. Host!Using' = Host!Using
      BY <2>1, <2>2, <2>4, <3>1 DEF Host!Using
    <3>6. Cardinality(Host!Pooled') = Cardinality(Host!Pooled)
      BY <3>2
    <3>7. Cardinality(Host!Delivering') = Cardinality(Host!Delivering) + 1
      BY <3>3, <1>b, FS_AddElement
    <3>8. Cardinality(Host!Dialling') = Cardinality(Host!Dialling) - 1
      BY <3>4, <1>b, FS_RemoveElement
    <3>9. Cardinality(Host!Using') = Cardinality(Host!Using)
      BY <3>5
    <3> QED BY <1>0, <1>a, <1>b, <2>3, <3>6, <3>7, <3>8, <3>9
  <2>5. ASSUME NEW w \in Calls, Host!Waiting(w), v7[w] = "cancel",
               v9' = [v9 EXCEPT ![w] = "none"],
               v7' = [calls EXCEPT ![w] = "failed"], Host!Range(v3') = Host!Range(v3) \cup {n}
        PROVE  Host!CountIsExact' /\ v2' <= MaxConns
    <3>1. /\ v9[w] \notin Connections /\ v9'[w] = "none" /\ \A d \in Calls \ {w} : v9'[d] = v9[d]
          /\ v7'[w] = "failed" /\ \A d \in Calls \ {w} : v7'[d] = calls[d]
      BY <2>2, <2>5 DEF Host!TypeOK
    <3>2. Host!Pooled' = Host!Pooled \cup {n} /\ n \notin Host!Pooled
      BY <2>1, <2>2, <2>5, <3>1 DEF Host!Pooled
    <3>3. Host!Delivering' = Host!Delivering
      BY <2>1, <2>2, <2>5, <3>1 DEF Host!Delivering
    <3>4. Host!Dialling' = Host!Dialling \ {c} /\ c \in Host!Dialling
      BY <2>1, <2>2, <2>5, <3>1 DEF Host!Dialling
    <3>5. Host!Using' = Host!Using
      BY <2>1, <2>2, <2>5, <3>1 DEF Host!Using
    <3>6. Cardinality(Host!Pooled') = Cardinality(Host!Pooled) + 1
      BY <3>2, <1>b, FS_AddElement
    <3>7. Cardinality(Host!Delivering') = Cardinality(Host!Delivering)
      BY <3>3
    <3>8. Cardinality(Host!Dialling') = Cardinality(Host!Dialling) - 1
      BY <3>4, <1>b, FS_RemoveElement
    <3>9. Cardinality(Host!Using') = Cardinality(Host!Using)
      BY <3>5
    <3> QED BY <1>0, <1>a, <1>b, <2>3, <3>6, <3>7, <3>8, <3>9
  <2>6. ASSUME v9' = v9, v7' = calls, Host!Range(v3') = Host!Range(v3) \cup {n}
        PROVE  Host!CountIsExact' /\ v2' <= MaxConns
    <3>2. Host!Pooled' = Host!Pooled \cup {n} /\ n \notin Host!Pooled
      BY <2>1, <2>2, <2>6 DEF Host!Pooled
    <3>3. Host!Delivering' = Host!Delivering
      BY <2>1, <2>2, <2>6 DEF Host!Delivering
    <3>4. Host!Dialling' = Host!Dialling \ {c} /\ c \in Host!Dialling
      BY <2>1, <2>2, <2>6 DEF Host!Dialling
    <3>5. Host!Using' = Host!Using
      BY <2>1, <2>2, <2>6 DEF Host!Using
    <3>6. Cardinality(Host!Pooled') = Cardinality(Host!Pooled) + 1
      BY <3>2, <1>b, FS_AddElement
    <3>7. Cardinality(Host!Delivering') = Cardinality(Host!Delivering)
      BY <3>3
    <3>8. Cardinality(Host!Dialling') = Cardinality(Host!Dialling) - 1
      BY <3>4, <1>b, FS_RemoveElement
    <3>9. Cardinality(Host!Using') = Cardinality(Host!Using)
      BY <3>5
    <3> QED BY <1>0, <1>a, <1>b, <2>3, <3>6, <3>7, <3>8, <3>9
  <2> QED BY <2>3, <2>4, <2>5, <2>6
<1> QED BY <1>1, <1>2, <1>3, <1>4, <1>5, <1>6, <1>7, <1>8, <1>9, <1>10, <1>11, <1>12, <1>13
  DEF Host!Next, Host!CallStep

(* A call that queues comes behind those that are in the queue. *)
LEMMA HostQueued ==
  ASSUME Host!TypeOK, Host!QueueIsOrdered, NEW o \in Calls, Host!QueueForIdle(o)
  PROVE  Host!Range(v4') \subseteq Host!Range(v4) \cup {o}
<1> USE DEF Host!Waiting
<1> DEFINE q == IF Host!SomeoneWaits THEN Host!Behind(Host!FirstWaiting - 1) ELSE <<>>
<1>1. v4' = Append(q, o)
  BY DEF Host!QueueForIdle
<1>2. q \in Seq(Calls) /\ Host!IsInjective(q) /\ Host!Range(q) \subseteq Host!Range(v4)
  <2>1. CASE Host!SomeoneWaits
    <3> DEFINE i == Host!FirstWaiting - 1
    <3>1. Len(v4) \in Nat
      BY Elements DEF Host!TypeOK
    <3>2. i \in 0 .. Len(v4)
      BY <2>1, <3>1, HostFirst
    <3>3. q = Host!Behind(i)
      BY <2>1
    <3> HIDE DEF i, q
    <3> QED BY <3>2, <3>3, HostBehind
  <2>2. CASE ~ Host!SomeoneWaits
    BY <2>2, NoElements
  <2> QED BY <2>1, <2>2
<1> HIDE DEF q
<1>3. Host!Range(Append(q, o)) = Host!Range(q) \cup {o}
  BY <1>2, Appended
<1> QED BY <1>1, <1>2, <1>3

(* A call that releases a connection has it. *)
LEMMA HostHeld ==
  ASSUME Host!TypeOK, Host!OwnersDiffer, Host!PoolIsOwn, NEW o \in Calls, Host!Release(o)
  PROVE  v8[o] \in Connections /\ v8[o] \notin Host!Range(v3)
  BY DEF Host!Release, Host!OwnersDiffer, Host!PoolIsOwn, Host!Pooled

LEMMA HostFree ==
  ASSUME Host!TypeOK, Host!OwnersDiffer, Host!PoolIsOwn, Host!QueueIsOrdered, v2 <= MaxConns,
         Host!FreeConnsReachWaiters, Host!Next
  PROVE  Host!FreeConnsReachWaiters'
<1> USE HostAssumption DEF Host!Waiting, Host!Goto
<1> SUFFICES ASSUME ~ v14', NEW c \in Host!Range(v4'), c \notin v13', v9'[c] = "waiting"
             PROVE  v3' = <<>> /\ v2' = MaxConns
  BY DEF Host!FreeConnsReachWaiters
<1>0. /\ v2 \in Int /\ v4 \in Seq(Calls) /\ Host!Range(v4) \subseteq Calls
      /\ v9 \in [Calls -> Connections \cup {"none", "waiting", "error"}]
  BY Elements DEF Host!TypeOK
<1>a. ASSUME ~ v14, c \in Host!Range(v4), c \notin v13, v9[c] = "waiting"
      PROVE  v3 = <<>> /\ v2 = MaxConns
  BY <1>a DEF Host!FreeConnsReachWaiters
<1>b. c \notin Host!Range(<<>>)
  BY NoElements
<1>1. ASSUME NEW o \in Calls,
             \/ Host!TakeIdle(o) \/ Host!Create(o) \/ Host!NoFreeConns(o)
             \/ Host!Delivered(o) \/ Host!DialFailed(o) \/ Host!WaitEnds(o) \/ Host!Cancel(o)
             \/ Host!Dial(o) \/ Host!DialFor(o)
             \/ Host!Write(o) \/ Host!Read(o) \/ Host!Close(o)
      PROVE  v3' = <<>> /\ v2' = MaxConns
  <2>1. v14' = v14 /\ v4' = v4 /\ v13' = v13
    BY <1>1 DEF Host!TakeIdle, Host!Create, Host!NoFreeConns, Host!Delivered, Host!DialFailed,
       Host!WaitEnds, Host!Cancel, Host!Dial, Host!DialFor, Host!Write, Host!Read, Host!Close,
       Host!history, Host!poolVars
  <2>2. v9[c] = "waiting"
    <3>1. c \in Calls
      BY <1>0, <2>1
    <3>2. Host!Unused # {} => Host!New # "waiting"
      BY HostUnused
    <3> QED BY <1>0, <1>1, <3>1, <3>2
        DEF Host!TakeIdle, Host!Create, Host!NoFreeConns, Host!Delivered, Host!DialFailed,
            Host!WaitEnds, Host!Cancel, Host!Dial, Host!DialFor, Host!Write, Host!Read, Host!Close
  <2>3. v3 = <<>> /\ v2 = MaxConns
    BY <1>a, <2>1, <2>2
  <2> QED BY <1>1, <2>3 DEF Host!TakeIdle, Host!Create, Host!NoFreeConns, Host!Delivered,
       Host!DialFailed, Host!WaitEnds, Host!Cancel, Host!Dial, Host!DialFor, Host!Write,
       Host!Read, Host!Close, Host!poolVars
<1>2. ASSUME NEW o \in Calls, Host!QueueForIdle(o) PROVE v3' = <<>> /\ v2' = MaxConns
  <2>1. /\ v14' = v14 /\ v3' = v3 /\ v2' = v2 /\ v9' = [v9 EXCEPT ![o] = "waiting"]
        /\ v13' = IF v3 # <<>> \/ v2 < MaxConns THEN v13 \cup {o} ELSE v13
    BY <1>2 DEF Host!QueueForIdle
  <2>2. CASE c = o
    BY <1>0, <2>1, <2>2
  <2>3. CASE c # o
    <3>1. c \in Host!Range(v4)
      BY <1>2, <2>3, HostQueued
    <3> QED BY <1>a, <1>0, <2>1, <2>3, <3>1
  <2> QED BY <2>2, <2>3
<1>3. ASSUME NEW n \in Connections, NEW calls, NEW o \in Calls, n \notin Host!Range(v3),
             Host!ReleaseConn(n, calls), v13' = v13
      PROVE  v3' = <<>> /\ v2' = MaxConns
  <2>1. /\ Host!Range(v4') \subseteq Host!Range(v4) /\ v2' = v2
        /\ \/ /\ \E w \in Calls : v9' = [v9 EXCEPT ![w] = n]
              /\ v3' = v3 /\ v14' = v14
           \/ v14'
           \/ v4' = <<>>
    BY <1>3, HostReleased
  <2>2. c \in Calls /\ v4' # <<>> /\ n # "waiting"
    BY <1>0, <1>b, <1>3, <2>1
  <2>3. PICK w \in Calls : v9' = [v9 EXCEPT ![w] = n]
    BY <2>1, <2>2
  <2>4. v9[c] = "waiting"
    BY <1>0, <2>2, <2>3
  <2> QED BY <1>a, <1>3, <2>1, <2>2, <2>4
<1>4. ASSUME Host!DecConnsCount, UNCHANGED <<v9, v13, v14>>
      PROVE  v3' = <<>> /\ v2' = MaxConns
  <2>1. Host!Range(v4') \subseteq Host!Range(v4) /\ v3' = v3 /\ (v2' = v2 \/ v4' = <<>>)
    BY <1>4, HostDecreased
  <2> QED BY <1>a, <1>b, <1>4, <2>1
<1>5. ASSUME NEW o \in Calls, Host!Release(o) \/ Host!DialForReleases(o)
      PROVE  v3' = <<>> /\ v2' = MaxConns
  <2>1. CASE Host!Release(o)
    <3> DEFINE n == v8[o]
               calls == [v7 EXCEPT ![o] = IF v7[o] = "give" THEN "failed" ELSE "done"]
    <3>1. n \in Connections /\ n \notin Host!Range(v3) /\ Host!ReleaseConn(n, calls) /\ v13' = v13
      BY <2>1, HostHeld DEF Host!Release
    <3> HIDE DEF n, calls
    <3> QED BY <1>3, <3>1
  <2>2. CASE Host!DialForReleases(o)
    <3> DEFINE n == v10[o]  calls == v7
    <3>1. n \in Connections /\ n \notin Host!Range(v3) /\ Host!ReleaseConn(n, calls) /\ v13' = v13
      BY <2>2 DEF Host!DialForReleases, Host!PoolIsOwn, Host!Pooled
    <3> HIDE DEF n, calls
    <3> QED BY <1>3, <3>1
  <2> QED BY <1>5, <2>1, <2>2
<1>6. ASSUME NEW o \in Calls, Host!Uncount(o) PROVE v3' = <<>> /\ v2' = MaxConns
  BY <1>4, <1>6 DEF Host!Uncount
<1>7. ASSUME NEW n \in Connections, Host!CloseScratch(n) PROVE v3' = <<>> /\ v2' = MaxConns
  BY <1>4, <1>7 DEF Host!CloseScratch
<1>8. ASSUME NEW o \in Calls, Host!DialForUncounts(o) PROVE v3' = <<>> /\ v2' = MaxConns
  <2>1. v14' = v14 /\ v9' = v9 /\ v13' = v13 /\ v3' = v3
    BY <1>8 DEF Host!DialForUncounts, Host!callVars
  <2>2. Host!SomeoneWaits /\ v2' = v2 /\ v4' = Host!Behind(Host!FirstWaiting)
    BY <1>b, <1>8 DEF Host!DialForUncounts
  <2>3. Host!Range(v4') \subseteq Host!Range(v4)
    <3> DEFINE i == Host!FirstWaiting
    <3>1. i \in 0 .. Len(v4)
      BY <1>0, <2>2, HostFirst
    <3> HIDE DEF i
    <3>2. Host!Range(Host!Behind(i)) \subseteq Host!Range(v4)
      BY <3>1, HostBehind
    <3> QED BY <2>2, <3>2 DEF i
  <2> QED BY <1>a, <2>1, <2>2, <2>3
<1>9. ASSUME Host!Scan \/ Host!CloseIdleConnections \/ Host!CleanerStops
      PROVE  v3' = <<>> /\ v2' = MaxConns
  <2>1. v14' = v14 /\ v9' = v9 /\ v13' = v13 /\ v4' = v4 /\ v2' = v2
    BY <1>9
       DEF Host!Scan, Host!CloseIdleConnections, Host!CleanerStops, Host!history, Host!poolVars
  <2>2. v3 = <<>> => v3' = <<>>
    BY <1>9, HostScan DEF Host!CleanerStops, Host!poolVars
  <2> QED BY <1>a, <2>1, <2>2
<1> QED BY <1>1, <1>2, <1>5, <1>6, <1>7, <1>8, <1>9 DEF Host!Next, Host!CallStep

LEMMA HostCleaner ==
  ASSUME Host!TypeOK, Host!QueueIsOrdered, Host!CountIsExact, Host!OnlyClosing, Host!Next
  PROVE  Host!OnlyClosing'
<1> USE HostAssumption DEF Host!Waiting, Host!Goto
<1> SUFFICES ASSUME v5' = "off", ~ v15'
             PROVE  /\ v3' = <<>> /\ v6' = {} /\ Host!Delivering' = {} /\ Host!Dialling' = {}
                    /\ \A c \in Host!Using' : c \in ClosingCalls
                                              /\ v7'[c] \notin {"give", "release"}
  BY DEF Host!OnlyClosing
<1>a. ASSUME /\ v3' = <<>> /\ v6' = {}
             /\ \A c \in Calls : v9'[c] \notin Connections /\ v10'[c] = "none"
             /\ \A c \in Calls : /\ v7'[c] \notin {"give", "release"}
                                 /\ v7'[c] \in {"dial", "write", "read", "count"}
                                      => c \in ClosingCalls
      PROVE  /\ v3' = <<>> /\ v6' = {} /\ Host!Delivering' = {} /\ Host!Dialling' = {}
             /\ \A c \in Host!Using' : c \in ClosingCalls /\ v7'[c] \notin {"give", "release"}
  BY <1>a DEF Host!Delivering, Host!Dialling, Host!Using
<1>1. CASE Host!CleanerStops /\ v5 = "close"
  <2>1. v2 = 0 /\ UNCHANGED <<v2, v3, v6, v7, v9, v10>>
    BY <1>1 DEF Host!CleanerStops, Host!poolVars, Host!callVars
  <2>2. /\ Cardinality(Host!Pooled) = 0 /\ Cardinality(Host!Delivering) = 0
        /\ Cardinality(Host!Dialling) = 0 /\ Cardinality(Host!Using) = 0
    BY <2>1, HostSets, HostCounts DEF Host!CountIsExact
  <2>3. Host!Pooled = {} /\ Host!Delivering = {} /\ Host!Dialling = {} /\ Host!Using = {}
    BY <2>2, HostSets, FS_EmptySet
  <2>4. v3 = <<>> /\ v6 = {}
    <3>1. v6 = {} /\ Host!Range(v3) = {}
      BY <2>3 DEF Host!Pooled
    <3>2. v3 \in Seq(Connections)
      BY DEF Host!TypeOK
    <3>3. Len(v3) \in Nat /\ ~ (1 \in 1 .. Len(v3))
      BY <3>1, <3>2, Elements
    <3> QED BY <3>1, <3>2, <3>3
  <2>5. /\ \A c \in Calls : v9[c] \notin Connections /\ v10[c] = "none"
        /\ \A c \in Calls : v7[c] \notin {"dial", "give", "write", "read", "release", "count"}
    BY <2>3 DEF Host!Delivering, Host!Dialling, Host!Using
  <2> QED BY <1>a, <2>1, <2>4, <2>5
<1>2. ASSUME v5 = "off" /\ ~ v15
      PROVE  /\ v3 = <<>> /\ v6 = {}
             /\ \A c \in Calls : v9[c] \notin Connections /\ v10[c] = "none"
             /\ \A c \in Calls : /\ v7[c] \notin {"give", "release"}
                                 /\ v7[c] \in {"dial", "write", "read", "count"}
                                      => c \in ClosingCalls
  BY <1>2 DEF Host!OnlyClosing, Host!Delivering, Host!Dialling, Host!Using
<1>3. ASSUME NEW o \in Calls,
             \/ Host!TakeIdle(o) \/ Host!Create(o) \/ Host!NoFreeConns(o) \/ Host!QueueForIdle(o)
             \/ Host!Delivered(o) \/ Host!DialFailed(o) \/ Host!WaitEnds(o) \/ Host!Cancel(o)
             \/ Host!Dial(o) \/ Host!DialFor(o)
             \/ Host!Write(o) \/ Host!Read(o) \/ Host!Close(o)
      PROVE  /\ v3' = <<>> /\ v6' = {} /\ Host!Delivering' = {} /\ Host!Dialling' = {}
             /\ \A c \in Host!Using' : c \in ClosingCalls /\ v7'[c] \notin {"give", "release"}
  <2>1. v5 = "off" /\ ~ v15
    BY <1>3 DEF Host!TakeIdle, Host!Create, Host!NoFreeConns, Host!QueueForIdle, Host!Delivered,
       Host!DialFailed, Host!WaitEnds, Host!Cancel, Host!Dial, Host!DialFor, Host!Write,
       Host!Read, Host!Close, Host!history, Host!cleanVars
  <2>2. v3' = v3 /\ v6' = v6 /\ v10' = v10
    BY <1>2, <1>3, <2>1
       DEF Host!TakeIdle, Host!Create, Host!NoFreeConns, Host!QueueForIdle, Host!Delivered,
       Host!DialFailed, Host!WaitEnds, Host!Cancel, Host!Dial, Host!DialFor, Host!Write,
       Host!Read, Host!Close, Host!poolVars, Host!cleanVars
  <2>3. v9' = v9 \/ v9' = [v9 EXCEPT ![o] = "none"] \/ v9' = [v9 EXCEPT ![o] = "waiting"]
    BY <1>2, <1>3, <2>1
       DEF Host!TakeIdle, Host!Create, Host!NoFreeConns, Host!QueueForIdle, Host!Delivered,
       Host!DialFailed, Host!WaitEnds, Host!Cancel, Host!Dial, Host!DialFor, Host!Write,
       Host!Read, Host!Close
  <2>4. /\ v7'[o] \notin {"give", "release"}
        /\ v7'[o] \in {"dial", "write", "read", "count"} => o \in ClosingCalls
        /\ \A d \in Calls \ {o} : v7'[d] = v7[d]
    BY <1>2, <1>3, <2>1
       DEF Host!TakeIdle, Host!Create, Host!NoFreeConns, Host!QueueForIdle, Host!Delivered,
       Host!DialFailed, Host!WaitEnds, Host!Cancel, Host!Dial, Host!DialFor, Host!Write,
       Host!Read, Host!Close, Host!callVars, Host!TypeOK
  <2>5. \A d \in Calls : v9'[d] \notin Connections
    BY <1>2, <2>1, <2>3 DEF Host!TypeOK
  <2>6. \A d \in Calls : /\ v7'[d] \notin {"give", "release"}
                         /\ v7'[d] \in {"dial", "write", "read", "count"} => d \in ClosingCalls
    BY <1>2, <2>1, <2>4
  <2>7. v3' = <<>> /\ v6' = {} /\ \A d \in Calls : v9'[d] \notin Connections /\ v10'[d] = "none"
    BY <1>2, <2>1, <2>2, <2>5
  <2> QED BY <1>a, <2>6, <2>7
<1>4. ASSUME NEW o \in Calls,
             Host!Release(o) \/ Host!DialForReleases(o) \/ Host!DialForUncounts(o)
      PROVE  FALSE
  <2>1. v5 = "off"
    BY <1>4 DEF Host!Release, Host!DialForReleases, Host!DialForUncounts, Host!cleanVars
  <2>2. v15' = v15 \/ v15' = (v15 \/ v5 = "off")
    BY <1>4 DEF Host!Release, Host!DialForReleases, Host!DialForUncounts
  <2>3. ~ v15
    BY <2>1, <2>2, Zenon
  <2> QED BY <1>2, <1>4, <2>1, <2>3 DEF Host!Release, Host!DialForReleases, Host!DialForUncounts
<1>5. ASSUME NEW o \in Calls, Host!Uncount(o)
      PROVE  /\ v3' = <<>> /\ v6' = {} /\ Host!Delivering' = {} /\ Host!Dialling' = {}
             /\ \A c \in Host!Using' : c \in ClosingCalls /\ v7'[c] \notin {"give", "release"}
  <2>1. /\ v5 = "off" /\ v6' = v6 /\ v9' = v9 /\ v7' = [v7 EXCEPT ![o] = "close"]
        /\ Host!DecConnsCount
    BY <1>5 DEF Host!Uncount, Host!cleanVars
  <2>0. v3' = v3 /\ v10' = v10 /\ v15' = v15
    BY <2>1, HostDecConnsCount
  <2>2. v3' = v3 /\ v10' = v10 /\ ~ v15
    BY <2>0
  <2>6. \A d \in Calls : /\ v7'[d] \notin {"give", "release"}
                         /\ v7'[d] \in {"dial", "write", "read", "count"} => d \in ClosingCalls
    BY <1>2, <2>1, <2>2 DEF Host!TypeOK
  <2>7. v3' = <<>> /\ v6' = {} /\ \A d \in Calls : v9'[d] \notin Connections /\ v10'[d] = "none"
    BY <1>2, <2>1, <2>2
  <2> QED BY <1>a, <2>6, <2>7
<1>6. ASSUME NEW n \in Connections, Host!CloseScratch(n) PROVE FALSE
  <2>1. v5 = "off" /\ n \in v6 /\ Host!DecConnsCount
    BY <1>6 DEF Host!CloseScratch
  <2>2. ~ v15
    BY <2>1, HostDecConnsCount
  <2> QED BY <1>2, <2>1, <2>2
<1>7. ASSUME Host!Scan \/ Host!CloseIdleConnections PROVE FALSE
  BY <1>2, <1>7 DEF Host!Scan, Host!CloseIdleConnections, Host!history
<1> QED BY <1>1, <1>3, <1>4, <1>5, <1>6, <1>7 DEF Host!Next, Host!CallStep, Host!CleanerStops

LEMMA HostInit == ASSUME Host!Init PROVE Host!Inv
<1> USE HostAssumption DEF Host!Init
<1>1. Host!TypeOK
  BY DEF Host!TypeOK, Host!Places
<1>2. Host!OwnersDiffer
  BY DEF Host!OwnersDiffer
<1>3. Host!QueueIsOrdered
  BY NoElements DEF Host!QueueIsOrdered
<1>4. Host!Pooled = {} /\ Host!Delivering = {} /\ Host!Dialling = {} /\ Host!Using = {}
  BY NoElements DEF Host!Pooled, Host!Delivering, Host!Dialling, Host!Using
<1>5. Host!CountIsExact
  BY <1>4, FS_EmptySet, HostCounts DEF Host!CountIsExact
<1>6. Host!PoolIsOwn
  BY <1>4, NoElements DEF Host!PoolIsOwn
<1>7. Host!OnlyClosing
  BY <1>4 DEF Host!OnlyClosing
<1>8. Host!FreeConnsReachWaiters
  BY NoElements DEF Host!FreeConnsReachWaiters
<1> QED BY <1>1, <1>2, <1>3, <1>5, <1>6, <1>7, <1>8 DEF Host!Inv, Host!ConnsAreCounted

LEMMA HostStutter == ASSUME Host!Inv, UNCHANGED Host!vars PROVE Host!Inv'
<1> USE DEF Host!vars, Host!poolVars, Host!cleanVars, Host!callVars, Host!history
<1>1. Host!TypeOK' /\ Host!OwnersDiffer' /\ Host!QueueIsOrdered'
  BY DEF Host!Inv, Host!TypeOK, Host!OwnersDiffer, Host!QueueIsOrdered, Host!Waiting
<1>2. Host!ConnsAreCounted'
  BY DEF Host!Inv, Host!ConnsAreCounted, Host!CountIsExact, Host!PoolIsOwn, Host!Pooled,
         Host!Delivering, Host!Dialling, Host!Using
<1>3. Host!OnlyClosing' /\ Host!FreeConnsReachWaiters'
  BY DEF Host!Inv, Host!OnlyClosing, Host!FreeConnsReachWaiters, Host!Waiting,
         Host!Delivering, Host!Dialling, Host!Using
<1> QED BY <1>1, <1>2, <1>3 DEF Host!Inv

LEMMA HostStep == ASSUME Host!Inv, Host!Next PROVE Host!Inv'
<1>1. /\ Host!TypeOK /\ Host!OwnersDiffer /\ Host!PoolIsOwn /\ Host!QueueIsOrdered
      /\ Host!CountIsExact /\ v2 <= MaxConns
      /\ Host!OnlyClosing /\ Host!FreeConnsReachWaiters
  BY DEF Host!Inv, Host!ConnsAreCounted
<1>2. Host!TypeOK' /\ Host!OwnersDiffer' /\ Host!PoolIsOwn' /\ Host!QueueIsOrdered'
  BY <1>1, HostOwners
<1>3. Host!CountIsExact' /\ v2' <= MaxConns
  BY <1>1, HostCount
<1>4. Host!FreeConnsReachWaiters'
  BY <1>1, HostFree
<1>5. Host!OnlyClosing'
  BY <1>1, HostCleaner
<1> QED BY <1>2, <1>3, <1>4, <1>5 DEF Host!Inv, Host!ConnsAreCounted

(* Without a cleaner no connection is idle. *)
LEMMA HostCleaned == ASSUME Host!Inv PROVE Host!IdleIsCleaned
  BY DEF Host!Inv, Host!OnlyClosing, Host!IdleIsCleaned

-----------------------------------------------------------------------------
(* The dialer (Dialer)                                                     *)

LEMMA DialCounts == \A S : Dial!Cardinality(S) = Cardinality(S)
  BY DEF Dial!Cardinality, Cardinality

LEMMA DialInit == ASSUME Dial!Init PROVE Dial!Inv
<1> USE NobodyAssumption, DialerAssumption DEF Dial!Init
<1>1. Dial!TypeOK
  BY DEF Dial!TypeOK, Dial!Places
<1>2. Dial!EntriesAreOrdered /\ Dial!PendingIsRenewed
  BY DEF Dial!EntriesAreOrdered, Dial!PendingIsRenewed
<1>3. Dial!SlotsAreDials
  <2>1. Cardinality({}) = 0
    BY FS_EmptySet
  <2>2. {c \in Calls : v6[c] = "dial"} = {}
    OBVIOUS
  <2>3. Cardinality(v5) <= Concurrency
    BY <2>1
  <2> QED BY <2>2, <2>3, DialCounts DEF Dial!SlotsAreDials
<1> QED BY <1>1, <1>2, <1>3 DEF Dial!Inv

LEMMA DialEntries ==
  ASSUME Dial!TypeOK, Dial!EntriesAreOrdered, Dial!PendingIsRenewed, Dial!Next
  PROVE  Dial!TypeOK' /\ Dial!EntriesAreOrdered' /\ Dial!PendingIsRenewed'
<1> USE NobodyAssumption, DialerAssumption
    DEF Dial!TypeOK, Dial!Places, Dial!EntriesAreOrdered, Dial!PendingIsRenewed, Dial!Objects,
       Dial!Goto
<1>1. ASSUME NEW c \in Calls, Dial!Load(c)
      PROVE  Dial!TypeOK' /\ Dial!EntriesAreOrdered' /\ Dial!PendingIsRenewed'
  BY <1>1 DEF Dial!Load, Dial!cacheVars
<1>2. ASSUME NEW c \in Calls, Dial!Swap(c)
      PROVE  Dial!TypeOK' /\ Dial!EntriesAreOrdered' /\ Dial!PendingIsRenewed'
  <2>1. /\ UNCHANGED <<v1, v2, v3, v5, v7, v8>> /\ v6[c] = "swap"
        /\ v4' = [v4 EXCEPT ![v7[c]] = TRUE]
        /\ \A d \in Calls \ {c} : v6'[d] = v6[d] /\ v9'[d] = v9[d]
        /\ \/ v4[v7[c]] /\ v6'[c] = "use" /\ v9'[c] = v9[c]
           \/ ~ v4[v7[c]] /\ v6'[c] = "resolve" /\ v9'[c] = v7[c]
    BY <1>2 DEF Dial!Swap
  <2>2. v7[c] \in 1 .. v2 /\ v7[c] \in 1 .. Entries /\ v9[c] = Nobody
    BY <2>1
  <2>3. /\ DOMAIN v4' = Dial!Objects
        /\ \A e \in Dial!Objects : e # v7[c] => (v4'[e] <=> v4[e])
    BY <2>1, <2>2
  <2>4. v6' \in [Calls -> Dial!Places] /\ v9' \in [Calls -> {Nobody} \cup Dial!Objects]
    BY <1>2, <2>2 DEF Dial!Swap
  <2>5. Dial!TypeOK'
    BY <2>1, <2>3, <2>4
  <2>6. Dial!EntriesAreOrdered'
    BY <2>1, <2>2, <2>3
  <2>7. Dial!PendingIsRenewed'
    <3> SUFFICES ASSUME v1' # Nobody, v4'[v1'] PROVE \E d \in Calls : v9'[d] = v1'
      OBVIOUS
    <3>1. v1 # Nobody /\ v1 \in Dial!Objects /\ v1' = v1
      BY <2>1
    <3>2. CASE v1 = v7[c] /\ ~ v4[v7[c]]
      BY <2>1, <3>1, <3>2
    <3>3. CASE v4[v1]
      <4>1. PICK d \in Calls : v9[d] = v1
        BY <3>1, <3>3
      <4> QED BY <2>1, <2>2, <3>1, <4>1
    <3> QED BY <2>3, <3>1, <3>2, <3>3
  <2> QED BY <2>5, <2>6, <2>7
<1>3. ASSUME NEW c \in Calls, Dial!Resolved(c)
      PROVE  Dial!TypeOK' /\ Dial!EntriesAreOrdered' /\ Dial!PendingIsRenewed'
  BY <1>3 DEF Dial!Resolved
<1>4. ASSUME NEW c \in Calls, Dial!ResolveFails(c)
      PROVE  Dial!TypeOK' /\ Dial!EntriesAreOrdered' /\ Dial!PendingIsRenewed'
  BY <1>4 DEF Dial!ResolveFails, Dial!cacheVars
<1>5. ASSUME NEW c \in Calls, Dial!Reload(c)
      PROVE  Dial!TypeOK' /\ Dial!EntriesAreOrdered' /\ Dial!PendingIsRenewed'
  BY <1>5 DEF Dial!Reload, Dial!cacheVars
<1>6. ASSUME NEW c \in Calls, Dial!Unset(c)
      PROVE  Dial!TypeOK' /\ Dial!EntriesAreOrdered' /\ Dial!PendingIsRenewed'
  BY <1>6 DEF Dial!Unset
<1>7. ASSUME NEW c \in Calls, Dial!Use(c)
      PROVE  Dial!TypeOK' /\ Dial!EntriesAreOrdered' /\ Dial!PendingIsRenewed'
  BY <1>7 DEF Dial!Use, Dial!cacheVars
<1>8. ASSUME NEW c \in Calls,
             \/ Dial!Acquire(c) \/ Dial!Overdue(c) \/ Dial!Connect(c)
             \/ Dial!ConnectFails(c) \/ Dial!ConnectTimesOut(c)
      PROVE  Dial!TypeOK' /\ Dial!EntriesAreOrdered' /\ Dial!PendingIsRenewed'
  BY <1>8 DEF Dial!Acquire, Dial!Overdue, Dial!Connect, Dial!ConnectFails,
              Dial!ConnectTimesOut, Dial!cacheVars
<1>9. CASE Dial!Grow
  BY <1>9 DEF Dial!Grow
<1>10. CASE Dial!Clean
  BY <1>10 DEF Dial!Clean
<1> QED BY <1>1, <1>2, <1>3, <1>4, <1>5, <1>6, <1>7, <1>8, <1>9, <1>10
        DEF Dial!Next, Dial!CallStep

LEMMA DialSlots ==
  ASSUME Dial!TypeOK, Dial!SlotsAreDials, Dial!Next
  PROVE  Dial!SlotsAreDials'
<1> DEFINE slots == v5  at == v6
<1> USE DEF Dial!Goto
<1>1. IsFiniteSet(slots)
  BY CallsAssumption, FS_Subset DEF Dial!SlotsAreDials
<1>2. at \in [Calls -> Dial!Places]
  BY DEF Dial!TypeOK
<1>3. ASSUME NEW c \in Calls, Dial!Acquire(c) PROVE Dial!SlotsAreDials'
  <2>0. at[c] = "try" /\ slots' = slots \cup {c} /\ Cardinality(slots) < Concurrency
    BY <1>3, DialCounts DEF Dial!Acquire
  <2>1. c \notin slots
    BY <2>0 DEF Dial!SlotsAreDials
  <2>2. Cardinality(slots') = Cardinality(slots) + 1 /\ Cardinality(slots) \in Nat
    BY <2>0, <2>1, <1>1, FS_AddElement, FS_CardinalityType
  <2>3. at'[c] = "dial" /\ \A d \in Calls \ {c} : at'[d] = at[d]
    BY <1>2, <1>3 DEF Dial!Acquire
  <2>4. slots' = {d \in Calls : at'[d] = "dial"}
    BY <2>0, <2>1, <2>3 DEF Dial!SlotsAreDials
  <2>5. Cardinality(slots') <= Concurrency
    BY <2>0, <2>2, DialerAssumption
  <2> QED BY <2>4, <2>5, DialCounts DEF Dial!SlotsAreDials
<1>4. ASSUME NEW c \in Calls,
             Dial!Connect(c) \/ Dial!ConnectFails(c) \/ Dial!ConnectTimesOut(c)
      PROVE  Dial!SlotsAreDials'
  <2>1. c \in slots /\ slots' = slots \ {c}
    BY <1>4 DEF Dial!Connect, Dial!ConnectFails, Dial!ConnectTimesOut, Dial!SlotsAreDials
  <2>2. Cardinality(slots') = Cardinality(slots) - 1 /\ Cardinality(slots) \in Nat
    BY <2>1, <1>1, FS_RemoveElement, FS_CardinalityType
  <2>3. at'[c] # "dial" /\ \A d \in Calls \ {c} : at'[d] = at[d]
    BY <1>2, <1>4 DEF Dial!Connect, Dial!ConnectFails, Dial!ConnectTimesOut
  <2>4. slots' = {d \in Calls : at'[d] = "dial"}
    BY <2>1, <2>3 DEF Dial!SlotsAreDials
  <2>5. Cardinality(slots') <= Concurrency
    BY <2>2, DialerAssumption, DialCounts DEF Dial!SlotsAreDials
  <2> QED BY <2>4, <2>5, DialCounts DEF Dial!SlotsAreDials
<1>5. ASSUME NEW c \in Calls,
             \/ Dial!Load(c) \/ Dial!Swap(c) \/ Dial!Resolved(c) \/ Dial!ResolveFails(c)
             \/ Dial!Reload(c) \/ Dial!Unset(c) \/ Dial!Use(c) \/ Dial!Overdue(c)
      PROVE  Dial!SlotsAreDials'
  <2>1. slots' = slots /\ \A d \in Calls : at'[d] = "dial" <=> at[d] = "dial"
    BY <1>2, <1>5 DEF Dial!Load, Dial!Swap, Dial!Resolved, Dial!ResolveFails, Dial!Reload,
                      Dial!Unset, Dial!Use, Dial!Overdue
  <2> QED BY <2>1 DEF Dial!SlotsAreDials
<1>6. CASE Dial!Grow \/ Dial!Clean
  BY <1>6 DEF Dial!Grow, Dial!Clean, Dial!SlotsAreDials
<1> QED BY <1>3, <1>4, <1>5, <1>6 DEF Dial!Next, Dial!CallStep

LEMMA DialStep == ASSUME Dial!Inv, Dial!Next PROVE Dial!Inv'
  BY DialEntries, DialSlots DEF Dial!Inv

LEMMA DialStutter == ASSUME Dial!Inv, UNCHANGED Dial!vars PROVE Dial!Inv'
  BY DEF Dial!vars, Dial!cacheVars, Dial!Inv, Dial!TypeOK, Dial!EntriesAreOrdered,
         Dial!PendingIsRenewed, Dial!SlotsAreDials

-----------------------------------------------------------------------------
(* The clients of hosts (Client)                                           *)

LEMMA MapCounts == \A S : Map!Cardinality(S) = Cardinality(S)
  BY DEF Map!Cardinality, Cardinality

LEMMA MapInit == ASSUME Map!Init PROVE Map!Inv
<1> USE ClientAssumption, NobodyAssumption DEF Map!Init
<1>1. Map!TypeOK
  BY DEF Map!TypeOK
<1>2. Map!RequestsAreCounted
  <2>1. Cardinality({}) = 0
    BY FS_EmptySet
  <2>2. \A o \in Map!Objects : Map!Users(o) = {}
    BY DEF Map!Users, Map!Objects
  <2> QED BY <2>1, <2>2, MapCounts DEF Map!RequestsAreCounted
<1>3. Map!OneClientPerHost
  BY DEF Map!OneClientPerHost, Map!Objects
<1>4. Map!AnswersAreAwaited /\ Map!AnswersAreOwn
  BY DEF Map!AnswersAreAwaited, Map!AnswersAreOwn
<1> QED BY <1>1, <1>2, <1>3, <1>4 DEF Map!Inv

LEMMA MapTypes ==
  ASSUME Map!TypeOK, Map!RequestsAreCounted, Map!Next PROVE Map!TypeOK'
<1> USE ClientAssumption DEF Map!TypeOK, Map!Objects, Map!Known
<1>1. ASSUME NEW c \in Calls, Map!Get(c) PROVE Map!TypeOK'
  BY <1>1 DEF Map!Get, Map!mapVars
<1>2. ASSUME NEW c \in Calls, Map!Answer(c) PROVE Map!TypeOK'
  BY <1>2 DEF Map!Answer, Map!mapVars
<1>3. ASSUME NEW c \in Calls, Map!Receive(c) PROVE Map!TypeOK'
  BY <1>3 DEF Map!Receive, Map!mapVars, Map!callVars
<1>4. ASSUME NEW c \in Calls, Map!TimesOut(c) PROVE Map!TypeOK'
  BY <1>4 DEF Map!TimesOut, Map!mapVars, Map!callVars
<1>5. ASSUME NEW c \in Calls, Map!Do(c) PROVE Map!TypeOK'
  BY <1>5 DEF Map!Do, Map!waitVars
<1>6. ASSUME NEW c \in Calls, Map!DoNew(c) PROVE Map!TypeOK'
  BY <1>6 DEF Map!DoNew, Map!waitVars
<1>7. ASSUME NEW c \in Calls, Map!ConfigureFails(c) PROVE Map!TypeOK'
  BY <1>7 DEF Map!ConfigureFails, Map!waitVars
<1>8. ASSUME NEW c \in Calls, Map!HostDo(c) PROVE Map!TypeOK'
  <2>1. PICK n \in {0, 1} : v5' = [v5 EXCEPT ![v8[c]] = n]
    BY <1>8 DEF Map!HostDo
  <2> QED BY <1>8, <2>1 DEF Map!HostDo, Map!waitVars
<1>9. ASSUME NEW c \in Calls, Map!Return(c) PROVE Map!TypeOK'
  <2>1. v8[c] \in Map!Objects
    BY <1>9 DEF Map!Return, Map!RequestsAreCounted
  <2> QED BY <1>9, <2>1 DEF Map!Return, Map!waitVars
<1>10. ASSUME NEW o \in Map!Objects, Map!ConnsClose(o) PROVE Map!TypeOK'
  BY <1>10 DEF Map!ConnsClose, Map!callVars, Map!waitVars
<1>11. CASE Map!Clean
  BY <1>11 DEF Map!Clean, Map!callVars, Map!waitVars
<1> QED BY <1>1, <1>2, <1>3, <1>4, <1>5, <1>6, <1>7, <1>8, <1>9, <1>10, <1>11 DEF Map!Next

LEMMA MapAnswers ==
  ASSUME Map!TypeOK, Map!AnswersAreAwaited, Map!AnswersAreOwn, Map!Next
  PROVE  Map!AnswersAreAwaited' /\ Map!AnswersAreOwn'
<1> USE ClientAssumption, NobodyAssumption
    DEF Map!TypeOK, Map!AnswersAreAwaited, Map!AnswersAreOwn
<1> DEFINE at == v7
<1>1. ASSUME NEW c \in Calls, Map!Get(c)
      PROVE  Map!AnswersAreAwaited' /\ Map!AnswersAreOwn'
  BY <1>1 DEF Map!Get
<1>2. ASSUME NEW c \in Calls, Map!Answer(c)
      PROVE  Map!AnswersAreAwaited' /\ Map!AnswersAreOwn'
  BY <1>2 DEF Map!Answer
<1>3. ASSUME NEW c \in Calls, Map!Receive(c)
      PROVE  Map!AnswersAreAwaited' /\ Map!AnswersAreOwn'
  BY <1>3 DEF Map!Receive, Map!callVars
<1>4. ASSUME NEW c \in Calls, Map!TimesOut(c)
      PROVE  Map!AnswersAreAwaited' /\ Map!AnswersAreOwn'
  BY <1>4 DEF Map!TimesOut, Map!callVars
<1>5. ASSUME NEW c \in Calls,
             Map!Do(c) \/ Map!DoNew(c) \/ Map!ConfigureFails(c) \/ Map!HostDo(c) \/ Map!Return(c)
      PROVE  Map!AnswersAreAwaited' /\ Map!AnswersAreOwn'
  <2>1. at[c] \notin {"none", "end"} /\ at'[c] \notin {"none", "end"}
    BY <1>5 DEF Map!Do, Map!DoNew, Map!ConfigureFails, Map!HostDo, Map!Return
  <2>2. \A d \in Calls \ {c} : at'[d] = at[d]
    BY <1>5 DEF Map!Do, Map!DoNew, Map!ConfigureFails, Map!HostDo, Map!Return
  <2>3. UNCHANGED Map!waitVars
    BY <1>5 DEF Map!Do, Map!DoNew, Map!ConfigureFails, Map!HostDo, Map!Return
  <2> QED BY <2>1, <2>2, <2>3 DEF Map!waitVars
<1>6. ASSUME NEW o \in Map!Objects, Map!ConnsClose(o)
      PROVE  Map!AnswersAreAwaited' /\ Map!AnswersAreOwn'
  BY <1>6 DEF Map!ConnsClose, Map!callVars, Map!waitVars
<1>7. CASE Map!Clean
  BY <1>7 DEF Map!Clean, Map!callVars, Map!waitVars
<1> QED BY <1>1, <1>2, <1>3, <1>4, <1>5, <1>6, <1>7 DEF Map!Next

LEMMA MapUsers ==
  \A o : IsFiniteSet(Map!Users(o)) /\ Cardinality(Map!Users(o)) \in Nat
  BY CallsAssumption, FS_Subset, FS_CardinalityType DEF Map!Users

LEMMA MapClients ==
  ASSUME Map!TypeOK, Map!RequestsAreCounted, Map!OneClientPerHost, Map!AnswersAreAwaited,
         Map!Next
  PROVE  Map!RequestsAreCounted' /\ Map!OneClientPerHost'
<1> DEFINE m == v2  pending == v4  connsCount == v5  at == v7  using == v8
<1> USE ClientAssumption, MapCounts DEF Map!Known
<1>1. ASSUME NEW c \in Calls,
             Map!Get(c) \/ Map!Answer(c) \/ Map!Receive(c) \/ Map!TimesOut(c)
               \/ Map!ConfigureFails(c)
      PROVE  Map!RequestsAreCounted' /\ Map!OneClientPerHost'
  <2>1. UNCHANGED <<m, pending, connsCount, using, v6>>
    BY <1>1 DEF Map!Get, Map!Answer, Map!Receive, Map!TimesOut, Map!ConfigureFails,
       Map!mapVars, Map!callVars
  <2>0. Map!Get(c) => at[c] = "none"
    BY DEF Map!Get, Map!AnswersAreAwaited
  <2>2. \/ at' = at
        \/ /\ \E q \in {"do", "answer", "end"} : at' = [at EXCEPT ![c] = q]
           /\ at[c] \in {"none", "do", "answer"}
    BY <1>1, <2>0 DEF Map!Get, Map!Answer, Map!Receive, Map!TimesOut,
       Map!ConfigureFails, Map!callVars
  <2>3. \A d \in Calls : at'[d] \in {"host", "return"} <=> at[d] \in {"host", "return"}
    BY <2>2 DEF Map!TypeOK
  <2> QED BY <2>1, <2>3 DEF Map!RequestsAreCounted, Map!OneClientPerHost, Map!Users
<1>2. ASSUME NEW c \in Calls, Map!Do(c)
      PROVE  Map!RequestsAreCounted' /\ Map!OneClientPerHost'
  <2> DEFINE o == <<HostOf[c], m[HostOf[c]]>>
  <2>1. o \in Map!Objects /\ using[c] = Nobody /\ o # Nobody
    BY <1>2 DEF Map!Do, Map!TypeOK, Map!RequestsAreCounted, Map!Objects
  <2>2. using' = [using EXCEPT ![c] = o] /\ pending' = [pending EXCEPT ![o] = @ + 1]
    BY <1>2 DEF Map!Do
  <2>0. Nobody \notin Map!Objects
    BY DEF Map!Objects
  <2> HIDE DEF o
  <2>3. ASSUME NEW p \in Map!Objects PROVE pending'[p] = Cardinality(Map!Users(p)')
    <3>1. pending[p] = Cardinality(Map!Users(p))
      BY DEF Map!RequestsAreCounted
    <3>2. CASE p = o
      <4>1. Map!Users(p)' = Map!Users(p) \cup {c} /\ c \notin Map!Users(p)
        BY <2>1, <2>2, <3>2 DEF Map!Users, Map!TypeOK
      <4>2. Cardinality(Map!Users(p)') = Cardinality(Map!Users(p)) + 1
        BY <4>1, MapUsers, FS_AddElement
      <4> QED BY <2>2, <3>1, <3>2, <4>2 DEF Map!TypeOK
    <3>3. CASE p # o
      <4>0. \A d \in Calls : using'[d] = p <=> using[d] = p
        BY <2>0, <2>1, <2>2, <3>3 DEF Map!TypeOK
      <4>1. Map!Users(p)' = Map!Users(p)
        BY <4>0 DEF Map!Users
      <4> QED BY <2>2, <3>1, <3>3, <4>1 DEF Map!TypeOK
    <3> QED BY <3>2, <3>3
  <2>4. Map!RequestsAreCounted'
    BY <2>1, <2>2, <2>3, <1>2 DEF Map!RequestsAreCounted, Map!TypeOK, Map!Do
  <2>5. Map!OneClientPerHost'
    BY <2>1, <2>2, <1>2 DEF Map!OneClientPerHost, Map!TypeOK, Map!Do, o
  <2> QED BY <2>4, <2>5
<1>3. ASSUME NEW c \in Calls, Map!DoNew(c)
      PROVE  Map!RequestsAreCounted' /\ Map!OneClientPerHost'
  <2> DEFINE h == HostOf[c]  o == <<h, v3[h] + 1>>
  <2>1. /\ h \in Hosts /\ m[h] = 0 /\ v3[h] + 1 \in 1 .. Instances
        /\ o \in Map!Objects /\ using[c] = Nobody /\ o # Nobody
    BY <1>3 DEF Map!DoNew, Map!TypeOK, Map!RequestsAreCounted, Map!Objects
  <2>2. /\ using' = [using EXCEPT ![c] = o] /\ pending' = [pending EXCEPT ![o] = 1]
        /\ m' = [m EXCEPT ![h] = v3[h] + 1]
    BY <1>3 DEF Map!DoNew
  <2>3. \A d \in Calls, i \in 1 .. Instances : using[d] # <<h, i>>
    BY <2>1 DEF Map!OneClientPerHost, Map!Objects
  <2>4. Map!Users(o) = {} /\ Cardinality(Map!Users(o)) = 0
    BY <2>1, <2>3, FS_EmptySet DEF Map!Users
  <2>0. Nobody \notin Map!Objects
    BY DEF Map!Objects
  <2>5. ASSUME NEW p \in Map!Objects PROVE pending'[p] = Cardinality(Map!Users(p)')
    <3> HIDE DEF o, h
    <3>1. pending[p] = Cardinality(Map!Users(p))
      BY DEF Map!RequestsAreCounted
    <3>2. CASE p = o
      <4>1. Map!Users(p)' = Map!Users(p) \cup {c} /\ c \notin Map!Users(p)
        BY <2>1, <2>2, <3>2 DEF Map!Users, Map!TypeOK
      <4>2. Cardinality(Map!Users(p)') = Cardinality(Map!Users(p)) + 1
        BY <4>1, MapUsers, FS_AddElement
      <4> QED BY <2>2, <2>4, <3>2, <4>2 DEF Map!TypeOK
    <3>3. CASE p # o
      <4>0. \A d \in Calls : using'[d] = p <=> using[d] = p
        BY <2>0, <2>1, <2>2, <3>3 DEF Map!TypeOK
      <4>1. Map!Users(p)' = Map!Users(p)
        BY <4>0 DEF Map!Users
      <4> QED BY <2>2, <3>1, <3>3, <4>1 DEF Map!TypeOK
    <3> QED BY <3>2, <3>3
  <2>6. Map!RequestsAreCounted'
    BY <2>1, <2>2, <2>5, <1>3 DEF Map!RequestsAreCounted, Map!TypeOK, Map!DoNew
  <2>7. Map!OneClientPerHost'
    BY <2>1, <2>2, <2>3, <1>3 DEF Map!OneClientPerHost, Map!TypeOK, Map!DoNew, Map!Objects
  <2> QED BY <2>6, <2>7
<1>4. ASSUME NEW c \in Calls, Map!HostDo(c)
      PROVE  Map!RequestsAreCounted' /\ Map!OneClientPerHost'
  <2>1. Map!RequestsAreCounted'
    BY <1>4 DEF Map!HostDo, Map!RequestsAreCounted, Map!TypeOK, Map!Users
  <2>2. Map!OneClientPerHost'
    BY <1>4 DEF Map!HostDo, Map!OneClientPerHost, Map!TypeOK, Map!RequestsAreCounted
  <2> QED BY <2>1, <2>2
<1>5. ASSUME NEW c \in Calls, Map!Return(c)
      PROVE  Map!RequestsAreCounted' /\ Map!OneClientPerHost'
  <2>1. using[c] \in Map!Objects /\ using[c] # Nobody
    BY <1>5 DEF Map!Return, Map!RequestsAreCounted, Map!TypeOK
  <2>2. using' = [using EXCEPT ![c] = Nobody] /\ pending' = [pending EXCEPT ![using[c]] = @ - 1]
    BY <1>5 DEF Map!Return
  <2>0. Nobody \notin Map!Objects
    BY DEF Map!Objects
  <2>4. ASSUME NEW p \in Map!Objects PROVE pending'[p] = Cardinality(Map!Users(p)')
    <3>1. pending[p] = Cardinality(Map!Users(p))
      BY DEF Map!RequestsAreCounted
    <3>2. CASE p = using[c]
      <4>1. Map!Users(p)' = Map!Users(p) \ {c} /\ c \in Map!Users(p)
        BY <2>1, <2>2, <3>2 DEF Map!Users, Map!TypeOK
      <4>2. Cardinality(Map!Users(p)') = Cardinality(Map!Users(p)) - 1
        BY <4>1, MapUsers, FS_RemoveElement
      <4> QED BY <2>2, <3>1, <3>2, <4>2 DEF Map!TypeOK
    <3>3. CASE p # using[c]
      <4>0. \A d \in Calls : using'[d] = p <=> using[d] = p
        BY <2>0, <2>1, <2>2, <3>3 DEF Map!TypeOK
      <4>1. Map!Users(p)' = Map!Users(p)
        BY <4>0 DEF Map!Users
      <4> QED BY <2>2, <3>1, <3>3, <4>1 DEF Map!TypeOK
    <3> QED BY <3>2, <3>3
  <2>5. Map!RequestsAreCounted'
    BY <2>1, <2>2, <2>4, <1>5 DEF Map!RequestsAreCounted, Map!TypeOK, Map!Return
  <2>6. Map!OneClientPerHost'
    BY <2>0, <2>1, <2>2, <1>5 DEF Map!OneClientPerHost, Map!TypeOK, Map!Return
  <2> QED BY <2>5, <2>6
<1>6. ASSUME NEW o \in Map!Objects, Map!ConnsClose(o)
      PROVE  Map!RequestsAreCounted' /\ Map!OneClientPerHost'
  BY <1>6 DEF Map!ConnsClose, Map!callVars, Map!waitVars, Map!RequestsAreCounted,
     Map!OneClientPerHost, Map!TypeOK, Map!Users
<1>7. CASE Map!Clean
  <2>1. UNCHANGED <<pending, connsCount, at, using>>
    BY <1>7 DEF Map!Clean, Map!callVars
  <2>2. Map!RequestsAreCounted'
    BY <2>1 DEF Map!RequestsAreCounted, Map!Users
  <2>3. ASSUME NEW o \in Map!Objects, connsCount[o] > 0 \/ \E c \in Calls : using[c] = o
        PROVE  m'[o[1]] = o[2]
    <3>1. m[o[1]] = o[2] /\ o = <<o[1], o[2]>> /\ o[1] \in Hosts
      BY <2>3 DEF Map!OneClientPerHost, Map!Objects
    <3>2. connsCount[o] > 0 \/ pending[o] # 0
      <4>1. CASE \E c \in Calls : using[c] = o
        <5>1. Map!Users(o) # {} /\ IsFiniteSet(Map!Users(o))
          BY <4>1, CallsAssumption, FS_Subset DEF Map!Users
        <5> QED BY <5>1, FS_EmptySet DEF Map!RequestsAreCounted
      <4> QED BY <2>3, <4>1
    <3>3. ~ Map!Unneeded(o[1])
      BY <3>1, <3>2 DEF Map!Unneeded, Map!TypeOK
    <3> QED BY <3>1, <3>3, <1>7 DEF Map!Clean
  <2>4. v6' = IF \A h \in Hosts : m'[h] = 0 THEN 0 ELSE 1
    BY <1>7 DEF Map!Clean, Map!OneClientPerHost
  <2> QED BY <2>1, <2>2, <2>3, <2>4 DEF Map!OneClientPerHost
<1> QED BY <1>1, <1>2, <1>3, <1>4, <1>5, <1>6, <1>7 DEF Map!Next

LEMMA MapStep == ASSUME Map!Inv, Map!Next PROVE Map!Inv'
  BY MapTypes, MapAnswers, MapClients DEF Map!Inv

LEMMA MapStutter == ASSUME Map!Inv, UNCHANGED Map!vars PROVE Map!Inv'
  BY DEF Map!vars, Map!mapVars, Map!callVars, Map!waitVars, Map!Inv, Map!TypeOK,
         Map!RequestsAreCounted, Map!Users, Map!OneClientPerHost, Map!AnswersAreAwaited,
         Map!AnswersAreOwn

-----------------------------------------------------------------------------
(* The balancing client (Balance)                                          *)

LEMMA WithoutOne ==
  ASSUME NEW S, NEW s \in Seq(S), NEW i \in 1 .. Len(s), Len(s) > 1
  PROVE  /\ SubSeq(s, 1, i - 1) \o SubSeq(s, i + 1, Len(s)) \in Seq(S)
         /\ Len(SubSeq(s, 1, i - 1) \o SubSeq(s, i + 1, Len(s))) > 0
<1> DEFINE t == SubSeq(s, 1, i - 1)  u == SubSeq(s, i + 1, Len(s))
<1>1. Len(s) \in Nat /\ i \in Int
  BY LenProperties
<1>2. t \in Seq(S) /\ Len(t) = i - 1
  BY <1>1, Slices
<1>3. u \in Seq(S) /\ Len(u) = Len(s) - i
  BY <1>1, Slices
<1> HIDE DEF t, u
<1>4. t \o u \in Seq(S) /\ Len(t \o u) = Len(t) + Len(u)
  BY <1>2, <1>3, ConcatProperties
<1>5. t \o u \in Seq(S) /\ Len(t \o u) > 0
  BY <1>1, <1>2, <1>3, <1>4
<1> QED BY <1>5 DEF t, u

(* Functions to integers, of which one value changes *)
LEMMA IntsUpdated ==
  ASSUME NEW S, NEW f \in [S -> Int], NEW x, NEW k \in Int
  PROVE  [f EXCEPT ![x] = k] \in [S -> Int]
  OBVIOUS

LEMMA IntsCounted ==
  ASSUME NEW S, NEW f \in [S -> Int], NEW x
  PROVE  [f EXCEPT ![x] = f[x] + 1] \in [S -> Int] /\ [f EXCEPT ![x] = f[x] - 1] \in [S -> Int]
<1>1. CASE x \in S
  <2>1. f[x] + 1 \in Int /\ f[x] - 1 \in Int
    BY <1>1
  <2> QED BY <2>1, IntsUpdated
<1>2. CASE x \notin S
  <2>1. [f EXCEPT ![x] = f[x] + 1] = f /\ [f EXCEPT ![x] = f[x] - 1] = f
    BY <1>2
  <2> QED BY <2>1
<1> QED BY <1>1, <1>2

LEMMA BalancerCounts == \A S : Balancer!Cardinality(S) = Cardinality(S)
  BY DEF Balancer!Cardinality, Cardinality

LEMMA BalancerSets ==
  \A l : /\ IsFiniteSet(Balancer!Owing(l)) /\ Cardinality(Balancer!Owing(l)) \in Nat
         /\ IsFiniteSet(Balancer!StartingTimer(l))
         /\ Cardinality(Balancer!StartingTimer(l)) \in Nat
         /\ Cardinality(Balancer!StartingTimer(l)) <= Cardinality(Balancer!Owing(l))
<1>1. IsFiniteSet(Few)
  BY CallsAssumption, FS_Subset
<1> TAKE l
<1>2. Balancer!Owing(l) \subseteq Few /\ Balancer!StartingTimer(l) \subseteq Balancer!Owing(l)
  BY DEF Balancer!Owing, Balancer!StartingTimer
<1> QED BY <1>1, <1>2, FS_Subset, FS_CardinalityType

LEMMA BalancerInit == ASSUME Balancer!Init PROVE Balancer!Inv
<1> USE BalancerAssumption DEF Balancer!Init
<1>1. Balancer!TypeOK
  BY DEF Balancer!TypeOK, Balancer!Looks
<1>2. ASSUME NEW l \in Clients
      PROVE  Balancer!Owing(l) = {} /\ Balancer!StartingTimer(l) = {}
  BY DEF Balancer!Owing, Balancer!StartingTimer
<1>3. ASSUME NEW l \in Clients
      PROVE  /\ v2[l] = v4[l] + Cardinality(Balancer!Owing(l))
             /\ v4[l] + Cardinality(Balancer!StartingTimer(l)) <= MaxPenalty
  <2>1. Cardinality(Balancer!Owing(l)) = 0 /\ Cardinality(Balancer!StartingTimer(l)) = 0
    BY <1>2, FS_EmptySet
  <2> QED BY <2>1
<1> QED BY <1>1, <1>3, BalancerCounts DEF Balancer!Inv, Balancer!PenaltiesEnd

LEMMA BalancerLook ==
  ASSUME Balancer!TypeOK, NEW l \in Clients
  PROVE  Balancer!Look(l) \in Balancer!Looks
<1>1. Cardinality({c \in Few : v5[c] = "do" /\ Balancer!Has(c, l)}) \in Nat
  BY CallsAssumption, FS_Subset, FS_CardinalityType
<1> QED BY <1>1, BalancerCounts
        DEF Balancer!Look, Balancer!Looks, Balancer!Load, Balancer!Busy, Balancer!TypeOK

LEMMA BalancerTypes ==
  ASSUME Balancer!TypeOK, Balancer!Next
  PROVE  Balancer!TypeOK'
<1> USE BalancerAssumption DEF Balancer!TypeOK, Balancer!Goto, Balancer!Return
<1>0. Nobody \notin Balancer!Looks
  BY DEF Balancer!Looks
<1>1. ASSUME NEW c \in Few, Balancer!Get(c) PROVE Balancer!TypeOK'
  <2>1. Balancer!Look(v1[1]) \in Balancer!Looks
    BY BalancerLook
  <2> QED BY <1>0, <1>1, <2>1 DEF Balancer!Get
<1>2. ASSUME NEW c \in Few, Balancer!Compare(c) PROVE Balancer!TypeOK'
  <2>0. v6[c] + 1 \in 1 .. Len(v1) /\ v1[v6[c] + 1] \in Clients
    <3>1. v6[c] < Len(v1) /\ v6[c] \in Nat /\ Len(v1) \in Nat /\ v1 \in Seq(Clients)
      BY <1>2 DEF Balancer!Compare
    <3> QED BY ONLY <3>1, ElementOfSeq
  <2>1. Balancer!Look(v1[v6[c] + 1]) \in Balancer!Looks
    BY <2>0, BalancerLook
  <2>2. v7' \in [Few -> Balancer!Looks \cup {Nobody}]
    BY <1>2, <2>1 DEF Balancer!Compare
  <2>3. v7'[c] # Nobody /\ v7[c] # Nobody /\ \A d \in Few \ {c} : v7'[d] = v7[d]
    BY <1>0, <1>2, <2>1 DEF Balancer!Compare
  <2>4. UNCHANGED <<v1, v2, v3, v4, v5, v8>> /\ v6' = [v6 EXCEPT ![c] = v6[c] + 1]
    BY <1>2 DEF Balancer!Compare
  <2>5. v6' \in [Few -> Nat]
    BY <2>4
  <2>6. \A d \in Few : v5'[d] = "start" <=> v7'[d] = Nobody
    BY <2>3, <2>4
  <2> QED BY <2>2, <2>4, <2>5, <2>6
<1>3. ASSUME NEW c \in Few, Balancer!Got(c) PROVE Balancer!TypeOK'
  BY <1>3 DEF Balancer!Got
<1>4. ASSUME NEW c \in Few, Balancer!Healthy(c) PROVE Balancer!TypeOK'
  <2>1. PICK l \in Clients : v7[c] # Nobody /\ v7[c].client = l
    BY <1>4 DEF Balancer!Healthy, Balancer!Looks
  <2>2. v2' \in [Clients -> Int] /\ v3' \in [Clients -> Int] /\ v4' \in [Clients -> Int]
    <3>1. v2' \in [Clients -> Int]
      BY <1>4 DEF Balancer!Healthy
    <3>2. v3' \in [Clients -> Int]
      <4>1. v3' = [v3 EXCEPT ![v7[c].client] = v3[v7[c].client] + 1]
        BY <1>4 DEF Balancer!Healthy
      <4>2. v3 \in [Clients -> Int]
        OBVIOUS
      <4> QED BY ONLY <4>1, <4>2, IntsCounted
    <3>3. v4' \in [Clients -> Int]
      BY <1>4 DEF Balancer!Healthy
    <3> QED BY <3>1, <3>2, <3>3
  <2>3. /\ v7' \in [Few -> Balancer!Looks \cup {Nobody}]
        /\ \A d \in Few : v5'[d] = "start" <=> v7'[d] = Nobody
    BY <1>4, <2>1 DEF Balancer!Healthy
  <2> QED BY <1>4, <2>2, <2>3 DEF Balancer!Healthy
<1>5. ASSUME NEW c \in Few, Balancer!Penalize(c) PROVE Balancer!TypeOK'
  <2>1. PICK l \in Clients : v7[c] # Nobody /\ v7[c].client = l
    BY <1>5 DEF Balancer!Penalize, Balancer!Looks
  <2>2. v2' \in [Clients -> Int] /\ v3' \in [Clients -> Int] /\ v4' \in [Clients -> Int]
    <3>1. v2' \in [Clients -> Int]
      <4>1. v2' = [v2 EXCEPT ![v7[c].client] = v2[v7[c].client] + 1]
        BY <1>5 DEF Balancer!Penalize
      <4>2. v2 \in [Clients -> Int]
        OBVIOUS
      <4> QED BY ONLY <4>1, <4>2, IntsCounted
    <3>2. v3' \in [Clients -> Int]
      BY <1>5 DEF Balancer!Penalize
    <3>3. v4' \in [Clients -> Int]
      BY <1>5 DEF Balancer!Penalize
    <3> QED BY <3>1, <3>2, <3>3
  <2>3. /\ v7' \in [Few -> Balancer!Looks \cup {Nobody}]
        /\ \A d \in Few : v5'[d] = "start" <=> v7'[d] = Nobody
    BY <1>5, <2>1 DEF Balancer!Penalize
  <2> QED BY <1>5, <2>2, <2>3 DEF Balancer!Penalize
<1>6. ASSUME NEW c \in Few, Balancer!Excess(c) PROVE Balancer!TypeOK'
  <2>1. PICK l \in Clients : v7[c] # Nobody /\ v7[c].client = l
    BY <1>6 DEF Balancer!Excess, Balancer!Looks
  <2>2. v2' \in [Clients -> Int] /\ v3' \in [Clients -> Int] /\ v4' \in [Clients -> Int]
    <3>1. v2' \in [Clients -> Int]
      <4>1. v2' = [v2 EXCEPT ![v7[c].client] = v2[v7[c].client] - 1]
        BY <1>6 DEF Balancer!Excess
      <4>2. v2 \in [Clients -> Int]
        OBVIOUS
      <4> QED BY ONLY <4>1, <4>2, IntsCounted
    <3>2. v3' \in [Clients -> Int]
      BY <1>6 DEF Balancer!Excess
    <3>3. v4' \in [Clients -> Int]
      BY <1>6 DEF Balancer!Excess
    <3> QED BY <3>1, <3>2, <3>3
  <2>3. /\ v7' \in [Few -> Balancer!Looks \cup {Nobody}]
        /\ \A d \in Few : v5'[d] = "start" <=> v7'[d] = Nobody
    BY <1>6, <2>1 DEF Balancer!Excess
  <2> QED BY <1>6, <2>2, <2>3 DEF Balancer!Excess
<1>7. ASSUME NEW c \in Few, Balancer!Count(c) PROVE Balancer!TypeOK'
  <2>1. PICK l \in Clients : v7[c] # Nobody /\ v7[c].client = l
    BY <1>7 DEF Balancer!Count, Balancer!Looks
  <2>2. v2' \in [Clients -> Int] /\ v3' \in [Clients -> Int] /\ v4' \in [Clients -> Int]
    <3>1. v2' \in [Clients -> Int]
      BY <1>7 DEF Balancer!Count
    <3>2. v3' \in [Clients -> Int]
      <4>1. v3' = [v3 EXCEPT ![v7[c].client] = v3[v7[c].client] + 1]
        BY <1>7 DEF Balancer!Count
      <4>2. v3 \in [Clients -> Int]
        OBVIOUS
      <4> QED BY ONLY <4>1, <4>2, IntsCounted
    <3>3. v4' \in [Clients -> Int]
      BY <1>7 DEF Balancer!Count
    <3> QED BY <3>1, <3>2, <3>3
  <2>3. /\ v7' \in [Few -> Balancer!Looks \cup {Nobody}]
        /\ \A d \in Few : v5'[d] = "start" <=> v7'[d] = Nobody
    BY <1>7, <2>1 DEF Balancer!Count
  <2> QED BY <1>7, <2>2, <2>3 DEF Balancer!Count
<1>8. ASSUME NEW c \in Few, Balancer!StartTimer(c) PROVE Balancer!TypeOK'
  <2>1. PICK l \in Clients : v7[c] # Nobody /\ v7[c].client = l
    BY <1>8 DEF Balancer!StartTimer, Balancer!Looks
  <2>2. v2' \in [Clients -> Int] /\ v3' \in [Clients -> Int] /\ v4' \in [Clients -> Int]
    <3>1. v2' \in [Clients -> Int]
      BY <1>8 DEF Balancer!StartTimer
    <3>2. v3' \in [Clients -> Int]
      BY <1>8 DEF Balancer!StartTimer
    <3>3. v4' \in [Clients -> Int]
      <4>1. v4' = [v4 EXCEPT ![v7[c].client] = v4[v7[c].client] + 1]
        BY <1>8 DEF Balancer!StartTimer
      <4>2. v4 \in [Clients -> Int]
        OBVIOUS
      <4> QED BY ONLY <4>1, <4>2, IntsCounted
    <3> QED BY <3>1, <3>2, <3>3
  <2>3. /\ v7' \in [Few -> Balancer!Looks \cup {Nobody}]
        /\ \A d \in Few : v5'[d] = "start" <=> v7'[d] = Nobody
    BY <1>8, <2>1 DEF Balancer!StartTimer
  <2> QED BY <1>8, <2>2, <2>3 DEF Balancer!StartTimer
<1>9. ASSUME NEW l \in Clients, Balancer!Forgive(l) PROVE Balancer!TypeOK'
  <2>1. UNCHANGED <<v1, v3, v5, v6, v7, v8>>
    BY <1>9 DEF Balancer!Forgive
  <2>2. v2' \in [Clients -> Int] /\ v4' \in [Clients -> Int]
    <3>1. v2' = [v2 EXCEPT ![l] = v2[l] - 1] /\ v4' = [v4 EXCEPT ![l] = v4[l] - 1]
      BY <1>9 DEF Balancer!Forgive
    <3>2. v2 \in [Clients -> Int] /\ v4 \in [Clients -> Int]
      OBVIOUS
    <3> QED BY ONLY <3>1, <3>2, IntsCounted
  <2> QED BY <2>1, <2>2
<1>10. ASSUME NEW l \in Clients, Balancer!AddClient(l) PROVE Balancer!TypeOK'
  <2>1. /\ v1' = Append(v1, l) /\ v3' = [v3 EXCEPT ![l] = 0]
        /\ UNCHANGED <<v2, v4, v5, v6, v7, v8>>
    BY <1>10 DEF Balancer!AddClient
  <2>2. v1' \in Seq(Clients) /\ Len(v1') > 0
    BY <2>1, AppendProperties
  <2>3. v3' \in [Clients -> Int]
    BY <2>1
  <2> QED BY <2>1, <2>2, <2>3
<1>11. ASSUME NEW l \in Clients, Balancer!RemoveClients(l) PROVE Balancer!TypeOK'
  <2>1. PICK i \in 1 .. Len(v1) : v1' = SubSeq(v1, 1, i - 1) \o SubSeq(v1, i + 1, Len(v1))
    BY <1>11 DEF Balancer!RemoveClients
  <2>2. v1' \in Seq(Clients) /\ Len(v1') > 0
    <3>1. /\ Len(v1) > 1 /\ v1 \in Seq(Clients)
          /\ v1' = SubSeq(v1, 1, i - 1) \o SubSeq(v1, i + 1, Len(v1))
      BY <1>11, <2>1 DEF Balancer!RemoveClients
    <3> QED BY <3>1, WithoutOne
  <2> QED BY <1>11, <2>2 DEF Balancer!RemoveClients
<1> QED BY <1>1, <1>2, <1>3, <1>4, <1>5, <1>6, <1>7, <1>8, <1>9, <1>10, <1>11
        DEF Balancer!Next, Balancer!CallStep

LEMMA BalancerPenalties ==
  ASSUME Balancer!TypeOK, Balancer!PenaltiesEnd, Balancer!Next
  PROVE  Balancer!PenaltiesEnd'
<1> DEFINE penalty == v2  timers == v4  at == v5  best == v7
<1> USE DEF Balancer!Goto, Balancer!Return
<1>m. MaxPenalty \in Nat
  BY BalancerAssumption
<1>o. \A k \in Clients :
        /\ penalty[k] = timers[k] + Cardinality(Balancer!Owing(k))
        /\ timers[k] + Cardinality(Balancer!StartingTimer(k)) <= MaxPenalty
        /\ penalty[k] \in Int /\ timers[k] \in Int
        /\ Cardinality(Balancer!Owing(k)) \in Nat
        /\ Cardinality(Balancer!StartingTimer(k)) \in Nat
  BY BalancerCounts, BalancerSets DEF Balancer!PenaltiesEnd, Balancer!TypeOK
<1>p. ASSUME \A k \in Clients :
               /\ penalty'[k] = timers'[k] + Cardinality(Balancer!Owing(k)')
               /\ timers'[k] + Cardinality(Balancer!StartingTimer(k)') <= MaxPenalty
      PROVE  Balancer!PenaltiesEnd'
  BY <1>p, BalancerCounts DEF Balancer!PenaltiesEnd
<1>1. ASSUME NEW c \in Few,
             \/ Balancer!Get(c) \/ Balancer!Compare(c) \/ Balancer!Got(c)
             \/ Balancer!Healthy(c) \/ Balancer!Count(c)
      PROVE  Balancer!PenaltiesEnd'
  <2>1. /\ penalty' = penalty /\ timers' = timers
        /\ at[c] \notin {"timer", "excess"} /\ at'[c] \notin {"timer", "excess"}
        /\ \A d \in Few \ {c} : at'[d] = at[d] /\ best'[d] = best[d]
    BY <1>1 DEF Balancer!Get, Balancer!Compare, Balancer!Got, Balancer!Healthy, Balancer!Count,
                Balancer!TypeOK
  <2>2. ASSUME NEW l
        PROVE  /\ Balancer!Owing(l)' = Balancer!Owing(l)
               /\ Balancer!StartingTimer(l)' = Balancer!StartingTimer(l)
    BY <2>1 DEF Balancer!Owing, Balancer!StartingTimer, Balancer!Has
  <2> QED BY <2>1, <2>2 DEF Balancer!PenaltiesEnd
<1>2. ASSUME NEW l \in Clients, Balancer!AddClient(l) \/ Balancer!RemoveClients(l)
      PROVE  Balancer!PenaltiesEnd'
  <2>1. UNCHANGED <<v2, v4, v5, v7>>
    BY <1>2 DEF Balancer!AddClient, Balancer!RemoveClients
  <2> QED BY <2>1 DEF Balancer!PenaltiesEnd, Balancer!Owing, Balancer!StartingTimer, Balancer!Has
<1>3. ASSUME NEW l \in Clients, Balancer!Forgive(l) PROVE Balancer!PenaltiesEnd'
  <2>1. /\ \A k \in Clients : Balancer!Owing(k)' = Balancer!Owing(k)
        /\ \A k \in Clients : Balancer!StartingTimer(k)' = Balancer!StartingTimer(k)
    BY <1>3 DEF Balancer!Forgive, Balancer!Owing, Balancer!StartingTimer, Balancer!Has
  <2>2. \A k \in Clients :
           \/ penalty'[k] = penalty[k] /\ timers'[k] = timers[k]
           \/ penalty'[k] = penalty[k] - 1 /\ timers'[k] = timers[k] - 1
    BY <1>3 DEF Balancer!Forgive, Balancer!TypeOK
  <2>3. ASSUME NEW k \in Clients
        PROVE  /\ penalty'[k] = timers'[k] + Cardinality(Balancer!Owing(k)')
               /\ timers'[k] + Cardinality(Balancer!StartingTimer(k)') <= MaxPenalty
    <3>1. /\ Cardinality(Balancer!Owing(k)') = Cardinality(Balancer!Owing(k))
          /\ Cardinality(Balancer!StartingTimer(k)') = Cardinality(Balancer!StartingTimer(k))
      BY <2>1
    <3> QED BY ONLY <1>m, <1>o, <2>2, <3>1, k \in Clients
  <2> QED BY <1>p, <2>3
<1>4. ASSUME NEW c \in Few,
             Balancer!Penalize(c) \/ Balancer!Excess(c) \/ Balancer!StartTimer(c)
      PROVE  Balancer!PenaltiesEnd'
  <2>1. PICK l \in Clients : best[c] # Nobody /\ best[c].client = l
    BY <1>4 DEF Balancer!Penalize, Balancer!Excess, Balancer!StartTimer, Balancer!TypeOK,
                Balancer!Looks
  <2>2. \A d \in Few \ {c} : at'[d] = at[d] /\ best'[d] = best[d]
    BY <1>4 DEF Balancer!Penalize, Balancer!Excess, Balancer!StartTimer, Balancer!TypeOK
  <2>3. best'[c] = best[c] \/ (best'[c] = Nobody /\ at'[c] = "start")
    BY <1>4 DEF Balancer!Penalize, Balancer!Excess, Balancer!StartTimer, Balancer!TypeOK
  <2>4. ASSUME NEW k \in Clients, k # l
        PROVE  /\ penalty'[k] = timers'[k] + Cardinality(Balancer!Owing(k)')
               /\ timers'[k] + Cardinality(Balancer!StartingTimer(k)') <= MaxPenalty
    <3>1. penalty'[k] = penalty[k] /\ timers'[k] = timers[k]
      BY <1>4, <2>1, <2>4
      DEF Balancer!Penalize, Balancer!Excess, Balancer!StartTimer, Balancer!TypeOK
    <3>2. \A d \in Few :
            Balancer!Has(d, k)' /\ at'[d] \in {"timer", "excess"} <=>
              Balancer!Has(d, k) /\ at[d] \in {"timer", "excess"}
      BY <2>1, <2>2, <2>3, <2>4 DEF Balancer!Has
    <3>3. \A d \in Few :
            Balancer!Has(d, k)' /\ at'[d] = "timer" <=> Balancer!Has(d, k) /\ at[d] = "timer"
      BY <2>1, <2>2, <2>3, <2>4 DEF Balancer!Has
    <3>4. Balancer!Owing(k)' = Balancer!Owing(k)
      BY <3>2 DEF Balancer!Owing
    <3>5. Balancer!StartingTimer(k)' = Balancer!StartingTimer(k)
      BY <3>3 DEF Balancer!StartingTimer
    <3> QED BY <1>o, <3>1, <3>4, <3>5
  <2>5. /\ penalty[l] = timers[l] + Cardinality(Balancer!Owing(l))
        /\ timers[l] + Cardinality(Balancer!StartingTimer(l)) <= MaxPenalty
        /\ penalty[l] \in Int /\ timers[l] \in Int
        /\ Cardinality(Balancer!Owing(l)) \in Nat
        /\ Cardinality(Balancer!StartingTimer(l)) \in Nat
    BY <1>o
  <2>9. ASSUME penalty'[l] = timers'[l] + Cardinality(Balancer!Owing(l)'),
               timers'[l] + Cardinality(Balancer!StartingTimer(l)') <= MaxPenalty
        PROVE  Balancer!PenaltiesEnd'
    BY <1>p, <2>4, <2>9
  <2>6. CASE Balancer!Penalize(c)
    <3>1. /\ penalty'[l] = penalty[l] + 1 /\ timers' = timers /\ at[c] = "do" /\ best' = best
          /\ at'[c] = IF penalty[l] + 1 > MaxPenalty THEN "excess" ELSE "timer"
      BY <2>1, <2>6 DEF Balancer!Penalize, Balancer!TypeOK
    <3>2. Balancer!Owing(l)' = Balancer!Owing(l) \cup {c} /\ c \notin Balancer!Owing(l)
      BY <2>1, <2>2, <3>1 DEF Balancer!Owing, Balancer!Has
    <3>3. Cardinality(Balancer!Owing(l)') = Cardinality(Balancer!Owing(l)) + 1
      BY <3>2, BalancerSets, FS_AddElement
    <3>4. CASE penalty[l] + 1 > MaxPenalty
      <4>1. Balancer!StartingTimer(l)' = Balancer!StartingTimer(l)
        BY <2>1, <2>2, <3>1, <3>4 DEF Balancer!StartingTimer, Balancer!Has
      <4>2. penalty'[l] = timers'[l] + Cardinality(Balancer!Owing(l)')
        BY <2>5, <3>1, <3>3
      <4>3. timers'[l] + Cardinality(Balancer!StartingTimer(l)') <= MaxPenalty
        BY <2>5, <3>1, <4>1
      <4> QED BY <2>9, <4>2, <4>3
    <3>5. CASE penalty[l] + 1 <= MaxPenalty
      <4>1. /\ Balancer!StartingTimer(l)' = Balancer!StartingTimer(l) \cup {c}
            /\ c \notin Balancer!StartingTimer(l)
        <5>1. at'[c] = "timer"
          BY <1>m, <2>5, <3>1, <3>5
        <5>2. at[c] = "do" /\ best' = best
          BY <3>1
        <5> QED BY <2>1, <2>2, <5>1, <5>2 DEF Balancer!StartingTimer, Balancer!Has
      <4>2. Cardinality(Balancer!StartingTimer(l)') = Cardinality(Balancer!StartingTimer(l)) + 1
        BY <4>1, BalancerSets, FS_AddElement
      <4>3. Cardinality(Balancer!StartingTimer(l)) <= Cardinality(Balancer!Owing(l))
        BY BalancerSets
      <4>4. penalty'[l] = timers'[l] + Cardinality(Balancer!Owing(l)')
        BY <2>5, <3>1, <3>3
      <4>5. timers'[l] + Cardinality(Balancer!StartingTimer(l)') <= MaxPenalty
        BY <1>m, <2>5, <3>1, <3>5, <4>2, <4>3
      <4> QED BY <2>9, <4>4, <4>5
    <3> QED BY <1>m, <2>5, <3>4, <3>5
  <2>7. CASE Balancer!Excess(c)
    <3>1. /\ penalty'[l] = penalty[l] - 1 /\ timers' = timers /\ at[c] = "excess"
          /\ best' = best /\ at'[c] = "count"
      BY <2>1, <2>7 DEF Balancer!Excess, Balancer!TypeOK
    <3>2. Balancer!Owing(l)' = Balancer!Owing(l) \ {c} /\ c \in Balancer!Owing(l)
      BY <2>1, <2>2, <3>1 DEF Balancer!Owing, Balancer!Has
    <3>3. Cardinality(Balancer!Owing(l)') = Cardinality(Balancer!Owing(l)) - 1
      BY <3>2, BalancerSets, FS_RemoveElement
    <3>4. Balancer!StartingTimer(l)' = Balancer!StartingTimer(l)
      BY <2>1, <2>2, <3>1 DEF Balancer!StartingTimer, Balancer!Has
    <3>5. penalty'[l] = timers'[l] + Cardinality(Balancer!Owing(l)')
      BY <2>5, <3>1, <3>3
    <3>6. timers'[l] + Cardinality(Balancer!StartingTimer(l)') <= MaxPenalty
      BY <2>5, <3>1, <3>4
    <3> QED BY <2>9, <3>5, <3>6
  <2>8. CASE Balancer!StartTimer(c)
    <3>1. /\ penalty' = penalty /\ timers'[l] = timers[l] + 1 /\ at[c] = "timer"
          /\ best'[c] = Nobody /\ at'[c] = "start"
      BY <2>1, <2>8 DEF Balancer!StartTimer, Balancer!TypeOK
    <3>2. Balancer!Owing(l)' = Balancer!Owing(l) \ {c} /\ c \in Balancer!Owing(l)
      BY <2>1, <2>2, <3>1 DEF Balancer!Owing, Balancer!Has
    <3>3. Cardinality(Balancer!Owing(l)') = Cardinality(Balancer!Owing(l)) - 1
      BY <3>2, BalancerSets, FS_RemoveElement
    <3>4. /\ Balancer!StartingTimer(l)' = Balancer!StartingTimer(l) \ {c}
          /\ c \in Balancer!StartingTimer(l)
      BY <2>1, <2>2, <3>1 DEF Balancer!StartingTimer, Balancer!Has
    <3>5. Cardinality(Balancer!StartingTimer(l)') = Cardinality(Balancer!StartingTimer(l)) - 1
      BY <3>4, BalancerSets, FS_RemoveElement
    <3>6. penalty'[l] = timers'[l] + Cardinality(Balancer!Owing(l)')
      BY <2>5, <3>1, <3>3
    <3>7. timers'[l] + Cardinality(Balancer!StartingTimer(l)') <= MaxPenalty
      BY <1>m, <2>5, <3>1, <3>5
    <3> QED BY <2>9, <3>6, <3>7
  <2> QED BY <1>4, <2>6, <2>7, <2>8
<1> QED BY <1>1, <1>2, <1>3, <1>4 DEF Balancer!Next, Balancer!CallStep

LEMMA BalancerStep == ASSUME Balancer!Inv, Balancer!Next PROVE Balancer!Inv'
  BY BalancerTypes, BalancerPenalties DEF Balancer!Inv

LEMMA BalancerStutter == ASSUME Balancer!Inv, UNCHANGED Balancer!vars PROVE Balancer!Inv'
  BY DEF Balancer!vars, Balancer!Inv, Balancer!TypeOK, Balancer!PenaltiesEnd,
         Balancer!Owing, Balancer!StartingTimer, Balancer!Has

-----------------------------------------------------------------------------
(* The file server's cache (FileCache)                                     *)

LEMMA FilesCounts == \A S : Files!Cardinality(S) = Cardinality(S)
  BY DEF Files!Cardinality, Cardinality

LEMMA FilesSets ==
  \A o : /\ IsFiniteSet(Files!Holders(o)) /\ Cardinality(Files!Holders(o)) \in Nat
         /\ IsFiniteSet(Files!Reading(o)) /\ Cardinality(Files!Reading(o)) \in Nat
<1>1. \A o : Files!Holders(o) \subseteq Few /\ Files!Reading(o) \subseteq Few
  BY DEF Files!Holders, Files!Reading
<1>2. IsFiniteSet(Few)
  BY CallsAssumption, FS_Subset
<1> QED BY <1>1, <1>2, FS_Subset, FS_CardinalityType

LEMMA FilesSame ==
  ASSUME Files!TypeOK, Files!CallsHaveFiles, Files!NewFilesAreOwn, Files!HeldFilesAreKept,
         Files!ReadersAreCounted, Files!BigFilesAreCounted, Files!FilesAreClosed,
         UNCHANGED <<v1, v2, v3, v4, v5, v6, v7, v9, v10, v11, v12, v13, v14, v17, v18>>,
         v8' \subseteq 1 .. v3
  PROVE  /\ Files!TypeOK' /\ Files!CallsHaveFiles' /\ Files!NewFilesAreOwn'
         /\ Files!HeldFilesAreKept' /\ Files!ReadersAreCounted'
         /\ Files!BigFilesAreCounted' /\ Files!FilesAreClosed'
  BY DEF Files!TypeOK, Files!CallsHaveFiles, Files!NewFilesAreOwn, Files!HeldFilesAreKept,
     Files!ReadersAreCounted, Files!BigFilesAreCounted, Files!FilesAreClosed, Files!Cached,
     Files!Reading,
     Files!Holders, Files!Holds, Files!Made, Files!Objects

LEMMA FilesInit == ASSUME Files!Init PROVE Files!Inv
<1> USE FilesAssumption, NobodyAssumption DEF Files!Init, Files!Objects, Files!Made
<1>1. Files!TypeOK
  BY DEF Files!TypeOK
<1>2. \A o \in Files!Objects : Files!Holders(o) = {}
  BY DEF Files!Holders, Files!Holds
<1>3. Files!ReadFilesAreOpen
  <2>1. ASSUME NEW o \in Files!Objects PROVE v4[o] = 0 /\ Files!Cardinality(Files!Holders(o)) = 0
    BY <1>2, FS_EmptySet, FilesCounts
  <2> HIDE DEF Files!Init
  <2> QED BY <2>1 DEF Files!ReadFilesAreOpen, Files!ReadersAreCounted
<1>4. Files!CallsHaveFiles /\ Files!NewFilesAreOwn
  BY DEF Files!CallsHaveFiles, Files!NewFilesAreOwn
<1>5. Files!HeldFilesAreKept
  BY DEF Files!HeldFilesAreKept, Files!Cached, Files!Holds
<1>6. Files!BigFilesAreCounted /\ Files!FilesAreClosed
  BY DEF Files!BigFilesAreCounted, Files!FilesAreClosed
<1> QED BY <1>1, <1>3, <1>4, <1>5, <1>6 DEF Files!Inv

(* What has readers is held, so kept, so open. *)
LEMMA FilesOpen ==
  ASSUME Files!ReadersAreCounted, Files!HeldFilesAreKept
  PROVE  Files!ReadFilesAreOpen
<1>1. ASSUME NEW o \in Files!Objects, v4[o] > 0 PROVE o \in v5 \cup v17
  <2>1. Cardinality(Files!Holders(o)) # 0
    BY <1>1, FilesCounts DEF Files!ReadersAreCounted
  <2>2. PICK c \in Few : Files!Holds(c, o)
    BY <2>1, FS_EmptySet DEF Files!Holders
  <2> QED BY <2>2 DEF Files!HeldFilesAreKept
<1> QED BY <1>1 DEF Files!ReadFilesAreOpen

LEMMA FilesStep ==
  ASSUME Files!TypeOK, Files!CallsHaveFiles, Files!NewFilesAreOwn, Files!HeldFilesAreKept,
         Files!ReadersAreCounted, Files!BigFilesAreCounted, Files!FilesAreClosed, Files!Next
  PROVE  /\ Files!TypeOK' /\ Files!CallsHaveFiles' /\ Files!NewFilesAreOwn'
         /\ Files!HeldFilesAreKept' /\ Files!ReadersAreCounted'
         /\ Files!BigFilesAreCounted' /\ Files!FilesAreClosed'
<1> USE FilesAssumption, NobodyAssumption
    DEF Files!Made, Files!Objects, Files!Holds, Files!Goto,
        Files!caches, Files!cleaning, Files!call, Files!system
<1> DEFINE Preparing == {"start", "open", "compressed", "remove", "lock", "compress", "reopen"}
           Places == Preparing \cup {"insert", "second", "have", "read", "leave"}
           Kept ==
             /\ Files!TypeOK' /\ Files!CallsHaveFiles' /\ Files!NewFilesAreOwn'
             /\ Files!HeldFilesAreKept' /\ Files!ReadersAreCounted'
             /\ Files!BigFilesAreCounted' /\ Files!FilesAreClosed'
<1>t. /\ v1 \in BOOLEAN /\ v3 \in 0 .. FilesMade
      /\ v2 \in [Forms -> 1 .. v3 \cup {Nobody}]
      /\ v4 \in [1 .. FilesMade -> Int] /\ v6 \in [1 .. FilesMade -> Nat]
      /\ v7 \in [1 .. FilesMade -> Int]
      /\ v5 \subseteq 1 .. v3 /\ v8 \subseteq 1 .. v3 /\ v9 \subseteq 1 .. v3
      /\ v10 \subseteq 1 .. v3
      /\ v17 \subseteq 1 .. v3 /\ \A o \in (1 .. FilesMade) \ (1 .. v3) : v6[o] = 0
  BY DEF Files!TypeOK
<1>i. v4 \in [1 .. FilesMade -> Int] /\ v7 \in [1 .. FilesMade -> Int]
  BY <1>t
<1>u. /\ v11 \in [Few -> Places]
      /\ v12 \in [Few -> Forms \cup {Nobody}] /\ v13 \in [Few -> 1 .. v3 \cup {Nobody}]
      /\ v14 \in [Few -> 1 .. v3 \cup {Nobody}]
  BY DEF Files!TypeOK
<1>w. /\ Files!Cached \subseteq 1 .. v3
      /\ \A f \in Forms : v2[f] # Nobody => v2[f] \in Files!Cached /\ v2[f] \in 1 .. v3
  BY <1>t DEF Files!Cached
<1>v. 1 .. v3 \subseteq 1 .. FilesMade /\ Nobody \notin 1 .. FilesMade /\ FilesMade \in Nat
  BY <1>t
<1>1. ASSUME NEW c \in Few,
             UNCHANGED <<v1, v2, v3, v4, v5, v6, v7, v8, v9, v10, v13, v14, v17, v18>>,
             v11[c] \in Preparing, v11'[c] \in Preparing,
             v11' = [v11 EXCEPT ![c] = v11'[c]],
             v12' = v12 \/ (v12' = [v12 EXCEPT ![c] = v12'[c]] /\ v12'[c] \in Forms),
             v12'[c] = Nobody => v11'[c] = "start"
      PROVE  Kept
  <2>1. /\ UNCHANGED <<v1, v2, v3, v4, v5, v6, v7, v8, v9, v10, v13, v14, v17, v18>>
        /\ v11[c] \in Preparing
        /\ v11'[c] \in Preparing
        /\ \A d \in Few \ {c} : v11'[d] = v11[d] /\ v12'[d] = v12[d]
        /\ v12'[c] = Nobody => v11'[c] = "start"
    BY <1>1, <1>t, <1>u, <1>v, <1>w
  <2>c. Files!Cached' = Files!Cached
    BY <2>1, <1>t, <1>v DEF Files!Cached
  <2>2. Files!TypeOK'
    <3>1. v1' \in BOOLEAN /\ v3' \in 0 .. FilesMade
      BY <2>1, <1>1, <1>t, <1>u, <1>v
    <3>2. /\ v5' \subseteq 1 .. v3' /\ v8' \subseteq 1 .. v3' /\ v9' \subseteq 1 .. v3'
          /\ v10' \subseteq 1 .. v3' /\ v17' \subseteq 1 .. v3'
      BY <2>1, <1>1, <1>t, <1>u, <1>v
    <3>3. v2' \in [Forms -> 1 .. v3' \cup {Nobody}]
      BY <2>1, <1>1, <1>t, <1>u, <1>v
    <3>4. v4' \in [1 .. FilesMade -> Int] /\ v7' \in [1 .. FilesMade -> Int]
      <4>1. v4' \in [1 .. FilesMade -> Int]
        BY <1>1, <1>i
      <4>2. v7' \in [1 .. FilesMade -> Int]
        BY <1>1, <1>i
      <4> QED BY <4>1, <4>2
    <3>5. v6' \in [1 .. FilesMade -> Nat]
      BY <2>1, <1>1, <1>t, <1>u, <1>v
    <3>6. \A o \in (1 .. FilesMade) \ (1 .. v3') : v6'[o] = 0
      BY <2>1, <1>1, <1>t, <1>u, <1>v
    <3>7. v11' \in [Few -> Places]
      BY <2>1, <1>1, <1>t, <1>u, <1>v
    <3>8. v12' \in [Few -> Forms \cup {Nobody}]
      BY <2>1, <1>1, <1>t, <1>u, <1>v
    <3>9. v13' \in [Few -> 1 .. v3' \cup {Nobody}]
      BY <2>1, <1>1, <1>t, <1>u, <1>v
    <3>10. v14' \in [Few -> 1 .. v3' \cup {Nobody}]
      BY <2>1, <1>1, <1>t, <1>u, <1>v
    <3> QED BY <3>1, <3>2, <3>3, <3>4, <3>5, <3>6, <3>7, <3>8, <3>9, <3>10 DEF Files!TypeOK
  <2>3. Files!CallsHaveFiles'
    BY <2>1, <2>c, <1>u, <1>v DEF Files!CallsHaveFiles
  <2>4. Files!NewFilesAreOwn'
    <3> SUFFICES ASSUME NEW d \in Few, v11'[d] \in {"insert", "second"}
                 PROVE  /\ v13'[d] \in (v5' \cup v17') \ (Files!Cached' \cup v9' \cup v10')
                        /\ \A e \in Few : v14'[e] # v13'[d] /\ (e # d => v13'[e] # v13'[d])
      BY DEF Files!NewFilesAreOwn
    <3>1. v13'[d] \in (v5' \cup v17') \ (Files!Cached' \cup v9' \cup v10')
      BY <2>1, <2>c, <1>t, <1>u, <1>v, <1>w DEF Files!CallsHaveFiles, Files!NewFilesAreOwn
    <3>0. /\ v13'[d] \notin Files!Cached
          /\ \/ v13'[d] = v13[d] /\ v11[d] \in {"insert", "second"}
             \/ v13'[d] \notin 1 .. v3
      BY <2>1, <2>c, <1>t, <1>u, <1>v, <1>w DEF Files!CallsHaveFiles, Files!NewFilesAreOwn
    <3>2. ASSUME NEW e \in Few PROVE v14'[e] # v13'[d]
      <4>1. v13'[d] # Nobody
        BY <2>3 DEF Files!CallsHaveFiles
      <4>2. v14'[e] = v14[e] \/ v14'[e] \in Files!Cached \cup {Nobody}
        BY <2>1, <2>c
      <4>3. v14[e] # v13'[d]
        BY <3>0, <4>1, <1>u DEF Files!NewFilesAreOwn
      <4> QED BY <3>0, <4>1, <4>2, <4>3
    <3>3. ASSUME NEW e \in Few, e # d PROVE v13'[e] # v13'[d]
      BY <2>1, <2>c, <3>0, <3>3, <1>u, <1>v, <1>w DEF Files!NewFilesAreOwn
    <3> QED BY <3>1, <3>2, <3>3
  <2>5. Files!HeldFilesAreKept'
    <3>1. ASSUME NEW d \in Few, NEW o \in 1 .. FilesMade, Files!Holds(d, o)'
          PROVE  o \in Files!Cached' \cup v9'
      <4>1. Files!Holds(d, o) \/ o \in Files!Cached'
        BY <2>1, <2>c, <3>1, <1>u, <1>v DEF Files!CallsHaveFiles
      <4>2. Files!Holds(d, o) => o \in Files!Cached \cup v9
        BY DEF Files!HeldFilesAreKept
      <4> HIDE DEF Files!Holds
      <4> QED BY <2>1, <2>c, <3>1, <4>1, <4>2, <1>v
    <3>2. /\ Files!Cached' \cup v9' \subseteq v5' \cup v17'
          /\ Files!Cached' \cap v9' = {} /\ (Files!Cached' \cup v9') \cap v10' = {}
      BY <2>1, <2>c, <1>t, <1>u, <1>v
         DEF Files!CallsHaveFiles, Files!NewFilesAreOwn, Files!HeldFilesAreKept
    <3> QED BY <3>1, <3>2 DEF Files!HeldFilesAreKept
  <2>6. Files!ReadersAreCounted'
    <3>1. ASSUME NEW o \in Files!Objects
          PROVE  v4'[o] = v4[o] /\ Files!Holders(o)' = Files!Holders(o)
      <4>1. \A d \in Few : Files!Holds(d, o)' <=> Files!Holds(d, o)
        BY <2>1, <2>c, <1>u, <1>v DEF Files!CallsHaveFiles
      <4>2. v4'[o] = v4[o]
        BY <2>1, <2>c, <1>t
      <4> HIDE DEF Files!Holds
      <4> QED BY <4>1, <4>2 DEF Files!Holders
    <3> QED BY <3>1, FilesCounts DEF Files!ReadersAreCounted
  <2>7. Files!BigFilesAreCounted'
    <3>1. ASSUME ~ v1 PROVE \A o \in Files!Objects : v7'[o] = 0 /\ v6'[o] = 0
      BY <2>1, <2>c, <3>1, <1>t, <1>v DEF Files!BigFilesAreCounted
    <3>2. ASSUME v1, NEW o \in v5'
          PROVE  v7'[o] = v6'[o] + Cardinality(Files!Reading(o)')
      <4>1. Files!Reading(o)' = Files!Reading(o)
        <5>1. \A d \in Few :
                (v13'[d] = o /\ v11'[d] = "read") <=> (v13[d] = o /\ v11[d] = "read")
          BY <2>1, <2>c, <1>t, <1>u, <1>v DEF Files!CallsHaveFiles, Files!NewFilesAreOwn
        <5> QED BY <5>1 DEF Files!Reading
      <4>2. o \in v5 /\ v7'[o] = v7[o] /\ v6'[o] = v6[o]
        BY <2>1, <2>c, <3>2, <1>t, <1>v
      <4> QED BY <3>2, <4>1, <4>2, FilesCounts DEF Files!BigFilesAreCounted
    <3>3. v1' = v1 /\ (v1 => v17' = {})
      BY <2>1, <2>c, <1>t DEF Files!BigFilesAreCounted
    <3> QED BY <3>1, <3>2, <3>3, FilesCounts DEF Files!BigFilesAreCounted
  <2>8. Files!FilesAreClosed'
    <3> DEFINE Going(o) == o \in v18' \cup v9' \cup v10' \cup Files!Cached'
               Coming(o) == \E d \in Few : v13'[d] = o /\ v11'[d] \in {"insert", "second"}
    <3>2. ASSUME NEW o \in 1 .. FilesMade, o \notin v5' PROVE v7'[o] = 0
      BY <2>1, <2>c, <3>2, <1>t, <1>v DEF Files!BigFilesAreCounted, Files!FilesAreClosed
    <3>3. ASSUME NEW o \in 1 .. FilesMade, o \in v5', NEW d \in Few, v13[d] = o,
                 v11[d] \in {"insert", "second"}
          PROVE  Going(o) \/ Coming(o)
      <4>1. Going(o) \/ (v13'[d] = o /\ v11'[d] \in {"insert", "second"})
        BY <2>1, <2>c, <3>3, <1>t, <1>u, <1>v DEF Files!CallsHaveFiles
      <4> QED BY <4>1
    <3>4. ASSUME NEW o \in 1 .. FilesMade, o \in v5', o \in v18 \cup v9 \cup v10 \cup Files!Cached
          PROVE  Going(o)
      BY <2>1, <2>c, <3>4
    <3>5. ASSUME NEW o \in 1 .. FilesMade, o \in v5', o \notin v5 PROVE Going(o) \/ Coming(o)
      BY <2>1, <2>c, <3>5
    <3>6. ASSUME NEW o \in 1 .. FilesMade, o \in v5' PROVE Going(o) \/ Coming(o)
      <4> HIDE DEF Going, Coming
      <4> QED BY <3>3, <3>4, <3>5, <3>6 DEF Files!FilesAreClosed
    <3> QED BY <3>2, <3>6 DEF Files!FilesAreClosed
  <2> QED BY <2>2, <2>3, <2>4, <2>5, <2>6, <2>7, <2>8
<1>2. ASSUME NEW c \in Few, Files!New(c), v11[c] \in {"open", "compressed", "reopen"}
      PROVE  Kept
  <2>1. /\ UNCHANGED <<v1, v2, v4, v6, v7, v8, v9, v10, v12, v14, v17>>
        /\ v3' = v3 + 1 /\ v3 < FilesMade
        /\ v5' = v5 \cup {v3'}
        /\ v11[c] \in Preparing /\ v13[c] = Nobody /\ v14[c] = Nobody /\ v12[c] # Nobody
        /\ \/ v11'[c] = "insert" /\ v13'[c] = v3' /\ v18' = v18
           \/ v11'[c] = "start" /\ v13'[c] = Nobody /\ v18' = v18 \cup {v3'}
        /\ \A d \in Few \ {c} : v11'[d] = v11[d] /\ v13'[d] = v13[d]
    BY <1>2, <1>t, <1>u, <1>v, <1>w DEF Files!New, Files!CallsHaveFiles
  <2>a. v3' \in 1 .. FilesMade /\ v3' \notin 1 .. v3 /\ 1 .. v3' = 1 .. v3 \cup {v3'}
    BY <2>1, <1>t, <1>v
  <2>c. Files!Cached' = Files!Cached
    BY <2>1, <2>a, <1>t, <1>v DEF Files!Cached
  <2>2. Files!TypeOK'
    <3>1. v1' \in BOOLEAN /\ v3' \in 0 .. FilesMade
      BY <2>1, <1>2, <2>a, <1>t, <1>u, <1>v DEF Files!New, Files!CallsHaveFiles
    <3>2. /\ v5' \subseteq 1 .. v3' /\ v8' \subseteq 1 .. v3' /\ v9' \subseteq 1 .. v3'
          /\ v10' \subseteq 1 .. v3' /\ v17' \subseteq 1 .. v3'
      BY <2>1, <1>2, <2>a, <1>t, <1>u, <1>v DEF Files!New, Files!CallsHaveFiles
    <3>3. v2' \in [Forms -> 1 .. v3' \cup {Nobody}]
      BY <2>1, <1>2, <2>a, <1>t, <1>u, <1>v DEF Files!New, Files!CallsHaveFiles
    <3>4. v4' \in [1 .. FilesMade -> Int] /\ v7' \in [1 .. FilesMade -> Int]
      <4>1. v4' \in [1 .. FilesMade -> Int]
        BY <1>2, <1>i DEF Files!New
      <4>2. v7' \in [1 .. FilesMade -> Int]
        BY <1>2, <1>i DEF Files!New
      <4> QED BY <4>1, <4>2
    <3>5. v6' \in [1 .. FilesMade -> Nat]
      BY <2>1, <1>2, <2>a, <1>t, <1>u, <1>v DEF Files!New, Files!CallsHaveFiles
    <3>6. \A o \in (1 .. FilesMade) \ (1 .. v3') : v6'[o] = 0
      BY <2>1, <1>2, <2>a, <1>t, <1>u, <1>v DEF Files!New, Files!CallsHaveFiles
    <3>7. v11' \in [Few -> Places]
      BY <2>1, <1>2, <2>a, <1>t, <1>u, <1>v DEF Files!New, Files!CallsHaveFiles
    <3>8. v12' \in [Few -> Forms \cup {Nobody}]
      BY <2>1, <1>2, <2>a, <1>t, <1>u, <1>v DEF Files!New, Files!CallsHaveFiles
    <3>9. v13' \in [Few -> 1 .. v3' \cup {Nobody}]
      BY <2>1, <1>2, <2>a, <1>t, <1>u, <1>v DEF Files!New, Files!CallsHaveFiles
    <3>10. v14' \in [Few -> 1 .. v3' \cup {Nobody}]
      BY <2>1, <1>2, <2>a, <1>t, <1>u, <1>v DEF Files!New, Files!CallsHaveFiles
    <3> QED BY <3>1, <3>2, <3>3, <3>4, <3>5, <3>6, <3>7, <3>8, <3>9, <3>10 DEF Files!TypeOK
  <2>3. Files!CallsHaveFiles'
    BY <2>1, <2>a, <2>c, <1>u, <1>v DEF Files!CallsHaveFiles
  <2>4. Files!NewFilesAreOwn'
    <3> SUFFICES ASSUME NEW d \in Few, v11'[d] \in {"insert", "second"}
                 PROVE  /\ v13'[d] \in (v5' \cup v17') \ (Files!Cached' \cup v9' \cup v10')
                        /\ \A e \in Few : v14'[e] # v13'[d] /\ (e # d => v13'[e] # v13'[d])
      BY DEF Files!NewFilesAreOwn
    <3>1. v13'[d] \in (v5' \cup v17') \ (Files!Cached' \cup v9' \cup v10')
      BY <2>1, <2>a, <2>c, <1>t, <1>u, <1>v, <1>w DEF Files!CallsHaveFiles, Files!NewFilesAreOwn
    <3>0. /\ v13'[d] \notin Files!Cached
          /\ \/ v13'[d] = v13[d] /\ v11[d] \in {"insert", "second"}
             \/ v13'[d] \notin 1 .. v3
      BY <2>1, <2>a, <2>c, <1>t, <1>u, <1>v, <1>w DEF Files!CallsHaveFiles, Files!NewFilesAreOwn
    <3>2. ASSUME NEW e \in Few PROVE v14'[e] # v13'[d]
      <4>1. v13'[d] # Nobody
        BY <2>3 DEF Files!CallsHaveFiles
      <4>2. v14'[e] = v14[e] \/ v14'[e] \in Files!Cached \cup {Nobody}
        BY <2>1, <2>a, <2>c
      <4>3. v14[e] # v13'[d]
        BY <3>0, <4>1, <1>u DEF Files!NewFilesAreOwn
      <4> QED BY <3>0, <4>1, <4>2, <4>3
    <3>3. ASSUME NEW e \in Few, e # d PROVE v13'[e] # v13'[d]
      BY <2>1, <2>a, <2>c, <3>0, <3>3, <1>u, <1>v, <1>w DEF Files!NewFilesAreOwn
    <3> QED BY <3>1, <3>2, <3>3
  <2>5. Files!HeldFilesAreKept'
    <3>1. ASSUME NEW d \in Few, NEW o \in 1 .. FilesMade, Files!Holds(d, o)'
          PROVE  o \in Files!Cached' \cup v9'
      <4>1. Files!Holds(d, o) \/ o \in Files!Cached'
        BY <2>1, <2>a, <2>c, <3>1, <1>u, <1>v DEF Files!CallsHaveFiles
      <4>2. Files!Holds(d, o) => o \in Files!Cached \cup v9
        BY DEF Files!HeldFilesAreKept
      <4> HIDE DEF Files!Holds
      <4> QED BY <2>1, <2>a, <2>c, <3>1, <4>1, <4>2, <1>v
    <3>2. /\ Files!Cached' \cup v9' \subseteq v5' \cup v17'
          /\ Files!Cached' \cap v9' = {} /\ (Files!Cached' \cup v9') \cap v10' = {}
      BY <2>1, <2>a, <2>c, <1>t, <1>u, <1>v
         DEF Files!CallsHaveFiles, Files!NewFilesAreOwn, Files!HeldFilesAreKept
    <3> QED BY <3>1, <3>2 DEF Files!HeldFilesAreKept
  <2>6. Files!ReadersAreCounted'
    <3>1. ASSUME NEW o \in Files!Objects
          PROVE  v4'[o] = v4[o] /\ Files!Holders(o)' = Files!Holders(o)
      <4>1. \A d \in Few : Files!Holds(d, o)' <=> Files!Holds(d, o)
        BY <2>1, <2>a, <2>c, <1>u, <1>v DEF Files!CallsHaveFiles
      <4>2. v4'[o] = v4[o]
        BY <2>1, <2>a, <2>c, <1>t
      <4> HIDE DEF Files!Holds
      <4> QED BY <4>1, <4>2 DEF Files!Holders
    <3> QED BY <3>1, FilesCounts DEF Files!ReadersAreCounted
  <2>7. Files!BigFilesAreCounted'
    <3>1. ASSUME ~ v1 PROVE \A o \in Files!Objects : v7'[o] = 0 /\ v6'[o] = 0
      BY <2>1, <3>1, <1>t, <1>v DEF Files!BigFilesAreCounted
    <3>2. ASSUME v1, NEW o \in v5'
          PROVE  v7'[o] = v6'[o] + Cardinality(Files!Reading(o)')
      <4>1. Files!Reading(o)' = Files!Reading(o)
        <5>1. \A d \in Few :
                (v13'[d] = o /\ v11'[d] = "read") <=> (v13[d] = o /\ v11[d] = "read")
          BY <2>1, <1>t, <1>u, <1>v DEF Files!CallsHaveFiles
        <5> QED BY <5>1 DEF Files!Reading
      <4>2. CASE o \in v5
        BY <2>1, <3>2, <4>1, <4>2, <1>t, <1>v, FilesCounts DEF Files!BigFilesAreCounted
      <4>3. CASE o = v3'
        <5>1. v7[o] = 0 /\ v6[o] = 0
          BY <2>1, <4>3, <1>t, <1>v DEF Files!FilesAreClosed
        <5>2. Files!Reading(o) = {}
          BY <2>1, <4>3, <1>t, <1>u, <1>v DEF Files!Reading
        <5> QED BY <2>1, <4>1, <5>1, <5>2, FS_EmptySet
      <4> QED BY <2>1, <4>2, <4>3
    <3>3. v1' = v1 /\ (v1 => v17' = {})
      BY <2>1, <1>t DEF Files!BigFilesAreCounted
    <3> QED BY <3>1, <3>2, <3>3, FilesCounts DEF Files!BigFilesAreCounted
  <2>8. Files!FilesAreClosed'
    <3> DEFINE Going(o) == o \in v18' \cup v9' \cup v10' \cup Files!Cached'
               Coming(o) == \E d \in Few : v13'[d] = o /\ v11'[d] \in {"insert", "second"}
    <3>2. ASSUME NEW o \in 1 .. FilesMade, o \notin v5' PROVE v7'[o] = 0
      BY <2>1, <2>a, <2>c, <3>2, <1>t, <1>v DEF Files!BigFilesAreCounted, Files!FilesAreClosed
    <3>3. ASSUME NEW o \in 1 .. FilesMade, o \in v5', NEW d \in Few, v13[d] = o,
                 v11[d] \in {"insert", "second"}
          PROVE  Going(o) \/ Coming(o)
      <4>1. Going(o) \/ (v13'[d] = o /\ v11'[d] \in {"insert", "second"})
        BY <2>1, <2>a, <2>c, <3>3, <1>t, <1>u, <1>v DEF Files!CallsHaveFiles
      <4> QED BY <4>1
    <3>4. ASSUME NEW o \in 1 .. FilesMade, o \in v5', o \in v18 \cup v9 \cup v10 \cup Files!Cached
          PROVE  Going(o)
      BY <2>1, <2>a, <2>c, <3>4
    <3>5. ASSUME NEW o \in 1 .. FilesMade, o \in v5', o \notin v5 PROVE Going(o) \/ Coming(o)
      BY <2>1, <2>a, <2>c, <3>5
    <3>6. ASSUME NEW o \in 1 .. FilesMade, o \in v5' PROVE Going(o) \/ Coming(o)
      <4> HIDE DEF Going, Coming
      <4> QED BY <3>3, <3>4, <3>5, <3>6 DEF Files!FilesAreClosed
    <3> QED BY <3>2, <3>6 DEF Files!FilesAreClosed
  <2> QED BY <2>2, <2>3, <2>4, <2>5, <2>6, <2>7, <2>8
<1>3. ASSUME NEW c \in Few, Files!OpenIndex(c)
      PROVE  Kept
  <2>1. /\ UNCHANGED <<v1, v2, v4, v5, v6, v7, v8, v9, v10, v12, v14, v18>>
        /\ v3' = v3 + 1 /\ v3 < FilesMade
        /\ v17' = v17 \cup {v3'} /\ ~ v1
        /\ v11[c] = "open" /\ v13[c] = Nobody /\ v14[c] = Nobody /\ v12[c] # Nobody
        /\ v11'[c] = "insert" /\ v13'[c] = v3'
        /\ \A d \in Few \ {c} : v11'[d] = v11[d] /\ v13'[d] = v13[d]
    BY <1>3, <1>t, <1>u, <1>v, <1>w DEF Files!OpenIndex, Files!CallsHaveFiles
  <2>a. v3' \in 1 .. FilesMade /\ v3' \notin 1 .. v3 /\ 1 .. v3' = 1 .. v3 \cup {v3'}
    BY <2>1, <1>t, <1>v
  <2>c. Files!Cached' = Files!Cached
    BY <2>1, <2>a, <1>t, <1>v DEF Files!Cached
  <2>2. Files!TypeOK'
    <3>1. v1' \in BOOLEAN /\ v3' \in 0 .. FilesMade
      BY <2>1, <1>3, <2>a, <1>t, <1>u, <1>v DEF Files!OpenIndex, Files!CallsHaveFiles
    <3>2. /\ v5' \subseteq 1 .. v3' /\ v8' \subseteq 1 .. v3' /\ v9' \subseteq 1 .. v3'
          /\ v10' \subseteq 1 .. v3' /\ v17' \subseteq 1 .. v3'
      BY <2>1, <1>3, <2>a, <1>t, <1>u, <1>v DEF Files!OpenIndex, Files!CallsHaveFiles
    <3>3. v2' \in [Forms -> 1 .. v3' \cup {Nobody}]
      BY <2>1, <1>3, <2>a, <1>t, <1>u, <1>v DEF Files!OpenIndex, Files!CallsHaveFiles
    <3>4. v4' \in [1 .. FilesMade -> Int] /\ v7' \in [1 .. FilesMade -> Int]
      <4>1. v4' \in [1 .. FilesMade -> Int]
        BY <1>3, <1>i DEF Files!OpenIndex
      <4>2. v7' \in [1 .. FilesMade -> Int]
        BY <1>3, <1>i DEF Files!OpenIndex
      <4> QED BY <4>1, <4>2
    <3>5. v6' \in [1 .. FilesMade -> Nat]
      BY <2>1, <1>3, <2>a, <1>t, <1>u, <1>v DEF Files!OpenIndex, Files!CallsHaveFiles
    <3>6. \A o \in (1 .. FilesMade) \ (1 .. v3') : v6'[o] = 0
      BY <2>1, <1>3, <2>a, <1>t, <1>u, <1>v DEF Files!OpenIndex, Files!CallsHaveFiles
    <3>7. v11' \in [Few -> Places]
      BY <2>1, <1>3, <2>a, <1>t, <1>u, <1>v DEF Files!OpenIndex, Files!CallsHaveFiles
    <3>8. v12' \in [Few -> Forms \cup {Nobody}]
      BY <2>1, <1>3, <2>a, <1>t, <1>u, <1>v DEF Files!OpenIndex, Files!CallsHaveFiles
    <3>9. v13' \in [Few -> 1 .. v3' \cup {Nobody}]
      BY <2>1, <1>3, <2>a, <1>t, <1>u, <1>v DEF Files!OpenIndex, Files!CallsHaveFiles
    <3>10. v14' \in [Few -> 1 .. v3' \cup {Nobody}]
      BY <2>1, <1>3, <2>a, <1>t, <1>u, <1>v DEF Files!OpenIndex, Files!CallsHaveFiles
    <3> QED BY <3>1, <3>2, <3>3, <3>4, <3>5, <3>6, <3>7, <3>8, <3>9, <3>10 DEF Files!TypeOK
  <2>3. Files!CallsHaveFiles'
    BY <2>1, <2>a, <2>c, <1>u, <1>v DEF Files!CallsHaveFiles
  <2>4. Files!NewFilesAreOwn'
    <3> SUFFICES ASSUME NEW d \in Few, v11'[d] \in {"insert", "second"}
                 PROVE  /\ v13'[d] \in (v5' \cup v17') \ (Files!Cached' \cup v9' \cup v10')
                        /\ \A e \in Few : v14'[e] # v13'[d] /\ (e # d => v13'[e] # v13'[d])
      BY DEF Files!NewFilesAreOwn
    <3>1. v13'[d] \in (v5' \cup v17') \ (Files!Cached' \cup v9' \cup v10')
      BY <2>1, <2>a, <2>c, <1>t, <1>u, <1>v, <1>w DEF Files!CallsHaveFiles, Files!NewFilesAreOwn
    <3>0. /\ v13'[d] \notin Files!Cached
          /\ \/ v13'[d] = v13[d] /\ v11[d] \in {"insert", "second"}
             \/ v13'[d] \notin 1 .. v3
      BY <2>1, <2>a, <2>c, <1>t, <1>u, <1>v, <1>w DEF Files!CallsHaveFiles, Files!NewFilesAreOwn
    <3>2. ASSUME NEW e \in Few PROVE v14'[e] # v13'[d]
      <4>1. v13'[d] # Nobody
        BY <2>3 DEF Files!CallsHaveFiles
      <4>2. v14'[e] = v14[e] \/ v14'[e] \in Files!Cached \cup {Nobody}
        BY <2>1, <2>a, <2>c
      <4>3. v14[e] # v13'[d]
        BY <3>0, <4>1, <1>u DEF Files!NewFilesAreOwn
      <4> QED BY <3>0, <4>1, <4>2, <4>3
    <3>3. ASSUME NEW e \in Few, e # d PROVE v13'[e] # v13'[d]
      BY <2>1, <2>a, <2>c, <3>0, <3>3, <1>u, <1>v, <1>w DEF Files!NewFilesAreOwn
    <3> QED BY <3>1, <3>2, <3>3
  <2>5. Files!HeldFilesAreKept'
    <3>1. ASSUME NEW d \in Few, NEW o \in 1 .. FilesMade, Files!Holds(d, o)'
          PROVE  o \in Files!Cached' \cup v9'
      <4>1. Files!Holds(d, o) \/ o \in Files!Cached'
        BY <2>1, <2>a, <2>c, <3>1, <1>u, <1>v DEF Files!CallsHaveFiles
      <4>2. Files!Holds(d, o) => o \in Files!Cached \cup v9
        BY DEF Files!HeldFilesAreKept
      <4> HIDE DEF Files!Holds
      <4> QED BY <2>1, <2>a, <2>c, <3>1, <4>1, <4>2, <1>v
    <3>2. /\ Files!Cached' \cup v9' \subseteq v5' \cup v17'
          /\ Files!Cached' \cap v9' = {} /\ (Files!Cached' \cup v9') \cap v10' = {}
      BY <2>1, <2>a, <2>c, <1>t, <1>u, <1>v
         DEF Files!CallsHaveFiles, Files!NewFilesAreOwn, Files!HeldFilesAreKept
    <3> QED BY <3>1, <3>2 DEF Files!HeldFilesAreKept
  <2>6. Files!ReadersAreCounted'
    <3>1. ASSUME NEW o \in Files!Objects
          PROVE  v4'[o] = v4[o] /\ Files!Holders(o)' = Files!Holders(o)
      <4>1. \A d \in Few : Files!Holds(d, o)' <=> Files!Holds(d, o)
        BY <2>1, <2>a, <2>c, <1>u, <1>v DEF Files!CallsHaveFiles
      <4>2. v4'[o] = v4[o]
        BY <2>1, <2>a, <2>c, <1>t
      <4> HIDE DEF Files!Holds
      <4> QED BY <4>1, <4>2 DEF Files!Holders
    <3> QED BY <3>1, FilesCounts DEF Files!ReadersAreCounted
  <2>7. Files!BigFilesAreCounted'
    BY <2>1, <1>t, <1>v DEF Files!BigFilesAreCounted
  <2>8. Files!FilesAreClosed'
    <3> DEFINE Going(o) == o \in v18' \cup v9' \cup v10' \cup Files!Cached'
               Coming(o) == \E d \in Few : v13'[d] = o /\ v11'[d] \in {"insert", "second"}
    <3>2. ASSUME NEW o \in 1 .. FilesMade, o \notin v5' PROVE v7'[o] = 0
      BY <2>1, <2>a, <2>c, <3>2, <1>t, <1>v DEF Files!BigFilesAreCounted, Files!FilesAreClosed
    <3>3. ASSUME NEW o \in 1 .. FilesMade, o \in v5', NEW d \in Few, v13[d] = o,
                 v11[d] \in {"insert", "second"}
          PROVE  Going(o) \/ Coming(o)
      <4>1. Going(o) \/ (v13'[d] = o /\ v11'[d] \in {"insert", "second"})
        BY <2>1, <2>a, <2>c, <3>3, <1>t, <1>u, <1>v DEF Files!CallsHaveFiles
      <4> QED BY <4>1
    <3>4. ASSUME NEW o \in 1 .. FilesMade, o \in v5', o \in v18 \cup v9 \cup v10 \cup Files!Cached
          PROVE  Going(o)
      BY <2>1, <2>a, <2>c, <3>4
    <3>5. ASSUME NEW o \in 1 .. FilesMade, o \in v5', o \notin v5 PROVE Going(o) \/ Coming(o)
      BY <2>1, <2>a, <2>c, <3>5
    <3>6. ASSUME NEW o \in 1 .. FilesMade, o \in v5' PROVE Going(o) \/ Coming(o)
      <4> HIDE DEF Going, Coming
      <4> QED BY <3>3, <3>4, <3>5, <3>6 DEF Files!FilesAreClosed
    <3> QED BY <3>2, <3>6 DEF Files!FilesAreClosed
  <2> QED BY <2>2, <2>3, <2>4, <2>5, <2>6, <2>7, <2>8
<1>4. ASSUME NEW c \in Few, Files!Lookup(c), v11'[c] = "have"
      PROVE  Kept
  <2>p. PICK f \in Forms :
        /\ v2[f] # Nobody /\ v11[c] = "start" /\ v11' = [v11 EXCEPT ![c] = "have"]
        /\ v12' = [v12 EXCEPT ![c] = f] /\ v13' = [v13 EXCEPT ![c] = v2[f]]
        /\ v4' = [v4 EXCEPT ![v2[f]] = v4[v2[f]] + 1]
        /\ UNCHANGED <<v1, v2, v3, v5, v6, v7, v8, v9, v10, v14, v17, v18>>
    <3>1. PICK f \in Forms :
            /\ v12' = [v12 EXCEPT ![c] = f] /\ v13' = [v13 EXCEPT ![c] = v2[f]]
            /\ IF v2[f] = Nobody
               THEN v11' = [v11 EXCEPT ![c] = IF f = "plain" THEN "open" ELSE "compressed"]
               ELSE /\ v4' = [v4 EXCEPT ![v2[f]] = v4[v2[f]] + 1]
                    /\ v11' = [v11 EXCEPT ![c] = "have"]
      BY <1>4 DEF Files!Lookup
    <3>2. v2[f] # Nobody
      BY <1>4, <3>1, <1>u
    <3> QED BY <1>4, <3>1, <3>2 DEF Files!Lookup
  <2>1. /\ v2[f] \in 1 .. v3 /\ v2[f] \in 1 .. FilesMade /\ v2[f] \in Files!Cached
        /\ v13'[c] = v2[f]
        /\ v4'[v2[f]] = v4[v2[f]] + 1 /\ \A o \in 1 .. FilesMade : o # v2[f] => v4'[o] = v4[o]
        /\ UNCHANGED <<v1, v2, v3, v5, v6, v7, v8, v9, v10, v14, v17, v18>>
        /\ v11[c] = "start" /\ v11'[c] = "have" /\ v13[c] = Nobody /\ v14[c] = Nobody
        /\ \A d \in Few \ {c} : v11'[d] = v11[d] /\ v13'[d] = v13[d] /\ v12'[d] = v12[d]
    BY <2>p, <1>t, <1>u, <1>v, <1>w DEF Files!CallsHaveFiles
  <2>c. Files!Cached' = Files!Cached
    BY <2>1, <1>t, <1>v DEF Files!Cached
  <2>2. Files!TypeOK'
    <3>1. v1' \in BOOLEAN /\ v3' \in 0 .. FilesMade
      BY <2>p, <2>1, <1>t, <1>u, <1>v
    <3>2. /\ v5' \subseteq 1 .. v3' /\ v8' \subseteq 1 .. v3' /\ v9' \subseteq 1 .. v3'
          /\ v10' \subseteq 1 .. v3' /\ v17' \subseteq 1 .. v3'
      BY <2>p, <2>1, <1>t, <1>u, <1>v
    <3>3. v2' \in [Forms -> 1 .. v3' \cup {Nobody}]
      BY <2>p, <2>1, <1>t, <1>u, <1>v
    <3>4. v4' \in [1 .. FilesMade -> Int] /\ v7' \in [1 .. FilesMade -> Int]
      <4>1. v4' \in [1 .. FilesMade -> Int]
        <5>1. v2[f] \in 1 .. FilesMade
          BY <2>1
        <5>2. v4[v2[f]] + 1 \in Int
          BY ONLY <5>1, <1>i
        <5> QED BY <2>p, <5>2, <1>i, IntsUpdated
      <4>2. v7' \in [1 .. FilesMade -> Int]
        BY <2>p, <1>i
      <4> QED BY <4>1, <4>2
    <3>5. v6' \in [1 .. FilesMade -> Nat]
      BY <2>p, <2>1, <1>t, <1>u, <1>v
    <3>6. \A o \in (1 .. FilesMade) \ (1 .. v3') : v6'[o] = 0
      BY <2>p, <2>1, <1>t, <1>u, <1>v
    <3>7. v11' \in [Few -> Places]
      BY <2>p, <2>1, <1>t, <1>u, <1>v
    <3>8. v12' \in [Few -> Forms \cup {Nobody}]
      BY <2>p, <2>1, <1>t, <1>u, <1>v
    <3>9. v13' \in [Few -> 1 .. v3' \cup {Nobody}]
      BY <2>p, <2>1, <1>t, <1>u, <1>v
    <3>10. v14' \in [Few -> 1 .. v3' \cup {Nobody}]
      BY <2>p, <2>1, <1>t, <1>u, <1>v
    <3> QED BY <3>1, <3>2, <3>3, <3>4, <3>5, <3>6, <3>7, <3>8, <3>9, <3>10 DEF Files!TypeOK
  <2>3. Files!CallsHaveFiles'
    BY <2>1, <2>c, <1>u, <1>v DEF Files!CallsHaveFiles
  <2>4. Files!NewFilesAreOwn'
    <3> SUFFICES ASSUME NEW d \in Few, v11'[d] \in {"insert", "second"}
                 PROVE  /\ v13'[d] \in (v5' \cup v17') \ (Files!Cached' \cup v9' \cup v10')
                        /\ \A e \in Few : v14'[e] # v13'[d] /\ (e # d => v13'[e] # v13'[d])
      BY DEF Files!NewFilesAreOwn
    <3>1. v13'[d] \in (v5' \cup v17') \ (Files!Cached' \cup v9' \cup v10')
      BY <2>1, <2>c, <1>t, <1>u, <1>v, <1>w DEF Files!CallsHaveFiles, Files!NewFilesAreOwn
    <3>0. /\ v13'[d] \notin Files!Cached
          /\ \/ v13'[d] = v13[d] /\ v11[d] \in {"insert", "second"}
             \/ v13'[d] \notin 1 .. v3
      BY <2>1, <2>c, <1>t, <1>u, <1>v, <1>w DEF Files!CallsHaveFiles, Files!NewFilesAreOwn
    <3>2. ASSUME NEW e \in Few PROVE v14'[e] # v13'[d]
      <4>1. v13'[d] # Nobody
        BY <2>3 DEF Files!CallsHaveFiles
      <4>2. v14'[e] = v14[e] \/ v14'[e] \in Files!Cached \cup {Nobody}
        BY <2>1, <2>c
      <4>3. v14[e] # v13'[d]
        BY <3>0, <4>1, <1>u DEF Files!NewFilesAreOwn
      <4> QED BY <3>0, <4>1, <4>2, <4>3
    <3>3. ASSUME NEW e \in Few, e # d PROVE v13'[e] # v13'[d]
      BY <2>1, <2>c, <3>0, <3>3, <1>u, <1>v, <1>w DEF Files!NewFilesAreOwn
    <3> QED BY <3>1, <3>2, <3>3
  <2>5. Files!HeldFilesAreKept'
    <3>1. ASSUME NEW d \in Few, NEW o \in 1 .. FilesMade, Files!Holds(d, o)'
          PROVE  o \in Files!Cached' \cup v9'
      <4>1. Files!Holds(d, o) \/ o \in Files!Cached'
        BY <2>1, <2>c, <3>1, <1>u, <1>v DEF Files!CallsHaveFiles
      <4>2. Files!Holds(d, o) => o \in Files!Cached \cup v9
        BY DEF Files!HeldFilesAreKept
      <4> HIDE DEF Files!Holds
      <4> QED BY <2>1, <2>c, <3>1, <4>1, <4>2, <1>v
    <3>2. /\ Files!Cached' \cup v9' \subseteq v5' \cup v17'
          /\ Files!Cached' \cap v9' = {} /\ (Files!Cached' \cup v9') \cap v10' = {}
      BY <2>1, <2>c, <1>t, <1>u, <1>v
         DEF Files!CallsHaveFiles, Files!NewFilesAreOwn, Files!HeldFilesAreKept
    <3> QED BY <3>1, <3>2 DEF Files!HeldFilesAreKept
  <2>6. Files!ReadersAreCounted'
    <3>1. ASSUME NEW o \in Files!Objects PROVE v4'[o] = Cardinality(Files!Holders(o)')
      <4>0. v4[o] = Cardinality(Files!Holders(o))
        BY FilesCounts DEF Files!ReadersAreCounted
      <4>1. CASE o = v2[f]
        <5>1. v4'[o] = v4[o] + 1
          BY <2>1, <2>c, <4>1, <1>t, <1>v
        <5>2. Files!Holders(o)' = Files!Holders(o) \cup {c} /\ c \notin Files!Holders(o)
          BY <2>1, <2>c, <4>1, <1>t, <1>u, <1>v
             DEF Files!Holders, Files!CallsHaveFiles, Files!NewFilesAreOwn,
             Files!HeldFilesAreKept
        <5> QED BY <4>0, <5>1, <5>2, FilesSets, FS_AddElement
      <4>2. CASE o # v2[f]
        <5>1. v4'[o] = v4[o]
          BY <2>1, <2>c, <4>2, <1>t, <1>v
        <5>3. ASSUME NEW d \in Few PROVE Files!Holds(d, o)' <=> Files!Holds(d, o)
          BY <2>1, <2>c, <4>2, <1>t, <1>u, <1>v DEF Files!CallsHaveFiles
        <5>2. Files!Holders(o)' = Files!Holders(o)
          BY <5>3 DEF Files!Holders
        <5> QED BY <4>0, <5>1, <5>2
      <4> QED BY <4>1, <4>2
    <3> QED BY <3>1, FilesCounts DEF Files!ReadersAreCounted
  <2>7. Files!BigFilesAreCounted'
    <3>1. ASSUME ~ v1 PROVE \A o \in Files!Objects : v7'[o] = 0 /\ v6'[o] = 0
      BY <2>1, <2>c, <3>1, <1>t, <1>v DEF Files!BigFilesAreCounted
    <3>2. ASSUME v1, NEW o \in v5'
          PROVE  v7'[o] = v6'[o] + Cardinality(Files!Reading(o)')
      <4>1. Files!Reading(o)' = Files!Reading(o)
        <5>1. \A d \in Few :
                (v13'[d] = o /\ v11'[d] = "read") <=> (v13[d] = o /\ v11[d] = "read")
          BY <2>1, <2>c, <1>t, <1>u, <1>v DEF Files!CallsHaveFiles, Files!NewFilesAreOwn
        <5> QED BY <5>1 DEF Files!Reading
      <4>2. o \in v5 /\ v7'[o] = v7[o] /\ v6'[o] = v6[o]
        BY <2>1, <2>c, <3>2, <1>t, <1>v
      <4> QED BY <3>2, <4>1, <4>2, FilesCounts DEF Files!BigFilesAreCounted
    <3>3. v1' = v1 /\ (v1 => v17' = {})
      BY <2>1, <2>c, <1>t DEF Files!BigFilesAreCounted
    <3> QED BY <3>1, <3>2, <3>3, FilesCounts DEF Files!BigFilesAreCounted
  <2>8. Files!FilesAreClosed'
    <3> DEFINE Going(o) == o \in v18' \cup v9' \cup v10' \cup Files!Cached'
               Coming(o) == \E d \in Few : v13'[d] = o /\ v11'[d] \in {"insert", "second"}
    <3>2. ASSUME NEW o \in 1 .. FilesMade, o \notin v5' PROVE v7'[o] = 0
      BY <2>1, <2>c, <3>2, <1>t, <1>v DEF Files!BigFilesAreCounted, Files!FilesAreClosed
    <3>3. ASSUME NEW o \in 1 .. FilesMade, o \in v5', NEW d \in Few, v13[d] = o,
                 v11[d] \in {"insert", "second"}
          PROVE  Going(o) \/ Coming(o)
      <4>1. Going(o) \/ (v13'[d] = o /\ v11'[d] \in {"insert", "second"})
        BY <2>1, <2>c, <3>3, <1>t, <1>u, <1>v DEF Files!CallsHaveFiles
      <4> QED BY <4>1
    <3>4. ASSUME NEW o \in 1 .. FilesMade, o \in v5', o \in v18 \cup v9 \cup v10 \cup Files!Cached
          PROVE  Going(o)
      BY <2>1, <2>c, <3>4
    <3>5. ASSUME NEW o \in 1 .. FilesMade, o \in v5', o \notin v5 PROVE Going(o) \/ Coming(o)
      BY <2>1, <2>c, <3>5
    <3>6. ASSUME NEW o \in 1 .. FilesMade, o \in v5' PROVE Going(o) \/ Coming(o)
      <4> HIDE DEF Going, Coming
      <4> QED BY <3>3, <3>4, <3>5, <3>6 DEF Files!FilesAreClosed
    <3> QED BY <3>2, <3>6 DEF Files!FilesAreClosed
  <2> QED BY <2>2, <2>3, <2>4, <2>5, <2>6, <2>7, <2>8
<1>5. ASSUME NEW c \in Few, Files!Insert(c), v11'[c] = "have"
      PROVE  Kept
  <2>p. PICK f \in Forms :
        /\ v2[f] = Nobody /\ v11[c] = "insert" /\ v11' = [v11 EXCEPT ![c] = "have"]
        /\ v2' = [v2 EXCEPT ![f] = v13[c]] /\ v4' = [v4 EXCEPT ![v13[c]] = v4[v13[c]] + 1]
        /\ UNCHANGED <<v1, v3, v5, v6, v7, v8, v9, v10, v12, v13, v14, v17, v18>>
    <3>1. v12[c] \in Forms
      BY <1>5, <1>u DEF Files!Insert, Files!CallsHaveFiles
    <3>2. v2[v12[c]] = Nobody
      BY <1>5, <1>u DEF Files!Insert
    <3> QED BY <1>5, <3>1, <3>2 DEF Files!Insert
  <2> DEFINE x == v13[c]
  <2>1. /\ UNCHANGED <<v1, v3, v5, v6, v7, v8, v9, v10, v12, v13, v14, v17, v18>>
        /\ v2[f] = Nobody /\ v2'[f] = x /\ x = v13[c]
        /\ \A g \in Forms : g # f => v2'[g] = v2[g]
        /\ x \in 1 .. v3 /\ x \in 1 .. FilesMade /\ v4'[x] = v4[x] + 1
        /\ \A o \in 1 .. FilesMade : o # x => v4'[o] = v4[o]
        /\ v11[c] = "insert" /\ v11'[c] = "have" /\ v14[c] = Nobody
        /\ \A d \in Few \ {c} : v11'[d] = v11[d]
    BY <2>p, <1>t, <1>u, <1>v, <1>w DEF Files!CallsHaveFiles
  <2> HIDE DEF x
  <2>c. Files!Cached' = Files!Cached \cup {x}
    <3>1. \A o \in 1 .. FilesMade :
            (\E g \in Forms : v2'[g] = o) <=> o = x \/ \E g \in Forms : v2[g] = o
      BY <2>1, <1>v
    <3> QED BY <2>1, <3>1 DEF Files!Cached
  <2>2. Files!TypeOK'
    <3>1. v1' \in BOOLEAN /\ v3' \in 0 .. FilesMade
      BY <2>p, <2>1, <1>t, <1>u, <1>v DEF x
    <3>2. /\ v5' \subseteq 1 .. v3' /\ v8' \subseteq 1 .. v3' /\ v9' \subseteq 1 .. v3'
          /\ v10' \subseteq 1 .. v3' /\ v17' \subseteq 1 .. v3'
      BY <2>p, <2>1, <1>t, <1>u, <1>v DEF x
    <3>3. v2' \in [Forms -> 1 .. v3' \cup {Nobody}]
      BY <2>p, <2>1, <1>t, <1>u, <1>v DEF x
    <3>4. v4' \in [1 .. FilesMade -> Int] /\ v7' \in [1 .. FilesMade -> Int]
      <4>1. v4' \in [1 .. FilesMade -> Int]
        <5>1. v4[v13[c]] + 1 \in Int
          BY <2>1, <1>i
        <5> QED BY <2>p, <5>1, <1>i, IntsUpdated
      <4>2. v7' \in [1 .. FilesMade -> Int]
        BY <2>p, <1>i
      <4> QED BY <4>1, <4>2
    <3>5. v6' \in [1 .. FilesMade -> Nat]
      BY <2>p, <2>1, <1>t, <1>u, <1>v DEF x
    <3>6. \A o \in (1 .. FilesMade) \ (1 .. v3') : v6'[o] = 0
      BY <2>p, <2>1, <1>t, <1>u, <1>v DEF x
    <3>7. v11' \in [Few -> Places]
      BY <2>p, <2>1, <1>t, <1>u, <1>v DEF x
    <3>8. v12' \in [Few -> Forms \cup {Nobody}]
      BY <2>p, <2>1, <1>t, <1>u, <1>v DEF x
    <3>9. v13' \in [Few -> 1 .. v3' \cup {Nobody}]
      BY <2>p, <2>1, <1>t, <1>u, <1>v DEF x
    <3>10. v14' \in [Few -> 1 .. v3' \cup {Nobody}]
      BY <2>p, <2>1, <1>t, <1>u, <1>v DEF x
    <3> QED BY <3>1, <3>2, <3>3, <3>4, <3>5, <3>6, <3>7, <3>8, <3>9, <3>10 DEF Files!TypeOK
  <2>3. Files!CallsHaveFiles'
    BY <2>1, <2>c, <1>u, <1>v DEF Files!CallsHaveFiles
  <2>4. Files!NewFilesAreOwn'
    <3> SUFFICES ASSUME NEW d \in Few, v11'[d] \in {"insert", "second"}
                 PROVE  /\ v13'[d] \in (v5' \cup v17') \ (Files!Cached' \cup v9' \cup v10')
                        /\ \A e \in Few : v14'[e] # v13'[d] /\ (e # d => v13'[e] # v13'[d])
      BY DEF Files!NewFilesAreOwn
    <3>1. v13'[d] \in (v5' \cup v17') \ (Files!Cached' \cup v9' \cup v10')
      BY <2>1, <2>c, <1>t, <1>u, <1>v, <1>w DEF Files!CallsHaveFiles, Files!NewFilesAreOwn
    <3>0. /\ v13'[d] \notin Files!Cached
          /\ \/ v13'[d] = v13[d] /\ v11[d] \in {"insert", "second"}
             \/ v13'[d] \notin 1 .. v3
      BY <2>1, <2>c, <1>t, <1>u, <1>v, <1>w DEF Files!CallsHaveFiles, Files!NewFilesAreOwn
    <3>2. ASSUME NEW e \in Few PROVE v14'[e] # v13'[d]
      <4>1. v13'[d] # Nobody
        BY <2>3 DEF Files!CallsHaveFiles
      <4>2. v14'[e] = v14[e] \/ v14'[e] \in Files!Cached \cup {Nobody}
        BY <2>1, <2>c
      <4>3. v14[e] # v13'[d]
        BY <3>0, <4>1, <1>u DEF Files!NewFilesAreOwn
      <4> QED BY <3>0, <4>1, <4>2, <4>3
    <3>3. ASSUME NEW e \in Few, e # d PROVE v13'[e] # v13'[d]
      BY <2>1, <2>c, <3>0, <3>3, <1>u, <1>v, <1>w DEF Files!NewFilesAreOwn
    <3> QED BY <3>1, <3>2, <3>3
  <2>5. Files!HeldFilesAreKept'
    <3>1. ASSUME NEW d \in Few, NEW o \in 1 .. FilesMade, Files!Holds(d, o)'
          PROVE  o \in Files!Cached' \cup v9'
      <4>1. Files!Holds(d, o) \/ o \in Files!Cached'
        BY <2>1, <2>c, <3>1, <1>u, <1>v DEF Files!CallsHaveFiles
      <4>2. Files!Holds(d, o) => o \in Files!Cached \cup v9
        BY DEF Files!HeldFilesAreKept
      <4> HIDE DEF Files!Holds
      <4> QED BY <2>1, <2>c, <3>1, <4>1, <4>2, <1>v
    <3>2. /\ Files!Cached' \cup v9' \subseteq v5' \cup v17'
          /\ Files!Cached' \cap v9' = {} /\ (Files!Cached' \cup v9') \cap v10' = {}
      BY <2>1, <2>c, <1>t, <1>u, <1>v
         DEF Files!CallsHaveFiles, Files!NewFilesAreOwn, Files!HeldFilesAreKept
    <3> QED BY <3>1, <3>2 DEF Files!HeldFilesAreKept
  <2>6. Files!ReadersAreCounted'
    <3>1. ASSUME NEW o \in Files!Objects PROVE v4'[o] = Cardinality(Files!Holders(o)')
      <4>0. v4[o] = Cardinality(Files!Holders(o))
        BY FilesCounts DEF Files!ReadersAreCounted
      <4>1. CASE o = x
        <5>1. v4'[o] = v4[o] + 1
          BY <2>1, <2>c, <4>1, <1>t, <1>v
        <5>2. Files!Holders(o)' = Files!Holders(o) \cup {c} /\ c \notin Files!Holders(o)
          BY <2>1, <2>c, <4>1, <1>t, <1>u, <1>v
             DEF Files!Holders, Files!CallsHaveFiles, Files!NewFilesAreOwn,
             Files!HeldFilesAreKept
        <5> QED BY <4>0, <5>1, <5>2, FilesSets, FS_AddElement
      <4>2. CASE o # x
        <5>1. v4'[o] = v4[o]
          BY <2>1, <2>c, <4>2, <1>t, <1>v
        <5>3. ASSUME NEW d \in Few PROVE Files!Holds(d, o)' <=> Files!Holds(d, o)
          BY <2>1, <2>c, <4>2, <1>t, <1>u, <1>v DEF Files!CallsHaveFiles
        <5>2. Files!Holders(o)' = Files!Holders(o)
          BY <5>3 DEF Files!Holders
        <5> QED BY <4>0, <5>1, <5>2
      <4> QED BY <4>1, <4>2
    <3> QED BY <3>1, FilesCounts DEF Files!ReadersAreCounted
  <2>7. Files!BigFilesAreCounted'
    <3>1. ASSUME ~ v1 PROVE \A o \in Files!Objects : v7'[o] = 0 /\ v6'[o] = 0
      BY <2>1, <2>c, <3>1, <1>t, <1>v DEF Files!BigFilesAreCounted
    <3>2. ASSUME v1, NEW o \in v5'
          PROVE  v7'[o] = v6'[o] + Cardinality(Files!Reading(o)')
      <4>1. Files!Reading(o)' = Files!Reading(o)
        <5>1. \A d \in Few :
                (v13'[d] = o /\ v11'[d] = "read") <=> (v13[d] = o /\ v11[d] = "read")
          BY <2>1, <2>c, <1>t, <1>u, <1>v DEF Files!CallsHaveFiles, Files!NewFilesAreOwn
        <5> QED BY <5>1 DEF Files!Reading
      <4>2. o \in v5 /\ v7'[o] = v7[o] /\ v6'[o] = v6[o]
        BY <2>1, <2>c, <3>2, <1>t, <1>v
      <4> QED BY <3>2, <4>1, <4>2, FilesCounts DEF Files!BigFilesAreCounted
    <3>3. v1' = v1 /\ (v1 => v17' = {})
      BY <2>1, <2>c, <1>t DEF Files!BigFilesAreCounted
    <3> QED BY <3>1, <3>2, <3>3, FilesCounts DEF Files!BigFilesAreCounted
  <2>8. Files!FilesAreClosed'
    <3> DEFINE Going(o) == o \in v18' \cup v9' \cup v10' \cup Files!Cached'
               Coming(o) == \E d \in Few : v13'[d] = o /\ v11'[d] \in {"insert", "second"}
    <3>2. ASSUME NEW o \in 1 .. FilesMade, o \notin v5' PROVE v7'[o] = 0
      BY <2>1, <2>c, <3>2, <1>t, <1>v DEF Files!BigFilesAreCounted, Files!FilesAreClosed
    <3>3. ASSUME NEW o \in 1 .. FilesMade, o \in v5', NEW d \in Few, v13[d] = o,
                 v11[d] \in {"insert", "second"}
          PROVE  Going(o) \/ Coming(o)
      <4>1. Going(o) \/ (v13'[d] = o /\ v11'[d] \in {"insert", "second"})
        BY <2>1, <2>c, <3>3, <1>t, <1>u, <1>v DEF Files!CallsHaveFiles
      <4> QED BY <4>1
    <3>4. ASSUME NEW o \in 1 .. FilesMade, o \in v5', o \in v18 \cup v9 \cup v10 \cup Files!Cached
          PROVE  Going(o)
      BY <2>1, <2>c, <3>4
    <3>5. ASSUME NEW o \in 1 .. FilesMade, o \in v5', o \notin v5 PROVE Going(o) \/ Coming(o)
      BY <2>1, <2>c, <3>5
    <3>6. ASSUME NEW o \in 1 .. FilesMade, o \in v5' PROVE Going(o) \/ Coming(o)
      <4> HIDE DEF Going, Coming
      <4> QED BY <3>3, <3>4, <3>5, <3>6 DEF Files!FilesAreClosed
    <3> QED BY <3>2, <3>6 DEF Files!FilesAreClosed
  <2> QED BY <2>2, <2>3, <2>4, <2>5, <2>6, <2>7, <2>8
<1>6. ASSUME NEW c \in Few, Files!Insert(c), v11'[c] = "second"
      PROVE  Kept
  <2>p. PICK f \in Forms :
        /\ f = v12[c] /\ v2[f] # Nobody /\ v11[c] = "insert"
        /\ v11' = [v11 EXCEPT ![c] = "second"]
        /\ v14' = [v14 EXCEPT ![c] = v2[f]] /\ v4' = [v4 EXCEPT ![v2[f]] = v4[v2[f]] + 1]
        /\ UNCHANGED <<v1, v2, v3, v5, v6, v7, v8, v9, v10, v12, v13, v17, v18>>
    <3>1. v12[c] \in Forms
      BY <1>6, <1>u DEF Files!Insert, Files!CallsHaveFiles
    <3>2. v2[v12[c]] # Nobody
      BY <1>6, <1>u DEF Files!Insert
    <3> QED BY <1>6, <3>1, <3>2 DEF Files!Insert
  <2> DEFINE x == v2[f]
  <2>1. /\ UNCHANGED <<v1, v2, v3, v5, v6, v7, v8, v9, v10, v12, v13, v17, v18>>
        /\ x \in 1 .. v3 /\ x \in 1 .. FilesMade /\ x \in Files!Cached /\ v14'[c] = x
        /\ v4'[x] = v4[x] + 1 /\ \A o \in 1 .. FilesMade : o # x => v4'[o] = v4[o]
        /\ v11[c] = "insert" /\ v11'[c] = "second" /\ v14[c] = Nobody /\ v13[c] \in 1 .. v3
        /\ \A d \in Few \ {c} : v11'[d] = v11[d] /\ v14'[d] = v14[d]
    BY <2>p, <1>t, <1>u, <1>v, <1>w DEF Files!CallsHaveFiles
  <2> HIDE DEF x
  <2>c. Files!Cached' = Files!Cached
    BY <2>1, <1>t, <1>v DEF Files!Cached
  <2>2. Files!TypeOK'
    <3>1. v1' \in BOOLEAN /\ v3' \in 0 .. FilesMade
      BY <2>p, <2>1, <1>t, <1>u, <1>v DEF x
    <3>2. /\ v5' \subseteq 1 .. v3' /\ v8' \subseteq 1 .. v3' /\ v9' \subseteq 1 .. v3'
          /\ v10' \subseteq 1 .. v3' /\ v17' \subseteq 1 .. v3'
      BY <2>p, <2>1, <1>t, <1>u, <1>v DEF x
    <3>3. v2' \in [Forms -> 1 .. v3' \cup {Nobody}]
      BY <2>p, <2>1, <1>t, <1>u, <1>v DEF x
    <3>4. v4' \in [1 .. FilesMade -> Int] /\ v7' \in [1 .. FilesMade -> Int]
      <4>1. v4' \in [1 .. FilesMade -> Int]
        <5>1. v2[f] \in 1 .. FilesMade
          BY <2>1 DEF x
        <5>2. v4[v2[f]] + 1 \in Int
          BY ONLY <5>1, <1>i
        <5> QED BY <2>p, <5>2, <1>i, IntsUpdated
      <4>2. v7' \in [1 .. FilesMade -> Int]
        BY <2>p, <1>i
      <4> QED BY <4>1, <4>2
    <3>5. v6' \in [1 .. FilesMade -> Nat]
      BY <2>p, <2>1, <1>t, <1>u, <1>v DEF x
    <3>6. \A o \in (1 .. FilesMade) \ (1 .. v3') : v6'[o] = 0
      BY <2>p, <2>1, <1>t, <1>u, <1>v DEF x
    <3>7. v11' \in [Few -> Places]
      BY <2>p, <2>1, <1>t, <1>u, <1>v DEF x
    <3>8. v12' \in [Few -> Forms \cup {Nobody}]
      BY <2>p, <2>1, <1>t, <1>u, <1>v DEF x
    <3>9. v13' \in [Few -> 1 .. v3' \cup {Nobody}]
      BY <2>p, <2>1, <1>t, <1>u, <1>v DEF x
    <3>10. v14' \in [Few -> 1 .. v3' \cup {Nobody}]
      BY <2>p, <2>1, <1>t, <1>u, <1>v DEF x
    <3> QED BY <3>1, <3>2, <3>3, <3>4, <3>5, <3>6, <3>7, <3>8, <3>9, <3>10 DEF Files!TypeOK
  <2>3. Files!CallsHaveFiles'
    BY <2>1, <2>c, <1>u, <1>v DEF Files!CallsHaveFiles
  <2>4. Files!NewFilesAreOwn'
    <3> SUFFICES ASSUME NEW d \in Few, v11'[d] \in {"insert", "second"}
                 PROVE  /\ v13'[d] \in (v5' \cup v17') \ (Files!Cached' \cup v9' \cup v10')
                        /\ \A e \in Few : v14'[e] # v13'[d] /\ (e # d => v13'[e] # v13'[d])
      BY DEF Files!NewFilesAreOwn
    <3>1. v13'[d] \in (v5' \cup v17') \ (Files!Cached' \cup v9' \cup v10')
      BY <2>1, <2>c, <1>t, <1>u, <1>v, <1>w DEF Files!CallsHaveFiles, Files!NewFilesAreOwn
    <3>0. /\ v13'[d] \notin Files!Cached
          /\ \/ v13'[d] = v13[d] /\ v11[d] \in {"insert", "second"}
             \/ v13'[d] \notin 1 .. v3
      BY <2>1, <2>c, <1>t, <1>u, <1>v, <1>w DEF Files!CallsHaveFiles, Files!NewFilesAreOwn
    <3>2. ASSUME NEW e \in Few PROVE v14'[e] # v13'[d]
      <4>1. v13'[d] # Nobody
        BY <2>3 DEF Files!CallsHaveFiles
      <4>2. v14'[e] = v14[e] \/ v14'[e] \in Files!Cached \cup {Nobody}
        BY <2>1, <2>c
      <4>3. v14[e] # v13'[d]
        BY <3>0, <4>1, <1>u DEF Files!NewFilesAreOwn
      <4> QED BY <3>0, <4>1, <4>2, <4>3
    <3>3. ASSUME NEW e \in Few, e # d PROVE v13'[e] # v13'[d]
      BY <2>1, <2>c, <3>0, <3>3, <1>u, <1>v, <1>w DEF Files!NewFilesAreOwn
    <3> QED BY <3>1, <3>2, <3>3
  <2>5. Files!HeldFilesAreKept'
    <3>1. ASSUME NEW d \in Few, NEW o \in 1 .. FilesMade, Files!Holds(d, o)'
          PROVE  o \in Files!Cached' \cup v9'
      <4>1. Files!Holds(d, o) \/ o \in Files!Cached'
        BY <2>1, <2>c, <3>1, <1>u, <1>v DEF Files!CallsHaveFiles
      <4>2. Files!Holds(d, o) => o \in Files!Cached \cup v9
        BY DEF Files!HeldFilesAreKept
      <4> HIDE DEF Files!Holds
      <4> QED BY <2>1, <2>c, <3>1, <4>1, <4>2, <1>v
    <3>2. /\ Files!Cached' \cup v9' \subseteq v5' \cup v17'
          /\ Files!Cached' \cap v9' = {} /\ (Files!Cached' \cup v9') \cap v10' = {}
      BY <2>1, <2>c, <1>t, <1>u, <1>v
         DEF Files!CallsHaveFiles, Files!NewFilesAreOwn, Files!HeldFilesAreKept
    <3> QED BY <3>1, <3>2 DEF Files!HeldFilesAreKept
  <2>6. Files!ReadersAreCounted'
    <3>1. ASSUME NEW o \in Files!Objects PROVE v4'[o] = Cardinality(Files!Holders(o)')
      <4>0. v4[o] = Cardinality(Files!Holders(o))
        BY FilesCounts DEF Files!ReadersAreCounted
      <4>1. CASE o = x
        <5>1. v4'[o] = v4[o] + 1
          BY <2>1, <2>c, <4>1, <1>t, <1>v
        <5>2. Files!Holders(o)' = Files!Holders(o) \cup {c} /\ c \notin Files!Holders(o)
          <6>1. \A d \in Few \ {c} : Files!Holds(d, o)' <=> Files!Holds(d, o)
            BY <2>1, <4>1, <1>u
          <6>2. Files!Holds(c, o)' /\ ~ Files!Holds(c, o)
            BY <2>1, <4>1, <1>u DEF Files!CallsHaveFiles, Files!NewFilesAreOwn
          <6> HIDE DEF Files!Holds
          <6> QED BY <6>1, <6>2 DEF Files!Holders
        <5> QED BY <4>0, <5>1, <5>2, FilesSets, FS_AddElement
      <4>2. CASE o # x
        <5>1. v4'[o] = v4[o]
          BY <2>1, <2>c, <4>2, <1>t, <1>v
        <5>3. ASSUME NEW d \in Few PROVE Files!Holds(d, o)' <=> Files!Holds(d, o)
          BY <2>1, <2>c, <4>2, <1>t, <1>u, <1>v DEF Files!CallsHaveFiles
        <5>2. Files!Holders(o)' = Files!Holders(o)
          BY <5>3 DEF Files!Holders
        <5> QED BY <4>0, <5>1, <5>2
      <4> QED BY <4>1, <4>2
    <3> QED BY <3>1, FilesCounts DEF Files!ReadersAreCounted
  <2>7. Files!BigFilesAreCounted'
    <3>1. ASSUME ~ v1 PROVE \A o \in Files!Objects : v7'[o] = 0 /\ v6'[o] = 0
      BY <2>1, <2>c, <3>1, <1>t, <1>v DEF Files!BigFilesAreCounted
    <3>2. ASSUME v1, NEW o \in v5'
          PROVE  v7'[o] = v6'[o] + Cardinality(Files!Reading(o)')
      <4>1. Files!Reading(o)' = Files!Reading(o)
        <5>1. \A d \in Few :
                (v13'[d] = o /\ v11'[d] = "read") <=> (v13[d] = o /\ v11[d] = "read")
          BY <2>1, <2>c, <1>t, <1>u, <1>v DEF Files!CallsHaveFiles, Files!NewFilesAreOwn
        <5> QED BY <5>1 DEF Files!Reading
      <4>2. o \in v5 /\ v7'[o] = v7[o] /\ v6'[o] = v6[o]
        BY <2>1, <2>c, <3>2, <1>t, <1>v
      <4> QED BY <3>2, <4>1, <4>2, FilesCounts DEF Files!BigFilesAreCounted
    <3>3. v1' = v1 /\ (v1 => v17' = {})
      BY <2>1, <2>c, <1>t DEF Files!BigFilesAreCounted
    <3> QED BY <3>1, <3>2, <3>3, FilesCounts DEF Files!BigFilesAreCounted
  <2>8. Files!FilesAreClosed'
    <3> DEFINE Going(o) == o \in v18' \cup v9' \cup v10' \cup Files!Cached'
               Coming(o) == \E d \in Few : v13'[d] = o /\ v11'[d] \in {"insert", "second"}
    <3>2. ASSUME NEW o \in 1 .. FilesMade, o \notin v5' PROVE v7'[o] = 0
      BY <2>1, <2>c, <3>2, <1>t, <1>v DEF Files!BigFilesAreCounted, Files!FilesAreClosed
    <3>3. ASSUME NEW o \in 1 .. FilesMade, o \in v5', NEW d \in Few, v13[d] = o,
                 v11[d] \in {"insert", "second"}
          PROVE  Going(o) \/ Coming(o)
      <4>1. Going(o) \/ (v13'[d] = o /\ v11'[d] \in {"insert", "second"})
        BY <2>1, <2>c, <3>3, <1>t, <1>u, <1>v DEF Files!CallsHaveFiles
      <4> QED BY <4>1
    <3>4. ASSUME NEW o \in 1 .. FilesMade, o \in v5', o \in v18 \cup v9 \cup v10 \cup Files!Cached
          PROVE  Going(o)
      BY <2>1, <2>c, <3>4
    <3>5. ASSUME NEW o \in 1 .. FilesMade, o \in v5', o \notin v5 PROVE Going(o) \/ Coming(o)
      BY <2>1, <2>c, <3>5
    <3>6. ASSUME NEW o \in 1 .. FilesMade, o \in v5' PROVE Going(o) \/ Coming(o)
      <4> HIDE DEF Going, Coming
      <4> QED BY <3>3, <3>4, <3>5, <3>6 DEF Files!FilesAreClosed
    <3> QED BY <3>2, <3>6 DEF Files!FilesAreClosed
  <2> QED BY <2>2, <2>3, <2>4, <2>5, <2>6, <2>7, <2>8
<1>7. ASSUME NEW c \in Few, Files!Second(c)
      PROVE  Kept
  <2>1. /\ UNCHANGED <<v1, v2, v3, v4, v6, v8, v9, v10, v12, v17, v18>>
        /\ v5' = v5 \ {v13[c]} /\ v13[c] \in 1 .. v3
        /\ (v13[c] \in v5 /\ v1) => v7'[v13[c]] = v7[v13[c]] - v6[v13[c]]
        /\ ~ (v13[c] \in v5 /\ v1) => v7' = v7
        /\ \A o \in 1 .. FilesMade : o # v13[c] => v7'[o] = v7[o]
        /\ v11[c] = "second" /\ v11'[c] = "have" /\ v13'[c] = v14[c] /\ v14'[c] = Nobody
        /\ v14[c] \in 1 .. v3
        /\ \A d \in Few \ {c} : v11'[d] = v11[d] /\ v13'[d] = v13[d] /\ v14'[d] = v14[d]
    BY <1>7, <1>t, <1>u, <1>v, <1>w DEF Files!Second, Files!Release, Files!CallsHaveFiles
  <2>c. Files!Cached' = Files!Cached
    BY <2>1, <1>t, <1>v DEF Files!Cached
  <2>2. Files!TypeOK'
    <3>1. v1' \in BOOLEAN /\ v3' \in 0 .. FilesMade
      BY <2>1, <1>7, <1>t, <1>u, <1>v DEF Files!Second, Files!Release, Files!CallsHaveFiles
    <3>2. /\ v5' \subseteq 1 .. v3' /\ v8' \subseteq 1 .. v3' /\ v9' \subseteq 1 .. v3'
          /\ v10' \subseteq 1 .. v3' /\ v17' \subseteq 1 .. v3'
      BY <2>1, <1>7, <1>t, <1>u, <1>v DEF Files!Second, Files!Release, Files!CallsHaveFiles
    <3>3. v2' \in [Forms -> 1 .. v3' \cup {Nobody}]
      BY <2>1, <1>7, <1>t, <1>u, <1>v DEF Files!Second, Files!Release, Files!CallsHaveFiles
    <3>4. v4' \in [1 .. FilesMade -> Int] /\ v7' \in [1 .. FilesMade -> Int]
      <4>1. v4' \in [1 .. FilesMade -> Int]
        BY <1>7, <1>i DEF Files!Second, Files!Release
      <4>2. v7' \in [1 .. FilesMade -> Int]
        <5>0. v13[c] \in 1 .. FilesMade /\ v6 \in [1 .. FilesMade -> Nat]
          BY <2>1, <1>t, <1>v
        <5>1. v7[v13[c]] - v6[v13[c]] \in Int
          BY ONLY <5>0, <1>i
        <5>2. v7' = v7 \/ v7' = [v7 EXCEPT ![v13[c]] = v7[v13[c]] - v6[v13[c]]]
          BY <1>7 DEF Files!Second, Files!Release
        <5> QED BY <5>1, <5>2, <1>i, IntsUpdated
      <4> QED BY <4>1, <4>2
    <3>5. v6' \in [1 .. FilesMade -> Nat]
      BY <2>1, <1>7, <1>t, <1>u, <1>v DEF Files!Second, Files!Release, Files!CallsHaveFiles
    <3>6. \A o \in (1 .. FilesMade) \ (1 .. v3') : v6'[o] = 0
      BY <2>1, <1>7, <1>t, <1>u, <1>v DEF Files!Second, Files!Release, Files!CallsHaveFiles
    <3>7. v11' \in [Few -> Places]
      BY <2>1, <1>7, <1>t, <1>u, <1>v DEF Files!Second, Files!Release, Files!CallsHaveFiles
    <3>8. v12' \in [Few -> Forms \cup {Nobody}]
      BY <2>1, <1>7, <1>t, <1>u, <1>v DEF Files!Second, Files!Release, Files!CallsHaveFiles
    <3>9. v13' \in [Few -> 1 .. v3' \cup {Nobody}]
      BY <2>1, <1>7, <1>t, <1>u, <1>v DEF Files!Second, Files!Release, Files!CallsHaveFiles
    <3>10. v14' \in [Few -> 1 .. v3' \cup {Nobody}]
      BY <2>1, <1>7, <1>t, <1>u, <1>v DEF Files!Second, Files!Release, Files!CallsHaveFiles
    <3> QED BY <3>1, <3>2, <3>3, <3>4, <3>5, <3>6, <3>7, <3>8, <3>9, <3>10 DEF Files!TypeOK
  <2>3. Files!CallsHaveFiles'
    BY <2>1, <2>c, <1>u, <1>v DEF Files!CallsHaveFiles
  <2>4. Files!NewFilesAreOwn'
    <3> SUFFICES ASSUME NEW d \in Few, v11'[d] \in {"insert", "second"}
                 PROVE  /\ v13'[d] \in (v5' \cup v17') \ (Files!Cached' \cup v9' \cup v10')
                        /\ \A e \in Few : v14'[e] # v13'[d] /\ (e # d => v13'[e] # v13'[d])
      BY DEF Files!NewFilesAreOwn
    <3>9. d # c /\ v13'[d] = v13[d] /\ v11[d] \in {"insert", "second"}
      BY <2>1
    <3>8. /\ v13[d] \in (v5 \cup v17) \ (Files!Cached \cup v9 \cup v10)
          /\ v13[d] # v13[c]
      BY <3>9, <2>1 DEF Files!NewFilesAreOwn
    <3>1. v13'[d] \in (v5' \cup v17') \ (Files!Cached' \cup v9' \cup v10')
      BY <2>1, <2>c, <3>9, <3>8
    <3>0. /\ v13'[d] \notin Files!Cached
          /\ \/ v13'[d] = v13[d] /\ v11[d] \in {"insert", "second"}
             \/ v13'[d] \notin 1 .. v3
      BY <2>1, <2>c, <1>t, <1>u, <1>v, <1>w DEF Files!CallsHaveFiles, Files!NewFilesAreOwn
    <3>2. ASSUME NEW e \in Few PROVE v14'[e] # v13'[d]
      <4>1. v13'[d] # Nobody
        BY <2>3 DEF Files!CallsHaveFiles
      <4>2. v14'[e] = v14[e] \/ v14'[e] \in Files!Cached \cup {Nobody}
        BY <2>1, <2>c
      <4>3. v14[e] # v13'[d]
        BY <3>0, <4>1, <1>u DEF Files!NewFilesAreOwn
      <4> QED BY <3>0, <4>1, <4>2, <4>3
    <3>3. ASSUME NEW e \in Few, e # d PROVE v13'[e] # v13'[d]
      BY <2>1, <2>c, <3>0, <3>3, <1>u, <1>v, <1>w DEF Files!NewFilesAreOwn
    <3> QED BY <3>1, <3>2, <3>3
  <2>5. Files!HeldFilesAreKept'
    <3>1. ASSUME NEW d \in Few, NEW o \in 1 .. FilesMade, Files!Holds(d, o)'
          PROVE  o \in Files!Cached' \cup v9'
      <4>1. Files!Holds(d, o) \/ o \in Files!Cached'
        BY <2>1, <2>c, <3>1, <1>u, <1>v DEF Files!CallsHaveFiles
      <4>2. Files!Holds(d, o) => o \in Files!Cached \cup v9
        BY DEF Files!HeldFilesAreKept
      <4> HIDE DEF Files!Holds
      <4> QED BY <2>1, <2>c, <3>1, <4>1, <4>2, <1>v
    <3>2. /\ Files!Cached' \cup v9' \subseteq v5' \cup v17'
          /\ Files!Cached' \cap v9' = {} /\ (Files!Cached' \cup v9') \cap v10' = {}
      BY <2>1, <2>c, <1>t, <1>u, <1>v
         DEF Files!CallsHaveFiles, Files!NewFilesAreOwn, Files!HeldFilesAreKept
    <3> QED BY <3>1, <3>2 DEF Files!HeldFilesAreKept
  <2>6. Files!ReadersAreCounted'
    <3>1. ASSUME NEW o \in Files!Objects
          PROVE  v4'[o] = v4[o] /\ Files!Holders(o)' = Files!Holders(o)
      <4>1. \A d \in Few : Files!Holds(d, o)' <=> Files!Holds(d, o)
        BY <2>1, <2>c, <1>u, <1>v DEF Files!CallsHaveFiles
      <4>2. v4'[o] = v4[o]
        BY <2>1, <2>c, <1>t
      <4> HIDE DEF Files!Holds
      <4> QED BY <4>1, <4>2 DEF Files!Holders
    <3> QED BY <3>1, FilesCounts DEF Files!ReadersAreCounted
  <2>7. Files!BigFilesAreCounted'
    <3>1. ASSUME ~ v1 PROVE \A o \in Files!Objects : v7'[o] = 0 /\ v6'[o] = 0
      BY <2>1, <3>1, <1>t, <1>v DEF Files!BigFilesAreCounted
    <3>2. ASSUME v1, NEW o \in v5'
          PROVE  v7'[o] = v6'[o] + Cardinality(Files!Reading(o)')
      <4>1. Files!Reading(o)' = Files!Reading(o)
        <5>1. \A d \in Few :
                (v13'[d] = o /\ v11'[d] = "read") <=> (v13[d] = o /\ v11[d] = "read")
          BY <2>1, <1>t, <1>u, <1>v DEF Files!CallsHaveFiles, Files!NewFilesAreOwn
        <5> QED BY <5>1 DEF Files!Reading
      <4>2. o \in v5 /\ v7'[o] = v7[o] /\ v6'[o] = v6[o]
        BY <2>1, <3>2, <1>t, <1>v
      <4> QED BY <3>2, <4>1, <4>2, FilesCounts DEF Files!BigFilesAreCounted
    <3>3. v1' = v1 /\ (v1 => v17' = {})
      BY <2>1, <1>t DEF Files!BigFilesAreCounted
    <3> QED BY <3>1, <3>2, <3>3, FilesCounts DEF Files!BigFilesAreCounted
  <2>8. Files!FilesAreClosed'
    <3>1. v7'[v13[c]] = 0
      <4>1. CASE v13[c] \notin v5
        BY <2>1, <4>1, <1>t, <1>v DEF Files!FilesAreClosed
      <4>2. CASE v13[c] \in v5 /\ v1
        <5>1. Files!Reading(v13[c]) = {}
          BY <2>1, <1>t, <1>u, <1>v
             DEF Files!Reading, Files!CallsHaveFiles, Files!NewFilesAreOwn,
             Files!HeldFilesAreKept
        <5>3. Files!Cardinality(Files!Reading(v13[c])) = 0
          BY <5>1, FS_EmptySet, FilesCounts
        <5>4. v7[v13[c]] = v6[v13[c]] + Files!Cardinality(Files!Reading(v13[c]))
          BY <4>2 DEF Files!BigFilesAreCounted
        <5>5. v6[v13[c]] \in Nat
          BY <2>1, <1>t, <1>v
        <5>2. v7[v13[c]] = v6[v13[c]]
          BY <5>3, <5>4, <5>5
        <5> QED BY <2>1, <4>2, <5>2, <1>t, <1>v
      <4>3. CASE ~ v1
        BY <2>1, <4>3, <1>t, <1>v DEF Files!BigFilesAreCounted
      <4> QED BY <4>1, <4>2, <4>3
    <3> DEFINE Going(o) == o \in v18' \cup v9' \cup v10' \cup Files!Cached'
               Coming(o) == \E d \in Few : v13'[d] = o /\ v11'[d] \in {"insert", "second"}
    <3>2. ASSUME NEW o \in 1 .. FilesMade, o \notin v5' PROVE v7'[o] = 0
      BY <2>1, <2>c, <3>1, <3>2, <1>t, <1>v DEF Files!BigFilesAreCounted, Files!FilesAreClosed
    <3>3. ASSUME NEW o \in 1 .. FilesMade, o \in v5', NEW d \in Few, v13[d] = o,
                 v11[d] \in {"insert", "second"}
          PROVE  Going(o) \/ Coming(o)
      <4>1. Going(o) \/ (v13'[d] = o /\ v11'[d] \in {"insert", "second"})
        BY <2>1, <2>c, <3>3, <1>t, <1>u, <1>v DEF Files!CallsHaveFiles
      <4> QED BY <4>1
    <3>4. ASSUME NEW o \in 1 .. FilesMade, o \in v5', o \in v18 \cup v9 \cup v10 \cup Files!Cached
          PROVE  Going(o)
      BY <2>1, <2>c, <3>4
    <3>5. ASSUME NEW o \in 1 .. FilesMade, o \in v5', o \notin v5 PROVE Going(o) \/ Coming(o)
      BY <2>1, <2>c, <3>5
    <3>6. ASSUME NEW o \in 1 .. FilesMade, o \in v5' PROVE Going(o) \/ Coming(o)
      <4> HIDE DEF Going, Coming
      <4> QED BY <3>3, <3>4, <3>5, <3>6 DEF Files!FilesAreClosed
    <3> QED BY <3>2, <3>6 DEF Files!FilesAreClosed
  <2> QED BY <2>2, <2>3, <2>4, <2>5, <2>6, <2>7, <2>8
<1>8. ASSUME NEW c \in Few, Files!NotModified(c) \/ Files!CannotRead(c) \/ Files!Close(c)
      PROVE  Kept
  <2>1. /\ UNCHANGED <<v1, v2, v3, v5, v6, v7, v8, v9, v10, v12, v14, v17, v18>>
        /\ v13[c] \in 1 .. v3 /\ v4'[v13[c]] = v4[v13[c]] - 1
        /\ \A o \in 1 .. FilesMade : o # v13[c] => v4'[o] = v4[o]
        /\ v11[c] \in {"have", "leave"} \/ (v11[c] = "read" /\ ~ v1)
        /\ v11'[c] = "start" /\ v13'[c] = Nobody /\ v14[c] = Nobody
        /\ \A d \in Few \ {c} : v11'[d] = v11[d] /\ v13'[d] = v13[d]
    BY <1>8, <1>t, <1>u, <1>v, <1>w
       DEF Files!NotModified, Files!CannotRead, Files!Close, Files!Leave, Files!CallsHaveFiles
  <2>c. Files!Cached' = Files!Cached
    BY <2>1, <1>t, <1>v DEF Files!Cached
  <2>2. Files!TypeOK'
    <3>1. v1' \in BOOLEAN /\ v3' \in 0 .. FilesMade
      BY <2>1, <1>8, <1>t, <1>u, <1>v
         DEF Files!NotModified, Files!CannotRead, Files!Close, Files!Leave, Files!CallsHaveFiles
    <3>2. /\ v5' \subseteq 1 .. v3' /\ v8' \subseteq 1 .. v3' /\ v9' \subseteq 1 .. v3'
          /\ v10' \subseteq 1 .. v3' /\ v17' \subseteq 1 .. v3'
      BY <2>1, <1>8, <1>t, <1>u, <1>v
         DEF Files!NotModified, Files!CannotRead, Files!Close, Files!Leave, Files!CallsHaveFiles
    <3>3. v2' \in [Forms -> 1 .. v3' \cup {Nobody}]
      BY <2>1, <1>8, <1>t, <1>u, <1>v
         DEF Files!NotModified, Files!CannotRead, Files!Close, Files!Leave, Files!CallsHaveFiles
    <3>4. v4' \in [1 .. FilesMade -> Int] /\ v7' \in [1 .. FilesMade -> Int]
      <4>1. v4' \in [1 .. FilesMade -> Int]
        BY <1>8, <1>i DEF Files!NotModified, Files!CannotRead, Files!Close, Files!Leave
      <4>2. v7' \in [1 .. FilesMade -> Int]
        BY <1>8, <1>i DEF Files!NotModified, Files!CannotRead, Files!Close, Files!Leave
      <4> QED BY <4>1, <4>2
    <3>5. v6' \in [1 .. FilesMade -> Nat]
      BY <2>1, <1>8, <1>t, <1>u, <1>v
         DEF Files!NotModified, Files!CannotRead, Files!Close, Files!Leave, Files!CallsHaveFiles
    <3>6. \A o \in (1 .. FilesMade) \ (1 .. v3') : v6'[o] = 0
      BY <2>1, <1>8, <1>t, <1>u, <1>v
         DEF Files!NotModified, Files!CannotRead, Files!Close, Files!Leave, Files!CallsHaveFiles
    <3>7. v11' \in [Few -> Places]
      BY <2>1, <1>8, <1>t, <1>u, <1>v
         DEF Files!NotModified, Files!CannotRead, Files!Close, Files!Leave, Files!CallsHaveFiles
    <3>8. v12' \in [Few -> Forms \cup {Nobody}]
      BY <2>1, <1>8, <1>t, <1>u, <1>v
         DEF Files!NotModified, Files!CannotRead, Files!Close, Files!Leave, Files!CallsHaveFiles
    <3>9. v13' \in [Few -> 1 .. v3' \cup {Nobody}]
      <4>1. v13' = [v13 EXCEPT ![c] = Nobody]
        BY <1>8
           DEF Files!NotModified, Files!CannotRead, Files!Close, Files!Leave,
           Files!CallsHaveFiles
      <4> QED BY <4>1, <2>1, <1>u
    <3>10. v14' \in [Few -> 1 .. v3' \cup {Nobody}]
      BY <2>1, <1>8, <1>t, <1>u, <1>v
         DEF Files!NotModified, Files!CannotRead, Files!Close, Files!Leave, Files!CallsHaveFiles
    <3> QED BY <3>1, <3>2, <3>3, <3>4, <3>5, <3>6, <3>7, <3>8, <3>9, <3>10 DEF Files!TypeOK
  <2>3. Files!CallsHaveFiles'
    BY <2>1, <2>c, <1>u, <1>v DEF Files!CallsHaveFiles
  <2>4. Files!NewFilesAreOwn'
    <3> SUFFICES ASSUME NEW d \in Few, v11'[d] \in {"insert", "second"}
                 PROVE  /\ v13'[d] \in (v5' \cup v17') \ (Files!Cached' \cup v9' \cup v10')
                        /\ \A e \in Few : v14'[e] # v13'[d] /\ (e # d => v13'[e] # v13'[d])
      BY DEF Files!NewFilesAreOwn
    <3>1. v13'[d] \in (v5' \cup v17') \ (Files!Cached' \cup v9' \cup v10')
      BY <2>1, <2>c, <1>t, <1>u, <1>v, <1>w DEF Files!CallsHaveFiles, Files!NewFilesAreOwn
    <3>0. /\ v13'[d] \notin Files!Cached
          /\ \/ v13'[d] = v13[d] /\ v11[d] \in {"insert", "second"}
             \/ v13'[d] \notin 1 .. v3
      BY <2>1, <2>c, <1>t, <1>u, <1>v, <1>w DEF Files!CallsHaveFiles, Files!NewFilesAreOwn
    <3>2. ASSUME NEW e \in Few PROVE v14'[e] # v13'[d]
      <4>1. v13'[d] # Nobody
        BY <2>3 DEF Files!CallsHaveFiles
      <4>2. v14'[e] = v14[e] \/ v14'[e] \in Files!Cached \cup {Nobody}
        BY <2>1, <2>c
      <4>3. v14[e] # v13'[d]
        BY <3>0, <4>1, <1>u DEF Files!NewFilesAreOwn
      <4> QED BY <3>0, <4>1, <4>2, <4>3
    <3>3. ASSUME NEW e \in Few, e # d PROVE v13'[e] # v13'[d]
      BY <2>1, <2>c, <3>0, <3>3, <1>u, <1>v, <1>w DEF Files!NewFilesAreOwn
    <3> QED BY <3>1, <3>2, <3>3
  <2>5. Files!HeldFilesAreKept'
    <3>1. ASSUME NEW d \in Few, NEW o \in 1 .. FilesMade, Files!Holds(d, o)'
          PROVE  o \in Files!Cached' \cup v9'
      <4>1. Files!Holds(d, o) \/ o \in Files!Cached'
        BY <2>1, <2>c, <3>1, <1>u, <1>v DEF Files!CallsHaveFiles
      <4>2. Files!Holds(d, o) => o \in Files!Cached \cup v9
        BY DEF Files!HeldFilesAreKept
      <4> HIDE DEF Files!Holds
      <4> QED BY <2>1, <2>c, <3>1, <4>1, <4>2, <1>v
    <3>2. /\ Files!Cached' \cup v9' \subseteq v5' \cup v17'
          /\ Files!Cached' \cap v9' = {} /\ (Files!Cached' \cup v9') \cap v10' = {}
      BY <2>1, <2>c, <1>t, <1>u, <1>v
         DEF Files!CallsHaveFiles, Files!NewFilesAreOwn, Files!HeldFilesAreKept
    <3> QED BY <3>1, <3>2 DEF Files!HeldFilesAreKept
  <2>6. Files!ReadersAreCounted'
    <3>1. ASSUME NEW o \in Files!Objects PROVE v4'[o] = Cardinality(Files!Holders(o)')
      <4>0. v4[o] = Cardinality(Files!Holders(o))
        BY FilesCounts DEF Files!ReadersAreCounted
      <4>1. CASE o = v13[c]
        <5>1. v4'[o] = v4[o] - 1
          BY <2>1, <2>c, <4>1, <1>t, <1>v
        <5>2. Files!Holders(o)' = Files!Holders(o) \ {c} /\ c \in Files!Holders(o)
          BY <2>1, <2>c, <4>1, <1>t, <1>u, <1>v
             DEF Files!Holders, Files!CallsHaveFiles, Files!NewFilesAreOwn,
             Files!HeldFilesAreKept
        <5> QED BY <4>0, <5>1, <5>2, FilesSets, FS_RemoveElement
      <4>2. CASE o # v13[c]
        <5>1. v4'[o] = v4[o]
          BY <2>1, <2>c, <4>2, <1>t, <1>v
        <5>3. ASSUME NEW d \in Few PROVE Files!Holds(d, o)' <=> Files!Holds(d, o)
          BY <2>1, <2>c, <4>2, <1>t, <1>u, <1>v DEF Files!CallsHaveFiles
        <5>2. Files!Holders(o)' = Files!Holders(o)
          BY <5>3 DEF Files!Holders
        <5> QED BY <4>0, <5>1, <5>2
      <4> QED BY <4>1, <4>2
    <3> QED BY <3>1, FilesCounts DEF Files!ReadersAreCounted
  <2>7. Files!BigFilesAreCounted'
    <3>1. ASSUME ~ v1 PROVE \A o \in Files!Objects : v7'[o] = 0 /\ v6'[o] = 0
      BY <2>1, <3>1, <1>t, <1>v DEF Files!BigFilesAreCounted
    <3>2. ASSUME v1, NEW o \in v5'
          PROVE  v7'[o] = v6'[o] + Cardinality(Files!Reading(o)')
      <4>1. Files!Reading(o)' = Files!Reading(o)
        <5>1. \A d \in Few :
                (v13'[d] = o /\ v11'[d] = "read") <=> (v13[d] = o /\ v11[d] = "read")
          BY <2>1, <3>2, <1>t, <1>u, <1>v DEF Files!CallsHaveFiles, Files!NewFilesAreOwn
        <5> QED BY <5>1 DEF Files!Reading
      <4>2. o \in v5 /\ v7'[o] = v7[o] /\ v6'[o] = v6[o]
        BY <2>1, <3>2, <1>t, <1>v
      <4> QED BY <3>2, <4>1, <4>2, FilesCounts DEF Files!BigFilesAreCounted
    <3>3. v1' = v1 /\ (v1 => v17' = {})
      BY <2>1, <1>t DEF Files!BigFilesAreCounted
    <3> QED BY <3>1, <3>2, <3>3, FilesCounts DEF Files!BigFilesAreCounted
  <2>8. Files!FilesAreClosed'
    <3> DEFINE Going(o) == o \in v18' \cup v9' \cup v10' \cup Files!Cached'
               Coming(o) == \E d \in Few : v13'[d] = o /\ v11'[d] \in {"insert", "second"}
    <3>2. ASSUME NEW o \in 1 .. FilesMade, o \notin v5' PROVE v7'[o] = 0
      BY <2>1, <2>c, <3>2, <1>t, <1>v DEF Files!BigFilesAreCounted, Files!FilesAreClosed
    <3>3. ASSUME NEW o \in 1 .. FilesMade, o \in v5', NEW d \in Few, v13[d] = o,
                 v11[d] \in {"insert", "second"}
          PROVE  Going(o) \/ Coming(o)
      <4>1. Going(o) \/ (v13'[d] = o /\ v11'[d] \in {"insert", "second"})
        BY <2>1, <2>c, <3>3, <1>t, <1>u, <1>v DEF Files!CallsHaveFiles
      <4> QED BY <4>1
    <3>4. ASSUME NEW o \in 1 .. FilesMade, o \in v5', o \in v18 \cup v9 \cup v10 \cup Files!Cached
          PROVE  Going(o)
      BY <2>1, <2>c, <3>4
    <3>5. ASSUME NEW o \in 1 .. FilesMade, o \in v5', o \notin v5 PROVE Going(o) \/ Coming(o)
      BY <2>1, <2>c, <3>5
    <3>6. ASSUME NEW o \in 1 .. FilesMade, o \in v5' PROVE Going(o) \/ Coming(o)
      <4> HIDE DEF Going, Coming
      <4> QED BY <3>3, <3>4, <3>5, <3>6 DEF Files!FilesAreClosed
    <3> QED BY <3>2, <3>6 DEF Files!FilesAreClosed
  <2> QED BY <2>2, <2>3, <2>4, <2>5, <2>6, <2>7, <2>8
<1>9. ASSUME NEW c \in Few, Files!Read(c)
      PROVE  Kept
  <2>1. /\ UNCHANGED <<v1, v2, v3, v4, v5, v8, v9, v10, v12, v13, v14, v17, v18>>
        /\ v13[c] \in 1 .. v3 /\ v14[c] = Nobody
        /\ \A o \in 1 .. FilesMade : o # v13[c] => v6'[o] = v6[o] /\ v7'[o] = v7[o]
        /\ ~ v1 => v6' = v6 /\ v7' = v7
        /\ \A d \in Few \ {c} : v11'[d] = v11[d]
        /\ v11[c] = "have" /\ v11'[c] = "read"
        /\ v1 => \/ v6'[v13[c]] = v6[v13[c]] - 1 /\ v7' = v7
                 \/ v7'[v13[c]] = v7[v13[c]] + 1 /\ v6' = v6
    BY <1>9, <1>t, <1>u, <1>v, <1>w DEF Files!Read, Files!CallsHaveFiles
  <2>b. v1 => v13[c] \in v5
    BY <2>1, <1>v DEF Files!HeldFilesAreKept, Files!BigFilesAreCounted
  <2>c. Files!Cached' = Files!Cached
    BY <2>1, <2>b, <1>t, <1>v DEF Files!Cached
  <2>2. Files!TypeOK'
    <3>1. v1' \in BOOLEAN /\ v3' \in 0 .. FilesMade
      BY <2>1, <1>9, <1>t, <1>u, <1>v DEF Files!Read, Files!CallsHaveFiles
    <3>2. /\ v5' \subseteq 1 .. v3' /\ v8' \subseteq 1 .. v3' /\ v9' \subseteq 1 .. v3'
          /\ v10' \subseteq 1 .. v3' /\ v17' \subseteq 1 .. v3'
      BY <2>1, <1>9, <1>t, <1>u, <1>v DEF Files!Read, Files!CallsHaveFiles
    <3>3. v2' \in [Forms -> 1 .. v3' \cup {Nobody}]
      BY <2>1, <1>9, <1>t, <1>u, <1>v DEF Files!Read, Files!CallsHaveFiles
    <3>4. v4' \in [1 .. FilesMade -> Int] /\ v7' \in [1 .. FilesMade -> Int]
      <4>1. v4' \in [1 .. FilesMade -> Int]
        BY <1>9, <1>i DEF Files!Read
      <4>2. v7' \in [1 .. FilesMade -> Int]
        BY <1>9, <1>i DEF Files!Read
      <4> QED BY <4>1, <4>2
    <3>5. v6' \in [1 .. FilesMade -> Nat]
      <4>1. v6' = v6 \/ \E k \in Nat : v6' = [v6 EXCEPT ![v13[c]] = k]
        <5>1. v6' = v6 \/ (v6[v13[c]] > 0 /\ v6' = [v6 EXCEPT ![v13[c]] = v6[v13[c]] - 1])
          BY <1>9 DEF Files!Read
        <5>2. v6[v13[c]] \in Nat
          BY <2>1, <1>t, <1>v
        <5> QED BY ONLY <5>1, <5>2
      <4> QED BY <4>1, <1>t
    <3>6. \A o \in (1 .. FilesMade) \ (1 .. v3') : v6'[o] = 0
      BY <2>1, <1>9, <1>t, <1>u, <1>v DEF Files!Read, Files!CallsHaveFiles
    <3>7. v11' \in [Few -> Places]
      BY <2>1, <1>9, <1>t, <1>u, <1>v DEF Files!Read, Files!CallsHaveFiles
    <3>8. v12' \in [Few -> Forms \cup {Nobody}]
      BY <2>1, <1>9, <1>t, <1>u, <1>v DEF Files!Read, Files!CallsHaveFiles
    <3>9. v13' \in [Few -> 1 .. v3' \cup {Nobody}]
      BY <2>1, <1>9, <1>t, <1>u, <1>v DEF Files!Read, Files!CallsHaveFiles
    <3>10. v14' \in [Few -> 1 .. v3' \cup {Nobody}]
      BY <2>1, <1>9, <1>t, <1>u, <1>v DEF Files!Read, Files!CallsHaveFiles
    <3> QED BY <3>1, <3>2, <3>3, <3>4, <3>5, <3>6, <3>7, <3>8, <3>9, <3>10 DEF Files!TypeOK
  <2>3. Files!CallsHaveFiles'
    BY <2>1, <2>b, <2>c, <1>u, <1>v DEF Files!CallsHaveFiles
  <2>4. Files!NewFilesAreOwn'
    <3> SUFFICES ASSUME NEW d \in Few, v11'[d] \in {"insert", "second"}
                 PROVE  /\ v13'[d] \in (v5' \cup v17') \ (Files!Cached' \cup v9' \cup v10')
                        /\ \A e \in Few : v14'[e] # v13'[d] /\ (e # d => v13'[e] # v13'[d])
      BY DEF Files!NewFilesAreOwn
    <3>1. v13'[d] \in (v5' \cup v17') \ (Files!Cached' \cup v9' \cup v10')
      BY <2>1, <2>b, <2>c, <1>t, <1>u, <1>v, <1>w DEF Files!CallsHaveFiles, Files!NewFilesAreOwn
    <3>0. /\ v13'[d] \notin Files!Cached
          /\ \/ v13'[d] = v13[d] /\ v11[d] \in {"insert", "second"}
             \/ v13'[d] \notin 1 .. v3
      BY <2>1, <2>b, <2>c, <1>t, <1>u, <1>v, <1>w DEF Files!CallsHaveFiles, Files!NewFilesAreOwn
    <3>2. ASSUME NEW e \in Few PROVE v14'[e] # v13'[d]
      <4>1. v13'[d] # Nobody
        BY <2>3 DEF Files!CallsHaveFiles
      <4>2. v14'[e] = v14[e] \/ v14'[e] \in Files!Cached \cup {Nobody}
        BY <2>1, <2>b, <2>c
      <4>3. v14[e] # v13'[d]
        BY <3>0, <4>1, <1>u DEF Files!NewFilesAreOwn
      <4> QED BY <3>0, <4>1, <4>2, <4>3
    <3>3. ASSUME NEW e \in Few, e # d PROVE v13'[e] # v13'[d]
      BY <2>1, <2>b, <2>c, <3>0, <3>3, <1>u, <1>v, <1>w DEF Files!NewFilesAreOwn
    <3> QED BY <3>1, <3>2, <3>3
  <2>5. Files!HeldFilesAreKept'
    <3>1. ASSUME NEW d \in Few, NEW o \in 1 .. FilesMade, Files!Holds(d, o)'
          PROVE  o \in Files!Cached' \cup v9'
      <4>1. Files!Holds(d, o) \/ o \in Files!Cached'
        BY <2>1, <2>b, <2>c, <3>1, <1>u, <1>v DEF Files!CallsHaveFiles
      <4>2. Files!Holds(d, o) => o \in Files!Cached \cup v9
        BY DEF Files!HeldFilesAreKept
      <4> HIDE DEF Files!Holds
      <4> QED BY <2>1, <2>b, <2>c, <3>1, <4>1, <4>2, <1>v
    <3>2. /\ Files!Cached' \cup v9' \subseteq v5' \cup v17'
          /\ Files!Cached' \cap v9' = {} /\ (Files!Cached' \cup v9') \cap v10' = {}
      BY <2>1, <2>b, <2>c, <1>t, <1>u, <1>v
         DEF Files!CallsHaveFiles, Files!NewFilesAreOwn, Files!HeldFilesAreKept
    <3> QED BY <3>1, <3>2 DEF Files!HeldFilesAreKept
  <2>6. Files!ReadersAreCounted'
    <3>1. ASSUME NEW o \in Files!Objects
          PROVE  v4'[o] = v4[o] /\ Files!Holders(o)' = Files!Holders(o)
      <4>1. \A d \in Few : Files!Holds(d, o)' <=> Files!Holds(d, o)
        BY <2>1, <2>b, <2>c, <1>u, <1>v DEF Files!CallsHaveFiles
      <4>2. v4'[o] = v4[o]
        BY <2>1, <2>b, <2>c, <1>t
      <4> HIDE DEF Files!Holds
      <4> QED BY <4>1, <4>2 DEF Files!Holders
    <3> QED BY <3>1, FilesCounts DEF Files!ReadersAreCounted
  <2>7. Files!BigFilesAreCounted'
    <3>1. ASSUME ~ v1 PROVE \A o \in Files!Objects : v7'[o] = 0 /\ v6'[o] = 0
      BY <2>1, <3>1, <1>t, <1>v DEF Files!BigFilesAreCounted
    <3>2. ASSUME v1, NEW o \in v5'
          PROVE  v7'[o] = v6'[o] + Cardinality(Files!Reading(o)')
      <4>0. o \in v5 /\ o \in 1 .. FilesMade /\ v7[o] = v6[o] + Cardinality(Files!Reading(o))
        BY <2>1, <3>2, <1>t, <1>v, FilesCounts DEF Files!BigFilesAreCounted
      <4>1. CASE o = v13[c]
        <5>0. v6[o] \in Int /\ v7[o] \in Int
          BY <4>0, <1>t
        <5>6. \/ v6'[o] = v6[o] - 1 /\ v7'[o] = v7[o]
              \/ v7'[o] = v7[o] + 1 /\ v6'[o] = v6[o]
          BY <2>1, <3>2, <4>0, <4>1
        <5>1. v7'[o] - v6'[o] = v7[o] - v6[o] + 1 /\ v7'[o] \in Int /\ v6'[o] \in Int
          BY <5>0, <5>6
        <5>2. Files!Reading(o)' = Files!Reading(o) \cup {c} /\ c \notin Files!Reading(o)
          BY <2>1, <4>1 DEF Files!Reading
        <5>3. Cardinality(Files!Reading(o)') = Cardinality(Files!Reading(o)) + 1
          BY <5>2, FilesSets, FS_AddElement
        <5>4. v7[o] \in Int /\ v6[o] \in Int /\ Cardinality(Files!Reading(o)) \in Nat
          BY <4>0, <1>t, FilesSets
        <5> QED BY <4>0, <5>1, <5>3, <5>4
      <4>2. CASE o # v13[c]
        <5>1. v7'[o] = v7[o] /\ v6'[o] = v6[o]
          BY <2>1, <4>0, <4>2
        <5>2. Files!Reading(o)' = Files!Reading(o)
          BY <2>1, <4>2 DEF Files!Reading
        <5> QED BY <4>0, <5>1, <5>2
      <4> QED BY <4>1, <4>2
    <3>3. v1' = v1 /\ (v1 => v17' = {})
      BY <2>1, <1>t DEF Files!BigFilesAreCounted
    <3> QED BY <3>1, <3>2, <3>3, FilesCounts DEF Files!BigFilesAreCounted
  <2>8. Files!FilesAreClosed'
    <3> DEFINE Going(o) == o \in v18' \cup v9' \cup v10' \cup Files!Cached'
               Coming(o) == \E d \in Few : v13'[d] = o /\ v11'[d] \in {"insert", "second"}
    <3>2. ASSUME NEW o \in 1 .. FilesMade, o \notin v5' PROVE v7'[o] = 0
      BY <2>1, <2>b, <2>c, <3>2, <1>t, <1>v DEF Files!BigFilesAreCounted, Files!FilesAreClosed
    <3>3. ASSUME NEW o \in 1 .. FilesMade, o \in v5', NEW d \in Few, v13[d] = o,
                 v11[d] \in {"insert", "second"}
          PROVE  Going(o) \/ Coming(o)
      <4>1. Going(o) \/ (v13'[d] = o /\ v11'[d] \in {"insert", "second"})
        BY <2>1, <2>b, <2>c, <3>3, <1>t, <1>u, <1>v DEF Files!CallsHaveFiles
      <4> QED BY <4>1
    <3>4. ASSUME NEW o \in 1 .. FilesMade, o \in v5', o \in v18 \cup v9 \cup v10 \cup Files!Cached
          PROVE  Going(o)
      BY <2>1, <2>b, <2>c, <3>4
    <3>5. ASSUME NEW o \in 1 .. FilesMade, o \in v5', o \notin v5 PROVE Going(o) \/ Coming(o)
      BY <2>1, <2>b, <2>c, <3>5
    <3>6. ASSUME NEW o \in 1 .. FilesMade, o \in v5' PROVE Going(o) \/ Coming(o)
      <4> HIDE DEF Going, Coming
      <4> QED BY <3>3, <3>4, <3>5, <3>6 DEF Files!FilesAreClosed
    <3> QED BY <3>2, <3>6 DEF Files!FilesAreClosed
  <2> QED BY <2>2, <2>3, <2>4, <2>5, <2>6, <2>7, <2>8
<1>10. ASSUME NEW c \in Few, Files!Keep(c)
      PROVE  Kept
  <2>1. /\ UNCHANGED <<v1, v2, v3, v4, v5, v8, v9, v10, v12, v13, v14, v17, v18>>
        /\ v13[c] \in 1 .. v3 /\ v14[c] = Nobody
        /\ \A o \in 1 .. FilesMade : o # v13[c] => v6'[o] = v6[o] /\ v7'[o] = v7[o]
        /\ ~ v1 => v6' = v6 /\ v7' = v7
        /\ \A d \in Few \ {c} : v11'[d] = v11[d]
        /\ v11[c] = "read" /\ v11'[c] = "leave"
        /\ v1 => \/ v6'[v13[c]] = v6[v13[c]] + 1 /\ v7' = v7
                 \/ v7'[v13[c]] = v7[v13[c]] - 1 /\ v6' = v6
    BY <1>10, <1>t, <1>u, <1>v, <1>w DEF Files!Keep, Files!CallsHaveFiles
  <2>b. v1 => v13[c] \in v5
    BY <2>1, <1>v DEF Files!HeldFilesAreKept, Files!BigFilesAreCounted
  <2>c. Files!Cached' = Files!Cached
    BY <2>1, <2>b, <1>t, <1>v DEF Files!Cached
  <2>2. Files!TypeOK'
    <3>1. v1' \in BOOLEAN /\ v3' \in 0 .. FilesMade
      BY <2>1, <1>10, <1>t, <1>u, <1>v DEF Files!Keep, Files!CallsHaveFiles
    <3>2. /\ v5' \subseteq 1 .. v3' /\ v8' \subseteq 1 .. v3' /\ v9' \subseteq 1 .. v3'
          /\ v10' \subseteq 1 .. v3' /\ v17' \subseteq 1 .. v3'
      BY <2>1, <1>10, <1>t, <1>u, <1>v DEF Files!Keep, Files!CallsHaveFiles
    <3>3. v2' \in [Forms -> 1 .. v3' \cup {Nobody}]
      BY <2>1, <1>10, <1>t, <1>u, <1>v DEF Files!Keep, Files!CallsHaveFiles
    <3>4. v4' \in [1 .. FilesMade -> Int] /\ v7' \in [1 .. FilesMade -> Int]
      <4>1. v4' \in [1 .. FilesMade -> Int]
        BY <1>10, <1>i DEF Files!Keep
      <4>2. v7' \in [1 .. FilesMade -> Int]
        BY <1>10, <1>i DEF Files!Keep
      <4> QED BY <4>1, <4>2
    <3>5. v6' \in [1 .. FilesMade -> Nat]
      <4>1. v6' = v6 \/ \E k \in Nat : v6' = [v6 EXCEPT ![v13[c]] = k]
        <5>1. v6' = v6 \/ v6' = [v6 EXCEPT ![v13[c]] = v6[v13[c]] + 1]
          BY <1>10 DEF Files!Keep
        <5>2. v6[v13[c]] + 1 \in Nat
          <6>1. v6[v13[c]] \in Nat
            BY <2>1, <1>t
          <6> QED BY ONLY <6>1
        <5> QED BY ONLY <5>1, <5>2
      <4> QED BY <4>1, <1>t
    <3>6. \A o \in (1 .. FilesMade) \ (1 .. v3') : v6'[o] = 0
      BY <2>1, <1>10, <1>t, <1>u, <1>v DEF Files!Keep, Files!CallsHaveFiles
    <3>7. v11' \in [Few -> Places]
      BY <2>1, <1>10, <1>t, <1>u, <1>v DEF Files!Keep, Files!CallsHaveFiles
    <3>8. v12' \in [Few -> Forms \cup {Nobody}]
      BY <2>1, <1>10, <1>t, <1>u, <1>v DEF Files!Keep, Files!CallsHaveFiles
    <3>9. v13' \in [Few -> 1 .. v3' \cup {Nobody}]
      BY <2>1, <1>10, <1>t, <1>u, <1>v DEF Files!Keep, Files!CallsHaveFiles
    <3>10. v14' \in [Few -> 1 .. v3' \cup {Nobody}]
      BY <2>1, <1>10, <1>t, <1>u, <1>v DEF Files!Keep, Files!CallsHaveFiles
    <3> QED BY <3>1, <3>2, <3>3, <3>4, <3>5, <3>6, <3>7, <3>8, <3>9, <3>10 DEF Files!TypeOK
  <2>3. Files!CallsHaveFiles'
    BY <2>1, <2>b, <2>c, <1>u, <1>v DEF Files!CallsHaveFiles
  <2>4. Files!NewFilesAreOwn'
    <3> SUFFICES ASSUME NEW d \in Few, v11'[d] \in {"insert", "second"}
                 PROVE  /\ v13'[d] \in (v5' \cup v17') \ (Files!Cached' \cup v9' \cup v10')
                        /\ \A e \in Few : v14'[e] # v13'[d] /\ (e # d => v13'[e] # v13'[d])
      BY DEF Files!NewFilesAreOwn
    <3>1. v13'[d] \in (v5' \cup v17') \ (Files!Cached' \cup v9' \cup v10')
      BY <2>1, <2>b, <2>c, <1>t, <1>u, <1>v, <1>w DEF Files!CallsHaveFiles, Files!NewFilesAreOwn
    <3>0. /\ v13'[d] \notin Files!Cached
          /\ \/ v13'[d] = v13[d] /\ v11[d] \in {"insert", "second"}
             \/ v13'[d] \notin 1 .. v3
      BY <2>1, <2>b, <2>c, <1>t, <1>u, <1>v, <1>w DEF Files!CallsHaveFiles, Files!NewFilesAreOwn
    <3>2. ASSUME NEW e \in Few PROVE v14'[e] # v13'[d]
      <4>1. v13'[d] # Nobody
        BY <2>3 DEF Files!CallsHaveFiles
      <4>2. v14'[e] = v14[e] \/ v14'[e] \in Files!Cached \cup {Nobody}
        BY <2>1, <2>b, <2>c
      <4>3. v14[e] # v13'[d]
        BY <3>0, <4>1, <1>u DEF Files!NewFilesAreOwn
      <4> QED BY <3>0, <4>1, <4>2, <4>3
    <3>3. ASSUME NEW e \in Few, e # d PROVE v13'[e] # v13'[d]
      BY <2>1, <2>b, <2>c, <3>0, <3>3, <1>u, <1>v, <1>w DEF Files!NewFilesAreOwn
    <3> QED BY <3>1, <3>2, <3>3
  <2>5. Files!HeldFilesAreKept'
    <3>1. ASSUME NEW d \in Few, NEW o \in 1 .. FilesMade, Files!Holds(d, o)'
          PROVE  o \in Files!Cached' \cup v9'
      <4>1. Files!Holds(d, o) \/ o \in Files!Cached'
        BY <2>1, <2>b, <2>c, <3>1, <1>u, <1>v DEF Files!CallsHaveFiles
      <4>2. Files!Holds(d, o) => o \in Files!Cached \cup v9
        BY DEF Files!HeldFilesAreKept
      <4> HIDE DEF Files!Holds
      <4> QED BY <2>1, <2>b, <2>c, <3>1, <4>1, <4>2, <1>v
    <3>2. /\ Files!Cached' \cup v9' \subseteq v5' \cup v17'
          /\ Files!Cached' \cap v9' = {} /\ (Files!Cached' \cup v9') \cap v10' = {}
      BY <2>1, <2>b, <2>c, <1>t, <1>u, <1>v
         DEF Files!CallsHaveFiles, Files!NewFilesAreOwn, Files!HeldFilesAreKept
    <3> QED BY <3>1, <3>2 DEF Files!HeldFilesAreKept
  <2>6. Files!ReadersAreCounted'
    <3>1. ASSUME NEW o \in Files!Objects
          PROVE  v4'[o] = v4[o] /\ Files!Holders(o)' = Files!Holders(o)
      <4>1. \A d \in Few : Files!Holds(d, o)' <=> Files!Holds(d, o)
        BY <2>1, <2>b, <2>c, <1>u, <1>v DEF Files!CallsHaveFiles
      <4>2. v4'[o] = v4[o]
        BY <2>1, <2>b, <2>c, <1>t
      <4> HIDE DEF Files!Holds
      <4> QED BY <4>1, <4>2 DEF Files!Holders
    <3> QED BY <3>1, FilesCounts DEF Files!ReadersAreCounted
  <2>7. Files!BigFilesAreCounted'
    <3>1. ASSUME ~ v1 PROVE \A o \in Files!Objects : v7'[o] = 0 /\ v6'[o] = 0
      BY <2>1, <3>1, <1>t, <1>v DEF Files!BigFilesAreCounted
    <3>2. ASSUME v1, NEW o \in v5'
          PROVE  v7'[o] = v6'[o] + Cardinality(Files!Reading(o)')
      <4>0. o \in v5 /\ o \in 1 .. FilesMade /\ v7[o] = v6[o] + Cardinality(Files!Reading(o))
        BY <2>1, <3>2, <1>t, <1>v, FilesCounts DEF Files!BigFilesAreCounted
      <4>1. CASE o = v13[c]
        <5>0. v6[o] \in Int /\ v7[o] \in Int
          BY <4>0, <1>t
        <5>6. \/ v6'[o] = v6[o] + 1 /\ v7'[o] = v7[o]
              \/ v7'[o] = v7[o] - 1 /\ v6'[o] = v6[o]
          BY <2>1, <3>2, <4>0, <4>1
        <5>1. v7'[o] - v6'[o] = v7[o] - v6[o] - 1 /\ v7'[o] \in Int /\ v6'[o] \in Int
          BY <5>0, <5>6
        <5>2. Files!Reading(o)' = Files!Reading(o) \ {c} /\ c \in Files!Reading(o)
          BY <2>1, <4>1 DEF Files!Reading
        <5>3. Cardinality(Files!Reading(o)') = Cardinality(Files!Reading(o)) - 1
          BY <5>2, FilesSets, FS_RemoveElement
        <5>4. v7[o] \in Int /\ v6[o] \in Int /\ Cardinality(Files!Reading(o)) \in Nat
          BY <4>0, <1>t, FilesSets
        <5> QED BY <4>0, <5>1, <5>3, <5>4
      <4>2. CASE o # v13[c]
        <5>1. v7'[o] = v7[o] /\ v6'[o] = v6[o]
          BY <2>1, <4>0, <4>2
        <5>2. Files!Reading(o)' = Files!Reading(o)
          BY <2>1, <4>2 DEF Files!Reading
        <5> QED BY <4>0, <5>1, <5>2
      <4> QED BY <4>1, <4>2
    <3>3. v1' = v1 /\ (v1 => v17' = {})
      BY <2>1, <1>t DEF Files!BigFilesAreCounted
    <3> QED BY <3>1, <3>2, <3>3, FilesCounts DEF Files!BigFilesAreCounted
  <2>8. Files!FilesAreClosed'
    <3> DEFINE Going(o) == o \in v18' \cup v9' \cup v10' \cup Files!Cached'
               Coming(o) == \E d \in Few : v13'[d] = o /\ v11'[d] \in {"insert", "second"}
    <3>2. ASSUME NEW o \in 1 .. FilesMade, o \notin v5' PROVE v7'[o] = 0
      BY <2>1, <2>b, <2>c, <3>2, <1>t, <1>v DEF Files!BigFilesAreCounted, Files!FilesAreClosed
    <3>3. ASSUME NEW o \in 1 .. FilesMade, o \in v5', NEW d \in Few, v13[d] = o,
                 v11[d] \in {"insert", "second"}
          PROVE  Going(o) \/ Coming(o)
      <4>1. Going(o) \/ (v13'[d] = o /\ v11'[d] \in {"insert", "second"})
        BY <2>1, <2>b, <2>c, <3>3, <1>t, <1>u, <1>v DEF Files!CallsHaveFiles
      <4> QED BY <4>1
    <3>4. ASSUME NEW o \in 1 .. FilesMade, o \in v5', o \in v18 \cup v9 \cup v10 \cup Files!Cached
          PROVE  Going(o)
      BY <2>1, <2>b, <2>c, <3>4
    <3>5. ASSUME NEW o \in 1 .. FilesMade, o \in v5', o \notin v5 PROVE Going(o) \/ Coming(o)
      BY <2>1, <2>b, <2>c, <3>5
    <3>6. ASSUME NEW o \in 1 .. FilesMade, o \in v5' PROVE Going(o) \/ Coming(o)
      <4> HIDE DEF Going, Coming
      <4> QED BY <3>3, <3>4, <3>5, <3>6 DEF Files!FilesAreClosed
    <3> QED BY <3>2, <3>6 DEF Files!FilesAreClosed
  <2> QED BY <2>2, <2>3, <2>4, <2>5, <2>6, <2>7, <2>8
<1>11. ASSUME NEW r \in Files!Objects, Files!CleanerReleases(r)
      PROVE  Kept
  <2>1. /\ UNCHANGED <<v1, v2, v3, v4, v6, v8, v9, v11, v12, v13, v14, v17, v18>>
        /\ r \in v10 /\ v10' = v10 \ {r}
        /\ v5' = v5 \ {r} /\ r \in 1 .. v3
        /\ (r \in v5 /\ v1) => v7'[r] = v7[r] - v6[r]
        /\ ~ (r \in v5 /\ v1) => v7' = v7
        /\ \A o \in 1 .. FilesMade : o # r => v7'[o] = v7[o]
    BY <1>11, <1>t, <1>u, <1>v, <1>w DEF Files!CleanerReleases, Files!Release
  <2>c. Files!Cached' = Files!Cached
    BY <2>1, <1>t, <1>v DEF Files!Cached
  <2>2. Files!TypeOK'
    <3>1. v1' \in BOOLEAN /\ v3' \in 0 .. FilesMade
      BY <2>1, <1>11, <1>t, <1>u, <1>v DEF Files!CleanerReleases, Files!Release
    <3>2. /\ v5' \subseteq 1 .. v3' /\ v8' \subseteq 1 .. v3' /\ v9' \subseteq 1 .. v3'
          /\ v10' \subseteq 1 .. v3' /\ v17' \subseteq 1 .. v3'
      BY <2>1, <1>11, <1>t, <1>u, <1>v DEF Files!CleanerReleases, Files!Release
    <3>3. v2' \in [Forms -> 1 .. v3' \cup {Nobody}]
      BY <2>1, <1>11, <1>t, <1>u, <1>v DEF Files!CleanerReleases, Files!Release
    <3>4. v4' \in [1 .. FilesMade -> Int] /\ v7' \in [1 .. FilesMade -> Int]
      <4>1. v4' \in [1 .. FilesMade -> Int]
        BY <1>11, <1>i DEF Files!CleanerReleases, Files!Release
      <4>2. v7' \in [1 .. FilesMade -> Int]
        <5>1. v7[r] - v6[r] \in Int
          BY <2>1, <1>t, <1>v
        <5>2. v7' = v7 \/ v7' = [v7 EXCEPT ![r] = v7[r] - v6[r]]
          BY <1>11 DEF Files!CleanerReleases, Files!Release
        <5> QED BY <5>1, <5>2, <1>i, IntsUpdated
      <4> QED BY <4>1, <4>2
    <3>5. v6' \in [1 .. FilesMade -> Nat]
      BY <2>1, <1>11, <1>t, <1>u, <1>v DEF Files!CleanerReleases, Files!Release
    <3>6. \A o \in (1 .. FilesMade) \ (1 .. v3') : v6'[o] = 0
      BY <2>1, <1>11, <1>t, <1>u, <1>v DEF Files!CleanerReleases, Files!Release
    <3>7. v11' \in [Few -> Places]
      BY <2>1, <1>11, <1>t, <1>u, <1>v DEF Files!CleanerReleases, Files!Release
    <3>8. v12' \in [Few -> Forms \cup {Nobody}]
      BY <2>1, <1>11, <1>t, <1>u, <1>v DEF Files!CleanerReleases, Files!Release
    <3>9. v13' \in [Few -> 1 .. v3' \cup {Nobody}]
      BY <2>1, <1>11, <1>t, <1>u, <1>v DEF Files!CleanerReleases, Files!Release
    <3>10. v14' \in [Few -> 1 .. v3' \cup {Nobody}]
      BY <2>1, <1>11, <1>t, <1>u, <1>v DEF Files!CleanerReleases, Files!Release
    <3> QED BY <3>1, <3>2, <3>3, <3>4, <3>5, <3>6, <3>7, <3>8, <3>9, <3>10 DEF Files!TypeOK
  <2>3. Files!CallsHaveFiles'
    BY <2>1, <2>c, <1>u, <1>v DEF Files!CallsHaveFiles
  <2>4. Files!NewFilesAreOwn'
    <3> SUFFICES ASSUME NEW d \in Few, v11'[d] \in {"insert", "second"}
                 PROVE  /\ v13'[d] \in (v5' \cup v17') \ (Files!Cached' \cup v9' \cup v10')
                        /\ \A e \in Few : v14'[e] # v13'[d] /\ (e # d => v13'[e] # v13'[d])
      BY DEF Files!NewFilesAreOwn
    <3>1. v13'[d] \in (v5' \cup v17') \ (Files!Cached' \cup v9' \cup v10')
      BY <2>1, <2>c, <1>t, <1>u, <1>v, <1>w DEF Files!CallsHaveFiles, Files!NewFilesAreOwn
    <3>0. /\ v13'[d] \notin Files!Cached
          /\ \/ v13'[d] = v13[d] /\ v11[d] \in {"insert", "second"}
             \/ v13'[d] \notin 1 .. v3
      BY <2>1, <2>c, <1>t, <1>u, <1>v, <1>w DEF Files!CallsHaveFiles, Files!NewFilesAreOwn
    <3>2. ASSUME NEW e \in Few PROVE v14'[e] # v13'[d]
      <4>1. v13'[d] # Nobody
        BY <2>3 DEF Files!CallsHaveFiles
      <4>2. v14'[e] = v14[e] \/ v14'[e] \in Files!Cached \cup {Nobody}
        BY <2>1, <2>c
      <4>3. v14[e] # v13'[d]
        BY <3>0, <4>1, <1>u DEF Files!NewFilesAreOwn
      <4> QED BY <3>0, <4>1, <4>2, <4>3
    <3>3. ASSUME NEW e \in Few, e # d PROVE v13'[e] # v13'[d]
      BY <2>1, <2>c, <3>0, <3>3, <1>u, <1>v, <1>w DEF Files!NewFilesAreOwn
    <3> QED BY <3>1, <3>2, <3>3
  <2>5. Files!HeldFilesAreKept'
    <3>1. ASSUME NEW d \in Few, NEW o \in 1 .. FilesMade, Files!Holds(d, o)'
          PROVE  o \in Files!Cached' \cup v9'
      <4>1. Files!Holds(d, o) \/ o \in Files!Cached'
        BY <2>1, <2>c, <3>1, <1>u, <1>v DEF Files!CallsHaveFiles
      <4>2. Files!Holds(d, o) => o \in Files!Cached \cup v9
        BY DEF Files!HeldFilesAreKept
      <4> HIDE DEF Files!Holds
      <4> QED BY <2>1, <2>c, <3>1, <4>1, <4>2, <1>v
    <3>2. /\ Files!Cached' \cup v9' \subseteq v5' \cup v17'
          /\ Files!Cached' \cap v9' = {} /\ (Files!Cached' \cup v9') \cap v10' = {}
      BY <2>1, <2>c, <1>t, <1>u, <1>v
         DEF Files!CallsHaveFiles, Files!NewFilesAreOwn, Files!HeldFilesAreKept
    <3> QED BY <3>1, <3>2 DEF Files!HeldFilesAreKept
  <2>6. Files!ReadersAreCounted'
    <3>1. ASSUME NEW o \in Files!Objects
          PROVE  v4'[o] = v4[o] /\ Files!Holders(o)' = Files!Holders(o)
      <4>1. \A d \in Few : Files!Holds(d, o)' <=> Files!Holds(d, o)
        BY <2>1, <2>c, <1>u, <1>v DEF Files!CallsHaveFiles
      <4>2. v4'[o] = v4[o]
        BY <2>1, <2>c, <1>t
      <4> HIDE DEF Files!Holds
      <4> QED BY <4>1, <4>2 DEF Files!Holders
    <3> QED BY <3>1, FilesCounts DEF Files!ReadersAreCounted
  <2>7. Files!BigFilesAreCounted'
    <3>1. ASSUME ~ v1 PROVE \A o \in Files!Objects : v7'[o] = 0 /\ v6'[o] = 0
      BY <2>1, <3>1, <1>t, <1>v DEF Files!BigFilesAreCounted
    <3>2. ASSUME v1, NEW o \in v5'
          PROVE  v7'[o] = v6'[o] + Cardinality(Files!Reading(o)')
      <4>1. Files!Reading(o)' = Files!Reading(o)
        <5>1. \A d \in Few :
                (v13'[d] = o /\ v11'[d] = "read") <=> (v13[d] = o /\ v11[d] = "read")
          BY <2>1, <1>t, <1>u, <1>v DEF Files!CallsHaveFiles, Files!NewFilesAreOwn
        <5> QED BY <5>1 DEF Files!Reading
      <4>2. o \in v5 /\ v7'[o] = v7[o] /\ v6'[o] = v6[o]
        BY <2>1, <3>2, <1>t, <1>v
      <4> QED BY <3>2, <4>1, <4>2, FilesCounts DEF Files!BigFilesAreCounted
    <3>3. v1' = v1 /\ (v1 => v17' = {})
      BY <2>1, <1>t DEF Files!BigFilesAreCounted
    <3> QED BY <3>1, <3>2, <3>3, FilesCounts DEF Files!BigFilesAreCounted
  <2>8. Files!FilesAreClosed'
    <3>1. v7'[r] = 0
      <4>1. CASE r \notin v5
        BY <2>1, <4>1, <1>t, <1>v DEF Files!FilesAreClosed
      <4>2. CASE r \in v5 /\ v1
        <5>1. Files!Reading(r) = {}
          BY <2>1, <1>t, <1>u, <1>v
             DEF Files!Reading, Files!CallsHaveFiles, Files!NewFilesAreOwn,
             Files!HeldFilesAreKept
        <5>3. Files!Cardinality(Files!Reading(r)) = 0
          BY <5>1, FS_EmptySet, FilesCounts
        <5>4. v7[r] = v6[r] + Files!Cardinality(Files!Reading(r))
          BY <4>2 DEF Files!BigFilesAreCounted
        <5>5. v6[r] \in Nat
          BY <2>1, <1>t, <1>v
        <5>2. v7[r] = v6[r]
          BY <5>3, <5>4, <5>5
        <5> QED BY <2>1, <4>2, <5>2, <1>t, <1>v
      <4>3. CASE ~ v1
        BY <2>1, <4>3, <1>t, <1>v DEF Files!BigFilesAreCounted
      <4> QED BY <4>1, <4>2, <4>3
    <3> DEFINE Going(o) == o \in v18' \cup v9' \cup v10' \cup Files!Cached'
               Coming(o) == \E d \in Few : v13'[d] = o /\ v11'[d] \in {"insert", "second"}
    <3>2. ASSUME NEW o \in 1 .. FilesMade, o \notin v5' PROVE v7'[o] = 0
      BY <2>1, <2>c, <3>1, <3>2, <1>t, <1>v DEF Files!BigFilesAreCounted, Files!FilesAreClosed
    <3>3. ASSUME NEW o \in 1 .. FilesMade, o \in v5', NEW d \in Few, v13[d] = o,
                 v11[d] \in {"insert", "second"}
          PROVE  Going(o) \/ Coming(o)
      <4>1. Going(o) \/ (v13'[d] = o /\ v11'[d] \in {"insert", "second"})
        BY <2>1, <2>c, <3>3, <1>t, <1>u, <1>v DEF Files!CallsHaveFiles
      <4> QED BY <4>1
    <3>4. ASSUME NEW o \in 1 .. FilesMade, o \in v5', o \in v18 \cup v9 \cup v10 \cup Files!Cached
          PROVE  Going(o)
      BY <2>1, <2>c, <3>4
    <3>5. ASSUME NEW o \in 1 .. FilesMade, o \in v5', o \notin v5 PROVE Going(o) \/ Coming(o)
      BY <2>1, <2>c, <3>5
    <3>6. ASSUME NEW o \in 1 .. FilesMade, o \in v5' PROVE Going(o) \/ Coming(o)
      <4> HIDE DEF Going, Coming
      <4> QED BY <3>3, <3>4, <3>5, <3>6 DEF Files!FilesAreClosed
    <3> QED BY <3>2, <3>6 DEF Files!FilesAreClosed
  <2> QED BY <2>2, <2>3, <2>4, <2>5, <2>6, <2>7, <2>8
<1>12. ASSUME Files!Clean
      PROVE  Kept
  <2> DEFINE stale == {o \in v8 : \E f \in Forms : v2[f] = o}
  <2>1. /\ UNCHANGED <<v1, v3, v4, v5, v6, v7, v8, v11, v12, v13, v14, v17, v18>> /\ v10 = {}
        /\ stale \subseteq Files!Cached
        /\ v10' = {o \in stale \cup v9 : v4[o] = 0} /\ v9' = (stale \cup v9) \ v10'
        /\ v2' = [f \in Forms |-> IF v2[f] \in stale THEN Nobody ELSE v2[f]]
    BY <1>12, <1>t, <1>u, <1>v, <1>w DEF Files!Clean, Files!Cached
  <2> HIDE DEF stale
  <2>0. /\ Files!Cached' = Files!Cached \ stale /\ v9' \cap v10' = {}
        /\ \A o \in v10' : v4[o] = 0 /\ v9' \cup v10' = stale \cup v9
    <3>1. \A o \in 1 .. FilesMade :
            (\E f \in Forms : v2'[f] = o) <=> o \notin stale /\ \E f \in Forms : v2[f] = o
      BY <2>1, <1>v
    <3>2. Files!Cached' = Files!Cached \ stale
      BY <3>1 DEF Files!Cached
    <3> QED BY <2>1, <3>2
  <2>9. \A o \in 1 .. FilesMade, c \in Few : Files!Holds(c, o) => o \notin v10'
    <3>1. ASSUME NEW o \in 1 .. FilesMade, NEW c \in Few, Files!Holds(c, o) PROVE v4[o] # 0
      <4>1. c \in Files!Holders(o)
        BY <3>1 DEF Files!Holders
      <4>2. Cardinality(Files!Holders(o)) # 0
        BY <4>1, FilesSets, FS_EmptySet
      <4> QED BY <4>2, FilesCounts DEF Files!ReadersAreCounted
    <3> QED BY <2>0, <3>1
  <2>2. Files!TypeOK'
    <3>1. v1' \in BOOLEAN /\ v3' \in 0 .. FilesMade
      BY <2>1, <1>12, <1>t, <1>u, <1>v DEF Files!Clean, Files!Cached
    <3>2. /\ v5' \subseteq 1 .. v3' /\ v8' \subseteq 1 .. v3' /\ v9' \subseteq 1 .. v3'
          /\ v10' \subseteq 1 .. v3' /\ v17' \subseteq 1 .. v3'
      BY <2>1, <1>12, <1>t, <1>u, <1>v DEF Files!Clean, Files!Cached
    <3>3. v2' \in [Forms -> 1 .. v3' \cup {Nobody}]
      BY <2>1, <1>12, <1>t, <1>u, <1>v DEF Files!Clean, Files!Cached
    <3>4. v4' \in [1 .. FilesMade -> Int] /\ v7' \in [1 .. FilesMade -> Int]
      <4>1. v4' \in [1 .. FilesMade -> Int]
        BY <1>12, <1>i DEF Files!Clean, Files!Cached
      <4>2. v7' \in [1 .. FilesMade -> Int]
        BY <1>12, <1>i DEF Files!Clean, Files!Cached
      <4> QED BY <4>1, <4>2
    <3>5. v6' \in [1 .. FilesMade -> Nat]
      BY <2>1, <1>12, <1>t, <1>u, <1>v DEF Files!Clean, Files!Cached
    <3>6. \A o \in (1 .. FilesMade) \ (1 .. v3') : v6'[o] = 0
      BY <2>1, <1>12, <1>t, <1>u, <1>v DEF Files!Clean, Files!Cached
    <3>7. v11' \in [Few -> Places]
      BY <2>1, <1>12, <1>t, <1>u, <1>v DEF Files!Clean, Files!Cached
    <3>8. v12' \in [Few -> Forms \cup {Nobody}]
      BY <2>1, <1>12, <1>t, <1>u, <1>v DEF Files!Clean, Files!Cached
    <3>9. v13' \in [Few -> 1 .. v3' \cup {Nobody}]
      BY <2>1, <1>12, <1>t, <1>u, <1>v DEF Files!Clean, Files!Cached
    <3>10. v14' \in [Few -> 1 .. v3' \cup {Nobody}]
      BY <2>1, <1>12, <1>t, <1>u, <1>v DEF Files!Clean, Files!Cached
    <3> QED BY <3>1, <3>2, <3>3, <3>4, <3>5, <3>6, <3>7, <3>8, <3>9, <3>10 DEF Files!TypeOK
  <2>3. Files!CallsHaveFiles'
    BY <2>1, <2>0, <2>9, <1>u, <1>v DEF Files!CallsHaveFiles
  <2>4. Files!NewFilesAreOwn'
    <3> SUFFICES ASSUME NEW d \in Few, v11'[d] \in {"insert", "second"}
                 PROVE  /\ v13'[d] \in (v5' \cup v17') \ (Files!Cached' \cup v9' \cup v10')
                        /\ \A e \in Few : v14'[e] # v13'[d] /\ (e # d => v13'[e] # v13'[d])
      BY DEF Files!NewFilesAreOwn
    <3>1. v13'[d] \in (v5' \cup v17') \ (Files!Cached' \cup v9' \cup v10')
      BY <2>1, <2>0, <2>9, <1>t, <1>u, <1>v, <1>w DEF Files!CallsHaveFiles, Files!NewFilesAreOwn
    <3>0. /\ v13'[d] \notin Files!Cached
          /\ \/ v13'[d] = v13[d] /\ v11[d] \in {"insert", "second"}
             \/ v13'[d] \notin 1 .. v3
      BY <2>1, <2>0, <2>9, <1>t, <1>u, <1>v, <1>w DEF Files!CallsHaveFiles, Files!NewFilesAreOwn
    <3>2. ASSUME NEW e \in Few PROVE v14'[e] # v13'[d]
      <4>1. v13'[d] # Nobody
        BY <2>3 DEF Files!CallsHaveFiles
      <4>2. v14'[e] = v14[e] \/ v14'[e] \in Files!Cached \cup {Nobody}
        BY <2>1, <2>0, <2>9
      <4>3. v14[e] # v13'[d]
        BY <3>0, <4>1, <1>u DEF Files!NewFilesAreOwn
      <4> QED BY <3>0, <4>1, <4>2, <4>3
    <3>3. ASSUME NEW e \in Few, e # d PROVE v13'[e] # v13'[d]
      BY <2>1, <2>0, <2>9, <3>0, <3>3, <1>u, <1>v, <1>w DEF Files!NewFilesAreOwn
    <3> QED BY <3>1, <3>2, <3>3
  <2>5. Files!HeldFilesAreKept'
    <3>1. ASSUME NEW d \in Few, NEW o \in 1 .. FilesMade, Files!Holds(d, o)'
          PROVE  o \in Files!Cached' \cup v9'
      <4>1. Files!Holds(d, o) \/ o \in Files!Cached'
        BY <2>1, <2>0, <2>9, <3>1, <1>u, <1>v DEF Files!CallsHaveFiles
      <4>2. Files!Holds(d, o) => o \in Files!Cached \cup v9
        BY DEF Files!HeldFilesAreKept
      <4> HIDE DEF Files!Holds
      <4> QED BY <2>1, <2>0, <2>9, <3>1, <4>1, <4>2, <1>v
    <3>2. /\ Files!Cached' \cup v9' \subseteq v5' \cup v17'
          /\ Files!Cached' \cap v9' = {} /\ (Files!Cached' \cup v9') \cap v10' = {}
      BY <2>1, <2>0, <2>9, <1>t, <1>u, <1>v
         DEF Files!CallsHaveFiles, Files!NewFilesAreOwn, Files!HeldFilesAreKept
    <3> QED BY <3>1, <3>2 DEF Files!HeldFilesAreKept
  <2>6. Files!ReadersAreCounted'
    <3>1. ASSUME NEW o \in Files!Objects
          PROVE  v4'[o] = v4[o] /\ Files!Holders(o)' = Files!Holders(o)
      <4>1. \A d \in Few : Files!Holds(d, o)' <=> Files!Holds(d, o)
        BY <2>1, <2>0, <2>9, <1>u, <1>v DEF Files!CallsHaveFiles
      <4>2. v4'[o] = v4[o]
        BY <2>1, <2>0, <2>9, <1>t
      <4> HIDE DEF Files!Holds
      <4> QED BY <4>1, <4>2 DEF Files!Holders
    <3> QED BY <3>1, FilesCounts DEF Files!ReadersAreCounted
  <2>7. Files!BigFilesAreCounted'
    <3>1. ASSUME ~ v1 PROVE \A o \in Files!Objects : v7'[o] = 0 /\ v6'[o] = 0
      BY <2>1, <2>0, <2>9, <3>1, <1>t, <1>v DEF Files!BigFilesAreCounted
    <3>2. ASSUME v1, NEW o \in v5'
          PROVE  v7'[o] = v6'[o] + Cardinality(Files!Reading(o)')
      <4>1. Files!Reading(o)' = Files!Reading(o)
        <5>1. \A d \in Few :
                (v13'[d] = o /\ v11'[d] = "read") <=> (v13[d] = o /\ v11[d] = "read")
          BY <2>1, <2>0, <2>9, <1>t, <1>u, <1>v DEF Files!CallsHaveFiles, Files!NewFilesAreOwn
        <5> QED BY <5>1 DEF Files!Reading
      <4>2. o \in v5 /\ v7'[o] = v7[o] /\ v6'[o] = v6[o]
        BY <2>1, <2>0, <2>9, <3>2, <1>t, <1>v
      <4> QED BY <3>2, <4>1, <4>2, FilesCounts DEF Files!BigFilesAreCounted
    <3>3. v1' = v1 /\ (v1 => v17' = {})
      BY <2>1, <2>0, <2>9, <1>t DEF Files!BigFilesAreCounted
    <3> QED BY <3>1, <3>2, <3>3, FilesCounts DEF Files!BigFilesAreCounted
  <2>8. Files!FilesAreClosed'
    <3> DEFINE Going(o) == o \in v18' \cup v9' \cup v10' \cup Files!Cached'
               Coming(o) == \E d \in Few : v13'[d] = o /\ v11'[d] \in {"insert", "second"}
    <3>2. ASSUME NEW o \in 1 .. FilesMade, o \notin v5' PROVE v7'[o] = 0
      BY <2>1, <2>0, <2>9, <3>2, <1>t, <1>v DEF Files!BigFilesAreCounted, Files!FilesAreClosed
    <3>3. ASSUME NEW o \in 1 .. FilesMade, o \in v5', NEW d \in Few, v13[d] = o,
                 v11[d] \in {"insert", "second"}
          PROVE  Going(o) \/ Coming(o)
      <4>1. Going(o) \/ (v13'[d] = o /\ v11'[d] \in {"insert", "second"})
        BY <2>1, <2>0, <2>9, <3>3, <1>t, <1>u, <1>v DEF Files!CallsHaveFiles
      <4> QED BY <4>1
    <3>4. ASSUME NEW o \in 1 .. FilesMade, o \in v5', o \in v18 \cup v9 \cup v10 \cup Files!Cached
          PROVE  Going(o)
      BY <2>1, <2>0, <2>9, <3>4
    <3>5. ASSUME NEW o \in 1 .. FilesMade, o \in v5', o \notin v5 PROVE Going(o) \/ Coming(o)
      BY <2>1, <2>0, <2>9, <3>5
    <3>6. ASSUME NEW o \in 1 .. FilesMade, o \in v5' PROVE Going(o) \/ Coming(o)
      <4> HIDE DEF Going, Coming
      <4> QED BY <3>3, <3>4, <3>5, <3>6 DEF Files!FilesAreClosed
    <3> QED BY <3>2, <3>6 DEF Files!FilesAreClosed
  <2> QED BY <2>2, <2>3, <2>4, <2>5, <2>6, <2>7, <2>8
<1>13. ASSUME NEW c \in Few,
              \/ Files!Missing(c) \/ Files!NotUsable(c) \/ Files!Remove(c)
              \/ Files!Lock(c) \/ Files!Compress(c) \/ Files!CannotCompress(c)
      PROVE  Kept
  <2>1. /\ UNCHANGED <<v1, v2, v3, v4, v5, v6, v7, v8, v9, v10, v12, v13, v14, v17, v18>>
        /\ v12[c] # Nobody
        /\ v11[c] \in Preparing /\ v11'[c] \in Preparing
        /\ v11' = [v11 EXCEPT ![c] = v11'[c]]
    BY <1>13, <1>u
       DEF Files!Missing, Files!NotUsable, Files!Remove, Files!Lock, Files!Compress,
       Files!CannotCompress, Files!CallsHaveFiles
  <2> QED BY <1>1, <2>1
<1>14. ASSUME NEW c \in Few, Files!Open(c) \/ Files!OpenCompressed(c) \/ Files!Reopen(c)
      PROVE  Kept
  <2>1. CASE Files!New(c)
    BY <1>2, <1>14, <2>1 DEF Files!Open, Files!OpenCompressed, Files!Reopen
  <2>2. CASE ~ Files!New(c)
    <3>1. /\ UNCHANGED <<v1, v2, v3, v4, v5, v6, v7, v8, v9, v10, v12, v13, v14, v17, v18>>
          /\ v12[c] # Nobody
          /\ v11[c] \in Preparing /\ v11'[c] = "start"
          /\ v11' = [v11 EXCEPT ![c] = v11'[c]]
      BY <1>14, <2>2, <1>u
         DEF Files!Open, Files!OpenCompressed, Files!Reopen, Files!CallsHaveFiles
    <3> QED BY <1>1, <3>1
  <2> QED BY <2>1, <2>2
<1>15. ASSUME NEW c \in Few, Files!Lookup(c)
      PROVE  Kept
  <2>1. CASE v11'[c] = "have"
    BY <1>4, <1>15, <2>1
  <2>2. CASE v11'[c] # "have"
    <3>1. /\ UNCHANGED <<v1, v2, v3, v4, v5, v6, v7, v8, v9, v10, v13, v14, v17, v18>>
          /\ v11[c] \in Preparing /\ v11'[c] \in Preparing
          /\ v11' = [v11 EXCEPT ![c] = v11'[c]] /\ v12' = [v12 EXCEPT ![c] = v12'[c]]
          /\ v12'[c] \in Forms
      BY <1>15, <2>2, <1>u DEF Files!Lookup, Files!CallsHaveFiles
    <3> QED BY <1>1, <3>1
  <2> QED BY <2>1, <2>2
<1>16. ASSUME NEW c \in Few, Files!Insert(c)
      PROVE  Kept
  <2>1. v11'[c] \in {"have", "second"}
    BY <1>16, <1>u DEF Files!Insert, Files!Goto
  <2> QED BY <1>5, <1>6, <1>16, <2>1
<1>17. ASSUME Files!Grow \/ Files!Modify
      PROVE  Kept
  <2>1. /\ UNCHANGED <<v1, v2, v3, v4, v5, v6, v7, v9, v10, v11, v12, v13, v14, v17, v18>>
        /\ v8' \subseteq 1 .. v3
    BY <1>17, <1>t DEF Files!Grow, Files!Modify
  <2> QED BY <2>1, FilesSame
<1> QED BY <1>3, <1>7, <1>8, <1>9, <1>10, <1>11, <1>12, <1>13, <1>14, <1>15, <1>16, <1>17
    DEF Files!Next, Files!CallStep

(* The whole invariant. *)
LEMMA FilesInv == ASSUME Files!Inv, Files!Next PROVE Files!Inv'
<1>1. Files!ReadersAreCounted
  BY DEF Files!Inv, Files!ReadFilesAreOpen
<1>2. /\ Files!TypeOK' /\ Files!CallsHaveFiles' /\ Files!NewFilesAreOwn'
      /\ Files!HeldFilesAreKept' /\ Files!ReadersAreCounted'
      /\ Files!BigFilesAreCounted' /\ Files!FilesAreClosed'
  BY <1>1, FilesStep DEF Files!Inv
<1>3. Files!ReadFilesAreOpen'
  BY <1>2, FilesOpen, PTL
<1> QED BY <1>2, <1>3 DEF Files!Inv

LEMMA FilesStutter == ASSUME Files!Inv, UNCHANGED Files!vars PROVE Files!Inv'
<1>1. /\ UNCHANGED <<v1, v2, v3, v4, v5, v6, v7, v9, v10, v11, v12, v13, v14, v17, v18>>
      /\ v8' \subseteq 1 .. v3 /\ Files!ReadersAreCounted
  BY DEF Files!vars, Files!caches, Files!cleaning, Files!call, Files!system, Files!Inv,
     Files!TypeOK, Files!Made, Files!ReadFilesAreOpen
<1>2. /\ Files!TypeOK' /\ Files!CallsHaveFiles' /\ Files!NewFilesAreOwn'
      /\ Files!HeldFilesAreKept' /\ Files!ReadersAreCounted'
      /\ Files!BigFilesAreCounted' /\ Files!FilesAreClosed'
  BY <1>1, FilesSame DEF Files!Inv
<1>3. Files!ReadFilesAreOpen'
  BY <1>2, FilesOpen, PTL
<1> QED BY <1>2, <1>3 DEF Files!Inv

-----------------------------------------------------------------------------
(* The listing in Redis (Discovery)                                        *)

LEMMA ListingInit == ASSUME Listing!Init PROVE Listing!Inv
<1> USE ListingAssumption DEF Listing!Init
<1>1. Listing!FlagsOK
  BY DEF Listing!FlagsOK
<1> QED BY <1>1 DEF Listing!Inv, Listing!TypeOK, Listing!LoopFollowsMain,
               Listing!KeysOutliveTicks, Listing!KeysEnd, Listing!Running

LEMMA ListingFlags == ASSUME Listing!FlagsOK, Listing!Next PROVE Listing!FlagsOK'
<1> USE DEF Listing!FlagsOK
<1> QED BY DEF Listing!Next, Listing!JoinHost, Listing!StartLoop, Listing!TakeTick,
    Listing!Refresh, Listing!TakeClose, Listing!Delete, Listing!Leave, Listing!CloseClient,
    Listing!Exit, Listing!Crash, Listing!Second

LEMMA ListingStep == ASSUME Listing!Inv, Listing!Next PROVE Listing!Inv'
<1>0. Listing!FlagsOK'
  BY ListingFlags DEF Listing!Inv, Listing!TypeOK
<1> USE <1>0, ListingAssumption
    DEF Listing!Inv, Listing!TypeOK, Listing!LoopFollowsMain, Listing!KeysOutliveTicks,
        Listing!KeysEnd, Listing!Running
<1>1. CASE Listing!JoinHost
  BY <1>1 DEF Listing!JoinHost, Listing!Set, Listing!Fails, Listing!Failed
<1>2. CASE Listing!StartLoop
  BY <1>2 DEF Listing!StartLoop, Listing!Period
<1>3. CASE Listing!TakeTick
  BY <1>3 DEF Listing!TakeTick
<1>4. CASE Listing!Refresh
  BY <1>4 DEF Listing!Refresh, Listing!Set, Listing!Fails, Listing!Failed
<1>5. CASE Listing!TakeClose
  BY <1>5 DEF Listing!TakeClose
<1>6. CASE Listing!Delete
  BY <1>6 DEF Listing!Delete, Listing!Fails, Listing!Failed
<1>7. CASE Listing!Leave
  BY <1>7 DEF Listing!Leave
<1>9. CASE Listing!CloseClient
  BY <1>9 DEF Listing!CloseClient
<1>10. CASE Listing!Exit
  BY <1>10 DEF Listing!Exit
<1>11. CASE Listing!Crash
  BY <1>11 DEF Listing!Crash
<1>8. CASE Listing!Second
  BY <1>8 DEF Listing!Second, Listing!Period
<1> QED BY <1>1, <1>2, <1>3, <1>4, <1>5, <1>6, <1>7, <1>8, <1>9, <1>10, <1>11
   DEF Listing!Next

LEMMA ListingStutter == ASSUME Listing!Inv, UNCHANGED Listing!vars PROVE Listing!Inv'
  BY DEF Listing!vars, Listing!Inv, Listing!TypeOK, Listing!FlagsOK, Listing!LoopFollowsMain,
         Listing!KeysOutliveTicks, Listing!KeysEnd, Listing!Running

LEMMA ListingTrue ==
  ASSUME Listing!Inv PROVE Listing!StaysListed /\ Listing!LeavesTheList
  BY ListingAssumption
  DEF Listing!Inv, Listing!TypeOK, Listing!KeysOutliveTicks, Listing!KeysEnd,
      Listing!StaysListed, Listing!LeavesTheList

-----------------------------------------------------------------------------
(* Bodies (Body)                                                           *)

(* Of one message: its kind, its places, what is left of its stream, what  *)
(* is expected, and whether its form was read from the stream.             *)
Fits(k, x, l, e, d) ==
  /\ x.stream # Nobody => x.raw = Nobody
  /\ x.stream # Nobody \/ x.raw # Nobody => Contents!Content(x.body) = <<>>
  /\ x.raw # Nobody /\ x.form # Nobody => x.form = x.raw
  /\ d <=> x.stream # Nobody /\ x.form # Nobody
  /\ d => l = <<>>
  /\ k = "response" => x.form = Nobody
  /\ e = IF x.raw # Nobody THEN x.raw
         ELSE IF x.stream # Nobody /\ x.form = Nobody THEN l
         ELSE IF x.form # Nobody /\ Contents!Content(x.body) = <<>> THEN x.form
         ELSE Contents!Content(x.body)

Record == [body : Contents!Bodies \cup {Nobody}, raw : Contents!Bodies \cup {Nobody},
           stream : Streams \cup {Nobody}, form : Contents!Bodies \cup {Nobody}]

LEMMA BodySequences ==
  /\ Nobody \notin Contents!Bodies /\ <<>> \in Contents!Bodies
  /\ \A v \in Values \cup Streams : <<v>> \in Contents!Bodies
  /\ \A b \in Contents!Bodies, v \in Values : Append(b, v) \in Contents!Bodies
  /\ \A b \in Contents!Bodies, v \in Values : Append(b, v) # <<>>
  /\ \A v \in Values \cup Streams : <<v>> # <<>>
  /\ \A b \in Contents!Bodies \cup {Nobody} : Contents!Content(b) \in Contents!Bodies
  BY BodyAssumption DEF Contents!Bodies, Contents!Content

LEMMA BodyFits ==
  ASSUME Contents!TypeOK
  PROVE  /\ Contents!PlacesDiffer /\ Contents!BodyIsWhatWasSet
              => \A m \in Messages : Fits(v1, v3[m], Contents!Left(m), v6[m], m \in v7)
<1> SUFFICES ASSUME Contents!PlacesDiffer, Contents!BodyIsWhatWasSet, NEW m \in Messages
             PROVE  Fits(v1, v3[m], Contents!Left(m), v6[m], m \in v7)
  OBVIOUS
<1>1. v1 \in {"request", "response"} /\ v3[m] \in Record
  BY DEF Contents!TypeOK, Record
<1>2. Contents!Bytes(m) = v6[m]
  BY DEF Contents!BodyIsWhatWasSet
<1>3. /\ v3[m].stream # Nobody => v3[m].raw = Nobody
      /\ v3[m].stream # Nobody \/ v3[m].raw # Nobody => Contents!Content(v3[m].body) = <<>>
      /\ v3[m].raw # Nobody /\ v3[m].form # Nobody => v3[m].form = v3[m].raw
      /\ m \in v7 <=> v3[m].stream # Nobody /\ v3[m].form # Nobody
      /\ m \in v7 => Contents!Left(m) = <<>>
      /\ v1 = "response" => v3[m].form = Nobody
  BY DEF Contents!PlacesDiffer, Contents!Left
<1>4. v6[m] = IF v3[m].raw # Nobody THEN v3[m].raw
         ELSE IF v3[m].stream # Nobody /\ v3[m].form = Nobody THEN Contents!Left(m)
         ELSE IF v3[m].form # Nobody /\ Contents!Content(v3[m].body) = <<>> THEN v3[m].form
         ELSE Contents!Content(v3[m].body)
  BY <1>1, <1>2, <1>3 DEF Contents!Bytes, Contents!OnlyMultipartForm, Contents!Stored
<1> QED BY <1>3, <1>4 DEF Fits

LEMMA BodyFitsNext ==
  ASSUME Contents!TypeOK',
         \A m \in Messages : Fits(v1', v3'[m], Contents!Left(m)', v6'[m], m \in v7')
  PROVE  Contents!PlacesDiffer' /\ Contents!BodyIsWhatWasSet'
<1> SUFFICES ASSUME NEW m \in Messages
             PROVE  /\ v3'[m].stream # Nobody => v3'[m].raw = Nobody
                    /\ v3'[m].stream # Nobody \/ v3'[m].raw # Nobody
                         => Contents!Content(v3'[m].body) = <<>>
                    /\ v3'[m].raw # Nobody /\ v3'[m].form # Nobody => v3'[m].form = v3'[m].raw
                    /\ m \in v7' <=> v3'[m].stream # Nobody /\ v3'[m].form # Nobody
                    /\ m \in v7' => v4'[v3'[m].stream] = <<>>
                    /\ v1' = "response" => v3'[m].form = Nobody
                    /\ Contents!Bytes(m)' = v6'[m]
                    /\ m \in v7' \/ Contents!Written(m)' = v6'[m]
  BY DEF Contents!PlacesDiffer, Contents!BodyIsWhatWasSet
<1>0. Fits(v1', v3'[m], Contents!Left(m)', v6'[m], m \in v7')
  OBVIOUS
<1>1. v1' \in {"request", "response"} /\ v3'[m] \in Record
  BY DEF Contents!TypeOK, Record
<1>2. /\ v3'[m].stream # Nobody => v3'[m].raw = Nobody
      /\ v3'[m].stream # Nobody \/ v3'[m].raw # Nobody => Contents!Content(v3'[m].body) = <<>>
      /\ v3'[m].raw # Nobody /\ v3'[m].form # Nobody => v3'[m].form = v3'[m].raw
      /\ m \in v7' <=> v3'[m].stream # Nobody /\ v3'[m].form # Nobody
      /\ m \in v7' => v4'[v3'[m].stream] = <<>>
      /\ v1' = "response" => v3'[m].form = Nobody
  BY <1>0 DEF Fits, Contents!Left
<1>3. v6'[m] = IF v3'[m].raw # Nobody THEN v3'[m].raw
         ELSE IF v3'[m].stream # Nobody /\ v3'[m].form = Nobody THEN Contents!Left(m)'
         ELSE IF v3'[m].form # Nobody /\ Contents!Content(v3'[m].body) = <<>> THEN v3'[m].form
         ELSE Contents!Content(v3'[m].body)
  BY <1>0 DEF Fits
<1>4. Contents!Bytes(m)' = v6'[m]
  BY <1>1, <1>2, <1>3 DEF Contents!Bytes, Contents!OnlyMultipartForm, Contents!Stored
<1>5. m \in v7' \/ Contents!Written(m)' = v6'[m]
  BY <1>1, <1>2, <1>3 DEF Contents!Written, Contents!OnlyMultipartForm, Contents!Stored
<1> QED BY <1>2, <1>4, <1>5

LEMMA BodyInit == ASSUME Contents!Init PROVE Contents!Inv
<1> USE BodyAssumption DEF Contents!Init, Contents!NoBody
<1>1. Contents!TypeOK
  BY DEF Contents!TypeOK, Contents!Bodies
<1>2. \A m \in Messages : v3[m] = Contents!NoBody /\ v6[m] = <<>> /\ m \notin v7
  OBVIOUS
<1>3. Contents!PlacesDiffer
  BY <1>2 DEF Contents!PlacesDiffer
<1>4. Contents!BodyIsWhatWasSet
  BY <1>2 DEF Contents!BodyIsWhatWasSet, Contents!Bytes, Contents!Written, Contents!Content,
              Contents!OnlyMultipartForm, Contents!Stored
<1>5. Contents!StreamsAreClosed
  BY <1>2 DEF Contents!StreamsAreClosed
<1>6. Contents!NewStreamsAreWhole
  BY <1>2 DEF Contents!NewStreamsAreWhole
<1> QED BY <1>1, <1>3, <1>4, <1>5, <1>6 DEF Contents!Inv

(* Several fields of a message's record, one at a time. *)
LEMMA BodyField ==
  ASSUME NEW x, x \in Record
  PROVE  /\ \A c \in Contents!Bodies \cup {Nobody} :
              [x EXCEPT !.body = c]
                = [body |-> c, raw |-> x.raw, stream |-> x.stream, form |-> x.form]
         /\ \A c \in Contents!Bodies \cup {Nobody} :
              [x EXCEPT !.raw = c]
                = [body |-> x.body, raw |-> c, stream |-> x.stream, form |-> x.form]
         /\ \A c \in Streams \cup {Nobody} :
              [x EXCEPT !.stream = c]
                = [body |-> x.body, raw |-> x.raw, stream |-> c, form |-> x.form]
         /\ \A c \in Contents!Bodies \cup {Nobody} :
              [x EXCEPT !.form = c]
                = [body |-> x.body, raw |-> x.raw, stream |-> x.stream, form |-> c]
<1> DEFINE B == Contents!Bodies \cup {Nobody}  S == Streams \cup {Nobody}
<1>1. x \in [body : B, raw : B, stream : S, form : B]
  BY DEF Record
<1> HIDE DEF B, S
<1>2. ASSUME NEW c \in B
      PROVE  [x EXCEPT !.body = c]
               = [body |-> c, raw |-> x.raw, stream |-> x.stream, form |-> x.form]
  BY <1>1
<1>3. ASSUME NEW c \in B
      PROVE  [x EXCEPT !.raw = c]
               = [body |-> x.body, raw |-> c, stream |-> x.stream, form |-> x.form]
  BY <1>1
<1>4. ASSUME NEW c \in S
      PROVE  [x EXCEPT !.stream = c]
               = [body |-> x.body, raw |-> x.raw, stream |-> c, form |-> x.form]
  BY <1>1
<1>5. ASSUME NEW c \in B
      PROVE  [x EXCEPT !.form = c]
               = [body |-> x.body, raw |-> x.raw, stream |-> x.stream, form |-> c]
  BY <1>1
<1> QED BY <1>2, <1>3, <1>4, <1>5 DEF B, S

LEMMA BodyFields ==
  ASSUME NEW x, x \in Record, NEW b \in Contents!Bodies \cup {Nobody}
  PROVE  /\ \A c \in Contents!Bodies \cup {Nobody} :
              [x EXCEPT !.body = b, !.raw = c]
                = [body |-> b, raw |-> c, stream |-> x.stream, form |-> x.form]
         /\ \A c \in Streams \cup {Nobody} :
              [x EXCEPT !.body = b, !.stream = c]
                = [body |-> b, raw |-> x.raw, stream |-> c, form |-> x.form]
         /\ \A c \in Contents!Bodies \cup {Nobody} :
              [x EXCEPT !.body = b, !.form = c]
                = [body |-> b, raw |-> x.raw, stream |-> x.stream, form |-> c]
         /\ [x EXCEPT !.body = b, !.raw = Nobody, !.stream = Nobody]
                = [body |-> b, raw |-> Nobody, stream |-> Nobody, form |-> x.form]
<1> DEFINE B == Contents!Bodies \cup {Nobody}  S == Streams \cup {Nobody}
           y == [body |-> b, raw |-> x.raw, stream |-> x.stream, form |-> x.form]
<1>1. [x EXCEPT !.body = b] = y /\ x.raw \in B /\ x.stream \in S /\ x.form \in B
  BY BodyField DEF Record
<1>2. y \in Record /\ y.body = b /\ y.raw = x.raw /\ y.stream = x.stream /\ y.form = x.form
  BY <1>1 DEF Record
<1>3. x \in [body : B, raw : B, stream : S, form : B] /\ b \in B /\ Nobody \in B /\ Nobody \in S
  BY DEF Record
<1> HIDE DEF y
<1>4. /\ \A c \in B : [y EXCEPT !.raw = c]
                         = [body |-> b, raw |-> c, stream |-> x.stream, form |-> x.form]
      /\ \A c \in S : [y EXCEPT !.stream = c]
                         = [body |-> b, raw |-> x.raw, stream |-> c, form |-> x.form]
      /\ \A c \in B : [y EXCEPT !.form = c]
                         = [body |-> b, raw |-> x.raw, stream |-> x.stream, form |-> c]
  BY <1>2, BodyField
<1> HIDE DEF B, S
<1>5. ASSUME NEW c \in B
      PROVE  [x EXCEPT !.body = b, !.raw = c] = [[x EXCEPT !.body = b] EXCEPT !.raw = c]
  BY <1>3, SMT
<1>6. ASSUME NEW c \in S
      PROVE  [x EXCEPT !.body = b, !.stream = c] = [[x EXCEPT !.body = b] EXCEPT !.stream = c]
  BY <1>3, SMT
<1>7. ASSUME NEW c \in B
      PROVE  [x EXCEPT !.body = b, !.form = c] = [[x EXCEPT !.body = b] EXCEPT !.form = c]
  BY <1>3, SMT
<1>8. [x EXCEPT !.body = b, !.raw = Nobody, !.stream = Nobody]
        = [body |-> b, raw |-> Nobody, stream |-> Nobody, form |-> x.form]
  <2> DEFINE z == [x EXCEPT !.body = b, !.raw = Nobody]
  <2>1. z = [body |-> b, raw |-> Nobody, stream |-> x.stream, form |-> x.form]
    BY <1>1, <1>3, <1>4, <1>5
  <2>2. z \in Record /\ z.body = b /\ z.raw = Nobody /\ z.form = x.form
    BY <1>1, <1>3, <2>1 DEF Record, B, S
  <2>3. [x EXCEPT !.body = b, !.raw = Nobody, !.stream = Nobody] = [z EXCEPT !.stream = Nobody]
    BY <1>3, SMT
  <2> HIDE DEF z
  <2>4. [z EXCEPT !.stream = Nobody]
          = [body |-> z.body, raw |-> z.raw, stream |-> Nobody, form |-> z.form]
    BY <2>2, BodyField
  <2> QED BY <2>2, <2>3, <2>4
<1> QED BY <1>1, <1>4, <1>5, <1>6, <1>7, <1>8 DEF B, S

LEMMA BodyOfNone ==
  ASSUME NEW b \in Contents!Bodies \cup {Nobody}
  PROVE  /\ \A c \in Contents!Bodies \cup {Nobody} :
              [Contents!NoBody EXCEPT !.body = b, !.raw = c]
                = [body |-> b, raw |-> c, stream |-> Nobody, form |-> Nobody]
         /\ \A c \in Streams \cup {Nobody} :
              [Contents!NoBody EXCEPT !.body = b, !.stream = c]
                = [body |-> b, raw |-> Nobody, stream |-> c, form |-> Nobody]
         /\ \A c \in Contents!Bodies \cup {Nobody} :
              [Contents!NoBody EXCEPT !.body = b, !.form = c]
                = [body |-> b, raw |-> Nobody, stream |-> Nobody, form |-> c]
<1>1. PICK x : x = Contents!NoBody
  OBVIOUS
<1>2. x \in Record /\ x.raw = Nobody /\ x.stream = Nobody /\ x.form = Nobody
  BY <1>1 DEF Record, Contents!NoBody
<1>3. /\ \A c \in Contents!Bodies \cup {Nobody} :
           [x EXCEPT !.body = b, !.raw = c]
             = [body |-> b, raw |-> c, stream |-> x.stream, form |-> x.form]
      /\ \A c \in Streams \cup {Nobody} :
           [x EXCEPT !.body = b, !.stream = c]
             = [body |-> b, raw |-> x.raw, stream |-> c, form |-> x.form]
      /\ \A c \in Contents!Bodies \cup {Nobody} :
           [x EXCEPT !.body = b, !.form = c]
             = [body |-> b, raw |-> x.raw, stream |-> x.stream, form |-> c]
  BY ONLY <1>2, BodyFields, b \in Contents!Bodies \cup {Nobody}
<1> QED BY ONLY <1>1, <1>2, <1>3

(* What closing the stream of a message does. *)
LEMMA BodyClosed ==
  ASSUME Contents!TypeOK, NEW m \in Messages, Contents!CloseBodyStream({m})
  PROVE  /\ v4' \in [Streams -> Contents!Bodies]
         /\ v5' \in [Streams -> {"new", "open", "closed"}]
         /\ \A s \in Streams : s # v3[m].stream => v4'[s] = v4[s] /\ v5'[s] = v5[s]
         /\ v3[m].stream # Nobody => v5'[v3[m].stream] = "closed"
         /\ \A s \in Streams : v5'[s] = "new" => v5[s] = "new" /\ v4'[s] = v4[s]
<1>1. {v3[c].stream : c \in {m}} = {v3[m].stream}
  OBVIOUS
<1>2. /\ v5' = [s \in Streams |-> IF s \in {v3[m].stream} THEN "closed" ELSE v5[s]]
      /\ v4' = [s \in Streams |-> IF s \in {v3[m].stream} THEN <<>> ELSE v4[s]]
  BY <1>1 DEF Contents!CloseBodyStream
<1>3. v3[m].stream \in Streams \cup {Nobody} /\ v4 \in [Streams -> Contents!Bodies]
      /\ v5 \in [Streams -> {"new", "open", "closed"}]
  BY DEF Contents!TypeOK
<1> QED BY ONLY <1>2, <1>3, BodySequences

(* A message gets a body that is no stream, whose stream is closed. *)
LEMMA BodyReplaced ==
  ASSUME Contents!Inv, NEW m \in Messages, Contents!CloseBodyStream({m}),
         UNCHANGED <<v1, v2>>, v7' = v7 \ {m},
         NEW b \in Contents!Bodies \cup {Nobody}, NEW r \in Contents!Bodies \cup {Nobody},
         NEW f \in Contents!Bodies \cup {Nobody}, NEW e \in Contents!Bodies,
         v3' = [v3 EXCEPT ![m] = [body |-> b, raw |-> r, stream |-> Nobody, form |-> f]],
         v6' = [v6 EXCEPT ![m] = e],
         r # Nobody => Contents!Content(b) = <<>>,
         r # Nobody /\ f # Nobody => f = r,
         v1 = "response" => f = Nobody,
         e = IF r # Nobody THEN r
             ELSE IF f # Nobody /\ Contents!Content(b) = <<>> THEN f ELSE Contents!Content(b)
  PROVE  Contents!Inv'
<1> DEFINE x == [body |-> b, raw |-> r, stream |-> Nobody, form |-> f]
<1>0. Contents!TypeOK /\ Contents!StreamsAreClosed
      /\ \A d \in Messages : Fits(v1, v3[d], Contents!Left(d), v6[d], d \in v7)
  BY BodyFits DEF Contents!Inv
<1>1. /\ v4' \in [Streams -> Contents!Bodies]
      /\ v5' \in [Streams -> {"new", "open", "closed"}]
      /\ \A s \in Streams : s # v3[m].stream => v4'[s] = v4[s] /\ v5'[s] = v5[s]
      /\ v3[m].stream # Nobody => v5'[v3[m].stream] = "closed"
  BY <1>0, BodyClosed
<1>2. /\ v3 \in [Messages -> Record] /\ v6 \in [Messages -> Contents!Bodies]
      /\ v7 \subseteq Messages /\ v1 \in {"request", "response"} /\ v2 \in BOOLEAN
  BY <1>0 DEF Contents!TypeOK, Record
<1>3. x \in Record
  BY DEF Record
<1>4. /\ v3' \in [Messages -> Record] /\ v3'[m] = x
      /\ \A d \in Messages \ {m} : v3'[d] = v3[d]
  BY <1>2, <1>3
<1>5. /\ v6' \in [Messages -> Contents!Bodies] /\ v6'[m] = e
      /\ \A d \in Messages \ {m} : v6'[d] = v6[d]
  BY <1>2
<1>6. Contents!TypeOK'
  BY <1>1, <1>2, <1>4, <1>5 DEF Contents!TypeOK, Record
<1>7. ASSUME NEW d \in Messages, d # m
      PROVE  Fits(v1', v3'[d], Contents!Left(d)', v6'[d], d \in v7')
  <2>1. v3'[d] = v3[d] /\ v6'[d] = v6[d] /\ v1' = v1 /\ (d \in v7' <=> d \in v7)
    BY <1>4, <1>5, <1>7
  <2>2. v3[d].stream # Nobody => v3[d].stream \in Streams /\ v3[d].stream # v3[m].stream
    BY <1>0, <1>2, <1>7 DEF Contents!StreamsAreClosed, Record
  <2>3. Contents!Left(d)' = Contents!Left(d)
    BY <1>1, <2>1, <2>2 DEF Contents!Left
  <2> QED BY <1>0, <2>1, <2>3 DEF Fits
<1>8. Fits(v1', v3'[m], Contents!Left(m)', v6'[m], m \in v7')
  <2>1. x.body = b /\ x.raw = r /\ x.stream = Nobody /\ x.form = f
    OBVIOUS
  <2>2. m \notin v7'
    OBVIOUS
  <2> HIDE DEF x
  <2> QED BY <1>4, <1>5, <2>1, <2>2 DEF Fits
<1>9. Contents!StreamsAreClosed'
  <2> HIDE DEF x
  <2>1. x.stream = Nobody
    BY DEF x
  <2>2. \A s \in Streams : v5'[s] = "open" <=> \E d \in Messages : v3'[d].stream = s
    <3> SUFFICES ASSUME NEW s \in Streams
                 PROVE  v5'[s] = "open" <=> \E d \in Messages : v3'[d].stream = s
      OBVIOUS
    <3>1. v5[s] = "open" <=> \E d \in Messages : v3[d].stream = s
      BY <1>0 DEF Contents!StreamsAreClosed
    <3>2. s # Nobody
      BY BodyAssumption
    <3>3. CASE s = v3[m].stream
      <4>1. \A d \in Messages \ {m} : v3[d].stream # s
        BY <1>0, <3>2, <3>3 DEF Contents!StreamsAreClosed
      <4> QED BY <1>1, <1>4, <2>1, <3>2, <3>3, <4>1
    <3>4. CASE s # v3[m].stream
      BY <1>1, <1>4, <2>1, <3>1, <3>2, <3>4
    <3> QED BY <3>3, <3>4
  <2>3. \A c, d \in Messages : c # d /\ v3'[c].stream # Nobody => v3'[c].stream # v3'[d].stream
    BY <1>0, <1>4, <2>1 DEF Contents!StreamsAreClosed
  <2> QED BY <2>2, <2>3 DEF Contents!StreamsAreClosed
<1>10. Contents!PlacesDiffer' /\ Contents!BodyIsWhatWasSet'
  BY <1>6, <1>7, <1>8, BodyFitsNext
<1>11. Contents!NewStreamsAreWhole'
  BY <1>0, BodyClosed DEF Contents!NewStreamsAreWhole, Contents!Inv
<1> QED BY <1>6, <1>9, <1>10, <1>11 DEF Contents!Inv

(* The steps that give one message another body. *)
LEMMA BodyGiven ==
  ASSUME Contents!Inv, NEW m \in Messages,
         \/ \E v \in Values : \/ Contents!SetBody(m, v) \/ Contents!SetBodyRaw(m, v)
                              \/ Contents!AppendBody(m, v) \/ Contents!SwapBody(m, v)
                              \/ Contents!ReadForm(m, v)
         \/ Contents!ResetBody(m) \/ Contents!ReadBody(m) \/ Contents!WriteStream(m)
         \/ \E d \in Messages : Contents!CopyTo(d, m)
  PROVE  Contents!Inv'
<1> USE DEF Contents!Expect
<1>0. /\ Contents!TypeOK
      /\ \A d \in Messages : Fits(v1, v3[d], Contents!Left(d), v6[d], d \in v7)
  BY BodyFits DEF Contents!Inv
<1>1. /\ v3 \in [Messages -> Record] /\ v6 \in [Messages -> Contents!Bodies]
      /\ v4 \in [Streams -> Contents!Bodies]
  BY <1>0 DEF Contents!TypeOK, Record
<1>2. /\ Contents!Emptied(m) \in Contents!Bodies \cup {Nobody}
      /\ Contents!Content(Contents!Emptied(m)) = <<>> /\ Contents!Content(Nobody) = <<>>
  BY BodySequences DEF Contents!Emptied, Contents!Content
<1>3. ASSUME NEW b \in Contents!Bodies \cup {Nobody}, NEW r \in Contents!Bodies \cup {Nobody},
             Contents!Store(m, b, r), NEW e \in Contents!Bodies, v6' = [v6 EXCEPT ![m] = e],
             r # Nobody => Contents!Content(b) = <<>>,
             e = IF r # Nobody THEN r ELSE Contents!Content(b)
      PROVE  Contents!Inv'
  <2>1. /\ v3' = [v3 EXCEPT ![m] = [Contents!NoBody EXCEPT !.body = b, !.raw = r]]
        /\ Contents!CloseBodyStream({m}) /\ v7' = v7 \ {m} /\ UNCHANGED <<v1, v2>>
    BY <1>3 DEF Contents!Store, Contents!config
  <2>2. v3' = [v3 EXCEPT ![m] = [body |-> b, raw |-> r, stream |-> Nobody, form |-> Nobody]]
    BY <2>1, BodyOfNone
  <2> QED BY <1>3, <2>1, <2>2, BodyReplaced
<1>4. ASSUME NEW v \in Values, Contents!SetBody(m, v) PROVE Contents!Inv'
  <2>1. <<v>> \in Contents!Bodies /\ <<v>> # Nobody /\ Contents!Content(<<v>>) = <<v>>
    BY BodySequences DEF Contents!Content
  <2>2. Contents!Store(m, <<v>>, Nobody) /\ v6' = [v6 EXCEPT ![m] = <<v>>]
    BY <1>4 DEF Contents!SetBody
  <2> QED BY <1>3, <2>1, <2>2
<1>5. ASSUME NEW v \in Values, Contents!SetBodyRaw(m, v) PROVE Contents!Inv'
  <2>1. <<v>> \in Contents!Bodies
    BY BodySequences
  <2>2. Contents!Store(m, Contents!Emptied(m), <<v>>) /\ v6' = [v6 EXCEPT ![m] = <<v>>]
    BY <1>5 DEF Contents!SetBodyRaw
  <2>3. <<v>> # Nobody
    BY <2>1, BodySequences
  <2> QED BY <1>2, <1>3, <2>1, <2>2, <2>3
<1>6. ASSUME Contents!ResetBody(m) PROVE Contents!Inv'
  <2>1. PICK b \in {Contents!Emptied(m), Nobody} : Contents!Store(m, b, Nobody)
    BY <1>6 DEF Contents!ResetBody
  <2>2. v6' = [v6 EXCEPT ![m] = <<>>] /\ <<>> \in Contents!Bodies
    BY <1>6, BodySequences DEF Contents!ResetBody
  <2>3. Contents!Content(b) = <<>> /\ b \in Contents!Bodies \cup {Nobody}
    BY <1>2, <2>1
  <2> QED BY <1>3, <2>1, <2>2, <2>3
<1>7. ASSUME NEW v \in Values, Contents!AppendBody(m, v) PROVE Contents!Inv'
  <2> DEFINE b == Append(Contents!Content(v3[m].body), v)
  <2>1. Contents!Content(v3[m].body) \in Contents!Bodies
    BY <1>1, BodySequences DEF Record
  <2>2. b \in Contents!Bodies /\ b # Nobody /\ Contents!Content(b) = b
    BY <2>1, BodySequences DEF Contents!Content
  <2>3. /\ Contents!Store(m, b, Nobody) /\ v3[m].form = Nobody
        /\ v6' = [v6 EXCEPT ![m] = IF v3[m].raw # Nobody \/ v3[m].stream # Nobody
                                   THEN <<v>> ELSE Append(v6[m], v)]
    BY <1>7 DEF Contents!AppendBody
  <2>4. CASE v3[m].raw # Nobody \/ v3[m].stream # Nobody
    <3>1. Contents!Content(v3[m].body) = <<>>
      BY <1>0, <2>4 DEF Fits
    <3>2. b = <<v>>
      BY <3>1
    <3> QED BY <1>3, <2>2, <2>3, <2>4, <3>2
  <2>5. CASE v3[m].raw = Nobody /\ v3[m].stream = Nobody
    <3>1. v6[m] = Contents!Content(v3[m].body)
      BY <1>0, <2>3, <2>5 DEF Fits
    <3>2. v6' = [v6 EXCEPT ![m] = b]
      BY <2>3, <2>5, <3>1
    <3> HIDE DEF b
    <3> QED BY <1>3, <2>2, <2>3, <3>2
  <2> QED BY <2>4, <2>5
<1>8. ASSUME NEW v \in Values, Contents!SwapBody(m, v) PROVE Contents!Inv'
  <2>1. /\ <<v>> \in Contents!Bodies /\ <<v>> # Nobody /\ <<v>> # <<>>
        /\ Contents!Content(<<v>>) = <<v>>
    BY BodySequences DEF Contents!Content
  <2>2. /\ v3' = [v3 EXCEPT ![m] = [v3[m] EXCEPT !.body = <<v>>, !.raw = Nobody,
                                                 !.stream = Nobody]]
        /\ Contents!CloseBodyStream({m}) /\ v7' = v7 \ {m} /\ UNCHANGED <<v1, v2>>
        /\ v6' = [v6 EXCEPT ![m] = <<v>>]
    BY <1>8 DEF Contents!SwapBody, Contents!config
  <2>3. v3[m].form \in Contents!Bodies \cup {Nobody} /\ (v1 = "response" => v3[m].form = Nobody)
    BY <1>0, <1>1 DEF Record, Fits
  <2>4. v3[m] \in Record
    BY <1>1
  <2>5. [v3[m] EXCEPT !.body = <<v>>, !.raw = Nobody, !.stream = Nobody]
          = [body |-> <<v>>, raw |-> Nobody, stream |-> Nobody, form |-> v3[m].form]
    BY <2>1, <2>4, BodyFields
  <2>6. v3' = [v3 EXCEPT ![m] = [body |-> <<v>>, raw |-> Nobody, stream |-> Nobody,
                                 form |-> v3[m].form]]
    BY <2>2, <2>5
  <2> QED BY <2>1, <2>2, <2>3, <2>6, BodyReplaced
<1>9. ASSUME NEW v \in Values, Contents!ReadForm(m, v) PROVE Contents!Inv'
  <2>1. <<v>> \in Contents!Bodies /\ <<v>> # Nobody
    BY BodySequences
  <2>2. /\ v3' = [v3 EXCEPT ![m] = [Contents!NoBody EXCEPT !.body = Contents!Emptied(m),
                                                           !.form = <<v>>]]
        /\ Contents!CloseBodyStream({m}) /\ v7' = v7 \ {m} /\ UNCHANGED <<v1, v2>>
        /\ v6' = [v6 EXCEPT ![m] = <<v>>] /\ v1 # "response"
    BY <1>9 DEF Contents!ReadForm, Contents!config
  <2>3. v3' = [v3 EXCEPT ![m] = [body |-> Contents!Emptied(m), raw |-> Nobody,
                                 stream |-> Nobody, form |-> <<v>>]]
    BY <1>2, <2>1, <2>2, BodyOfNone
  <2> QED BY <1>2, <2>1, <2>2, <2>3, BodyReplaced
<1>10. ASSUME Contents!ReadBody(m) PROVE Contents!Inv'
  <2> DEFINE l == Contents!Left(m)
  <2>1. /\ v3' = [v3 EXCEPT ![m].body = l, ![m].raw = Nobody, ![m].stream = Nobody]
        /\ Contents!CloseBodyStream({m}) /\ v7' = v7 \ {m} /\ UNCHANGED <<v1, v2, v6>>
        /\ v3[m].stream # Nobody
    BY <1>10 DEF Contents!ReadBody, Contents!config
  <2>2. v3[m].form = Nobody /\ v3[m].raw = Nobody
    <3>1. v3[m].raw = Nobody /\ Contents!Content(v3[m].body) = <<>>
      BY <1>0, <2>1 DEF Fits
    <3>2. v1 = "request" => v3[m].form = Nobody
      BY <1>10, <3>1 DEF Contents!ReadBody, Contents!OnlyMultipartForm
    <3>3. v1 = "response" => v3[m].form = Nobody
      BY <1>0 DEF Fits
    <3> QED BY <1>0, <3>1, <3>2, <3>3 DEF Contents!TypeOK
  <2>3. v6[m] = l /\ l \in Contents!Bodies /\ Contents!Content(l) = l
    <3>1. v6[m] = l
      BY <1>0, <2>1, <2>2 DEF Fits
    <3> QED BY <1>1, <3>1, BodySequences DEF Contents!Content
  <2>4. v3[m] \in Record
    BY <1>1
  <2> HIDE DEF l
  <2>5. v3' = [v3 EXCEPT ![m] = [body |-> l, raw |-> Nobody, stream |-> Nobody, form |-> Nobody]]
    <3>1. v3' = [v3 EXCEPT ![m] = [v3[m] EXCEPT !.body = l, !.raw = Nobody, !.stream = Nobody]]
      BY <2>1
    <3>2. [v3[m] EXCEPT !.body = l, !.raw = Nobody, !.stream = Nobody]
            = [body |-> l, raw |-> Nobody, stream |-> Nobody, form |-> Nobody]
      <4>1. [v3[m] EXCEPT !.body = l, !.raw = Nobody, !.stream = Nobody]
              = [body |-> l, raw |-> Nobody, stream |-> Nobody, form |-> v3[m].form]
        BY ONLY <2>3, <2>4, BodyFields
      <4> QED BY <2>2, <4>1
    <3> QED BY <3>1, <3>2
  <2>6. v6' = [v6 EXCEPT ![m] = l]
    BY <1>1, <2>1, <2>3
  <2>7. /\ Nobody \in Contents!Bodies \cup {Nobody} /\ l \in Contents!Bodies \cup {Nobody}
        /\ l = IF Nobody # Nobody THEN Nobody
               ELSE IF Nobody # Nobody /\ Contents!Content(l) = <<>> THEN Nobody
               ELSE Contents!Content(l)
    BY <2>3
  <2>8. Contents!CloseBodyStream({m}) /\ UNCHANGED <<v1, v2>> /\ v7' = v7 \ {m}
    BY <2>1
  <2> QED BY ONLY Contents!Inv, <2>3, <2>5, <2>6, <2>7, <2>8, BodyReplaced, m \in Messages
<1>11. ASSUME Contents!WriteStream(m) PROVE Contents!Inv'
  <2> DEFINE b == v3[m].body  f == v3[m].form  e == IF f # Nobody THEN f ELSE <<>>
  <2>1. /\ v3' = [v3 EXCEPT ![m].stream = Nobody]
        /\ Contents!CloseBodyStream({m}) /\ v7' = v7 \ {m} /\ UNCHANGED <<v1, v2>>
        /\ v6' = [v6 EXCEPT ![m] = IF Contents!OnlyMultipartForm(m) THEN f ELSE <<>>]
        /\ v3[m].stream # Nobody
    BY <1>11 DEF Contents!WriteStream, Contents!config
  <2>2. /\ v3[m].raw = Nobody /\ Contents!Content(b) = <<>> /\ v3[m] \in Record
        /\ v1 = "response" => f = Nobody
    BY <1>0, <1>1, <2>1 DEF Fits
  <2>3. v6' = [v6 EXCEPT ![m] = e]
    BY <2>1, <2>2 DEF Contents!OnlyMultipartForm
  <2>4. /\ b \in Contents!Bodies \cup {Nobody} /\ f \in Contents!Bodies \cup {Nobody}
        /\ e \in Contents!Bodies
    BY <2>2, BodySequences DEF Record
  <2>5. v3' = [v3 EXCEPT ![m] = [body |-> b, raw |-> Nobody, stream |-> Nobody, form |-> f]]
    <3>1. v3' = [v3 EXCEPT ![m] = [v3[m] EXCEPT !.stream = Nobody]]
      BY <2>1
    <3>2. [v3[m] EXCEPT !.stream = Nobody]
            = [body |-> b, raw |-> Nobody, stream |-> Nobody, form |-> f]
      BY <2>2, BodyField
    <3> QED BY <3>1, <3>2
  <2>6. e = IF f # Nobody /\ Contents!Content(b) = <<>> THEN f ELSE Contents!Content(b)
    BY <2>2
  <2>7. Contents!CloseBodyStream({m}) /\ UNCHANGED <<v1, v2>> /\ v7' = v7 \ {m}
    BY <2>1
  <2>8. v1 = "response" => f = Nobody
    BY <2>2
  <2> HIDE DEF b, f, e
  <2> QED
    BY ONLY Contents!Inv, <2>3, <2>4, <2>5, <2>6, <2>7, <2>8, BodyReplaced, m \in Messages
<1>12. ASSUME NEW d \in Messages, Contents!CopyTo(d, m) PROVE Contents!Inv'
  <2>1. PICK o \in {Contents!Emptied(m), Nobody} :
          v3' = [v3 EXCEPT ![m] = [Contents!NoBody EXCEPT
                   !.body = IF v3[d].raw # Nobody THEN (IF o = Nobody THEN Nobody ELSE <<>>)
                            ELSE IF v3[d].body # Nobody THEN v3[d].body ELSE o,
                   !.raw = v3[d].raw]]
    BY <1>12 DEF Contents!CopyTo
  <2> DEFINE b == IF v3[d].raw # Nobody THEN (IF o = Nobody THEN Nobody ELSE <<>>)
                  ELSE IF v3[d].body # Nobody THEN v3[d].body ELSE o
             r == v3[d].raw
             e == IF v3[d].stream # Nobody \/ (Contents!OnlyMultipartForm(d) /\ r = Nobody)
                  THEN <<>> ELSE v6[d]
  <2>2. /\ Contents!CloseBodyStream({m}) /\ v7' = v7 \ {m} /\ UNCHANGED <<v1, v2>>
        /\ v6' = [v6 EXCEPT ![m] = e]
    BY <1>12 DEF Contents!CopyTo, Contents!config
  <2>4. o \in Contents!Bodies \cup {Nobody} /\ Contents!Content(o) = <<>>
    BY <1>2, <2>1
  <2>5. v3[d] \in Record /\ v6[d] \in Contents!Bodies
    BY <1>1
  <2>6. /\ b \in Contents!Bodies \cup {Nobody} /\ r \in Contents!Bodies \cup {Nobody}
        /\ e \in Contents!Bodies
    BY <2>4, <2>5, BodySequences DEF Record
  <2>3. v3' = [v3 EXCEPT ![m] = [body |-> b, raw |-> r, stream |-> Nobody, form |-> Nobody]]
    BY <2>1, <2>6, BodyOfNone
  <2>7. r # Nobody => Contents!Content(b) = <<>>
    BY BodySequences DEF Contents!Content
  <2>8. e = IF r # Nobody THEN r ELSE Contents!Content(b)
    <3>1. CASE r # Nobody
      BY <1>0, <3>1 DEF Fits
    <3>2. CASE r = Nobody
      <4>1. Contents!Content(b) = Contents!Content(v3[d].body)
        BY <2>4, <3>2 DEF Contents!Content
      <4>2. e = Contents!Content(v3[d].body)
        BY <1>0, <3>2 DEF Fits, Contents!OnlyMultipartForm
      <4> QED BY <3>2, <4>1, <4>2
    <3> QED BY <3>1, <3>2
  <2> HIDE DEF b, r, e
  <2> QED BY <2>2, <2>3, <2>6, <2>7, <2>8, BodyReplaced
<1> QED BY <1>4, <1>5, <1>6, <1>7, <1>8, <1>9, <1>10, <1>11, <1>12

(* The steps that move or use the places of messages in another way: what  *)
(* is left to show is that each message fits and that streams are closed.  *)
LEMMA BodyKept ==
  ASSUME Contents!TypeOK', Contents!StreamsAreClosed', Contents!NewStreamsAreWhole',
         \A m \in Messages : Fits(v1', v3'[m], Contents!Left(m)', v6'[m], m \in v7')
  PROVE  Contents!Inv'
  BY BodyFitsNext DEF Contents!Inv

LEMMA BodyStreamSet ==
  ASSUME Contents!Inv, NEW m \in Messages, NEW s \in Streams, Contents!SetBodyStream(m, s)
  PROVE  Contents!Inv'
<1> DEFINE x == [body |-> Contents!Emptied(m), raw |-> Nobody, stream |-> s, form |-> Nobody]
<1>0. /\ Contents!TypeOK /\ Contents!StreamsAreClosed
      /\ \A d \in Messages : Fits(v1, v3[d], Contents!Left(d), v6[d], d \in v7)
  BY BodyFits DEF Contents!Inv
<1>1. /\ v3 \in [Messages -> Record] /\ v6 \in [Messages -> Contents!Bodies]
      /\ v4 \in [Streams -> Contents!Bodies] /\ v5 \in [Streams -> {"new", "open", "closed"}]
      /\ v7 \subseteq Messages /\ v1 \in {"request", "response"} /\ v2 \in BOOLEAN
  BY <1>0 DEF Contents!TypeOK, Record
<1>2. /\ Contents!Emptied(m) \in Contents!Bodies \cup {Nobody}
      /\ Contents!Content(Contents!Emptied(m)) = <<>>
  BY BodySequences DEF Contents!Emptied, Contents!Content
<1>3. x \in Record /\ x.raw = Nobody /\ x.stream = s /\ x.form = Nobody
      /\ Contents!Content(x.body) = <<>>
  BY <1>2 DEF Record
<1>4. v3' = [v3 EXCEPT ![m] = x]
  <2>1. v3' = [v3 EXCEPT ![m] = [Contents!NoBody EXCEPT !.body = Contents!Emptied(m),
                                                        !.stream = s]]
    BY DEF Contents!SetBodyStream
  <2> QED BY <1>2, <2>1, BodyOfNone
<1>5. /\ v5[s] = "new" /\ v1' = v1 /\ v2' = v2 /\ v7' = v7 \ {m}
      /\ v5' = [t \in Streams |-> IF t = s THEN "open"
                                  ELSE IF t = v3[m].stream THEN "closed" ELSE v5[t]]
      /\ v4' = [t \in Streams |-> IF t = v3[m].stream THEN <<>> ELSE v4[t]]
      /\ v6' = [v6 EXCEPT ![m] = <<s>>]
  BY DEF Contents!SetBodyStream, Contents!config, Contents!Expect
<1> HIDE DEF x
<1>6. /\ v3' \in [Messages -> Record] /\ v3'[m] = x
      /\ \A d \in Messages \ {m} : v3'[d] = v3[d]
  BY <1>1, <1>3, <1>4
<1>7. \A d \in Messages : v3[d].stream # s
  BY <1>0, <1>5 DEF Contents!StreamsAreClosed
<1>8. Contents!TypeOK'
  <2>1. v4' \in [Streams -> Contents!Bodies] /\ v5' \in [Streams -> {"new", "open", "closed"}]
    BY <1>1, <1>5, BodySequences
  <2>2. v6' \in [Messages -> Contents!Bodies]
    BY <1>1, <1>5, BodySequences
  <2> QED BY <1>1, <1>5, <1>6, <2>1, <2>2 DEF Contents!TypeOK, Record
<1>9. ASSUME NEW d \in Messages
      PROVE  Fits(v1', v3'[d], Contents!Left(d)', v6'[d], d \in v7')
  <2>1. CASE d = m
    <3>1. s # Nobody /\ v4'[s] = v4[s] /\ v6'[m] = <<s>> /\ m \notin v7'
      BY <1>1, <1>5, <1>7, BodyAssumption
    <3>2. v4[s] = <<s>>
      BY <1>5 DEF Contents!Inv, Contents!NewStreamsAreWhole
    <3>3. Contents!Left(m)' = <<s>>
      BY <1>3, <1>6, <3>1, <3>2 DEF Contents!Left
    <3> QED BY <1>3, <1>6, <2>1, <3>1, <3>3 DEF Fits
  <2>2. CASE d # m
    <3>1. v3'[d] = v3[d] /\ v6'[d] = v6[d] /\ v1' = v1 /\ (d \in v7' <=> d \in v7)
      BY <1>1, <1>5, <1>6, <2>2
    <3>2. v3[d].stream # Nobody => v3[d].stream \in Streams /\ v3[d].stream # v3[m].stream
      BY <1>0, <1>1, <2>2 DEF Contents!StreamsAreClosed, Record
    <3>3. Contents!Left(d)' = Contents!Left(d)
      BY <1>5, <3>1, <3>2 DEF Contents!Left
    <3> QED BY <1>0, <3>1, <3>3 DEF Fits
  <2> QED BY <2>1, <2>2
<1>10. Contents!StreamsAreClosed'
  <2>1. \A t \in Streams : v5'[t] = "open" <=> \E d \in Messages : v3'[d].stream = t
    <3> SUFFICES ASSUME NEW t \in Streams
                 PROVE  v5'[t] = "open" <=> \E d \in Messages : v3'[d].stream = t
      OBVIOUS
    <3>1. v5[t] = "open" <=> \E d \in Messages : v3[d].stream = t
      BY <1>0 DEF Contents!StreamsAreClosed
    <3>2. t # Nobody
      BY BodyAssumption
    <3>3. CASE t = s
      BY <1>3, <1>5, <1>6, <3>3
    <3>4. CASE t # s /\ t = v3[m].stream
      <4>1. \A d \in Messages \ {m} : v3[d].stream # t
        BY <1>0, <3>2, <3>4 DEF Contents!StreamsAreClosed
      <4> QED BY <1>3, <1>5, <1>6, <3>4, <4>1
    <3>5. CASE t # s /\ t # v3[m].stream
      <4>1. v5'[t] = v5[t]
        BY <1>5, <3>5
      <4> QED BY <1>3, <1>6, <3>1, <3>5, <4>1
    <3> QED BY <3>3, <3>4, <3>5
  <2>2. \A c, d \in Messages : c # d /\ v3'[c].stream # Nobody => v3'[c].stream # v3'[d].stream
    BY <1>0, <1>3, <1>6, <1>7 DEF Contents!StreamsAreClosed
  <2> QED BY <2>1, <2>2 DEF Contents!StreamsAreClosed
<1>11. Contents!NewStreamsAreWhole'
  <2> SUFFICES ASSUME NEW t \in Streams, v5'[t] = "new" PROVE v4'[t] = <<t>>
    BY DEF Contents!NewStreamsAreWhole
  <2>1. v5[t] = "new" /\ v4'[t] = v4[t]
    BY <1>5
  <2> QED BY <2>1 DEF Contents!Inv, Contents!NewStreamsAreWhole
<1> QED BY <1>8, <1>9, <1>10, <1>11, BodyKept

LEMMA BodyForm ==
  ASSUME Contents!Inv, NEW m \in Messages,
         Contents!MultipartForm(m) \/ Contents!RemoveMultipartFormFiles(m)
  PROVE  Contents!Inv'
<1>0. /\ Contents!TypeOK /\ Contents!StreamsAreClosed /\ Contents!NewStreamsAreWhole
      /\ \A d \in Messages : Fits(v1, v3[d], Contents!Left(d), v6[d], d \in v7)
  BY BodyFits DEF Contents!Inv
<1>1. /\ v3 \in [Messages -> Record] /\ v6 \in [Messages -> Contents!Bodies]
      /\ v4 \in [Streams -> Contents!Bodies] /\ v5 \in [Streams -> {"new", "open", "closed"}]
      /\ v7 \subseteq Messages /\ v1 \in {"request", "response"} /\ v2 \in BOOLEAN
  BY <1>0 DEF Contents!TypeOK, Record
<1> DEFINE x == v3[m]
           Changed(f) == [body |-> x.body, raw |-> x.raw, stream |-> x.stream, form |-> f]
<1>2. /\ x \in Record /\ x.body \in Contents!Bodies \cup {Nobody}
      /\ x.raw \in Contents!Bodies \cup {Nobody} /\ x.stream \in Streams \cup {Nobody}
  BY <1>1 DEF Record
<1>3. /\ Contents!Left(m) \in Contents!Bodies /\ Contents!Stored(m) \in Contents!Bodies
      /\ Nobody \notin Contents!Bodies
  BY <1>1, <1>2, BodySequences DEF Contents!Left, Contents!Stored
(* All but the message and its stream are as they were. *)
<1>4. ASSUME NEW f \in Contents!Bodies \cup {Nobody},
             v3' = [v3 EXCEPT ![m] = [v3[m] EXCEPT !.form = f]],
             UNCHANGED <<v1, v2, v5>>, v4' \in [Streams -> Contents!Bodies],
             \A s \in Streams : s # v3[m].stream => v4'[s] = v4[s],
             v6' \in [Messages -> Contents!Bodies], \A d \in Messages \ {m} : v6'[d] = v6[d],
             v7' \subseteq Messages, \A d \in Messages \ {m} : d \in v7' <=> d \in v7,
             Fits(v1, Changed(f), Contents!Left(m)', v6'[m], m \in v7')
      PROVE  Contents!Inv'
  <2>1. v3' = [v3 EXCEPT ![m] = Changed(f)] /\ Changed(f) \in Record
    <3>1. [v3[m] EXCEPT !.form = f] = Changed(f)
      BY <1>2, <1>4, BodyField
    <3>2. Changed(f) \in Record
      BY <1>2, <1>4 DEF Record
    <3> QED BY <1>4, <3>1, <3>2
  <2>2. Changed(f).stream = v3[m].stream
    OBVIOUS
  <2> DEFINE y == Changed(f)
  <2> HIDE DEF y
  <2>3. /\ v3' \in [Messages -> Record] /\ v3'[m] = y
        /\ \A d \in Messages \ {m} : v3'[d] = v3[d]
    BY <1>1, <2>1 DEF y
  <2>4. \A d \in Messages : v3'[d].stream = v3[d].stream
    BY <2>2, <2>3 DEF y
  <2>5. Contents!TypeOK'
    BY <1>1, <1>4, <2>3 DEF Contents!TypeOK, Record
  <2>6. Contents!StreamsAreClosed'
    BY <1>0, <1>4, <2>4 DEF Contents!StreamsAreClosed
  <2>7. Contents!NewStreamsAreWhole'
    <3> SUFFICES ASSUME NEW t \in Streams, v5'[t] = "new" PROVE v4'[t] = <<t>>
      BY DEF Contents!NewStreamsAreWhole
    <3>1. v5[t] = "new" /\ v4[t] = <<t>>
      BY <1>0, <1>4 DEF Contents!NewStreamsAreWhole
    <3>2. t # v3[m].stream
      BY <1>0, <3>1 DEF Contents!StreamsAreClosed
    <3> QED BY <1>4, <3>1, <3>2
  <2>8. ASSUME NEW d \in Messages
        PROVE  Fits(v1', v3'[d], Contents!Left(d)', v6'[d], d \in v7')
    <3>1. CASE d = m
      BY <1>4, <2>3, <3>1 DEF y
    <3>2. CASE d # m
      <4>1. v3'[d] = v3[d] /\ v6'[d] = v6[d] /\ v1' = v1 /\ (d \in v7' <=> d \in v7)
        BY <1>4, <2>3, <3>2
      <4>2. v3[d].stream # Nobody => v3[d].stream \in Streams /\ v3[d].stream # v3[m].stream
        BY <1>0, <1>1, <3>2 DEF Contents!StreamsAreClosed, Record
      <4>3. Contents!Left(d)' = Contents!Left(d)
        BY <1>4, <4>1, <4>2 DEF Contents!Left
      <4> QED BY <1>0, <4>1, <4>3 DEF Fits
    <3> QED BY <3>1, <3>2
  <2> QED BY <2>5, <2>6, <2>7, <2>8, BodyKept
<1> HIDE DEF x
<1>5. /\ x.stream # Nobody => x.raw = Nobody
      /\ x.stream # Nobody \/ x.raw # Nobody => Contents!Content(x.body) = <<>>
      /\ x.raw # Nobody /\ x.form # Nobody => x.form = x.raw
      /\ m \in v7 <=> x.stream # Nobody /\ x.form # Nobody
      /\ m \in v7 => Contents!Left(m) = <<>>
      /\ v1 = "response" => x.form = Nobody
      /\ v6[m] = IF x.raw # Nobody THEN x.raw
         ELSE IF x.stream # Nobody /\ x.form = Nobody THEN Contents!Left(m)
         ELSE IF x.form # Nobody /\ Contents!Content(x.body) = <<>> THEN x.form
         ELSE Contents!Content(x.body)
  BY <1>0 DEF Fits, x
<1>6. ASSUME Contents!MultipartForm(m), x.stream # Nobody PROVE Contents!Inv'
  <2>1. /\ v3' = [v3 EXCEPT ![m].form = Contents!Left(m)] /\ v4' = [v4 EXCEPT ![x.stream] = <<>>]
        /\ v7' = v7 \cup {m} /\ UNCHANGED <<v1, v2, v5, v6>> /\ v1 = "request"
        /\ x.form = Nobody
    BY <1>6 DEF Contents!MultipartForm, Contents!config, x
  <2>2. v3' = [v3 EXCEPT ![m] = [v3[m] EXCEPT !.form = Contents!Left(m)]]
    BY <2>1
  <2>3. /\ v4' \in [Streams -> Contents!Bodies] /\ v4'[x.stream] = <<>>
        /\ \A s \in Streams : s # x.stream => v4'[s] = v4[s]
    BY <1>1, <1>2, <1>6, <2>1, BodySequences
  <2>4. x.stream = v3'[m].stream
    <3>1. [v3[m] EXCEPT !.form = Contents!Left(m)] = Changed(Contents!Left(m))
      BY <1>2, <1>3, BodyField DEF x
    <3> QED BY <1>1, <2>2, <3>1
  <2>5. Contents!Left(m)' = <<>>
    BY <1>6, <2>3, <2>4 DEF Contents!Left
  <2>6. Fits(v1, Changed(Contents!Left(m)), Contents!Left(m)', v6'[m], m \in v7')
    BY <1>3, <1>5, <1>6, <2>1, <2>5 DEF Fits
  <2> HIDE DEF Changed
  <2> QED BY <1>1, <1>3, <1>4, <2>1, <2>2, <2>3, <2>6 DEF x
<1>7. ASSUME Contents!MultipartForm(m), x.stream = Nobody PROVE Contents!Inv'
  <2>1. /\ v3' = [v3 EXCEPT ![m].form = Contents!Stored(m)]
        /\ UNCHANGED <<v1, v2, v4, v5, v6, v7>> /\ v1 = "request"
        /\ x.form = Nobody /\ Contents!Stored(m) # <<>>
    BY <1>7 DEF Contents!MultipartForm, Contents!config, Contents!streams, x
  <2>2. v3' = [v3 EXCEPT ![m] = [v3[m] EXCEPT !.form = Contents!Stored(m)]]
    BY <2>1
  <2>3. Contents!Stored(m) = IF x.raw # Nobody THEN x.raw ELSE Contents!Content(x.body)
    BY DEF Contents!Stored, x
  <2>4. Fits(v1, Changed(Contents!Stored(m)), Contents!Left(m)', v6'[m], m \in v7')
    BY <1>3, <1>5, <1>7, <2>1, <2>3 DEF Fits
  <2> HIDE DEF Changed
  <2> QED BY <1>1, <1>3, <1>4, <2>1, <2>2, <2>4
<1>8. ASSUME Contents!RemoveMultipartFormFiles(m) PROVE Contents!Inv'
  <2> DEFINE e == IF Contents!Content(x.body) = <<>> /\ x.raw = Nobody THEN <<>> ELSE v6[m]
  <2>1. /\ v3' = [v3 EXCEPT ![m].form = Nobody] /\ v7' = v7 \ {m}
        /\ UNCHANGED <<v1, v2, v4, v5>> /\ v6' = [v6 EXCEPT ![m] = e] /\ x.form # Nobody
    BY <1>8
       DEF Contents!RemoveMultipartFormFiles, Contents!config, Contents!streams,
       Contents!Expect, Contents!OnlyMultipartForm, x
  <2>2. v3' = [v3 EXCEPT ![m] = [v3[m] EXCEPT !.form = Nobody]]
    BY <2>1
  <2>3. /\ v6' \in [Messages -> Contents!Bodies] /\ v6'[m] = e
        /\ \A d \in Messages \ {m} : v6'[d] = v6[d]
    BY <1>1, <2>1, BodySequences
  <2>4. Contents!Left(m)' = Contents!Left(m)
    <3>1. [v3[m] EXCEPT !.form = Nobody] = Changed(Nobody)
      BY <1>2, BodyField DEF x
    <3>2. v3'[m].stream = x.stream
      BY <1>1, <2>2, <3>1
    <3> QED BY <2>1, <3>2 DEF Contents!Left, x
  <2>5. Fits(v1, Changed(Nobody), Contents!Left(m)', v6'[m], m \in v7')
    BY <1>3, <1>5, <2>1, <2>3, <2>4 DEF Fits
  <2> HIDE DEF Changed, e
  <2> QED BY <1>1, <1>4, <2>1, <2>2, <2>3, <2>5
<1> QED BY <1>6, <1>7, <1>8

LEMMA BodySwapped ==
  ASSUME Contents!Inv, NEW m \in Messages, NEW d \in Messages, Contents!Swap(m, d)
  PROVE  Contents!Inv'
<1>0. /\ Contents!TypeOK /\ Contents!StreamsAreClosed /\ Contents!NewStreamsAreWhole
      /\ \A c \in Messages : Fits(v1, v3[c], Contents!Left(c), v6[c], c \in v7)
  BY BodyFits DEF Contents!Inv
<1>1. /\ v3 \in [Messages -> Record] /\ v6 \in [Messages -> Contents!Bodies]
      /\ v4 \in [Streams -> Contents!Bodies] /\ v5 \in [Streams -> {"new", "open", "closed"}]
      /\ v7 \subseteq Messages /\ v1 \in {"request", "response"} /\ v2 \in BOOLEAN
  BY <1>0 DEF Contents!TypeOK, Record
<1> DEFINE x == v3[m]
           e == IF x.stream # Nobody THEN Contents!Left(m)
                ELSE IF Contents!OnlyMultipartForm(m) /\ x.raw = Nobody THEN <<>> ELSE v6[m]
<1>2. PICK o \in {Contents!Emptied(d), Nobody} :
        v3' = [v3 EXCEPT ![d] = [v3[m] EXCEPT !.form = Nobody],
                         ![m] = [Contents!NoBody EXCEPT !.body = o, !.form = v3[m].form]]
  BY DEF Contents!Swap
<1>3. /\ m # d /\ Contents!CloseBodyStream({d}) /\ v7' = v7 \ {m, d} /\ UNCHANGED <<v1, v2>>
      /\ v6' = [v6 EXCEPT ![d] = e, ![m] = Contents!Content(x.form)]
  BY DEF Contents!Swap, Contents!config
<1> HIDE DEF x, e
<1>4. /\ x \in Record /\ x.body \in Contents!Bodies \cup {Nobody}
      /\ x.raw \in Contents!Bodies \cup {Nobody} /\ x.stream \in Streams \cup {Nobody}
      /\ x.form \in Contents!Bodies \cup {Nobody}
  BY <1>1 DEF Record, x
<1>5. o \in Contents!Bodies \cup {Nobody} /\ Contents!Content(o) = <<>>
  BY <1>2, BodySequences DEF Contents!Emptied, Contents!Content
<1> DEFINE y == [body |-> x.body, raw |-> x.raw, stream |-> x.stream, form |-> Nobody]
           z == [body |-> o, raw |-> Nobody, stream |-> Nobody, form |-> x.form]
<1>6. v3' = [v3 EXCEPT ![d] = y, ![m] = z] /\ y \in Record /\ z \in Record
  <2>1. [v3[m] EXCEPT !.form = Nobody] = y
    BY <1>4, BodyField DEF x
  <2>2. [Contents!NoBody EXCEPT !.body = o, !.form = v3[m].form] = z
    BY <1>4, <1>5, BodyOfNone DEF x
  <2>3. y \in Record /\ z \in Record
    BY <1>4, <1>5 DEF Record
  <2> HIDE DEF y, z
  <2> QED BY <1>2, <2>1, <2>2, <2>3
<1>7. /\ y.body = x.body /\ y.raw = x.raw /\ y.stream = x.stream /\ y.form = Nobody
      /\ z.body = o /\ z.raw = Nobody /\ z.stream = Nobody /\ z.form = x.form
  OBVIOUS
<1> HIDE DEF y, z
<1>8. /\ v3' \in [Messages -> Record] /\ v3'[d] = y /\ v3'[m] = z
      /\ \A c \in Messages \ {d, m} : v3'[c] = v3[c]
  BY <1>1, <1>3, <1>6
<1>9. /\ v4' \in [Streams -> Contents!Bodies]
      /\ v5' \in [Streams -> {"new", "open", "closed"}]
      /\ \A s \in Streams : s # v3[d].stream => v4'[s] = v4[s] /\ v5'[s] = v5[s]
      /\ v3[d].stream # Nobody => v5'[v3[d].stream] = "closed"
      /\ \A s \in Streams : v5'[s] = "new" => v5[s] = "new" /\ v4'[s] = v4[s]
  BY <1>0, <1>3, BodyClosed
<1>10. e \in Contents!Bodies /\ Contents!Content(x.form) \in Contents!Bodies
  BY <1>1, <1>4, BodySequences DEF e, Contents!Left, x
<1>11. /\ v6' \in [Messages -> Contents!Bodies] /\ v6'[d] = e
       /\ v6'[m] = Contents!Content(x.form) /\ \A c \in Messages \ {d, m} : v6'[c] = v6[c]
  BY <1>1, <1>3, <1>10
<1>12. Contents!TypeOK'
  BY <1>1, <1>3, <1>8, <1>9, <1>11 DEF Contents!TypeOK, Record
<1>13. Contents!NewStreamsAreWhole'
  BY <1>0, <1>9 DEF Contents!NewStreamsAreWhole
<1>14. x.stream # Nobody => x.stream # v3[d].stream
  BY <1>0, <1>3 DEF Contents!StreamsAreClosed, x
<1>15. Contents!StreamsAreClosed'
  <2>1. \A s \in Streams : v5'[s] = "open" <=> \E c \in Messages : v3'[c].stream = s
    <3> SUFFICES ASSUME NEW s \in Streams
                 PROVE  v5'[s] = "open" <=> \E c \in Messages : v3'[c].stream = s
      OBVIOUS
    <3>1. v5[s] = "open" <=> \E c \in Messages : v3[c].stream = s
      BY <1>0 DEF Contents!StreamsAreClosed
    <3>2. s # Nobody
      BY BodyAssumption
    <3>3. CASE s = v3[d].stream
      <4>1. \A c \in Messages \ {d} : v3[c].stream # s
        BY <1>0, <3>2, <3>3 DEF Contents!StreamsAreClosed
      <4>2. x.stream # s
        BY <1>3, <4>1 DEF x
      <4> QED BY <1>7, <1>8, <1>9, <3>2, <3>3, <4>1, <4>2
    <3>4. CASE s # v3[d].stream
      <4>1. v5'[s] = v5[s]
        BY <1>9, <3>4
      <4>2. (\E c \in Messages : v3'[c].stream = s) <=> \E c \in Messages : v3[c].stream = s
        BY <1>3, <1>7, <1>8, <3>2, <3>4 DEF x
      <4> QED BY <3>1, <4>1, <4>2
    <3> QED BY <3>3, <3>4
  <2>2. ASSUME NEW a \in Messages, NEW c \in Messages, a # c, v3'[a].stream # Nobody
        PROVE  v3'[a].stream # v3'[c].stream
    BY <1>0, <1>3, <1>7, <1>8, <2>2 DEF Contents!StreamsAreClosed, x
  <2> QED BY <2>1, <2>2 DEF Contents!StreamsAreClosed
<1>16. /\ x.stream # Nobody => x.raw = Nobody
       /\ x.stream # Nobody \/ x.raw # Nobody => Contents!Content(x.body) = <<>>
       /\ v1 = "response" => x.form = Nobody
       /\ v6[m] = IF x.raw # Nobody THEN x.raw
          ELSE IF x.stream # Nobody /\ x.form = Nobody THEN Contents!Left(m)
          ELSE IF x.form # Nobody /\ Contents!Content(x.body) = <<>> THEN x.form
          ELSE Contents!Content(x.body)
  BY <1>0 DEF Fits, x
<1>17. ASSUME NEW c \in Messages
       PROVE  Fits(v1', v3'[c], Contents!Left(c)', v6'[c], c \in v7')
  <2>1. CASE c = d
    <3>1. x.stream # Nobody => Contents!Left(d)' = Contents!Left(m)
      BY <1>4, <1>7, <1>8, <1>9, <1>14 DEF Contents!Left, x
    <3>2. d \notin v7' /\ v1' = v1
      BY <1>3
    <3>3. e = IF x.raw # Nobody THEN x.raw
              ELSE IF x.stream # Nobody THEN Contents!Left(m) ELSE Contents!Content(x.body)
      BY <1>16 DEF e, Contents!OnlyMultipartForm, x
    <3> QED BY <1>7, <1>8, <1>11, <1>16, <2>1, <3>1, <3>2, <3>3 DEF Fits
  <2>2. CASE c = m
    <3>1. m \notin v7' /\ v1' = v1
      BY <1>3
    <3>2. Contents!Content(x.form) = IF x.form # Nobody THEN x.form ELSE <<>>
      BY DEF Contents!Content
    <3> QED BY <1>5, <1>7, <1>8, <1>11, <1>16, <2>2, <3>1, <3>2 DEF Fits
  <2>3. CASE c \in Messages \ {d, m}
    <3>1. v3'[c] = v3[c] /\ v6'[c] = v6[c] /\ v1' = v1 /\ (c \in v7' <=> c \in v7)
      BY <1>3, <1>8, <1>11, <2>3
    <3>2. v3[c].stream # Nobody => v3[c].stream \in Streams /\ v3[c].stream # v3[d].stream
      BY <1>0, <1>1, <2>3 DEF Contents!StreamsAreClosed, Record
    <3>3. Contents!Left(c)' = Contents!Left(c)
      BY <1>9, <3>1, <3>2 DEF Contents!Left
    <3> QED BY <1>0, <3>1, <3>3 DEF Fits
  <2> QED BY <2>1, <2>2, <2>3
<1> QED BY <1>12, <1>13, <1>15, <1>17, BodyKept

LEMMA BodyStep == Contents!Inv /\ Contents!Next => Contents!Inv'
<1> SUFFICES ASSUME Contents!Inv, Contents!Next PROVE Contents!Inv'
  OBVIOUS
<1> QED BY BodyGiven, BodyStreamSet, BodyForm, BodySwapped DEF Contents!Next

LEMMA BodyStutter == Contents!Inv /\ UNCHANGED Contents!vars => Contents!Inv'
<1> SUFFICES ASSUME Contents!Inv, UNCHANGED Contents!vars PROVE Contents!Inv'
  OBVIOUS
<1>1. UNCHANGED <<v1, v2, v3, v4, v5, v6, v7>>
  BY DEF Contents!vars, Contents!config, Contents!streams
<1>2. Contents!TypeOK' /\ Contents!StreamsAreClosed' /\ Contents!NewStreamsAreWhole'
  BY <1>1
     DEF Contents!Inv, Contents!TypeOK, Contents!StreamsAreClosed, Contents!NewStreamsAreWhole
<1>3. \A m \in Messages : Fits(v1', v3'[m], Contents!Left(m)', v6'[m], m \in v7')
  BY <1>1, BodyFits DEF Contents!Inv, Contents!Left
<1> QED BY <1>2, <1>3, BodyKept

-----------------------------------------------------------------------------
(* Pipelines (PipelineClient)                                              *)

LEMMA PipeSequences ==
  ASSUME NEW s \in Seq(Calls)
  PROVE  /\ \A c \in Calls : /\ Append(s, c) \in Seq(Calls)
                             /\ Pipeline!Range(Append(s, c)) = Pipeline!Range(s) \cup {c}
         /\ s # <<>> => /\ Head(s) \in Calls /\ Tail(s) \in Seq(Calls)
                        /\ Pipeline!Range(s) = Pipeline!Range(Tail(s)) \cup {Head(s)}
         /\ Pipeline!Range(s) \subseteq Calls
         /\ <<>> \in Seq(Calls) /\ Pipeline!Range(<<>>) = {}
<1> USE DEF Pipeline!Range
<1>1. DOMAIN s = 1 .. Len(s) /\ Len(s) \in Nat /\ \A i \in 1 .. Len(s) : s[i] \in Calls
  OBVIOUS
<1>2. ASSUME NEW c \in Calls
      PROVE  /\ Append(s, c) \in Seq(Calls)
             /\ Pipeline!Range(Append(s, c)) = Pipeline!Range(s) \cup {c}
  <2> DEFINE t == Append(s, c)
  <2>1. t \in Seq(Calls) /\ Len(t) = Len(s) + 1 /\ t[Len(s) + 1] = c
        /\ \A i \in 1 .. Len(s) : t[i] = s[i]
    BY AppendProperties
  <2>2. DOMAIN t = 1 .. Len(s) + 1
    BY <2>1
  <2> HIDE DEF t
  <2>3. \A i \in DOMAIN t : i \in DOMAIN s \/ i = Len(s) + 1
    BY <1>1, <2>2
  <2>4. \A i \in DOMAIN s : i \in DOMAIN t /\ t[i] = s[i]
    BY <1>1, <2>1, <2>2
  <2>5. Len(s) + 1 \in DOMAIN t
    BY <1>1, <2>2
  <2>6. \A x : x \in Pipeline!Range(t) <=> x \in Pipeline!Range(s) \cup {c}
    BY <2>1, <2>3, <2>4, <2>5
  <2> QED BY <2>1, <2>6 DEF t
<1>3. ASSUME s # <<>>
      PROVE  /\ Head(s) \in Calls /\ Tail(s) \in Seq(Calls)
             /\ Pipeline!Range(s) = Pipeline!Range(Tail(s)) \cup {Head(s)}
  <2> DEFINE t == Tail(s)
  <2>1. /\ Head(s) = s[1] /\ Head(s) \in Calls /\ t \in Seq(Calls) /\ Len(t) = Len(s) - 1
        /\ \A i \in 1 .. Len(t) : t[i] = s[i + 1]
    BY <1>3, HeadTailProperties
  <2>2. DOMAIN t = 1 .. Len(s) - 1 /\ 1 \in DOMAIN s
    BY <1>1, <1>3, <2>1, EmptySeq
  <2> HIDE DEF t
  <2>3. \A i \in DOMAIN t : i + 1 \in DOMAIN s /\ t[i] = s[i + 1]
    BY <1>1, <2>1, <2>2
  <2>4. \A i \in DOMAIN s : i = 1 \/ (i - 1 \in DOMAIN t /\ t[i - 1] = s[i])
    BY <1>1, <2>1, <2>2
  <2>5. Pipeline!Range(t) \subseteq Pipeline!Range(s) /\ Head(s) \in Pipeline!Range(s)
    BY <2>1, <2>2, <2>3
  <2>6. \A x \in Pipeline!Range(s) : x = Head(s) \/ x \in Pipeline!Range(t)
    BY <2>1, <2>4
  <2>7. Pipeline!Range(s) = Pipeline!Range(t) \cup {Head(s)}
    BY <2>5, <2>6
  <2> QED BY <2>1, <2>7 DEF t
<1>4. Pipeline!Range(s) \subseteq Calls
  BY <1>1
<1>5. <<>> \in Seq(Calls) /\ Pipeline!Range(<<>>) = {}
  OBVIOUS
<1> HIDE DEF Pipeline!Range
<1> QED BY <1>2, <1>3, <1>4, <1>5

LEMMA PipeInit == ASSUME Pipeline!Init PROVE Pipeline!Inv
<1> USE PipelineAssumption DEF Pipeline!Init, Pipeline!Pairs
<1>1. Pipeline!TypeOK
  BY DEF Pipeline!TypeOK, Pipeline!Ended
<1>2. Pipeline!RequestsAreHeld
  BY DEF Pipeline!RequestsAreHeld
<1>3. Pipeline!OneWorks /\ Pipeline!ResponsesAreInOrder
  BY DEF Pipeline!OneWorks, Pipeline!ResponsesAreInOrder
<1>4. Pipeline!ResponsesMatch /\ Pipeline!NoRequestIsDropped
  BY DEF Pipeline!ResponsesMatch, Pipeline!NoRequestIsDropped
<1> QED BY <1>1, <1>2, <1>3, <1>4 DEF Pipeline!Inv

LEMMA PipeChannels ==
  ASSUME NEW I, NEW f \in [I -> Seq(Calls)], NEW p \in I
  PROVE  /\ \A c \in Calls : [f EXCEPT ![p] = Append(f[p], c)] \in [I -> Seq(Calls)]
         /\ f[p] # <<>> => [f EXCEPT ![p] = Tail(f[p])] \in [I -> Seq(Calls)]
         /\ [f EXCEPT ![p] = <<>>] \in [I -> Seq(Calls)]
<1> DEFINE S == Seq(Calls)
<1>1. f \in [I -> S] /\ f[p] \in Seq(Calls)
  OBVIOUS
<1>2. /\ \A c \in Calls : Append(f[p], c) \in S
      /\ f[p] # <<>> => Tail(f[p]) \in S
      /\ <<>> \in S
  BY <1>1, PipeSequences
<1> HIDE DEF S
<1>3. \A s \in S : [f EXCEPT ![p] = s] \in [I -> S]
  BY <1>1
<1> QED BY <1>2, <1>3 DEF S

LEMMA PipeAnswers ==
  ASSUME Pipeline!TypeOK, NEW cs, NEW a \in Calls \cup {Nobody, Stopped}, Pipeline!Finish(cs, a)
  PROVE  /\ v15' \in [Calls -> Calls \cup {Nobody, Stopped}]
         /\ \A c \in Calls : v15'[c] = IF c \in cs THEN a ELSE v15[c]
  BY DEF Pipeline!TypeOK, Pipeline!Finish

LEMMA PipeTypes ==
  ASSUME Pipeline!TypeOK, Pipeline!RequestsAreHeld, Pipeline!Next
  PROVE  Pipeline!TypeOK'
<1> USE PipelineAssumption
    DEF Pipeline!TypeOK, Pipeline!chanVars, Pipeline!ends, Pipeline!callVars, Pipeline!Goto,
        Pipeline!Pairs, Pipeline!Ended
<1>0. v1 \in Pipeline!Pairs /\ v3 \in [Pipeline!Pairs -> Seq(Calls)]
      /\ v4 \in [Pipeline!Pairs -> Seq(Calls)] /\ v12 \in [Runners -> Seq(Calls)]
  OBVIOUS
<1>1. ASSUME NEW c \in Calls, Pipeline!Start(c) PROVE Pipeline!TypeOK'
  <2>1. v1' = v2 + 1 /\ v2' = v2 + 1 /\ v2 < ChannelPairs
        /\ v14' = [v14 EXCEPT ![c] = "send"]
        /\ \E r \in Runners : v5' = [v5 EXCEPT ![r] = "dial"]
        /\ UNCHANGED <<v3, v4, v6, v7, v8, v9, v10, v11, v12, v13, v15>>
    BY <1>1 DEF Pipeline!Start
  <2>2. v2' \in Nat /\ v2' <= ChannelPairs /\ v1' \in 0 .. v2'
    BY <2>1
  <2>3. v5' \in [Runners -> {"off", "dial", "work", "stopR", "stopW", "check"}]
    BY <2>1
  <2>4. v14' \in [Calls -> {"init", "send", "room", "wait", "refused", "timeout", "done"}]
    BY <2>1
  <2> QED BY ONLY <2>1, <2>2, <2>3, <2>4, Pipeline!TypeOK DEF Pipeline!TypeOK
<1>2. ASSUME NEW c \in Calls, Pipeline!Initialised(c) PROVE Pipeline!TypeOK'
  BY <1>2 DEF Pipeline!Initialised
<1>3. ASSUME NEW c \in Calls, Pipeline!Send(c) PROVE Pipeline!TypeOK'
  <2>1. v3' \in [Pipeline!Pairs -> Seq(Calls)]
    <3>1. v3' = [v3 EXCEPT ![v1] = Append(v3[v1], c)]
      BY <1>3 DEF Pipeline!Send
    <3> QED BY ONLY <1>0, <3>1, PipeChannels, c \in Calls
  <2> QED BY <1>3, <2>1 DEF Pipeline!Send
<1>4. ASSUME NEW c \in Calls, Pipeline!Overflow(c) PROVE Pipeline!TypeOK'
  <2>1. v3' = [v3 EXCEPT ![v1] = Tail(v3[v1])] /\ Len(v3[v1]) = MaxPendingRequests
    BY <1>4 DEF Pipeline!Overflow
  <2>2. v3[v1] # <<>>
    BY <2>1
  <2>3. v3' \in [Pipeline!Pairs -> Seq(Calls)]
    BY ONLY <1>0, <2>1, <2>2, PipeChannels
  <2>4. v15' \in [Calls -> Calls \cup {Nobody, Stopped}]
    BY <1>4, PipeAnswers DEF Pipeline!Overflow
  <2> QED BY <1>4, <2>3, <2>4 DEF Pipeline!Overflow
<1>5. ASSUME NEW c \in Calls, Pipeline!SendAgain(c) PROVE Pipeline!TypeOK'
  <2>1. v3' \in [Pipeline!Pairs -> Seq(Calls)]
    <3>1. v3' = [v3 EXCEPT ![v1] = Append(v3[v1], c)] \/ v3' = v3
      <4>1. CASE v1 # 0 /\ Len(v3[v1]) < MaxPendingRequests
        BY <1>5, <4>1 DEF Pipeline!SendAgain
      <4>2. CASE ~ (v1 # 0 /\ Len(v3[v1]) < MaxPendingRequests)
        BY <1>5, <4>2 DEF Pipeline!SendAgain
      <4> QED BY <4>1, <4>2
    <3>2. [v3 EXCEPT ![v1] = Append(v3[v1], c)] \in [Pipeline!Pairs -> Seq(Calls)]
      BY ONLY <1>0, PipeChannels, c \in Calls
    <3> QED BY ONLY <1>0, <3>1, <3>2
  <2> QED BY <1>5, <2>1 DEF Pipeline!SendAgain
<1>6. ASSUME NEW c \in Calls, Pipeline!Return(c) PROVE Pipeline!TypeOK'
  BY <1>6 DEF Pipeline!Return
<1>7. ASSUME NEW c \in Calls, Pipeline!TimesOut(c) PROVE Pipeline!TypeOK'
  BY <1>7 DEF Pipeline!TimesOut
<1>8. ASSUME NEW r \in Runners, Pipeline!WriterStarts(r) PROVE Pipeline!TypeOK'
  <2>1. v8' \in [Runners -> Pipeline!Pairs]
    BY <1>0, <1>8 DEF Pipeline!WriterStarts
  <2>2. v6' \in [Runners -> {"off", "start", "take", "write", "pass"} \cup Pipeline!Ended]
    BY <1>8 DEF Pipeline!WriterStarts
  <2>3. UNCHANGED <<v1, v2, v3, v4, v5, v7, v9, v10, v11, v12, v14, v15>>
    BY <1>8 DEF Pipeline!WriterStarts
  <2> QED BY ONLY <2>1, <2>2, <2>3, Pipeline!TypeOK DEF Pipeline!TypeOK
<1>9. ASSUME NEW r \in Runners, Pipeline!Take(r) PROVE Pipeline!TypeOK'
  <2>1. v3' = [v3 EXCEPT ![v8[r]] = Tail(v3[v8[r]])] /\ v3[v8[r]] # <<>>
    BY <1>9 DEF Pipeline!Take
  <2>2. v8[r] \in Pipeline!Pairs /\ Head(v3[v8[r]]) \in Calls
    BY <1>0, <2>1, PipeSequences
  <2>3. v3' \in [Pipeline!Pairs -> Seq(Calls)]
    BY ONLY <1>0, <2>1, <2>2, PipeChannels
  <2>4. v15' \in [Calls -> Calls \cup {Nobody, Stopped}]
    BY <1>9, PipeAnswers DEF Pipeline!Take
  <2>5. v10' \in [Runners -> Calls \cup {Nobody}]
    BY <1>9, <2>2 DEF Pipeline!Take
  <2>a. v6' = v6 \/ v6' = [v6 EXCEPT ![r] = "write"]
    BY <1>9 DEF Pipeline!Take
  <2>6. v6' \in [Runners -> {"off", "start", "take", "write", "pass"} \cup Pipeline!Ended]
    BY <2>a
  <2>7. UNCHANGED <<v1, v2, v4, v5, v7, v8, v9, v11, v12, v14>>
    BY <1>9 DEF Pipeline!Take
  <2> QED BY ONLY <2>3, <2>4, <2>5, <2>6, <2>7, Pipeline!TypeOK DEF Pipeline!TypeOK
<1>10. ASSUME NEW r \in Runners, Pipeline!Write(r) PROVE Pipeline!TypeOK'
  <2>1. v12' = [v12 EXCEPT ![r] = Append(v12[r], v10[r])] \/ v12' = v12
    BY <1>10 DEF Pipeline!Write
  <2>2. v10[r] \in Calls
    BY <1>10 DEF Pipeline!Write, Pipeline!RequestsAreHeld
  <2>3. v12' \in [Runners -> Seq(Calls)]
    <3>1. [v12 EXCEPT ![r] = Append(v12[r], v10[r])] \in [Runners -> Seq(Calls)]
      BY ONLY <1>0, <2>2, PipeChannels, r \in Runners
    <3> QED BY ONLY <1>0, <2>1, <3>1
  <2>4. v15' \in [Calls -> Calls \cup {Nobody, Stopped}]
    BY <1>10, PipeAnswers DEF Pipeline!Write
  <2>a. /\ v10' = v10 \/ v10' = [v10 EXCEPT ![r] = Nobody]
        /\ v6' = [v6 EXCEPT ![r] = "pass"] \/ v6' = [v6 EXCEPT ![r] = "failed"]
    BY <1>10 DEF Pipeline!Write
  <2>5. v10' \in [Runners -> Calls \cup {Nobody}]
    BY <2>a
  <2>6. v6' \in [Runners -> {"off", "start", "take", "write", "pass"} \cup Pipeline!Ended]
    BY <2>a
  <2>7. UNCHANGED <<v1, v2, v3, v4, v5, v7, v8, v9, v11, v14>>
    BY <1>10 DEF Pipeline!Write
  <2> QED BY ONLY <2>3, <2>4, <2>5, <2>6, <2>7, Pipeline!TypeOK DEF Pipeline!TypeOK
<1>11. ASSUME NEW r \in Runners, Pipeline!Pass(r) PROVE Pipeline!TypeOK'
  <2>1. v4' = [v4 EXCEPT ![v8[r]] = Append(v4[v8[r]], v10[r])] /\ v10[r] \in Calls
    BY <1>11 DEF Pipeline!Pass, Pipeline!RequestsAreHeld
  <2>2. v8[r] \in Pipeline!Pairs
    OBVIOUS
  <2>3. v4' \in [Pipeline!Pairs -> Seq(Calls)]
    BY ONLY <1>0, <2>1, <2>2, PipeChannels
  <2>4. v10' \in [Runners -> Calls \cup {Nobody}]
    BY <1>11 DEF Pipeline!Pass
  <2>5. v6' \in [Runners -> {"off", "start", "take", "write", "pass"} \cup Pipeline!Ended]
    BY <1>11 DEF Pipeline!Pass
  <2>6. UNCHANGED <<v1, v2, v3, v5, v7, v8, v9, v11, v12, v14, v15>>
    BY <1>11 DEF Pipeline!Pass
  <2> QED BY ONLY <2>3, <2>4, <2>5, <2>6, Pipeline!TypeOK DEF Pipeline!TypeOK
<1>12. ASSUME NEW r \in Runners, Pipeline!PassFails(r) PROVE Pipeline!TypeOK'
  <2>1. v15' \in [Calls -> Calls \cup {Nobody, Stopped}]
    BY <1>12, PipeAnswers DEF Pipeline!PassFails
  <2>2. v10' \in [Runners -> Calls \cup {Nobody}]
    BY <1>12 DEF Pipeline!PassFails
  <2>3. v6' \in [Runners -> {"off", "start", "take", "write", "pass"} \cup Pipeline!Ended]
    BY <1>12 DEF Pipeline!PassFails
  <2>4. UNCHANGED <<v1, v2, v3, v4, v5, v7, v8, v9, v11, v12, v14>>
    BY <1>12 DEF Pipeline!PassFails
  <2> QED BY ONLY <2>1, <2>2, <2>3, <2>4, Pipeline!TypeOK DEF Pipeline!TypeOK
<1>13. ASSUME NEW r \in Runners, Pipeline!WriterIdle(r) PROVE Pipeline!TypeOK'
  BY <1>13 DEF Pipeline!WriterIdle
<1>14. ASSUME NEW r \in Runners, Pipeline!ReaderStarts(r) PROVE Pipeline!TypeOK'
  <2>1. v9' \in [Runners -> Pipeline!Pairs]
    BY <1>0, <1>14 DEF Pipeline!ReaderStarts
  <2>2. v7' \in [Runners -> {"off", "start", "take", "read"} \cup Pipeline!Ended]
    BY <1>14 DEF Pipeline!ReaderStarts
  <2>3. UNCHANGED <<v1, v2, v3, v4, v5, v6, v8, v10, v11, v12, v14, v15>>
    BY <1>14 DEF Pipeline!ReaderStarts
  <2> QED BY ONLY <2>1, <2>2, <2>3, Pipeline!TypeOK DEF Pipeline!TypeOK
<1>15. ASSUME NEW r \in Runners, Pipeline!ReaderTakes(r) PROVE Pipeline!TypeOK'
  <2>1. v4' = [v4 EXCEPT ![v9[r]] = Tail(v4[v9[r]])] /\ v4[v9[r]] # <<>>
    BY <1>15 DEF Pipeline!ReaderTakes
  <2>2. v9[r] \in Pipeline!Pairs /\ Head(v4[v9[r]]) \in Calls
    BY <1>0, <2>1, PipeSequences
  <2>3. v4' \in [Pipeline!Pairs -> Seq(Calls)]
    BY ONLY <1>0, <2>1, <2>2, PipeChannels
  <2>4. v11' \in [Runners -> Calls \cup {Nobody}]
    BY <1>15, <2>2 DEF Pipeline!ReaderTakes
  <2>5. v7' \in [Runners -> {"off", "start", "take", "read"} \cup Pipeline!Ended]
    BY <1>15 DEF Pipeline!ReaderTakes
  <2>6. UNCHANGED <<v1, v2, v3, v5, v6, v8, v9, v10, v12, v14, v15>>
    BY <1>15 DEF Pipeline!ReaderTakes
  <2> QED BY ONLY <2>3, <2>4, <2>5, <2>6, Pipeline!TypeOK DEF Pipeline!TypeOK
<1>16. ASSUME NEW r \in Runners, Pipeline!Read(r) PROVE Pipeline!TypeOK'
  <2>1. /\ \/ v12[r] # <<>> /\ v12' = [v12 EXCEPT ![r] = Tail(v12[r])]
              /\ Pipeline!Finish({v11[r]}, Head(v12[r]))
           \/ v12' = v12 /\ Pipeline!Finish({v11[r]}, Stopped)
    BY <1>16 DEF Pipeline!Read
  <2>2. v12' \in [Runners -> Seq(Calls)]
    <3>1. v12[r] # <<>> => [v12 EXCEPT ![r] = Tail(v12[r])] \in [Runners -> Seq(Calls)]
      BY ONLY <1>0, PipeChannels, r \in Runners
    <3> QED BY ONLY <1>0, <2>1, <3>1
  <2>3. v12[r] # <<>> => Head(v12[r]) \in Calls
    BY PipeSequences
  <2>4. v15' \in [Calls -> Calls \cup {Nobody, Stopped}]
    BY <2>1, <2>3, PipeAnswers
  <2>5. v11' \in [Runners -> Calls \cup {Nobody}]
    BY <1>16 DEF Pipeline!Read
  <2>a. v7' = [v7 EXCEPT ![r] = "take"] \/ v7' = [v7 EXCEPT ![r] = "failed"]
    BY <1>16 DEF Pipeline!Read
  <2>6. v7' \in [Runners -> {"off", "start", "take", "read"} \cup Pipeline!Ended]
    BY <2>a
  <2>7. UNCHANGED <<v1, v2, v3, v4, v5, v6, v8, v9, v10, v14>>
    BY <1>16 DEF Pipeline!Read
  <2> QED BY ONLY <2>2, <2>4, <2>5, <2>6, <2>7, Pipeline!TypeOK DEF Pipeline!TypeOK
<1>17. ASSUME NEW r \in Runners, Pipeline!ReaderStops(r) PROVE Pipeline!TypeOK'
  BY <1>17 DEF Pipeline!ReaderStops
<1>18. ASSUME NEW r \in Runners, Pipeline!Dial(r) PROVE Pipeline!TypeOK'
  BY <1>18 DEF Pipeline!Dial
<1>19. ASSUME NEW r \in Runners, Pipeline!StopOther(r) PROVE Pipeline!TypeOK'
  BY <1>19 DEF Pipeline!StopOther
<1>20. ASSUME NEW r \in Runners, Pipeline!Drain(r) PROVE Pipeline!TypeOK'
  <2>1. v4' \in [Pipeline!Pairs -> Seq(Calls)]
    <3>1. v4' = [v4 EXCEPT ![v1] = <<>>]
      BY <1>20 DEF Pipeline!Drain
    <3> QED BY ONLY <1>0, <3>1, PipeChannels
  <2>2. v15' \in [Calls -> Calls \cup {Nobody, Stopped}]
    BY <1>20, PipeAnswers DEF Pipeline!Drain
  <2>3. v12' \in [Runners -> Seq(Calls)]
    BY <1>20, PipeChannels DEF Pipeline!Drain
  <2>4. /\ v6' \in [Runners -> {"off", "start", "take", "write", "pass"} \cup Pipeline!Ended]
        /\ v7' \in [Runners -> {"off", "start", "take", "read"} \cup Pipeline!Ended]
    BY <1>20 DEF Pipeline!Drain
  <2>5. v5' \in [Runners -> {"off", "dial", "work", "stopR", "stopW", "check"}]
    BY <1>20 DEF Pipeline!Drain
  <2>6. UNCHANGED <<v1, v2, v3, v8, v9, v10, v11, v14>>
    BY <1>20 DEF Pipeline!Drain
  <2> QED BY ONLY <2>1, <2>2, <2>3, <2>4, <2>5, <2>6, Pipeline!TypeOK DEF Pipeline!TypeOK
<1>21. ASSUME NEW r \in Runners, Pipeline!Check(r) PROVE Pipeline!TypeOK'
  <2>a. v5' = [v5 EXCEPT ![r] = "off"] \/ v5' = [v5 EXCEPT ![r] = "dial"]
    BY <1>21 DEF Pipeline!Check
  <2>1. v5' \in [Runners -> {"off", "dial", "work", "stopR", "stopW", "check"}]
    BY <2>a
  <2>2. v1' \in 0 .. v2
    <3>1. v1' = v1 \/ v1' = 0
      BY <1>21 DEF Pipeline!Check
    <3> QED BY <3>1
  <2>3. UNCHANGED <<v2, v3, v4, v6, v7, v8, v9, v10, v11, v12, v14, v15>>
    BY <1>21 DEF Pipeline!Check
  <2> QED BY ONLY <2>1, <2>2, <2>3, Pipeline!TypeOK DEF Pipeline!TypeOK
<1> QED
  BY <1>1, <1>2, <1>3, <1>4, <1>5, <1>6, <1>7, <1>8, <1>9, <1>10, <1>11, <1>12, <1>13, <1>14,
     <1>15, <1>16, <1>17, <1>18, <1>19, <1>20, <1>21
     DEF Pipeline!Next, Pipeline!CallStep, Pipeline!WriterStep, Pipeline!ReaderStep,
         Pipeline!RunnerStep

LEMMA PipeHeld ==
  ASSUME Pipeline!TypeOK, Pipeline!RequestsAreHeld, Pipeline!Next
  PROVE  Pipeline!RequestsAreHeld'
<1> USE PipelineAssumption, NobodyAssumption DEF Pipeline!TypeOK, Pipeline!RequestsAreHeld,
                                                 Pipeline!chanVars, Pipeline!ends,
                                                 Pipeline!callVars, Pipeline!Goto,
                                                 Pipeline!Finish, Pipeline!Pairs,
                                                 Pipeline!Ended
<1>0. /\ v6 \in [Runners -> {"off", "start", "take", "write", "pass", "ended", "failed"}]
      /\ v7 \in [Runners -> {"off", "start", "take", "read", "ended", "failed"}]
      /\ v10 \in [Runners -> Calls \cup {Nobody}] /\ v11 \in [Runners -> Calls \cup {Nobody}]
      /\ \A c \in Calls : c # Nobody
  OBVIOUS
<1>1. ASSUME NEW c \in Calls, Pipeline!Start(c) PROVE Pipeline!RequestsAreHeld'
  BY <1>1 DEF Pipeline!Start
<1>2. ASSUME NEW c \in Calls, Pipeline!Initialised(c) PROVE Pipeline!RequestsAreHeld'
  BY <1>2 DEF Pipeline!Initialised
<1>3. ASSUME NEW c \in Calls, Pipeline!Send(c) PROVE Pipeline!RequestsAreHeld'
  BY <1>3 DEF Pipeline!Send
<1>4. ASSUME NEW c \in Calls, Pipeline!Overflow(c) PROVE Pipeline!RequestsAreHeld'
  BY <1>4 DEF Pipeline!Overflow
<1>5. ASSUME NEW c \in Calls, Pipeline!SendAgain(c) PROVE Pipeline!RequestsAreHeld'
  BY <1>5 DEF Pipeline!SendAgain
<1>6. ASSUME NEW c \in Calls, Pipeline!Return(c) PROVE Pipeline!RequestsAreHeld'
  BY <1>6 DEF Pipeline!Return
<1>7. ASSUME NEW c \in Calls, Pipeline!TimesOut(c) PROVE Pipeline!RequestsAreHeld'
  BY <1>7 DEF Pipeline!TimesOut
<1>8. ASSUME NEW r \in Runners, Pipeline!WriterStarts(r) PROVE Pipeline!RequestsAreHeld'
  BY <1>8 DEF Pipeline!WriterStarts
<1>9. ASSUME NEW r \in Runners, Pipeline!Take(r) PROVE Pipeline!RequestsAreHeld'
  <2>1. v3[v8[r]] # <<>> /\ v3[v8[r]] \in Seq(Calls)
    BY <1>9 DEF Pipeline!Take
  <2>2. Head(v3[v8[r]]) \in Calls
    BY <2>1, PipeSequences
  <2>3. /\ UNCHANGED <<v5, v7, v11>> /\ v6[r] = "take"
        /\ \/ v10'[r] \in Calls /\ v6'[r] = "write"
           \/ v10' = v10 /\ v6' = v6
        /\ \A q \in Runners \ {r} : v6'[q] = v6[q] /\ v10'[q] = v10[q]
    <3>1. \/ v10' = [v10 EXCEPT ![r] = Head(v3[v8[r]])] /\ v6' = [v6 EXCEPT ![r] = "write"]
          \/ v10' = v10 /\ v6' = v6
      BY ONLY <1>9 DEF Pipeline!Take
    <3>2. UNCHANGED <<v5, v7, v11>> /\ v6[r] = "take"
      BY ONLY <1>9 DEF Pipeline!Take
    <3>3. \A q \in Runners \ {r} : v6'[q] = v6[q] /\ v10'[q] = v10[q]
      BY <1>0, <3>1
    <3>4. \/ v10'[r] \in Calls /\ v6'[r] = "write"
          \/ v10' = v10 /\ v6' = v6
      BY <1>0, <2>2, <3>1
    <3> QED BY <3>2, <3>3, <3>4
  <2> QED BY ONLY <1>0, <2>3, Pipeline!RequestsAreHeld DEF Pipeline!RequestsAreHeld
<1>10. ASSUME NEW r \in Runners, Pipeline!Write(r) PROVE Pipeline!RequestsAreHeld'
  <2>1. /\ UNCHANGED <<v5, v7, v11>> /\ v6[r] = "write"
        /\ \/ v10' = v10 /\ v6'[r] = "pass"
           \/ v10'[r] = Nobody /\ v6'[r] = "failed"
        /\ \A q \in Runners \ {r} : v6'[q] = v6[q] /\ v10'[q] = v10[q]
    <3>1. \/ v10' = v10 /\ v6' = [v6 EXCEPT ![r] = "pass"]
          \/ v10' = [v10 EXCEPT ![r] = Nobody] /\ v6' = [v6 EXCEPT ![r] = "failed"]
      BY ONLY <1>10 DEF Pipeline!Write
    <3>2. UNCHANGED <<v5, v7, v11>> /\ v6[r] = "write"
      BY ONLY <1>10 DEF Pipeline!Write
    <3>3. \A q \in Runners \ {r} : v6'[q] = v6[q] /\ v10'[q] = v10[q]
      BY <1>0, <3>1
    <3>4. \/ v10' = v10 /\ v6'[r] = "pass"
          \/ v10'[r] = Nobody /\ v6'[r] = "failed"
      BY <1>0, <3>1
    <3> QED BY <3>2, <3>3, <3>4
  <2> QED BY ONLY <1>0, <2>1, Pipeline!RequestsAreHeld DEF Pipeline!RequestsAreHeld
<1>11. ASSUME NEW r \in Runners, Pipeline!Pass(r) PROVE Pipeline!RequestsAreHeld'
  BY <1>11 DEF Pipeline!Pass
<1>12. ASSUME NEW r \in Runners, Pipeline!PassFails(r) PROVE Pipeline!RequestsAreHeld'
  BY <1>12 DEF Pipeline!PassFails
<1>13. ASSUME NEW r \in Runners, Pipeline!WriterIdle(r) PROVE Pipeline!RequestsAreHeld'
  BY <1>13 DEF Pipeline!WriterIdle
<1>14. ASSUME NEW r \in Runners, Pipeline!ReaderStarts(r) PROVE Pipeline!RequestsAreHeld'
  BY <1>14 DEF Pipeline!ReaderStarts
<1>15. ASSUME NEW r \in Runners, Pipeline!ReaderTakes(r) PROVE Pipeline!RequestsAreHeld'
  <2>1. v4[v9[r]] # <<>> /\ v4[v9[r]] \in Seq(Calls)
    BY <1>15 DEF Pipeline!ReaderTakes
  <2>2. Head(v4[v9[r]]) \in Calls
    BY <2>1, PipeSequences
  <2>3. /\ UNCHANGED <<v5, v6, v10>> /\ v7[r] = "take" /\ v7'[r] = "read" /\ v11'[r] \in Calls
        /\ \A q \in Runners \ {r} : v7'[q] = v7[q] /\ v11'[q] = v11[q]
    BY ONLY <1>0, <1>15, <2>2 DEF Pipeline!ReaderTakes, Pipeline!chanVars, Pipeline!ends
  <2> QED BY ONLY <1>0, <2>3, Pipeline!RequestsAreHeld DEF Pipeline!RequestsAreHeld
<1>16. ASSUME NEW r \in Runners, Pipeline!Read(r) PROVE Pipeline!RequestsAreHeld'
  <2>1. /\ UNCHANGED <<v5, v6, v10>> /\ v7[r] = "read" /\ v11'[r] = Nobody
        /\ v7'[r] \in {"take", "failed"}
        /\ \A q \in Runners \ {r} : v7'[q] = v7[q] /\ v11'[q] = v11[q]
    BY ONLY <1>0, <1>16 DEF Pipeline!Read, Pipeline!chanVars, Pipeline!ends, Pipeline!callVars
  <2> QED BY ONLY <1>0, <2>1, Pipeline!RequestsAreHeld DEF Pipeline!RequestsAreHeld
<1>17. ASSUME NEW r \in Runners, Pipeline!ReaderStops(r) PROVE Pipeline!RequestsAreHeld'
  BY <1>17 DEF Pipeline!ReaderStops
<1>18. ASSUME NEW r \in Runners, Pipeline!Dial(r) PROVE Pipeline!RequestsAreHeld'
  BY <1>18 DEF Pipeline!Dial
<1>19. ASSUME NEW r \in Runners, Pipeline!StopOther(r) PROVE Pipeline!RequestsAreHeld'
  BY <1>19 DEF Pipeline!StopOther
<1>20. ASSUME NEW r \in Runners, Pipeline!Drain(r) PROVE Pipeline!RequestsAreHeld'
  BY <1>20 DEF Pipeline!Drain
<1>21. ASSUME NEW r \in Runners, Pipeline!Check(r) PROVE Pipeline!RequestsAreHeld'
  BY <1>21 DEF Pipeline!Check
<1> QED
  BY <1>1, <1>2, <1>3, <1>4, <1>5, <1>6, <1>7, <1>8, <1>9, <1>10, <1>11, <1>12, <1>13, <1>14,
     <1>15, <1>16, <1>17, <1>18, <1>19, <1>20, <1>21
     DEF Pipeline!Next, Pipeline!CallStep, Pipeline!WriterStep, Pipeline!ReaderStep,
         Pipeline!RunnerStep

(* Where a request can be. *)
Somewhere(c) ==
  \/ \E p \in Pipeline!Pairs : c \in Pipeline!Range(v3[p]) \cup Pipeline!Range(v4[p])
  \/ \E r \in Runners : c \in {v10[r], v11[r]}

LEMMA PipeMoved ==
  ASSUME Pipeline!NoRequestIsDropped,
         \A c \in Calls : v14'[c] = "wait" /\ v15'[c] = Nobody =>
            Somewhere(c)' \/ (v14[c] = "wait" /\ v15[c] = Nobody),
         \A c \in Calls : Somewhere(c) => Somewhere(c)' \/ v15'[c] # Nobody
  PROVE  Pipeline!NoRequestIsDropped'
  BY DEF Pipeline!NoRequestIsDropped, Somewhere

(* One channel gets a request. *)
LEMMA PipeGets ==
  ASSUME NEW f \in [Pipeline!Pairs -> Seq(Calls)], NEW p \in Pipeline!Pairs, NEW c \in Calls
  PROVE  /\ Pipeline!Range([f EXCEPT ![p] = Append(f[p], c)][p]) = Pipeline!Range(f[p]) \cup {c}
         /\ \A q \in Pipeline!Pairs \ {p} : [f EXCEPT ![p] = Append(f[p], c)][q] = f[q]
<1>1. f[p] \in Seq(Calls) /\ [f EXCEPT ![p] = Append(f[p], c)][p] = Append(f[p], c)
      /\ \A q \in Pipeline!Pairs \ {p} : [f EXCEPT ![p] = Append(f[p], c)][q] = f[q]
  OBVIOUS
<1> QED BY <1>1, PipeSequences

LEMMA PipeDropped ==
  ASSUME Pipeline!TypeOK, Pipeline!RequestsAreHeld, Pipeline!NoRequestIsDropped,
         Pipeline!Next
  PROVE  Pipeline!NoRequestIsDropped'
<1> USE DEF Pipeline!chanVars, Pipeline!ends, Pipeline!callVars, Pipeline!Goto
<1>0. /\ v1 \in Pipeline!Pairs /\ v3 \in [Pipeline!Pairs -> Seq(Calls)]
      /\ v4 \in [Pipeline!Pairs -> Seq(Calls)] /\ v12 \in [Runners -> Seq(Calls)]
      /\ v8 \in [Runners -> Pipeline!Pairs] /\ v9 \in [Runners -> Pipeline!Pairs]
      /\ v10 \in [Runners -> Calls \cup {Nobody}] /\ v11 \in [Runners -> Calls \cup {Nobody}]
      /\ v14 \in [Calls -> {"init", "send", "room", "wait", "refused", "timeout", "done"}]
      /\ v6 \in [Runners -> {"off", "start", "take", "write", "pass", "ended", "failed"}]
      /\ v7 \in [Runners -> {"off", "start", "take", "read", "ended", "failed"}]
      /\ MaxPendingRequests \in Nat \ {0} /\ Stopped # Nobody
  BY PipelineAssumption DEF Pipeline!TypeOK, Pipeline!Pairs, Pipeline!Ended
<1>1. ASSUME NEW c \in Calls, Pipeline!Start(c) PROVE Pipeline!NoRequestIsDropped'
  <2>1. /\ UNCHANGED <<v3, v4, v10, v11, v15>> /\ v14'[c] # "wait"
        /\ \A d \in Calls \ {c} : v14'[d] = v14[d]
    BY <1>0, <1>1 DEF Pipeline!Start
  <2> QED BY <2>1, PipeMoved DEF Somewhere
<1>2. ASSUME NEW c \in Calls, Pipeline!Initialised(c) PROVE Pipeline!NoRequestIsDropped'
  <2>1. /\ UNCHANGED <<v3, v4, v10, v11, v15>> /\ v14'[c] # "wait"
        /\ \A d \in Calls \ {c} : v14'[d] = v14[d]
    BY <1>0, <1>2 DEF Pipeline!Initialised
  <2> QED BY <2>1, PipeMoved DEF Somewhere
<1>3. ASSUME NEW c \in Calls, Pipeline!Send(c) PROVE Pipeline!NoRequestIsDropped'
  <2>1. /\ v3' = [v3 EXCEPT ![v1] = Append(v3[v1], c)]
        /\ UNCHANGED <<v4, v10, v11, v15>> /\ \A d \in Calls \ {c} : v14'[d] = v14[d]
    BY <1>0, <1>3 DEF Pipeline!Send
  <2>2. /\ Pipeline!Range(v3'[v1]) = Pipeline!Range(v3[v1]) \cup {c}
        /\ \A p \in Pipeline!Pairs \ {v1} : v3'[p] = v3[p]
    BY <1>0, <2>1, PipeGets
  <2> QED BY <1>0, <2>1, <2>2, PipeMoved DEF Somewhere
<1>4. ASSUME NEW c \in Calls, Pipeline!Overflow(c) PROVE Pipeline!NoRequestIsDropped'
  <2>1. /\ v3' = [v3 EXCEPT ![v1] = Tail(v3[v1])] /\ Len(v3[v1]) = MaxPendingRequests
        /\ UNCHANGED <<v4, v10, v11>> /\ v14'[c] = "room"
        /\ \A d \in Calls \ {c} : v14'[d] = v14[d]
    BY <1>0, <1>4 DEF Pipeline!Overflow
  <2>2. v3[v1] # <<>>
    BY <1>0, <2>1
  <2>a. /\ v3'[v1] = Tail(v3[v1]) /\ v3[v1] \in Seq(Calls) /\ v3[v1] # <<>>
        /\ \A p \in Pipeline!Pairs \ {v1} : v3'[p] = v3[p]
    BY <1>0, <2>1, <2>2
  <2>3. /\ Pipeline!Range(v3[v1]) = Pipeline!Range(v3'[v1]) \cup {Head(v3[v1])}
        /\ \A p \in Pipeline!Pairs \ {v1} : v3'[p] = v3[p]
    BY <2>a, PipeSequences
  <2>4. \A d \in Calls : v15'[d] = IF d = Head(v3[v1]) THEN Stopped ELSE v15[d]
    BY <1>4, PipeAnswers DEF Pipeline!Overflow
  <2>5. \A d \in Calls : v15'[d] = Nobody => v15[d] = Nobody /\ d # Head(v3[v1])
    BY <1>0, <2>4
  <2>6. ASSUME NEW d \in Calls, Somewhere(d), v15'[d] = Nobody PROVE Somewhere(d)'
    BY <2>1, <2>3, <2>5, <2>6 DEF Somewhere
  <2> QED BY <2>1, <2>5, <2>6, PipeMoved
<1>5. ASSUME NEW c \in Calls, Pipeline!SendAgain(c) PROVE Pipeline!NoRequestIsDropped'
  <2>1. CASE v1 # 0 /\ Len(v3[v1]) < MaxPendingRequests
    <3>1. /\ v3' = [v3 EXCEPT ![v1] = Append(v3[v1], c)]
          /\ UNCHANGED <<v4, v10, v11, v15>> /\ \A d \in Calls \ {c} : v14'[d] = v14[d]
      BY <1>0, <1>5, <2>1 DEF Pipeline!SendAgain
    <3>2. /\ Pipeline!Range(v3'[v1]) = Pipeline!Range(v3[v1]) \cup {c}
          /\ \A p \in Pipeline!Pairs \ {v1} : v3'[p] = v3[p]
      BY <1>0, <3>1, PipeGets
    <3> QED BY <1>0, <3>1, <3>2, PipeMoved DEF Somewhere
  <2>2. CASE ~ (v1 # 0 /\ Len(v3[v1]) < MaxPendingRequests)
    <3>1. /\ UNCHANGED <<v3, v4, v10, v11, v15>> /\ v14'[c] = "refused"
          /\ \A d \in Calls \ {c} : v14'[d] = v14[d]
      BY <1>0, <1>5, <2>2 DEF Pipeline!SendAgain
    <3> QED BY <3>1, PipeMoved DEF Somewhere
  <2> QED BY <2>1, <2>2
<1>6. ASSUME NEW c \in Calls, Pipeline!Return(c) PROVE Pipeline!NoRequestIsDropped'
  <2>1. /\ UNCHANGED <<v3, v4, v10, v11, v15>> /\ v14'[c] # "wait"
        /\ \A d \in Calls \ {c} : v14'[d] = v14[d]
    BY <1>0, <1>6 DEF Pipeline!Return
  <2> QED BY <2>1, PipeMoved DEF Somewhere
<1>7. ASSUME NEW c \in Calls, Pipeline!TimesOut(c) PROVE Pipeline!NoRequestIsDropped'
  <2>1. /\ UNCHANGED <<v3, v4, v10, v11, v15>> /\ v14'[c] # "wait"
        /\ \A d \in Calls \ {c} : v14'[d] = v14[d]
    BY <1>0, <1>7 DEF Pipeline!TimesOut
  <2> QED BY <2>1, PipeMoved DEF Somewhere
<1>8. ASSUME NEW r \in Runners, Pipeline!WriterStarts(r) PROVE Pipeline!NoRequestIsDropped'
  <2>1. UNCHANGED <<v3, v4, v10, v11, v14, v15>>
    BY <1>0, <1>8 DEF Pipeline!WriterStarts
  <2> QED BY <2>1, PipeMoved DEF Somewhere
<1>9. ASSUME NEW r \in Runners, Pipeline!Take(r) PROVE Pipeline!NoRequestIsDropped'
  <2>1. /\ v3' = [v3 EXCEPT ![v8[r]] = Tail(v3[v8[r]])] /\ v3[v8[r]] # <<>>
        /\ UNCHANGED <<v4, v11, v14>> /\ v8[r] \in Pipeline!Pairs /\ v10[r] = Nobody
        /\ \A q \in Runners \ {r} : v10'[q] = v10[q]
        /\ \/ v10'[r] = Head(v3[v8[r]]) /\ v15' = v15
           \/ Pipeline!Finish({Head(v3[v8[r]])}, Stopped)
    BY <1>0, <1>9 DEF Pipeline!Take, Pipeline!RequestsAreHeld
  <2>a. /\ v3'[v8[r]] = Tail(v3[v8[r]]) /\ v3[v8[r]] \in Seq(Calls) /\ v3[v8[r]] # <<>>
        /\ \A p \in Pipeline!Pairs \ {v8[r]} : v3'[p] = v3[p]
    BY <1>0, <2>1
  <2>2. /\ Pipeline!Range(v3[v8[r]]) = Pipeline!Range(v3'[v8[r]]) \cup {Head(v3[v8[r]])}
        /\ \A p \in Pipeline!Pairs \ {v8[r]} : v3'[p] = v3[p]
    BY <2>a, PipeSequences
  <2>3. \A d \in Calls : /\ v15'[d] = Nobody => v15[d] = Nobody
                         /\ d = Head(v3[v8[r]]) => v10'[r] = d \/ v15'[d] # Nobody
    BY <1>0, <2>1, PipeAnswers
  <2>4. \A d \in Calls : d # Nobody
    BY NobodyAssumption
  <2> QED BY <1>0, <2>1, <2>2, <2>3, <2>4, PipeMoved DEF Somewhere
<1>10. ASSUME NEW r \in Runners, Pipeline!Write(r) PROVE Pipeline!NoRequestIsDropped'
  <2>1. /\ UNCHANGED <<v3, v4, v11, v14>> /\ \A q \in Runners \ {r} : v10'[q] = v10[q]
        /\ \/ Pipeline!Finish({v10[r]}, Stopped)
           \/ v10' = v10 /\ v15' = v15
    BY <1>0, <1>10 DEF Pipeline!Write
  <2>2. \A d \in Calls : /\ v15'[d] = Nobody => v15[d] = Nobody
                         /\ d = v10[r] => v10'[r] = d \/ v15'[d] # Nobody
    BY <1>0, <2>1, PipeAnswers
  <2> QED BY <1>0, <2>1, <2>2, PipeMoved DEF Somewhere
<1>11. ASSUME NEW r \in Runners, Pipeline!Pass(r) PROVE Pipeline!NoRequestIsDropped'
  <2>1. /\ v4' = [v4 EXCEPT ![v8[r]] = Append(v4[v8[r]], v10[r])] /\ v10[r] \in Calls
        /\ UNCHANGED <<v3, v11, v14, v15>> /\ v8[r] \in Pipeline!Pairs
        /\ \A q \in Runners \ {r} : v10'[q] = v10[q]
    BY <1>0, <1>11 DEF Pipeline!Pass, Pipeline!RequestsAreHeld
  <2>2. /\ Pipeline!Range(v4'[v8[r]]) = Pipeline!Range(v4[v8[r]]) \cup {v10[r]}
        /\ \A p \in Pipeline!Pairs \ {v8[r]} : v4'[p] = v4[p]
    BY <1>0, <2>1, PipeGets
  <2> QED BY <1>0, <2>1, <2>2, PipeMoved DEF Somewhere
<1>12. ASSUME NEW r \in Runners, Pipeline!PassFails(r) PROVE Pipeline!NoRequestIsDropped'
  <2>1. /\ UNCHANGED <<v3, v4, v11, v14>> /\ \A q \in Runners \ {r} : v10'[q] = v10[q]
        /\ \/ Pipeline!Finish({v10[r]}, Stopped)
    BY <1>0, <1>12 DEF Pipeline!PassFails
  <2>2. \A d \in Calls : /\ v15'[d] = Nobody => v15[d] = Nobody
                         /\ d = v10[r] => v10'[r] = d \/ v15'[d] # Nobody
    BY <1>0, <2>1, PipeAnswers
  <2> QED BY <1>0, <2>1, <2>2, PipeMoved DEF Somewhere
<1>13. ASSUME NEW r \in Runners, Pipeline!WriterIdle(r) PROVE Pipeline!NoRequestIsDropped'
  <2>1. UNCHANGED <<v3, v4, v10, v11, v14, v15>>
    BY <1>0, <1>13 DEF Pipeline!WriterIdle
  <2> QED BY <2>1, PipeMoved DEF Somewhere
<1>14. ASSUME NEW r \in Runners, Pipeline!ReaderStarts(r) PROVE Pipeline!NoRequestIsDropped'
  <2>1. UNCHANGED <<v3, v4, v10, v11, v14, v15>>
    BY <1>0, <1>14 DEF Pipeline!ReaderStarts
  <2> QED BY <2>1, PipeMoved DEF Somewhere
<1>15. ASSUME NEW r \in Runners, Pipeline!ReaderTakes(r) PROVE Pipeline!NoRequestIsDropped'
  <2>1. /\ v4' = [v4 EXCEPT ![v9[r]] = Tail(v4[v9[r]])] /\ v4[v9[r]] # <<>>
        /\ UNCHANGED <<v3, v10, v14, v15>> /\ v9[r] \in Pipeline!Pairs /\ v11[r] = Nobody
        /\ v11'[r] = Head(v4[v9[r]]) /\ \A q \in Runners \ {r} : v11'[q] = v11[q]
    BY <1>0, <1>15 DEF Pipeline!ReaderTakes, Pipeline!RequestsAreHeld
  <2>a. /\ v4'[v9[r]] = Tail(v4[v9[r]]) /\ v4[v9[r]] \in Seq(Calls) /\ v4[v9[r]] # <<>>
        /\ \A p \in Pipeline!Pairs \ {v9[r]} : v4'[p] = v4[p]
    BY <1>0, <2>1
  <2>2. /\ Pipeline!Range(v4[v9[r]]) = Pipeline!Range(v4'[v9[r]]) \cup {Head(v4[v9[r]])}
        /\ \A p \in Pipeline!Pairs \ {v9[r]} : v4'[p] = v4[p]
    BY <2>a, PipeSequences
  <2>3. \A d \in Calls : d # Nobody
    BY NobodyAssumption
  <2>4. ASSUME NEW d \in Calls, Somewhere(d) PROVE Somewhere(d)'
    <3>1. CASE d \in Pipeline!Range(v4[v9[r]])
      BY <2>1, <2>2, <3>1 DEF Somewhere
    <3>2. CASE \E p \in Pipeline!Pairs \ {v9[r]} : d \in Pipeline!Range(v4[p])
      BY <2>2, <3>2 DEF Somewhere
    <3>3. CASE \E p \in Pipeline!Pairs : d \in Pipeline!Range(v3[p])
      BY <2>1, <3>3 DEF Somewhere
    <3>4. CASE \E q \in Runners : d \in {v10[q], v11[q]}
      BY <2>1, <2>3, <3>4 DEF Somewhere
    <3> QED BY <2>4, <3>1, <3>2, <3>3, <3>4 DEF Somewhere
  <2> QED BY <2>1, <2>4, PipeMoved
<1>16. ASSUME NEW r \in Runners, Pipeline!Read(r) PROVE Pipeline!NoRequestIsDropped'
  <2>1. /\ UNCHANGED <<v3, v4, v10, v14>> /\ \A q \in Runners \ {r} : v11'[q] = v11[q]
        /\ \/ v12[r] # <<>> /\ Pipeline!Finish({v11[r]}, Head(v12[r]))
           \/ Pipeline!Finish({v11[r]}, Stopped)
    BY <1>0, <1>16 DEF Pipeline!Read
  <2>2. v12[r] # <<>> => Head(v12[r]) \in Calls
    BY <1>0, PipeSequences
  <2>3. \A d \in Calls : /\ v15'[d] = Nobody => v15[d] = Nobody
                         /\ d = v11[r] => v15'[d] # Nobody
    BY <1>0, <2>1, <2>2, PipeAnswers, NobodyAssumption
  <2> QED BY <1>0, <2>1, <2>3, PipeMoved DEF Somewhere
<1>17. ASSUME NEW r \in Runners, Pipeline!ReaderStops(r) PROVE Pipeline!NoRequestIsDropped'
  <2>1. UNCHANGED <<v3, v4, v10, v11, v14, v15>>
    BY <1>0, <1>17 DEF Pipeline!ReaderStops
  <2> QED BY <2>1, PipeMoved DEF Somewhere
<1>18. ASSUME NEW r \in Runners, Pipeline!Dial(r) PROVE Pipeline!NoRequestIsDropped'
  <2>1. UNCHANGED <<v3, v4, v10, v11, v14, v15>>
    BY <1>0, <1>18 DEF Pipeline!Dial
  <2> QED BY <2>1, PipeMoved DEF Somewhere
<1>19. ASSUME NEW r \in Runners, Pipeline!StopOther(r) PROVE Pipeline!NoRequestIsDropped'
  <2>1. UNCHANGED <<v3, v4, v10, v11, v14, v15>>
    BY <1>0, <1>19 DEF Pipeline!StopOther
  <2> QED BY <2>1, PipeMoved DEF Somewhere
<1>20. ASSUME NEW r \in Runners, Pipeline!Drain(r) PROVE Pipeline!NoRequestIsDropped'
  <2>1. /\ UNCHANGED <<v3, v10, v11, v14>> /\ v4'[v1] = <<>>
        /\ \A p \in Pipeline!Pairs \ {v1} : v4'[p] = v4[p]
    BY <1>0, <1>20 DEF Pipeline!Drain
  <2>2. \A d \in Calls : v15'[d] = IF d \in Pipeline!Range(v4[v1]) THEN Stopped ELSE v15[d]
    BY <1>20, PipeAnswers DEF Pipeline!Drain
  <2> QED BY <1>0, <2>1, <2>2, PipeMoved DEF Somewhere
<1>21. ASSUME NEW r \in Runners, Pipeline!Check(r) PROVE Pipeline!NoRequestIsDropped'
  <2>1. UNCHANGED <<v3, v4, v10, v11, v14, v15>>
    BY <1>0, <1>21 DEF Pipeline!Check
  <2> QED BY <2>1, PipeMoved DEF Somewhere
<1> QED
  BY <1>1, <1>2, <1>3, <1>4, <1>5, <1>6, <1>7, <1>8, <1>9, <1>10, <1>11,
     <1>12, <1>13, <1>14, <1>15, <1>16, <1>17, <1>18, <1>19, <1>20, <1>21
     DEF Pipeline!Next, Pipeline!CallStep, Pipeline!WriterStep, Pipeline!ReaderStep,
         Pipeline!RunnerStep

LEMMA PipeOneWorks ==
  ASSUME Pipeline!TypeOK, Pipeline!RequestsAreHeld, Pipeline!OneWorks, Pipeline!Next,
         v2' <= 1
  PROVE  Pipeline!OneWorks'
<1> USE DEF Pipeline!chanVars, Pipeline!ends, Pipeline!callVars, Pipeline!Goto
<1>0. /\ v1 \in Pipeline!Pairs /\ v4 \in [Pipeline!Pairs -> Seq(Calls)]
      /\ v8 \in [Runners -> Pipeline!Pairs] /\ v9 \in [Runners -> Pipeline!Pairs]
      /\ v5 \in [Runners -> {"off", "dial", "work", "stopR", "stopW", "check"}]
      /\ v6 \in [Runners -> {"off", "start", "take", "write", "pass", "ended", "failed"}]
      /\ v7 \in [Runners -> {"off", "start", "take", "read", "ended", "failed"}]
      /\ v2 \in Nat
  BY PipelineAssumption DEF Pipeline!TypeOK, Pipeline!Pairs, Pipeline!Ended
<1>1. ASSUME NEW c \in Calls, Pipeline!Start(c) PROVE Pipeline!OneWorks'
  BY <1>0, <1>1 DEF Pipeline!Start, Pipeline!OneWorks, Pipeline!RequestsAreHeld
<1>2. ASSUME NEW c \in Calls, Pipeline!Initialised(c) PROVE Pipeline!OneWorks'
  BY <1>0, <1>2 DEF Pipeline!Initialised, Pipeline!OneWorks, Pipeline!RequestsAreHeld
<1>3. ASSUME NEW c \in Calls, Pipeline!Send(c) PROVE Pipeline!OneWorks'
  BY <1>0, <1>3 DEF Pipeline!Send, Pipeline!OneWorks, Pipeline!RequestsAreHeld
<1>4. ASSUME NEW c \in Calls, Pipeline!Overflow(c) PROVE Pipeline!OneWorks'
  BY <1>0, <1>4 DEF Pipeline!Overflow, Pipeline!OneWorks, Pipeline!RequestsAreHeld
<1>5. ASSUME NEW c \in Calls, Pipeline!SendAgain(c) PROVE Pipeline!OneWorks'
  BY <1>0, <1>5 DEF Pipeline!SendAgain, Pipeline!OneWorks, Pipeline!RequestsAreHeld
<1>6. ASSUME NEW c \in Calls, Pipeline!Return(c) PROVE Pipeline!OneWorks'
  BY <1>0, <1>6 DEF Pipeline!Return, Pipeline!OneWorks, Pipeline!RequestsAreHeld
<1>7. ASSUME NEW c \in Calls, Pipeline!TimesOut(c) PROVE Pipeline!OneWorks'
  BY <1>0, <1>7 DEF Pipeline!TimesOut, Pipeline!OneWorks, Pipeline!RequestsAreHeld
<1>8. ASSUME NEW r \in Runners, Pipeline!WriterStarts(r) PROVE Pipeline!OneWorks'
  BY <1>0, <1>8 DEF Pipeline!WriterStarts, Pipeline!OneWorks, Pipeline!RequestsAreHeld
<1>9. ASSUME NEW r \in Runners, Pipeline!Take(r) PROVE Pipeline!OneWorks'
  BY <1>0, <1>9 DEF Pipeline!Take, Pipeline!OneWorks, Pipeline!RequestsAreHeld
<1>10. ASSUME NEW r \in Runners, Pipeline!Write(r) PROVE Pipeline!OneWorks'
  <2>1. /\ UNCHANGED <<v1, v2, v4, v5, v7, v8, v9>> /\ v8[r] = v1
        /\ \A q \in Runners \ {r} : v6'[q] = v6[q]
    BY <1>0, <1>10 DEF Pipeline!Write, Pipeline!OneWorks
  <2> QED BY <2>1 DEF Pipeline!OneWorks
<1>11. ASSUME NEW r \in Runners, Pipeline!Pass(r) PROVE Pipeline!OneWorks'
  <2>1. /\ UNCHANGED <<v1, v2, v5, v7, v8, v9>> /\ v6[r] = "pass" /\ v8[r] # 0
        /\ \A q \in Runners \ {r} : v6'[q] = v6[q]
        /\ \A p \in Pipeline!Pairs \ {v8[r]} : v4'[p] = v4[p]
    BY <1>0, <1>11 DEF Pipeline!Pass
  <2>2. v8[r] = v1 /\ v5[r] \in {"work", "stopR", "stopW"}
    BY <1>0, <2>1 DEF Pipeline!OneWorks, Pipeline!RequestsAreHeld
  <2> QED BY <2>1, <2>2 DEF Pipeline!OneWorks
<1>12. ASSUME NEW r \in Runners, Pipeline!PassFails(r) PROVE Pipeline!OneWorks'
  BY <1>0, <1>12 DEF Pipeline!PassFails, Pipeline!OneWorks, Pipeline!RequestsAreHeld
<1>13. ASSUME NEW r \in Runners, Pipeline!WriterIdle(r) PROVE Pipeline!OneWorks'
  BY <1>0, <1>13 DEF Pipeline!WriterIdle, Pipeline!OneWorks, Pipeline!RequestsAreHeld
<1>14. ASSUME NEW r \in Runners, Pipeline!ReaderStarts(r) PROVE Pipeline!OneWorks'
  BY <1>0, <1>14 DEF Pipeline!ReaderStarts, Pipeline!OneWorks, Pipeline!RequestsAreHeld
<1>15. ASSUME NEW r \in Runners, Pipeline!ReaderTakes(r) PROVE Pipeline!OneWorks'
  BY <1>0, <1>15 DEF Pipeline!ReaderTakes, Pipeline!OneWorks, Pipeline!RequestsAreHeld
<1>16. ASSUME NEW r \in Runners, Pipeline!Read(r) PROVE Pipeline!OneWorks'
  <2>1. /\ UNCHANGED <<v1, v2, v4, v5, v6, v8, v9>> /\ v9[r] = v1
        /\ \A q \in Runners \ {r} : v7'[q] = v7[q]
    BY <1>0, <1>16 DEF Pipeline!Read, Pipeline!OneWorks
  <2> QED BY <2>1 DEF Pipeline!OneWorks
<1>17. ASSUME NEW r \in Runners, Pipeline!ReaderStops(r) PROVE Pipeline!OneWorks'
  BY <1>0, <1>17 DEF Pipeline!ReaderStops, Pipeline!OneWorks, Pipeline!RequestsAreHeld
<1>18. ASSUME NEW r \in Runners, Pipeline!Dial(r) PROVE Pipeline!OneWorks'
  BY <1>0, <1>18 DEF Pipeline!Dial, Pipeline!OneWorks, Pipeline!RequestsAreHeld
<1>19. ASSUME NEW r \in Runners, Pipeline!StopOther(r) PROVE Pipeline!OneWorks'
  <2>1. /\ UNCHANGED <<v1, v2, v4, v6, v7, v8, v9>>
        /\ v5[r] = "work" /\ v5'[r] \in {"stopR", "stopW"}
        /\ \A q \in Runners \ {r} : v5'[q] = v5[q]
    BY <1>0, <1>19 DEF Pipeline!StopOther
  <2> QED BY <2>1 DEF Pipeline!OneWorks
<1>20. ASSUME NEW r \in Runners, Pipeline!Drain(r) PROVE Pipeline!OneWorks'
  BY <1>0, <1>20 DEF Pipeline!Drain, Pipeline!OneWorks, Pipeline!RequestsAreHeld
<1>21. ASSUME NEW r \in Runners, Pipeline!Check(r) PROVE Pipeline!OneWorks'
  <2>1. /\ UNCHANGED <<v2, v4, v6, v7, v8, v9>> /\ v5[r] = "check"
        /\ v5'[r] \in {"off", "dial"} /\ \A q \in Runners \ {r} : v5'[q] = v5[q]
    BY <1>0, <1>21 DEF Pipeline!Check
  <2>2. \A q \in Runners \ {r} : v5[q] = "off"
    BY <2>1 DEF Pipeline!OneWorks
  <2>3. \A p \in Pipeline!Pairs : v4[p] = <<>>
    BY <2>1, <2>2 DEF Pipeline!OneWorks
  <2>4. \A q \in Runners : v6[q] = "off" /\ v7[q] = "off"
    BY <2>1, <2>2 DEF Pipeline!RequestsAreHeld
  <2> QED BY <2>1, <2>2, <2>3, <2>4 DEF Pipeline!OneWorks
<1> QED
  BY <1>1, <1>2, <1>3, <1>4, <1>5, <1>6, <1>7, <1>8, <1>9, <1>10, <1>11,
     <1>12, <1>13, <1>14, <1>15, <1>16, <1>17, <1>18, <1>19, <1>20, <1>21
     DEF Pipeline!Next, Pipeline!CallStep, Pipeline!WriterStep, Pipeline!ReaderStep,
         Pipeline!RunnerStep

(* Joined channels: what a request that moves on does to the order. *)
LEMMA PipeJoins ==
  ASSUME NEW a \in Seq(Calls), NEW b \in Seq(Calls)
  PROVE  /\ a \o b \in Seq(Calls) /\ a \o <<>> = a /\ <<>> \o a = a
         /\ \A c \in Seq(Calls) : (a \o b) \o c = a \o (b \o c)
         /\ \A w \in Calls : Append(a, w) = a \o <<w>> /\ <<w>> \in Seq(Calls)
<1>1. a \o b \in Seq(Calls)
  BY ConcatProperties
<1>2. a \o <<>> = a /\ <<>> \o a = a
  BY ConcatEmptySeq
<1>3. \A c \in Seq(Calls) : (a \o b) \o c = a \o (b \o c)
  BY ConcatAssociative
<1>4. \A w \in Calls : Append(a, w) = a \o <<w>>
  BY AppendIsConcat
<1>5. \A w \in Calls : <<w>> \in Seq(Calls)
  OBVIOUS
<1> QED BY <1>1, <1>2, <1>3, <1>4, <1>5

LEMMA PipeFirst ==
  ASSUME NEW a \in Seq(Calls), NEW w \in Calls
  PROVE  /\ <<w>> \o a # <<>> /\ Head(<<w>> \o a) = w /\ Tail(<<w>> \o a) = a
         /\ a # <<>> => a = <<Head(a)>> \o Tail(a)
<1>1. <<w>> \in Seq(Calls) /\ Len(<<w>>) = 1 /\ <<w>>[1] = w
  OBVIOUS
<1> DEFINE s == <<w>> \o a
<1>2. /\ s \in Seq(Calls) /\ Len(s) = 1 + Len(a)
      /\ \A i \in 1 .. 1 + Len(a) : s[i] = IF i <= 1 THEN <<w>>[i] ELSE a[i - 1]
  BY <1>1, ConcatProperties
<1> HIDE DEF s
<1>3. s # <<>> /\ Head(s) = w
  BY <1>1, <1>2
<1>4. Tail(s) = a
  <2>1. Tail(s) \in Seq(Calls) /\ Len(Tail(s)) = Len(a)
        /\ \A i \in 1 .. Len(Tail(s)) : Tail(s)[i] = s[i + 1]
    BY <1>2, <1>3, HeadTailProperties
  <2>2. \A i \in 1 .. Len(a) : Tail(s)[i] = a[i]
    BY <1>2, <2>1
  <2> QED BY ONLY <2>1, <2>2, a \in Seq(Calls), SeqEqual
<1>5. ASSUME a # <<>> PROVE a = <<Head(a)>> \o Tail(a)
  <2> DEFINE h == Head(a)  t == Tail(a)
  <2>1. /\ h \in Calls /\ t \in Seq(Calls) /\ Len(t) = Len(a) - 1 /\ h = a[1]
        /\ \A i \in 1 .. Len(t) : t[i] = a[i + 1]
    BY <1>5, HeadTailProperties
  <2> HIDE DEF h, t
  <2>2. <<h>> \in Seq(Calls) /\ Len(<<h>>) = 1 /\ <<h>>[1] = h
    BY <2>1
  <2>3. /\ <<h>> \o t \in Seq(Calls) /\ Len(<<h>> \o t) = 1 + Len(t)
        /\ \A i \in 1 .. 1 + Len(t) : (<<h>> \o t)[i] = IF i <= 1 THEN <<h>>[i] ELSE t[i - 1]
    BY <2>1, <2>2, ConcatProperties
  <2>4. Len(<<h>> \o t) = Len(a) /\ \A i \in 1 .. Len(a) : (<<h>> \o t)[i] = a[i]
    BY <2>1, <2>2, <2>3
  <2>5. a = <<h>> \o t
    BY ONLY <2>3, <2>4, a \in Seq(Calls), SeqEqual
  <2> QED BY <2>5 DEF h, t
<1> QED BY <1>3, <1>4, <1>5 DEF s

(* Lists of calls, whose laws are cited without what sequences are. *)
Nothing == <<>>
Alone(w) == <<w>>
Join(x, y) == x \o y
Lists == Seq(Calls)

LEMMA PipeJoin ==
  ASSUME NEW x \in Lists, NEW y \in Lists
  PROVE  /\ Join(x, y) \in Lists
         /\ \A z \in Lists : Join(Join(x, y), z) = Join(x, Join(y, z))
  BY PipeJoins DEF Join, Lists

LEMMA PipeNothing ==
  /\ Nothing \in Lists
  /\ \A x \in Lists : Join(x, Nothing) = x
  /\ \A x \in Lists : Join(Nothing, x) = x
<1>1. Nothing \in Lists
  BY DEF Nothing, Lists
<1>2. \A x \in Lists : Join(x, Nothing) = x
  BY PipeJoins DEF Nothing, Lists, Join
<1>3. \A x \in Lists : Join(Nothing, x) = x
  BY PipeJoins DEF Nothing, Lists, Join
<1> QED BY <1>1, <1>2, <1>3

LEMMA PipeAlone ==
  ASSUME NEW w \in Calls
  PROVE  /\ Alone(w) \in Lists
         /\ \A x \in Lists : Append(x, w) = Join(x, Alone(w))
         /\ \A x \in Lists : Head(Join(Alone(w), x)) = w /\ Tail(Join(Alone(w), x)) = x
<1>1. Alone(w) \in Lists
  BY DEF Alone, Lists
<1>2. \A x \in Lists : Append(x, w) = Join(x, Alone(w))
  BY PipeJoins DEF Alone, Lists, Join
<1>3. \A x \in Lists : Head(Join(Alone(w), x)) = w /\ Tail(Join(Alone(w), x)) = x
  BY PipeFirst DEF Alone, Lists, Join
<1> QED BY <1>1, <1>2, <1>3

LEMMA PipeSplit ==
  ASSUME NEW x \in Lists, x # Nothing
  PROVE  Head(x) \in Calls /\ Tail(x) \in Lists /\ x = Join(Alone(Head(x)), Tail(x))
  BY PipeSequences, PipeFirst DEF Nothing, Alone, Join, Lists

(* A request moves on: written, passed to the reader or not, taken by it,  *)
(* answered.                                                               *)
LEMMA PipeMoves ==
  ASSUME NEW h \in Lists, NEW c \in Lists, NEW w \in Calls
  PROVE  /\ Append(Join(Join(h, Join(c, Nothing)), Nothing), w)
              = Join(Join(h, Join(c, Alone(w))), Nothing)
         /\ Join(h, Join(c, Alone(w))) = Join(h, Join(Append(c, w), Nothing))
         /\ Join(Join(h, Join(c, Alone(w))), Nothing)
              = Join(Join(h, Join(c, Nothing)), Alone(w))
<1>1. Alone(w) \in Lists
  BY PipeAlone
<1>2. /\ Join(h, c) \in Lists /\ Join(c, Alone(w)) \in Lists
      /\ Join(Join(h, c), Alone(w)) = Join(h, Join(c, Alone(w)))
  BY <1>1, PipeJoin
<1>3. Join(h, Join(c, Alone(w))) \in Lists
  BY <1>2, PipeJoin
<1>4. /\ Join(c, Nothing) = c /\ Join(Join(h, c), Nothing) = Join(h, c)
      /\ Join(Join(c, Alone(w)), Nothing) = Join(c, Alone(w))
      /\ Join(Join(h, Join(c, Alone(w))), Nothing) = Join(h, Join(c, Alone(w)))
  BY <1>2, <1>3, PipeNothing
<1>5. Append(c, w) = Join(c, Alone(w)) /\ Append(Join(h, c), w) = Join(Join(h, c), Alone(w))
  BY <1>2, PipeAlone
<1> QED BY <1>2, <1>4, <1>5

LEMMA PipeTaken ==
  ASSUME NEW c \in Lists, NEW p \in Lists, NEW rest \in Lists
  PROVE  /\ c # Nothing =>
              Join(Nothing, Join(c, p)) = Join(Alone(Head(c)), Join(Tail(c), p))
         /\ \A w \in Calls :
              /\ Head(Join(Join(Alone(w), Join(c, p)), rest)) = w
              /\ Tail(Join(Join(Alone(w), Join(c, p)), rest))
                   = Join(Join(Nothing, Join(c, p)), rest)
<1>1. Join(c, p) \in Lists
  BY PipeJoin
<1>2. Join(Nothing, Join(c, p)) = Join(c, p) /\ Join(Join(c, p), rest) \in Lists
  BY <1>1, PipeJoin, PipeNothing
<1>3. ASSUME c # Nothing PROVE Join(c, p) = Join(Alone(Head(c)), Join(Tail(c), p))
  <2>1. Head(c) \in Calls /\ Tail(c) \in Lists /\ c = Join(Alone(Head(c)), Tail(c))
    BY <1>3, PipeSplit
  <2>2. Alone(Head(c)) \in Lists
    BY <2>1, PipeAlone
  <2>3. Join(Join(Alone(Head(c)), Tail(c)), p) = Join(Alone(Head(c)), Join(Tail(c), p))
    BY <2>1, <2>2, PipeJoin
  <2> QED BY <2>1, <2>3
<1>4. ASSUME NEW w \in Calls
      PROVE  /\ Head(Join(Join(Alone(w), Join(c, p)), rest)) = w
             /\ Tail(Join(Join(Alone(w), Join(c, p)), rest)) = Join(Join(c, p), rest)
  <2>1. Alone(w) \in Lists
    BY PipeAlone
  <2>2. Join(Join(Alone(w), Join(c, p)), rest) = Join(Alone(w), Join(Join(c, p), rest))
    BY <1>1, <2>1, PipeJoin
  <2>3. /\ Head(Join(Alone(w), Join(Join(c, p), rest))) = w
        /\ Tail(Join(Alone(w), Join(Join(c, p), rest))) = Join(Join(c, p), rest)
    BY <1>2, PipeAlone
  <2> QED BY <2>2, <2>3
<1> QED BY <1>2, <1>3, <1>4

LEMMA PipeOrder ==
  ASSUME Pipeline!TypeOK, Pipeline!RequestsAreHeld, Pipeline!OneWorks,
         Pipeline!ResponsesAreInOrder, Pipeline!Next, v2' <= 1
  PROVE  Pipeline!ResponsesAreInOrder'
<1> USE DEF Pipeline!chanVars, Pipeline!ends, Pipeline!callVars, Pipeline!Goto
<1>0. /\ v1 \in Pipeline!Pairs /\ v4 \in [Pipeline!Pairs -> Lists]
      /\ v8 \in [Runners -> Pipeline!Pairs] /\ v9 \in [Runners -> Pipeline!Pairs]
      /\ v5 \in [Runners -> {"off", "dial", "work", "stopR", "stopW", "check"}]
      /\ v6 \in [Runners -> {"off", "start", "take", "write", "pass", "ended", "failed"}]
      /\ v7 \in [Runners -> {"off", "start", "take", "read", "ended", "failed"}]
      /\ v10 \in [Runners -> Calls \cup {Nobody}] /\ v11 \in [Runners -> Calls \cup {Nobody}]
      /\ v12 \in [Runners -> Lists] /\ v2 \in Nat /\ v4[v1] \in Lists
  BY PipelineAssumption DEF Pipeline!TypeOK, Pipeline!Pairs, Lists, Pipeline!Ended
<1>n. /\ \A x : Pipeline!Held(x) = IF x = Nobody THEN Nothing ELSE Alone(x)
      /\ \A r \in Runners :
           /\ Pipeline!Passing(r) = IF v6[r] = "pass" THEN Alone(v10[r]) ELSE Nothing
           /\ Pipeline!Passing(r)' = IF v6'[r] = "pass" THEN Alone(v10'[r]) ELSE Nothing
  BY DEF Nothing, Alone, Pipeline!Held, Pipeline!Passing
<1>s. /\ Nothing \in Lists /\ \A w \in Calls : Alone(w) \in Lists /\ w # Nobody
  BY PipeAlone, PipeNothing, NobodyAssumption
<1>a. ASSUME NEW r \in Runners, v5[r] = "work", v7[r] # "failed"
      PROVE  \E h, p, rest \in Lists :
               /\ h = Pipeline!Held(v11[r]) /\ p = Pipeline!Passing(r)
               /\ v12[r] = Join(Join(h, Join(v4[v1], p)), rest)
               /\ v6[r] # "failed" => rest = Nothing
  <2>1. Pipeline!Held(v11[r]) \in Lists
    BY <1>0, <1>n, <1>s
  <2>a. v6[r] = "pass" => v10[r] \in Calls
    BY <1>0 DEF Pipeline!RequestsAreHeld
  <2>b. Pipeline!Passing(r) \in Lists
    BY <1>n, <1>s, <2>a
  <2>2. PICK rest \in Lists : /\ v12[r] = Join(Pipeline!Unanswered(r), rest)
                              /\ v6[r] # "failed" => rest = Nothing
    BY <1>a DEF Pipeline!ResponsesAreInOrder, Nothing, Join, Lists
  <2>3. Pipeline!Unanswered(r) = Join(Pipeline!Held(v11[r]), Join(v4[v1], Pipeline!Passing(r)))
    BY DEF Pipeline!Unanswered, Join
  <2>4. PICK h, p \in Lists : h = Pipeline!Held(v11[r]) /\ p = Pipeline!Passing(r)
    BY <2>1, <2>b
  <2>5. v12[r] = Join(Join(h, Join(v4[v1], p)), rest)
    BY <2>2, <2>3, <2>4
  <2> QED BY <2>2, <2>4, <2>5
<1>b. ASSUME UNCHANGED <<v1, v4, v5, v11, v12>>,
             \A q \in Runners : /\ v7'[q] # "failed" => v7[q] # "failed"
                                /\ v6'[q] # "failed" => v6[q] # "failed"
                                /\ Pipeline!Passing(q)' = Pipeline!Passing(q)
      PROVE  Pipeline!ResponsesAreInOrder'
  BY <1>b DEF Pipeline!ResponsesAreInOrder, Pipeline!Unanswered
<1>c. ASSUME NEW r \in Runners, v5[r] # "off", \A q \in Runners \ {r} : v5'[q] = v5[q],
             v5'[r] = "work" /\ v7'[r] # "failed" =>
               \E rest \in Lists :
                 /\ v12'[r] = Join(Pipeline!Unanswered(r)', rest)
                 /\ v6'[r] # "failed" => rest = Nothing
      PROVE  Pipeline!ResponsesAreInOrder'
  <2>1. \A q \in Runners \ {r} : v5'[q] = "off"
    BY <1>c DEF Pipeline!OneWorks
  <2> QED BY <1>c, <2>1 DEF Pipeline!ResponsesAreInOrder, Nothing, Join, Lists
<1>1. ASSUME NEW c \in Calls, Pipeline!Start(c) PROVE Pipeline!ResponsesAreInOrder'
  <2>1. v2 = 0 /\ \A q \in Runners : v5'[q] = v5[q] \/ v5'[q] = "dial"
    BY <1>0, <1>1 DEF Pipeline!Start
  <2>2. \A q \in Runners : v5'[q] # "work"
    BY <2>1 DEF Pipeline!OneWorks
  <2> QED BY <2>2 DEF Pipeline!ResponsesAreInOrder
<1>2. ASSUME NEW c \in Calls, Pipeline!Initialised(c) PROVE Pipeline!ResponsesAreInOrder'
  <2>1. UNCHANGED <<v1, v4, v5, v6, v7, v10, v11, v12>>
    BY <1>2 DEF Pipeline!Initialised
  <2> QED BY <2>1, <1>b DEF Pipeline!Passing
<1>3. ASSUME NEW c \in Calls, Pipeline!Send(c) PROVE Pipeline!ResponsesAreInOrder'
  <2>1. UNCHANGED <<v1, v4, v5, v6, v7, v10, v11, v12>>
    BY <1>3 DEF Pipeline!Send
  <2> QED BY <2>1, <1>b DEF Pipeline!Passing
<1>4. ASSUME NEW c \in Calls, Pipeline!Overflow(c) PROVE Pipeline!ResponsesAreInOrder'
  <2>1. UNCHANGED <<v1, v4, v5, v6, v7, v10, v11, v12>>
    BY <1>4 DEF Pipeline!Overflow
  <2> QED BY <2>1, <1>b DEF Pipeline!Passing
<1>5. ASSUME NEW c \in Calls, Pipeline!SendAgain(c) PROVE Pipeline!ResponsesAreInOrder'
  <2>1. UNCHANGED <<v1, v4, v5, v6, v7, v10, v11, v12>>
    BY <1>5 DEF Pipeline!SendAgain
  <2> QED BY <2>1, <1>b DEF Pipeline!Passing
<1>6. ASSUME NEW c \in Calls, Pipeline!Return(c) PROVE Pipeline!ResponsesAreInOrder'
  <2>1. UNCHANGED <<v1, v4, v5, v6, v7, v10, v11, v12>>
    BY <1>6 DEF Pipeline!Return
  <2> QED BY <2>1, <1>b DEF Pipeline!Passing
<1>7. ASSUME NEW c \in Calls, Pipeline!TimesOut(c) PROVE Pipeline!ResponsesAreInOrder'
  <2>1. UNCHANGED <<v1, v4, v5, v6, v7, v10, v11, v12>>
    BY <1>7 DEF Pipeline!TimesOut
  <2> QED BY <2>1, <1>b DEF Pipeline!Passing
<1>8. ASSUME NEW r \in Runners, Pipeline!WriterStarts(r) PROVE Pipeline!ResponsesAreInOrder'
  <2>1. /\ UNCHANGED <<v1, v4, v5, v7, v11, v12>>
        /\ v6[r] # "failed" /\ v6'[r] # "failed" /\ v6[r] # "pass" /\ v6'[r] # "pass"
        /\ \A q \in Runners \ {r} : v6'[q] = v6[q] /\ v10'[q] = v10[q]
    BY <1>0, <1>8 DEF Pipeline!WriterStarts
  <2> QED BY <2>1, <1>b DEF Pipeline!Passing
<1>9. ASSUME NEW r \in Runners, Pipeline!Take(r) PROVE Pipeline!ResponsesAreInOrder'
  <2>1. /\ UNCHANGED <<v1, v4, v5, v7, v11, v12>>
        /\ v6[r] # "failed" /\ v6'[r] # "failed" /\ v6[r] # "pass" /\ v6'[r] # "pass"
        /\ \A q \in Runners \ {r} : v6'[q] = v6[q] /\ v10'[q] = v10[q]
    BY <1>0, <1>9 DEF Pipeline!Take
  <2> QED BY <2>1, <1>b DEF Pipeline!Passing
<1>10. ASSUME NEW r \in Runners, Pipeline!Write(r) PROVE Pipeline!ResponsesAreInOrder'
  <2>h. CASE v5[r] # "work" \/ v7'[r] = "failed"
    <3>1. v5' = v5 /\ v5[r] # "off"
      BY <1>0, <1>10 DEF Pipeline!Write, Pipeline!RequestsAreHeld
    <3> QED BY <2>h, <3>1, <1>c
  <2> SUFFICES ASSUME v5[r] = "work", v7'[r] # "failed" PROVE Pipeline!ResponsesAreInOrder'
    BY <2>h
  <2>1. /\ UNCHANGED <<v1, v4, v5, v7, v11>> /\ v6[r] = "write" /\ v7[r] # "failed"
        /\ \/ /\ v12'[r] = Append(v12[r], v10[r]) /\ v6'[r] = "pass" /\ v10' = v10
           \/ v12'[r] = v12[r] /\ v6'[r] = "failed"
    BY <1>0, <1>10 DEF Pipeline!Write
  <2>2. PICK h, p, rest \in Lists :
          /\ h = Pipeline!Held(v11[r]) /\ p = Pipeline!Passing(r)
          /\ v12[r] = Join(Join(h, Join(v4[v1], p)), rest)
          /\ v6[r] # "failed" => rest = Nothing
    BY <1>a, <2>1
  <2>3. p = Nothing /\ rest = Nothing /\ v10[r] \in Calls
    BY <1>0, <1>n, <2>1, <2>2 DEF Pipeline!RequestsAreHeld
  <2>4. PICK c \in Lists, w \in Calls : c = v4[v1] /\ w = v10[r]
    BY <1>0, <2>3
  <2>5. CASE v12'[r] = Append(v12[r], v10[r]) /\ v6'[r] = "pass" /\ v10' = v10
    <3>1. Pipeline!Unanswered(r)' = Join(h, Join(c, Alone(w)))
      BY <1>n, <2>1, <2>2, <2>4, <2>5 DEF Pipeline!Unanswered, Join
    <3>2. v12'[r] = Append(Join(Join(h, Join(c, Nothing)), Nothing), w)
      BY <2>2, <2>3, <2>4, <2>5
    <3>a. Append(Join(Join(h, Join(c, Nothing)), Nothing), w)
            = Join(Join(h, Join(c, Alone(w))), Nothing)
      BY PipeMoves
    <3>3. v12'[r] = Join(Pipeline!Unanswered(r)', Nothing)
      BY <3>1, <3>2, <3>a
    <3> QED BY <1>c, <1>s, <2>1, <3>3
  <2>6. CASE v12'[r] = v12[r] /\ v6'[r] = "failed"
    <3>1. Pipeline!Unanswered(r)' = Join(h, Join(c, p))
      BY <1>n, <2>1, <2>2, <2>3, <2>4, <2>6 DEF Pipeline!Unanswered, Join
    <3> QED BY <1>c, <2>1, <2>2, <2>4, <2>6, <3>1
  <2> QED BY <2>1, <2>5, <2>6
<1>11. ASSUME NEW r \in Runners, Pipeline!Pass(r) PROVE Pipeline!ResponsesAreInOrder'
  <2>h. CASE v5[r] # "work" \/ v7'[r] = "failed"
    <3>1. v5' = v5 /\ v5[r] # "off"
      BY <1>0, <1>11 DEF Pipeline!Pass, Pipeline!RequestsAreHeld
    <3> QED BY <2>h, <3>1, <1>c
  <2> SUFFICES ASSUME v5[r] = "work", v7'[r] # "failed" PROVE Pipeline!ResponsesAreInOrder'
    BY <2>h
  <2>1. /\ UNCHANGED <<v1, v5, v7, v11, v12>> /\ v6[r] = "pass" /\ v7[r] # "failed"
        /\ v8[r] = v1 /\ v6'[r] = "take" /\ v10[r] \in Calls
        /\ v4'[v1] = Append(v4[v1], v10[r])
    BY <1>0, <1>11 DEF Pipeline!Pass, Pipeline!OneWorks, Pipeline!RequestsAreHeld
  <2>2. PICK h, p, rest \in Lists :
          /\ h = Pipeline!Held(v11[r]) /\ p = Pipeline!Passing(r)
          /\ v12[r] = Join(Join(h, Join(v4[v1], p)), rest)
          /\ v6[r] # "failed" => rest = Nothing
    BY <1>a, <2>1
  <2>3. PICK c \in Lists, w \in Calls : c = v4[v1] /\ w = v10[r]
    BY <1>0, <2>1
  <2>4. p = Alone(w)
    BY <1>n, <2>1, <2>2, <2>3
  <2>5. Pipeline!Unanswered(r)' = Join(h, Join(Append(c, w), Nothing))
    BY <1>n, <2>1, <2>2, <2>3 DEF Pipeline!Unanswered, Join
  <2>6. Pipeline!Unanswered(r)' = Join(h, Join(c, p))
    BY <2>4, <2>5, PipeMoves
  <2> QED BY <1>c, <2>1, <2>2, <2>3, <2>6
<1>12. ASSUME NEW r \in Runners, Pipeline!PassFails(r) PROVE Pipeline!ResponsesAreInOrder'
  <2>h. CASE v5[r] # "work" \/ v7'[r] = "failed"
    <3>1. v5' = v5 /\ v5[r] # "off"
      BY <1>0, <1>12 DEF Pipeline!PassFails, Pipeline!RequestsAreHeld
    <3> QED BY <2>h, <3>1, <1>c
  <2> SUFFICES ASSUME v5[r] = "work", v7'[r] # "failed" PROVE Pipeline!ResponsesAreInOrder'
    BY <2>h
  <2>1. /\ UNCHANGED <<v1, v4, v5, v7, v11, v12>> /\ v6[r] = "pass" /\ v7[r] # "failed"
        /\ v6'[r] = "failed" /\ v10[r] \in Calls
    BY <1>0, <1>12 DEF Pipeline!PassFails, Pipeline!RequestsAreHeld
  <2>2. PICK h, p, rest \in Lists :
          /\ h = Pipeline!Held(v11[r]) /\ p = Pipeline!Passing(r)
          /\ v12[r] = Join(Join(h, Join(v4[v1], p)), rest)
          /\ v6[r] # "failed" => rest = Nothing
    BY <1>a, <2>1
  <2>3. PICK c \in Lists, w \in Calls : c = v4[v1] /\ w = v10[r]
    BY <1>0, <2>1
  <2>4. p = Alone(w) /\ rest = Nothing
    BY <1>n, <2>1, <2>2, <2>3
  <2>5. Pipeline!Unanswered(r)' = Join(h, Join(c, Nothing))
    BY <1>n, <2>1, <2>2, <2>3 DEF Pipeline!Unanswered, Join
  <2>6. v12'[r] = Join(Join(h, Join(c, Alone(w))), Nothing)
    BY <2>1, <2>2, <2>3, <2>4
  <2>7. v12'[r] = Join(Pipeline!Unanswered(r)', Alone(w))
    BY <2>5, <2>6, PipeMoves
  <2> QED BY <1>c, <1>s, <2>1, <2>7
<1>13. ASSUME NEW r \in Runners, Pipeline!WriterIdle(r) PROVE Pipeline!ResponsesAreInOrder'
  <2>1. /\ UNCHANGED <<v1, v4, v5, v7, v11, v12>>
        /\ v6[r] # "failed" /\ v6'[r] # "failed" /\ v6[r] # "pass" /\ v6'[r] # "pass"
        /\ \A q \in Runners \ {r} : v6'[q] = v6[q] /\ v10'[q] = v10[q]
    BY <1>0, <1>13 DEF Pipeline!WriterIdle
  <2> QED BY <2>1, <1>b DEF Pipeline!Passing
<1>14. ASSUME NEW r \in Runners, Pipeline!ReaderStarts(r) PROVE Pipeline!ResponsesAreInOrder'
  <2>1. /\ UNCHANGED <<v1, v4, v5, v6, v10, v11, v12>> /\ v7[r] # "failed"
        /\ \A q \in Runners \ {r} : v7'[q] = v7[q]
    BY <1>0, <1>14 DEF Pipeline!ReaderStarts
  <2> QED BY <2>1, <1>b DEF Pipeline!Passing
<1>15. ASSUME NEW r \in Runners, Pipeline!ReaderTakes(r) PROVE Pipeline!ResponsesAreInOrder'
  <2>h. CASE v5[r] # "work" \/ v7'[r] = "failed"
    <3>1. v5' = v5 /\ v5[r] # "off"
      BY <1>0, <1>15 DEF Pipeline!ReaderTakes, Pipeline!RequestsAreHeld
    <3> QED BY <2>h, <3>1, <1>c
  <2> SUFFICES ASSUME v5[r] = "work", v7'[r] # "failed" PROVE Pipeline!ResponsesAreInOrder'
    BY <2>h
  <2>1. /\ UNCHANGED <<v1, v5, v6, v10, v12>> /\ v7[r] = "take" /\ v7'[r] = "read"
        /\ v9[r] = v1 /\ v4[v1] # <<>> /\ v11'[r] = Head(v4[v1]) /\ v11[r] = Nobody
        /\ v4'[v1] = Tail(v4[v1])
    BY <1>0, <1>15 DEF Pipeline!ReaderTakes, Pipeline!OneWorks, Pipeline!RequestsAreHeld
  <2>2. PICK h, p, rest \in Lists :
          /\ h = Pipeline!Held(v11[r]) /\ p = Pipeline!Passing(r)
          /\ v12[r] = Join(Join(h, Join(v4[v1], p)), rest)
          /\ v6[r] # "failed" => rest = Nothing
    BY <1>a, <2>1
  <2>3. PICK c \in Lists : c = v4[v1] /\ c # Nothing
    BY <1>0, <2>1 DEF Nothing
  <2>4. h = Nothing /\ Head(c) \in Calls
    BY <1>0, <1>n, <2>1, <2>2, <2>3, PipeSplit
  <2>5. Pipeline!Unanswered(r)' = Join(Alone(Head(c)), Join(Tail(c), p))
    BY <1>n, <1>s, <2>1, <2>2, <2>3, <2>4 DEF Pipeline!Unanswered, Join
  <2>6. Pipeline!Unanswered(r)' = Join(h, Join(c, p))
    BY <2>3, <2>4, <2>5, PipeTaken
  <2> QED BY <1>c, <2>1, <2>2, <2>3, <2>6
<1>16. ASSUME NEW r \in Runners, Pipeline!Read(r) PROVE Pipeline!ResponsesAreInOrder'
  <2>h. CASE v5[r] # "work" \/ v7'[r] = "failed"
    <3>1. v5' = v5 /\ v5[r] # "off"
      BY <1>0, <1>16 DEF Pipeline!Read, Pipeline!RequestsAreHeld
    <3> QED BY <2>h, <3>1, <1>c
  <2> SUFFICES ASSUME v5[r] = "work", v7'[r] # "failed" PROVE Pipeline!ResponsesAreInOrder'
    BY <2>h
  <2>1. /\ UNCHANGED <<v1, v4, v5, v6, v10>> /\ v7[r] = "read" /\ v7'[r] = "take"
        /\ v11[r] \in Calls /\ v11'[r] = Nobody /\ v12'[r] = Tail(v12[r])
    BY <1>0, <1>16 DEF Pipeline!Read, Pipeline!RequestsAreHeld
  <2>2. PICK h, p, rest \in Lists :
          /\ h = Pipeline!Held(v11[r]) /\ p = Pipeline!Passing(r)
          /\ v12[r] = Join(Join(h, Join(v4[v1], p)), rest)
          /\ v6[r] # "failed" => rest = Nothing
    BY <1>a, <2>1
  <2>3. PICK c \in Lists, w \in Calls : c = v4[v1] /\ w = v11[r]
    BY <1>0, <2>1
  <2>4. h = Alone(w)
    BY <1>n, <1>s, <2>2, <2>3
  <2>5. Pipeline!Unanswered(r)' = Join(Nothing, Join(c, p))
    BY <1>n, <2>1, <2>2, <2>3 DEF Pipeline!Unanswered, Join
  <2>6. v12'[r] = Tail(Join(Join(Alone(w), Join(c, p)), rest))
    BY <2>1, <2>2, <2>3, <2>4
  <2>7. v12'[r] = Join(Pipeline!Unanswered(r)', rest)
    BY <2>5, <2>6, PipeTaken
  <2> QED BY <1>c, <2>1, <2>2, <2>7
<1>17. ASSUME NEW r \in Runners, Pipeline!ReaderStops(r) PROVE Pipeline!ResponsesAreInOrder'
  <2>1. /\ UNCHANGED <<v1, v4, v5, v6, v10, v11, v12>> /\ v7[r] # "failed"
        /\ \A q \in Runners \ {r} : v7'[q] = v7[q]
    BY <1>0, <1>17 DEF Pipeline!ReaderStops
  <2> QED BY <2>1, <1>b DEF Pipeline!Passing
<1>18. ASSUME NEW r \in Runners, Pipeline!Dial(r) PROVE Pipeline!ResponsesAreInOrder'
  <2>1. /\ v5[r] = "dial" /\ v5'[r] = "work" /\ \A q \in Runners \ {r} : v5'[q] = v5[q]
        /\ UNCHANGED <<v1, v4, v10, v11>> /\ v6'[r] = "start" /\ v12'[r] = Nothing
    BY <1>0, <1>18 DEF Pipeline!Dial, Nothing
  <2>2. v4[v1] = Nothing
    BY <1>0, <2>1 DEF Pipeline!OneWorks, Nothing
  <2>3. v11[r] = Nobody
    BY <2>1 DEF Pipeline!RequestsAreHeld
  <2>c. v11'[r] = Nobody /\ v6'[r] # "pass" /\ v4'[v1'] = v4[v1]
    BY <2>1, <2>3
  <2>4. Pipeline!Held(v11'[r]) = Nothing /\ Pipeline!Passing(r)' = Nothing /\ v4'[v1'] = Nothing
    BY <1>n, <2>2, <2>c
  <2>a. Pipeline!Unanswered(r)'
          = Join(Pipeline!Held(v11'[r]), Join(v4'[v1'], Pipeline!Passing(r)'))
    BY DEF Pipeline!Unanswered, Join
  <2>b. Join(Nothing, Nothing) = Nothing
    BY PipeNothing
  <2>d. Pipeline!Unanswered(r)' = Join(Nothing, Join(Nothing, Nothing))
    BY <2>4, <2>a
  <2>5. v12'[r] = Join(Pipeline!Unanswered(r)', Nothing)
    BY <2>1, <2>b, <2>d
  <2> QED BY <1>c, <1>s, <2>1, <2>5
<1>19. ASSUME NEW r \in Runners, Pipeline!StopOther(r) PROVE Pipeline!ResponsesAreInOrder'
  <2>1. v5[r] # "off" /\ v5'[r] # "work" /\ \A q \in Runners \ {r} : v5'[q] = v5[q]
    BY <1>0, <1>19 DEF Pipeline!StopOther
  <2> QED BY <2>1, <1>c
<1>20. ASSUME NEW r \in Runners, Pipeline!Drain(r) PROVE Pipeline!ResponsesAreInOrder'
  <2>1. v5[r] # "off" /\ v5'[r] # "work" /\ \A q \in Runners \ {r} : v5'[q] = v5[q]
    BY <1>0, <1>20 DEF Pipeline!Drain
  <2> QED BY <2>1, <1>c
<1>21. ASSUME NEW r \in Runners, Pipeline!Check(r) PROVE Pipeline!ResponsesAreInOrder'
  <2>1. v5[r] # "off" /\ v5'[r] # "work" /\ \A q \in Runners \ {r} : v5'[q] = v5[q]
    BY <1>0, <1>21 DEF Pipeline!Check
  <2> QED BY <2>1, <1>c
<1> QED
  BY <1>1, <1>2, <1>3, <1>4, <1>5, <1>6, <1>7, <1>8, <1>9, <1>10, <1>11,
     <1>12, <1>13, <1>14, <1>15, <1>16, <1>17, <1>18, <1>19, <1>20, <1>21
     DEF Pipeline!Next, Pipeline!CallStep, Pipeline!WriterStep, Pipeline!ReaderStep,
         Pipeline!RunnerStep

(* No pair of channels is unmade, and only a reader gives a response. *)
LEMMA PipeMade ==
  ASSUME Pipeline!TypeOK, Pipeline!Next PROVE v2 <= v2'
<1>1. v2 \in Nat /\ (v2' = v2 \/ v2' = v2 + 1)
  BY DEF Pipeline!TypeOK, Pipeline!chanVars, Pipeline!Next, Pipeline!CallStep,
         Pipeline!WriterStep, Pipeline!ReaderStep, Pipeline!RunnerStep,
         Pipeline!Start, Pipeline!Initialised, Pipeline!Send, Pipeline!Overflow,
         Pipeline!SendAgain, Pipeline!Return, Pipeline!TimesOut,
         Pipeline!WriterStarts, Pipeline!Take, Pipeline!Write, Pipeline!Pass,
         Pipeline!PassFails, Pipeline!WriterIdle, Pipeline!ReaderStarts,
         Pipeline!ReaderTakes, Pipeline!Read, Pipeline!ReaderStops, Pipeline!Dial,
         Pipeline!StopOther, Pipeline!Drain, Pipeline!Check
<1> QED BY <1>1

LEMMA PipeMatch ==
  ASSUME Pipeline!TypeOK, Pipeline!RequestsAreHeld, Pipeline!ResponsesMatch,
         v2 <= 1 => Pipeline!ResponsesAreInOrder, Pipeline!Next, v2' <= 1
  PROVE  Pipeline!ResponsesMatch'
<1> USE DEF Pipeline!chanVars, Pipeline!ends, Pipeline!callVars, Pipeline!Goto
<1>0. /\ v2 \in Nat /\ v12 \in [Runners -> Lists] /\ v4[v1] \in Lists
      /\ v10 \in [Runners -> Calls \cup {Nobody}] /\ v11 \in [Runners -> Calls \cup {Nobody}]
  BY PipelineAssumption DEF Pipeline!TypeOK, Pipeline!Pairs, Lists
<1>m. v2 <= 1 /\ v2' \in Nat
  <2>1. v2 <= v2' /\ v2' \in Nat
    BY PipeMade, PipeTypes DEF Pipeline!TypeOK
  <2> QED BY <1>0, <2>1
<1>a. \A c \in Calls : v15[c] \in {Nobody, Stopped, c}
  BY <1>0, <1>m DEF Pipeline!ResponsesMatch, Pipeline!Shared
<1>b. ASSUME v15' = v15 PROVE Pipeline!ResponsesMatch'
  BY <1>a, <1>b DEF Pipeline!ResponsesMatch
<1>c. ASSUME NEW cs, Pipeline!Finish(cs, Stopped) PROVE Pipeline!ResponsesMatch'
  <2>1. \A c \in Calls : v15'[c] = Stopped \/ v15'[c] = v15[c]
    BY <1>c, PipeAnswers
  <2> QED BY <1>a, <2>1 DEF Pipeline!ResponsesMatch
<1>1. ASSUME NEW c \in Calls, Pipeline!Start(c) PROVE Pipeline!ResponsesMatch'
  BY <1>b, <1>1 DEF Pipeline!Start
<1>2. ASSUME NEW c \in Calls, Pipeline!Initialised(c) PROVE Pipeline!ResponsesMatch'
  BY <1>b, <1>2 DEF Pipeline!Initialised
<1>3. ASSUME NEW c \in Calls, Pipeline!Send(c) PROVE Pipeline!ResponsesMatch'
  BY <1>b, <1>3 DEF Pipeline!Send
<1>4. ASSUME NEW c \in Calls, Pipeline!Overflow(c) PROVE Pipeline!ResponsesMatch'
  BY <1>b, <1>c, <1>4 DEF Pipeline!Overflow
<1>5. ASSUME NEW c \in Calls, Pipeline!SendAgain(c) PROVE Pipeline!ResponsesMatch'
  BY <1>b, <1>5 DEF Pipeline!SendAgain
<1>6. ASSUME NEW c \in Calls, Pipeline!Return(c) PROVE Pipeline!ResponsesMatch'
  BY <1>b, <1>6 DEF Pipeline!Return
<1>7. ASSUME NEW c \in Calls, Pipeline!TimesOut(c) PROVE Pipeline!ResponsesMatch'
  BY <1>b, <1>7 DEF Pipeline!TimesOut
<1>8. ASSUME NEW r \in Runners, Pipeline!WriterStarts(r) PROVE Pipeline!ResponsesMatch'
  BY <1>b, <1>8 DEF Pipeline!WriterStarts
<1>9. ASSUME NEW r \in Runners, Pipeline!Take(r) PROVE Pipeline!ResponsesMatch'
  BY <1>b, <1>c, <1>9 DEF Pipeline!Take
<1>10. ASSUME NEW r \in Runners, Pipeline!Write(r) PROVE Pipeline!ResponsesMatch'
  BY <1>b, <1>c, <1>10 DEF Pipeline!Write
<1>11. ASSUME NEW r \in Runners, Pipeline!Pass(r) PROVE Pipeline!ResponsesMatch'
  BY <1>b, <1>11 DEF Pipeline!Pass
<1>12. ASSUME NEW r \in Runners, Pipeline!PassFails(r) PROVE Pipeline!ResponsesMatch'
  BY <1>b, <1>c, <1>12 DEF Pipeline!PassFails
<1>13. ASSUME NEW r \in Runners, Pipeline!WriterIdle(r) PROVE Pipeline!ResponsesMatch'
  BY <1>b, <1>13 DEF Pipeline!WriterIdle
<1>14. ASSUME NEW r \in Runners, Pipeline!ReaderStarts(r) PROVE Pipeline!ResponsesMatch'
  BY <1>b, <1>14 DEF Pipeline!ReaderStarts
<1>15. ASSUME NEW r \in Runners, Pipeline!ReaderTakes(r) PROVE Pipeline!ResponsesMatch'
  BY <1>b, <1>15 DEF Pipeline!ReaderTakes
<1>16. ASSUME NEW r \in Runners, Pipeline!Read(r) PROVE Pipeline!ResponsesMatch'
  <2>1. CASE Pipeline!Finish({v11[r]}, Stopped)
    BY <1>c, <2>1
  <2>2. CASE /\ v12[r] # <<>> /\ v5[r] = "work" /\ Pipeline!Finish({v11[r]}, Head(v12[r]))
    <3>1. v7[r] = "read" /\ v11[r] \in Calls
      BY <1>0, <1>16 DEF Pipeline!Read, Pipeline!RequestsAreHeld
    <3>2. PICK rest \in Lists : v12[r] = Join(Pipeline!Unanswered(r), rest)
      BY <1>m, <2>2, <3>1 DEF Pipeline!ResponsesAreInOrder, Join, Lists
    <3>3. /\ Pipeline!Passing(r) = IF v6[r] = "pass" THEN Alone(v10[r]) ELSE Nothing
          /\ Pipeline!Held(v11[r]) = Alone(v11[r])
      BY <3>1, NobodyAssumption DEF Pipeline!Passing, Pipeline!Held, Nothing, Alone
    <3>9. v6[r] = "pass" => v10[r] \in Calls
      BY <1>0 DEF Pipeline!RequestsAreHeld
    <3>a. Pipeline!Passing(r) \in Lists
      BY <3>3, <3>9, PipeAlone, PipeNothing
    <3>4. PICK c \in Lists, p \in Lists, w \in Calls :
            c = v4[v1] /\ p = Pipeline!Passing(r) /\ w = v11[r]
      BY <1>0, <3>1, <3>a
    <3>5. v12[r] = Join(Join(Alone(w), Join(c, p)), rest)
      BY <3>2, <3>3, <3>4 DEF Pipeline!Unanswered, Join
    <3>6. Head(v12[r]) = w
      BY <3>5, PipeTaken
    <3>7. Pipeline!Finish({w}, w)
      BY <2>2, <3>4, <3>6
    <3>8. \A d \in Calls : v15'[d] = v15[d] \/ (d = w /\ v15'[d] = w)
      BY <3>7, PipeAnswers
    <3> QED BY <1>a, <3>8 DEF Pipeline!ResponsesMatch
  <2> QED BY <1>16, <2>1, <2>2 DEF Pipeline!Read
<1>17. ASSUME NEW r \in Runners, Pipeline!ReaderStops(r) PROVE Pipeline!ResponsesMatch'
  BY <1>b, <1>17 DEF Pipeline!ReaderStops
<1>18. ASSUME NEW r \in Runners, Pipeline!Dial(r) PROVE Pipeline!ResponsesMatch'
  BY <1>b, <1>18 DEF Pipeline!Dial
<1>19. ASSUME NEW r \in Runners, Pipeline!StopOther(r) PROVE Pipeline!ResponsesMatch'
  BY <1>b, <1>19 DEF Pipeline!StopOther
<1>20. ASSUME NEW r \in Runners, Pipeline!Drain(r) PROVE Pipeline!ResponsesMatch'
  BY <1>b, <1>c, <1>20 DEF Pipeline!Drain
<1>21. ASSUME NEW r \in Runners, Pipeline!Check(r) PROVE Pipeline!ResponsesMatch'
  BY <1>b, <1>21 DEF Pipeline!Check
<1> QED
  BY <1>1, <1>2, <1>3, <1>4, <1>5, <1>6, <1>7, <1>8, <1>9, <1>10, <1>11,
     <1>12, <1>13, <1>14, <1>15, <1>16, <1>17, <1>18, <1>19, <1>20, <1>21
     DEF Pipeline!Next, Pipeline!CallStep, Pipeline!WriterStep, Pipeline!ReaderStep,
         Pipeline!RunnerStep

LEMMA PipeStep == ASSUME Pipeline!Inv, Pipeline!Next PROVE Pipeline!Inv'
<1> USE DEF Pipeline!Inv
<1>1. Pipeline!TypeOK' /\ Pipeline!RequestsAreHeld' /\ Pipeline!NoRequestIsDropped'
  BY PipeTypes, PipeHeld, PipeDropped
<1>2. v2 \in Nat /\ v2' \in Nat /\ v2 <= v2'
  BY <1>1, PipeMade DEF Pipeline!TypeOK
<1>3. CASE v2' > 1
  BY <1>1, <1>3 DEF Pipeline!Shared, Pipeline!ResponsesMatch
<1>4. CASE v2' <= 1
  <2>1. ~ Pipeline!Shared /\ Pipeline!OneWorks /\ Pipeline!ResponsesAreInOrder
    BY <1>2, <1>4 DEF Pipeline!Shared
  <2>2. Pipeline!OneWorks' /\ Pipeline!ResponsesAreInOrder' /\ Pipeline!ResponsesMatch'
    BY <1>4, <2>1, PipeOneWorks, PipeOrder, PipeMatch
  <2> QED BY <1>1, <2>2
<1> QED BY <1>2, <1>3, <1>4

LEMMA PipeStutter == ASSUME Pipeline!Inv, UNCHANGED Pipeline!vars PROVE Pipeline!Inv'
<1> USE DEF Pipeline!vars, Pipeline!chanVars, Pipeline!ends, Pipeline!callVars
<1>1. Pipeline!TypeOK' /\ Pipeline!RequestsAreHeld'
  BY DEF Pipeline!Inv, Pipeline!TypeOK, Pipeline!RequestsAreHeld
<1>2. Pipeline!NoRequestIsDropped' /\ Pipeline!ResponsesMatch'
  BY DEF Pipeline!Inv, Pipeline!NoRequestIsDropped, Pipeline!ResponsesMatch, Pipeline!Shared
<1>3. ~ Pipeline!Shared' => Pipeline!OneWorks' /\ Pipeline!ResponsesAreInOrder'
  BY DEF Pipeline!Inv, Pipeline!Shared, Pipeline!OneWorks, Pipeline!ResponsesAreInOrder,
         Pipeline!Unanswered, Pipeline!Passing
<1> QED BY <1>1, <1>2, <1>3 DEF Pipeline!Inv

-----------------------------------------------------------------------------
(* In-memory connections (Pipe)                                            *)

LEMMA MemoryUnits ==
  /\ \A a \in Int : PipeUnits * a \in Int /\ PipeUnits * (a + 1) = PipeUnits * a + PipeUnits
  /\ PipeUnits * 0 = 0
  /\ \A a, b \in Int : a < b => PipeUnits * a + PipeUnits <= PipeUnits * b
<1>1. PipeUnits \in Int /\ PipeUnits > 0
  BY PipeAssumption
<1>2. \A a \in Int : PipeUnits * a \in Int /\ PipeUnits * (a + 1) = PipeUnits * a + PipeUnits
  BY <1>1
<1>3. ASSUME NEW a \in Int, NEW b \in Int, a < b
      PROVE  PipeUnits * a + PipeUnits <= PipeUnits * b
  <2>1. PICK d \in Nat : b = a + 1 + d
    <3>1. b - a - 1 \in Nat /\ b = a + 1 + (b - a - 1)
      BY <1>3
    <3> QED BY <3>1
  <2>2. PipeUnits * b = PipeUnits * a + PipeUnits + PipeUnits * d
    BY <1>1, <2>1
  <2>3. PipeUnits * d \in Nat
    BY <1>1
  <2> QED BY <1>1, <1>2, <2>2, <2>3
<1> QED BY <1>1, <1>2, <1>3

LEMMA MemoryUnitsUpTo ==
  ASSUME NEW a \in Int, NEW b \in Int, a <= b
  PROVE  PipeUnits * a \in Int /\ PipeUnits * b \in Int /\ PipeUnits * a <= PipeUnits * b
<1> DEFINE upTo(x) == PipeUnits * x
<1>1. PipeUnits \in Nat /\ upTo(a) \in Int /\ upTo(b) \in Int
  BY PipeAssumption, MemoryUnits
<1>2. a < b => upTo(a) + PipeUnits <= upTo(b)
  BY MemoryUnits
<1> HIDE DEF upTo
<1>3. upTo(a) <= upTo(b)
  BY <1>1, <1>2
<1> QED BY <1>1, <1>3 DEF upTo

(* A unit belongs to one Write. *)
LEMMA MemoryUnitsDiffer ==
  ASSUME NEW k \in Int, NEW t \in Int, NEW i \in Int,
         PipeUnits * (k - 1) < i, i <= PipeUnits * k,
         PipeUnits * t - PipeUnits < i, i <= PipeUnits * t
  PROVE  k = t
<1> DEFINE upTo(x) == PipeUnits * x
<1>1. /\ PipeUnits \in Int /\ upTo(k - 1) \in Int /\ upTo(k) \in Int /\ upTo(t) \in Int
      /\ upTo(k - 1) < i /\ i <= upTo(k) /\ upTo(t) - PipeUnits < i /\ i <= upTo(t)
  BY PipeAssumption, MemoryUnits
<1>2. /\ k < t => upTo(k) + PipeUnits <= upTo(t)
      /\ t <= k - 1 => upTo(t) <= upTo(k - 1)
  <2>1. k < t => upTo(k) + PipeUnits <= upTo(t)
    BY MemoryUnits
  <2>2. k - 1 \in Int
    OBVIOUS
  <2>3. t <= k - 1 => upTo(t) <= upTo(k - 1)
    BY <2>2, MemoryUnitsUpTo
  <2> QED BY <2>1, <2>3
<1> HIDE DEF upTo
<1>3. ~ k < t
  BY <1>1, <1>2
<1>4. ~ t <= k - 1
  BY <1>1, <1>2
<1> QED BY <1>3, <1>4

(* The laws of sequences that the steps of a pipe need. *)
LEMMA MemorySequence ==
  ASSUME NEW S, NEW s \in Seq(S)
  PROVE  Len(s) \in Nat /\ DOMAIN s = 1 .. Len(s) /\ \A i \in DOMAIN s : s[i] \in S
  OBVIOUS

LEMMA MemoryAppend ==
  ASSUME NEW S, NEW s \in Seq(S), NEW x \in S, NEW t, t = Append(s, x)
  PROVE  /\ t \in Seq(S) /\ Len(t) = Len(s) + 1 /\ t[Len(s) + 1] = x
         /\ \A i \in DOMAIN s : t[i] = s[i]
  OBVIOUS

LEMMA MemoryTail ==
  ASSUME NEW S, NEW s \in Seq(S), s # <<>>, NEW t, t = Tail(s)
  PROVE  /\ t \in Seq(S) /\ Len(t) = Len(s) - 1 /\ 1 \in DOMAIN s /\ Head(s) = s[1]
         /\ \A i \in DOMAIN t : i + 1 \in DOMAIN s /\ t[i] = s[i + 1]
  OBVIOUS

LEMMA MemoryCopies ==
  ASSUME NEW S, NEW s \in Seq(S), NEW x \in S, NEW n \in Nat, NEW t,
         t = s \o [i \in 1 .. n |-> x]
  PROVE  /\ t \in Seq(S) /\ Len(t) = Len(s) + n
         /\ \A i \in DOMAIN s : t[i] = s[i]
         /\ \A i \in DOMAIN t \ DOMAIN s : t[i] = x
<1> DEFINE c == [i \in 1 .. n |-> x]
<1>1. c \in Seq(S) /\ Len(c) = n /\ \A i \in 1 .. n : c[i] = x
  OBVIOUS
<1> HIDE DEF c
<1>2. t \in Seq(S) /\ Len(t) = Len(s) + Len(c)
  BY <1>1 DEF c
<1>3. /\ \A i \in 1 .. Len(s) : t[i] = s[i]
      /\ \A i \in 1 .. Len(t) : i > Len(s) => t[i] = c[i - Len(s)]
  BY <1>1, <1>2 DEF c
<1>4. Len(s) \in Nat /\ DOMAIN s = 1 .. Len(s) /\ DOMAIN t = 1 .. Len(t)
  BY <1>2
<1>5. ASSUME NEW i \in DOMAIN t \ DOMAIN s PROVE t[i] = x
  <2>1. i > Len(s) /\ i - Len(s) \in 1 .. n
    BY <1>1, <1>2, <1>4
  <2> QED BY <1>1, <1>3, <1>4, <2>1
<1> QED BY <1>1, <1>2, <1>3, <1>4, <1>5

(* What every invariant says of the state before a step. *)
LEMMA MemoryState ==
  ASSUME Memory!TypeOK
  PROVE  /\ Len(v3) \in Nat /\ Len(v11) \in Nat /\ Len(v12) \in Nat
         /\ DOMAIN v3 = 1 .. Len(v3) /\ DOMAIN v11 = 1 .. Len(v11)
         /\ DOMAIN v12 = 1 .. Len(v12)
         /\ v9 \in Nat /\ v9 <= PipeUnits
  BY PipeAssumption, MemorySequence DEF Memory!TypeOK

LEMMA MemoryInit == ASSUME Memory!Init PROVE Memory!Inv
<1> USE PipeAssumption DEF Memory!Init
<1>0. /\ v3 = <<>> /\ v11 = <<>> /\ v12 = <<>> /\ DOMAIN <<>> = {} /\ Len(<<>>) = 0
      /\ <<>> \in Seq(Buffers) /\ <<>> \in Seq(Nat)
  OBVIOUS
<1>1. Memory!TypeOK
  <2>1. v1 \in [Buffers -> Nat] /\ v2 \in [Buffers -> Nat] /\ 0 \in 0 .. PipeUnits
    OBVIOUS
  <2>2. v3 \in Seq(Buffers) /\ v11 \in Seq(Nat) /\ v12 \in Seq(Nat)
    BY <1>0
  <2> QED BY <2>1, <2>2 DEF Memory!TypeOK
<1>2. Memory!Places /\ Memory!BuffersAreOwn
  BY <1>0 DEF Memory!Places, Memory!BuffersAreOwn
<1>3. Memory!Order
  BY <1>0, MemoryUnits DEF Memory!Order, Memory!taken
<1>4. Memory!Ends
  BY <1>0 DEF Memory!Ends
<1> QED BY <1>1, <1>2, <1>3, <1>4 DEF Memory!Inv

LEMMA MemoryTypes ==
  ASSUME Memory!TypeOK, Memory!Places, Memory!Next
  PROVE  Memory!TypeOK' /\ Memory!Places'
<1> USE PipeAssumption
    DEF Memory!TypeOK, Memory!Places, Memory!writeVars, Memory!readVars
<1>1. CASE Memory!BeginWrite
  BY <1>1 DEF Memory!BeginWrite
<1>2. CASE Memory!Refuse
  BY <1>2 DEF Memory!Refuse, Memory!Put
<1>3. CASE Memory!Check
  BY <1>3 DEF Memory!Check
<1>4. CASE Memory!Send
  <2>1. v6 \in Buffers /\ v2[v6] \in Nat
    BY <1>4 DEF Memory!Send
  <2>2. v3' \in Seq(Buffers) /\ v11' \in Seq(Nat)
    BY <1>4, <2>1, MemoryAppend DEF Memory!Send
  <2> QED BY <1>4, <2>2 DEF Memory!Send
<1>5. CASE Memory!WriteTimesOut
  BY <1>5 DEF Memory!WriteTimesOut
<1>6. CASE Memory!Copy
  <2>1. v8 \in Buffers /\ v2[v8] \in Nat
    BY <1>6 DEF Memory!Copy
  <2>2. PICK n \in 1 .. v9 : v12' = v12 \o [i \in 1 .. n |-> v2[v8]] /\ v9' = v9 - n
    BY <1>6 DEF Memory!Copy
  <2>3. n \in Nat /\ v9' \in 0 .. PipeUnits
    BY <2>2
  <2>4. v12' \in Seq(Nat)
    BY <2>1, <2>2, <2>3, MemoryCopies
  <2> QED BY <1>6, <2>1, <2>3, <2>4 DEF Memory!Copy
<1>7. CASE Memory!ReadNext
  BY <1>7 DEF Memory!ReadNext, Memory!Put
<1>8. CASE Memory!Take
  <2>1. v3' \in Seq(Buffers) /\ v8' \in Buffers
    BY <1>8, MemoryTail DEF Memory!Take
  <2>2. UNCHANGED <<v1, v2, v4, v5, v6, v10, v11, v12, v13>> /\ v9' = PipeUnits /\ v7' = "idle"
    BY <1>8 DEF Memory!Take
  <2> QED BY <2>1, <2>2
<1>9. CASE \/ Memory!WouldBlock \/ Memory!MayBlock \/ Memory!SeeDeadline \/ Memory!TimeOut
           \/ Memory!SeeStop \/ Memory!EndOfFile
  BY <1>9 DEF Memory!WouldBlock, Memory!MayBlock, Memory!SeeDeadline, Memory!TimeOut,
              Memory!SeeStop, Memory!EndOfFile
<1>10. CASE Memory!Close
  BY <1>10, MemoryState DEF Memory!Close
<1> QED BY <1>1, <1>2, <1>3, <1>4, <1>5, <1>6, <1>7, <1>8, <1>9, <1>10 DEF Memory!Next

LEMMA MemoryBuffers ==
  ASSUME Memory!TypeOK, Memory!Places, Memory!BuffersAreOwn, Memory!Next
  PROVE  Memory!BuffersAreOwn'
<1>a. /\ v1 \in [Buffers -> Nat] /\ v3 \in Seq(Buffers) /\ v6 \in Buffers \cup {Nobody}
      /\ v8 \in Buffers \cup {Nobody} /\ Nobody \notin Buffers
  BY PipeAssumption DEF Memory!TypeOK
<1>b. DOMAIN v3 = 1 .. Len(v3) /\ Len(v3) \in Nat /\ \A i \in DOMAIN v3 : v3[i] \in Buffers
  BY <1>a, MemorySequence
<1> USE DEF Memory!BuffersAreOwn, Memory!writeVars, Memory!readVars
<1>1. CASE Memory!BeginWrite
  <2>1. PICK b \in Buffers : v1[b] > 0 /\ v1' = [v1 EXCEPT ![b] = @ - 1] /\ v6' = b
    BY <1>1 DEF Memory!BeginWrite
  <2>2. v1[b] = 1
    BY <1>a, <2>1
  <2> QED BY <1>1, <1>a, <1>b, <2>1, <2>2 DEF Memory!BeginWrite
<1>2. CASE Memory!Refuse
  <2>1. v6 \in Buffers /\ v6' = Nobody
    BY <1>2, <1>a DEF Memory!Refuse, Memory!Places
  <2>2. v1' = [v1 EXCEPT ![v6] = @ + 1] /\ UNCHANGED <<v3, v8>>
    BY <1>2, <1>a, <2>1 DEF Memory!Refuse, Memory!Put
  <2>3. v1[v6] = 0
    BY <1>a, <2>1
  <2> QED BY <1>a, <1>b, <2>1, <2>2, <2>3
<1>3. CASE Memory!Check
  BY <1>3 DEF Memory!Check
<1>4. CASE Memory!Send
  <2>1. v6 \in Buffers /\ v6' = Nobody /\ UNCHANGED <<v1, v8>> /\ v3' = Append(v3, v6)
    BY <1>4, <1>a DEF Memory!Send, Memory!Places
  <2>2. /\ v3' \in Seq(Buffers) /\ Len(v3') = Len(v3) + 1 /\ v3'[Len(v3) + 1] = v6
        /\ \A i \in DOMAIN v3 : v3'[i] = v3[i]
    BY <1>a, <2>1, MemoryAppend
  <2>3. DOMAIN v3' = 1 .. Len(v3) + 1
    BY <2>2, MemorySequence
  <2>4. \A i \in DOMAIN v3' : i \in DOMAIN v3 \/ i = Len(v3) + 1
    BY <1>b, <2>3
  <2> HIDE DEF Memory!BuffersAreOwn
  <2>5. /\ \A b \in Buffers :
             v1[b] = 1 => b # v6 /\ b # v8 /\ \A i \in DOMAIN v3 : v3[i] # b
        /\ \A i, j \in DOMAIN v3 : v3[i] = v3[j] => i = j
        /\ \A i \in DOMAIN v3 : v3[i] # v6 /\ v3[i] # v8
        /\ v6 # v8 /\ \A b \in Buffers : v1[b] <= 1
    BY <1>a, <2>1 DEF Memory!BuffersAreOwn
  <2>6. \A i, j \in DOMAIN v3' : v3'[i] = v3'[j] => i = j
    BY <2>2, <2>4, <2>5
  <2>7. \A i \in DOMAIN v3' : v3'[i] \in Buffers /\ v3'[i] # v8
    BY <1>b, <2>1, <2>2, <2>4, <2>5
  <2>8. \A b \in Buffers : v1[b] = 1 => \A i \in DOMAIN v3' : v3'[i] # b
    BY <2>2, <2>4, <2>5
  <2> QED BY <1>a, <2>1, <2>5, <2>6, <2>7, <2>8 DEF Memory!BuffersAreOwn
<1>5. CASE Memory!WriteTimesOut
  BY <1>5, <1>a, <1>b DEF Memory!WriteTimesOut
<1>6. CASE Memory!Copy
  BY <1>6 DEF Memory!Copy
<1>7. CASE Memory!ReadNext
  <2>1. v8' = Nobody /\ UNCHANGED <<v3, v6>>
    BY <1>7 DEF Memory!ReadNext
  <2>2. CASE v8 = Nobody
    BY <1>7, <2>1, <2>2 DEF Memory!ReadNext, Memory!Put
  <2>3. CASE v8 \in Buffers
    <3>1. v1' = [v1 EXCEPT ![v8] = @ + 1] /\ v1[v8] = 0
      BY <1>7, <1>a, <2>3 DEF Memory!ReadNext, Memory!Put
    <3> QED BY <1>a, <1>b, <2>1, <2>3, <3>1
  <2> QED BY <1>a, <2>2, <2>3
<1>8. CASE Memory!Take
  <2>1. v3 # <<>> /\ v3' = Tail(v3) /\ v8' = Head(v3) /\ UNCHANGED <<v1, v6>>
    BY <1>8 DEF Memory!Take
  <2>2. /\ v3' \in Seq(Buffers) /\ 1 \in DOMAIN v3 /\ v8' = v3[1]
        /\ \A i \in DOMAIN v3' : i + 1 \in DOMAIN v3 /\ v3'[i] = v3[i + 1]
    BY <1>a, <2>1, MemoryTail
  <2>3. DOMAIN v3' = 1 .. Len(v3') /\ Len(v3') \in Nat
    BY <2>2, MemorySequence
  <2>4. \A i \in DOMAIN v3' : i + 1 # 1 /\ i \in Int
    BY <2>3
  <2>5. \A i, j \in DOMAIN v3' : v3'[i] = v3'[j] => i = j
    <3>1. ASSUME NEW i \in DOMAIN v3', NEW j \in DOMAIN v3', v3'[i] = v3'[j] PROVE i = j
      <4>1. i + 1 = j + 1
        BY <2>2, <3>1
      <4> QED BY <2>4, <4>1
    <3> QED BY <3>1
  <2> HIDE DEF Memory!BuffersAreOwn
  <2>6. /\ \A b \in Buffers :
             v1[b] = 1 => b # v6 /\ \A i \in DOMAIN v3 : v3[i] # b
        /\ \A i, j \in DOMAIN v3 : v3[i] = v3[j] => i = j
        /\ \A i \in DOMAIN v3 : v3[i] # v6
        /\ \A b \in Buffers : v1[b] <= 1
    BY DEF Memory!BuffersAreOwn
  <2>7. \A i \in DOMAIN v3' : v3'[i] # v6 /\ v3'[i] # v8'
    BY <2>2, <2>4, <2>6
  <2>8. \A b \in Buffers : v1[b] = 1 => b # v8' /\ \A i \in DOMAIN v3' : v3'[i] # b
    BY <2>2, <2>6
  <2>9. v6 # v8'
    BY <2>2, <2>6
  <2> QED BY <2>1, <2>5, <2>6, <2>7, <2>8, <2>9 DEF Memory!BuffersAreOwn
<1>9. CASE \/ Memory!WouldBlock \/ Memory!MayBlock \/ Memory!SeeDeadline \/ Memory!TimeOut
           \/ Memory!SeeStop \/ Memory!EndOfFile
  BY <1>9 DEF Memory!WouldBlock, Memory!MayBlock, Memory!SeeDeadline, Memory!TimeOut,
              Memory!SeeStop, Memory!EndOfFile
<1>10. CASE Memory!Close
  BY <1>10 DEF Memory!Close
<1> QED BY <1>1, <1>2, <1>3, <1>4, <1>5, <1>6, <1>7, <1>8, <1>9, <1>10 DEF Memory!Next

(* What has been read is what was sent, up to what is in the channel. *)
LEMMA MemoryOrder ==
  ASSUME Memory!TypeOK, Memory!Places, Memory!BuffersAreOwn, Memory!Order, Memory!Next
  PROVE  Memory!Order'
<1> DEFINE upTo(a) == PipeUnits * a  taken == Len(v11) - Len(v3)
<1>u. /\ \A a \in Int : upTo(a) \in Int /\ upTo(a + 1) = upTo(a) + PipeUnits
      /\ \A a, b \in Int : a < b => upTo(a) + PipeUnits <= upTo(b)
      /\ \A k \in Int : Memory!UnitsOf(k) = upTo(k - 1) + 1 .. upTo(k)
  BY MemoryUnits DEF Memory!UnitsOf
<1>p. PipeUnits \in Nat \ {0} /\ PipeUnits * taken = upTo(taken)
  BY PipeAssumption
<1> HIDE DEF upTo
<1>a. /\ v2 \in [Buffers -> Nat] /\ v3 \in Seq(Buffers) /\ v6 \in Buffers \cup {Nobody}
      /\ v8 \in Buffers \cup {Nobody} /\ Nobody \notin Buffers
      /\ v11 \in Seq(Nat) /\ v12 \in Seq(Nat)
  BY PipeAssumption DEF Memory!TypeOK
<1>b. /\ DOMAIN v3 = 1 .. Len(v3) /\ Len(v3) \in Nat
      /\ \A i \in DOMAIN v3 : v3[i] \in Buffers
  BY <1>a, MemorySequence
<1>c. /\ DOMAIN v11 = 1 .. Len(v11) /\ Len(v11) \in Nat
      /\ DOMAIN v12 = 1 .. Len(v12) /\ Len(v12) \in Nat
      /\ v9 \in Nat /\ v9 <= PipeUnits
  BY MemoryState
<1>o. /\ Len(v3) <= Len(v11)
      /\ Len(v12) + v9 = upTo(taken)
      /\ v9 > 0 => taken > 0 /\ v2[v8] = v11[taken]
      /\ \A i \in DOMAIN v3 : v2[v3[i]] = v11[taken + i]
      /\ \A k \in DOMAIN v11 : \A i \in Memory!UnitsOf(k) \cap DOMAIN v12 : v12[i] = v11[k]
  BY <1>p DEF Memory!Order, Memory!taken
<1>q. ASSUME /\ Len(v3') <= Len(v11')
             /\ Len(v12') + v9' = upTo(Len(v11') - Len(v3'))
             /\ v9' > 0 => /\ Len(v11') - Len(v3') > 0
                           /\ v2'[v8'] = v11'[Len(v11') - Len(v3')]
             /\ \A i \in DOMAIN v3' : v2'[v3'[i]] = v11'[Len(v11') - Len(v3') + i]
             /\ \A k \in DOMAIN v11' :
                   \A i \in Memory!UnitsOf(k) \cap DOMAIN v12' : v12'[i] = v11'[k]
      PROVE  Memory!Order'
  BY <1>q DEF Memory!Order, Memory!taken, Memory!UnitsOf, upTo
<1> USE DEF Memory!writeVars, Memory!readVars
<1>s. ASSUME UNCHANGED <<v2, v3, v8, v9, v11, v12>> PROVE Memory!Order'
  BY <1>o, <1>q, <1>s
<1>1. CASE Memory!BeginWrite
  <2>1. PICK b \in Buffers : v1[b] > 0 /\ v2' = [v2 EXCEPT ![b] = v10']
    BY <1>1 DEF Memory!BeginWrite
  <2>2. v1[b] = 1
    BY <2>1 DEF Memory!TypeOK, Memory!BuffersAreOwn
  <2>3. b # v8 /\ \A i \in DOMAIN v3 : v3[i] # b
    BY <2>2 DEF Memory!BuffersAreOwn
  <2>4. v9 > 0 => v8 \in Buffers
    BY <1>a DEF Memory!Places
  <2>5. v9 > 0 => v2'[v8] = v2[v8]
    BY <1>a, <2>1, <2>3, <2>4
  <2>6. \A i \in DOMAIN v3 : v2'[v3[i]] = v2[v3[i]]
    BY <1>a, <1>b, <2>1, <2>3
  <2>7. UNCHANGED <<v3, v8, v9, v11, v12>>
    BY <1>1 DEF Memory!BeginWrite
  <2> QED BY <1>o, <1>q, <2>5, <2>6, <2>7
<1>4. CASE Memory!Send
  <2>1. v6 \in Buffers /\ UNCHANGED <<v2, v8, v9, v12>>
    BY <1>4, <1>a DEF Memory!Send, Memory!Places
  <2>0. v2[v6] \in Nat /\ v3' = Append(v3, v6) /\ v11' = Append(v11, v2[v6])
    BY <1>4, <1>a, <2>1 DEF Memory!Send
  <2>2. /\ v3' \in Seq(Buffers) /\ Len(v3') = Len(v3) + 1 /\ v3'[Len(v3) + 1] = v6
        /\ \A i \in DOMAIN v3 : v3'[i] = v3[i]
    BY <1>a, <2>0, <2>1, MemoryAppend
  <2>3. /\ v11' \in Seq(Nat) /\ Len(v11') = Len(v11) + 1 /\ v11'[Len(v11) + 1] = v2[v6]
        /\ \A i \in DOMAIN v11 : v11'[i] = v11[i]
    BY <1>a, <2>0, MemoryAppend
  <2>4. Len(v11') - Len(v3') = taken /\ Len(v3') <= Len(v11') /\ taken \in Nat
    BY <1>b, <1>c, <1>o, <2>2, <2>3
  <2>5. /\ \A i \in DOMAIN v3' : i \in DOMAIN v3 \/ i = Len(v3) + 1
        /\ \A k \in DOMAIN v11' : k \in DOMAIN v11 \/ k = Len(v11) + 1
    <3>1. DOMAIN v3' = 1 .. Len(v3) + 1 /\ DOMAIN v11' = 1 .. Len(v11) + 1
      BY <2>2, <2>3, MemorySequence
    <3> QED BY <1>b, <1>c, <3>1
  <2>6. v9 > 0 => taken \in DOMAIN v11
    BY <1>b, <1>c, <1>o, <2>4
  <2>7. \A i \in DOMAIN v3 : taken + i \in DOMAIN v11
    BY <1>b, <1>c, <1>o
  <2>8. taken + (Len(v3) + 1) = Len(v11) + 1
    BY <1>b, <1>c
  <2>9. \A i \in DOMAIN v3' : v2[v3'[i]] = v11'[taken + i]
    BY <1>o, <2>2, <2>3, <2>5, <2>7, <2>8
  <2>10. \A i \in Memory!UnitsOf(Len(v11) + 1) : i \notin DOMAIN v12
    <3>1. taken <= Len(v11) /\ taken \in Int /\ Len(v11) \in Int
      BY <1>b, <1>c, <2>4
    <3>2. upTo(taken) \in Int /\ upTo(Len(v11)) \in Int /\ upTo(taken) <= upTo(Len(v11))
      BY <3>1, MemoryUnitsUpTo DEF upTo
    <3>3. Len(v12) <= upTo(Len(v11))
      BY <1>c, <1>o, <3>2
    <3>4. Memory!UnitsOf(Len(v11) + 1) = upTo(Len(v11)) + 1 .. upTo(Len(v11) + 1)
      <4>1. (Len(v11) + 1) - 1 = Len(v11)
        BY <1>c
      <4> QED BY <4>1 DEF upTo, Memory!UnitsOf
    <3>5. Len(v11) + 1 \in Int /\ upTo(Len(v11) + 1) \in Int
      BY <3>1, MemoryUnits DEF upTo
    <3> QED BY <1>c, <3>2, <3>3, <3>4, <3>5
  <2>11. \A k \in DOMAIN v11' :
           \A i \in Memory!UnitsOf(k) \cap DOMAIN v12 : v12[i] = v11'[k]
    BY <1>o, <2>3, <2>5, <2>10
  <2>12. v9 > 0 => v2[v8] = v11'[taken]
    BY <1>o, <2>3, <2>6
  <2> QED BY <1>o, <1>q, <2>1, <2>4, <2>9, <2>11, <2>12
<1>6. CASE Memory!Copy
  <2>1. v9 > 0 /\ UNCHANGED <<v2, v3, v8, v11>>
    BY <1>6 DEF Memory!Copy
  <2>2. PICK n \in 1 .. v9 : v12' = v12 \o [i \in 1 .. n |-> v2[v8]] /\ v9' = v9 - n
    BY <1>6 DEF Memory!Copy
  <2>3. v8 \in Buffers /\ v2[v8] \in Nat /\ n \in Nat
    BY <1>a, <2>1, <2>2 DEF Memory!Places
  <2>4. /\ v12' \in Seq(Nat) /\ Len(v12') = Len(v12) + n
        /\ \A i \in DOMAIN v12 : v12'[i] = v12[i]
        /\ \A i \in DOMAIN v12' \ DOMAIN v12 : v12'[i] = v2[v8]
    <3> DEFINE x == v2[v8]
    <3>1. v12 \in Seq(Nat) /\ x \in Nat /\ n \in Nat /\ v12' = v12 \o [i \in 1 .. n |-> x]
      BY <1>a, <2>2, <2>3
    <3> HIDE DEF x
    <3>2. /\ v12' \in Seq(Nat) /\ Len(v12') = Len(v12) + n
          /\ \A i \in DOMAIN v12 : v12'[i] = v12[i]
          /\ \A i \in DOMAIN v12' \ DOMAIN v12 : v12'[i] = x
      BY ONLY <3>1, MemoryCopies
    <3> QED BY <3>2 DEF x
  <2>5. DOMAIN v12' = 1 .. Len(v12')
    BY <2>4, MemorySequence
  <2>6. Len(v12') + v9' = upTo(taken)
    BY <1>c, <1>o, <2>2, <2>3, <2>4
  <2>7. ASSUME NEW k \in DOMAIN v11, NEW i \in Memory!UnitsOf(k) \cap DOMAIN v12'
        PROVE  v12'[i] = v11[k]
    <3>1. CASE i \in DOMAIN v12
      BY <1>o, <2>4, <2>7, <3>1
    <3>2. CASE i \notin DOMAIN v12
      <4>1. k \in Int /\ i \in Int /\ PipeUnits * (k - 1) < i /\ i <= PipeUnits * k
        <5>1. k \in Int /\ PipeUnits * (k - 1) \in Int
          BY <1>c, MemoryUnits
        <5> QED BY <5>1, <2>7 DEF Memory!UnitsOf
      <4>2. i > Len(v12) /\ i <= Len(v12')
        BY <1>c, <2>4, <2>5, <2>7, <3>2
      <4>3. taken \in Int /\ upTo(taken) \in Int
        BY <1>b, <1>c, MemoryUnits DEF upTo
      <4>4. upTo(taken) - PipeUnits < i /\ i <= upTo(taken)
        <5>1. /\ Len(v12) + v9 = upTo(taken) /\ Len(v12') = Len(v12) + n /\ n <= v9
              /\ PipeUnits \in Int /\ v9 <= PipeUnits /\ v9 \in Int /\ Len(v12) \in Int
          BY <1>c, <1>o, <1>p, <2>2, <2>4
        <5> QED BY <2>3, <4>1, <4>2, <4>3, <5>1
      <4>5. PipeUnits * taken - PipeUnits < i /\ i <= PipeUnits * taken
        BY <4>4 DEF upTo
      <4>6. k = taken
        BY <4>1, <4>3, <4>5, MemoryUnitsDiffer
      <4> QED BY <1>o, <2>1, <2>4, <2>7, <3>2, <4>6
    <3> QED BY <3>1, <3>2
  <2>8. v9' > 0 => v9 > 0
    BY <2>1
  <2> QED BY <1>o, <1>q, <2>1, <2>6, <2>7, <2>8
<1>7. CASE Memory!ReadNext
  <2>1. UNCHANGED <<v2, v3, v9, v11, v12>> /\ v9 = 0
    BY <1>7 DEF Memory!ReadNext
  <2> QED BY <1>o, <1>q, <2>1
<1>8. CASE Memory!Take
  <2>1. /\ v3 # <<>> /\ v3' = Tail(v3) /\ v8' = Head(v3) /\ v9' = PipeUnits
        /\ v9 = 0 /\ UNCHANGED <<v2, v11, v12>>
    BY <1>8 DEF Memory!Take, Memory!Places
  <2>2. /\ v3' \in Seq(Buffers) /\ Len(v3') = Len(v3) - 1 /\ 1 \in DOMAIN v3 /\ v8' = v3[1]
        /\ \A i \in DOMAIN v3' : i + 1 \in DOMAIN v3 /\ v3'[i] = v3[i + 1]
    BY <1>a, <2>1, MemoryTail
  <2>3. DOMAIN v3' = 1 .. Len(v3') /\ Len(v3') \in Nat
    BY <2>2, MemorySequence
  <2>4. Len(v11) - Len(v3') = taken + 1 /\ taken \in Nat /\ Len(v3') <= Len(v11)
    BY <1>b, <1>c, <1>o, <2>2
  <2>5. Len(v12) + PipeUnits = upTo(taken + 1)
    BY <1>c, <1>o, <1>u, <2>1, <2>4
  <2>6. v2[v8'] = v11[taken + 1]
    BY <1>o, <2>2
  <2>7. \A i \in DOMAIN v3' : v2[v3'[i]] = v11[(taken + 1) + i]
    <3>1. ASSUME NEW i \in DOMAIN v3' PROVE v2[v3'[i]] = v11[(taken + 1) + i]
      <4>1. (taken + 1) + i = taken + (i + 1)
        BY <2>3, <2>4
      <4> QED BY <1>o, <2>2, <4>1
    <3> QED BY <3>1
  <2>8. taken + 1 > 0
    BY <2>4
  <2> QED BY <1>o, <1>q, <2>1, <2>4, <2>5, <2>6, <2>7, <2>8
<1>9. CASE \/ Memory!Refuse \/ Memory!Check \/ Memory!WriteTimesOut
           \/ Memory!WouldBlock \/ Memory!MayBlock \/ Memory!SeeDeadline \/ Memory!TimeOut
           \/ Memory!SeeStop \/ Memory!EndOfFile \/ Memory!Close
  BY <1>9, <1>s DEF Memory!Refuse, Memory!Check, Memory!WriteTimesOut, Memory!WouldBlock,
     Memory!MayBlock, Memory!SeeDeadline, Memory!TimeOut, Memory!SeeStop, Memory!EndOfFile,
     Memory!Close
<1> QED BY <1>1, <1>4, <1>6, <1>7, <1>8, <1>9 DEF Memory!Next

LEMMA MemoryEnds ==
  ASSUME Memory!TypeOK, Memory!Places, Memory!Order, Memory!Ends, Memory!Next
  PROVE  Memory!Ends'
<1>a. /\ Len(v11) \in Nat /\ Len(v12) \in Nat /\ v13 \in Nat /\ v11 \in Seq(Nat)
      /\ v12 \in Seq(Nat) /\ v9 \in Nat
  BY MemoryState DEF Memory!TypeOK
<1>b. /\ v13 <= Len(v11)
      /\ ~v4 => v13 = 0
      /\ v7 \in {"stop", "eof"} => v4
      /\ v7 = "eof" => Len(v12) >= PipeUnits * v13
  BY DEF Memory!Ends
<1>q. ASSUME /\ v13' <= Len(v11')
             /\ ~v4' => v13' = 0
             /\ v7' \in {"stop", "eof"} => v4'
             /\ v7' = "eof" => Len(v12') >= PipeUnits * v13'
      PROVE  Memory!Ends'
  BY <1>q DEF Memory!Ends
<1> USE DEF Memory!writeVars, Memory!readVars
<1>1. CASE \/ Memory!BeginWrite \/ Memory!Refuse \/ Memory!Check \/ Memory!WriteTimesOut
           \/ Memory!Take \/ Memory!ReadNext
           \/ Memory!WouldBlock \/ Memory!MayBlock \/ Memory!SeeDeadline \/ Memory!TimeOut
           \/ Memory!SeeStop
  <2>1. UNCHANGED <<v4, v11, v12, v13>> /\ (v7' = v7 \/ v7' # "eof")
    BY <1>1 DEF Memory!BeginWrite, Memory!Refuse, Memory!Check, Memory!WriteTimesOut,
       Memory!Take, Memory!ReadNext, Memory!WouldBlock, Memory!MayBlock,
       Memory!SeeDeadline, Memory!TimeOut, Memory!SeeStop
  <2>2. v7' \in {"stop", "eof"} => v4
    BY <1>1, <1>b DEF Memory!BeginWrite, Memory!Refuse, Memory!Check, Memory!WriteTimesOut,
       Memory!Take, Memory!ReadNext, Memory!WouldBlock, Memory!MayBlock,
       Memory!SeeDeadline, Memory!TimeOut, Memory!SeeStop
  <2> QED BY <1>b, <1>q, <2>1, <2>2
<1>2. CASE Memory!Send
  <2>1. UNCHANGED <<v4, v7, v12, v13>> /\ v11' = Append(v11, v2[v6])
    BY <1>2 DEF Memory!Send
  <2>2. v6 \in Buffers /\ v2[v6] \in Nat
    BY <1>2, PipeAssumption DEF Memory!Send, Memory!Places, Memory!TypeOK
  <2>3. Len(v11') = Len(v11) + 1
    BY <1>a, <2>1, <2>2, MemoryAppend
  <2>4. v13 <= Len(v11')
    BY <1>a, <1>b, <2>3
  <2> QED BY <1>b, <1>q, <2>1, <2>4
<1>3. CASE Memory!Copy
  <2>1. v7 = "idle" /\ UNCHANGED <<v4, v7, v11, v13>>
    BY <1>3 DEF Memory!Copy
  <2> QED BY <1>b, <1>q, <2>1
<1>4. CASE Memory!EndOfFile
  <2>1. v7 = "stop" /\ v3 = <<>> /\ v9 = 0 /\ UNCHANGED <<v4, v11, v12, v13>>
    BY <1>4 DEF Memory!EndOfFile, Memory!Places
  <2>2. Len(v12) + v9 = PipeUnits * (Len(v11) - Len(v3)) /\ Len(v3) = 0
    BY <2>1 DEF Memory!Order, Memory!taken
  <2>3. Len(v12) = PipeUnits * Len(v11)
    BY <1>a, <2>1, <2>2, MemoryUnits
  <2>4. Len(v12) >= PipeUnits * v13
    <3>1. v13 \in Int /\ Len(v11) \in Int /\ v13 <= Len(v11)
      BY <1>a, <1>b
    <3>2. PipeUnits * v13 \in Int /\ PipeUnits * v13 <= PipeUnits * Len(v11)
      BY <3>1, MemoryUnitsUpTo
    <3> QED BY <1>a, <2>3, <3>2
  <2> QED BY <1>b, <1>q, <2>1, <2>4
<1>5. CASE Memory!Close
  <2>1. ~v4 /\ v4' = TRUE /\ v13' = Len(v11) /\ UNCHANGED <<v7, v11, v12>>
    BY <1>5 DEF Memory!Close
  <2>2. v7 # "eof"
    BY <1>b, <2>1
  <2> QED BY <1>a, <1>q, <2>1, <2>2
<1> QED BY <1>1, <1>2, <1>3, <1>4, <1>5 DEF Memory!Next

LEMMA MemoryStep == ASSUME Memory!Inv, Memory!Next PROVE Memory!Inv'
  BY MemoryTypes, MemoryBuffers, MemoryOrder, MemoryEnds DEF Memory!Inv

LEMMA MemoryStutter == ASSUME Memory!Inv, UNCHANGED Memory!vars PROVE Memory!Inv'
  BY DEF Memory!vars, Memory!writeVars, Memory!readVars, Memory!Inv, Memory!TypeOK,
         Memory!Places, Memory!BuffersAreOwn, Memory!Order, Memory!taken, Memory!UnitsOf,
         Memory!Ends

(* No more has been read than was sent. *)
LEMMA MemoryKeepsOrder == ASSUME Memory!Inv PROVE Memory!PipesKeepOrder
<1> DEFINE upTo(a) == PipeUnits * a  taken == Len(v11) - Len(v3)
<1>1. /\ Len(v3) \in Nat /\ Len(v11) \in Nat /\ Len(v12) \in Nat /\ v9 \in Nat
      /\ Len(v12) + v9 = upTo(taken)
  BY MemoryState DEF Memory!Inv, Memory!Order, Memory!taken
<1>2. taken \in Int /\ taken <= Len(v11)
  BY <1>1
<1>3. upTo(taken) \in Int /\ upTo(Len(v11)) \in Int /\ upTo(taken) <= upTo(Len(v11))
  BY <1>1, <1>2, MemoryUnitsUpTo
<1> HIDE DEF upTo
<1>4. Len(v12) <= upTo(Len(v11))
  BY <1>1, <1>3
<1>5. Len(v12) <= PipeUnits * Len(v11)
  BY <1>4 DEF upTo
<1> QED BY <1>5 DEF Memory!Inv, Memory!Order, Memory!Ends, Memory!BuffersAreOwn,
                   Memory!PipesKeepOrder

-----------------------------------------------------------------------------
(* Theorems of Parts                                                       *)

HostInv == part = "host client" => Host!Inv
DialInv == part = "dialer" => Dial!Inv
MapInv == part = "client" => Map!Inv
BalancerInv == part = "balancer" => Balancer!Inv
FilesAll == part = "files" => Files!Inv
ListingInv == part = "discovery" => Listing!Inv
BodyInv == part = "body" => Contents!Inv
PipeInv == part = "pipeline client" => Pipeline!Inv
MemoryInv == part = "pipe" => Memory!Inv

LEMMA HostAlways == Spec => []HostInv
<1>1. Init => HostInv
  BY HostInit DEF Init, HostInv
<1>2. HostInv /\ [Next]_<<part, cells>> => HostInv'
  <2> SUFFICES ASSUME HostInv, [Next]_<<part, cells>>, part' = "host client"
      PROVE Host!Inv'
    BY DEF HostInv
  <2>1. part = "host client"
    BY DEF Next
  <2>2. Host!Next \/ UNCHANGED Host!vars
    BY <2>1 DEF Next, cells, Host!vars, Host!poolVars, Host!cleanVars, Host!callVars,
       Host!history
  <2> QED BY <2>1, <2>2, HostStep, HostStutter DEF HostInv
<1> QED BY <1>1, <1>2, PTL DEF Spec

LEMMA DialAlways == Spec => []DialInv
<1>1. Init => DialInv
  BY DialInit DEF Init, DialInv
<1>2. DialInv /\ [Next]_<<part, cells>> => DialInv'
  <2> SUFFICES ASSUME DialInv, [Next]_<<part, cells>>, part' = "dialer"
      PROVE Dial!Inv'
    BY DEF DialInv
  <2>1. part = "dialer"
    BY DEF Next
  <2>2. Dial!Next \/ UNCHANGED Dial!vars
    BY <2>1 DEF Next, cells, Dial!vars, Dial!cacheVars
  <2> QED BY <2>1, <2>2, DialStep, DialStutter DEF DialInv
<1> QED BY <1>1, <1>2, PTL DEF Spec

LEMMA MapAlways == Spec => []MapInv
<1>1. Init => MapInv
  BY MapInit DEF Init, MapInv
<1>2. MapInv /\ [Next]_<<part, cells>> => MapInv'
  <2> SUFFICES ASSUME MapInv, [Next]_<<part, cells>>, part' = "client"
      PROVE Map!Inv'
    BY DEF MapInv
  <2>1. part = "client"
    BY DEF Next
  <2>2. Map!Next \/ UNCHANGED Map!vars
    BY <2>1 DEF Next, cells, Map!vars, Map!mapVars, Map!callVars, Map!waitVars
  <2> QED BY <2>1, <2>2, MapStep, MapStutter DEF MapInv
<1> QED BY <1>1, <1>2, PTL DEF Spec

LEMMA BalancerAlways == Spec => []BalancerInv
<1>1. Init => BalancerInv
  BY BalancerInit DEF Init, BalancerInv
<1>2. BalancerInv /\ [Next]_<<part, cells>> => BalancerInv'
  <2> SUFFICES ASSUME BalancerInv, [Next]_<<part, cells>>, part' = "balancer"
      PROVE Balancer!Inv'
    BY DEF BalancerInv
  <2>1. part = "balancer"
    BY DEF Next
  <2>2. Balancer!Next \/ UNCHANGED Balancer!vars
    BY <2>1 DEF Next, cells, Balancer!vars
  <2> QED BY <2>1, <2>2, BalancerStep, BalancerStutter DEF BalancerInv
<1> QED BY <1>1, <1>2, PTL DEF Spec

LEMMA FilesAlways == Spec => []FilesAll
<1>1. Init => FilesAll
  BY FilesInit DEF Init, FilesAll
<1>2. FilesAll /\ [Next]_<<part, cells>> => FilesAll'
  <2> SUFFICES ASSUME FilesAll, [Next]_<<part, cells>>, part' = "files"
      PROVE Files!Inv'
    BY DEF FilesAll
  <2>1. part = "files"
    BY DEF Next
  <2>2. Files!Next \/ UNCHANGED Files!vars
    BY <2>1 DEF Next, cells, Files!vars, Files!caches, Files!cleaning, Files!call,
       Files!system
  <2> QED BY <2>1, <2>2, FilesInv, FilesStutter DEF FilesAll
<1> QED BY <1>1, <1>2, PTL DEF Spec

LEMMA ListingAlways == Spec => []ListingInv
<1>1. Init => ListingInv
  BY ListingInit DEF Init, ListingInv
<1>2. ListingInv /\ [Next]_<<part, cells>> => ListingInv'
  <2> SUFFICES ASSUME ListingInv, [Next]_<<part, cells>>, part' = "discovery"
      PROVE Listing!Inv'
    BY DEF ListingInv
  <2>1. part = "discovery"
    BY DEF Next
  <2>2. Listing!Next \/ UNCHANGED Listing!vars
    BY <2>1 DEF Next, cells, Listing!vars
  <2> QED BY <2>1, <2>2, ListingStep, ListingStutter DEF ListingInv
<1> QED BY <1>1, <1>2, PTL DEF Spec

LEMMA BodyAlways == Spec => []BodyInv
<1>1. Init => BodyInv
  BY BodyInit DEF Init, BodyInv
<1>2. BodyInv /\ [Next]_<<part, cells>> => BodyInv'
  <2> SUFFICES ASSUME BodyInv, [Next]_<<part, cells>>, part' = "body"
      PROVE Contents!Inv'
    BY DEF BodyInv
  <2>1. part = "body"
    BY DEF Next
  <2>2. Contents!Next \/ UNCHANGED Contents!vars
    BY <2>1 DEF Next, cells, Contents!vars, Contents!config, Contents!streams
  <2> QED BY <2>1, <2>2, BodyStep, BodyStutter DEF BodyInv
<1> QED BY <1>1, <1>2, PTL DEF Spec

LEMMA PipeAlways == Spec => []PipeInv
<1>1. Init => PipeInv
  BY PipeInit DEF Init, PipeInv
<1>2. PipeInv /\ [Next]_<<part, cells>> => PipeInv'
  <2> SUFFICES ASSUME PipeInv, [Next]_<<part, cells>>, part' = "pipeline client"
      PROVE Pipeline!Inv'
    BY DEF PipeInv
  <2>1. part = "pipeline client"
    BY DEF Next
  <2>2. Pipeline!Next \/ UNCHANGED Pipeline!vars
    BY <2>1 DEF Next, cells, Pipeline!vars, Pipeline!chanVars, Pipeline!ends, Pipeline!callVars
  <2> QED BY <2>1, <2>2, PipeStep, PipeStutter DEF PipeInv
<1> QED BY <1>1, <1>2, PTL DEF Spec

LEMMA MemoryAlways == Spec => []MemoryInv
<1>1. Init => MemoryInv
  BY MemoryInit DEF Init, MemoryInv
<1>2. MemoryInv /\ [Next]_<<part, cells>> => MemoryInv'
  <2> SUFFICES ASSUME MemoryInv, [Next]_<<part, cells>>, part' = "pipe"
      PROVE Memory!Inv'
    BY DEF MemoryInv
  <2>1. part = "pipe"
    BY DEF Next
  <2>2. Memory!Next \/ UNCHANGED Memory!vars
    BY <2>1 DEF Next, cells, Memory!vars, Memory!writeVars, Memory!readVars
  <2> QED BY <2>1, <2>2, MemoryStep, MemoryStutter DEF MemoryInv
<1> QED BY <1>1, <1>2, PTL DEF Spec

(* What is held is counted, and given back once: a host's connections are  *)
(* MaxConns at most, each counted from its dial until it is closed and in  *)
(* one place, and while some are idle a cleaner runs; a slot of the        *)
(* dialer's Concurrency is a dial that runs; a file with readers is open   *)
(* and one without is closed; a penalty has the timer that ends it.        *)
THEOREM HoldersCounted == Spec => []HoldersAreCounted
<1>1. HostInv /\ DialInv /\ FilesAll /\ BalancerInv => HoldersAreCounted
  BY HostCleaned DEF HostInv, DialInv, FilesAll, BalancerInv, HoldersAreCounted, Host!Inv,
     Dial!Inv, Files!Inv, Balancer!Inv
<1> QED BY <1>1, HostAlways, DialAlways, FilesAlways, BalancerAlways, PTL

(* A connection that is free goes to the call at the head of the queue:    *)
(* but for the two races that late and lost record none is idle, and no    *)
(* place is free, while a call waits.  A name is asked for again once the  *)
(* entry it had is older than its duration.                                *)
THEOREM WaitersServed == Spec => []NobodyWaitsInVain
<1>1. HostInv /\ DialInv => NobodyWaitsInVain
  BY DEF HostInv, DialInv, NobodyWaitsInVain, Host!Inv, Dial!Inv
<1> QED BY <1>1, HostAlways, DialAlways, PTL

(* The calls to a host share one HostClient while it has requests or       *)
(* connections: mCleaner never takes a client that is used.                *)
THEOREM ClientIsOne == Spec => []OneClientPerHost
<1>1. MapInv => OneClientPerHost
  BY DEF MapInv, OneClientPerHost, Map!Inv
<1> QED BY <1>1, MapAlways, PTL

(* A proxy that is up is listed while Redis answers in time, and what has  *)
(* ended leaves the list when its key expires.                             *)
THEOREM ListedIsTrue == Spec => []ListingIsTrue
<1>1. ListingInv => ListingIsTrue
  BY ListingTrue DEF ListingInv, ListingIsTrue
<1> QED BY <1>1, ListingAlways, PTL

(* Of the four places of a body the one that is looked at holds what the   *)
(* last call gave the message, Body and Write agree on it, and a stream is *)
(* closed once no message has it.                                          *)
THEOREM BodyIsTheLast == Spec => []BodyIsWhatWasSet
<1>1. BodyInv => BodyIsWhatWasSet
  BY DEF BodyInv, BodyIsWhatWasSet, Contents!Inv
<1> QED BY <1>1, BodyAlways, PTL

(* What a call gets is its own, or an error: of a pipeline its request's   *)
(* response, as long as one goroutine has worked for the client, and no    *)
(* request in a pipeline is dropped without either.                        *)
THEOREM AnswersAreTheirs == Spec => []AnswersReachTheirCalls
<1>1. MapInv /\ PipeInv => AnswersReachTheirCalls
  BY DEF MapInv, PipeInv, AnswersReachTheirCalls, Map!Inv, Pipeline!Inv
<1> QED BY <1>1, MapAlways, PipeAlways, PTL

(* What is read from an in-memory connection is what was written, in order *)
(* and without gaps, from buffers that are in one place each; the end is   *)
(* read after all that was sent before Close.                              *)
THEOREM OrderKept == Spec => []PipesKeepOrder
<1>1. MemoryInv => PipesKeepOrder
  BY MemoryKeepsOrder DEF MemoryInv, PipesKeepOrder
<1> QED BY <1>1, MemoryAlways, PTL
=============================================================================
