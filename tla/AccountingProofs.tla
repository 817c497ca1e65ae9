-------------------------- MODULE AccountingProofs --------------------------
(***************************************************************************)
(* Proofs about Accounting, for any number of transfers and accounts, any  *)
(* buffer, threshold and channel size.                                     *)
(*                                                                         *)
(* The inductive invariant is IInv: the type invariant, the two halves of  *)
(* conservation (NoDoubleCount and NothingForgotten), and OwnBytes, which  *)
(* says that a counter only holds bytes its own transfer has read; without *)
(* it a fresh byte could already be somewhere.                             *)
(***************************************************************************)
EXTENDS Accounting, SequenceTheorems, FiniteSetTheorems, TLAPS

(* A transfer's counter stands for bytes that this transfer has read. *)
OwnBytes == \A t \in Transfers : accounted[t] \subseteq ReadBytes(t)

(* Only a termination signal makes the accountant close the channel. *)
ClosedByShutdown == chClosed => stopping

IInv == TypeOK /\ NoDoubleCount /\ NothingForgotten /\ OwnBytes /\ ClosedByShutdown

-----------------------------------------------------------------------------
(* Lemmas about the places a byte can be in. *)

LEMMA QueueAppend ==
  ASSUME NEW q \in Seq(Usage), NEW r \in Usage
  PROVE  QueueBytes(Append(q, r)) = QueueBytes(q) \cup r.data
<1>1. /\ Len(Append(q, r)) = Len(q) + 1
      /\ \A i \in 1 .. Len(q) : Append(q, r)[i] = q[i]
      /\ Append(q, r)[Len(q) + 1] = r
      /\ Len(q) \in Nat
  OBVIOUS
<1> QED  BY <1>1 DEF QueueBytes

LEMMA QueueTail ==
  ASSUME NEW q \in Seq(Usage), q # << >>
  PROVE  /\ QueueBytes(q) = Head(q).data \cup QueueBytes(Tail(q))
         /\ Head(q) \in Usage /\ Tail(q) \in Seq(Usage)
         /\ Len(Tail(q)) = Len(q) - 1
         /\ \A i \in 1 .. Len(Tail(q)) : Tail(q)[i] = q[i + 1]
         /\ Head(q) = q[1]
<1>1. /\ Len(Tail(q)) = Len(q) - 1
      /\ \A i \in 1 .. Len(Tail(q)) : Tail(q)[i] = q[i + 1]
      /\ Head(q) = q[1]
      /\ Len(q) \in Nat /\ Len(q) > 0
      /\ Tail(q) \in Seq(Usage)
      /\ Head(q) \in Usage
  OBVIOUS
<1>2. ASSUME NEW i \in 1 .. Len(q)
      PROVE  i = 1 \/ (i - 1 \in 1 .. Len(Tail(q)) /\ q[i] = Tail(q)[i - 1])
  BY <1>1
<1>3. QueueBytes(q) \subseteq Head(q).data \cup QueueBytes(Tail(q))
  <2>1. ASSUME NEW x \in QueueBytes(q)
        PROVE  x \in Head(q).data \cup QueueBytes(Tail(q))
    <3>1. PICK i \in 1 .. Len(q) : x \in q[i].data
      BY <2>1 DEF QueueBytes
    <3>2. CASE i = 1
      BY <1>1, <3>1, <3>2
    <3>3. CASE i - 1 \in 1 .. Len(Tail(q)) /\ q[i] = Tail(q)[i - 1]
      BY <3>1, <3>3 DEF QueueBytes
    <3> QED BY <1>2, <3>2, <3>3
  <2> QED BY <2>1
<1>4. Head(q).data \cup QueueBytes(Tail(q)) \subseteq QueueBytes(q)
  <2>1. \A i \in 1 .. Len(Tail(q)) : i + 1 \in 1 .. Len(q)
    BY <1>1
  <2>2. 1 \in 1 .. Len(q)
    BY <1>1
  <2> QED  BY <1>1, <2>1, <2>2 DEF QueueBytes
<1> QED  BY <1>1, <1>3, <1>4

LEMMA TallyAdd ==
  ASSUME NEW D \in SUBSET Accounts, NEW m \in Tally(D), NEW r \in Usage
  PROVE  /\ AddUsage(m, r) \in Tally(D \cup {r.account})
         /\ D \cup {r.account} \in SUBSET Accounts
         /\ TallyBytes(AddUsage(m, r)) = TallyBytes(m) \cup r.data
<1>1. r.account \in Accounts /\ r.data \subseteq Byte
  BY DEF Usage
<1>2. DOMAIN m = D
  BY DEF Tally
<1>3. AddUsage(m, r) \in Tally(D \cup {r.account})
  BY <1>1, <1>2 DEF Tally, AddUsage
<1>4. TallyBytes(AddUsage(m, r)) = TallyBytes(m) \cup r.data
  <2> DEFINE n == AddUsage(m, r)
  <2>1. DOMAIN n = D \cup {r.account}
    BY <1>2 DEF AddUsage
  <2>2. /\ \A a \in D : m[a] \subseteq n[a]
        /\ \A a \in D \ {r.account} : n[a] = m[a]
        /\ r.data \subseteq n[r.account]
        /\ r.account \in D => n[r.account] = m[r.account] \cup r.data
        /\ r.account \notin D => n[r.account] = r.data
    BY <1>2 DEF AddUsage
  <2> HIDE DEF n
  <2>3. TallyBytes(n) = TallyBytes(m) \cup r.data
    BY <1>2, <2>1, <2>2 DEF TallyBytes
  <2> QED  BY <2>3 DEF n
<1> QED  BY <1>1, <1>3, <1>4

LEMMA EmptyPlaces ==
  /\ EmptyTally \in Tally({})
  /\ TallyBytes(EmptyTally) = {}
  /\ QueueBytes(<< >>) = {}
  /\ << >> \in Seq(Usage)
  /\ Len(<< >>) = 0
<1>1. EmptyTally \in Tally({})
  BY DEF EmptyTally, Tally
<1>2. TallyBytes(EmptyTally) = {}
  BY DEF TallyBytes, EmptyTally
<1>3. QueueBytes(<< >>) = {}
  BY DEF QueueBytes
<1> QED  BY <1>1, <1>2, <1>3

LEMMA OpenReset ==
  ASSUME TypeOK, OwnBytes, NEW t \in Transfers,
         accounted' = [accounted EXCEPT ![t] = {}]
  PROVE  /\ OpenBytes' = OpenBytes \ accounted[t]
         /\ accounted[t] \subseteq OpenBytes
<1>1. \A u \in Transfers : u # t => accounted[u] \cap accounted[t] = {}
  BY DEF OwnBytes, ReadBytes
<1>2. \A u \in Transfers : accounted'[u] = IF u = t THEN {} ELSE accounted[u]
  BY DEF TypeOK
<1> QED  BY <1>1, <1>2 DEF OpenBytes

LEMMA OpenAdd ==
  ASSUME TypeOK, NEW t \in Transfers, NEW S,
         accounted' = [accounted EXCEPT ![t] = @ \cup S]
  PROVE  OpenBytes' = OpenBytes \cup S
<1>1. \A u \in Transfers : accounted'[u] = IF u = t THEN accounted[t] \cup S ELSE accounted[u]
  BY DEF TypeOK
<1> QED  BY <1>1 DEF OpenBytes

(* The bytes of a finished batch move to the usage delivered. *)
LEMMA BilledAdd ==
  ASSUME NEW D \in SUBSET Accounts, NEW m \in Tally(D),
         billed' = [a \in Accounts |->
                      IF a \in DOMAIN m THEN billed[a] \cup m[a] ELSE billed[a]]
  PROVE  BilledBytes' = BilledBytes \cup TallyBytes(m)
<1>1. DOMAIN m = D
  BY DEF Tally
<1> QED  BY <1>1 DEF BilledBytes, TallyBytes

LEMMA PublishingRemove ==
  ASSUME BatchesDisjoint, NEW m \in publishing, publishing' = publishing \ {m}
  PROVE  /\ PublishingBytes' = PublishingBytes \ TallyBytes(m)
         /\ TallyBytes(m) \subseteq PublishingBytes
         /\ BatchesDisjoint'
<1>1. \A n \in publishing : n # m => TallyBytes(n) \cap TallyBytes(m) = {}
  BY DEF BatchesDisjoint
<1> QED  BY <1>1 DEF PublishingBytes, BatchesDisjoint

-----------------------------------------------------------------------------
(* Type correctness *)

LEMMA TypeInit == ASSUME Init PROVE TypeOK
<1>1. \A t \in Transfers : 0 <= Length[t]
  BY ConstantsAssumption
<1>2. \E D \in SUBSET Accounts : cache \in Tally(D)
  BY EmptyPlaces DEF Init
<1>3. dataCh \in Seq(Usage) /\ Len(dataCh) <= ChSize
  BY EmptyPlaces, ConstantsAssumption DEF Init
<1> QED  BY <1>1, <1>2, <1>3 DEF Init, TypeOK, Places

LEMMA ByteOf ==
  ASSUME NEW t \in Transfers, NEW i \in 1 .. Length[t]
  PROVE  <<t, i>> \in Byte
BY DEF Byte

LEMMA PlacesTyped ==
  ASSUME TypeOK
  PROVE  OpenBytes \cup ChannelBytes \cup CacheBytes \cup PublishingBytes \subseteq Byte
<1> USE DEF TypeOK
<1>1. ChannelBytes \subseteq Byte
  <2>1. \A i \in 1 .. Len(dataCh) : dataCh[i] \in Usage
    OBVIOUS
  <2> QED  BY <2>1 DEF ChannelBytes, QueueBytes, Usage
<1>2. CacheBytes \subseteq Byte
  BY DEF CacheBytes, TallyBytes, Tally
<1>3. OpenBytes \subseteq Byte
  BY DEF OpenBytes
<1>4. PublishingBytes \subseteq Byte
  BY DEF PublishingBytes, TallyBytes, Tally
<1> QED  BY <1>1, <1>2, <1>3, <1>4

LEMMA TypeStep ==
  ASSUME TypeOK, [Next]_vars
  PROVE  TypeOK'
<1> USE DEF TypeOK, Places
<1>1. ASSUME NEW t \in Transfers, Loop(t) PROVE TypeOK'
  BY <1>1 DEF Loop, Goto, accountantVars
<1>2. ASSUME NEW t \in Transfers, DeadlineFails(t) PROVE TypeOK'
  BY <1>2 DEF DeadlineFails, Break, Goto, accountantVars
<1>3. ASSUME NEW t \in Transfers, ReadData(t) PROVE TypeOK'
  <2>1. PICK n \in 1 .. BufferSize, done \in BOOLEAN :
          /\ read[t] + n <= Length[t]
          /\ read' = [read EXCEPT ![t] = @ + n]
          /\ accounted' = [accounted EXCEPT ![t] =
                             @ \cup ({t} \X (read[t] + 1 .. read[t] + n))]
          /\ sourceDone' = [sourceDone EXCEPT ![t] = done]
    BY <1>3 DEF ReadData
  <2>2. n \in Nat /\ Length[t] \in Nat /\ read[t] \in Nat
    BY ConstantsAssumption
  <2>3. {t} \X (read[t] + 1 .. read[t] + n) \subseteq Byte
    BY <2>1, <2>2, ByteOf
  <2>4. /\ read' \in [Transfers -> Nat]
        /\ \A u \in Transfers : read'[u] <= Length[u]
    BY <2>1, <2>2
  <2>5. accounted' \in [Transfers -> SUBSET Byte]
    BY <2>1, <2>3
  <2>6. sourceDone' \in [Transfers -> BOOLEAN]
    BY <2>1, Zenon
  <2> QED  BY <1>3, <2>4, <2>5, <2>6 DEF ReadData, Goto, accountantVars
<1>4. ASSUME NEW t \in Transfers, ReadEnds(t) PROVE TypeOK'
  BY <1>4 DEF ReadEnds, Break, Goto, accountantVars
<1>5. ASSUME NEW t \in Transfers, WriteAll(t) PROVE TypeOK'
  BY <1>5 DEF WriteAll, Break, Goto, accountantVars
<1>6. ASSUME NEW t \in Transfers, WriteFails(t) PROVE TypeOK'
  BY <1>6 DEF WriteFails, Break, Goto, accountantVars
<1>7. ASSUME NEW t \in Transfers, Decrement(t) PROVE TypeOK'
  <2>1. [account |-> Account[t], data |-> accounted[t]] \in Usage
    BY ConstantsAssumption DEF Usage
  <2>2. dataCh' \in Seq(Usage) /\ Len(dataCh') <= ChSize
    BY <1>7, <2>1, ConstantsAssumption DEF Decrement
  <2> QED  BY <1>7, <2>2 DEF Decrement, Goto
<1>8. CASE Receive
  <2>1. PICK D \in SUBSET Accounts : cache \in Tally(D)
    OBVIOUS
  <2>3. /\ Head(dataCh) \in Usage /\ Tail(dataCh) \in Seq(Usage)
        /\ Len(Tail(dataCh)) = Len(dataCh) - 1
    BY <1>8, QueueTail DEF Receive
  <2>4. \E E \in SUBSET Accounts : cache' \in Tally(E)
    BY <1>8, <2>1, <2>3, TallyAdd DEF Receive
  <2>5. Len(dataCh') <= ChSize
    BY <1>8, <2>3, ConstantsAssumption DEF Receive
  <2> QED  BY <1>8, <2>3, <2>4, <2>5 DEF Receive, transferVars
<1>9. CASE Flush
  BY <1>9, EmptyPlaces DEF Flush, transferVars
<1>10. ASSUME NEW m \in publishing, Publish(m) PROVE TypeOK'
  <2>1. PICK D \in SUBSET Accounts : m \in Tally(D)
    OBVIOUS
  <2>2. billed' \in [Accounts -> SUBSET Byte]
    BY <1>10, <2>1 DEF Publish, Tally
  <2> QED  BY <1>10, <2>2 DEF Publish, transferVars
<1>11. ASSUME NEW m \in publishing, PublishFails(m) PROVE TypeOK'
  <2>1. TallyBytes(m) \subseteq Byte
    BY DEF TallyBytes, Tally
  <2> QED  BY <1>11, <2>1 DEF PublishFails, transferVars
<1>12. CASE Signal
  BY <1>12 DEF Signal, transferVars, accountantVars
<1>13. ChannelBytes \cup CacheBytes \cup OpenBytes \cup PublishingBytes \subseteq Byte
  BY PlacesTyped
<1>14. CASE AccountantStops
  BY <1>13, <1>14, EmptyPlaces, ConstantsAssumption DEF AccountantStops, transferVars
<1>15. ASSUME NEW how \in {"exited", "panicked"}, Die(how) PROVE TypeOK'
  BY <1>13, <1>15, EmptyPlaces, ConstantsAssumption DEF Die
<1>16. ASSUME NEW t \in Transfers, DecrementPanics(t) PROVE TypeOK'
  BY <1>15, <1>16 DEF DecrementPanics
<1>17. CASE MainReturns
  BY <1>15, <1>17 DEF MainReturns
<1>18. CASE UNCHANGED vars
  BY <1>18 DEF vars
<1> QED
  BY <1>1, <1>2, <1>3, <1>4, <1>5, <1>6, <1>7, <1>8, <1>9, <1>10, <1>11,
     <1>12, <1>14, <1>16, <1>17, <1>18
  DEF Next, TransferStep, PublishStep, Done

(* Accounting is type correct, for any number of transfers and accounts;   *)
(* in particular the channel never exceeds its capacity.                   *)
THEOREM TypeCorrect == Spec => []TypeOK
<1>1. Init => TypeOK
  BY TypeInit
<1>2. TypeOK /\ [Next]_vars => TypeOK'
  BY TypeStep
<1> QED  BY <1>1, <1>2, PTL DEF Spec

-----------------------------------------------------------------------------
(* Conservation *)

Conserved == NoDoubleCount /\ NothingForgotten /\ OwnBytes

ReadByAll == UNION {ReadBytes(t) : t \in Transfers}

(* Most steps only move a program counter. *)
LEMMA ConservedStutter ==
  ASSUME Conserved, UNCHANGED <<read, accounted, dataCh, cache, publishing, billed, lost>>
  PROVE  Conserved'
<1>1. /\ OpenBytes' = OpenBytes /\ ChannelBytes' = ChannelBytes /\ CacheBytes' = CacheBytes
      /\ PublishingBytes' = PublishingBytes /\ BilledBytes' = BilledBytes
  BY DEF OpenBytes, ChannelBytes, CacheBytes, PublishingBytes, BilledBytes
<1>2. PlacesDisjoint'
  BY <1>1 DEF PlacesDisjoint, Conserved, NoDoubleCount
<1>3. QueueDisjoint' /\ BatchesDisjoint' /\ OwnBytes'
  BY DEF QueueDisjoint, BatchesDisjoint, OwnBytes, ReadBytes, Conserved, NoDoubleCount
<1>4. NothingForgotten'
  BY <1>1 DEF NothingForgotten, ReadBytes, Conserved
<1> QED  BY <1>2, <1>3, <1>4 DEF Conserved, NoDoubleCount

LEMMA ConservedInit == ASSUME Init PROVE Conserved
<1>1. /\ OpenBytes = {} /\ BilledBytes = {} /\ PublishingBytes = {}
      /\ ChannelBytes = {} /\ CacheBytes = {} /\ lost = {}
  BY EmptyPlaces DEF Init, OpenBytes, BilledBytes, PublishingBytes, ChannelBytes, CacheBytes
<1>2. \A t \in Transfers : ReadBytes(t) = {}
  BY DEF Init, ReadBytes
<1>3. PlacesDisjoint /\ NothingForgotten
  BY <1>1, <1>2 DEF PlacesDisjoint, NothingForgotten
<1>4. QueueDisjoint /\ BatchesDisjoint /\ OwnBytes
  BY EmptyPlaces DEF Init, QueueDisjoint, BatchesDisjoint, OwnBytes
<1> QED  BY <1>3, <1>4 DEF Conserved, NoDoubleCount

(* What each step does to the places.  A read puts fresh bytes S into the  *)
(* counter of the transfer that read them.                                 *)
Fresh(t, S) ==
  /\ \A u \in Transfers : ReadBytes(u)' = IF u = t THEN ReadBytes(t) \cup S
                                                  ELSE ReadBytes(u)
  /\ \A u \in Transfers : accounted'[u] = IF u = t THEN accounted[t] \cup S
                                                   ELSE accounted[u]
  /\ S \cap ReadByAll = {} /\ ReadByAll' = ReadByAll \cup S
  /\ OpenBytes' = OpenBytes \cup S
  /\ ChannelBytes' = ChannelBytes /\ CacheBytes' = CacheBytes
  /\ PublishingBytes' = PublishingBytes /\ BilledBytes' = BilledBytes
  /\ lost' = lost /\ dataCh' = dataCh /\ publishing' = publishing
  /\ stopping' = stopping

LEMMA ReadEffect ==
  ASSUME TypeOK, NEW t \in Transfers, ReadData(t)
  PROVE  \E S \in SUBSET Byte : Fresh(t, S)
<1>1. PICK n \in 1 .. BufferSize :
        /\ read[t] + n <= Length[t]
        /\ read' = [read EXCEPT ![t] = @ + n]
        /\ accounted' = [accounted EXCEPT ![t] =
                           @ \cup ({t} \X (read[t] + 1 .. read[t] + n))]
  BY DEF ReadData
<1> DEFINE S == {t} \X (read[t] + 1 .. read[t] + n)
<1>2. n \in Nat /\ read[t] \in Nat /\ Length[t] \in Nat
  BY ConstantsAssumption DEF TypeOK
<1>3. S \in SUBSET Byte
  BY <1>1, <1>2, ByteOf
<1>4. \A u \in Transfers : read'[u] = IF u = t THEN read[t] + n ELSE read[u]
  BY <1>1 DEF TypeOK
<1>5. \A u \in Transfers :
        ReadBytes(u)' = IF u = t THEN ReadBytes(t) \cup S ELSE ReadBytes(u)
  <2>1. (1 .. (read[t] + n)) = (1 .. read[t]) \cup (read[t] + 1 .. read[t] + n)
    BY <1>2
  <2>2. {t} \X (1 .. (read[t] + n)) = ReadBytes(t) \cup S
    BY <2>1 DEF ReadBytes
  <2> QED  BY <1>4, <2>2 DEF ReadBytes
<1>6. S \cap ReadByAll = {}
  <2>1. (read[t] + 1 .. read[t] + n) \cap (1 .. read[t]) = {}
    BY <1>2
  <2> QED  BY <2>1 DEF ReadByAll, ReadBytes
<1>7. \A u \in Transfers : accounted'[u] = IF u = t THEN accounted[t] \cup S ELSE accounted[u]
  BY <1>1 DEF TypeOK
<1> HIDE DEF S
<1>8. ReadByAll' = ReadByAll \cup S
  BY <1>5 DEF ReadByAll
<1>9. OpenBytes' = OpenBytes \cup S
  BY <1>1, OpenAdd DEF S
<1>10. /\ ChannelBytes' = ChannelBytes /\ CacheBytes' = CacheBytes
       /\ PublishingBytes' = PublishingBytes /\ BilledBytes' = BilledBytes /\ lost' = lost
       /\ dataCh' = dataCh /\ publishing' = publishing /\ stopping' = stopping
  BY DEF ReadData, accountantVars, ChannelBytes, CacheBytes, PublishingBytes, BilledBytes
<1> QED  BY <1>3, <1>5, <1>6, <1>7, <1>8, <1>9, <1>10 DEF Fresh

LEMMA ConservedRead ==
  ASSUME TypeOK, Conserved, NEW t \in Transfers, ReadData(t)
  PROVE  Conserved'
<1>1. PICK S \in SUBSET Byte : Fresh(t, S)
  BY ReadEffect
<1>2. PlacesDisjoint' /\ NothingForgotten'
  BY <1>1 DEF Fresh, PlacesDisjoint, NothingForgotten, Conserved, NoDoubleCount, ReadByAll
<1>3. OwnBytes'
  BY <1>1 DEF Fresh, OwnBytes, Conserved
<1>4. QueueDisjoint' /\ BatchesDisjoint'
  BY <1>1 DEF Fresh, QueueDisjoint, BatchesDisjoint, Conserved, NoDoubleCount
<1> QED  BY <1>2, <1>3, <1>4 DEF Conserved, NoDoubleCount

(* A counter moves to the end of the channel. *)
LEMMA DecrementEffect ==
  ASSUME TypeOK, OwnBytes, NEW t \in Transfers, Decrement(t)
  PROVE  /\ OpenBytes' = OpenBytes \ accounted[t] /\ accounted[t] \subseteq OpenBytes
         /\ ChannelBytes' = ChannelBytes \cup accounted[t]
         /\ CacheBytes' = CacheBytes /\ PublishingBytes' = PublishingBytes
         /\ BilledBytes' = BilledBytes /\ lost' = lost /\ read' = read
         /\ publishing' = publishing /\ ReadByAll' = ReadByAll /\ stopping' = stopping
<1>1. [account |-> Account[t], data |-> accounted[t]] \in Usage
  BY ConstantsAssumption DEF Usage, TypeOK
<1>2. ChannelBytes' = ChannelBytes \cup accounted[t]
  BY <1>1, QueueAppend DEF Decrement, ChannelBytes, TypeOK
<1>3. OpenBytes' = OpenBytes \ accounted[t] /\ accounted[t] \subseteq OpenBytes
  BY OpenReset DEF Decrement
<1>4. /\ CacheBytes' = CacheBytes /\ PublishingBytes' = PublishingBytes
      /\ BilledBytes' = BilledBytes /\ lost' = lost /\ read' = read
      /\ publishing' = publishing /\ ReadByAll' = ReadByAll /\ stopping' = stopping
  BY DEF Decrement, CacheBytes, PublishingBytes, BilledBytes, ReadByAll, ReadBytes
<1> QED  BY <1>2, <1>3, <1>4

LEMMA ConservedDecrement ==
  ASSUME TypeOK, Conserved, NEW t \in Transfers, Decrement(t)
  PROVE  Conserved'
<1> DEFINE r == [account |-> Account[t], data |-> accounted[t]]
<1>1. r \in Usage /\ r.data = accounted[t]
  BY ConstantsAssumption DEF Usage, TypeOK
<1>2. OwnBytes
  BY DEF Conserved
<1>3. accounted[t] \subseteq OpenBytes /\ publishing' = publishing
  BY <1>2, DecrementEffect
<1>5. PlacesDisjoint' /\ NothingForgotten'
  BY <1>2, DecrementEffect
  DEF PlacesDisjoint, NothingForgotten, Conserved, NoDoubleCount, ReadByAll
<1>6. QueueDisjoint'
  <2>1. /\ Len(dataCh') = Len(dataCh) + 1 /\ Len(dataCh) \in Nat
        /\ \A i \in 1 .. Len(dataCh) : dataCh'[i] = dataCh[i]
        /\ dataCh'[Len(dataCh) + 1] = r
    BY <1>1 DEF Decrement, TypeOK
  <2>2. \A i \in 1 .. Len(dataCh) : dataCh[i].data \cap accounted[t] = {}
    <3>1. \A i \in 1 .. Len(dataCh) : dataCh[i].data \subseteq ChannelBytes
      BY DEF ChannelBytes, QueueBytes
    <3> QED  BY <1>3, <3>1 DEF Conserved, NoDoubleCount, PlacesDisjoint
  <2>3. \A i, j \in 1 .. Len(dataCh) : i # j => dataCh[i].data \cap dataCh[j].data = {}
    BY DEF Conserved, NoDoubleCount, QueueDisjoint
  <2> HIDE DEF r
  <2>4. ASSUME NEW i \in 1 .. Len(dataCh'), NEW j \in 1 .. Len(dataCh'), i # j
        PROVE  dataCh'[i].data \cap dataCh'[j].data = {}
    <3>1. CASE i \in 1 .. Len(dataCh) /\ j \in 1 .. Len(dataCh)
      BY <2>1, <2>3, <2>4, <3>1
    <3>2. CASE i = Len(dataCh) + 1
      <4>1. j \in 1 .. Len(dataCh)
        BY <2>1, <2>4, <3>2
      <4> QED  BY <1>1, <2>1, <2>2, <3>2, <4>1
    <3>3. CASE j = Len(dataCh) + 1
      <4>1. i \in 1 .. Len(dataCh)
        BY <2>1, <2>4, <3>3
      <4> QED  BY <1>1, <2>1, <2>2, <3>3, <4>1
    <3> QED  BY <2>1, <3>1, <3>2, <3>3
  <2> QED  BY <2>4 DEF QueueDisjoint
<1>7. BatchesDisjoint'
  BY <1>3 DEF BatchesDisjoint, Conserved, NoDoubleCount
<1>8. OwnBytes'
  BY DEF Decrement, OwnBytes, Conserved, TypeOK, ReadBytes
<1> QED  BY <1>5, <1>6, <1>7, <1>8 DEF Conserved, NoDoubleCount

(* The head of the channel moves to the accountant's map. *)
LEMMA ReceiveEffect ==
  ASSUME TypeOK, QueueDisjoint, Receive
  PROVE  /\ \E S \in SUBSET Byte : /\ ChannelBytes = S \cup ChannelBytes'
                                   /\ S \cap ChannelBytes' = {}
                                   /\ CacheBytes' = CacheBytes \cup S
         /\ QueueDisjoint'
         /\ OpenBytes' = OpenBytes /\ PublishingBytes' = PublishingBytes
         /\ BilledBytes' = BilledBytes /\ lost' = lost /\ read' = read
         /\ accounted' = accounted /\ publishing' = publishing
         /\ ReadByAll' = ReadByAll /\ stopping' = stopping
<1>1. PICK D \in SUBSET Accounts : cache \in Tally(D)
  BY DEF TypeOK
<1>2. /\ ChannelBytes = Head(dataCh).data \cup ChannelBytes'
      /\ Head(dataCh) \in Usage /\ Head(dataCh) = dataCh[1]
      /\ Len(dataCh') = Len(dataCh) - 1 /\ Len(dataCh) \in Nat /\ Len(dataCh) > 0
      /\ \A i \in 1 .. Len(dataCh') : dataCh'[i] = dataCh[i + 1]
  BY QueueTail DEF Receive, ChannelBytes, TypeOK
<1>3. CacheBytes' = CacheBytes \cup Head(dataCh).data
  BY <1>1, <1>2, TallyAdd DEF Receive, CacheBytes
<1>4. \A i, j \in 1 .. Len(dataCh) : i # j => dataCh[i].data \cap dataCh[j].data = {}
  BY DEF QueueDisjoint
<1>5. Head(dataCh).data \cap ChannelBytes' = {}
  <2>1. \A i \in 1 .. Len(dataCh') : Head(dataCh).data \cap dataCh'[i].data = {}
    BY <1>2, <1>4
  <2> QED  BY <2>1 DEF ChannelBytes, QueueBytes
<1>6. Head(dataCh).data \in SUBSET Byte
  BY <1>2 DEF Usage
<1>7. QueueDisjoint'
  <2>1. ASSUME NEW i \in 1 .. Len(dataCh'), NEW j \in 1 .. Len(dataCh'), i # j
        PROVE  dataCh'[i].data \cap dataCh'[j].data = {}
    <3>1. i + 1 \in 1 .. Len(dataCh) /\ j + 1 \in 1 .. Len(dataCh) /\ i + 1 # j + 1
      BY <1>2, <2>1
    <3> QED  BY <1>2, <1>4, <3>1
  <2> QED  BY <2>1 DEF QueueDisjoint
<1>8. /\ OpenBytes' = OpenBytes /\ PublishingBytes' = PublishingBytes
      /\ BilledBytes' = BilledBytes /\ lost' = lost /\ read' = read
      /\ accounted' = accounted /\ publishing' = publishing
      /\ ReadByAll' = ReadByAll /\ stopping' = stopping
  BY DEF Receive, transferVars, OpenBytes, PublishingBytes, BilledBytes, ReadByAll, ReadBytes
<1> QED  BY <1>2, <1>3, <1>5, <1>6, <1>7, <1>8

LEMMA ConservedReceive ==
  ASSUME TypeOK, Conserved, Receive
  PROVE  Conserved'
<1>1. QueueDisjoint
  BY DEF Conserved, NoDoubleCount
<1>2. PlacesDisjoint' /\ NothingForgotten'
  BY <1>1, ReceiveEffect
  DEF PlacesDisjoint, NothingForgotten, Conserved, NoDoubleCount, ReadByAll
<1>3. BatchesDisjoint' /\ OwnBytes'
  BY <1>1, ReceiveEffect DEF BatchesDisjoint, OwnBytes, Conserved, NoDoubleCount, ReadBytes
<1> QED  BY <1>1, <1>2, <1>3, ReceiveEffect DEF Conserved, NoDoubleCount

(* The map becomes a batch. *)
LEMMA FlushEffect ==
  ASSUME Flush
  PROVE  /\ PublishingBytes' = PublishingBytes \cup CacheBytes /\ CacheBytes' = {}
         /\ OpenBytes' = OpenBytes /\ ChannelBytes' = ChannelBytes
         /\ BilledBytes' = BilledBytes /\ lost' = lost /\ read' = read /\ dataCh' = dataCh
         /\ accounted' = accounted /\ ReadByAll' = ReadByAll /\ stopping' = stopping
<1>1. PublishingBytes' = PublishingBytes \cup CacheBytes /\ CacheBytes' = {}
  BY EmptyPlaces DEF Flush, PublishingBytes, CacheBytes
<1> QED
  BY <1>1 DEF Flush, transferVars, OpenBytes, ChannelBytes, BilledBytes, ReadByAll, ReadBytes

LEMMA ConservedFlush ==
  ASSUME TypeOK, Conserved, Flush
  PROVE  Conserved'
<1>1. PlacesDisjoint' /\ NothingForgotten'
  BY FlushEffect
  DEF PlacesDisjoint, NothingForgotten, Conserved, NoDoubleCount, ReadByAll
<1>2. BatchesDisjoint'
  <2>1. \A m \in publishing : TallyBytes(m) \cap TallyBytes(cache) = {}
    BY DEF Conserved, NoDoubleCount, PlacesDisjoint, PublishingBytes, CacheBytes
  <2> QED  BY <2>1 DEF Flush, BatchesDisjoint, Conserved, NoDoubleCount
<1>3. QueueDisjoint' /\ OwnBytes'
  BY FlushEffect DEF QueueDisjoint, OwnBytes, ReadBytes, Conserved, NoDoubleCount
<1> QED  BY <1>1, <1>2, <1>3 DEF Conserved, NoDoubleCount

(* A batch is delivered, or given up. *)
LEMMA PublishEffect ==
  ASSUME TypeOK, BatchesDisjoint, NEW m \in publishing, Publish(m) \/ PublishFails(m)
  PROVE  /\ PublishingBytes' = PublishingBytes \ TallyBytes(m)
         /\ TallyBytes(m) \subseteq PublishingBytes
         /\ TallyBytes(m) \subseteq Byte
         /\ BatchesDisjoint'
         /\ OpenBytes' = OpenBytes /\ ChannelBytes' = ChannelBytes /\ CacheBytes' = CacheBytes
         /\ read' = read /\ dataCh' = dataCh /\ accounted' = accounted
         /\ ReadByAll' = ReadByAll /\ stopping' = stopping
         /\ \/ BilledBytes' = BilledBytes \cup TallyBytes(m) /\ lost' = lost
            \/ BilledBytes' = BilledBytes /\ lost' = lost \cup TallyBytes(m)
<1>1. PICK D \in SUBSET Accounts : m \in Tally(D)
  BY DEF TypeOK
<1>2. TallyBytes(m) \subseteq Byte
  BY <1>1 DEF TallyBytes, Tally
<1>3. /\ PublishingBytes' = PublishingBytes \ TallyBytes(m)
      /\ TallyBytes(m) \subseteq PublishingBytes
      /\ BatchesDisjoint'
  BY PublishingRemove DEF Publish, PublishFails
<1>4. /\ OpenBytes' = OpenBytes /\ ChannelBytes' = ChannelBytes /\ CacheBytes' = CacheBytes
      /\ read' = read /\ dataCh' = dataCh /\ accounted' = accounted
      /\ ReadByAll' = ReadByAll /\ stopping' = stopping
  BY DEF Publish, PublishFails, transferVars, OpenBytes, ChannelBytes, CacheBytes,
         ReadByAll, ReadBytes
<1>5. \/ BilledBytes' = BilledBytes \cup TallyBytes(m) /\ lost' = lost
      \/ BilledBytes' = BilledBytes /\ lost' = lost \cup TallyBytes(m)
  <2>1. CASE Publish(m)
    BY <1>1, <2>1, BilledAdd DEF Publish
  <2>2. CASE PublishFails(m)
    BY <2>2 DEF PublishFails, BilledBytes
  <2> QED  BY <2>1, <2>2
<1> QED  BY <1>2, <1>3, <1>4, <1>5

LEMMA ConservedPublish ==
  ASSUME TypeOK, Conserved, NEW m \in publishing, Publish(m) \/ PublishFails(m)
  PROVE  Conserved'
<1>1. BatchesDisjoint
  BY DEF Conserved, NoDoubleCount
<1>2. PlacesDisjoint' /\ NothingForgotten'
  BY <1>1, PublishEffect
  DEF PlacesDisjoint, NothingForgotten, Conserved, NoDoubleCount, ReadByAll
<1>3. QueueDisjoint' /\ OwnBytes'
  BY <1>1, PublishEffect DEF QueueDisjoint, OwnBytes, ReadBytes, Conserved, NoDoubleCount
<1>4. BatchesDisjoint'
  BY <1>1, PublishEffect
<1> QED  BY <1>2, <1>3, <1>4 DEF Conserved, NoDoubleCount

(* The accountant goroutine returns, or the process ends. *)
Stop == AccountantStops \/ \E how \in {"exited", "panicked"} : Die(how)

LEMMA StopEffect ==
  ASSUME Stop
  PROVE  /\ ChannelBytes' = {} /\ CacheBytes' = {} /\ dataCh' = << >>
         /\ BilledBytes' = BilledBytes /\ read' = read /\ ReadByAll' = ReadByAll
         /\ stopping' = stopping
         /\ \/ /\ OpenBytes' = OpenBytes /\ PublishingBytes' = PublishingBytes
               /\ lost' = lost \cup ChannelBytes \cup CacheBytes
            \/ /\ OpenBytes' = {} /\ PublishingBytes' = {}
               /\ lost' = lost \cup OpenBytes \cup ChannelBytes \cup CacheBytes
                            \cup PublishingBytes
<1> USE DEF Stop
<1>1. ChannelBytes' = {} /\ CacheBytes' = {} /\ dataCh' = << >>
  BY EmptyPlaces DEF AccountantStops, Die, ChannelBytes, CacheBytes
<1>2. /\ BilledBytes' = BilledBytes /\ read' = read /\ ReadByAll' = ReadByAll
      /\ stopping' = stopping
  BY DEF AccountantStops, Die, transferVars, BilledBytes, ReadByAll, ReadBytes
<1>3. \/ /\ OpenBytes' = OpenBytes /\ PublishingBytes' = PublishingBytes
         /\ lost' = lost \cup ChannelBytes \cup CacheBytes
      \/ /\ OpenBytes' = {} /\ PublishingBytes' = {}
         /\ lost' = lost \cup OpenBytes \cup ChannelBytes \cup CacheBytes \cup PublishingBytes
  BY DEF AccountantStops, Die, transferVars, OpenBytes, PublishingBytes
<1> QED  BY <1>1, <1>2, <1>3

LEMMA ConservedStop ==
  ASSUME TypeOK, Conserved, Stop
  PROVE  Conserved'
<1>1. PlacesDisjoint' /\ NothingForgotten'
  BY StopEffect DEF PlacesDisjoint, NothingForgotten, Conserved, NoDoubleCount, ReadByAll
<1>2. QueueDisjoint'
  BY StopEffect, EmptyPlaces DEF QueueDisjoint
<1>3. BatchesDisjoint' /\ OwnBytes'
  BY DEF Stop, AccountantStops, Die, transferVars, BatchesDisjoint, OwnBytes, ReadBytes,
     Conserved, NoDoubleCount
<1> QED  BY <1>1, <1>2, <1>3 DEF Conserved, NoDoubleCount

LEMMA ConservedStep ==
  ASSUME TypeOK, Conserved, [Next]_vars
  PROVE  Conserved'
<1>1. ASSUME NEW t \in Transfers, TransferStep(t) PROVE Conserved'
  <2>1. CASE Loop(t) \/ DeadlineFails(t) \/ ReadEnds(t) \/ WriteAll(t) \/ WriteFails(t)
    BY <2>1, ConservedStutter
    DEF Loop, DeadlineFails, ReadEnds, WriteAll, WriteFails, accountantVars
  <2>2. CASE ReadData(t)
    BY <2>2, ConservedRead
  <2>3. CASE Decrement(t)
    BY <2>3, ConservedDecrement
  <2>4. CASE DecrementPanics(t)
    BY <2>4, ConservedStop DEF DecrementPanics, Stop
  <2> QED  BY <1>1, <2>1, <2>2, <2>3, <2>4 DEF TransferStep
<1>2. CASE Receive
  BY <1>2, ConservedReceive
<1>3. CASE Flush
  BY <1>3, ConservedFlush
<1>4. CASE PublishStep
  BY <1>4, ConservedPublish DEF PublishStep
<1>5. CASE Signal
  BY <1>5, ConservedStutter DEF Signal, transferVars, accountantVars
<1>6. CASE AccountantStops \/ MainReturns
  BY <1>6, ConservedStop DEF MainReturns, Stop
<1>7. CASE UNCHANGED vars
  BY <1>7, ConservedStutter DEF vars
<1> QED
  BY <1>1, <1>2, <1>3, <1>4, <1>5, <1>6, <1>7 DEF Next, Done

LEMMA ClosedStep ==
  ASSUME ClosedByShutdown, [Next]_vars
  PROVE  ClosedByShutdown'
BY DEF ClosedByShutdown, Next, TransferStep, PublishStep, Done, Loop, DeadlineFails, ReadData,
   ReadEnds, WriteAll, WriteFails, Decrement, DecrementPanics, Receive, Flush, Publish,
   PublishFails, Signal, MainReturns, AccountantStops, Die, transferVars, accountantVars, vars

LEMMA Inductive == Spec => []IInv
<1>1. Init => IInv
  BY TypeInit, ConservedInit DEF IInv, Conserved, ClosedByShutdown, Init
<1>2. IInv /\ [Next]_vars => IInv'
  BY TypeStep, ConservedStep, ClosedStep DEF IInv, Conserved
<1> QED  BY <1>1, <1>2, PTL DEF Spec

(* No byte is ever in two places of the accounting pipeline: nobody is     *)
(* charged twice for it.                                                   *)
THEOREM NeverDoubleCounted == Spec => []NoDoubleCount
<1>1. IInv => NoDoubleCount
  BY DEF IInv
<1> QED  BY <1>1, Inductive, PTL

(* Every byte a transfer has read is in one of the places of the pipeline. *)
THEOREM NeverForgotten == Spec => []NothingForgotten
<1>1. IInv => NothingForgotten
  BY DEF IInv
<1> QED  BY <1>1, Inductive, PTL

-----------------------------------------------------------------------------
(* Attribution: every usage record, map entry and batch holds bytes of the *)
(* account it is filed under.                                              *)

Attributed(m) == \A a \in DOMAIN m : \A b \in m[a] : Account[b[1]] = a

OwnInv ==
  /\ \A i \in 1 .. Len(dataCh) : \A b \in dataCh[i].data : Account[b[1]] = dataCh[i].account
  /\ Attributed(cache)
  /\ \A m \in publishing : Attributed(m)
  /\ BilledToItsOwner

LEMMA OwnInvStutter ==
  ASSUME OwnInv, UNCHANGED <<dataCh, cache, publishing, billed>>
  PROVE  OwnInv'
BY DEF OwnInv, Attributed, BilledToItsOwner

LEMMA OwnInvStep ==
  ASSUME TypeOK, OwnBytes, OwnInv, [Next]_vars
  PROVE  OwnInv'
<1>1. ASSUME NEW t \in Transfers, Decrement(t) PROVE OwnInv'
  <2> DEFINE r == [account |-> Account[t], data |-> accounted[t]]
  <2>1. \A b \in accounted[t] : b[1] = t
    BY DEF OwnBytes, ReadBytes
  <2>2. r \in Usage /\ \A b \in r.data : Account[b[1]] = r.account
    BY <2>1, ConstantsAssumption DEF Usage, TypeOK
  <2> HIDE DEF r
  <2>3. /\ Len(dataCh') = Len(dataCh) + 1 /\ Len(dataCh) \in Nat
        /\ \A i \in 1 .. Len(dataCh) : dataCh'[i] = dataCh[i]
        /\ dataCh'[Len(dataCh) + 1] = r
    BY <1>1, <2>2 DEF Decrement, TypeOK, r
  <2>4. ASSUME NEW i \in 1 .. Len(dataCh')
        PROVE  \A b \in dataCh'[i].data : Account[b[1]] = dataCh'[i].account
    <3>1. i \in 1 .. Len(dataCh) \/ i = Len(dataCh) + 1
      BY <2>3
    <3> QED  BY <2>2, <2>3, <3>1 DEF OwnInv
  <2> QED  BY <1>1, <2>4 DEF Decrement, OwnInv, Attributed, BilledToItsOwner
<1>2. CASE Receive
  <2>1. /\ Head(dataCh) = dataCh[1] /\ 1 \in 1 .. Len(dataCh)
        /\ Len(dataCh') = Len(dataCh) - 1 /\ Len(dataCh) \in Nat
        /\ \A i \in 1 .. Len(dataCh') : dataCh'[i] = dataCh[i + 1]
    BY <1>2, QueueTail DEF Receive, TypeOK
  <2>2. \A b \in Head(dataCh).data : Account[b[1]] = Head(dataCh).account
    BY <2>1 DEF OwnInv
  <2>3. Attributed(cache')
    BY <1>2, <2>2 DEF Receive, AddUsage, Attributed, OwnInv
  <2>4. ASSUME NEW i \in 1 .. Len(dataCh')
        PROVE  \A b \in dataCh'[i].data : Account[b[1]] = dataCh'[i].account
    <3>1. i + 1 \in 1 .. Len(dataCh)
      BY <2>1
    <3> QED  BY <2>1, <3>1 DEF OwnInv
  <2> QED  BY <1>2, <2>3, <2>4 DEF Receive, OwnInv, Attributed, BilledToItsOwner
<1>3. CASE Flush
  BY <1>3 DEF Flush, OwnInv, Attributed, BilledToItsOwner, EmptyTally
<1>4. ASSUME NEW m \in publishing, Publish(m) PROVE OwnInv'
  BY <1>4 DEF Publish, OwnInv, Attributed, BilledToItsOwner, TypeOK
<1>5. ASSUME NEW m \in publishing, PublishFails(m) PROVE OwnInv'
  BY <1>5 DEF PublishFails, OwnInv, Attributed, BilledToItsOwner
<1>6. CASE Stop
  BY <1>6, EmptyPlaces
  DEF Stop, AccountantStops, Die, OwnInv, Attributed, BilledToItsOwner, EmptyTally
<1>7. CASE UNCHANGED <<dataCh, cache, publishing, billed>>
  BY <1>7, OwnInvStutter
<1> QED
  BY <1>1, <1>2, <1>3, <1>4, <1>5, <1>6, <1>7
  DEF Next, TransferStep, PublishStep, Done, Loop, DeadlineFails, ReadData, ReadEnds,
      WriteAll, WriteFails, DecrementPanics, MainReturns, Signal, Stop,
      accountantVars, vars

(* Nobody is billed for the traffic of another user or node.               *)
THEOREM NeverMisattributed == Spec => []BilledToItsOwner
<1>1. Init => OwnInv
  BY EmptyPlaces DEF Init, OwnInv, Attributed, BilledToItsOwner, EmptyTally
<1>2. IInv /\ OwnInv /\ [Next]_vars => OwnInv'
  BY OwnInvStep DEF IInv
<1>3. OwnInv => BilledToItsOwner
  BY DEF OwnInv
<1> QED  BY <1>1, <1>2, <1>3, Inductive, PTL DEF Spec

-----------------------------------------------------------------------------
(* Refinement: every step of Accounting is a step of the ledger. *)

LEMMA LedgerInit == ASSUME Init PROVE Abstract!Init
<1>1. /\ OpenBytes = {} /\ BilledBytes = {} /\ PublishingBytes = {}
      /\ ChannelBytes = {} /\ CacheBytes = {}
  BY EmptyPlaces DEF Init, OpenBytes, BilledBytes, PublishingBytes, ChannelBytes, CacheBytes
<1> QED  BY <1>1 DEF Init, Abstract!Init

LEMMA LedgerStutter ==
  ASSUME UNCHANGED <<accounted, dataCh, cache, publishing, billed, lost, stopping>>
  PROVE  UNCHANGED Abstract!vars
BY DEF Abstract!vars, OpenBytes, ChannelBytes, CacheBytes, PublishingBytes, BilledBytes

LEMMA LedgerStep ==
  ASSUME TypeOK, Conserved, ClosedByShutdown, [Next]_vars
  PROVE  [Abstract!Next]_(Abstract!vars)
<1>1. OwnBytes /\ QueueDisjoint /\ BatchesDisjoint /\ PlacesDisjoint
  BY DEF Conserved, NoDoubleCount
<1>2. Abstract!Seen = ReadByAll
  BY DEF Abstract!Seen, Conserved, NothingForgotten, ReadByAll
<1>3. OpenBytes \cup ChannelBytes \cup CacheBytes \cup PublishingBytes \subseteq Byte
  BY PlacesTyped
<1>4. ASSUME NEW t \in Transfers, ReadData(t) PROVE Abstract!Next
  <2>1. PICK S \in SUBSET Byte : Fresh(t, S)
    BY <1>4, ReadEffect
  <2>2. Abstract!Meter(S)
    BY <1>2, <2>1 DEF Fresh, Abstract!Meter
  <2> QED  BY <2>2 DEF Abstract!Next
<1>5. ASSUME NEW t \in Transfers, Decrement(t) PROVE Abstract!Next
  <2>1. accounted[t] \in SUBSET Byte
    BY DEF TypeOK
  <2>2. Abstract!Report(accounted[t])
    BY <1>1, <1>5, DecrementEffect DEF Abstract!Report
  <2> QED  BY <2>1, <2>2 DEF Abstract!Next
<1>6. CASE Receive
  BY <1>1, <1>6, ReceiveEffect DEF Abstract!vars
<1>7. CASE Flush
  BY <1>7, FlushEffect DEF Abstract!vars
<1>8. ASSUME NEW m \in publishing, Publish(m) \/ PublishFails(m) PROVE Abstract!Next
  <2>1. Abstract!Bill(TallyBytes(m)) \/ Abstract!Drop(TallyBytes(m))
    BY <1>1, <1>8, PublishEffect DEF Abstract!Bill, Abstract!Drop, PlacesDisjoint
  <2> QED  BY <1>1, <1>8, <2>1, PublishEffect DEF Abstract!Next
<1>9. CASE Signal
  BY <1>9 DEF Signal, Abstract!Next, Abstract!GoDown, transferVars, accountantVars,
     OpenBytes, ChannelBytes, CacheBytes, PublishingBytes, BilledBytes
<1>10. CASE Stop /\ stopping
  <2>1. \E S \in SUBSET Byte : Abstract!Discard(S)
    <3>1. CASE OpenBytes' = OpenBytes /\ PublishingBytes' = PublishingBytes
                /\ lost' = lost \cup ChannelBytes \cup CacheBytes
      <4>1. Abstract!Discard(ChannelBytes \cup CacheBytes)
        BY <1>1, <1>10, <3>1, StopEffect DEF Abstract!Discard, PlacesDisjoint
      <4> QED  BY <1>3, <4>1
    <3>2. CASE OpenBytes' = {} /\ PublishingBytes' = {}
                /\ lost' = lost \cup OpenBytes \cup ChannelBytes \cup CacheBytes
                              \cup PublishingBytes
      <4>1. Abstract!Discard(OpenBytes \cup ChannelBytes \cup CacheBytes \cup PublishingBytes)
        BY <1>10, <3>2, StopEffect DEF Abstract!Discard
      <4> QED  BY <1>3, <4>1
    <3> QED  BY <1>10, <3>1, <3>2, StopEffect
  <2> QED  BY <2>1 DEF Abstract!Next
<1>11. CASE UNCHANGED <<accounted, dataCh, cache, publishing, billed, lost, stopping>>
  BY <1>11, LedgerStutter
<1>12. ASSUME NEW t \in Transfers, TransferStep(t) PROVE [Abstract!Next]_(Abstract!vars)
  <2>1. CASE DecrementPanics(t)
    BY <1>10, <2>1 DEF DecrementPanics, Stop, ClosedByShutdown
  <2>2. CASE Loop(t) \/ DeadlineFails(t) \/ ReadEnds(t) \/ WriteAll(t) \/ WriteFails(t)
    BY <1>11, <2>2
    DEF Loop, DeadlineFails, ReadEnds, WriteAll, WriteFails, accountantVars
  <2> QED  BY <1>4, <1>5, <1>12, <2>1, <2>2 DEF TransferStep
<1>13. CASE AccountantStops \/ MainReturns
  BY <1>10, <1>13 DEF AccountantStops, MainReturns, Stop
<1>14. CASE UNCHANGED vars
  BY <1>11, <1>14 DEF vars
<1> QED
  BY <1>6, <1>7, <1>8, <1>9, <1>12, <1>13, <1>14 DEF Next, PublishStep, Done

(* Accounting implements the ledger: whatever the interleaving of copy     *)
(* loops, accountant, publishers and shutdown, a metered byte is handed    *)
(* over and billed once, and lost only by a failed publish or while the    *)
(* process goes down.                                                      *)
THEOREM Implements == Spec => ImplementsLedger
<1>1. Init => Abstract!Init
  BY LedgerInit
<1>2. IInv /\ [Next]_vars => [Abstract!Next]_(Abstract!vars)
  BY LedgerStep DEF IInv, Conserved
<1> QED  BY <1>1, <1>2, Inductive, PTL DEF Spec, ImplementsLedger, Abstract!Spec

(* However the loop ends, a Transfer call that has returned holds nothing  *)
(* back (transfer.go, the report after the loop).                          *)
THEOREM ReturnReports == Spec => []ReturnedHasReported
<1>1. Init => ReturnedHasReported
  BY DEF Init, ReturnedHasReported
<1>2. TypeOK /\ ReturnedHasReported /\ [Next]_vars => ReturnedHasReported'
  <2> SUFFICES ASSUME TypeOK, ReturnedHasReported, [Next]_vars  PROVE ReturnedHasReported'
    OBVIOUS
  <2>1. ASSUME NEW t \in Transfers, ReadData(t)  PROVE ReturnedHasReported'
    BY <2>1 DEF ReadData, Goto, TypeOK, ReturnedHasReported
  <2>2. ASSUME NEW t \in Transfers, Decrement(t)  PROVE ReturnedHasReported'
    BY <2>2 DEF Decrement, Goto, TypeOK, ReturnedHasReported
  <2>3. ASSUME NEW t \in Transfers,
               Loop(t) \/ DeadlineFails(t) \/ ReadEnds(t) \/ WriteAll(t) \/ WriteFails(t)
        PROVE ReturnedHasReported'
    BY <2>3 DEF Loop, DeadlineFails, ReadEnds, WriteAll, WriteFails, Break, Goto, TypeOK,
       ReturnedHasReported
  <2>4. ASSUME NEW how, Die(how)  PROVE ReturnedHasReported'
    BY <2>4 DEF Die, ReturnedHasReported
  <2>5. CASE UNCHANGED <<pc, accounted>>
    BY <2>5 DEF ReturnedHasReported
  <2> QED
    BY <2>1, <2>2, <2>3, <2>4, <2>5
    DEF Next, TransferStep, DecrementPanics, MainReturns, Receive, Flush, PublishStep, Publish,
        PublishFails, Signal, AccountantStops, Done, transferVars, vars
<1> QED  BY <1>1, <1>2, TypeCorrect, PTL DEF Spec

-----------------------------------------------------------------------------
(* Exposure: a read starts below the threshold and adds one buffer.        *)

Exposed ==
  \A t \in Transfers :
    /\ IsFiniteSet(accounted[t])
    /\ Cardinality(accounted[t]) < AccountBytes + BufferSize
    /\ pc[t] = "read" => Cardinality(accounted[t]) < AccountBytes

LEMMA ReadAdds ==
  ASSUME NEW S, IsFiniteSet(S), NEW t, NEW i \in Nat, NEW n \in Nat
  PROVE  /\ IsFiniteSet(S \cup ({t} \X (i + 1 .. i + n)))
         /\ Cardinality(S \cup ({t} \X (i + 1 .. i + n))) <= Cardinality(S) + n
<1> DEFINE R == i + 1 .. i + n
           P == {t} \X R
<1>1. IsFiniteSet(R) /\ Cardinality(R) = n
  <2>1. i + 1 \in Int /\ i + n \in Int
    OBVIOUS
  <2>2. /\ IsFiniteSet(R)
        /\ Cardinality(R) = IF i + 1 > i + n THEN 0 ELSE (i + n) - (i + 1) + 1
    BY <2>1, FS_Interval
  <2>3. (IF i + 1 > i + n THEN 0 ELSE (i + n) - (i + 1) + 1) = n
    OBVIOUS
  <2> QED  BY <2>2, <2>3
<1>2. IsFiniteSet({t}) /\ Cardinality({t}) = 1
  BY FS_Singleton
<1>3. IsFiniteSet(P) /\ Cardinality(P) = n
  <2>1. IsFiniteSet(P) /\ Cardinality(P) = 1 * n
    <3>1. /\ IsFiniteSet({t} \X R)
          /\ Cardinality({t} \X R) = Cardinality({t}) * Cardinality(R)
      <4> HIDE DEF R
      <4> QED BY <1>1, <1>2, FS_Product
    <3> QED BY <1>1, <1>2, <3>1
  <2> QED  BY <2>1
<1> HIDE DEF P
<1>4. IsFiniteSet(S \cup P) /\ Cardinality(S \cup P) = Cardinality(S) + n - Cardinality(S \cap P)
  BY <1>3, FS_Union
<1>5. IsFiniteSet(S \cap P)
  BY FS_Subset
<1>6. Cardinality(S) \in Nat /\ Cardinality(S \cap P) \in Nat
  BY <1>5, FS_CardinalityType
<1>7. IsFiniteSet(S \cup P) /\ Cardinality(S \cup P) <= Cardinality(S) + n
  BY <1>4, <1>6
<1> QED  BY <1>7 DEF P

(* Whatever the sizes, a Transfer call never holds back more than one      *)
(* buffer less one byte beyond AccountBytes (transfer.go, the report in    *)
(* the loop).                                                              *)
THEOREM ExposureIsBounded == Spec => []BoundedExposure
<1> USE ConstantsAssumption
<1>1. Init => Exposed
  <2>1. IsFiniteSet({}) /\ Cardinality({}) = 0
    BY FS_EmptySet
  <2> QED  BY <2>1 DEF Init, Exposed
<1>2. TypeOK /\ Exposed /\ [Next]_vars => Exposed'
  <2> SUFFICES ASSUME TypeOK, Exposed, [Next]_vars  PROVE Exposed'
    OBVIOUS
  <2>0. IsFiniteSet({}) /\ Cardinality({}) = 0
    BY FS_EmptySet
  <2>1. ASSUME NEW t \in Transfers, ReadData(t)  PROVE Exposed'
    <3>1. PICK n \in 1 .. BufferSize :
            accounted' = [accounted EXCEPT ![t] = @ \cup ({t} \X (read[t] + 1 .. read[t] + n))]
      BY <2>1 DEF ReadData
    <3>2. pc[t] = "read" /\ pc' = [pc EXCEPT ![t] = "write"]
      BY <2>1 DEF ReadData, Goto
    <3>3. read[t] \in Nat /\ n \in Nat /\ n <= BufferSize
      BY DEF TypeOK
    <3>4. accounted'[t] = accounted[t] \cup ({t} \X (read[t] + 1 .. read[t] + n))
      BY <3>1 DEF TypeOK
    <3>5. IsFiniteSet(accounted[t]) /\ Cardinality(accounted[t]) < AccountBytes
      BY <3>2 DEF Exposed
    <3>6. /\ IsFiniteSet(accounted'[t])
          /\ Cardinality(accounted'[t]) <= Cardinality(accounted[t]) + n
      <4> DEFINE S == accounted[t]
                 i == read[t]
      <4>1. IsFiniteSet(S) /\ i \in Nat /\ n \in Nat
        BY <3>3, <3>5
      <4> HIDE DEF S, i
      <4>2. /\ IsFiniteSet(S \cup ({t} \X (i + 1 .. i + n)))
            /\ Cardinality(S \cup ({t} \X (i + 1 .. i + n))) <= Cardinality(S) + n
        BY <4>1, ReadAdds
      <4> QED  BY <3>4, <4>2 DEF S, i
    <3>7. Cardinality(accounted[t]) \in Nat /\ Cardinality(accounted'[t]) \in Nat
      BY <3>5, <3>6, FS_CardinalityType
    <3>8. Cardinality(accounted'[t]) < AccountBytes + BufferSize
      BY <3>3, <3>5, <3>6, <3>7
    <3>9. \A u \in Transfers \ {t} : accounted'[u] = accounted[u] /\ pc'[u] = pc[u]
      BY <3>1, <3>2 DEF TypeOK
    <3>10. pc'[t] = "write"
      BY <3>2 DEF TypeOK
    <3> QED  BY <3>6, <3>8, <3>9, <3>10 DEF Exposed
  <2>2. ASSUME NEW t \in Transfers, Decrement(t)  PROVE Exposed'
    BY <2>0, <2>2 DEF Decrement, Goto, TypeOK, Exposed
  <2>3. ASSUME NEW t \in Transfers, Loop(t)  PROVE Exposed'
    <3>1. Cardinality(accounted[t]) \in Nat
      BY FS_CardinalityType DEF Exposed
    <3> QED  BY <2>3, <3>1 DEF Loop, Goto, TypeOK, Exposed
  <2>4. ASSUME NEW t \in Transfers,
               DeadlineFails(t) \/ ReadEnds(t) \/ WriteAll(t) \/ WriteFails(t)
        PROVE Exposed'
    BY <2>4 DEF DeadlineFails, ReadEnds, WriteAll, WriteFails, Break, Goto, TypeOK, Exposed
  <2>5. ASSUME NEW how, Die(how)  PROVE Exposed'
    BY <2>0, <2>5 DEF Die, Exposed
  <2>6. CASE UNCHANGED <<pc, accounted>>
    BY <2>6 DEF Exposed
  <2> QED
    BY <2>1, <2>2, <2>3, <2>4, <2>5, <2>6
    DEF Next, TransferStep, DecrementPanics, MainReturns, Receive, Flush, PublishStep, Publish,
        PublishFails, Signal, AccountantStops, Done, transferVars, vars
<1>3. Exposed => BoundedExposure
  BY DEF Exposed, BoundedExposure
<1> QED  BY <1>1, <1>2, <1>3, TypeCorrect, PTL DEF Spec

(* What was read is kept until it is billed, and handed over in time.      *)
THEOREM NeverKeptBack == Spec => []BytesAreKept
<1> QED  BY NeverForgotten, ReturnReports, PTL DEF BytesAreKept
=============================================================================
