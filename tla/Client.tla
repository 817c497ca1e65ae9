------------------------------- MODULE Client -------------------------------
(***************************************************************************)
(* The clients of hosts that a Client keeps in a map (fasthttp/client.go,  *)
(* Client.Do, mCleaner), and the calls with a deadline that run in a       *)
(* goroutine of their own (clientGetURLDeadline).  What a HostClient does  *)
(* with its connections is left to HostClient.                             *)
(***************************************************************************)
EXTENDS Integers, FiniteSets

CONSTANTS
  Calls, None,
  Hosts,       \* of the calls, with their scheme
  HostOf,      \* the host of a call
  Channels,    \* objects of clientURLResponseChPool
  Instances    \* bound: HostClient objects of a host

VARIABLES
  mLock,       \* c.mLock: free, or held for ever
  m,           \* c.m: the HostClient of a host, 0 if there is none
  born,        \* how many HostClients a host has had
  pending,     \* pendingClientRequests of each HostClient
  connsCount,  \* connsCount of each HostClient
  cleaners,    \* mCleaner goroutines that run, and those told to stop
  at,          \* where the goroutine of a call is
  using,       \* the HostClient of a call
  caller,      \* where the caller of a call is
  channel,     \* the channel of a call
  sent,        \* the answer in a channel
  timedout     \* the calls that have told their goroutine not to answer

mapVars == <<mLock, m, born, pending, connsCount>>
callVars == <<at, using>>
waitVars == <<caller, channel, sent, timedout>>
vars == <<mapVars, cleaners, callVars, waitVars>>

Objects == Hosts \X (1 .. Instances)

Init ==
  /\ mLock = FALSE /\ m = [h \in Hosts |-> 0] /\ born = [h \in Hosts |-> 0]
  /\ pending = [o \in Objects |-> 0] /\ connsCount = [o \in Objects |-> 0]
  /\ cleaners = 0
  /\ at = [c \in Calls |-> "none"] /\ using = [c \in Calls |-> None]
  /\ caller = [c \in Calls |-> "start"] /\ channel = [c \in Calls |-> None]
  /\ sent = [ch \in Channels |-> None] /\ timedout = {}

-----------------------------------------------------------------------------
(* clientGetURLDeadline                                                    *)

Get(c) ==
  /\ caller[c] = "start"
  /\ \E ch \in Channels :
       /\ \A d \in Calls : channel[d] = ch => caller[d] = "returned"
       /\ channel' = [channel EXCEPT ![c] = ch]
  /\ caller' = [caller EXCEPT ![c] = "wait"] /\ at' = [at EXCEPT ![c] = "do"]
  /\ UNCHANGED <<mapVars, cleaners, using, sent, timedout>>

(* The goroutine answers, under a lock, unless its caller has gone. *)
Answer(c) ==
  /\ at[c] = "answer"
  /\ sent' = IF c \in timedout THEN sent ELSE [sent EXCEPT ![channel[c]] = c]
  /\ at' = [at EXCEPT ![c] = "end"]
  /\ UNCHANGED <<mapVars, cleaners, using, caller, channel, timedout>>

Receive(c) ==
  /\ caller[c] = "wait" /\ sent[channel[c]] # None
  /\ sent' = [sent EXCEPT ![channel[c]] = None]
  /\ caller' = [caller EXCEPT ![c] = "returned"]
  /\ UNCHANGED <<mapVars, cleaners, callVars, channel, timedout>>

(* An answer that came with the timeout is taken, so the channel that goes *)
(* back to the pool is empty.                                              *)
TimesOut(c) ==
  /\ caller[c] = "wait"
  /\ IF at[c] = "end"
     THEN sent' = [sent EXCEPT ![channel[c]] = None] /\ UNCHANGED timedout
     ELSE timedout' = timedout \cup {c} /\ UNCHANGED sent
  /\ caller' = [caller EXCEPT ![c] = "returned"]
  /\ UNCHANGED <<mapVars, cleaners, callVars, channel>>

-----------------------------------------------------------------------------
(* Client.Do                                                               *)

Known(c) == m[HostOf[c]] # 0

(* Mutant of Do: the request is counted after the lock is released. *)
DoUncounted(c) ==
  /\ at[c] = "do" /\ ~mLock /\ Known(c)
  /\ using' = [using EXCEPT ![c] = <<HostOf[c], m[HostOf[c]]>>]
  /\ at' = [at EXCEPT ![c] = "host"]
  /\ UNCHANGED <<mapVars, cleaners, waitVars>>

Do(c) ==
  /\ at[c] = "do" /\ ~mLock /\ Known(c)
  /\ LET o == <<HostOf[c], m[HostOf[c]]>> IN
       using' = [using EXCEPT ![c] = o] /\ pending' = [pending EXCEPT ![o] = @ + 1]
  /\ at' = [at EXCEPT ![c] = "host"]
  /\ UNCHANGED <<mLock, m, born, connsCount, cleaners, waitVars>>

(* The first host of the map brings the cleaner with it. *)
DoNew(c) ==
  /\ at[c] = "do" /\ ~mLock /\ ~Known(c) /\ born[HostOf[c]] < Instances
  /\ LET h == HostOf[c]  o == <<h, born[h] + 1>> IN
       /\ born' = [born EXCEPT ![h] = @ + 1] /\ m' = [m EXCEPT ![h] = born[h] + 1]
       /\ using' = [using EXCEPT ![c] = o] /\ pending' = [pending EXCEPT ![o] = 1]
  /\ cleaners' = IF \A h \in Hosts : m[h] = 0 THEN cleaners + 1 ELSE cleaners
  /\ at' = [at EXCEPT ![c] = "host"]
  /\ UNCHANGED <<mLock, connsCount, waitVars>>

(* ConfigureClient fails: Do returns with the lock in its hands. *)
ConfigureFails(c) ==
  /\ at[c] = "do" /\ ~mLock /\ ~Known(c)
  /\ mLock' = TRUE
  /\ at' = [at EXCEPT ![c] = "answer"]
  /\ UNCHANGED <<m, born, pending, connsCount, cleaners, using, waitVars>>

(* HostClient.Do: a connection may be opened and stay open. *)
HostDo(c) ==
  /\ at[c] = "host"
  /\ \E n \in {0, 1} : connsCount' = [connsCount EXCEPT ![using[c]] = n]
  /\ at' = [at EXCEPT ![c] = "return"]
  /\ UNCHANGED <<mLock, m, born, pending, cleaners, using, waitVars>>

Return(c) ==
  /\ at[c] = "return"
  /\ pending' = [pending EXCEPT ![using[c]] = @ - 1]
  /\ using' = [using EXCEPT ![c] = None]
  /\ at' = [at EXCEPT ![c] = "answer"]
  /\ UNCHANGED <<mLock, m, born, connsCount, cleaners, waitVars>>

ConnsClose(o) ==
  /\ connsCount[o] # 0
  /\ connsCount' = [connsCount EXCEPT ![o] = 0]
  /\ UNCHANGED <<mLock, m, born, pending, cleaners, callVars, waitVars>>

-----------------------------------------------------------------------------
(* mCleaner                                                                *)

Unneeded(h) == m[h] # 0 /\ connsCount[<<h, m[h]>>] = 0 /\ pending[<<h, m[h]>>] = 0

(* One pass, under the lock; over an empty map it is the last. *)
Clean ==
  /\ cleaners > 0 /\ ~mLock
  /\ m' = [h \in Hosts |-> IF Unneeded(h) THEN 0 ELSE m[h]]
  /\ cleaners' = IF \A h \in Hosts : m'[h] = 0 THEN cleaners - 1 ELSE cleaners
  /\ UNCHANGED <<mLock, born, pending, connsCount, callVars, waitVars>>

-----------------------------------------------------------------------------
Next ==
  \/ \E c \in Calls : Get(c) \/ Answer(c) \/ Receive(c) \/ TimesOut(c)
       \/ Do(c) \/ DoNew(c) \/ ConfigureFails(c) \/ HostDo(c) \/ Return(c)
  \/ \E o \in Objects : ConnsClose(o)
  \/ Clean

Spec == Init /\ [][Next]_vars

-----------------------------------------------------------------------------
(* All connections to a host and all requests for it are with the          *)
(* HostClient of the map, so that its limit is the host's, and one cleaner *)
(* runs while there is any host (client.go, Client.Do, mCleaner).          *)
OneClientPerHost ==
  /\ \A o \in Objects : connsCount[o] > 0 \/ (\E c \in Calls : using[c] = o) => m[o[1]] = o[2]
  /\ cleaners = IF \A h \in Hosts : m[h] = 0 THEN 0 ELSE 1

(* What a call receives is its own answer: no channel goes to the next     *)
(* call with an answer in it or on its way, for all the timeouts there are *)
(* (client.go, clientGetURLDeadline).                                      *)
AnswersAreOwn ==
  \A ch \in Channels : sent[ch] # None =>
    channel[sent[ch]] = ch /\ caller[sent[ch]] = "wait"

-----------------------------------------------------------------------------
(* Why both hold: pendingClientRequests counts the calls that have the     *)
(* HostClient, so the cleaner takes none from under them; and a call that  *)
(* has not answered yet has its caller still, or knows that it left.       *)
TypeOK ==
  /\ born \in [Hosts -> 0 .. Instances] /\ m \in [Hosts -> 0 .. Instances]
  /\ pending \in [Objects -> Int] /\ connsCount \in [Objects -> {0, 1}] /\ cleaners \in Int
  /\ at \in [Calls -> {"none", "do", "host", "return", "answer", "end"}]
  /\ using \in [Calls -> Objects \cup {None}]
  /\ caller \in [Calls -> {"start", "wait", "returned"}]
  /\ channel \in [Calls -> Channels \cup {None}]
  /\ sent \in [Channels -> Calls \cup {None}] /\ timedout \subseteq Calls

Users(o) == {c \in Calls : using[c] = o}
RequestsAreCounted ==
  /\ \A c \in Calls : using[c] # None <=> at[c] \in {"host", "return"}
  /\ \A o \in Objects : pending[o] = Cardinality(Users(o))

AnswersAreAwaited ==
  /\ \A c \in Calls :
       /\ caller[c] = "start" <=> at[c] = "none"
       /\ caller[c] # "start" => channel[c] \in Channels
       /\ at[c] \notin {"none", "end"} => caller[c] = "wait" \/ c \in timedout
       /\ c \in timedout => caller[c] = "returned"
  /\ \A c, d \in Calls : caller[c] = "wait" /\ caller[d] = "wait" /\ c # d
                          => channel[c] # channel[d]
  /\ \A ch \in Channels : sent[ch] # None => at[sent[ch]] = "end"

Inv == TypeOK /\ RequestsAreCounted /\ OneClientPerHost /\ AnswersAreAwaited /\ AnswersAreOwn
=============================================================================
