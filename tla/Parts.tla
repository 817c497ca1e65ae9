------------------------------- MODULE Parts -------------------------------
(***************************************************************************)
(* The parts that work by themselves: what fasthttp's clients are made of, *)
(* its bodies, its in-memory connections, its file server's cache, and the *)
(* listing of the proxy in Redis.  A behaviour is one part's; its          *)
(* variables are in the cells v1, v2, ...  MCParts has the parts that are  *)
(* only model-checked.                                                     *)
(***************************************************************************)
EXTENDS Integers, Sequences, FiniteSets

CONSTANTS
  Calls, Nobody,
  Few,                         \* those of the calls that read files or are balanced
  Connections, MaxConns, MaxAttempts, Idempotent, ClosingCalls, PoolConfigurations,
  Stopped, Deadlines, MaxPendingRequests, Runners, ChannelPairs,
  ProxyAddresses, Expiration, Failures, Horizon,
  Hosts, HostOf, Channels, Instances,
  ResolvedAddresses, Concurrency, Entries,
  Forms, FilesMade,
  Clients, FirstClients, MaxPenalty, Totals,
  Messages, Values, Streams, MaxLen,
  Buffers, PipeCapacity, PipeUnits, MaxWrites

ASSUME CallsAssumption == IsFiniteSet(Calls) /\ Few \subseteq Calls
ASSUME NobodyAssumption == Nobody \notin Int \cup Calls

ASSUME HostAssumption ==
  /\ IsFiniteSet(Connections) /\ Nobody \notin Connections /\ MaxConns \in Nat
  /\ \A n \in Connections : n \notin {"none", "waiting", "error", "dial", "count"}

ASSUME ClientAssumption ==
  HostOf \in [Calls -> Hosts] /\ Instances \in Nat /\ Nobody \notin Channels
    /\ Nobody \notin Hosts \X (1 .. Instances)

ASSUME PipelineAssumption ==
  ChannelPairs \in Nat /\ MaxPendingRequests \in Nat \ {0} /\ Stopped # Nobody

ASSUME BalancerAssumption ==
  FirstClients \in Seq(Clients) /\ Len(FirstClients) > 0 /\ MaxPenalty \in Nat
    /\ Nobody \notin [client : Clients, n : Int, t : Int]

ASSUME BodyAssumption == Nobody \notin Streams /\ Nobody \notin Seq(Values \cup Streams)

ASSUME PipeAssumption ==
  /\ PipeUnits \in Nat \ {0} /\ PipeCapacity \in Nat /\ MaxWrites \in Nat
  /\ Nobody \notin Buffers

ASSUME FilesAssumption == FilesMade \in Nat /\ Nobody \notin Forms
ASSUME DialerAssumption == Concurrency \in Nat /\ Entries \in Nat

(* With one second the ticker of the listing would have no period.  *)
ASSUME ListingAssumption ==
  Expiration \in Nat /\ Expiration > 1 /\ Failures \in Nat /\ Horizon \in Nat

VARIABLES part, v1, v2, v3, v4, v5, v6, v7, v8, v9, v10, v11, v12, v13, v14, v15,
          v16, v17, v18

Host == INSTANCE HostClient WITH
    None <- Nobody, Closing <- ClosingCalls, Configurations <- PoolConfigurations,
    config <- v1, connsCount <- v2, conns <- v3, connsWait <- v4, cleaner <- v5,
    scratch <- v6, at <- v7, held <- v8, want <- v9, dialing <- v10, failure <- v11,
    attempts <- v12, late <- v13, lost <- v14, uncleaned <- v15

Pipeline == INSTANCE PipelineClient WITH
    None <- Nobody, Capacity <- MaxPendingRequests, Channels <- ChannelPairs,
    current <- v1, made <- v2, chW <- v3, chR <- v4, runner <- v5, writer <- v6,
    reader <- v7, wch <- v8, rch <- v9, writing <- v10, reading <- v11, wire <- v12,
    clean <- v13, at <- v14, answer <- v15

Listing == INSTANCE Discovery WITH
    Addresses <- ProxyAddresses,
    ttl <- v1, loop <- v2, todo <- v3, timer <- v4, ticked <- v5, process <- v6,
    client <- v7, left <- v8, failures <- v9, time <- v10, late <- v11, gone <- v12,
    since <- v13

Map == INSTANCE Client WITH
    None <- Nobody,
    mLock <- v1, m <- v2, born <- v3, pending <- v4, connsCount <- v5,
    cleaners <- v6, at <- v7, using <- v8, caller <- v9, channel <- v10,
    sent <- v11, timedout <- v12

Dial == INSTANCE Dialer WITH
    None <- Nobody, Addresses <- ResolvedAddresses,
    cached <- v1, made <- v2, age <- v3, pending <- v4, slots <- v5, at <- v6,
    entry <- v7, n <- v8, asking <- v9

Files == INSTANCE FileCache WITH
    None <- Nobody, Calls <- Few, Files <- FilesMade,
    big <- v1, cache <- v2, made <- v3, readers <- v4, open <- v5, bigFiles <- v6,
    opened <- v7, old <- v8, pending <- v9, release <- v10, at <- v11, form <- v12,
    file <- v13, other <- v14, disk <- v15, lock <- v16, indexes <- v17, lost <- v18

Balancer == INSTANCE Balance WITH
    None <- Nobody, First <- FirstClients, Calls <- Few,
    cs <- v1, penalty <- v2, total <- v3, timers <- v4, at <- v5, scan <- v6, best <- v7,
    locked <- v8

Contents == INSTANCE Body WITH
    None <- Nobody,
    kind <- v1, keep <- v2, msg <- v3, left <- v4, state <- v5, expected <- v6,
    drained <- v7

Memory == INSTANCE Pipe WITH
    None <- Nobody, Units <- PipeUnits, Capacity <- PipeCapacity,
    pool <- v1, content <- v2, ch <- v3, stopCh <- v4, writer <- v5, holding <- v6,
    reader <- v7, current <- v8, rest <- v9, begun <- v10, written <- v11, got <- v12,
    atClose <- v13

-----------------------------------------------------------------------------
(* Cells that a part has no use for. *)
From16 == v16 = 0 /\ v17 = 0 /\ v18 = 0
From14 == v14 = 0 /\ v15 = 0 /\ From16
From13 == v13 = 0 /\ From14
From10 == v10 = 0 /\ v11 = 0 /\ v12 = 0 /\ From13
From9 == v9 = 0 /\ From10
From8 == v8 = 0 /\ From9
From2 == v2 = 0 /\ v3 = 0 /\ v4 = 0 /\ v5 = 0 /\ v6 = 0 /\ v7 = 0 /\ From8

Init ==
  \/ part = "host client" /\ Host!Init /\ From16
  \/ part = "pipeline client" /\ Pipeline!Init /\ From16
  \/ part = "discovery" /\ Listing!Init /\ From14
  \/ part = "pipe" /\ Memory!Init /\ From14
  \/ part = "client" /\ Map!Init /\ From13
  \/ part = "dialer" /\ Dial!Init /\ From10
  \/ part = "files" /\ Files!Init
  \/ part = "balancer" /\ Balancer!Init /\ From9
  \/ part = "body" /\ Contents!Init /\ From8

Next ==
  /\ UNCHANGED part
  /\ \/ part = "files" /\ Files!Next
     \/ /\ UNCHANGED <<v16, v17, v18>>
        /\ \/ part = "host client" /\ Host!Next
           \/ part = "pipeline client" /\ Pipeline!Next
           \/ part = "discovery" /\ Listing!Next /\ UNCHANGED <<v14, v15>>
           \/ part = "pipe" /\ Memory!Next /\ UNCHANGED <<v14, v15>>
           \/ part = "client" /\ Map!Next /\ UNCHANGED <<v13, v14, v15>>
           \/ part = "dialer" /\ Dial!Next /\ UNCHANGED <<v10, v11, v12, v13, v14, v15>>
           \/ /\ part = "balancer" /\ Balancer!Next
              /\ UNCHANGED <<v9, v10, v11, v12, v13, v14, v15>>
           \/ /\ part = "body" /\ Contents!Next
              /\ UNCHANGED <<v8, v9, v10, v11, v12, v13, v14, v15>>

cells == <<v1, v2, v3, v4, v5, v6, v7, v8, v9, v10, v11, v12, v13, v14, v15,
           v16, v17, v18>>
Spec == Init /\ [][Next]_<<part, cells>>

-----------------------------------------------------------------------------
(* What is held is counted, and given back once: the connections of a host *)
(* are MaxConns at most, each counted until it is closed, and while some   *)
(* are idle a goroutine is there to close them; a slot of the dialer's     *)
(* Concurrency is a dial that runs; a file is open while calls read it,    *)
(* and is closed after; a client's penalty has a timer that lifts it.      *)
(* (client.go:1485-1768, tcpdialer.go:311-348, fs.go:751-913,              *)
(* lbclient.go:155-192)                                                    *)
HoldersAreCounted ==
  /\ part = "host client" => Host!ConnsAreCounted /\ Host!IdleIsCleaned
  /\ part = "dialer" => Dial!SlotsAreDials
  /\ part = "files" => Files!ReadFilesAreOpen /\ Files!FilesAreClosed
  /\ part = "balancer" => Balancer!PenaltiesEnd

(* A free connection does not lie idle while a call waits for one, and a   *)
(* name whose resolution failed can be resolved again.                     *)
(* (client.go:1584, 1743-1768, tcpdialer.go:384-415)                       *)
NobodyWaitsInVain ==
  /\ part = "host client" => Host!FreeConnsReachWaiters
  /\ part = "dialer" => Dial!PendingIsRenewed

(* The calls to a host share one HostClient while it has requests.         *)
(* (client.go:467-600)                                                     *)
OneClientPerHost == part = "client" => Map!OneClientPerHost

(* An answer reaches the call it is for and no other, by the client's      *)
(* channels, whose calls may have timed out, and by a pipeline, whose      *)
(* connection may have failed; a pipelined request is never dropped        *)
(* without an answer. (client.go:861-980, 2640-2820)                       *)
AnswersReachTheirCalls ==
  /\ part = "client" => Map!AnswersAreOwn
  /\ part = "pipeline client" => Pipeline!ResponsesMatch /\ Pipeline!NoRequestIsDropped

(* A proxy that is up is listed, unless Redis failed it or was late; a     *)
(* host that was deleted, or whose proxy has ended, is not.                *)
(* (discovery/redis.go:36-66)                                              *)
ListingIsTrue == part = "discovery" => Listing!StaysListed /\ Listing!LeavesTheList

(* A message has the body that was given to it last, wherever that is, and *)
(* each stream is closed when no message has it. (http.go)                 *)
BodyIsWhatWasSet ==
  part = "body" => Contents!BodyIsWhatWasSet /\ Contents!StreamsAreClosed

(* An in-memory connection gives what was sent, in order, before its end,  *)
(* from buffers nobody else has. (pipeconns.go:97-195)                     *)
PipesKeepOrder == part = "pipe" => Memory!PipesKeepOrder
=============================================================================
