SPECIFICATION MCSpec
CONSTANTS
  call1 = call1
  call2 = call2
  call3 = call3
  n1 = n1
  n2 = n2
  Nobody = Nobody
  Calls <- MCCalls
  Few <- MCFew
  Connections <- MCConnections
  MaxConns = 1
  MaxAttempts = 2
  Idempotent <- MCFirstCall
  ClosingCalls <- MCFirstCall
  PoolConfigurations <- MCPoolConfigurations
  Stopped = "stopped"
  Deadlines <- MCFirstCall
  MaxPendingRequests = 2
  Runners = {"r"}
  ChannelPairs = 1
  ProxyAddresses = {"tcp", "quic"}
  Expiration = 3
  Failures = 1
  Horizon = 9
  Hosts = {"h", "g"}
  HostOf <- MCHostOf
  Channels = {"k1", "k2"}
  Instances = 2
  Buffers = {"b1", "b2", "b3"}
  PipeCapacity = 1
  PipeUnits = 2
  MaxWrites = 4
  ResolvedAddresses = 2
  Concurrency = 1
  Entries = 2
  Forms = {"plain", "gzip"}
  FilesMade = 2
  Clients = {"x", "y"}
  FirstClients <- MCFirst
  MaxPenalty = 1
  Totals = 2
  Messages = {"m", "d"}
  Values = {"x", "y"}
  Streams = {"s", "t"}
  MaxLen = 2
  HeaderValues <- MCHeaderValues
  Cookies <- MCCookies
  CookieName <- MCCookieName
  TrailerNames = {"X-Sum"}
  Lengths <- MCLengths
  Number <- MCNumber
  Received <- MCReceived
  MaxArgs = 2
  Chunk = 2
  Prefetch = 2
  Requests <- MCSentRequests
  Responses <- MCSentResponses
  Limits <- MCLimits
  Arrivals <- MCArrivals
  Nil = "nil"
  Words <- MCWords
  Countries <- MCCountries
  Regions <- MCPlaces
  Cities <- MCPlaces
  Long <- MCLong
  Numbers <- MCNumbers
  Letters <- MCLetters
  TimeSecond = 3
  Width = 6
  Default = 10
  Maximum = 20
  Usernames <- MCUsernames
  Duos <- MCDuos
  Password = "secret"
SYMMETRY Symmetry
INVARIANTS
  HoldersAreCounted NobodyWaitsInVain OneClientPerHost 
  ListingIsTrue PipesKeepOrder MessagesSurvive   NamesAreRead
CHECK_DEADLOCK FALSE
