CONSTANTS
  web = web
  db = db
  shard1 = shard1
  shard2 = shard2
  foreign = foreign
  NoHost = NoHost
  Containers <- MCContainers
  MaxNoise = 1
  MaxBytes = 4
  ReadSize = 2
  MinWait = 1
  KillWait = 1
  ShardHosts <- MCShardHosts
  ForeignHosts <- MCForeignHosts
  Addresses <- MCAddresses
  PublicAddresses <- MCPublicAddresses
  MaxRecords = 2
  MaxAddresses = 2
  MaxKept = 2
  MaxProbes = 3
  AtlasLimit = 3
  EndpointLimit = 2
  DnsLimit = 2
  Destinations <- MCDestinations
  SafeDestinations <- MCSafeDestinations
  Unroutable <- MCUnroutable
  MaxResolved = 2
  ResolveLimit = 1
  RequestLimit = 2
  ConnectLimit = 1
  TlsFloor = 1
  CommandLimit = 2
  RouteLimit = 1
  WriteLimit = 2
  ListedRows = 1
  ResultRows = 1
  MaxNow = 9
SPECIFICATION RequestSpec
INVARIANTS
  TypeOK
  AnswerIsWhole
  MissingIsAbsent
  SurvivorsAreOrphans
  DestinationsVetted
  UnreachableIsEarned
  SocketOutlivesResponse
  AnsweredInTime
PROPERTY AlwaysAnswered
CHECK_DEADLOCK FALSE
