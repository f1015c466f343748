SPECIFICATION RoutesSpec
CONSTANTS
  apex = apex
  www = www
  api = api
  wild = wild
  shared = shared
  own = own
  Apex = apex
  Hosts <- MCHosts
  Wildcards <- MCWildcards
  Serves <- MCServes
  MaxProbes = 2
  MaxHosts = 3
  MaxRequests = 2
  Window = 2
CHECK_DEADLOCK FALSE
INVARIANTS
  RoutesTypeOK
  DoneCoversHosts
  HostsReportedOnce
  WindowRespected
  StreamShowsResult
PROPERTIES
  ResultIsFinal
  ScanEnds
  StreamsEnd
