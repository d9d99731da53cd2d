SPECIFICATION MCSpec
CONSTANTS
  Hosts = {H1, H2, H3}
  Gateway = H1
  Macs = {M1, M2}
  TableSize = 2
  MaxAge = 3
  UnicastAge = 0
  MaxPending = 2
  ProbeNum = 2
  AnnounceNum = 2
  MaxConflicts = 2
  Addrs = {"A", "B"}
  SelectTries = 1
  RebootTries = 2
  Trouble = 3
  Unit = 2
  Rooms = {2, 4}
  MaxDatagrams = 1
  MaxPbufs = 4
  MaxTimer = 1
  Repeats = 1
  Users = {"u", "v"}
  Names = {"x", "y"}
  Txids = {1, 2}
  Ports = {1}
  DnsEntries = 2
  Requests = 2
  MaxRetries = 2
  Ttl = 1
  SeqSpace = 2
  MaxWire = 1
  MaxNews = 1
  Leases <- MCLeases
  Interval <- MCInterval
  Cyclic = {"fast", "slow"}
  Clock = 10
  MaxLate = 2
INVARIANTS
  TableSound
  NoDeclinedAddress
  DatagramExact
  AnswersRight
  TimersSound
PROPERTIES
  AddressRegained
  ParkedLeaves
  LookupEnds
  TimersRun
CHECK_DEADLOCK FALSE
