\* Two requests at a cache and one source that changes once; two starts of the service.
SPECIFICATION ServicesSpec
CONSTANTS
  Fills = {f1, f2}
  Workers = {1, 2}
  Length <- Lengths
  MaxVersion = 2
  MaxFills = 2
  MaxCrashes = 1
  MaxFaults = 2
  MaxStarts = 2
  MaxRetries = 1
  MaxActive = 1
  MaxServeErrors = 1
INVARIANTS
  ServicesTypeOK
  HitsAreCurrent
  NeverOlder
  NoTempLeft
  OneServer
  ServiceAgrees
PROPERTIES
  FillsEnd
  PortsReleased
  CallsReturn
\* Clients and users need not come.
CHECK_DEADLOCK FALSE
