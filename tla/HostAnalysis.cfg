SPECIFICATION FairSpec
CONSTANTS
  j1 = j1
  j2 = j2
  h1 = h1
  h2 = h2
  h3 = h3
  Nothing = Nothing
  Jobs = {j1, j2}
  Hosts = {h1, h2, h3}
  Ports = {1, 2}
  Open <- MCOpen
  Erring <- MCErring
  Banner <- MCBanner
  Page <- MCPage
  Cert <- MCCert
  Signatures <- MCSignatures
  PortService <- MCPortService
  HttpPorts = {1}
  TlsPorts = {}
  EndsInS = {"https", "imaps"}
  Country <- MCCountry
  MaxChunks = 1
  Limit = 1
INVARIANTS
  ServicesOfLastScan
  HostRowsGuardServices
  DeadlockNeedsInversion
  BestSignatureWins
  ListsAreTails
PROPERTIES
  GeoKept
  JobsEnd
CHECK_DEADLOCK FALSE
