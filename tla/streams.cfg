\* Event streams that fail at every stage, for fewer places than clients.
SPECIFICATION FairStreamSpec
CONSTANTS
  c1 = c1
  c2 = c2
  c3 = c3
  Clients <- MCClients
  MaxClients = 2
INVARIANTS
  LeasesBalanced
PROPERTIES
  LeaseComesBack
