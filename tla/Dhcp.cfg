CONSTANTS
  m1 = m1
  m2 = m2
  m3 = m3
  Macs = {m1, m2}
  Ips = {1, 2, 9}
  ServerIp = 9
  MaxQueue = 1
  MinLease = 9
  MaxLease = 20
  OfferTime = 3
  ConflictTime = 2
  DeclineTime = 2
  FileLife = 10
  Retries = 1
  TryAgain = 1
  Enough = 9
  Options <- Uses
SPECIFICATION FairSpec
INVARIANTS
  NoSharing
  OnRecord
PROPERTIES
  Served
