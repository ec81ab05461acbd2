CONSTANTS
  old = old
  twin = twin
  other = other
  x = x
  y = y
  Keys = {old, twin, other}
  Kid <- KidOf
  Admits <- AdmitsOf
  Documents <- Published
  Addresses = {x, y}
  First = x
  AtFirst <- OneKeyEach
  Tokens = {t1, t2}
  MinFresh = 1
  MaxFresh = 1
  DiscoveryTTL = 2
  RefreshCooldown = 1
  Timeout = 1
  MaxChanges = 1
  MaxArrivals = 1
  Process = Process
  Nobody = Nobody
SPECIFICATION KeysSpec
INVARIANTS
  GenuineIsNotCalledInvalid
PROPERTIES
  WithdrawnKeysAreForgotten
  ProviderIsNotHammered
  SteadyKeysAreAccepted
