\* A session, a closer, the smart-wallet screening; three pools, two of one token.
CONSTANTS
  a = a
  b = b
  c = c
  mint = mint
  coin = coin
  l1 = l1
  l2 = l2
  Sessions = {s1}
  Closers = {c1}
  Pools = {a, b, c}
  Token <- MCToken
  Leads = {l1, l2}
  LeadPool <- MCLeadPool
  Sources = {"candidates", "smart_wallets"}
  MaxPositions = 2
  MaxFailures = 1
  Ids = 3
  Budget = 1
  MostFailures = 1
  Cooling = {c, mint}
  Nobody = Nobody
SYMMETRY Symmetric
SPECIFICATION Spec
INVARIANTS ExposureIsBounded LeadsAreFollowedOnce
PROPERTY DeploysHeedChecks
