CONSTANTS
  k1 = k1
  k2 = k2
  k3 = k3
  articles = articles
  matrix = matrix
  m1 = m1
  m2 = m2
  None = None
  Domains = {articles}
  Keys = {k1, k2}
  DomainOf <- MCDomainOf
  Warmed <- MCWarmed
  Readers = {r1}
  Mutators = {m1, m2}
  Workers = {w1}
  TTL = 1
  MaxLatency = 1
  MaxVersion = 2
  MaxQueue = 1
SPECIFICATION Spec
INVARIANTS TypeOK BoundedStaleness StaleOnlyByRace
SYMMETRY Symmetry
