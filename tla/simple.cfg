CONSTANTS
  Threads = {a, b}
  Topics = {t1}
  Names = {n1, n2}
  Generated = n1
  NoName = NoName
  Rates <- EdgeRates
  Offered <- TwoPresets
  NoEntity = NoEntity
  NoGroup = NoGroup
  NoTopic = NoTopic
  MaxMakings = 2
  MaxChanges = 2
SPECIFICATION Spec
SYMMETRY Symmetry
INVARIANTS
  TypeOK
  EndpointsMatch
  RateKept
  MapsServe
