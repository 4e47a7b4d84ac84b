CONSTANTS
  Managers = {m1, m2}
  Domains = {0, 1}
  NoDomain = NoDomain
  NoConfig = NoConfig
  NamedConfig = NamedConfig
  MaxJoins = 2
SPECIFICATION Spec
SYMMETRY Swaps
INVARIANTS
  TypeOK
  UniqueTransport
  JoinedIsBound
  CounterCovers
