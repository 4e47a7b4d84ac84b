CONSTANTS
  Keys = {k1}
  Depth = 2
  Callbacks <- TwoCallbacks
  Pollers = {p1}
  Workers = {w1}
  Listener = Listener
  NoJob = NoJob
  MaxSamples = 3
SPECIFICATION FairSpec
INVARIANTS
  TypeOK
  ExactlyOnce
  InOrder
  QuietAfterwards
  NoLostWakeup
PROPERTIES
  Consumed
  ImplementsDelivery
  CalledInTheEnd
