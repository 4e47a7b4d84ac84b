CONSTANTS
  main = main
  worker = worker
  Threads = {main, worker}
  Topics = {x}
  Groups = {g1, g2}
  NoGroup = NoGroup
  NoActor = NoActor
  MayCall <- CallbackAndPublisher
  CallbackCalls <- NoCalls
  AddToRunning = TRUE
  MainCalls = 3
  WorkerCalls = 1
  MaxCalls <- CallBounds
  MaxCallbacks = 1
  WriterPreferring = TRUE
SPECIFICATION FairSpec
PROPERTY CallsReturn
CHECK_DEADLOCK FALSE
