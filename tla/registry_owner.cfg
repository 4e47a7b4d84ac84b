CONSTANTS
  main = main
  worker = worker
  Threads = {main, worker}
  Topics = {x}
  Groups = {g1, g2}
  NoGroup = NoGroup
  NoActor = NoActor
  MayCall <- OneOwner
  CallbackCalls <- Reply
  AddToRunning = FALSE
  MainCalls = 5
  WorkerCalls = 2
  MaxCalls <- CallBounds
  MaxCallbacks = 1
  WriterPreferring = FALSE
SPECIFICATION FairSpec
INVARIANTS
  DataRaceFree
  DestroyOutsideLock
  NoSelfJoin
  FallbackUnused
PROPERTIES
  NoLostEntities
  CallsReturn
