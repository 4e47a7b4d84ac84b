CONSTANTS
  main = main
  worker = worker
  Threads = {main, worker}
  Topics = {x}
  Groups = {g1, g2}
  NoGroup = NoGroup
  NoActor = NoActor
  MayCall <- TwoRegistrars
  CallbackCalls <- NoCalls
  AddToRunning = TRUE
  MainCalls = 2
  WorkerCalls = 2
  MaxCalls <- CallBounds
  MaxCallbacks = 1
  WriterPreferring = FALSE
SPECIFICATION Spec
INVARIANT DestroyOutsideLock
