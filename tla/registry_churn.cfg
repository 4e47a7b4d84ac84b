CONSTANTS
  main = main
  worker = worker
  Threads = {main, worker}
  Topics = {x}
  Groups = {g1, g2, g3}
  NoGroup = NoGroup
  NoActor = NoActor
  MayCall <- Churn
  CallbackCalls <- Reply
  AddToRunning = TRUE
  MainCalls = 3
  WorkerCalls = 3
  MaxCalls <- CallBounds
  MaxCallbacks = 1
  WriterPreferring = FALSE
SPECIFICATION Spec
INVARIANTS
  TypeOK
  NoUseAfterFree
  LookupStable
  AliveIffReferenced
PROPERTIES
  ImplementsMap
