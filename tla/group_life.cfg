CONSTANTS
  Names = {r1, r2}
  Calls <- AllCalls
  NoName = NoName
SPECIFICATION FairSpec
INVARIANTS
  TypeOK
  PointersMatch
  LeakOnlyByLoan
  CallbacksServed
  ThreadHasReader
  ThreadsJoined
PROPERTIES
  TeardownEnds
