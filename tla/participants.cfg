CONSTANTS
  Participants = {p1}
  Depth = 2
  Callbacks <- BothCallbacks
  NoEntry = NoEntry
  NoCall = NoCall
  MaxJoins = 3
  MaxUpdates = 3
SPECIFICATION FairSpec
INVARIANTS
  TypeOK
  DepartedForgotten
  PresentKnown
  InfoComplete
PROPERTIES
  LossReported
