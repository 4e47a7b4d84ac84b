CONSTANTS
  Names = {r1, r2}
  Calls <- FilterCalls
  NoName = NoName
SPECIFICATION Spec
INVARIANT NoCrash
