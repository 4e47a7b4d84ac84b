CONSTANTS
  Names = {r1, r2}
  Calls <- CallbackCalls
  NoName = NoName
SPECIFICATION Spec
INVARIANT CleanTeardown
