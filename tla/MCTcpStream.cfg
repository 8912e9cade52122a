SPECIFICATION Spec
CONSTANTS
  Word = {"hello", "BYE"}
  Scripts <- MC_Scripts
  CAPACITY = 6
INVARIANTS
  NothingLostSilently
  DismissedAsAsked

  
  
