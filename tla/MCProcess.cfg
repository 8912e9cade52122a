SPECIFICATION Spec
CONSTANTS
  Fd = {f1, f2}
  MaxNodes = 5
  WIDTH = 3
  CommandLines <- MC_CommandLines
  atoi <- MC_atoi
SYMMETRY Perms
INVARIANTS
  ListSound
  OnlySigintLoses
  DeletedLeavesNothing
  StopReopensAtMostOne

  
