SPECIFICATION Spec
CONSTANTS
  s1 = s1
  s2 = s2
  Symbols = {s1, s2}
  NoSymbol = NoSymbol
  MaxSettles = 2
  MaxSelects = 2
  MaxFaults = 1
  MaxRestarts = 1
  TapeLength = 2
SYMMETRY SymbolsAlike
INVARIANTS   CacheCaughtUp
 
CHECK_DEADLOCK FALSE
