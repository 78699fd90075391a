SPECIFICATION ManualSpec
CONSTANTS
  c1 = c1  c2 = c2
  Callers = {c1, c2}  NoCaller = NoCaller
  MaxPieces = 2  MaxOther = 1  MaxShared = 1  IOErrors = TRUE
SYMMETRY CallerSymmetry
INVARIANT NoNullRequest
