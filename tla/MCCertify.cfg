\* Two solvers, one hand edit of the certificate between two certifications.
SPECIFICATION Spec
CONSTANTS
  Quantity = {0, 1, 2}
  Window = {60}
  Elapsed <- MCElapsed
  Policy <- MCPolicy
  Constant = {1, 2, 3}
  Backend = {binary, python}
  MaxEdits = 1
  None = None
INVARIANTS
  IInv
  NoFalseAlarm
  ReaderAgrees
