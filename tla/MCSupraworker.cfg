SPECIFICATION Spec
CONSTANTS
  Jobs = {j1, j2}
  Keys = {k1, k2}
  Cancellable = {j1}
  Overdue = {j1}
  Workers = {w1, w2}
  None = None
SYMMETRY Symmetry
INVARIANTS TypeOK OnePlace Accounted ActiveCount ShutdownComplete NoOrphans
