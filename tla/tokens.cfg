SPECIFICATION Spec
CONSTANTS
  p1 = p1
  p2 = p2
  p3 = p3
  io = io
  net = net
  Nobody = Nobody
  Threads = {p1, p2, p3}
  Names = {io, net}
  MaxId = 5
SYMMETRY ThreadSymmetry
INVARIANTS
  UniqueIds
  NamesStable
CHECK_DEADLOCK FALSE
