SPECIFICATION LeaseSpec
CONSTANTS
  p1 = p1
  p2 = p2
  p3 = p3
  Procs = {p1, p2, p3}
  Owner <- MCOwner
  NoProc = NoProc
  Domains = {1, 2}
  MaxChanges = 3
SYMMETRY Sym
INVARIANTS
    
    FallbackIsNotOlder
