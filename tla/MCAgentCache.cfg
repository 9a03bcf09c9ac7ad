CONSTANTS
  small = small
  large = large
  None = None
  Clients = {p1, p2}
  Conns = {c1, c2}
  Keys = {k1, k2, k3}
  Vals = {small, large}
  Size <- MCSize
  MaxEntries = 2
  MaxBytes = 3
  TTLs = {1}
  MaxTime = 1
  MaxDrift = 0
SPECIFICATION Spec
INVARIANTS
  TypeOK
  LockedHoldsNothing
  EntryCap
  CounterNeverOverstates
  ByteCapUnlessDoubled
PROPERTIES
  ImplementsPromise
SYMMETRY MCSymmetry
