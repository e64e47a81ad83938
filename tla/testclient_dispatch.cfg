SPECIFICATION Spec
CONSTANTS
  c1 = c1
  c2 = c2
  mail = mail
  audit = audit
  Calls <- MCCalls
  Kinds <- MCKinds
  Options <- MCOptions
  MaxEntries = 3
  MaxTime = 1
SYMMETRY CallSymmetry
INVARIANTS
  TypeOK
  HandledOnce
  CountsHandled
  SnapshotOnly
  InFlightOwned
PROPERTY
  RecursiveDrains
