SPECIFICATION Spec
CONSTANTS
  n0 = n0
  n1 = n1
  n2 = n2
  i1 = i1
  i2 = i2
  x = x
  noop = noop
  none = none
  Voters <- MCVoters
  Rank <- MCRank
  Incarnations <- MCIncarnations
  Ops <- MCOps
  NoOp = noop
  None = none
  Epochs = {2, 3, 5}
  MaxEntries = 2
SYMMETRY IncarnationSymmetry
ACTION_CONSTRAINT RestartedAtOnce
CHECK_DEADLOCK FALSE
INVARIANTS
  TypeOK
  Agreement
  ProvenOnQuorum
  LeaderComplete
  OneBallotPerEpoch
  OnlyUnfrozenQuarantine
  Reopens
  BasisNeverResampled
PROPERTIES
  ProvenNeverRollsBack
  AcceptanceNeverForgotten
