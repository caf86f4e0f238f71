SPECIFICATION Spec
CONSTANTS
  NoFile = NoFile
  Empty = Empty
  NoRun = NoRun
  Run = {r1, r2, r3}
  MaxSecond = 2
SYMMETRY Symmetry
INVARIANTS TypeOK KeyKept PublishedHasPrivate PairAgrees
\* Every run has ended.
CHECK_DEADLOCK FALSE
