CONSTANTS
  Ids = {k1}
  Epochs = 2
  Chunks <- MCChunks
  Before <- MCBefore
  Lambdas = {l1, l2}
  Peers = {p1}
  Rounds = 1
  Ghosts <- MCGhosts
  Round <- MCRound
  LocalUpdTot = 1
  GhostUpdTot = 1
  Modes <- MCAllModes
  TwoPass = TRUE
  Faulty = TRUE
  Junk = Junk
SPECIFICATION Spec
INVARIANTS TypeOK SameRefMats RefCntExact BuffersOwned SameWeights PushIsPinned GradientsConserved
PROPERTIES PinnedImmutable SnapshotSpec
CHECK_DEADLOCK FALSE
