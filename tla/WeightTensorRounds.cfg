CONSTANTS
  Ids = {k1, k2}
  Epochs = 2
  Chunks <- MCChunks
  Before <- MCBefore
  Lambdas = {l1}
  Peers = {p1}
  Rounds = 2
  Ghosts <- MCGhosts
  Round <- MCRound
  LocalUpdTot = 2
  GhostUpdTot = 1
  Modes <- MCGCNModes
  TwoPass = FALSE
  Faulty = FALSE
  Junk = Junk
SPECIFICATION FairSpec
INVARIANTS GradientsConserved
PROPERTIES Reclaimed
CHECK_DEADLOCK FALSE
