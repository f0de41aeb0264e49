CONSTANTS
  Ids = {k1}
  Epochs = 1
  Chunks <- MCChunks
  Before <- MCBefore
  Lambdas = {l1, l2}
  Peers = {p1}
  Rounds = 1
  Ghosts <- MCGhosts
  Round <- MCRound
  LocalUpdTot = 1
  GhostUpdTot = 1
  Modes <- MCAsync
  TwoPass = TRUE
  Faulty = FALSE
  Junk = Junk
SPECIFICATION Spec
INVARIANT SafelyDeleted
CHECK_DEADLOCK FALSE
