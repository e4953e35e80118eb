SPECIFICATION FairSpec
CONSTANTS
  Fam = "HM"
  Probers <- MCProbers
  QLen = 2
  Backlog = 1
  Noise <- MCNoise
INVARIANTS FlashSessionIsWhole HoldKeepsBootloader SoloProbeTellsTruth
PROPERTIES RxRecovers
CHECK_DEADLOCK FALSE
