CONSTANTS
  Configs <- MCConfigs
  MaxStarts <- MCMaxStarts
  MaxLosses = 1
  MaxSamples = 2
SPECIFICATION FairSpec
INVARIANTS TypeOK OfferedAccounted SummaryBalances GateIsFair OvershootBounded NewestKept PercentileSplits
PROPERTIES RunEnds
CHECK_DEADLOCK FALSE
