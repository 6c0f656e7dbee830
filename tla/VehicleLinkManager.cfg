SPECIFICATION FairSpec
CONSTANTS
  Vehicles = {v1}
  Links = {l1, l2, l3}
  l1 = l1
  l2 = l2
  l3 = l3
  Kind <- OneOfEach
  NoLink = NoLink
INVARIANT Consistent
PROPERTY HighLatencyIsLastResort
PROPERTY TotalLossIsTotal
PROPERTY SilenceIsNoticed
PROPERTY PrimaryRecovers
