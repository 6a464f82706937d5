CONSTANTS
  Hyp = Hyp
  Host = Host
  NoPage = NoPage
  NoVm = NoVm
  g1 = g1
  g2 = g2
  GuestIds <- MCGuestIds
  Pages <- MCPages
  NumGpas <- MCNumGpas
  HostMapped <- MCHostMapped
  TopLevelAlign <- MCTopLevelAlign
  LeafSpan <- MCLeafSpan
  MaxOwners <- MCMaxOwners
  PoolCap <- MCPoolCap
  Counts <- MCCounts
  DstGpas <- MCDstGpas
  Harts <- MCHarts
SPECIFICATION Spec
INVARIANT CreateGuestNeverPanics
CHECK_DEADLOCK FALSE
