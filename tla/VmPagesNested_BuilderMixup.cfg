CONSTANTS
  Hyp = Hyp
  Host = Host
  NoPage = NoPage
  NoVm = NoVm
  g1 = g1
  g2 = g2
  GuestIds <- NestGuestIds
  Pages <- NestPages
  NumGpas <- NestNumGpas
  HostMapped <- NestHostMapped
  TopLevelAlign <- NestTopLevelAlign
  LeafSpan <- NestLeafSpan
  MaxOwners <- NestMaxOwners
  PoolCap <- NestPoolCap
  Counts <- NestCounts
  DstGpas <- NestDstGpas
  Harts <- NestHarts
SPECIFICATION Spec
CHECK_DEADLOCK FALSE
PROPERTY RefinesPageHolders
CONSTRAINT NestScenario
