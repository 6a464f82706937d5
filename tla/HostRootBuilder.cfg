CONSTANTS
  Hyp = Hyp
  Host = Host
  NoPage = NoPage
  GuestIds <- MCGuestIds
  Pages <- MCPages
  NumGpas <- MCNumGpas
  TopLevelAlign <- MCTopLevelAlign
  LeafSpan <- MCLeafSpan
  MaxOwners <- MCMaxOwners
  Counts <- MCCounts
SPECIFICATION Spec
INVARIANT TypeOK
INVARIANT HostOwnsMapped
CHECK_DEADLOCK FALSE
