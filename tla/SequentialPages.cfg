CONSTANTS
  AddrBits <- MCAddrBits
  PageSize <- MCPageSize
  MaxInput <- MCMaxInput
SPECIFICATION Spec
INVARIANT FromPagesMatchesReference
INVARIANT NoPageLost
PROPERTY RefinesRoundTrip
CHECK_DEADLOCK FALSE
