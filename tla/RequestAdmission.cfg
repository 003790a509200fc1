SPECIFICATION AdmissionSpec
CONSTANTS
  MaxModels = 2
  MaxRoutes = 2
  MaxContext = 2
  Documents <- MCDocuments
  Posts <- MCPosts
  RequestedIds <- MCRequestedIds
  HeaderNames <- MCHeaderNames
  RequestHeaders <- MCRequestHeaders
  ReplyHeaders <- MCReplyHeaders
  Statuses = {200, 302, 404, 600}
INVARIANTS
  AdvertisedRoutesAreServed
  ContinuationIsExplicit
  OnlyEndToEndHeadersCross
CHECK_DEADLOCK FALSE
