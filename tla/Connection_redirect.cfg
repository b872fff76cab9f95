\* A redirect whose body is read together with its header.
CONSTANTS
  c1 = c1
  c2 = c2
  c3 = c3
  pic = pic
  other = other
  empty = empty
  text = text
  ico = ico
  Conns <- OneConn
  Paths <- AllPaths
  NoPath = NoPath
  Favicon <- ico
  Pictures <- PicturePaths
  Pageless = {empty}
  Requests <- AllRequests
  Redirects <- ToSamePathOrFavicon
  UpstreamCodes = {200, 302, 404}
  NoStream = NoStream
  HeaderFrags = 2
  BodyParts = 2
  OutParts = 2
  MaxEndpoints = 2
  MaxRedirects = 2
  NumThreads = 1
  items_cap = 1
SPECIFICATION Spec
INVARIANTS
  SequentialWrites
CHECK_DEADLOCK FALSE
