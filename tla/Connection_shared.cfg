\* Three clients, two pictures: cached streams are shared and replaced.
CONSTANTS
  c1 = c1
  c2 = c2
  c3 = c3
  pic = pic
  other = other
  empty = empty
  text = text
  ico = ico
  Conns <- ThreeConns
  Paths <- TwoPicturesAndIcon
  NoPath = NoPath
  Favicon <- ico
  Pictures <- TwoPictures
  Pageless = {}
  Requests <- PictureRequests
  Redirects <- ToSamePath
  UpstreamCodes = {200}
  NoStream = NoStream
  HeaderFrags = 1
  BodyParts = 2
  OutParts = 1
  MaxEndpoints = 1
  MaxRedirects = 0
  NumThreads = 1
  items_cap = 0
SPECIFICATION Spec
SYMMETRY Symmetry
CONSTRAINT Followed
INVARIANTS
  RightImage
  CacheIntegrity
  FetchPrivate
  PageSourceHeld
CHECK_DEADLOCK FALSE
