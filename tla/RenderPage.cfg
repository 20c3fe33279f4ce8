\* Both pages, two calls, every small tree.
SPECIFICATION FairSpec
CONSTANTS
  NaN = NaN
  None = None
  PagesUsed = {"mermaid", "mathjax"}
  Drawings <- MCDrawings
  FontSizes = {2, 3}
  Unit = 2
  MaximumDimension <- MCDimension
  MaximumArea <- MCArea
  MaximumRasterPixels = 12
  MaximumSVGLength <- MCSVGLength
  PNGs <- MCPNGs
  MaximumPNGLength = 24
  MaximumPNGBytes = 16
  MaximumCacheCost = 64
  BackingScale = 2
  MaxCalls = 2
CHECK_DEADLOCK FALSE
INVARIANTS
  PictureIsClean
  TextStaysInPlace
  RasterFits
  HostAcceptsThePicture
  PageIsLeftClean
PROPERTIES
  TimeoutIsTransient
  EveryCallIsAnswered
  ObjectURLsAreRevoked
