CONSTANTS
  small = small
  other = other
  large = large
  h1 = h1
  h2 = h2
  a1 = a1
  a2 = a2
  Enforcer = Enforcer
  NoModel = NoModel
  NoEngine = NoEngine
  NoTask = NoTask
  Model <- Models
  Size <- Sizes
  Headroom = 1
  Ceiling = 3
  Handler <- TwoHandlers
  Admin <- OneRoute
  PinnedAtStart <- Pinned
  MaxEngines = 2
  MaxScans = 1
  MaxAdmin = 1
SPECIFICATION Spec
SYMMETRY Handlers
INVARIANTS
  TypeOK
  AccountingExact
  NoStrayEngine
  WithinCeiling
  GetEngineReturnsLoaded
PROPERTIES
  ServedUntilDone
