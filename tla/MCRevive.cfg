CONSTANTS
  small = small
  other = other
  large = large
  h1 = h1
  h2 = h2
  a1 = a1
  a2 = a2
  Enforcer = Enforcer
  NoModel = NoModel
  NoEngine = NoEngine
  NoTask = NoTask
  Model <- Models
  Size <- Sizes
  Headroom = 1
  Ceiling = 3
  Handler <- TwoHandlers
  Admin <- NoRoute
  PinnedAtStart <- NonePinned
  MaxEngines = 2
  MaxScans = 0
  MaxAdmin = 0
SPECIFICATION Spec
SYMMETRY Handlers
INVARIANTS
  NeverOvercommitted
