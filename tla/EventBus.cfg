SPECIFICATION MCSpec
CONSTANTS
  Intent = {order, stock, basket}
  Unknown = unknown
  Key = {k0, k1, k2}
  IntentOf <- MCIntentOf
  SourceOf <- MCSourceOf
  PayloadOf <- MCPayloadOf
  Registered = {order, stock, basket}
  RequireKnownSource = TRUE
  c1 = c1
  c2 = c2
  c3 = c3
  c4 = c4
  c5 = c5
  c6 = c6
  c7 = c7
  h1 = h1
  h2 = h2
  h3 = h3
  i1 = i1
  i2 = i2
  order = order
  stock = stock
  basket = basket
  unknown = unknown
  k0 = k0
  k1 = k1
  k2 = k2
  none = none
  Call = {c1, c2, c3, c4, c5, c6, c7}
  Handler = {h1, h2, h3}
  Interceptor = {i1, i2}
  Raw = {c2}
  Sealed = {c4}
  Contracts <- MCVersions
  Patches <- MCPatches
  StrictContracts = FALSE
  DeniedFlow <- MCOrderToBasket
  FlowMode = "hard"
  HardEdges <- MCStockToBasket
  SoftIntents = {order}
  Rethrow = TRUE
  MaxHistory = 1
  Faults = {"interceptor", "enqueue", "handler"}
INVARIANTS
  GuardsAreSound
  DeliverySound
  EvidenceIsSound
PROPERTIES
  ErrorsSurface
CHECK_DEADLOCK FALSE
