\* One Python producer, killed anywhere, and a service nested under another.
SPECIFICATION CrashSpec
CONSTANTS
  orders = orders
  ordersApi = ordersApi
  Names = {orders, ordersApi}
  Below <- Nested
  Producers = {p1}
  Keys = {k1, k2, k3}
  NoName = NoName
  NoKey = NoKey
  TornKey = TornKey
  Recursive = FALSE
SYMMETRY Symmetry
INVARIANTS
  TypeOK
  Binding
  RotateRegisters
  RemoveRevokes
  RevokedStaysOut
  ListedHasKeyFile
  TornIsLeftAlone
PROPERTIES
  OnlyRevocationDrops
  KeepsRegistry
