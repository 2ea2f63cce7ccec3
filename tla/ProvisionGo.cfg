\* Two Go producers at once, neither killed, and a service nested under another.
SPECIFICATION Spec
CONSTANTS
  orders = orders
  ordersApi = ordersApi
  Names = {orders, ordersApi}
  Below <- Nested
  Producers = {p1, p2}
  Keys = {k1, k2, k3}
  NoName = NoName
  NoKey = NoKey
  TornKey = TornKey
  Recursive = TRUE
SYMMETRY Symmetry
INVARIANTS
  Binding
