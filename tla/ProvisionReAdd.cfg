\* One producer, killed anywhere, that adds a service again.
SPECIFICATION CrashSpec
CONSTANTS
  orders = orders
  ordersApi = ordersApi
  Names = {orders}
  Below <- Flat
  Producers = {p1}
  Keys = {k1, k2}
  NoName = NoName
  NoKey = NoKey
  TornKey = TornKey
  Recursive = FALSE
INVARIANTS
  AddRegisters
