SPECIFICATION Spec
CONSTANTS
  a1 = a1
  a2 = a2
  b1 = b1
  b2 = b2
  b3 = b3
  Adapters = {a1, a2}
  Buses = {b1, b2}
  AdapterOf <- MCAdapterOf
  Preloaded = {a1}
  NoAdapter = NoAdapter
  NoBus = NoBus
  MaxScans = 4
PROPERTIES
  ScansAreServed
