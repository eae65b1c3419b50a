CONSTANTS
  SubQueueCount = 4
  idA = idA
  idB = idB
  Product <- Products
  emptyItem <- NoItem
SPECIFICATION Spec
INVARIANTS TypeOK RingInvariant
PROPERTY ImplementsList
