SPECIFICATION Spec
CONSTANTS
  a = a
  b = b
  b1 = b1
  b2 = b2
  v1 = v1
  v2 = v2
  c1 = c1
  c2 = c2
  i1 = i1
  i2 = i2
  None = None
  Pending = Pending
  Tenant = {a, b}
  Id = {i1, i2}
  Binding = {b1, b2}
  Value = {v1, v2}
  Client = {c1, c2}
  NewBindings <- NoBindings
  UpsertCalls <- OwnCalls
  ReuseIds = FALSE
  MaxLog = 3
SYMMETRY Perms
INVARIANTS StateIsFold NoLostUpdate BindingIdentifiesOne
PROPERTIES ImplementsEntityMap
CHECK_DEADLOCK FALSE
