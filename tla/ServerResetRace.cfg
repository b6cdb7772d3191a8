SPECIFICATION Spec
CONSTANTS
  k1 = k1
  k2 = k2
  n1 = n1
  n2 = n2
  n3 = n3
  u1 = u1
  u2 = u2
  u3 = u3
  g1 = g1
  g2 = g2
  get = get
  post = post
  Callers = {k1, k2}
  Names = {n1, n2, n3}
  Uris = {u1, u2, u3}
  Engines = {g1}
  None = None
  Methods = {get, post}
  Choices <- AnyMethod
  Registers <- OwnRegisters
  Removes <- OwnRemoves
  Quitters = {}
  MaxRouters = 2
INVARIANT KeptIsFound
