CONSTANTS
  Sym = {x, y}
  Local = {y}
  Val = {1, 2}
  Coro = {c1, c2}
  Main = Main
  Room = 2
  MaxDepth = 2
SPECIFICATION Spec
INVARIANT TypeOK
PROPERTY
  ImplementsDeepBinding
SYMMETRY Perms
CHECK_DEADLOCK FALSE
