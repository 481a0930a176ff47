CONSTANTS
  Sym = {x, y}
  Local = {y}
  Val = {1, 2}
  Coro = {c1}
  Main = Main
  Room = 4
  MaxDepth = 2
SPECIFICATION Spec
PROPERTY
  InheritsLets
CHECK_DEADLOCK FALSE
