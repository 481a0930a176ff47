SPECIFICATION Spec
SYMMETRY Perms
CONSTANTS
  a = a
  c = c
  mark = mark
  adv = adv
  point_marker = point_marker
  Char = {a, c}
  Free = Free
  Marker = {point_marker, mark, adv}
  Advance = {adv}
  FileSize = 1
  Slack = 1
  MaxText = 3
  MaxUndoText = 2
  MaxInsert = 2
  MaxEdit = 4
  MaxUndo = 6
  undo_threshold = 4
  undo_high_threshold = 5
  None = None
INVARIANTS
  TypeOK
  PointMarkerAtPoint
  UndoRestores
  SavedText
PROPERTY
  ImplementsFlatText
