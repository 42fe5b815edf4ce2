SPECIFICATION Spec
CONSTANTS
  self = self
  a = a
  b = b
  c = c
  None = None
  Nodes <- MCNodes
  Self = self
  CHILDREN_TABLE_SIZE = 3
  Below <- MCBelowAny
SYMMETRY MCSymmetry
INVARIANTS TypeOK ChildrenMirrorStations
PROPERTIES IdsStayUnlessMisplaced AdvIsNoted
