SPECIFICATION Spec
CONSTANTS
  p1 = p1
  p2 = p2
  Router = Router
  NoParent = NoParent
  Parents <- MCParents
  TaskIds <- MCTaskIds
  MaxQueue = 3
INVARIANT ParentKnowsChild
