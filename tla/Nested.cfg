CONSTANTS
  Width = 2
  Types <- MCTypes
  Shapes <- MCShapes
  Words <- MCWords
  Strings <- MCStrings
  SomeStrings <- MCSomeStrings
  MapKeys <- MCMapKeys
  MaxElems = 2
SPECIFICATION Spec
INVARIANTS NothingLeftBehind
PROPERTIES IsATree
VIEW Contents
