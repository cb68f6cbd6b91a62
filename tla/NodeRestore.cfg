\* A click on a node while a START restores the saved one.
CONSTANTS
  n1 = n1
  n2 = n2
  top = top
  manual = manual
  auto = auto
  Node <- Nodes
  Group <- Groups
  Profile <- OneProfile
  Main = Main
  Starter = {s1}
  Conn = {c1}
  None = None
SPECIFICATION Spec
INVARIANT RestoresLastChoice
