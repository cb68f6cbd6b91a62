\* The main thread and one START, three subscriptions that share group names, one connection.
CONSTANTS
  n1 = n1
  n2 = n2
  top = top
  manual = manual
  auto = auto
  Node <- Nodes
  Group <- Groups
  Profile <- Profiles
  Main = Main
  Starter = {s1}
  Conn = {c1}
  None = None
SPECIFICATION Spec
INVARIANTS
  TypeOK
  NoStaleConnection
  SwitchTakes
  ListsBestGroup
