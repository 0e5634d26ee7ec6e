SPECIFICATION Spec
CONSTANTS
  Files <- TwoFiles
  Hub <- HubOf
  PortSlot <- SlotOf
  Slots <- Tree
  Name <- Spelling
  Hubs <- TreeHubs
  HubIf <- SpecHubs
  Patterns <- Picked
  Speeds = {"480", "5000"}
  Attachers = {a1, a2}
  Detachers = {u1, u2}
  Resetters = {r1}
  Listers = {l1}
  Crews = {{a1, a2, u1}, {a1, u1, u2}, {a1, r1}, {a1, l1}}
  MaxDevnum = 8
CHECK_DEADLOCK FALSE
INVARIANTS
  TypeOK
  AttachFailsBeaten
  DetachReaches
  DetachFailsStale
  OnlySelected
  ResetComplete
  ListsTree
