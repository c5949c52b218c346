CONSTANTS
  Crates = {1, 2}
  ItemKinds = {"datatype", "function"}
  Titles = {"", "AIR prelude", "command", "crate", "datatype", "function", "item", "op",
            "reply", "response"}
  MaxItems = 3
  MaxModules = 2
  MaxReplies = 2
SPECIFICATION Spec
CHECK_DEADLOCK FALSE
INVARIANTS
  FoldsMatchSections
  UserCodeInSight
  ViewsInStep
  WalkGrouped
