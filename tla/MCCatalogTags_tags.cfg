CONSTANTS
  Items = {i1}
  LastTag = 3
  BadID = bad
  Definitions <- MCDefinitions
  MaxDepth = 128
  MaxSize = 3
SPECIFICATION TagSpec
INVARIANTS TagsTyped StatusTellsTrust MembersAsDefined
VIEW TagView
CHECK_DEADLOCK FALSE
