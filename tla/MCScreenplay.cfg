CONSTANTS
  Offered <- MCOffered
  Supply <- MCSupply
  Preambles <- MCPreambles
  NestingDepth = 5
  RetainedItems = 13
  StrayEnds = {"om-scene"}
  SelfClosed = {"om-shot"}
  MaxSlips = 0
SPECIFICATION PageSpec
CHECK_DEADLOCK FALSE
INVARIANTS
  PlanAndPageAgree
  BindingsReachThePage
