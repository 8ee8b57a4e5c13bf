SPECIFICATION Spec
CONSTANTS
  NPath = 4
  About <- MCAbout
  Allowlist <- MCAllowlist
  RealPath <- MCRealPath
  Key <- MCKey
  Collate <- MCCollate
  Filters <- MCFilters
  ListLimits = {1, 2}
  MaxResponse = 3
  MaxSubagents = 1
  Window = 1
  MaxTime = 3
  ClaudeLines <- MCClaudeLines
  CodexLines <- MCCodexLines
  NoId = "noid"
  MaxLines = 3
  ContentCap = 3
  ToolIoCap = 1
  EntryMax = 6
  FrameBudget = 9
  PageMax = 3
  Limits = {1, 3}
INVARIANTS ListComplete WalkExact PageFits
PROPERTY ListWalkEnds
