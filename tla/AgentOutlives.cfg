SPECIFICATION DeadlineSpec
CONSTANTS
  None = None
  m1 = m1
  m2 = m2
  m3 = m3
  claude = claude
  codex = codex
  models <- MCModels
  agentOf <- MCAgentOf
  judgeModel = m1
  CmdLists <- MCCmdLists
  Allowed <- MCAllowed
  Run <- MCRun
  Stdout <- MCStdout
  json <- MCJson
  PlannerStdout <- MCPlannerStdout
  MaxText = 0
PROPERTY
  Answers
CHECK_DEADLOCK FALSE
