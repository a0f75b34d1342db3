CONSTANTS
  search = search
  list = list
  exec = exec
  Names = {search, list, exec}
  NoName = NoName
  Allowed = {search}
  Tools <- MCTools
  Plans <- MCPlans
  Traces <- MCTraces
  RunName = RunName
  TOOL_GATE_NAME = TOOL_GATE_NAME
SPECIFICATION Spec
INVARIANTS
  HaltedIsNotAdmitted
CHECK_DEADLOCK FALSE
