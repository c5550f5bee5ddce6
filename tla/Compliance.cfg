SPECIFICATION ComplianceSpec
CONSTANTS
  Requests = {r1}
  Inputs <- MCInputs
  ListCount = 2
  Analysts = 2
  Rules <- MCRules
  Absent = Absent
INVARIANTS
  ApprovedWasScreened
  AiNeverLightens
CHECK_DEADLOCK FALSE
