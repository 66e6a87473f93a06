\* One experiment run whose driver may be killed once.
SPECIFICATION FairSpec
CONSTANTS
  None = None
  Scenes = {"set"}
  Plans <- QuickPlan
  Faults <- NoFaults
  RunExits = {0, 2, 70, 143}
  MaxAttempts = 1
  MaxCrashes = 1
  registrar1 = registrar1
  registrar2 = registrar2
  Evidence <- MCSubjects
  Requests = {}
  Comparisons = {}
  Names = {"base"}
  Registrars = {registrar1}
  MaxFaults = 0
  MaxGeneration = 1
PROPERTY ResumeSettles
CHECK_DEADLOCK FALSE
