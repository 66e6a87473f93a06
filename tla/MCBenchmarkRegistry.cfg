\* Two registrars of one baseline name.
SPECIFICATION Spec
CONSTANTS
  None = None
  Scenes = {"publication"}
  Plans <- QuickPlan
  Faults <- NoFaults
  RunExits = {0}
  MaxAttempts = 1
  MaxCrashes = 0
  registrar1 = registrar1
  registrar2 = registrar2
  Evidence <- MCSubjects
  Requests = {}
  Comparisons = {}
  Names = {"base"}
  Registrars = {registrar1, registrar2}
  MaxFaults = 1
  MaxGeneration = 5
PROPERTY NamesImmutable
CHECK_DEADLOCK FALSE
