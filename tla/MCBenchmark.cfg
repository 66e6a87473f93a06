\* A canonical set and two experiments, damaged evidence of every kind, a
\* driver that may be killed at any point; and their publication.
SPECIFICATION Spec
CONSTANTS
  None = None
  Scenes = {"set", "publication"}
  Plans <- AllPlans
  Faults <- PlanFaults
  RunExits = {0, 2, 30, 70, 143}
  MaxAttempts = 2
  MaxCrashes = 2
  registrar1 = registrar1
  registrar2 = registrar2
  Evidence <- MCSubjects
  Requests <- MCRequests
  Comparisons <- MCComparisons
  Names = {"base"}
  Registrars = {registrar1}
  MaxFaults = 1
  MaxGeneration = 4
INVARIANTS AuditComplete MembersQualified ReceiptsAuthentic GreenIsRetained VerdictsAgree
PROPERTY NeverRerunsResult
CHECK_DEADLOCK FALSE
