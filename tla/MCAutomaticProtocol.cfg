\* Two requests, two own campaigns with foreign ballots between them, a carried
\* entry or a client's after the NOOP, and one restart.
SPECIFICATION FairSpec
CONSTANTS
  Local = 0
  Requests = {1, 2}
  MaxEpoch = 5
  MaxIndex = 2
  MaxStarts = 2
CHECK_DEADLOCK FALSE
INVARIANTS
  ChecksHold
  ReadyIsCurrent
  OutcomesHonest
  NothingForgotten
PROPERTIES
  AcknowledgedIsPublished
  NothingGoesBack
  RequestsAnswered
  CampaignsEnd
  PreparesEnd
