CONSTANTS
  Profiles <- ReferenceProfiles
  Targets <- ReferenceTargets
  CommandLines <- AllLines
  Clients = {"c1", "c2"}
  Invocations <- AllInvocations
  MaxInvocations = 3
  Backlog = 1
  MaxFiles = 2
  MaxBoots = 1
SPECIFICATION FairSpec
INVARIANTS SetupAsOrdered AnswerIsOwn
PROPERTIES ClientsServed TerminationEnds
CHECK_DEADLOCK FALSE
