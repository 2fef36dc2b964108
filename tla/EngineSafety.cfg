SPECIFICATION FairSpec
CONSTANTS
  Clients = {1}
  Interval = 1
  Limit = 2
  Ids = {1, 2}
  Domains = {"d"}
  Periods = {2,3}
  BasePeriod = 2
  Assume = {"start", "diagnosis", "restart", "connected"}
INVARIANTS ListsExact ActiveMeansServed
PROPERTIES CallsReturn HungIsKilled
CHECK_DEADLOCK FALSE
