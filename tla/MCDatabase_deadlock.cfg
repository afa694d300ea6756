SPECIFICATION FairDatabaseSpec
CONSTANTS
  Pods = {}
  Calls = {}
  None = None
  Writers = {o1, o2}
  Readers = {}
  PoolSize = 2
  Emails = {a}
  MaxRows = 1
  MaxCalls = 3
  Failing = {}
CHECK_DEADLOCK FALSE
PROPERTIES DeletionsAreLogged
