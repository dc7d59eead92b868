SPECIFICATION FairSpec
CONSTANTS
  Word = 256
  Reg = 4096
  WordBytes = 4
  MemSize = 20
  Running = Running
  Others <- SomeOthers
  Requests <- SomeRequests
  Calls <- SomeCalls
INVARIANTS FormatExact MemoryExact ResultExact
PROPERTY CallsReturn
CHECK_DEADLOCK FALSE
