SPECIFICATION FairSpec
CONSTANTS
  NL = NL
  CR = CR
  None = None
  a = a
  Char <- OneLetter
  Printed <- PrintedChars
  Strings <- SomeStrings
  Codes = {0, 1337}
  BufSize = 2
  MaxChars = 4
  MaxInput = 3
  RxSize = 2
  Keys <- TypedKeys
  Lens = {1, 2}
  Named <- NamedReport
  Unnamed <- UnnamedReport
  NUL = NUL
INVARIANTS IInv HostExact UartExact BufferHasRoom ExitComplete InputExact
PROPERTY CallsReturn
CHECK_DEADLOCK FALSE
