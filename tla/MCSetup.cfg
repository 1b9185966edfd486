CONSTANTS
  Codes = {1, 2}
  Null = Null
  NoFile = NoFile
  NoPort = NoPort
  Plain = Plain
  Garbage = Garbage
  Documents <- Document
  Libraries <- Library
  Models <- Model
CHECK_DEADLOCK FALSE
SPECIFICATION Spec
INVARIANT AssembledAsDocumented
INVARIANT InputFlagsAgree
INVARIANT FirstRequestWins
INVARIANT ControllersAtShutdown
