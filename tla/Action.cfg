SPECIFICATION Spec
CONSTANTS
  PluginArgs <- MCPluginArgs
  Argvs <- MCArgvs
  Inputs <- MCInputs
  CFiles = {}
  CXXFiles = {"a.cc"}
  CXXStds = {"c++11"}
  MaxArgs = 4
INVARIANTS OneOwner UnitsWhereAsked InputsAsWritten
CHECK_DEADLOCK FALSE
