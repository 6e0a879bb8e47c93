CONSTANTS
  Callers = {c1, c2}
  Packages = {"p", "q"}
  NoInfo = {}
  Serially = FALSE
  Types <- MCTypes
  Interfaces = {"I"}
  Methods = {"m", "e"}
  MethodsOf <- MCMethodsOf
  Parts <- MCParts
  Exported <- MCExported
  Uses <- MCUses
  Delegates <- MCDelegates
  NoRequest = nothing
  NoOne = noone
  MaxClient = 1
SPECIFICATION Spec
INVARIANTS
  OneFunctionEach
  RuntimeTypesExact
  BuildIsBarrier
PROPERTIES
  EverybodyReturns
