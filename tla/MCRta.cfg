CONSTANTS
  Funcs <- MCFuncs
  Roots <- MCRoots
  Sigs = {"func()", "func(int)"}
  SigOf <- MCSigOf
  Types <- MCTypes
  Interfaces = {"I", "J"}
  Implements <- MCImplements
  Methods = {"n", "m"}
  MethodsOf <- MCMethodsOf
  Exported = {"m"}
  FuncOf <- MCFuncOf
  Parts <- MCParts
  Programs <- MCPrograms
  AllFunctions <- MCAllFunctions
  Inits = {"init"}
  MaxInstrs = 3
SPECIFICATION Spec
INVARIANTS
  AnalysisIsExact
  ImplementsIsExact
  ChaCoversRta
