SPECIFICATION Spec
CONSTANTS
  W8 = 2
  W64 = 3
  MaxDecls = 2
  MaxStmts = 2
  Bounds = {1, 2}
INVARIANTS
  InterpreterIsExact
  RenderSound
CHECK_DEADLOCK FALSE
