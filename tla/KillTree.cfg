CONSTANTS
  Procs = {root, p1, p2, o1}
  Root = root
  Others = {o1}
  MaySpace = {{p2}, {o1}}
  RootParent = o1
  InitProc = InitProc
SPECIFICATION Spec
INVARIANTS CompleteIfUndisturbed OnlyTreeKilled
PROPERTIES Terminates
CHECK_DEADLOCK FALSE
