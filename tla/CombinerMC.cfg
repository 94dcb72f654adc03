\* Two closures, two application threads, one executor thread.
SPECIFICATION Spec
CONSTANTS
  n1 = n1
  n2 = n2
  t1 = t1
  t2 = t2
  x1 = x1
  Stub = Stub
  Null = Null
  Popper = Popper
  None = None
  MaxElems = 2
  Node <- MCNode
  Thread <- MCThread
  Executor <- MCExecutor
INVARIANTS
  OneOwner
  CountRight
  DestroyedEmpty
PROPERTIES
  EveryClosureRuns
  FinalsRunWhenQuiet
  ImplementsSerializer
CHECK_DEADLOCK FALSE
