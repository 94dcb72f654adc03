\* As LockedMpscqMC, for the comment on gpr_locked_mpscq_pop.
SPECIFICATION Spec
CONSTANTS
  n1 = n1
  n2 = n2
  n3 = n3
  t1 = t1
  t2 = t2
  c1 = c1
  c2 = c2
  Stub = Stub
  Null = Null
  Popper = Popper
  Nobody = Nobody
  Node <- MCNode
  Thread <- MCThread
  Consumer <- MCConsumer
INVARIANTS
  EmptyMeansEmpty
