CONSTANTS
  t1 = t1
  t2 = t2
  g1 = g1
  g2 = g2
  g3 = g3
  g4 = g4
  mutex = mutex
  rwmutex = rwmutex
  Thread = {t1, t2}
  MutexLock = {mutex}
  RWLock = {rwmutex}
  Guard = {g1, g2, g3, g4}
  Null = Null
  Liberty = {}
  Initial = 1
  MaxValue = 2
SPECIFICATION Spec
INVARIANTS GuardsTell NoFault
PROPERTIES ImplementsExclusion
SYMMETRY Alike
