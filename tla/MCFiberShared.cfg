CONSTANTS
  t1 = t1
  t2 = t2
  f1 = f1
  f2 = f2
  Thread = {t1, t2}
  Fib = {f1, f2}
  Null = Null
  Liberty <- Shared
SPECIFICATION Spec
INVARIANTS OneThreadPerStack
