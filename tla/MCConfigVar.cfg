CONSTANTS
  t1 = t1
  t2 = t2
  x1 = x1
  x2 = x2
  a = a
  b = b
  ok = ok
  bad = bad
  Thread = {t1, t2}
  Var = {x1}
  Value = {a, b}
  Default = a
  Callback = {ok, bad}
  Throwing = {bad}
  Null = Null
  MaxCalls = 3
SPECIFICATION FairSpec
INVARIANTS IdFindsItsCallback
PROPERTIES NotifyUndisturbed StoreAfterAllReturned CallsReturn
