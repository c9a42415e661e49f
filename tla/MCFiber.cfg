CONSTANTS
  t1 = t1
  t2 = t2
  f1 = f1
  f2 = f2
  Thread = {t1, t2}
  Fib = {f1, f2}
  Null = Null
  Liberty <- Disciplined
SPECIFICATION FairSpec
INVARIANTS NoFault GetThisIsRunning OneThreadPerStack StateMatchesContext CountIsLive MainContextKept IInv
PROPERTIES BackToMain ImplementsCoroutine
