CONSTANTS
  t1 = t1
  t2 = t2
  root = root
  sys = sys
  web = web
  None_ = None
  std = std
  mine = mine
  broken = broken
  log1 = log1
  log2 = log2
  Loader = {t1}
  Worker = {t2}
  Name = {root, sys, web}
  Root = root
  Fmt = {std, mine}
  Standard = std
  BadFmt = {broken}
  File = {log1, log2}
  None = None
  Level = {1, 2}
  LevelText <- Texts
  Doc <- SameButAppenders
  HasD = FALSE
SPECIFICATION Spec
INVARIANTS ConfiguredWhenQuiet
