CONSTANTS
  t1 = t1
  t2 = t2
  root = root
  sys = sys
  console = console
  screen = screen
  file = file
  std = std
  mine = mine
  Thread = {t1, t2}
  Name = {root, sys}
  Root = root
  App = {console, screen, file}
  Stdout = {console, screen}
  Console = console
  Fmt = {std, mine}
  Standard = std
  Level = {1, 2}
  Debug = 1
  Null = Null
  Liberty <- None
  MaxCalls = 2
SPECIFICATION FairSpec
INVARIANTS NoNullFormatter OneWriter DetachedIsSilent RootOnlyForEmpty OwnFormatterKept
PROPERTIES FormatterPinned CallsReturn
