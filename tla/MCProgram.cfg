CONSTANTS
  a = a
  b = b
  k = k
  l = l
  w = w
  h = h
  Object = {a, b}
  Main = main
  Name = {n}
  Empty = empty
  Unknown = UNKONW
  Null = Null
  Liberty = {}
  Caller <- Threads
  Initer = main
  Key = {k, l}
  HelpKey = {h}
  Word = {w}
  Blank = blank
  Bare = bare
  Desc = {d}
  NoKey = NoKey
  CommandLine <- Lines
  MaxHelps = 2
SYMMETRY Alike
SPECIFICATION Spec
INVARIANTS NoFault NamesAgree
PROPERTIES ArgsParsed HelpReplaced
