CONSTANTS
  t1 = t1
  t2 = t2
  t3 = t3
  conf = conf
  bad = bad
  Thread = {t1, t2, t3}
  Name = {conf}
  BadName = {bad}
  Type <- RegistryTypes
  Node <- Nodes
  Default <- Defaults
  Value <- Values
  Doc <- Documents
  Thrown <- Throws
  Null = Null
  MaxCalls = 4
  Numeral <- Numerals
  Digits <- Texts
  Bad = Bad
SPECIFICATION FairSpec
INVARIANTS OneVariablePerName RoundTrip
PROPERTIES DocumentApplied CallsReturn
