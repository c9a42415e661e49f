CONSTANTS
  Letter <- Letters
  Other = {"-", " ", ":", "[", "]"}
  Short <- Characters
  MaxLen = 4
  Longer = {}
  Here <- Statement
  TooLong <- LongTimes
  Leftover <- Garbage
SPECIFICATION Spec
INVARIANTS EscapeIsPercent
