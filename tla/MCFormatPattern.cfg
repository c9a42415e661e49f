CONSTANTS
  Letter <- Letters
  Other = {"-", " ", ":", "[", "]"}
  Short <- Characters
  MaxLen = 6
  Longer <- LongerPatterns
  Here <- Statement
  TooLong <- LongTimes
  Leftover <- Garbage
SPECIFICATION FairSpec
INVARIANTS IndicesInRange ParsesGrammar PrintsWhatIsDocumented
PROPERTIES Terminates
