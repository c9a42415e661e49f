--------------------------- MODULE FormatPattern ---------------------------
(***************************************************************************)
(* LogFormatter of src/log.cc: init, the parser that turns the pattern of  *)
(* a log line into format items, one step per turn of its loops, and       *)
(* format, which prints an event through them.                             *)
(*                                                                         *)
(* A pattern is a sequence of characters.  Positions count from 1 here,    *)
(* so position k is the code's k - 1 and Len(m_pattern) + 1 its size().    *)
(***************************************************************************)
EXTENDS Integers, SequencesExt, LogLine

CONSTANTS
  Letter,   \* the characters isalpha accepts
  Other,    \* characters that are neither a letter nor one of % { }
  Short,    \* the characters of the patterns of up to MaxLen characters
  MaxLen,   \* bound: the length of those
  Longer    \* further patterns

Char == {"%", "{", "}"} \cup Letter \cup Other

ASSUME PatternAssumption ==
  /\ Letter \cap {"%", "{", "}"} = {}
  /\ Other \cap ({"%", "{", "}"} \cup Letter) = {}
  /\ s_format_items \subseteq Letter
  /\ Short \subseteq Char
  /\ \A p \in Longer : p \in Seq(Char)
  /\ MaxLen \in Nat

Pattern == (UNION {[1 .. len -> Short] : len \in 0 .. MaxLen}) \cup Longer

VARIABLES
  m_pattern,   \* LogFormatter::m_pattern
  m_items,     \* LogFormatter::m_items
  m_error,     \* LogFormatter::m_error
  i,           \* where the outer loop stands
  n,           \* where the inner loop stands
  nstr,        \* the literal text not yet pushed
  str, fmt,    \* the type and the format of the directive at i
  fmt_status,  \* 1 within braces
  fmt_begin,   \* where the brace is
  vec,         \* the pieces
  pc           \* the loop that runs, or "done"

scan == <<n, str, fmt, fmt_status, fmt_begin>>
vars == <<m_pattern, m_items, m_error, i, scan, nstr, vec, pc>>

Piece(s, f, kind) == [str |-> s, fmt |-> f, kind |-> kind]
Text(s)           == Piece(s, << >>, "text")
Error             == Piece(<< >>, << >>, "error")

Init ==
  /\ m_pattern \in Pattern
  /\ m_items = << >>
  /\ m_error = FALSE
  /\ i = 1 /\ n = 1
  /\ nstr = << >> /\ str = << >> /\ fmt = << >>
  /\ fmt_status = 0 /\ fmt_begin = 1
  /\ vec = << >>
  /\ pc = "outer"

Size     == Len(m_pattern) + 1
Inside   == pc = "outer" /\ i < Size
Scanning == pc = "inner" /\ n < Size

\* m_pattern.substr(from, to - from).
Substr(from, to) == SubSeq(m_pattern, from, to - 1)

\* The inner loop starts behind the % and goes on by ++n; after it the outer
\* one resumes with i = n - 1 and its own ++i.  The others are slips properties catch.
Start_Here == i
Start      == i + 1

Onward_Outside == IF fmt_status = 0 THEN n + 1 ELSE n
Onward         == n + 1

Resume == n

\* The literal text collected so far becomes a piece.
Flush == IF nstr = << >> THEN vec ELSE Append(vec, Text(nstr))

-----------------------------------------------------------------------------
\* A character outside a directive.
Literal ==
  /\ Inside /\ m_pattern[i] # "%"
  /\ nstr' = Append(nstr, m_pattern[i])
  /\ i' = i + 1
  /\ UNCHANGED <<m_pattern, m_items, m_error, scan, vec, pc>>

\* A % before another %: the first is text, and the loop goes on at the second.
Escape ==
  /\ Inside /\ m_pattern[i] = "%"
  /\ i + 1 < Size /\ m_pattern[i + 1] = "%"
  /\ nstr' = Append(nstr, "%")
  /\ i' = i + 1
  /\ UNCHANGED <<m_pattern, m_items, m_error, scan, vec, pc>>

Begin ==
  /\ Inside /\ m_pattern[i] = "%"
  /\ i + 1 < Size => m_pattern[i + 1] # "%"
  /\ n' = Start
  /\ fmt_status' = 0 /\ fmt_begin' = 1
  /\ str' = << >> /\ fmt' = << >>
  /\ pc' = "inner"
  /\ UNCHANGED <<m_pattern, m_items, m_error, i, nstr, vec>>

\* The first character that cannot belong to a type ends it.
EndOfType ==
  /\ Scanning /\ fmt_status = 0
  /\ m_pattern[n] \notin Letter \cup {"{", "}"}
  /\ str' = Substr(i + 1, n)
  /\ pc' = "emit"
  /\ UNCHANGED <<m_pattern, m_items, m_error, i, n, fmt, fmt_status, fmt_begin, nstr, vec>>

OpenBrace ==
  /\ Scanning /\ fmt_status = 0 /\ m_pattern[n] = "{"
  /\ str' = Substr(i + 1, n)
  /\ fmt_status' = 1 /\ fmt_begin' = n
  /\ n' = n + 1
  /\ UNCHANGED <<m_pattern, m_items, m_error, i, fmt, nstr, vec, pc>>

CloseBrace ==
  /\ Scanning /\ fmt_status = 1 /\ m_pattern[n] = "}"
  /\ fmt' = Substr(fmt_begin + 1, n)
  /\ fmt_status' = 0
  /\ n' = n + 1
  /\ pc' = "emit"
  /\ UNCHANGED <<m_pattern, m_items, m_error, i, str, fmt_begin, nstr, vec>>

\* Any other character is passed over; at the end of the pattern a type that
\* no brace has ended is what there is.
Pass ==
  /\ Scanning
  /\ IF fmt_status = 0 THEN m_pattern[n] \in Letter \cup {"}"} ELSE m_pattern[n] # "}"
  /\ n' = Onward
  /\ str' = IF Onward = Size /\ str = << >> THEN Substr(i + 1, Size) ELSE str
  /\ UNCHANGED <<m_pattern, m_items, m_error, i, fmt, fmt_status, fmt_begin, nstr, vec, pc>>

EndOfPattern ==
  /\ pc = "inner" /\ n >= Size
  /\ pc' = "emit"
  /\ UNCHANGED <<m_pattern, m_items, m_error, i, scan, nstr, vec>>

\* A directive: the text before it, then the directive.
Directive ==
  /\ pc = "emit" /\ fmt_status = 0
  /\ vec' = Append(Flush, Piece(str, fmt, "type"))
  /\ nstr' = << >>
  /\ i' = Resume
  /\ pc' = "outer"
  /\ UNCHANGED <<m_pattern, m_items, m_error, scan>>

\* A brace that is never closed: an error, and what follows the % is text.
Unclosed ==
  /\ pc = "emit" /\ fmt_status = 1
  /\ m_error' = TRUE
  /\ vec' = Append(vec, Error)
  /\ i' = i + 1
  /\ pc' = "outer"
  /\ UNCHANGED <<m_pattern, m_items, scan, nstr>>

-----------------------------------------------------------------------------
\* Whether s_format_items has the type (or one that begins like it).
Known_Prefix(s) == s # << >> /\ s[1] \in s_format_items
Known(s)        == Len(s) = 1 /\ s[1] \in s_format_items

\* The rest of the text, and an item for every piece.
Build ==
  /\ pc = "outer" /\ i >= Size
  /\ vec' = Flush
  /\ m_items' = [k \in DOMAIN Flush |->
                   IF Flush[k].kind = "type" /\ ~Known(Flush[k].str) THEN Error ELSE Flush[k]]
  /\ m_error' = (m_error \/ \E k \in DOMAIN Flush :
                              Flush[k].kind = "type" /\ ~Known(Flush[k].str))
  /\ pc' = "done"
  /\ UNCHANGED <<m_pattern, i, scan, nstr>>

\* LogFormatter::format of an event whose level is the one it is logged at.
PrintPiece(piece, e, buf) ==
  IF piece.kind = "text" THEN StringFormatItem(piece.str)
  ELSE Item(piece.str[1], piece.fmt, e.m_level, e, buf)

Format(items, e, buf) == FlattenSeq([k \in DOMAIN items |-> PrintPiece(items[k], e, buf)])

Done == pc = "done" /\ UNCHANGED vars

Step ==
  \/ Literal \/ Escape \/ Begin
  \/ EndOfType \/ OpenBrace \/ CloseBrace \/ Pass \/ EndOfPattern
  \/ Directive \/ Unclosed \/ Build

Next == Step \/ Done

Spec == Init /\ [][Next]_vars

\* The constructor runs to its end.
FairSpec == Spec /\ WF_vars(Step)

-----------------------------------------------------------------------------
(***************************************************************************)
(* What the comment above the parser, log.cc:502, says of a pattern: text, *)
(* %xxx, %xxx{xxx}, and %% for a percent sign.  A } that closes nothing    *)
(* counts with the type it follows.                                        *)
(***************************************************************************)
First(p, from, S) ==
  CHOOSE k \in from .. Len(p) + 1 :
    /\ k <= Len(p) => p[k] \in S
    /\ \A j \in from .. k - 1 : p[j] \notin S

Glue(c, items) ==
  IF items # << >> /\ items[1].kind = "text"
  THEN [items EXCEPT ![1] = Text(<<c>> \o @.str)]
  ELSE <<Text(<<c>>)>> \o items

\* The item of the directive at position k, and where it ends.
At(p, k) ==
  LET e      == First(p, k + 1, Char \ (Letter \cup {"}"}))
      braced == e <= Len(p) /\ p[e] = "{"
      close  == First(p, e, {"}"})
      type   == SubSeq(p, k + 1, e - 1)
      item(f) == IF type \in {<<c>> : c \in s_format_items} THEN Piece(type, f, "type") ELSE Error
  IN  IF ~braced THEN [item |-> item(<< >>), next |-> e]
      ELSE IF close <= Len(p)
           THEN [item |-> item(SubSeq(p, e + 1, close - 1)), next |-> close + 1]
           ELSE [item |-> Error, next |-> k + 1]

Grammar(p) ==
  LET items[k \in 1 .. Len(p) + 1] ==
        IF k > Len(p) THEN << >>
        ELSE IF p[k] # "%" THEN Glue(p[k], items[k + 1])
        ELSE IF k < Len(p) /\ p[k + 1] = "%" THEN Glue("%", items[k + 2])
        ELSE <<At(p, k).item>> \o items[At(p, k).next]
  IN  items[1]

Follows(p) ==
  LET expected == Grammar(p)
      wrong    == \E k \in DOMAIN expected : expected[k] = Error
  IN  /\ m_error <=> wrong
      /\ ~m_error => m_items = expected

HasEscape(p) == \E k \in 1 .. Len(p) - 1 : p[k] = "%" /\ p[k + 1] = "%"

-----------------------------------------------------------------------------
(***************************************************************************)
(* Properties                                                              *)
(***************************************************************************)

(***************************************************************************)
(* Every substr is inside the pattern and no length wraps below zero: the  *)
(* inner loop stays ahead of the outer one, and the brace between them.    *)
(***************************************************************************)
IndicesInRange ==
  pc \in {"inner", "emit"} =>
    /\ i < n
    /\ fmt_status = 1 => i < fmt_begin /\ fmt_begin < n

(***************************************************************************)
(* A pattern without %% becomes exactly the items the comment describes,   *)
(* in order, and isError() tells exactly the patterns with an unknown type *)
(* or an open brace: setFormatter refuses those and no others.             *)
(***************************************************************************)
ParsesGrammar == pc = "done" /\ ~HasEscape(m_pattern) => Follows(m_pattern)

(***************************************************************************)
(* A log line shows what the letters of its pattern are documented to show *)
(* of the statement that logs, in the pattern's order, between its text;   *)
(* %d without a format prints date and time.  In place of the fiber's id   *)
(* and of the time since the start it shows 0, and in place of a time that *)
(* does not fit the item's buffer whatever is in the buffer: the rest of   *)
(* the line is as documented all the same.                                 *)
(***************************************************************************)
Shown(part, buf) ==
  CASE part.kind = "text" -> part.str
    [] part.kind # "text" /\ Undocumented(part.str[1], part.fmt) ->
         IF part.str[1] = "d" THEN buf ELSE <<"0">>
    [] OTHER -> Documented(part.str[1], part.fmt)

Line(p, buf) ==
  LET parts == Grammar(p) IN FlattenSeq([k \in DOMAIN parts |-> Shown(parts[k], buf)])

Statements == {Streamed, Formatted(TRUE)}

Prints == pc = "done" /\ ~m_error /\ ~HasEscape(m_pattern)

PrintsWhatIsDocumented ==
  Prints => \A e \in Statements, buf \in Leftover : Format(m_items, e, buf) = Line(m_pattern, buf)

\* The loops come to an end, although the outer one sets its own counter back.
Terminates == <>(pc = "done")

\* log.cc:505: %% is the percent sign.
EscapeIsPercent == pc = "done" => Follows(m_pattern)
=============================================================================
