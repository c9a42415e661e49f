------------------------------ MODULE LogLine ------------------------------
(***************************************************************************)
(* What a log statement records and how the format items print it: the     *)
(* macros and LogEvent of src/log.h, the FormatItems of src/log.cc.        *)
(*                                                                         *)
(* A line is a sequence of characters and of printed fields; a field is a  *)
(* value of its own, told apart from every other, and the time as strftime *)
(* prints it is the time followed by the format.                           *)
(***************************************************************************)
EXTENDS LogLevel

CONSTANTS
  Here,      \* what a log statement finds: the place, the thread and its fiber,
             \* the time and the time since the start, the logger
  TooLong,   \* the formats for which strftime's text and its end exceed 64 bytes
  Leftover   \* what a buffer that strftime gave up on may read as

ASSUME HereAssumption ==
  DOMAIN Here = {"logger", "level", "file", "line", "elapse", "thread_id", "fiber_id", "time",
                 "thread_name", "message"}

-----------------------------------------------------------------------------
\* util.cc's, which is not Fiber::GetFiberId.
GetFiberId == "0"

LogEvent(logger, level, file, line, elapse, thread_id, fiber_id, time, thread_name) ==
  [m_logger |-> logger, m_level |-> level, m_file |-> file, m_line |-> line,
   m_elapse |-> elapse, m_threadId |-> thread_id, m_fiberId |-> fiber_id,
   m_time |-> time, m_threadName |-> thread_name, m_ss |-> << >>]

\* The time since the start is not there yet: a @todo.
NoElapse == "0"

Made == LogEvent(Here.logger, Here.level, Here.file, Here.line, NoElapse,
                 Here.thread_id, GetFiberId, Here.time, Here.thread_name)

\* SYLAR_LOG_LEVEL, and SYLAR_LOG_FMT_LEVEL with LogEvent::format: what is
\* streamed, or what vasprintf makes of the arguments, is the content.
Streamed == [Made EXCEPT !.m_ss = <<Here.message>>]

Formatted(fits) == IF fits THEN [Made EXCEPT !.m_ss = <<Here.message>>] ELSE Made

-----------------------------------------------------------------------------
\* FormatItem::format, of each class.
MessageFormatItem(e)      == e.m_ss
LevelFormatItem(level)    == <<ToText(level)>>
ElapseFormatItem(e)       == <<e.m_elapse>>
NameFormatItem(e)         == <<e.m_logger>>
ThreadIdFormatItem(e)     == <<e.m_threadId>>
FiberIdFormatItem(e)      == <<e.m_fiberId>>
ThreadNameFormatItem(e)   == <<e.m_threadName>>
FilenameFormatItem(e)     == <<e.m_file>>
LineFormatItem(e)         == <<e.m_line>>
NewLineFormatItem         == <<"\n">>
TabFormatItem             == <<"\t">>
StringFormatItem(str)     == str

DefaultTime == <<"%", "Y", "-", "%", "m", "-", "%", "d", " ",
                 "%", "H", ":", "%", "M", ":", "%", "S">>

\* "2024-03-24 15:10:36" has 19 characters.
ASSUME DefaultFits == DefaultTime \notin TooLong

\* m_format: what the pattern gives, an empty one where it has none.
TimeFormat(format) == IF format = << >> THEN DefaultTime ELSE format

\* strftime into buf[64].  A text that does not fit makes it return 0, which
\* nobody looks at; what buf holds then is unspecified, and it is printed.
DateTimeFormatItem_Given(format, e, buf) == <<e.m_time>> \o format
DateTimeFormatItem(format, e, buf) ==
  IF TimeFormat(format) \in TooLong THEN buf ELSE <<e.m_time>> \o TimeFormat(format)

\* The letters of s_format_items, and what the item of each prints.
s_format_items == {"m", "p", "r", "c", "t", "n", "d", "f", "l", "T", "F", "N"}

Item(letter, fmt, level, e, buf) ==
  CASE letter = "m" -> MessageFormatItem(e)
    [] letter = "p" -> LevelFormatItem(level)
    [] letter = "r" -> ElapseFormatItem(e)
    [] letter = "c" -> NameFormatItem(e)
    [] letter = "t" -> ThreadIdFormatItem(e)
    [] letter = "n" -> NewLineFormatItem
    [] letter = "d" -> DateTimeFormatItem(fmt, e, buf)
    [] letter = "f" -> FilenameFormatItem(e)
    [] letter = "l" -> LineFormatItem(e)
    [] letter = "T" -> TabFormatItem
    [] letter = "F" -> FiberIdFormatItem(e)
    [] letter = "N" -> ThreadNameFormatItem(e)

-----------------------------------------------------------------------------
(***************************************************************************)
(* What log.h:280-291 says a letter stands for, in terms of the statement  *)
(* rather than of the event.                                               *)
(***************************************************************************)
Meaning ==
  [m |-> Here.message, p |-> ToText(Here.level), r |-> Here.elapse, c |-> Here.logger,
   t |-> Here.thread_id, n |-> "\n", f |-> Here.file, l |-> Here.line,
   T |-> "\t", F |-> Here.fiber_id, N |-> Here.thread_name]

Documented(letter, fmt) ==
  IF letter = "d" THEN <<Here.time>> \o (IF fmt = << >> THEN DefaultTime ELSE fmt)
  ELSE <<Meaning[letter]>>

\* The exceptions: the 0 the macros pass for the elapsed time and the fiber, and
\* the buffer strftime left.
Undocumented(letter, fmt) ==
  \/ letter \in {"r", "F"}
  \/ letter = "d" /\ fmt # << >> /\ fmt \in TooLong
=============================================================================
