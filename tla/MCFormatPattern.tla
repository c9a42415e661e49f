-------------------------- MODULE MCFormatPattern --------------------------
(* Model checking of FormatPattern on all short patterns and some longer   *)
(* ones: every letter there is an item for, and the pattern of new loggers. *)
EXTENDS FormatPattern

Letters    == s_format_items \cup {"q", "Y", "H", "M", "S"}
Characters == {"%", "{", "}", "d", "q", "-"}

DefaultPattern ==
  <<"%", "d", "{">> \o DefaultTime
    \o <<"}", "%", "T", "%", "t", "%", "T", "%", "N", "%", "T", "%", "F", "%", "T", "[", "%", "p", "]",
         "%", "T", "[", "%", "c", "]", "%", "T", "%", "f", ":", "%", "l", "%", "T", "%", "m", "%", "n">>

\* Three times date and time as the locale has it, 24 characters each.
ThreeTimes == <<"%", "c", "%", "c", "%", "c">>
LongTimes  == {ThreeTimes}

LongerPatterns ==
  {<<"%", letter>> : letter \in s_format_items}
    \cup {DefaultPattern, <<"%", "d", "{">> \o ThreeTimes \o <<"}", "%", "m">>}

\* What was on the stack, nothing, or the beginning of the time.
Garbage == {<<"garbage">>, << >>, <<"the time", "%", "c", "%", "c">>}

Statement ==
  [logger |-> "the logger", level |-> 2, file |-> "the file", line |-> "the line",
   elapse |-> "the time since the start", thread_id |-> "the thread", fiber_id |-> "the fiber",
   time |-> "the time", thread_name |-> "its name", message |-> "the message"]
=============================================================================
