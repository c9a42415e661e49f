------------------------------- MODULE Logger -------------------------------
(***************************************************************************)
(* The loggers of src/log.h and src/log.cc: named loggers with lists of    *)
(* appenders, a root logger that takes the events of a logger without      *)
(* any, and the spin locks of the manager, of each logger and of each      *)
(* appender, which a call takes in that order.                             *)
(*                                                                         *)
(* An appender here is a StdoutLogAppender or a FileLogAppender.  They     *)
(* differ in the stream they write to: every StdoutLogAppender has a lock  *)
(* of its own, but std::cout is the stream of them all.  What the streams  *)
(* hold is left out.  Levels are plain fields that no lock guards.         *)
(***************************************************************************)
EXTENDS Integers, Sequences, FiniteSets, SequencesExt

CONSTANTS
  Thread,    \* the threads
  Name,      \* the names of loggers
  Root,      \* "root"
  App,       \* the LogAppender objects
  Stdout,    \* those of them that are StdoutLogAppenders
  Console,   \* the appender the root logger starts with
  Fmt,       \* the LogFormatter objects
  Standard,  \* the one a Logger's constructor makes
  Level,     \* the log levels in use
  Debug,     \* LogLevel::DEBUG
  Null,      \* nullptr
  Liberty,   \* what the client code does beyond the usage of LogIniter
  MaxCalls   \* bound: the calls each thread makes

(***************************************************************************)
(* With no liberty LogAppender::setFormatter is called as log.cc:831 does, *)
(* with a formatter, and before anyone adds the appender to a logger.      *)
(*   late    setFormatter is also called on an appender in use             *)
(*   unset   setFormatter is also called with nullptr                      *)
(***************************************************************************)
ASSUME LoggerAssumption ==
  /\ Root \in Name /\ Stdout \subseteq App /\ Console \in Stdout /\ Standard \in Fmt
  /\ Level \subseteq Nat /\ Debug \in Level
  /\ Null \notin Thread /\ Null \notin Fmt
  /\ Liberty \subseteq {"late", "unset"}
  /\ MaxCalls \in Nat

VARIABLES
  m_loggers,       \* the names LoggerManager::m_loggers has a logger for
  m_level,         \* Logger::m_level
  m_formatter,     \* Logger::m_formatter
  m_appenders,     \* Logger::m_appenders
  a_level,         \* LogAppender::m_level
  a_formatter,     \* LogAppender::m_formatter
  a_hasFormatter,  \* LogAppender::m_hasFormatter
  mgr,             \* the thread that holds LoggerManager::m_mutex, or Null
  lock,            \* the thread that holds each Logger::m_mutex, or Null
  a_lock,          \* the thread that holds each LogAppender::m_mutex, or Null
  pc,              \* where in a member function each thread stands
  op,              \* which one: "log", "format", "add" or "dump"
  stack,           \* the loggers it was called on, root last after a fallback
  idx,             \* the place of its loop in the last one's appenders
  app,             \* the appender it is working on
  event,           \* the level of the event it logs
  todo,            \* the loggers toYamlString still has to visit
  own,             \* history: the formatter setFormatter last gave an appender
  fault,           \* whether a null formatter was called
  calls            \* the calls each thread has made

logVars   == <<m_loggers, m_level, m_formatter, m_appenders>>
appVars   == <<a_level, a_formatter, a_hasFormatter, own>>
lockVars  == <<mgr, lock, a_lock>>
localVars == <<op, stack, idx, app, event, todo>>
vars == <<logVars, appVars, lockVars, localVars, pc, fault, calls>>

\* Root is there from LoggerManager's constructor; the other loggers' fields
\* are those their own constructor gives when getLogger makes them.
Init ==
  /\ m_loggers = {Root}
  /\ m_level = [n \in Name |-> Debug]
  /\ m_formatter = [n \in Name |-> Standard]
  /\ m_appenders = [n \in Name |-> IF n = Root THEN <<Console>> ELSE << >>]
  /\ a_level = [a \in App |-> Debug]
  /\ a_formatter = [a \in App |-> IF a = Console THEN Standard ELSE Null]
  /\ a_hasFormatter = [a \in App |-> FALSE]
  /\ mgr = Null
  /\ lock = [n \in Name |-> Null]
  /\ a_lock = [a \in App |-> Null]
  /\ pc = [t \in Thread |-> "idle"]
  /\ op = [t \in Thread |-> "log"]
  /\ stack = [t \in Thread |-> << >>]
  /\ idx = [t \in Thread |-> 1]
  /\ app = [t \in Thread |-> Console]
  /\ event = [t \in Thread |-> Debug]
  /\ todo = [t \in Thread |-> {}]
  /\ own = [a \in App |-> Null]
  /\ fault = FALSE
  /\ calls = [t \in Thread |-> 0]

May(l) == l \in Liberty

Calls(t) ==
  /\ ~fault /\ pc[t] = "idle" /\ calls[t] < MaxCalls
  /\ calls' = [calls EXCEPT ![t] = @ + 1]

At(t, loc)   == ~fault /\ pc[t] = loc
Goto(t, loc) == pc' = [pc EXCEPT ![t] = loc]

(***************************************************************************)
(* The locks and the conditions the member functions share.  Next to a     *)
(* definition stands, where a property needs one, a slip of the pen the    *)
(* property catches.                                                       *)
(***************************************************************************)

\* pthread_spin_lock returns when nobody holds the lock.
Free_Always(l) == TRUE
Free(l)        == l = Null

Take_Anyway(t, n) == lock' = [lock EXCEPT ![n] = t]
Take(t, n)        == Free(lock[n]) /\ lock' = [lock EXCEPT ![n] = t]

\* A logger without appenders asks m_root, which the root logger has not.
HasRoot_Always(n) == TRUE
HasRoot(n)        == n # Root

\* setFormatter is for the appenders without a formatter of their own.
Inherits_Always(a) == TRUE
Inherits(a)        == ~a_hasFormatter[a]

\* addAppender fills the logger's formatter in where there is none.
Lacks_Never(a) == FALSE
Lacks(a)       == a_formatter[a] = Null

Appenders(t)  == m_appenders[Last(stack[t])]
Looping(t)    == At(t, "visit") /\ idx[t] <= Len(Appenders(t))
Advance(t)    == idx' = [idx EXCEPT ![t] = @ + 1]

-----------------------------------------------------------------------------
\* LoggerManager::getLogger: the logger of that name, made if there is none.
GetLogger(t, n) ==
  /\ Calls(t)
  /\ Free(mgr)
  /\ m_loggers' = m_loggers \cup {n}
  /\ UNCHANGED <<m_level, m_formatter, m_appenders, appVars, lockVars, localVars, pc, fault>>

SetLevel(t, n, l) ==
  /\ Calls(t)
  /\ n \in m_loggers
  /\ m_level' = [m_level EXCEPT ![n] = l]
  /\ UNCHANGED <<m_loggers, m_formatter, m_appenders, appVars, lockVars, localVars, pc, fault>>

SetAppenderLevel(t, a, l) ==
  /\ Calls(t)
  /\ a_level' = [a_level EXCEPT ![a] = l]
  /\ UNCHANGED <<logVars, a_formatter, a_hasFormatter, own, lockVars, localVars, pc, fault>>

\* An appender no logger has and no addAppender is working on.
Private(a) ==
  /\ \A n \in Name : ~Contains(m_appenders[n], a)
  /\ \A t \in Thread : pc[t] \in {"get", "fill", "push"} => app[t] # a

\* LogAppender::setFormatter.
SetAppenderFormatter(t, a, f) ==
  /\ Calls(t)
  /\ Free(a_lock[a])
  /\ f \in Fmt \/ May("unset")
  /\ Private(a) \/ May("late")
  /\ a_formatter' = [a_formatter EXCEPT ![a] = f]
  /\ a_hasFormatter' = [a_hasFormatter EXCEPT ![a] = (f # Null)]
  /\ own' = [own EXCEPT ![a] = f]
  /\ UNCHANGED <<logVars, a_level, lockVars, localVars, pc, fault>>

-----------------------------------------------------------------------------
(***************************************************************************)
(* Logger::log: the level, the logger's lock, then every appender of the   *)
(* list or, if it is empty, the root logger's log, with the lock held.     *)
(***************************************************************************)
Log(t, n, l) ==
  /\ Calls(t)
  /\ n \in m_loggers
  /\ IF l >= m_level[n]
     THEN /\ Goto(t, "lock")
          /\ op' = [op EXCEPT ![t] = "log"]
          /\ stack' = [stack EXCEPT ![t] = <<n>>]
          /\ event' = [event EXCEPT ![t] = l]
     ELSE UNCHANGED <<pc, op, stack, event>>
  /\ UNCHANGED <<logVars, appVars, lockVars, idx, app, todo, fault>>

LockToLog(t) ==
  /\ At(t, "lock")
  /\ Take(t, Last(stack[t]))
  /\ idx' = [idx EXCEPT ![t] = 1]
  /\ Goto(t, IF Appenders(t) = << >> THEN "fallback" ELSE "visit")
  /\ UNCHANGED <<logVars, appVars, mgr, a_lock, op, stack, app, event, todo, fault, calls>>

Fallback(t) ==
  /\ At(t, "fallback")
  /\ IF HasRoot(Last(stack[t])) /\ event[t] >= m_level[Root]
     THEN stack' = [stack EXCEPT ![t] = Append(@, Root)] /\ Goto(t, "lock")
     ELSE Goto(t, "leave") /\ UNCHANGED stack
  /\ UNCHANGED <<logVars, appVars, lockVars, op, idx, app, event, todo, fault, calls>>

\* The appender's log compares the level first, then takes its lock ...
VisitToLog(t) ==
  /\ Looping(t) /\ op[t] = "log"
  /\ LET a == Appenders(t)[idx[t]]
     IN  IF event[t] >= a_level[a]
         THEN /\ app' = [app EXCEPT ![t] = a]
              /\ Goto(t, "lockAppender") /\ UNCHANGED idx
         ELSE Advance(t) /\ UNCHANGED <<app, pc>>
  /\ UNCHANGED <<logVars, appVars, lockVars, op, stack, event, todo, fault, calls>>

LockAppender(t) ==
  /\ At(t, "lockAppender")
  /\ Free(a_lock[app[t]])
  /\ a_lock' = [a_lock EXCEPT ![app[t]] = t]
  /\ Goto(t, "write")
  /\ UNCHANGED <<logVars, appVars, mgr, lock, localVars, fault, calls>>

\* ... and formats the event through m_formatter, without a check.
Write(t) ==
  /\ At(t, "write")
  /\ a_lock' = [a_lock EXCEPT ![app[t]] = Null]
  /\ fault' = (a_formatter[app[t]] = Null)
  /\ Advance(t) /\ Goto(t, "visit")
  /\ UNCHANGED <<logVars, appVars, mgr, lock, op, stack, app, event, todo, calls>>

\* A logger's loop is over: its lock goes, and the caller's after it.
Leave(t) ==
  /\ \/ At(t, "leave")
     \/ At(t, "visit") /\ idx[t] > Len(Appenders(t))
  /\ lock' = [lock EXCEPT ![Last(stack[t])] = Null]
  /\ stack' = [stack EXCEPT ![t] = Front(@)]
  /\ Goto(t, IF Len(stack[t]) > 1 THEN "leave" ELSE IF op[t] = "dump" THEN "next" ELSE "idle")
  /\ UNCHANGED <<logVars, appVars, mgr, a_lock, op, idx, app, event, todo, fault, calls>>

-----------------------------------------------------------------------------
\* Logger::setFormatter, and its loop over the appenders without their own.
SetFormatter(t, n, f) ==
  /\ Calls(t)
  /\ n \in m_loggers
  /\ Take(t, n)
  /\ m_formatter' = [m_formatter EXCEPT ![n] = f]
  /\ op' = [op EXCEPT ![t] = "format"]
  /\ stack' = [stack EXCEPT ![t] = <<n>>]
  /\ idx' = [idx EXCEPT ![t] = 1]
  /\ Goto(t, "visit")
  /\ UNCHANGED <<m_loggers, m_level, m_appenders, appVars, mgr, a_lock, app, event, todo, fault>>

VisitToFormat(t) ==
  /\ Looping(t) /\ op[t] = "format"
  /\ LET a == Appenders(t)[idx[t]]
     IN  /\ Free(a_lock[a])
         /\ a_formatter' = IF Inherits(a)
                           THEN [a_formatter EXCEPT ![a] = m_formatter[Last(stack[t])]]
                           ELSE a_formatter
  /\ Advance(t)
  /\ UNCHANGED <<logVars, a_level, a_hasFormatter, own, lockVars, op, stack, app, event,
                 todo, pc, fault, calls>>

-----------------------------------------------------------------------------
(***************************************************************************)
(* Logger::addAppender.  getFormatter() takes and leaves the appender's    *)
(* lock before the lock is taken again to fill the formatter in.           *)
(***************************************************************************)
AddAppender(t, n, a) ==
  /\ Calls(t)
  /\ n \in m_loggers
  /\ Take(t, n)
  /\ op' = [op EXCEPT ![t] = "add"]
  /\ stack' = [stack EXCEPT ![t] = <<n>>]
  /\ app' = [app EXCEPT ![t] = a]
  /\ Goto(t, "get")
  /\ UNCHANGED <<logVars, appVars, mgr, a_lock, idx, event, todo, fault>>

AddGet(t) ==
  /\ At(t, "get")
  /\ Free(a_lock[app[t]])
  /\ Goto(t, IF Lacks(app[t]) THEN "fill" ELSE "push")
  /\ UNCHANGED <<logVars, appVars, lockVars, localVars, fault, calls>>

AddFill(t) ==
  /\ At(t, "fill")
  /\ Free(a_lock[app[t]])
  /\ a_formatter' = [a_formatter EXCEPT ![app[t]] = m_formatter[Last(stack[t])]]
  /\ Goto(t, "push")
  /\ UNCHANGED <<logVars, a_level, a_hasFormatter, own, lockVars, localVars, fault, calls>>

AddPush(t) ==
  /\ At(t, "push")
  /\ m_appenders' = [m_appenders EXCEPT ![Last(stack[t])] = Append(@, app[t])]
  /\ lock' = [lock EXCEPT ![Last(stack[t])] = Null]
  /\ stack' = [stack EXCEPT ![t] = << >>]
  /\ Goto(t, "idle")
  /\ UNCHANGED <<m_loggers, m_level, m_formatter, appVars, mgr, a_lock, op, idx, app, event,
                 todo, fault, calls>>

\* Logger::delAppender takes the first occurrence out.
DelAppender(t, n, a) ==
  /\ Calls(t)
  /\ n \in m_loggers /\ Free(lock[n])
  /\ m_appenders' = [m_appenders EXCEPT ![n] = RemoveFirst(@, a)]
  /\ UNCHANGED <<m_loggers, m_level, m_formatter, appVars, lockVars, localVars, pc, fault>>

ClearAppenders(t, n) ==
  /\ Calls(t)
  /\ n \in m_loggers /\ Free(lock[n])
  /\ m_appenders' = [m_appenders EXCEPT ![n] = << >>]
  /\ UNCHANGED <<m_loggers, m_level, m_formatter, appVars, lockVars, localVars, pc, fault>>

-----------------------------------------------------------------------------
(***************************************************************************)
(* LoggerManager::toYamlString holds the manager's lock over every         *)
(* logger's, and that one over each appender's.                            *)
(***************************************************************************)
Dump(t) ==
  /\ Calls(t)
  /\ Free(mgr)
  /\ mgr' = t
  /\ op' = [op EXCEPT ![t] = "dump"]
  /\ todo' = [todo EXCEPT ![t] = m_loggers]
  /\ Goto(t, "next")
  /\ UNCHANGED <<logVars, appVars, lock, a_lock, stack, idx, app, event, fault>>

DumpLogger(t) ==
  /\ At(t, "next")
  /\ \E n \in todo[t] :
       /\ Take(t, n)
       /\ stack' = [stack EXCEPT ![t] = <<n>>]
       /\ todo' = [todo EXCEPT ![t] = @ \ {n}]
  /\ idx' = [idx EXCEPT ![t] = 1]
  /\ Goto(t, "visit")
  /\ UNCHANGED <<logVars, appVars, mgr, a_lock, op, app, event, fault, calls>>

VisitToDump(t) ==
  /\ Looping(t) /\ op[t] = "dump"
  /\ Free(a_lock[Appenders(t)[idx[t]]])
  /\ Advance(t)
  /\ UNCHANGED <<logVars, appVars, lockVars, op, stack, app, event, todo, pc, fault, calls>>

DumpEnd(t) ==
  /\ At(t, "next")
  /\ todo[t] = {}
  /\ mgr' = Null
  /\ Goto(t, "idle")
  /\ UNCHANGED <<logVars, appVars, lock, a_lock, localVars, fault, calls>>

-----------------------------------------------------------------------------
Call(t) ==
  \/ Dump(t)
  \/ \E n \in Name : \/ GetLogger(t, n) \/ ClearAppenders(t, n)
                     \/ \E l \in Level : SetLevel(t, n, l) \/ Log(t, n, l)
                     \/ \E f \in Fmt : SetFormatter(t, n, f)
                     \/ \E a \in App : AddAppender(t, n, a) \/ DelAppender(t, n, a)
  \/ \E a \in App : \/ \E l \in Level : SetAppenderLevel(t, a, l)
                    \/ \E f \in Fmt \cup {Null} : SetAppenderFormatter(t, a, f)

Proceed(t) ==
  \/ LockToLog(t) \/ Fallback(t) \/ VisitToLog(t) \/ LockAppender(t) \/ Write(t) \/ Leave(t)
  \/ VisitToFormat(t)
  \/ AddGet(t) \/ AddFill(t) \/ AddPush(t)
  \/ DumpLogger(t) \/ VisitToDump(t) \/ DumpEnd(t)

\* The bound on calls is reached, or the process has crashed.
Done ==
  /\ fault \/ \A t \in Thread : pc[t] = "idle" /\ calls[t] = MaxCalls
  /\ UNCHANGED vars

Next == (\E t \in Thread : Call(t) \/ Proceed(t)) \/ Done

Spec == Init /\ [][Next]_vars

(***************************************************************************)
(* A thread inside a call is scheduled; a spin lock that has become free   *)
(* for good is taken.                                                      *)
(***************************************************************************)
FairSpec == Spec /\ \A t \in Thread : WF_vars(Proceed(t))

-----------------------------------------------------------------------------
(***************************************************************************)
(* Properties                                                              *)
(***************************************************************************)

\* No event is formatted through a null formatter: addAppender fills in the
\* logger's formatter before the appender can be reached by log().
NoNullFormatter == ~fault

Writing(t, a) == pc[t] = "write" /\ app[t] = a

(***************************************************************************)
(* The formatter an event is being formatted with is not replaced, and so  *)
(* not freed, meanwhile: neither by the appender's setFormatter nor by     *)
(* those of the loggers that share the appender.                           *)
(***************************************************************************)
FormatterPinned ==
  [][\A t \in Thread, a \in App : Writing(t, a) => a_formatter'[a] = a_formatter[a]]_vars

\* The stream an appender has its formatter write to, named by all that do.
Stream(a) == IF a \in Stdout THEN Stdout ELSE {a}

(***************************************************************************)
(* Two threads write an event each, item by item, to the same stream at    *)
(* the same time only if that is std::cout, and by two StdoutLogAppenders: *)
(* in the stream of a FileLogAppender events do not interleave, in         *)
(* std::cout those of two appenders do, as log.yaml has them, and those of *)
(* one do not, however many loggers share it.                              *)
(***************************************************************************)
OneWriter ==
  \A t, u \in Thread, a, b \in App :
    t # u /\ Writing(t, a) /\ Writing(u, b) /\ Stream(a) = Stream(b) =>
      a # b /\ {a, b} \subseteq Stdout

(***************************************************************************)
(* An appender is only written to while the logger whose list it was found *)
(* in still has it there: none is reached after delAppender or             *)
(* clearAppenders has returned, none is skipped or reached twice.          *)
(***************************************************************************)
DetachedIsSilent ==
  \A t \in Thread :
    pc[t] \in {"lockAppender", "write"} =>
      idx[t] <= Len(Appenders(t)) /\ app[t] = Appenders(t)[idx[t]]

(***************************************************************************)
(* log.h:447: the root logger is told of an event only if the logger's own *)
(* list is empty, and that stays so until root's appenders have been told. *)
(***************************************************************************)
RootOnlyForEmpty ==
  \A t \in Thread : Len(stack[t]) = 2 => m_appenders[stack[t][1]] = << >>

(***************************************************************************)
(* Every call returns: the locks of the manager, a logger, the root logger *)
(* and an appender are never waited for in a circle.                       *)
(***************************************************************************)
CallsReturn == \A t \in Thread : pc[t] # "idle" ~> pc[t] = "idle"

(***************************************************************************)
(* log.h:413: m_hasFormatter says that an appender has a formatter of its  *)
(* own.  Then the one it formats with is the one setFormatter gave it.     *)
(***************************************************************************)
OwnFormatterKept ==
  \A a \in App : a_hasFormatter[a] => a_formatter[a] = own[a]
=============================================================================
