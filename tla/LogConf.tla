------------------------------ MODULE LogConf ------------------------------
(***************************************************************************)
(* The configuration of the loggers, src/log.cc: a YAML document becomes a *)
(* set of LogDefines, the value of the variable "logs", and the listener   *)
(* of LogIniter brings the loggers in line with it, one locked call after  *)
(* the other, while other threads log; and the way back, what toString and *)
(* LoggerManager::toYamlString print.                                      *)
(*                                                                         *)
(* A call of the listener on a logger, which holds its lock throughout     *)
(* (Logger), is one step here; Logger::log is as many as it has locked     *)
(* sections and levels it reads without one.  Patterns are told apart by name and by whether they parse   *)
(* (FormatPattern).  Next to a definition stands, where a property needs   *)
(* one, a slip of the pen the property catches.                            *)
(***************************************************************************)
EXTENDS Integers, SequencesExt, LogLevel, Selection

CONSTANTS
  Loader,    \* the threads that call Config::LoadFromYaml
  Worker,    \* the threads that log
  Name,      \* the names of loggers
  Root,      \* "root"
  Fmt,       \* the patterns that parse
  Standard,  \* the one of a new logger
  BadFmt,    \* patterns that do not
  File,      \* names of files
  None,      \* an empty string, a key that is absent
  Level,     \* the levels events have
  LevelText, \* the texts documents have for levels
  Doc,       \* the documents that are loaded: sequences of nodes
  HasD       \* whether the program was started with -d

(***************************************************************************)
(* A node of a document is what YAML holds of a logger; an appender may    *)
(* lack a type or have one the parser does not know ("other").             *)
(***************************************************************************)
AppenderNode == [type : {"file", "stdout", "other", None}, file : File \cup {None},
                 level : LevelText \cup {None}, formatter : Fmt \cup BadFmt \cup {None}]

Node == [name : Name \cup {None}, level : LevelText \cup {None},
         formatter : Fmt \cup BadFmt \cup {None},
         appenders : Seq(AppenderNode)]

ASSUME LogConfAssumption ==
  /\ Loader \cap Worker = {}
  /\ Root \in Name /\ Standard \in Fmt /\ Level \subseteq Levels \ {UNKNOW}
  /\ None \notin Name \cup Fmt \cup BadFmt \cup File /\ Fmt \cap BadFmt = {}
  /\ FromString(None) = UNKNOW
  /\ HasD \in BOOLEAN
  /\ \A doc \in Doc : doc \in Seq(Node)

VARIABLES
  m_val,        \* the value of g_log_defines
  m_loggers,    \* the loggers there are
  m_level,      \* Logger::m_level
  m_formatter,  \* Logger::m_formatter
  m_appenders,  \* Logger::m_appenders
  pc,           \* where in the listener, or in a log statement, a thread is
  new,          \* the listener's new_value
  todo,         \* the defines its first loop, then its second, has to visit
  def,          \* the define it is at
  at,           \* the appender of it that is to be added next
  event,        \* the logger and the level of a worker's event
  reached       \* history: the appenders a worker's last event has reached

logVars    == <<m_loggers, m_level, m_formatter, m_appenders>>
loaderVars == <<new, todo, def, at>>
workerVars == <<event, reached>>
vars == <<m_val, logVars, pc, loaderVars, workerVars>>

Console == [type |-> "stdout", file |-> None, level |-> 1, formatter |-> Standard, own |-> FALSE]

NoDefine == [name |-> None, level |-> 0, formatter |-> None, appenders |-> << >>]

Init ==
  /\ m_val = {}
  /\ m_loggers = {Root}
  /\ m_level = [n \in Name |-> 1]
  /\ m_formatter = [n \in Name |-> Standard]
  /\ m_appenders = [n \in Name |-> IF n = Root THEN <<Console>> ELSE << >>]
  /\ pc = [t \in Loader \cup Worker |-> "idle"]
  /\ new = [t \in Loader |-> {}]
  /\ todo = [t \in Loader |-> {}]
  /\ def = [t \in Loader |-> NoDefine]
  /\ at = [t \in Loader |-> 1]
  /\ event = [t \in Worker |-> [name |-> Root, level |-> 1]]
  /\ reached = [t \in Worker |-> {}]

-----------------------------------------------------------------------------
(***************************************************************************)
(* LexicalCast<std::string, LogDefine>.  Appenders without a type, of an   *)
(* unknown one, or without the file they need are left out; the level of   *)
(* an appender is not read.                                                *)
(***************************************************************************)
Usable(a) == a.type = "stdout" \/ (a.type = "file" /\ a.file # None)

Appender(a) ==
  [type |-> a.type, level |-> UNKNOW, formatter |-> a.formatter,
   file |-> IF a.type = "file" THEN a.file ELSE None]

LogDefine(node) ==
  LET usable == Selected(node.appenders, {k \in DOMAIN node.appenders : Usable(node.appenders[k])})
  IN  [name |-> node.name, level |-> FromString(node.level), formatter |-> node.formatter,
       appenders |-> [k \in DOMAIN usable |-> Appender(usable[k])]]

\* A node without a name throws, which fromString catches.
Throws(doc) == \E k \in DOMAIN doc : doc[k].name = None

\* Inserted into a std::set ordered by name: the first define of a name stays.
LogDefines(doc) ==
  {LogDefine(doc[k]) : k \in {j \in DOMAIN doc :
                               \A l \in 1 .. j - 1 : doc[l].name # doc[j].name}}

\* LogDefine::operator==, which compares the appenders with themselves.
Equal(d, e) ==
  d.name = e.name /\ d.level = e.level /\ d.formatter = e.formatter

EqualSets(v, w) ==
  /\ \A d \in v : \E e \in w : Equal(d, e)
  /\ \A e \in w : \E d \in v : Equal(d, e)

\* The ways back: LexicalCast<LogDefine, std::string>, and what toYamlString prints
\* of an appender and of a logger.  A level that is UNKNOW is left out.
LevelNode(level) == IF level = UNKNOW THEN None ELSE ToText(level)

DefineNode(d) ==
  [name |-> d.name, level |-> LevelNode(d.level), formatter |-> d.formatter,
   appenders |-> [k \in DOMAIN d.appenders |->
                    [d.appenders[k] EXCEPT !.level = LevelNode(@)]]]

AppenderDump_Bare(a) ==
  [type |-> a.type, file |-> a.file, level |-> LevelNode(a.level), formatter |-> None]

AppenderDump(a) ==
  [type |-> a.type, file |-> a.file, level |-> LevelNode(a.level),
   formatter |-> IF a.own THEN a.formatter ELSE None]

LoggerDump(n) ==
  [name |-> n, level |-> LevelNode(m_level[n]), formatter |-> m_formatter[n],
   appenders |-> [k \in DOMAIN m_appenders[n] |-> AppenderDump(m_appenders[n][k])]]

Named(v, n) == {d \in v : d.name = n}

-----------------------------------------------------------------------------
Goto(t, loc) == pc' = [pc EXCEPT ![t] = loc]

\* No event that went on to root holds the logger's lock.
Unlocked(n) == \A t \in Worker : pc[t] \in {"root", "lockRoot"} => event[t].name # n

\* The loaders that hold the read lock of the variable.
Active_Store == {t \in Loader : pc[t] # "idle"}
Active       == {t \in Loader : pc[t] \notin {"idle", "store"}}

(***************************************************************************)
(* LoadFromYaml, fromString and setValue up to the listener's first loop.  *)
(***************************************************************************)
Load(t, doc) ==
  /\ pc[t] = "idle"
  /\ IF Throws(doc) \/ EqualSets(LogDefines(doc), m_val)
     THEN UNCHANGED <<pc, new, todo>>
     ELSE /\ Goto(t, "next")
          /\ new' = [new EXCEPT ![t] = LogDefines(doc)]
          /\ todo' = [todo EXCEPT ![t] = LogDefines(doc)]
  /\ UNCHANGED <<m_val, logVars, def, at, workerVars>>

\* The first loop passes over a define that is equal to the old one ...
Skip(t) ==
  /\ pc[t] = "next"
  /\ \E d \in todo[t] :
       /\ \E e \in m_val : Equal(d, e)
       /\ todo' = [todo EXCEPT ![t] = @ \ {d}]
  /\ UNCHANGED <<m_val, logVars, pc, new, def, at, workerVars>>

\* ... and gets the logger of any other.
Pick(t) ==
  /\ pc[t] = "next"
  /\ \E d \in todo[t] :
       /\ ~\E e \in m_val : Equal(d, e)
       /\ todo' = [todo EXCEPT ![t] = @ \ {d}]
       /\ def' = [def EXCEPT ![t] = d]
       /\ m_loggers' = m_loggers \cup {d.name}
  /\ Goto(t, "level")
  /\ UNCHANGED <<m_val, m_level, m_formatter, m_appenders, new, at, workerVars>>

SetLevel(t) ==
  /\ pc[t] = "level"
  /\ m_level' = [m_level EXCEPT ![def[t].name] = def[t].level]
  /\ Goto(t, IF def[t].formatter = None THEN "clear" ELSE "format")
  /\ UNCHANGED <<m_val, m_loggers, m_formatter, m_appenders, loaderVars, workerVars>>

\* Logger::setFormatter refuses a pattern that does not parse.
SetFormatter(t) ==
  /\ pc[t] = "format"
  /\ def[t].formatter \in Fmt => Unlocked(def[t].name)
  /\ IF def[t].formatter \in Fmt
     THEN /\ m_formatter' = [m_formatter EXCEPT ![def[t].name] = def[t].formatter]
          /\ m_appenders' = [m_appenders EXCEPT ![def[t].name] =
               [k \in DOMAIN @ |-> IF @[k].own THEN @[k]
                                   ELSE [@[k] EXCEPT !.formatter = def[t].formatter]]]
     ELSE UNCHANGED <<m_formatter, m_appenders>>
  /\ Goto(t, "clear")
  /\ UNCHANGED <<m_val, m_loggers, m_level, loaderVars, workerVars>>

\* clearAppenders.
Cleared_Not(n) == m_appenders
Cleared(n)     == [m_appenders EXCEPT ![n] = << >>]

ClearAppenders(t) ==
  /\ pc[t] = "clear"
  /\ Unlocked(def[t].name)
  /\ m_appenders' = Cleared(def[t].name)
  /\ at' = [at EXCEPT ![t] = 1]
  /\ Goto(t, "add")
  /\ UNCHANGED <<m_val, m_loggers, m_level, m_formatter, new, todo, def, workerVars>>

\* With -d nothing goes to the console.
Silenced(a) == a.type = "stdout" /\ HasD

\* The appender object, whose own formatter is the logger's if it has none
\* or one that does not parse.
Made(a, n) ==
  [type |-> a.type, file |-> a.file, level |-> a.level, own |-> a.formatter \in Fmt,
   formatter |-> IF a.formatter \in Fmt THEN a.formatter ELSE m_formatter[n]]

\* `continue' at an appender that is left out, and `break' by mistake.
Onward_Break(t, a) == IF Silenced(a) THEN Len(def[t].appenders) + 1 ELSE at[t] + 1
Onward(t, a)       == at[t] + 1

AddAppender(t) ==
  /\ pc[t] = "add" /\ at[t] <= Len(def[t].appenders)
  /\ LET a == def[t].appenders[at[t]]
         n == def[t].name
     IN  /\ ~Silenced(a) => Unlocked(n)
         /\ m_appenders' = IF Silenced(a) THEN m_appenders
                           ELSE [m_appenders EXCEPT ![n] = Append(@, Made(a, n))]
         /\ at' = [at EXCEPT ![t] = Onward(t, a)]
  /\ UNCHANGED <<m_val, m_loggers, m_level, m_formatter, pc, new, todo, def, workerVars>>

DefineDone(t) ==
  /\ pc[t] = "add" /\ at[t] > Len(def[t].appenders)
  /\ Goto(t, "next")
  /\ UNCHANGED <<m_val, logVars, loaderVars, workerVars>>

\* The second loop: the loggers that are defined no more.
Removed(t) == {e \in m_val : Named(new[t], e.name) = {}}

FirstLoopDone(t) ==
  /\ pc[t] = "next" /\ todo[t] = {}
  /\ todo' = [todo EXCEPT ![t] = Removed(t)]
  /\ Goto(t, "remove")
  /\ UNCHANGED <<m_val, logVars, new, def, at, workerVars>>

Retire(t) ==
  /\ pc[t] = "remove"
  /\ \E d \in todo[t] :
       /\ todo' = [todo EXCEPT ![t] = @ \ {d}]
       /\ def' = [def EXCEPT ![t] = d]
       /\ m_level' = [m_level EXCEPT ![d.name] = 0]
  /\ Goto(t, "clearRemoved")
  /\ UNCHANGED <<m_val, m_loggers, m_formatter, m_appenders, new, at, workerVars>>

ClearRemoved(t) ==
  /\ pc[t] = "clearRemoved"
  /\ Unlocked(def[t].name)
  /\ m_appenders' = Cleared(def[t].name)
  /\ Goto(t, "remove")
  /\ UNCHANGED <<m_val, m_loggers, m_level, m_formatter, loaderVars, workerVars>>

\* The listener is over, and the read lock with it.
ListenerDone(t) ==
  /\ pc[t] = "remove" /\ todo[t] = {}
  /\ Goto(t, "store")
  /\ UNCHANGED <<m_val, logVars, loaderVars, workerVars>>

\* setValue stores under the write lock.
Store(t) ==
  /\ pc[t] = "store"
  /\ Active = {}
  /\ m_val' = new[t]
  /\ Goto(t, "idle")
  /\ UNCHANGED <<logVars, loaderVars, workerVars>>

-----------------------------------------------------------------------------
(***************************************************************************)
(* SYLAR_LOG_LEVEL(SYLAR_LOG_NAME(n)) compares the levels before it makes  *)
(* the event, and Logger::log again when the event is complete.            *)
(***************************************************************************)
LogEvent(t, n, l) ==
  /\ pc[t] = "idle"
  /\ m_loggers' = m_loggers \cup {n}
  /\ event' = [event EXCEPT ![t] = [name |-> n, level |-> l]]
  /\ reached' = [reached EXCEPT ![t] = {}]
  /\ Goto(t, IF m_level[n] <= l THEN "log" ELSE "idle")
  /\ UNCHANGED <<m_val, m_level, m_formatter, m_appenders, loaderVars>>

\* The appenders that take the event, of a logger's list or of root's.
Accepted(n, l) == {a \in ToSet(m_appenders[n]) : l >= a.level}

HasRoot_Never(n) == FALSE
HasRoot(n)       == n # Root

Return(t, sinks) ==
  /\ reached' = [reached EXCEPT ![t] = sinks]
  /\ Goto(t, "idle")

\* The level is read before the lock is taken.
Log(t) ==
  /\ pc[t] = "log"
  /\ Goto(t, IF event[t].level >= m_level[event[t].name] THEN "lock" ELSE "idle")
  /\ UNCHANGED <<m_val, logVars, loaderVars, workerVars>>

\* The appenders, under the logger's lock ...
LogHere(t) ==
  /\ pc[t] = "lock"
  /\ LET n == event[t].name
     IN  /\ Unlocked(n)
         /\ IF m_appenders[n] = << >> /\ HasRoot(n)
            THEN Goto(t, "root") /\ UNCHANGED reached
            ELSE Return(t, Accepted(n, event[t].level))
  /\ UNCHANGED <<m_val, logVars, loaderVars, event>>

\* ... or, with that lock held, root's log: its level, and then its appenders.
LogRoot(t) ==
  /\ pc[t] = "root"
  /\ Goto(t, IF event[t].level >= m_level[Root] THEN "lockRoot" ELSE "idle")
  /\ UNCHANGED <<m_val, logVars, loaderVars, workerVars>>

LogThere(t) ==
  /\ pc[t] = "lockRoot"
  /\ Return(t, Accepted(Root, event[t].level))
  /\ UNCHANGED <<m_val, logVars, loaderVars, event>>

-----------------------------------------------------------------------------
Proceed(t) ==
  \/ Skip(t) \/ Pick(t) \/ SetLevel(t) \/ SetFormatter(t) \/ ClearAppenders(t)
  \/ AddAppender(t) \/ DefineDone(t) \/ FirstLoopDone(t)
  \/ Retire(t) \/ ClearRemoved(t) \/ ListenerDone(t) \/ Store(t)

Write(t) == Log(t) \/ LogHere(t) \/ LogRoot(t) \/ LogThere(t)

Next ==
  \/ \E t \in Loader : Proceed(t) \/ \E doc \in Doc : Load(t, doc)
  \/ \E t \in Worker : Write(t) \/ \E n \in Name, l \in Level : LogEvent(t, n, l)

Spec == Init /\ [][Next]_vars

\* A loader inside LoadFromYaml, and a worker inside Logger::log, is scheduled.
FairSpec ==
  /\ Spec
  /\ \A t \in Loader : WF_vars(Proceed(t))
  /\ \A t \in Worker : WF_vars(Write(t))

-----------------------------------------------------------------------------
(***************************************************************************)
(* Properties                                                              *)
(***************************************************************************)

(***************************************************************************)
(* The logger n has the first k of a define's appenders that -d does not   *)
(* silence, each once and in order: place[i] is where its i-th comes from. *)
(***************************************************************************)
Installed(n, appenders, k) ==
  \E place \in [DOMAIN m_appenders[n] -> 1 .. k] :
    /\ \A i, j \in DOMAIN m_appenders[n] : i < j => place[i] < place[j]
    /\ \A j \in 1 .. k :
         Silenced(appenders[j]) <=> \A i \in DOMAIN m_appenders[n] : place[i] # j
    /\ \A i \in DOMAIN m_appenders[n] : m_appenders[n][i] = Made(appenders[place[i]], n)

Applied(d) ==
  /\ m_level[d.name] = d.level
  /\ d.formatter \in Fmt => m_formatter[d.name] = d.formatter
  /\ Installed(d.name, d.appenders, Len(d.appenders))

\* The logger n is as the defines v say; only root keeps what no define gives it.
Agrees(v, n) ==
  /\ \A d \in Named(v, n) : Applied(d)
  /\ Named(v, n) = {} /\ n # Root => m_appenders[n] = << >>

(***************************************************************************)
(* Once the listener is over the loggers are what the value of "logs"      *)
(* says: each one defined has its level, its pattern and exactly its       *)
(* appenders, in order; one that is defined no more has none.              *)
(***************************************************************************)
ConfiguredWhenQuiet ==
  (\A t \in Loader : pc[t] = "idle") => \A n \in Name : Agrees(m_val, n)

Unsilenced(appenders) ==
  Selected(appenders, {k \in DOMAIN appenders : ~Silenced(appenders[k])})

(***************************************************************************)
(* What the program prints of its configuration can be loaded again: the   *)
(* defines toString prints are the defines, and what toYamlString prints   *)
(* of a logger, at whatever moment, sets up the level, the pattern and the *)
(* appenders it has.  The level of an appender, which is not read, and     *)
(* what -d silences are lost.                                              *)
(***************************************************************************)
PrintsReadBack ==
  /\ \A d \in m_val : LogDefine(DefineNode(d)) = d
  /\ \A n \in m_loggers :
       LET d    == LogDefine(LoggerDump(n))
           kept == Unsilenced(m_appenders[n])
       IN  /\ d.level = m_level[n] /\ d.formatter = m_formatter[n]
           /\ [k \in DOMAIN Unsilenced(d.appenders) |-> Made(Unsilenced(d.appenders)[k], n)]
              = [k \in DOMAIN kept |-> [kept[k] EXCEPT !.level = UNKNOW]]

(***************************************************************************)
(* In every state, and so in the middle of the listener too, a logger has  *)
(* a front part of the appenders of one define, in its formatters too: an  *)
(* event never reaches old and new appenders, nor one of them twice.       *)
(***************************************************************************)
OneGeneration ==
  \A n \in Name \ {Root} :
    m_appenders[n] # << >> =>
      \E d \in m_val \cup UNION {new[t] : t \in Loader} :
        d.name = n /\ \E k \in 0 .. Len(d.appenders) : Installed(n, d.appenders, k)

(***************************************************************************)
(* An event that its logger takes, and root where it goes to root, is      *)
(* written somewhere as long as root has an appender: also when the logger *)
(* loses or gets its appenders, or either its level, between two steps of  *)
(* Logger::log.  What is lost is what found root without an appender, or   *)
(* was refused by the level of the logger it was offered to.               *)
(***************************************************************************)
Refused(t) ==
  \/ pc[t] = "log"  /\ event[t].level < m_level[event[t].name]
  \/ pc[t] = "root" /\ event[t].level < m_level[Root]

NoEventVanishes ==
  [][\A t \in Worker :
       Write(t) /\ pc'[t] = "idle" /\ ~Refused(t) /\ m_appenders[Root] # << >>
       => reached'[t] # {}]_vars

(***************************************************************************)
(* The listener comes to its end, and setValue stores, unless the workers  *)
(* log for ever: nothing makes a spin lock fair.                           *)
(***************************************************************************)
Quiet    == \A t \in Worker : pc[t] = "idle"
LoadEnds == <>[]Quiet => \A t \in Loader : pc[t] # "idle" ~> pc[t] = "idle"
=============================================================================
