-------------------------------- MODULE Env --------------------------------
(***************************************************************************)
(* Env of src/env.h and src/env.cc: the arguments of the program and its   *)
(* help entries, under one read-write lock.                                *)
(*                                                                         *)
(* Every method but init and addHelp is one critical section, and so one   *)
(* action; the lock is never held from one action to the next.  An         *)
(* argument of the command line is an option "-k", written as its key k,   *)
(* a lone "-", or a word.  has, get and printHelp only read, and the       *)
(* operating system's environment is not kept.                             *)
(***************************************************************************)
EXTENDS Integers, SequencesExt, Selection

CONSTANTS
  Caller,     \* the threads that use the Env
  Initer,     \* the one of them that calls init
  Key,        \* keys of arguments
  HelpKey,    \* keys of help entries
  Word,       \* arguments that are no options; values
  Blank,      \* the empty value
  Bare,       \* the argument "-"
  Desc,       \* descriptions
  NoKey,      \* the null pointer now_key starts with
  CommandLine, \* the command lines the program may be started with
  MaxHelps    \* bound: the number of help entries

Argument == Key \cup Word \cup {Bare}

ASSUME EnvAssumption ==
  /\ Initer \in Caller
  /\ Key \cap Word = {} /\ Bare \notin Key \cup Word
  /\ Blank \notin Word /\ NoKey \notin Key
  /\ (\A args \in CommandLine : args \in Seq(Argument)) /\ MaxHelps \in Nat

VARIABLES
  m_args,    \* the arguments: from keys to values
  m_helps,   \* the help entries, in the order they are printed
  argv,      \* the command line init parses
  i,         \* init's index into it
  now_key,   \* the option that still waits for its value
  result,    \* what init returns, or that it has not begun or not ended
  adding,    \* the entry a thread is inside addHelp with
  before,    \* history: the arguments when init began
  alone      \* history: whether the caller's call has been undisturbed

parseVars == <<argv, i, now_key, result>>
history   == <<before, alone>>
envVars   == <<m_args, m_helps, parseVars, adding, history>>

EnvInit ==
  /\ m_args = << >> /\ m_helps = << >>
  /\ argv = << >> /\ i = 1 /\ now_key = NoKey /\ result = "not called"
  /\ adding = [t \in Caller |-> << >>]
  /\ before = << >>
  /\ alone = [t \in Caller |-> TRUE]

-----------------------------------------------------------------------------
\* m_args[key] = val.
Put(args, k, v) == [x \in DOMAIN args \cup {k} |-> IF x = k THEN v ELSE args[x]]

\* What init adds for an option no value has followed.
Valueless_Not(args, k) == args
Valueless(args, k)     == IF k = NoKey THEN args ELSE Put(args, k, Blank)

\* The entries removeHelp leaves.
Without_First(helps, k) ==
  LET js == {j \in DOMAIN helps : helps[j].key = k}
  IN  IF js = {} THEN helps
      ELSE RemoveAt(helps, CHOOSE j \in js : \A l \in js : j <= l)
Without(helps, k) == Selected(helps, {j \in DOMAIN helps : helps[j].key # k})

Calling(t) == (t = Initer /\ result = "parsing") \/ adding[t] # << >>

(***************************************************************************)
(* init, one action per turn of its loop; add is part of the turn.         *)
(***************************************************************************)
InitCall ==
  /\ ~Calling(Initer) /\ result = "not called"
  /\ argv' \in CommandLine
  /\ result' = "parsing" /\ i' = 1 /\ now_key' = NoKey
  /\ before' = m_args /\ alone' = [alone EXCEPT ![Initer] = TRUE]
  /\ UNCHANGED <<m_args, m_helps, adding>>

\* init returns; its locals and the histories of the call are forgotten.
InitOver(r) ==
  /\ result' = r
  /\ argv' = << >> /\ i' = 1 /\ now_key' = NoKey
  /\ before' = << >> /\ alone' = [alone EXCEPT ![Initer] = TRUE]
  /\ UNCHANGED <<m_helps, adding>>

Turn == result = "parsing" /\ i \in DOMAIN argv

InitOption ==
  /\ Turn /\ argv[i] \in Key
  /\ m_args' = Valueless(m_args, now_key)
  /\ now_key' = argv[i] /\ i' = i + 1
  /\ UNCHANGED <<m_helps, argv, result, adding, history>>

InitValue ==
  /\ Turn /\ argv[i] \in Word /\ now_key # NoKey
  /\ m_args' = Put(m_args, now_key, argv[i])
  /\ now_key' = NoKey /\ i' = i + 1
  /\ UNCHANGED <<m_helps, argv, result, adding, history>>

InitInvalid ==
  /\ Turn
  /\ argv[i] = Bare \/ (argv[i] \in Word /\ now_key = NoKey)
  /\ InitOver("false")
  /\ UNCHANGED m_args

InitReturns ==
  /\ result = "parsing" /\ i \notin DOMAIN argv
  /\ m_args' = Valueless(m_args, now_key)
  /\ InitOver("true")

(***************************************************************************)
(* add and del.                                                            *)
(***************************************************************************)
ArgsChanged ==
  /\ alone' = [alone EXCEPT ![Initer] = result # "parsing" /\ @]
  /\ UNCHANGED <<m_helps, parseVars, adding, before>>

Add(t, k, v) == ~Calling(t) /\ m_args' = Put(m_args, k, v) /\ ArgsChanged

Del(t, k) ==
  /\ ~Calling(t)
  /\ m_args' = [x \in DOMAIN m_args \ {k} |-> m_args[x]]
  /\ ArgsChanged

(***************************************************************************)
(* removeHelp; addHelp, which calls it, lets the lock go and takes it      *)
(* again to append.                                                        *)
(***************************************************************************)
RemoveHelp(t, k) ==
  /\ ~Calling(t)
  /\ m_helps' = Without(m_helps, k)
  /\ UNCHANGED <<m_args, parseVars, adding, history>>

AddHelp(t, k, d) ==
  /\ ~Calling(t)
  /\ m_helps' = Without(m_helps, k)
  /\ Len(m_helps') + Cardinality({u \in Caller : adding[u] # << >>}) < MaxHelps
  /\ adding' = [adding EXCEPT ![t] = [key |-> k, desc |-> d]]
  /\ alone' = [alone EXCEPT ![t] = TRUE]
  /\ UNCHANGED <<m_args, parseVars, before>>

AddHelpAppends(t) ==
  /\ adding[t] # << >>
  /\ m_helps' = Append(m_helps, adding[t])
  /\ adding' = [adding EXCEPT ![t] = << >>]
  /\ alone' = [u \in Caller |->
       u = t \/ (alone[u] /\ ~(adding[u] # << >> /\ adding[u].key = adding[t].key))]
  /\ UNCHANGED <<m_args, parseVars, before>>

-----------------------------------------------------------------------------
UseEnv(t) ==
  \/ t = Initer /\ InitCall
  \/ \E k \in Key, v \in Word : Add(t, k, v)
  \/ \E k \in Key : Del(t, k)
  \/ \E k \in HelpKey : RemoveHelp(t, k)
  \/ \E k \in HelpKey, d \in Desc : AddHelp(t, k, d)

InEnv(t) ==
  \/ t = Initer /\ (InitOption \/ InitValue \/ InitInvalid \/ InitReturns)
  \/ AddHelpAppends(t)

-----------------------------------------------------------------------------
(***************************************************************************)
(* Properties                                                              *)
(***************************************************************************)
(***************************************************************************)
(* What a command line means: options, each with the word that follows it  *)
(* or none, up to the first argument that is neither; what precedes that   *)
(* holds, except an option right before it.  The last of equal options     *)
(* counts.                                                                 *)
(***************************************************************************)
Invalid(args) == {j \in DOMAIN args :
  \/ args[j] = Bare
  \/ args[j] \in Word /\ ~(j > 1 /\ args[j - 1] \in Key)}

Given(args, k) == {j \in DOMAIN args :
  args[j] = k /\ \A l \in Invalid(args) : j + 1 < l}

ValueAt(args, j) ==
  IF j + 1 \in DOMAIN args /\ args[j + 1] \in Word THEN args[j + 1] ELSE Blank

Meaning(args, base) ==
  [k \in DOMAIN base \cup {x \in Key : Given(args, x) # {}} |->
     IF Given(args, k) = {} THEN base[k] ELSE ValueAt(args, Max(Given(args, k)))]

(***************************************************************************)
(* init returns true iff the command line is valid, and the arguments are  *)
(* then those there were, overridden by what it means, unless another      *)
(* thread has changed them meanwhile.                                      *)
(***************************************************************************)
ArgsParsed ==
  [][result = "parsing" /\ result' # "parsing" =>
       /\ result' = "true" <=> Invalid(argv) = {}
       /\ alone[Initer] => m_args' = Meaning(argv, before)]_envVars

(***************************************************************************)
(* addHelp replaces: when it returns there is one entry for its key, its   *)
(* own, unless another addHelp has appended one for this key since it      *)
(* removed them; entries such a race has left twice go with the next.      *)
(***************************************************************************)
HelpReplaced ==
  [][\A t \in Caller : AddHelpAppends(t) /\ alone[t] =>
       \E j \in DOMAIN m_helps' :
         /\ m_helps'[j] = adding[t]
         /\ \A l \in DOMAIN m_helps' : m_helps'[l].key = adding[t].key => l = j]_envVars
=============================================================================
