---------------------------- MODULE ProgramProofs ----------------------------
(***************************************************************************)
(* Theorems about Program: the Threads and the command line of any program *)
(* that uses this library, for any number of threads and any arguments.    *)
(*                                                                         *)
(* A Thread and the pthread that runs it share the object without a lock;  *)
(* what is true of the object follows from the place its thread has come   *)
(* to.  The command line is parsed under a lock taken anew for each        *)
(* argument: what has been parsed is the meaning of the arguments before   *)
(* the one init has come to, less an option that still waits for a value.  *)
(* addHelp takes its lock twice: in between nobody has an entry for its    *)
(* key, unless another addHelp adds one.                                   *)
(***************************************************************************)
EXTENDS Program, FiniteSetTheorems, WellFoundedInduction, TLAPS

Places  == {"unborn", "created", "entered", "identified", "callback", "ended"}
InRun   == {"created", "entered", "identified"}
Entered == {"entered", "identified", "callback"}

ThreadTypeOK ==
  /\ life \in [Object -> {"unborn", "alive", "destroyed"}]
  /\ m_thread \in [Object -> BOOLEAN]
  /\ m_id \in [Object -> BOOLEAN]
  /\ m_name \in [Object -> Name \cup {Unknown}]
  /\ cb \in [Object -> {"object", "stack", "gone"}]
  /\ t_thread \in [Tid -> Object \cup {Null}]
  /\ t_thread_name \in [Tid -> Name \cup {Unknown}]
  /\ pthread \in [Object -> {"none", "joinable", "joined", "detached"}]
  /\ place \in [Tid -> Places]

\* What the place of an object's thread says of the two.
Placed(o) ==
  /\ place[o] = "unborn" <=> life[o] = "unborn"
  /\ cb[o] = "object" <=> place[o] \in InRun
  /\ place[o] \in Entered => t_thread[o] = o
  /\ t_thread[o] \in {o, Null}

\* The names agree from run's first stretch on, and then the id is known.
Named(o) ==
  life[o] = "alive" =>
    /\ place[o] \in Entered => m_name[o] = t_thread_name[o]
    /\ place[o] \in {"identified", "callback"} => m_id[o]

\* A destroyed object has no pthread, and one to join has not been joined.
Joinable(o) == m_thread[o] => life[o] = "alive" /\ pthread[o] = "joinable"

ThreadInv ==
  /\ ThreadTypeOK
  /\ t_thread[Main] = Null
  /\ \A o \in Object : Placed(o) /\ Named(o) /\ Joinable(o)

\* With no liberties an object outlives what run does before the callback.
FaultInv == fault = "none" /\ \A o \in Object : place[o] \in InRun => life[o] = "alive"

-----------------------------------------------------------------------------
(***************************************************************************)
(* The steps of the threads, whatever the client does.                     *)
(***************************************************************************)
LEMMA NewKept ==
  ASSUME ThreadInv, NEW t \in Tid, NEW o \in Object, NEW n \in Name \cup {Empty}, New(t, o, n)
  PROVE  ThreadInv'
<1>1. /\ life[o] = "unborn" /\ life' = [life EXCEPT ![o] = "alive"]
      /\ m_thread' = [m_thread EXCEPT ![o] = TRUE]
      /\ m_name' = [m_name EXCEPT ![o] = Called(n)]
      /\ cb' = [cb EXCEPT ![o] = "object"]
      /\ pthread' = [pthread EXCEPT ![o] = "joinable"]
      /\ place' = [place EXCEPT ![o] = "created"]
      /\ UNCHANGED <<m_id, t_thread, t_thread_name>>
  BY DEF New, localVars
<1>2. Called(n) \in Name \cup {Unknown}
  BY DEF Called
<1>3. ThreadTypeOK'
  BY <1>1, <1>2 DEF ThreadInv, ThreadTypeOK, Places
<1>4. \A p \in Object : p \in Tid
  BY DEF Tid
<1>5. t_thread'[Main] = Null
  BY <1>1 DEF ThreadInv
<1>6. \A p \in Object : Placed(p)' /\ Named(p)' /\ Joinable(p)'
  BY <1>1, <1>4 DEF ThreadInv, ThreadTypeOK, Placed, Named, Joinable, InRun, Entered
<1> QED
  BY <1>3, <1>5, <1>6 DEF ThreadInv

LEMMA RunKept ==
  ASSUME ThreadInv, NEW o \in Object, Run(o)
  PROVE  ThreadInv'
<1>1. o \in Tid /\ o # Main /\ \A p \in Object : p \in Tid
  BY ThreadAssumption DEF Tid
<1>2. CASE RunEnter(o)
  <2>1. /\ place[o] = "created" /\ place' = [place EXCEPT ![o] = "entered"]
        /\ t_thread' = [t_thread EXCEPT ![o] = o]
        /\ t_thread_name' = [t_thread_name EXCEPT ![o] = m_name[o]]
        /\ UNCHANGED <<life, m_thread, m_id, m_name, cb, pthread>>
    BY <1>2 DEF RunEnter, objectVars
  <2>2. ThreadTypeOK' /\ t_thread'[Main] = Null
    BY <1>1, <2>1 DEF ThreadInv, ThreadTypeOK, Places, Tid
  <2>3. \A p \in Object : Placed(p)' /\ Named(p)' /\ Joinable(p)'
    BY <1>1, <2>1 DEF ThreadInv, ThreadTypeOK, Placed, Named, Joinable, InRun, Entered
  <2> QED BY <2>2, <2>3 DEF ThreadInv
<1>3. CASE RunIdentify(o)
  <2>1. /\ place[o] = "entered" /\ place' = [place EXCEPT ![o] = "identified"]
        /\ m_id' = [m_id EXCEPT ![o] = TRUE]
        /\ UNCHANGED <<life, m_thread, m_name, cb, t_thread, t_thread_name, pthread>>
    BY <1>3 DEF RunIdentify, localVars
  <2>2. ThreadTypeOK' /\ t_thread'[Main] = Null
    BY <2>1 DEF ThreadInv, ThreadTypeOK, Places
  <2>3. \A p \in Object : Placed(p)' /\ Named(p)' /\ Joinable(p)'
    BY <1>1, <2>1 DEF ThreadInv, ThreadTypeOK, Placed, Named, Joinable, InRun, Entered
  <2> QED BY <2>2, <2>3 DEF ThreadInv
<1>4. CASE RunCallback(o)
  <2>1. /\ place[o] = "identified" /\ place' = [place EXCEPT ![o] = "callback"]
        /\ cb' = [cb EXCEPT ![o] = "stack"]
        /\ UNCHANGED <<life, m_thread, m_id, m_name, t_thread, t_thread_name, pthread>>
    BY <1>4 DEF RunCallback, Swapped, localVars
  <2>2. ThreadTypeOK' /\ t_thread'[Main] = Null
    BY <2>1 DEF ThreadInv, ThreadTypeOK, Places
  <2>3. \A p \in Object : Placed(p)' /\ Named(p)' /\ Joinable(p)'
    BY <1>1, <2>1 DEF ThreadInv, ThreadTypeOK, Placed, Named, Joinable, InRun, Entered
  <2> QED BY <2>2, <2>3 DEF ThreadInv
<1> QED BY <1>2, <1>3, <1>4 DEF Run

\* The callback returns and the thread ends.
LEMMA ReturnKept ==
  ASSUME ThreadInv, NEW o \in Tid, Return(o)
  PROVE  ThreadInv'
<1>1. /\ o \in Object /\ o # Main /\ place[o] = "callback"
      /\ place' = [place EXCEPT ![o] = "ended"]
      /\ cb' = [cb EXCEPT ![o] = "gone"]
      /\ t_thread' = [t_thread EXCEPT ![o] = Null]
      /\ t_thread_name' = [t_thread_name EXCEPT ![o] = Unknown]
      /\ UNCHANGED <<life, m_thread, m_id, m_name, pthread>>
  BY DEF Return, InClient, Tid
<1>2. \A p \in Object : p \in Tid
  BY DEF Tid
<1>3. ThreadTypeOK' /\ t_thread'[Main] = Null
  BY <1>1 DEF ThreadInv, ThreadTypeOK, Places, Tid
<1>4. \A p \in Object : Placed(p)' /\ Named(p)' /\ Joinable(p)'
  BY <1>1, <1>2 DEF ThreadInv, ThreadTypeOK, Placed, Named, Joinable, InRun, Entered
<1> QED BY <1>3, <1>4 DEF ThreadInv

\* A thread renames its own object only.
LEMMA SetNameKept ==
  ASSUME ThreadInv, NEW t \in Tid, NEW n \in Name, SetName(t, n)
  PROVE  ThreadInv'
<1>1. /\ place[t] = "callback"
      /\ m_name' = [o \in Object |-> IF o \in Renamed(t) THEN n ELSE m_name[o]]
      /\ t_thread_name' = [t_thread_name EXCEPT ![t] = n]
      /\ UNCHANGED <<life, m_thread, m_id, cb, t_thread, pthread, place>>
  BY DEF SetName, InClient
<1>2. \A o \in Object : o \in Renamed(t) <=> o = t
  <2>1. CASE t = Main
    BY <2>1, ThreadAssumption DEF ThreadInv, Renamed
  <2>2. CASE t \in Object
    <3>1. t_thread[t] = t /\ t # Null
      BY <1>1, <2>2, ThreadAssumption DEF ThreadInv, Placed, Entered, Tid
    <3> QED BY <3>1 DEF Renamed
  <2> QED BY <2>1, <2>2 DEF Tid
<1>3. ThreadTypeOK' /\ t_thread'[Main] = Null
  BY <1>1 DEF ThreadInv, ThreadTypeOK
<1>4. \A o \in Object : o \in Tid
  BY DEF Tid
<1>5. \A o \in Object : Placed(o)' /\ Named(o)' /\ Joinable(o)'
  BY <1>1, <1>2, <1>4 DEF ThreadInv, ThreadTypeOK, Placed, Named, Joinable
<1> QED BY <1>3, <1>5 DEF ThreadInv

LEMMA JoinReturnsKept ==
  ASSUME ThreadInv, NEW t \in Tid, JoinReturns(t)
  PROVE  ThreadInv'
<1>1. PICK o \in Object :
        /\ pthread' = [pthread EXCEPT ![o] = "joined"]
        /\ m_thread' = [m_thread EXCEPT ![o] = FALSE]
        /\ UNCHANGED <<life, m_id, m_name, cb, t_thread, t_thread_name, place>>
  BY DEF JoinReturns, localVars
<1>2. ThreadTypeOK'
  BY <1>1 DEF ThreadInv, ThreadTypeOK
<1>3. \A p \in Object : Placed(p)' /\ Named(p)' /\ Joinable(p)'
  BY <1>1 DEF ThreadInv, ThreadTypeOK, Placed, Named, Joinable
<1> QED BY <1>1, <1>2, <1>3 DEF ThreadInv

LEMMA DestroyKept ==
  ASSUME ThreadInv, NEW t \in Tid, NEW o \in Object, Destroy(t, o)
  PROVE  ThreadInv'
<1>1. /\ life[o] = "alive" /\ life' = [life EXCEPT ![o] = "destroyed"]
      /\ pthread' = [pthread EXCEPT ![o] = IF m_thread[o] THEN "detached" ELSE @]
      /\ m_thread' = [m_thread EXCEPT ![o] = FALSE]
      /\ m_id' = [m_id EXCEPT ![o] = FALSE]
      /\ m_name' = [m_name EXCEPT ![o] = Unknown]
      /\ UNCHANGED <<cb, t_thread, t_thread_name, place>>
  BY DEF Destroy, Owns, localVars
<1>2. ThreadTypeOK'
  BY <1>1 DEF ThreadInv, ThreadTypeOK
<1>3. \A p \in Object : Placed(p)' /\ Named(p)' /\ Joinable(p)'
  BY <1>1 DEF ThreadInv, ThreadTypeOK, Placed, Named, Joinable
<1> QED BY <1>1, <1>2, <1>3 DEF ThreadInv

LEMMA ThreadKept == ThreadInv /\ [Next]_vars => ThreadInv'
<1> SUFFICES ASSUME ThreadInv, [Next]_vars PROVE ThreadInv'
  OBVIOUS
<1>1. ASSUME UNCHANGED threadVars
      PROVE  ThreadInv'
  BY <1>1 DEF ThreadInv, ThreadTypeOK, Placed, Named, Joinable, threadVars, objectVars, localVars
<1>2. ASSUME NEW t \in Tid, NEW o \in Object, Join(t, o)
      PROVE  ThreadInv'
  BY <1>2 DEF Join, ThreadInv, ThreadTypeOK, Placed, Named, Joinable, objectVars, localVars
<1>3. ASSUME NEW t \in Tid, UseThreads(t)
      PROVE  ThreadInv'
  BY <1>1, <1>2, <1>3, NewKept, DestroyKept, SetNameKept, ReturnKept DEF UseThreads, NewFails
<1>4. ASSUME NEW t \in Tid, Step(t)
      PROVE  ThreadInv'
  BY <1>1, <1>3, <1>4, JoinReturnsKept, RunKept DEF Step
<1> QED
  BY <1>1, <1>4 DEF Next, vars

(***************************************************************************)
(* In any program, whatever liberties its client code takes: the place of  *)
(* a Thread's thread in run tells what its object holds, and an object     *)
(* with a pthread to join has one that nobody has joined or detached.      *)
(***************************************************************************)
THEOREM ThreadInductive == Spec => []ThreadInv
<1>1. Init => ThreadInv
  <2> SUFFICES ASSUME Init PROVE ThreadInv
    OBVIOUS
  <2>1. \A o \in Object : o \in Tid /\ o # Main
    BY ThreadAssumption DEF Tid
  <2>2. Main \in Tid
    BY DEF Tid
  <2>3. ThreadTypeOK
    BY DEF Init, ThreadInit, ThreadTypeOK, Places
  <2> QED
    BY <2>1, <2>2, <2>3
    DEF Init, ThreadInit, ThreadInv, Placed, Named, Joinable, InRun, Entered
<1> QED
  BY <1>1, ThreadKept, PTL DEF Spec

(***************************************************************************)
(* Thread::GetName() in a thread's callback is its object's name, as long  *)
(* as there is the object, which then knows its thread's id: whatever the  *)
(* client destroys or renames.                                             *)
(***************************************************************************)
THEOREM NamesAlwaysAgree == Spec => []NamesAgree
<1>1. ThreadInv => NamesAgree
  BY DEF ThreadInv, Named, NamesAgree, Entered
<1> QED BY <1>1, ThreadInductive, PTL

\* A step of a client that takes no liberties is not a fault.
LEMMA FaultKept ==
  ASSUME Liberty = {}, ThreadInv, FaultInv, [Next]_vars
  PROVE  FaultInv'
<1>1. ASSUME UNCHANGED threadVars
      PROVE  FaultInv'
  BY <1>1 DEF FaultInv, threadVars, objectVars
<1>2. \A o \in Object : o \in Tid
  BY DEF Tid
<1>3. ASSUME NEW t \in Tid, NEW o \in Object, NEW n \in Name \cup {Empty}, New(t, o, n)
      PROVE  FaultInv'
  BY <1>2, <1>3 DEF New, FaultInv, ThreadInv, ThreadTypeOK
<1>4. ASSUME NEW o \in Object, Run(o)
      PROVE  FaultInv'
  <2>1. place[o] \in InRun /\ fault' = Use(o) /\ UNCHANGED life
    BY <1>4 DEF Run, RunEnter, RunIdentify, RunCallback, InRun, objectVars
  <2>2. \A p \in Object : place'[p] \in InRun => place[p] \in InRun
    BY <1>2, <1>4 DEF Run, RunEnter, RunIdentify, RunCallback, InRun, ThreadInv, ThreadTypeOK
  <2> QED BY <2>1, <2>2 DEF FaultInv, Use
<1>5. ASSUME NEW o \in Tid, Return(o)
      PROVE  FaultInv'
  <2>1. o \in Object /\ place[o] = "callback" /\ cb[o] # "object"
    BY <1>5 DEF Return, InClient, Tid, ThreadInv, Placed, InRun
  <2> QED BY <1>2, <1>5, <2>1 DEF Return, FaultInv, ThreadInv, ThreadTypeOK, InRun
<1>6. ASSUME NEW t \in Tid, NEW n \in Name, SetName(t, n)
      PROVE  FaultInv'
  <2>1. \A o \in Object : o \in Renamed(t) => life[o] = "alive"
    BY <1>6 DEF SetName
  <2>2. Renamed(t) \subseteq Object
    BY DEF Renamed, ThreadInv, ThreadTypeOK
  <2> QED BY <1>6, <2>1, <2>2 DEF SetName, FaultInv
<1>7. ASSUME NEW t \in Tid, NEW o \in Object, Join(t, o)
      PROVE  FaultInv'
  BY <1>7 DEF Join, FaultInv, objectVars
<1>8. ASSUME NEW t \in Tid, NEW o \in Object, Destroy(t, o)
      PROVE  FaultInv'
  <2>1. place[o] \in {"callback", "ended"} /\ (m_thread[o] => pthread[o] = "joinable")
    BY <1>8 DEF Destroy, ThreadInv, Joinable
  <2> QED BY <1>8, <2>1 DEF Destroy, FaultInv, ThreadInv, ThreadTypeOK, InRun
<1>9. ASSUME NEW t \in Tid, JoinReturns(t)
      PROVE  FaultInv'
  BY <1>9 DEF JoinReturns, FaultInv
<1>10. ASSUME NEW t \in Tid, Step(t)
       PROVE  FaultInv'
  BY <1>1, <1>3, <1>4, <1>5, <1>6, <1>7, <1>8, <1>9, <1>10 DEF Step, UseThreads, NewFails
<1> QED
  BY <1>1, <1>10 DEF Next, vars

(***************************************************************************)
(* A client that waits for a callback to have begun before it destroys the *)
(* Thread: run never uses an object there is no more, joined or not, and   *)
(* the destructor never detaches a pthread that has been joined.           *)
(***************************************************************************)
THEOREM NoFaultEver ==
  ASSUME Liberty = {}
  PROVE  Spec => []NoFault
<1>1. Init => FaultInv
  <2>1. \A o \in Object : o \in Tid /\ o # Main
    BY ThreadAssumption DEF Tid
  <2> QED BY <2>1 DEF Init, ThreadInit, FaultInv, InRun
<1>2. ThreadInv /\ FaultInv /\ [Next]_vars => FaultInv'
  BY FaultKept
<1>3. FaultInv => NoFault
  BY DEF FaultInv, NoFault
<1> QED
  BY <1>1, <1>2, <1>3, ThreadInductive, PTL DEF Spec

-----------------------------------------------------------------------------
(***************************************************************************)
(* init.  Upto is what the arguments before the n-th mean, an option at    *)
(* n - 1 left out: its value is not known yet.                             *)
(***************************************************************************)
IsArgs(f) == f = [x \in DOMAIN f |-> f[x]] /\ DOMAIN f \subseteq Key

Seen(args, n, k) == {j \in DOMAIN args : args[j] = k /\ j + 1 < n}

Upto(args, base, n) ==
  [k \in DOMAIN base \cup {x \in Key : Seen(args, n, x) # {}} |->
     IF Seen(args, n, k) = {} THEN base[k] ELSE ValueAt(args, Max(Seen(args, n, k)))]

\* The option before the n-th argument, if that is one.
Waiting(args, n) == IF n > 1 /\ args[n - 1] \in Key THEN args[n - 1] ELSE NoKey

Parsing ==
  /\ argv \in Seq(Argument) /\ i \in 1 .. Len(argv) + 1
  /\ \A j \in 1 .. i - 1 : j \notin Invalid(argv)
  /\ now_key = Waiting(argv, i)
  /\ alone[Initer] => m_args = Upto(argv, before, i)
  /\ adding[Initer] = << >>

ArgsInv ==
  /\ IsArgs(m_args) /\ IsArgs(before)
  /\ alone \in [Caller -> BOOLEAN] /\ DOMAIN adding = Caller
  /\ result = "parsing" => Parsing

LEMMA PutIsArgs ==
  ASSUME NEW f, IsArgs(f), NEW k \in Key, NEW w
  PROVE  IsArgs(Put(f, k, w))
BY DEF IsArgs, Put

\* Before the first argument nothing is parsed.
LEMMA UptoFirst ==
  ASSUME NEW args \in Seq(Argument), NEW base, IsArgs(base)
  PROVE  Upto(args, base, 1) = base
<1>1. \A k : Seen(args, 1, k) = {}
  BY DEF Seen
<1> QED
  BY <1>1 DEF Upto, IsArgs

\* An argument that is no option adds nothing when the next one is looked at.
LEMMA UptoNoOption ==
  ASSUME NEW args \in Seq(Argument), NEW base, IsArgs(base), NEW n \in 1 .. Len(args) + 1,
         Waiting(args, n) = NoKey
  PROVE  Upto(args, base, n + 1) = Upto(args, base, n)
<1>1. n = 1 \/ args[n - 1] \notin Key
  BY EnvAssumption DEF Waiting
<1>2. DOMAIN args = 1 .. Len(args) /\ Len(args) \in Nat
  OBVIOUS
<1>3. \A k \in Key : Seen(args, n + 1, k) = Seen(args, n, k)
  BY <1>1, <1>2 DEF Seen
<1>4. {x \in Key : Seen(args, n + 1, x) # {}} = {x \in Key : Seen(args, n, x) # {}}
  BY <1>3
<1>5. \A k \in DOMAIN base \cup {x \in Key : Seen(args, n, x) # {}} :
        Seen(args, n + 1, k) = Seen(args, n, k)
  BY <1>3 DEF IsArgs
<1> QED
  BY <1>4, <1>5 DEF Upto

\* An option that the next argument is looked at after gets its value.
LEMMA UptoOption ==
  ASSUME NEW args \in Seq(Argument), NEW base, IsArgs(base), NEW n \in 1 .. Len(args) + 1,
         Waiting(args, n) # NoKey
  PROVE  Upto(args, base, n + 1) = Put(Upto(args, base, n), Waiting(args, n), ValueAt(args, n - 1))
<1> DEFINE key == Waiting(args, n)
<1>1. n > 1 /\ key = args[n - 1] /\ key \in Key
  BY DEF Waiting
<1>2. DOMAIN args = 1 .. Len(args) /\ Len(args) \in Nat
  OBVIOUS
<1> HIDE DEF key
<1>3. \A k \in Key \ {key} : Seen(args, n + 1, k) = Seen(args, n, k)
  BY <1>1, <1>2 DEF Seen
<1>4. n - 1 \in Seen(args, n + 1, key) /\ \A j \in Seen(args, n + 1, key) : j \in Int /\ n - 1 >= j
  BY <1>1, <1>2 DEF Seen
<1>5. Max(Seen(args, n + 1, key)) = n - 1
  BY <1>4 DEF Max
<1>6. {x \in Key : Seen(args, n + 1, x) # {}} = {x \in Key : Seen(args, n, x) # {}} \cup {key}
  BY <1>1, <1>3, <1>4
<1> DEFINE D == DOMAIN base \cup {x \in Key : Seen(args, n, x) # {}}
<1>7. D \subseteq Key
  BY DEF IsArgs
<1>8. DOMAIN Upto(args, base, n) = D
  BY DEF Upto
<1>9. \A k \in D \cup {key} :
        (IF Seen(args, n + 1, k) = {} THEN base[k] ELSE ValueAt(args, Max(Seen(args, n + 1, k))))
        = IF k = key THEN ValueAt(args, n - 1) ELSE Upto(args, base, n)[k]
  <2> SUFFICES ASSUME NEW k \in D \cup {key}
               PROVE  (IF Seen(args, n + 1, k) = {} THEN base[k]
                       ELSE ValueAt(args, Max(Seen(args, n + 1, k))))
                      = IF k = key THEN ValueAt(args, n - 1) ELSE Upto(args, base, n)[k]
    OBVIOUS
  <2>1. CASE k = key
    BY <1>4, <1>5, <2>1
  <2>2. CASE k # key
    <3>1. k \in D /\ Seen(args, n + 1, k) = Seen(args, n, k)
      BY <1>3, <1>7, <2>2
    <3>2. Upto(args, base, n)[k] =
            IF Seen(args, n, k) = {} THEN base[k] ELSE ValueAt(args, Max(Seen(args, n, k)))
      BY <3>1 DEF Upto
    <3> QED BY <2>2, <3>1, <3>2
  <2> QED BY <2>1, <2>2
<1>10. Upto(args, base, n + 1) =
         [k \in D \cup {key} |-> IF Seen(args, n + 1, k) = {} THEN base[k]
                                ELSE ValueAt(args, Max(Seen(args, n + 1, k)))]
  BY <1>6 DEF Upto
<1>11. Put(Upto(args, base, n), key, ValueAt(args, n - 1)) =
         [k \in D \cup {key} |-> IF k = key THEN ValueAt(args, n - 1) ELSE Upto(args, base, n)[k]]
  BY <1>8 DEF Put
<1> QED
  BY <1>9, <1>10, <1>11 DEF key

(***************************************************************************)
(* What the command line means is what precedes its first invalid          *)
(* argument, or all of it.                                                 *)
(***************************************************************************)
LEMMA MeaningIsUpto ==
  ASSUME NEW args \in Seq(Argument), NEW base, NEW n \in 1 .. Len(args) + 2,
         \A j \in Invalid(args) : j >= n,
         n \in Invalid(args) \/ (n = Len(args) + 2 /\ Invalid(args) = {})
  PROVE  Meaning(args, base) = Upto(args, base, n)
<1>1. DOMAIN args = 1 .. Len(args) /\ Len(args) \in Nat
  OBVIOUS
<1>2. Invalid(args) \subseteq DOMAIN args
  BY DEF Invalid
<1>3. \A k : Given(args, k) = Seen(args, n, k)
  BY <1>1, <1>2 DEF Given, Seen
<1> QED
  BY <1>3 DEF Meaning, Upto

(***************************************************************************)
(* One turn of init's loop.                                                *)
(***************************************************************************)
LEMMA OptionParsed ==
  ASSUME ArgsInv, InitOption
  PROVE  ArgsInv'
<1>1. /\ result = "parsing" /\ i \in DOMAIN argv /\ argv[i] \in Key
      /\ m_args' = Valueless(m_args, now_key)
      /\ now_key' = argv[i] /\ i' = i + 1
      /\ UNCHANGED <<argv, result, adding, before, alone>>
  BY DEF InitOption, Turn, history
<1>2. Parsing /\ IsArgs(before) /\ IsArgs(m_args)
  BY <1>1 DEF ArgsInv
<1>3. /\ argv \in Seq(Argument) /\ Len(argv) \in Nat /\ DOMAIN argv = 1 .. Len(argv)
      /\ i \in 1 .. Len(argv)
  BY <1>1, <1>2 DEF Parsing
<1>4. i \notin Invalid(argv)
  BY <1>1, EnvAssumption DEF Invalid
<1>5. \A j \in 1 .. i' - 1 : j \notin Invalid(argv')
  <2>1. \A j \in 1 .. i' - 1 : j \in 1 .. i - 1 \/ j = i
    BY <1>1, <1>3
  <2> QED BY <1>1, <1>2, <1>4, <2>1 DEF Parsing
<1>6. now_key' = Waiting(argv', i')
  BY <1>1, <1>3 DEF Waiting
<1>7. m_args' = IF now_key = NoKey THEN m_args ELSE Put(m_args, now_key, Blank)
  BY <1>1 DEF Valueless
<1>8. now_key # NoKey => now_key \in Key
  BY <1>2 DEF Parsing, Waiting
<1>9. IsArgs(m_args')
  BY <1>2, <1>7, <1>8, PutIsArgs
<1>10. ASSUME alone[Initer]
       PROVE  m_args' = Upto(argv, before, i + 1)
  <2>1. m_args = Upto(argv, before, i) /\ now_key = Waiting(argv, i)
    BY <1>2, <1>10 DEF Parsing
  <2>2. ValueAt(argv, i - 1) = Blank
    BY <1>1, <1>3, EnvAssumption DEF ValueAt
  <2> QED BY <1>2, <1>3, <1>7, <2>1, <2>2, UptoOption, UptoNoOption
<1>11. Parsing'
  BY <1>1, <1>2, <1>3, <1>5, <1>6, <1>10 DEF Parsing
<1>12. IsArgs(before')
  BY <1>1, <1>2 DEF IsArgs
<1> QED
  BY <1>1, <1>9, <1>11, <1>12 DEF ArgsInv

LEMMA ValueParsed ==
  ASSUME ArgsInv, InitValue
  PROVE  ArgsInv'
<1>1. /\ result = "parsing" /\ i \in DOMAIN argv /\ argv[i] \in Word /\ now_key # NoKey
      /\ m_args' = Put(m_args, now_key, argv[i])
      /\ now_key' = NoKey /\ i' = i + 1
      /\ UNCHANGED <<argv, result, adding, before, alone>>
  BY DEF InitValue, Turn, history
<1>2. Parsing /\ IsArgs(before) /\ IsArgs(m_args)
  BY <1>1 DEF ArgsInv
<1>3. /\ argv \in Seq(Argument) /\ Len(argv) \in Nat /\ DOMAIN argv = 1 .. Len(argv)
      /\ i \in 1 .. Len(argv)
  BY <1>1, <1>2 DEF Parsing
<1>4. now_key = argv[i - 1] /\ now_key \in Key /\ i > 1
  BY <1>1, <1>2 DEF Parsing, Waiting
<1>5. i \notin Invalid(argv)
  BY <1>1, <1>4, EnvAssumption DEF Invalid
<1>6. \A j \in 1 .. i' - 1 : j \notin Invalid(argv')
  <2>1. \A j \in 1 .. i' - 1 : j \in 1 .. i - 1 \/ j = i
    BY <1>1, <1>3
  <2> QED BY <1>1, <1>2, <1>5, <2>1 DEF Parsing
<1>7. now_key' = Waiting(argv', i')
  BY <1>1, <1>3, EnvAssumption DEF Waiting
<1>8. IsArgs(m_args')
  BY <1>1, <1>2, <1>4, PutIsArgs
<1>9. ASSUME alone[Initer]
      PROVE  m_args' = Upto(argv, before, i + 1)
  <2>1. m_args = Upto(argv, before, i) /\ now_key = Waiting(argv, i)
    BY <1>2, <1>9 DEF Parsing
  <2>2. ValueAt(argv, i - 1) = argv[i]
    BY <1>1, <1>3 DEF ValueAt
  <2> QED BY <1>1, <1>2, <1>3, <2>1, <2>2, UptoOption
<1>10. Parsing'
  BY <1>1, <1>2, <1>3, <1>6, <1>7, <1>9 DEF Parsing
<1>11. IsArgs(before')
  BY <1>1, <1>2 DEF IsArgs
<1> QED
  BY <1>1, <1>8, <1>10, <1>11 DEF ArgsInv

\* The ways init ends: what it has parsed is what the command line means.
LEMMA InvalidParsed ==
  ASSUME ArgsInv, InitInvalid
  PROVE  /\ Invalid(argv) # {} /\ result' = "false"
         /\ alone[Initer] => m_args' = Meaning(argv, before)
<1>1. /\ result = "parsing" /\ i \in DOMAIN argv
      /\ argv[i] = Bare \/ (argv[i] \in Word /\ now_key = NoKey)
      /\ result' = "false" /\ m_args' = m_args
  BY DEF InitInvalid, InitOver, Turn
<1>2. Parsing
  BY <1>1 DEF ArgsInv
<1>3. /\ argv \in Seq(Argument) /\ Len(argv) \in Nat /\ DOMAIN argv = 1 .. Len(argv)
      /\ i \in 1 .. Len(argv)
  BY <1>1, <1>2 DEF Parsing
<1>4. now_key = NoKey => ~(i > 1 /\ argv[i - 1] \in Key)
  BY <1>2, EnvAssumption DEF Parsing, Waiting
<1>5. i \in Invalid(argv)
  BY <1>1, <1>4 DEF Invalid
<1>6. \A j \in Invalid(argv) : j >= i
  <2>1. \A j \in Invalid(argv) : j \in 1 .. Len(argv) /\ j \notin 1 .. i - 1
    BY <1>2, <1>3 DEF Invalid, Parsing
  <2> QED BY <1>3, <2>1
<1>7. Meaning(argv, before) = Upto(argv, before, i)
  <2>1. i \in 1 .. Len(argv) + 2
    BY <1>3
  <2> QED BY <1>3, <1>5, <1>6, <2>1, MeaningIsUpto
<1> QED
  BY <1>1, <1>2, <1>5, <1>7 DEF Parsing

LEMMA AllParsed ==
  ASSUME ArgsInv, InitReturns
  PROVE  /\ Invalid(argv) = {} /\ result' = "true" /\ IsArgs(m_args')
         /\ alone[Initer] => m_args' = Meaning(argv, before)
<1>1. /\ result = "parsing" /\ i \notin DOMAIN argv
      /\ m_args' = Valueless(m_args, now_key) /\ result' = "true"
  BY DEF InitReturns, InitOver
<1>2. Parsing /\ IsArgs(before) /\ IsArgs(m_args)
  BY <1>1 DEF ArgsInv
<1>3. /\ argv \in Seq(Argument) /\ Len(argv) \in Nat /\ DOMAIN argv = 1 .. Len(argv)
      /\ i = Len(argv) + 1
  BY <1>1, <1>2 DEF Parsing
<1>4. Invalid(argv) = {}
  <2>1. \A j \in Invalid(argv) : j \in 1 .. Len(argv) /\ j \notin 1 .. i - 1
    BY <1>2, <1>3 DEF Invalid, Parsing
  <2> QED BY <1>3, <2>1
<1>5. m_args' = IF now_key = NoKey THEN m_args ELSE Put(m_args, now_key, Blank)
  BY <1>1 DEF Valueless
<1>6. now_key # NoKey => now_key \in Key
  BY <1>2 DEF Parsing, Waiting
<1>7. IsArgs(m_args')
  BY <1>2, <1>5, <1>6, PutIsArgs
<1>8. ASSUME alone[Initer]
      PROVE  m_args' = Meaning(argv, before)
  <2>1. m_args = Upto(argv, before, i) /\ now_key = Waiting(argv, i)
    BY <1>2, <1>8 DEF Parsing
  <2>2. ValueAt(argv, i - 1) = Blank
    BY <1>3 DEF ValueAt
  <2>3. m_args' = Upto(argv, before, i + 1)
    BY <1>2, <1>3, <1>5, <2>1, <2>2, UptoOption, UptoNoOption
  <2>4. Meaning(argv, before) = Upto(argv, before, i + 1)
    <3>1. i + 1 \in 1 .. Len(argv) + 2 /\ i + 1 = Len(argv) + 2
      BY <1>3
    <3> QED BY <1>3, <1>4, <3>1, MeaningIsUpto
  <2> QED BY <2>3, <2>4
<1> QED
  BY <1>1, <1>4, <1>7, <1>8

\* Those who add and delete arguments meanwhile do not leave init alone.
LEMMA OthersParse ==
  ASSUME ArgsInv, NEW t \in Caller,
         \/ t = Initer /\ InitCall
         \/ \E k \in Key, v \in Word : Add(t, k, v)
         \/ \E k \in Key : Del(t, k)
         \/ \E k \in HelpKey : RemoveHelp(t, k)
         \/ \E k \in HelpKey, d \in Desc : AddHelp(t, k, d)
         \/ AddHelpAppends(t)
  PROVE  ArgsInv' /\ (result = "parsing" => result' = "parsing")
<1>1. CASE InitCall
  <2>1. /\ ~Calling(Initer) /\ result = "not called" /\ argv' \in CommandLine
        /\ result' = "parsing" /\ i' = 1 /\ now_key' = NoKey
        /\ before' = m_args /\ alone' = [alone EXCEPT ![Initer] = TRUE]
        /\ UNCHANGED <<m_args, adding>>
    BY <1>1 DEF InitCall
  <2>2. argv' \in Seq(Argument) /\ Initer \in Caller
    BY <2>1, EnvAssumption
  <2>3. now_key' = Waiting(argv', i')
    <3>1. \A args : Waiting(args, 1) = NoKey
      BY DEF Waiting
    <3> QED BY <2>1, <3>1
  <2>4. m_args' = Upto(argv', before', i')
    <3>1. Upto(argv', m_args, 1) = m_args
      BY <2>2, UptoFirst DEF ArgsInv
    <3> QED BY <2>1, <3>1
  <2>5. adding'[Initer] = << >>
    BY <2>1 DEF Calling
  <2>6. i' \in 1 .. Len(argv') + 1 /\ \A j \in 1 .. i' - 1 : j \notin Invalid(argv')
    <3>1. Len(argv') \in Nat
      BY <2>2
    <3>2. i' = 1
      BY <2>1
    <3> QED BY <3>1, <3>2
  <2>7. Parsing'
    BY <2>2, <2>3, <2>4, <2>5, <2>6 DEF Parsing
  <2>8. IsArgs(m_args') /\ IsArgs(before')
    BY <2>1 DEF ArgsInv, IsArgs
  <2> QED BY <2>1, <2>7, <2>8 DEF ArgsInv
<1>2. CASE (\E k \in Key, v \in Word : Add(t, k, v)) \/ (\E k \in Key : Del(t, k))
  <2>1. /\ alone' = [alone EXCEPT ![Initer] = result # "parsing" /\ @]
        /\ UNCHANGED <<argv, i, now_key, result, adding, before>>
    BY <1>2 DEF Add, Del, ArgsChanged, parseVars
  <2>2. IsArgs(m_args')
    <3>1. CASE \E k \in Key, v \in Word : Add(t, k, v)
      BY <3>1, PutIsArgs DEF Add, ArgsInv
    <3>2. CASE \E k \in Key : Del(t, k)
      BY <3>2 DEF Del, ArgsInv, IsArgs
    <3> QED BY <1>2, <3>1, <3>2
  <2>3. Initer \in Caller
    BY EnvAssumption
  <2>4. alone' \in [Caller -> BOOLEAN] /\ (result = "parsing" => ~alone'[Initer])
    BY <2>1, <2>3 DEF ArgsInv
  <2>5. result = "parsing" => Parsing'
    BY <2>1, <2>4 DEF ArgsInv, Parsing, Invalid, Waiting
  <2> QED BY <2>1, <2>2, <2>4, <2>5 DEF ArgsInv, IsArgs
<1>3. CASE \E k \in HelpKey : RemoveHelp(t, k)
  BY <1>3 DEF RemoveHelp, ArgsInv, IsArgs, Parsing, Upto, Seen, ValueAt, Invalid, Waiting,
     parseVars, history
<1>4. CASE \E k \in HelpKey, d \in Desc : AddHelp(t, k, d)
  <2>1. PICK k \in HelpKey, d \in Desc : AddHelp(t, k, d)
    BY <1>4
  <2>2. /\ ~Calling(t)
        /\ adding' = [adding EXCEPT ![t] = [key |-> k, desc |-> d]]
        /\ alone' = [alone EXCEPT ![t] = TRUE]
        /\ UNCHANGED <<m_args, argv, i, now_key, result, before>>
    BY <2>1 DEF AddHelp, parseVars
  <2>3. result = "parsing" => t # Initer
    BY <2>2 DEF Calling
  <2>4. result = "parsing" => alone'[Initer] = alone[Initer] /\ adding'[Initer] = adding[Initer]
    BY <2>2, <2>3, EnvAssumption DEF ArgsInv
  <2>5. result = "parsing" => Parsing'
    BY <2>2, <2>4 DEF ArgsInv, Parsing
  <2>6. alone' \in [Caller -> BOOLEAN] /\ DOMAIN adding' = Caller
    BY <2>2 DEF ArgsInv
  <2> QED BY <2>2, <2>5, <2>6 DEF ArgsInv, IsArgs
<1>5. CASE AddHelpAppends(t)
  <2>1. /\ adding[t] # << >> /\ adding' = [adding EXCEPT ![t] = << >>]
        /\ alone' = [u \in Caller |->
             u = t \/ (alone[u] /\ ~(adding[u] # << >> /\ adding[u].key = adding[t].key))]
        /\ UNCHANGED <<m_args, argv, i, now_key, result, before>>
    BY <1>5 DEF AddHelpAppends, parseVars
  <2>2. result = "parsing" => adding[Initer] = << >>
    BY DEF ArgsInv, Parsing
  <2>3. result = "parsing" => (alone'[Initer] => alone[Initer]) /\ adding'[Initer] = << >>
    BY <2>1, <2>2, EnvAssumption DEF ArgsInv
  <2>4. result = "parsing" => Parsing'
    BY <2>1, <2>3 DEF ArgsInv, Parsing
  <2>5. alone' \in [Caller -> BOOLEAN] /\ DOMAIN adding' = Caller
    BY <2>1 DEF ArgsInv
  <2> QED BY <2>1, <2>4, <2>5 DEF ArgsInv, IsArgs
<1> QED
  BY <1>1, <1>2, <1>3, <1>4, <1>5

\* The histories of the call are forgotten when init returns.
LEMMA OverKept ==
  ASSUME ArgsInv, IsArgs(m_args'), NEW r \in {"false", "true"}, InitOver(r)
  PROVE  ArgsInv'
<1>1. /\ result' = r /\ before' = << >> /\ adding' = adding
      /\ alone' = [alone EXCEPT ![Initer] = TRUE]
  BY DEF InitOver
<1>2. IsArgs(before')
  <2>1. << >> = [x \in {} |-> x]
    OBVIOUS
  <2> QED BY <1>1, <2>1 DEF IsArgs
<1> QED
  BY <1>1, <1>2 DEF ArgsInv

LEMMA EnvStep ==
  ASSUME ArgsInv, NEW t \in Caller, UseEnv(t) \/ InEnv(t)
  PROVE  /\ ArgsInv'
         /\ result = "parsing" /\ result' # "parsing" => InitInvalid \/ InitReturns
<1>1. CASE UseEnv(t)
  BY <1>1, OthersParse DEF UseEnv
<1>2. CASE AddHelpAppends(t)
  BY <1>2, OthersParse
<1>3. CASE InitOption
  BY <1>3, OptionParsed DEF InitOption
<1>4. CASE InitValue
  BY <1>4, ValueParsed DEF InitValue
<1>5. CASE InitInvalid
  <2>1. IsArgs(m_args')
    BY <1>5 DEF InitInvalid, ArgsInv, IsArgs
  <2>2. InitOver("false")
    BY <1>5 DEF InitInvalid
  <2> QED BY <1>5, <2>1, <2>2, OverKept
<1>6. CASE InitReturns
  <2>1. IsArgs(m_args')
    BY <1>6, AllParsed
  <2>2. InitOver("true")
    BY <1>6 DEF InitReturns
  <2> QED BY <1>6, <2>1, <2>2, OverKept
<1> QED
  BY <1>1, <1>2, <1>3, <1>4, <1>5, <1>6 DEF InEnv

LEMMA ArgsKept == ArgsInv /\ [Next]_vars => ArgsInv'
<1> SUFFICES ASSUME ArgsInv, [Next]_vars PROVE ArgsInv'
  OBVIOUS
<1>1. ASSUME UNCHANGED envVars
      PROVE  ArgsInv'
  BY <1>1 DEF ArgsInv, IsArgs, Parsing, Upto, Seen, ValueAt, Invalid, Waiting,
     envVars, parseVars, history
<1> QED
  BY <1>1, EnvStep DEF Next, Step, vars

(***************************************************************************)
(* Env::init turn by turn, among the calls of any other threads: the       *)
(* arguments it has parsed are what the command line before its index      *)
(* means, as long as nobody has added or deleted one meanwhile.            *)
(***************************************************************************)
THEOREM ArgsInductive == Spec => []ArgsInv
<1>1. Init => ArgsInv
  <2> SUFFICES ASSUME Init PROVE ArgsInv
    OBVIOUS
  <2>1. << >> = [x \in {} |-> x]
    OBVIOUS
  <2> QED BY <2>1 DEF Init, EnvInit, ArgsInv, IsArgs
<1> QED
  BY <1>1, ArgsKept, PTL DEF Spec

(***************************************************************************)
(* Env::init, for every command line of any length: it returns true iff    *)
(* the line is valid, and leaves the arguments there were, overridden by   *)
(* what the line means, its last option without a value included.          *)
(***************************************************************************)
THEOREM EveryLineParsed == Spec => ArgsParsed
<1> DEFINE Ended ==
      result = "parsing" /\ result' # "parsing" =>
        /\ result' = "true" <=> Invalid(argv) = {}
        /\ alone[Initer] => m_args' = Meaning(argv, before)
<1>1. ArgsInv /\ [Next]_vars => [Ended]_envVars
  <2> SUFFICES ASSUME ArgsInv, [Next]_vars, ~UNCHANGED envVars PROVE Ended
    OBVIOUS
  <2>1. PICK t \in Caller : UseEnv(t) \/ InEnv(t)
    BY DEF Next, Step, vars
  <2>2. result = "parsing" /\ result' # "parsing" => InitInvalid \/ InitReturns
    BY <2>1, EnvStep
  <2> QED BY <2>2, InvalidParsed, AllParsed
<1> HIDE DEF Ended
<1>2. Spec => [][Ended]_envVars
  BY <1>1, ArgsInductive, PTL DEF Spec
<1> QED
  BY <1>2 DEF ArgsParsed, Ended

-----------------------------------------------------------------------------
(***************************************************************************)
(* Selections.                                                             *)
(***************************************************************************)
LEMMA Least ==
  ASSUME NEW S \in SUBSET Nat, S # {}
  PROVE  \E m \in S : \A k \in S : m <= k
<1>1. PICK R : IsWellFoundedOn(R, Nat) /\ \A k, m \in Nat : k < m => <<k, m>> \in R
  <2>1. IsWellFoundedOn(OpToRel(<, Nat), Nat)
    BY NatLessThanWellFounded
  <2>2. \A k, m \in Nat : k < m => <<k, m>> \in OpToRel(<, Nat)
    BY DEF OpToRel
  <2> QED BY <2>1, <2>2, Zenon
<1>2. PICK m \in S : \A k \in S : ~(<<k, m>> \in R)
  <2>1. IsWellFoundedOn(R, Nat) /\ S \subseteq Nat
    BY <1>1
  <2> QED BY <2>1, WFMin, Zenon
<1>3. \A k \in S : m \in Nat /\ k \in Nat /\ ~(k < m)
  BY <1>1, <1>2
<1> QED BY <1>2, <1>3

\* There is a p-th position, for each p up to how many there are.
LEMMA NthIsOne ==
  ASSUME NEW len \in Nat, NEW I \in SUBSET (1 .. len), NEW p \in 1 .. Cardinality(I)
  PROVE  Nth(I, p) \in I
<1> DEFINE AtMost(m) == {l \in I : l <= m}
           Enough    == {m \in Nat : Cardinality(AtMost(m)) >= p}
<1>1. \A J \in SUBSET I : IsFiniteSet(J) /\ Cardinality(J) \in Nat
  <2>1. IsFiniteSet(1 .. len)
    BY FS_Interval
  <2> QED BY <2>1, FS_Subset, FS_CardinalityType
<1>2. \A l \in I : l \in Nat /\ l >= 1 /\ l <= len
  OBVIOUS
<1>3. p \in Nat /\ p >= 1 /\ p <= Cardinality(I)
  BY <1>1
<1>4. \A m : AtMost(m) \in SUBSET I /\ Cardinality(AtMost(m)) \in Nat
  BY <1>1
<1>5. len \in Enough
  <2>1. AtMost(len) = I
    BY <1>2
  <2> QED BY <1>3, <2>1
<1>6. PICK m \in Enough : \A k \in Enough : m <= k
  <2> HIDE DEF AtMost
  <2>1. Enough \in SUBSET Nat /\ Enough # {}
    BY <1>5
  <2> HIDE DEF Enough
  <2> QED BY <2>1, Least
<1>7. m \in Nat /\ Cardinality(AtMost(m)) >= p
  OBVIOUS
<1>8. m # 0
  <2>1. AtMost(0) = {}
    <3>1. \A l \in I : ~(l <= 0)
      BY <1>2
    <3> QED BY <3>1
  <2>2. Cardinality(AtMost(0)) = 0
    BY <2>1, FS_EmptySet
  <2> HIDE DEF AtMost
  <2> QED BY <1>3, <1>7, <2>2
<1>9. m - 1 \in Nat /\ ~(Cardinality(AtMost(m - 1)) >= p)
  <2> HIDE DEF AtMost
  <2>1. m - 1 \in Nat /\ ~(m <= m - 1)
    BY <1>7, <1>8
  <2> QED BY <1>6, <2>1
<1>10. m \in I
  <2>1. ASSUME m \notin I
        PROVE  AtMost(m) = AtMost(m - 1)
    <3>1. \A l \in I : l <= m <=> l <= m - 1
      BY <1>2, <1>7, <2>1
    <3> QED BY <3>1
  <2> QED BY <1>7, <1>9, <2>1
<1>11. Cardinality({l \in I : l < m}) = p - 1
  <2>1. {l \in I : l < m} = AtMost(m - 1)
    <3>1. \A l \in I : l < m <=> l <= m - 1
      BY <1>2, <1>7
    <3> QED BY <3>1
  <2>2. AtMost(m) = AtMost(m - 1) \cup {m} /\ m \notin AtMost(m - 1)
    <3>1. \A l \in I : l <= m <=> l <= m - 1 \/ l = m
      BY <1>2, <1>7
    <3>2. ~(m <= m - 1) /\ m <= m
      BY <1>7
    <3> QED BY <1>10, <3>1, <3>2
  <2> HIDE DEF AtMost
  <2>3. Cardinality(AtMost(m)) = Cardinality(AtMost(m - 1)) + 1
    BY <1>1, <1>4, <2>2, FS_AddElement
  <2>4. Cardinality(AtMost(m - 1)) \in Nat
    BY <1>4
  <2>5. Cardinality(AtMost(m - 1)) = p - 1
    BY <1>3, <1>7, <1>9, <2>3, <2>4
  <2> QED BY <2>1, <2>5
<1> HIDE DEF AtMost, Enough
<1> QED BY <1>10, <1>11 DEF Nth

LEMMA SelectedFrom ==
  ASSUME NEW S, NEW seq \in Seq(S), NEW I \in SUBSET (DOMAIN seq)
  PROVE  /\ Selected(seq, I) \in Seq(S)
         /\ \A p \in DOMAIN Selected(seq, I) : \E j \in I : Selected(seq, I)[p] = seq[j]
<1>1. Len(seq) \in Nat /\ I \in SUBSET (1 .. Len(seq)) /\ DOMAIN seq = 1 .. Len(seq)
  OBVIOUS
<1>2. Cardinality(I) \in Nat
  <2>1. IsFiniteSet(1 .. Len(seq))
    BY <1>1, FS_Interval
  <2> QED BY <1>1, <2>1, FS_Subset, FS_CardinalityType
<1>3. \A p \in 1 .. Cardinality(I) : Nth(I, p) \in I
  BY <1>1, NthIsOne
<1>4. DOMAIN Selected(seq, I) = 1 .. Cardinality(I)
  BY DEF Selected
<1>5. \A p \in 1 .. Cardinality(I) : Selected(seq, I)[p] = seq[Nth(I, p)]
  BY DEF Selected
<1>6. Selected(seq, I) \in Seq(S)
  <2>1. \A j \in I : seq[j] \in S
    BY <1>1
  <2> QED BY <1>2, <1>3, <2>1 DEF Selected
<1> QED BY <1>3, <1>4, <1>5, <1>6

(***************************************************************************)
(* The help entries.  Between the two critical sections of addHelp its     *)
(* key has no entry, unless another addHelp has appended one.              *)
(***************************************************************************)
HelpEntry == [key : HelpKey, desc : Desc]

HelpInv ==
  /\ m_helps \in Seq(HelpEntry)
  /\ adding \in [Caller -> HelpEntry \cup {<< >>}]
  /\ \A t \in Caller : adding[t] # << >> /\ alone[t] =>
       \A j \in DOMAIN m_helps : m_helps[j].key # adding[t].key

\* removeHelp removes the entries of the key, and adds none.
LEMMA WithoutHasNone ==
  ASSUME NEW helps \in Seq(HelpEntry), NEW k
  PROVE  /\ Without(helps, k) \in Seq(HelpEntry)
         /\ \A p \in DOMAIN Without(helps, k) :
              Without(helps, k)[p].key # k /\ \E j \in DOMAIN helps : Without(helps, k)[p] = helps[j]
<1> DEFINE I == {j \in DOMAIN helps : helps[j].key # k}
<1>1. /\ Selected(helps, I) \in Seq(HelpEntry)
      /\ \A p \in DOMAIN Selected(helps, I) : \E j \in I : Selected(helps, I)[p] = helps[j]
  <2>1. I \in SUBSET (DOMAIN helps)
    OBVIOUS
  <2> HIDE DEF I
  <2> QED BY <2>1, SelectedFrom
<1> QED BY <1>1 DEF Without

LEMMA AppendKept ==
  ASSUME ArgsInv, HelpInv, NEW t \in Caller, AddHelpAppends(t)
  PROVE  HelpInv' /\ (alone[t] => \E j \in DOMAIN m_helps' :
                        /\ m_helps'[j] = adding[t]
                        /\ \A l \in DOMAIN m_helps' : m_helps'[l].key = adding[t].key => l = j)
<1>1. /\ adding[t] # << >> /\ m_helps' = Append(m_helps, adding[t])
      /\ adding' = [adding EXCEPT ![t] = << >>]
      /\ alone' = [u \in Caller |->
           u = t \/ (alone[u] /\ ~(adding[u] # << >> /\ adding[u].key = adding[t].key))]
  BY DEF AddHelpAppends
<1>2. adding[t] \in HelpEntry
  BY <1>1 DEF HelpInv
<1>3. /\ Len(m_helps) \in Nat /\ DOMAIN m_helps = 1 .. Len(m_helps)
      /\ m_helps' \in Seq(HelpEntry) /\ DOMAIN m_helps' = 1 .. Len(m_helps) + 1
      /\ \A j \in 1 .. Len(m_helps) : m_helps'[j] = m_helps[j]
      /\ m_helps'[Len(m_helps) + 1] = adding[t]
  BY <1>1, <1>2 DEF HelpInv
<1>4. adding' \in [Caller -> HelpEntry \cup {<< >>}]
  BY <1>1 DEF HelpInv
<1>5. ASSUME NEW u \in Caller, adding'[u] # << >>, alone'[u], NEW j \in DOMAIN m_helps'
      PROVE  m_helps'[j].key # adding'[u].key
  <2>1. u # t /\ adding'[u] = adding[u]
    BY <1>1, <1>5 DEF HelpInv
  <2>2. alone[u] /\ adding[u].key # adding[t].key
    BY <1>1, <1>5, <2>1
  <2>3. j \in DOMAIN m_helps \/ j = Len(m_helps) + 1
    BY <1>3
  <2> QED BY <1>3, <1>5, <2>1, <2>2, <2>3 DEF HelpInv
<1>6. ASSUME alone[t]
      PROVE  \E j \in DOMAIN m_helps' :
               /\ m_helps'[j] = adding[t]
               /\ \A l \in DOMAIN m_helps' : m_helps'[l].key = adding[t].key => l = j
  <2>1. \A l \in DOMAIN m_helps' : m_helps'[l].key = adding[t].key => l = Len(m_helps) + 1
    BY <1>1, <1>3, <1>6 DEF HelpInv
  <2> QED BY <1>3, <2>1
<1> QED
  BY <1>3, <1>4, <1>5, <1>6 DEF HelpInv

\* removeHelp, on its own or in addHelp.
LEMMA RemovalKept ==
  ASSUME ArgsInv, HelpInv, NEW t \in Caller, NEW k \in HelpKey,
         RemoveHelp(t, k) \/ \E d \in Desc : AddHelp(t, k, d)
  PROVE  HelpInv'
<1>1. m_helps' = Without(m_helps, k) /\ m_helps \in Seq(HelpEntry)
  BY DEF RemoveHelp, AddHelp, HelpInv
<1>2. /\ m_helps' \in Seq(HelpEntry)
      /\ \A p \in DOMAIN m_helps' :
           m_helps'[p].key # k /\ \E j \in DOMAIN m_helps : m_helps'[p] = m_helps[j]
  BY <1>1, WithoutHasNone
<1>3. CASE RemoveHelp(t, k)
  <2>1. UNCHANGED <<adding, alone>>
    BY <1>3 DEF RemoveHelp, history
  <2> QED BY <1>2, <2>1 DEF HelpInv
<1>4. CASE \E d \in Desc : AddHelp(t, k, d)
  <2>1. PICK d \in Desc : AddHelp(t, k, d)
    BY <1>4
  <2>2. /\ adding' = [adding EXCEPT ![t] = [key |-> k, desc |-> d]]
        /\ alone' = [alone EXCEPT ![t] = TRUE]
    BY <2>1 DEF AddHelp
  <2>3. adding' \in [Caller -> HelpEntry \cup {<< >>}]
    BY <2>2 DEF HelpInv, HelpEntry
  <2>4. adding'[t].key = k /\ \A u \in Caller \ {t} : adding'[u] = adding[u] /\ alone'[u] = alone[u]
    BY <2>2 DEF HelpInv, ArgsInv
  <2> QED BY <1>2, <2>3, <2>4 DEF HelpInv
<1> QED BY <1>3, <1>4

LEMMA EnvHelps ==
  ASSUME ArgsInv, HelpInv, NEW t \in Caller, UseEnv(t) \/ InEnv(t)
  PROVE  HelpInv'
<1>1. CASE \E k \in HelpKey : RemoveHelp(t, k) \/ \E d \in Desc : AddHelp(t, k, d)
  BY <1>1, RemovalKept
<1>2. CASE AddHelpAppends(t)
  BY <1>2, AppendKept
<1>3. CASE \/ \E k \in Key, v \in Word : Add(t, k, v)
           \/ \E k \in Key : Del(t, k)
  <2>1. /\ UNCHANGED <<m_helps, adding>>
        /\ alone' = [alone EXCEPT ![Initer] = result # "parsing" /\ @]
    BY <1>3 DEF Add, Del, ArgsChanged
  <2>2. \A u \in Caller : alone'[u] => alone[u]
    BY <2>1 DEF ArgsInv
  <2> QED BY <2>1, <2>2 DEF HelpInv
<1>4. CASE t = Initer /\ (InitCall \/ InitOption \/ InitValue \/ InitInvalid \/ InitReturns)
  <2>1. /\ UNCHANGED <<m_helps, adding>>
        /\ alone' = alone \/ alone' = [alone EXCEPT ![Initer] = TRUE]
    BY <1>4 DEF InitCall, InitOption, InitValue, InitInvalid, InitReturns, InitOver, history
  <2>2. adding[Initer] = << >>
    BY <1>4 DEF InitCall, Calling, InitOption, InitValue, InitInvalid, InitReturns, Turn,
       ArgsInv, Parsing
  <2>3. \A u \in Caller : adding'[u] # << >> /\ alone'[u] => alone[u]
    BY <2>1, <2>2 DEF ArgsInv
  <2> QED BY <2>1, <2>3 DEF HelpInv
<1> QED
  BY <1>1, <1>2, <1>3, <1>4 DEF UseEnv, InEnv

(***************************************************************************)
(* Env::addHelp and removeHelp on any threads: while an addHelp is between *)
(* its two critical sections nobody has the key it is adding, unless       *)
(* another addHelp has appended one.                                       *)
(***************************************************************************)
THEOREM HelpInductive == Spec => [](ArgsInv /\ HelpInv)
<1>1. Init => HelpInv
  <2> SUFFICES ASSUME Init PROVE HelpInv
    OBVIOUS
  <2>1. << >> \in Seq(HelpEntry)
    OBVIOUS
  <2> QED BY <2>1 DEF Init, EnvInit, HelpInv
<1>2. ArgsInv /\ HelpInv /\ [Next]_vars => HelpInv'
  <2> SUFFICES ASSUME ArgsInv, HelpInv, [Next]_vars PROVE HelpInv'
    OBVIOUS
  <2>1. UNCHANGED envVars => HelpInv'
    BY DEF HelpInv, envVars, history
  <2> QED BY <2>1, EnvHelps DEF Next, Step, vars
<1> QED
  BY <1>1, <1>2, ArgsInductive, PTL DEF Spec

(***************************************************************************)
(* Env::addHelp replaces, for any number of entries: when it returns there *)
(* is one entry for its key, its own, unless another addHelp has appended  *)
(* one for this key meanwhile.                                             *)
(***************************************************************************)
THEOREM HelpAlwaysReplaced == Spec => HelpReplaced
<1> DEFINE A == \A t \in Caller : AddHelpAppends(t) /\ alone[t] =>
                  \E j \in DOMAIN m_helps' :
                    /\ m_helps'[j] = adding[t]
                    /\ \A l \in DOMAIN m_helps' : m_helps'[l].key = adding[t].key => l = j
<1>1. ArgsInv /\ HelpInv => A
  BY AppendKept
<1> HIDE DEF A
<1>2. Spec => [][A]_envVars
  BY <1>1, HelpInductive, PTL
<1> QED BY <1>2 DEF HelpReplaced, A
=============================================================================
