------------------------------- MODULE Thread -------------------------------
(***************************************************************************)
(* Thread of src/thread.h and src/thread.cc: an object that starts a       *)
(* pthread in its constructor, hands it a pointer to itself, joins it or   *)
(* detaches it in its destructor.                                          *)
(*                                                                         *)
(* The pthread an object starts has the object's name in the model.  Each  *)
(* object belongs to the thread that made it, as the pointers of           *)
(* test_thread.cpp do: that thread joins and destroys it, before its own   *)
(* callback returns.  pthread_join can then not fail, and a second join()  *)
(* finds m_thread zero and does nothing.                                   *)
(***************************************************************************)
EXTENDS Naturals, FiniteSets

CONSTANTS
  Object,    \* the Thread objects, and the pthreads they start
  Main,      \* the thread of main, which no object stands for
  Name,      \* names given to threads
  Empty,     \* the empty name
  Unknown,   \* "UNKONW"
  Null,      \* no object
  Liberty    \* liberties the client takes, out of Liberties

Liberties ==
  {"early",  \* it destroys an object whose thread has not begun its callback
   "rename"} \* it calls SetName in a thread whose object may be destroyed

Tid == Object \cup {Main}

ASSUME ThreadAssumption ==
  /\ Main \notin Object /\ Null \notin Tid
  /\ Empty \notin Name /\ Unknown \notin Name \cup {Empty}
  /\ Liberty \subseteq Liberties

VARIABLES
  life,           \* whether an object is unborn, alive or destroyed
  m_thread,       \* whether it has a pthread to join
  m_id,           \* whether it knows the id of its thread
  m_name,         \* its name
  cb,             \* where its callback is: in m_cb, on run's stack, or gone
  t_thread,       \* thread local: the object of the thread
  t_thread_name,  \* thread local: the name of the thread
  owner,          \* the thread an object belongs to
  pthread,        \* the system's view of a pthread
  place,          \* where a thread is
  joins,          \* the object whose join() a thread is in
  fault           \* the use of an object or of a pthread there is no more

objectVars == <<life, m_thread, m_id, m_name, cb>>
localVars  == <<t_thread, t_thread_name>>
threadVars == <<objectVars, localVars, owner, pthread, place, joins, fault>>

ThreadInit ==
  /\ life = [o \in Object |-> "unborn"]
  /\ m_thread = [o \in Object |-> FALSE]
  /\ m_id = [o \in Object |-> FALSE]
  /\ m_name = [o \in Object |-> Unknown]
  /\ cb = [o \in Object |-> "gone"]
  /\ t_thread = [t \in Tid |-> Null]
  /\ t_thread_name = [t \in Tid |-> Unknown]
  /\ owner = [o \in Object |-> Null]
  /\ pthread = [o \in Object |-> "none"]
  /\ place = [t \in Tid |-> IF t = Main THEN "callback" ELSE "unborn"]
  /\ joins = [t \in Tid |-> Null]
  /\ fault = "none"

-----------------------------------------------------------------------------
\* The thread executes the client's code.
InClient(t) == place[t] = "callback" /\ joins[t] = Null

\* What using the object o does to the program.
Use(o) == IF life[o] = "destroyed" THEN "destroyed object used" ELSE fault

\* The name of a Thread that is called n.
Called(n) == IF n = Empty THEN Unknown ELSE n

\* run moves the callback to its own stack before it calls it.
Swapped_Not == "object"
Swapped     == "stack"

\* Whose name SetName changes.
Renamed_Own(t) == {}
Renamed(t)     == IF t_thread[t] = Null THEN {} ELSE {t_thread[t]}

(***************************************************************************)
(* The constructor; pthread_create may fail, and then the object never     *)
(* comes to be: the constructor throws.                                    *)
(***************************************************************************)
New(t, o, n) ==
  /\ InClient(t) /\ life[o] = "unborn"
  /\ life' = [life EXCEPT ![o] = "alive"]
  /\ m_thread' = [m_thread EXCEPT ![o] = TRUE]
  /\ m_name' = [m_name EXCEPT ![o] = Called(n)]
  /\ cb' = [cb EXCEPT ![o] = "object"]
  /\ owner' = [owner EXCEPT ![o] = t]
  /\ pthread' = [pthread EXCEPT ![o] = "joinable"]
  /\ place' = [place EXCEPT ![o] = "created"]
  /\ UNCHANGED <<m_id, localVars, joins, fault>>

NewFails(t, o) == InClient(t) /\ life[o] = "unborn" /\ UNCHANGED threadVars

(***************************************************************************)
(* run: three stretches that use the object, then the callback.            *)
(***************************************************************************)
RunEnter(o) ==
  /\ place[o] = "created"
  /\ place' = [place EXCEPT ![o] = "entered"]
  /\ t_thread' = [t_thread EXCEPT ![o] = o]
  /\ t_thread_name' = [t_thread_name EXCEPT ![o] = m_name[o]]
  /\ fault' = Use(o)
  /\ UNCHANGED <<objectVars, owner, pthread, joins>>

RunIdentify(o) ==
  /\ place[o] = "entered"
  /\ place' = [place EXCEPT ![o] = "identified"]
  /\ m_id' = [m_id EXCEPT ![o] = TRUE]
  /\ fault' = Use(o)
  /\ UNCHANGED <<life, m_thread, m_name, cb, localVars, owner, pthread, joins>>

RunCallback(o) ==
  /\ place[o] = "identified"
  /\ place' = [place EXCEPT ![o] = "callback"]
  /\ cb' = [cb EXCEPT ![o] = Swapped]
  /\ fault' = Use(o)
  /\ UNCHANGED <<life, m_thread, m_id, m_name, localVars, owner, pthread, joins>>

\* The callback returns, its locals and with them the objects it owned gone,
\* and the thread ends, and with it the variables local to it.
Return(o) ==
  /\ InClient(o) /\ o # Main
  /\ \A p \in Object : owner[p] = o => life[p] = "destroyed"
  /\ place' = [place EXCEPT ![o] = "ended"]
  /\ fault' = IF cb[o] = "object" THEN Use(o) ELSE fault
  /\ cb' = [cb EXCEPT ![o] = "gone"]
  /\ t_thread' = [t_thread EXCEPT ![o] = Null]
  /\ t_thread_name' = [t_thread_name EXCEPT ![o] = Unknown]
  /\ UNCHANGED <<life, m_thread, m_id, m_name, owner, pthread, joins>>

(***************************************************************************)
(* Thread::SetName.                                                        *)
(***************************************************************************)
SetName(t, n) ==
  /\ InClient(t) /\ n # Empty
  /\ "rename" \in Liberty \/ \A o \in Renamed(t) : life[o] = "alive"
  /\ m_name' = [o \in Object |-> IF o \in Renamed(t) THEN n ELSE m_name[o]]
  /\ t_thread_name' = [t_thread_name EXCEPT ![t] = n]
  /\ fault' = IF \E o \in Renamed(t) : life[o] = "destroyed"
              THEN "destroyed object used" ELSE fault
  /\ UNCHANGED <<life, m_thread, m_id, cb, t_thread, owner, pthread, place, joins>>

(***************************************************************************)
(* join() and the destructor.                                              *)
(***************************************************************************)
Owns(t, o) == InClient(t) /\ owner[o] = t /\ life[o] = "alive"

Join(t, o) ==
  /\ Owns(t, o) /\ m_thread[o]
  /\ joins' = [joins EXCEPT ![t] = o]
  /\ UNCHANGED <<objectVars, localVars, owner, pthread, place, fault>>

JoinReturns(t) == \E o \in Object :
  /\ joins[t] = o /\ place[o] = "ended"
  /\ joins' = [joins EXCEPT ![t] = Null]
  /\ pthread' = [pthread EXCEPT ![o] = "joined"]
  /\ m_thread' = [m_thread EXCEPT ![o] = FALSE]
  /\ UNCHANGED <<life, m_id, m_name, cb, localVars, owner, place, fault>>

\* What the members of a destroyed object hold means nothing any more.
Destroy(t, o) ==
  /\ Owns(t, o)
  /\ "early" \in Liberty \/ place[o] \in {"callback", "ended"}
  /\ life' = [life EXCEPT ![o] = "destroyed"]
  /\ pthread' = [pthread EXCEPT ![o] = IF m_thread[o] THEN "detached" ELSE @]
  /\ fault' = IF m_thread[o] /\ pthread[o] # "joinable"
              THEN "joined pthread detached" ELSE fault
  /\ m_thread' = [m_thread EXCEPT ![o] = FALSE]
  /\ m_id' = [m_id EXCEPT ![o] = FALSE]
  /\ m_name' = [m_name EXCEPT ![o] = Unknown]
  /\ UNCHANGED <<cb, localVars, owner, place, joins>>

-----------------------------------------------------------------------------
Run(o) == RunEnter(o) \/ RunIdentify(o) \/ RunCallback(o)

UseThreads(t) ==
  \/ \E o \in Object, n \in Name \cup {Empty} : New(t, o, n)
  \/ \E o \in Object : NewFails(t, o) \/ Join(t, o) \/ Destroy(t, o)
  \/ \E n \in Name : SetName(t, n)
  \/ Return(t)

-----------------------------------------------------------------------------
(***************************************************************************)
(* Properties                                                              *)
(***************************************************************************)
(***************************************************************************)
(* A client that waits until the callback has begun may destroy a Thread   *)
(* whose thread still runs, joined or not: nothing run does afterwards     *)
(* needs the object (thread.cc:65, which moves the callback out of it),    *)
(* and no pthread is detached that has been joined.                        *)
(***************************************************************************)
NoFault == fault = "none"

(***************************************************************************)
(* Thread::GetName() in a thread and getName() of its object agree, once   *)
(* the callback has begun and as long as there is the object, and the      *)
(* object knows its thread's id.                                           *)
(***************************************************************************)
NamesAgree ==
  \A o \in Object :
    place[o] = "callback" /\ life[o] = "alive" =>
      m_name[o] = t_thread_name[o] /\ m_id[o]
=============================================================================
