------------------------------- MODULE Fiber -------------------------------
(***************************************************************************)
(* The fibers of src/fiber.h and src/fiber.cc: ucontext coroutines that a  *)
(* thread's main fiber swaps in and that swap themselves out again.        *)
(*                                                                         *)
(* What the code records about a fiber (m_state, t_fiber, t_threadFiber,   *)
(* s_fiber_count) is kept apart from what the machine does with it: which  *)
(* stack each thread executes (`on') and where each saved ucontext would   *)
(* resume (`ctx').  The hazards of this component are the places where the *)
(* two can disagree.                                                       *)
(*                                                                         *)
(* The main fiber of thread t is the object t itself, and `on[t] = t' says *)
(* that t executes its original stack.                                     *)
(***************************************************************************)
EXTENDS Integers, FiniteSets

CONSTANTS
  Thread,   \* the threads of the process
  Fib,      \* the Fiber objects that can be built with a callback
  Null,     \* nullptr
  Liberty   \* what the client code does beyond the usage of test_fiber.cpp

(***************************************************************************)
(* With no liberty the client behaves as test/test_fiber.cpp does: only a  *)
(* thread's main code swaps a fiber in, after Fiber::GetThis(), through a  *)
(* handle it owns, and only a fiber whose getState() is resumable; yields  *)
(* come from fibers; the handle is kept while the fiber runs.              *)
(*   mainYield  the main code calls YieldToReady or YieldToHold            *)
(*   unchecked  swapIn and reset are called without a look at getState()   *)
(*   shared     every thread has a copy of the handle to swap the fiber in *)
(***************************************************************************)
Liberties == {"mainYield", "unchecked", "shared"}

Obj == Fib \cup Thread

ASSUME FiberAssumption ==
  /\ Fib \cap Thread = {}
  /\ Null \notin Obj
  /\ IsFiniteSet(Fib) /\ IsFiniteSet(Thread)
  /\ Liberty \subseteq Liberties

VARIABLES
  m_state,        \* Fiber::m_state
  m_cb,           \* whether Fiber::m_cb holds a function
  m_id,           \* Fiber::m_id
  ctx,            \* Fiber::m_ctx: whose stack it resumes, and at which point
  life,           \* whether the object is not built yet, alive or destroyed
  held,           \* whether client code holds a shared_ptr to the fiber
  inMain,         \* whether MainFunc's `cur' on the fiber's stack holds one
  owner,          \* the thread whose code holds that client handle
  t_fiber,        \* thread_local t_fiber
  t_threadFiber,  \* thread_local t_threadFiber
  on,             \* the stack each thread executes
  pc,             \* where in the module's code each thread stands
  arg,            \* the fiber that code works on
  s_fiber_id,     \* the id counter
  s_fiber_count,  \* the count of fibers
  fault           \* the failed assertion or the undefined access, if any

objVars    == <<m_state, m_cb, m_id, ctx, life>>
refVars    == <<held, inMain, owner>>
threadVars == <<t_fiber, t_threadFiber, on, pc, arg>>
vars == <<objVars, refVars, threadVars, s_fiber_id, s_fiber_count, fault>>

State  == {"INIT", "HOLD", "EXEC", "TERM", "READY", "EXCEPT"}
Ended  == {"TERM", "EXCEPT"}
Parked == {"HOLD", "READY"}
Point  == {"none", "entry", "swapIn", "swapOut", "end"}
Faults == {"swapIn", "yield", "reset", "dtor", "neverReach", "freedStack"}

(***************************************************************************)
(* A thread is in client code ("user"), between the first line of swapIn   *)
(* and its swapcontext ("swapIn"), between a yield's store to m_state and  *)
(* the swapcontext of swapOut ("swapOut"), between MainFunc's store to     *)
(* m_state and its swapOut ("ending"), or gone ("exited").  A failed       *)
(* assertion aborts the process: `fault' stops every thread.               *)
(***************************************************************************)
Location == {"user", "swapIn", "swapOut", "ending", "exited"}

At(t, loc) == fault = "none" /\ pc[t] = loc
Alive(o)   == life[o] = "alive"
May(l)     == l \in Liberty

Init ==
  /\ m_state = [o \in Obj |-> "INIT"]
  /\ m_cb = [o \in Obj |-> FALSE]
  /\ m_id = [o \in Obj |-> 0]
  /\ ctx = [o \in Obj |-> [code |-> o, at |-> "none"]]
  /\ life = [o \in Obj |-> "unborn"]
  /\ held = [f \in Fib |-> FALSE]
  /\ inMain = [f \in Fib |-> FALSE]
  /\ owner = [f \in Fib |-> Null]
  /\ t_fiber = [t \in Thread |-> Null]
  /\ t_threadFiber = [t \in Thread |-> Null]
  /\ on = [t \in Thread |-> t]
  /\ pc = [t \in Thread |-> "user"]
  /\ arg = [t \in Thread |-> Null]
  /\ s_fiber_id = 0
  /\ s_fiber_count = 0
  /\ fault = "none"

-----------------------------------------------------------------------------
(***************************************************************************)
(* What the members of Fiber share.  Next to a definition stands, where a  *)
(* property needs one, a slip of the pen the property catches.             *)
(***************************************************************************)

NewId_Down == s_fiber_id - 1
NewId      == s_fiber_id + 1

\* Fiber::SetThis.
SetThis_Once(t, f) == t_fiber' = [t_fiber EXCEPT ![t] = IF @ = Null THEN f ELSE @]
SetThis(t, f)      == t_fiber' = [t_fiber EXCEPT ![t] = f]

\* The thread's main fiber, which is thread_local.
MainFiber_Static(t) == t_threadFiber[CHOOSE u \in Thread : Alive(u)]
MainFiber(t)        == t_threadFiber[t]

\* getcontext and makecontext: a context that enters MainFunc.
MakeContext_Not(f) == ctx[f]
MakeContext(f)     == [code |-> f, at |-> "entry"]

\* The contexts when t has saved where its stack stands into that of `from'.
Save_Not(t, from, point) == ctx
Save(t, from, point)     == [ctx EXCEPT ![from] = [code |-> on[t], at |-> point]]

\* ~Fiber.
Destroy_Uncounted(o) == life' = [life EXCEPT ![o] = "dead"] /\ UNCHANGED s_fiber_count

Destroy(o) ==
  /\ life' = [life EXCEPT ![o] = "dead"]
  /\ s_fiber_count' = s_fiber_count - 1

\* A reference to f goes; the object does too unless there are others.
Release_Delete(f, others) == Destroy(f)

Release(f, others) ==
  IF others THEN UNCHANGED <<life, s_fiber_count>> ELSE Destroy(f)

(***************************************************************************)
(* swapcontext(&m_ctx of `from', &m_ctx of `to') on thread t: save where   *)
(* the running stack stands into from's context, then load to's context.   *)
(* When both are the same fiber the context just saved is the one loaded.  *)
(* Entering at "entry" runs MainFunc, which takes its own reference; a     *)
(* context saved by MainFunc's last swapOut resumes at its `never reach'.  *)
(***************************************************************************)
SwapContext(t, from, to, point, refs) ==
  LET saved == Save(t, from, point)
      next  == saved[to]
  IN  /\ ctx' = saved
      /\ on' = [on EXCEPT ![t] = next.code]
      /\ pc' = [pc EXCEPT ![t] = "user"]
      /\ arg' = [arg EXCEPT ![t] = Null]
      /\ inMain' = [f \in Fib |-> refs[f] \/ (next.at = "entry" /\ f = next.code)]
      /\ fault' = IF next.at = "end" THEN "neverReach" ELSE "none"

(***************************************************************************)
(* Fiber::GetThis() on a thread without a fiber builds its main fiber.     *)
(***************************************************************************)
GetThis(t) ==
  /\ At(t, "user")
  /\ t_fiber[t] = Null
  /\ life[t] = "unborn"
  /\ life' = [life EXCEPT ![t] = "alive"]
  /\ m_state' = [m_state EXCEPT ![t] = "EXEC"]
  /\ SetThis(t, t)
  /\ t_threadFiber' = [t_threadFiber EXCEPT ![t] = t]
  /\ s_fiber_count' = s_fiber_count + 1
  /\ UNCHANGED <<m_cb, m_id, ctx, refVars, on, pc, arg, s_fiber_id, fault>>

(***************************************************************************)
(* Fiber::Fiber(cb): a new fiber, whose context enters MainFunc.           *)
(***************************************************************************)
NewFiber(t, f) ==
  /\ At(t, "user")
  /\ life[f] = "unborn"
  /\ life' = [life EXCEPT ![f] = "alive"]
  /\ m_state' = [m_state EXCEPT ![f] = "INIT"]
  /\ m_cb' = [m_cb EXCEPT ![f] = TRUE]
  /\ m_id' = [m_id EXCEPT ![f] = NewId]
  /\ ctx' = [ctx EXCEPT ![f] = MakeContext(f)]
  /\ held' = [held EXCEPT ![f] = TRUE]
  /\ owner' = [owner EXCEPT ![f] = t]
  /\ s_fiber_id' = NewId
  /\ s_fiber_count' = s_fiber_count + 1
  /\ UNCHANGED <<inMain, threadVars, fault>>

(***************************************************************************)
(* The client passes its handle on f to another thread's code.             *)
(***************************************************************************)
HandOver(t, u, f) ==
  /\ At(t, "user") /\ pc[u] # "exited"
  /\ held[f] /\ owner[f] = t /\ on[t] # f /\ u # t
  /\ owner' = [owner EXCEPT ![f] = u]
  /\ UNCHANGED <<objVars, held, inMain, threadVars, s_fiber_id, s_fiber_count, fault>>

(***************************************************************************)
(* Fiber::swapIn(), up to its swapcontext: SetThis, the assertion and the  *)
(* store to m_state.                                                       *)
(***************************************************************************)
SwapIn(t, f) ==
  /\ At(t, "user")
  /\ held[f]
  /\ owner[f] = t \/ May("shared")
  /\ Alive(t)
  /\ m_state[f] \in Parked \cup {"INIT"} \/ May("unchecked")
  /\ on[t] = t
  /\ SetThis(t, f)
  /\ IF m_state[f] = "EXEC"
     THEN fault' = "swapIn" /\ UNCHANGED <<m_state, pc, arg>>
     ELSE /\ m_state' = [m_state EXCEPT ![f] = "EXEC"]
          /\ pc' = [pc EXCEPT ![t] = "swapIn"]
          /\ arg' = [arg EXCEPT ![t] = f]
          /\ UNCHANGED fault
  /\ UNCHANGED <<m_cb, m_id, ctx, life, refVars, t_threadFiber, on,
                 s_fiber_id, s_fiber_count>>

SwapInSwitch(t) ==
  /\ At(t, "swapIn")
  /\ SwapContext(t, MainFiber(t), arg[t], "swapIn", inMain)
  /\ UNCHANGED <<m_state, m_cb, m_id, life, held, owner, t_fiber, t_threadFiber,
                 s_fiber_id, s_fiber_count>>

(***************************************************************************)
(* Fiber::YieldToReady() and Fiber::YieldToHold(), up to swapOut: they act *)
(* on GetThis(), which is t_fiber, whatever stack is executing.            *)
(***************************************************************************)
Yield(t, s) ==
  /\ At(t, "user")
  /\ t_fiber[t] # Null
  /\ on[t] \in Fib \/ May("mainYield")
  /\ IF m_state[t_fiber[t]] # "EXEC"
     THEN fault' = "yield" /\ UNCHANGED <<m_state, pc, arg>>
     ELSE /\ m_state' = [m_state EXCEPT ![t_fiber[t]] = s]
          /\ pc' = [pc EXCEPT ![t] = "swapOut"]
          /\ arg' = [arg EXCEPT ![t] = t_fiber[t]]
          /\ UNCHANGED fault
  /\ UNCHANGED <<m_cb, m_id, ctx, life, refVars, t_fiber, t_threadFiber, on,
                 s_fiber_id, s_fiber_count>>

(***************************************************************************)
(* Fiber::swapOut(): SetThis(main fiber) and the switch to its context.    *)
(***************************************************************************)
SwapOut(t) ==
  /\ At(t, "swapOut")
  /\ SetThis(t, MainFiber(t))
  /\ SwapContext(t, arg[t], MainFiber(t), "swapOut", inMain)
  /\ UNCHANGED <<m_state, m_cb, m_id, life, held, owner, t_threadFiber,
                 s_fiber_id, s_fiber_count>>

(***************************************************************************)
(* MainFunc when the callback returns (TERM) or throws (EXCEPT, m_cb kept).*)
(***************************************************************************)
Finish(t, s) ==
  /\ At(t, "user")
  /\ on[t] \in Fib
  /\ m_state' = [m_state EXCEPT ![on[t]] = s]
  /\ m_cb' = IF s = "TERM" THEN [m_cb EXCEPT ![on[t]] = FALSE] ELSE m_cb
  /\ pc' = [pc EXCEPT ![t] = "ending"]
  /\ arg' = [arg EXCEPT ![t] = on[t]]
  /\ UNCHANGED <<m_id, ctx, life, refVars, t_fiber, t_threadFiber, on,
                 s_fiber_id, s_fiber_count, fault>>

(***************************************************************************)
(* The end of MainFunc: cur.reset() drops the stack's own reference, which *)
(* destroys a fiber no client holds while its stack still executes, and    *)
(* raw_ptr->swapOut() leaves for good.                                     *)
(***************************************************************************)
EndSwitch(t) ==
  /\ At(t, "ending")
  /\ Release(arg[t], held[arg[t]])
  /\ IF held[arg[t]]
     THEN /\ SetThis(t, MainFiber(t))
          /\ SwapContext(t, arg[t], MainFiber(t), "end", [inMain EXCEPT ![arg[t]] = FALSE])
     ELSE /\ inMain' = [inMain EXCEPT ![arg[t]] = FALSE]
          /\ fault' = "freedStack"
          /\ UNCHANGED <<ctx, t_fiber, on, pc, arg>>
  /\ UNCHANGED <<m_state, m_cb, m_id, held, owner, t_threadFiber, s_fiber_id>>

(***************************************************************************)
(* Fiber::reset(cb).  The client looks at getState() first, as the         *)
(* assertion of reset demands.                                             *)
(***************************************************************************)
Reset(t, f) ==
  /\ At(t, "user")
  /\ held[f] /\ owner[f] = t /\ on[t] # f
  /\ m_state[f] \in Ended \cup {"INIT"} \/ May("unchecked")
  /\ IF m_state[f] \notin Ended \cup {"INIT"}
     THEN fault' = "reset" /\ UNCHANGED <<m_cb, ctx, m_state>>
     ELSE /\ m_cb' = [m_cb EXCEPT ![f] = TRUE]
          /\ ctx' = [ctx EXCEPT ![f] = MakeContext(f)]
          /\ m_state' = [m_state EXCEPT ![f] = "INIT"]
          /\ UNCHANGED fault
  /\ UNCHANGED <<m_id, life, refVars, threadVars, s_fiber_id, s_fiber_count>>

(***************************************************************************)
(* The client drops its handle on f, which it may do in any state but      *)
(* running: the code that swapped f in keeps a handle until it is back.    *)
(* The object is destroyed (~Fiber, which asserts m_state) when MainFunc's *)
(* frame on the fiber's own stack holds no reference either: a fiber       *)
(* dropped while it is parked is never destroyed.                          *)
(***************************************************************************)
Drop(t, f) ==
  /\ At(t, "user")
  /\ held[f] /\ owner[f] = t /\ m_state[f] # "EXEC"
  /\ \A u \in Thread : on[u] # f
  /\ held' = [held EXCEPT ![f] = FALSE]
  /\ Release(f, inMain[f])
  /\ fault' = IF inMain[f] \/ m_state[f] \in Ended \cup {"INIT"} THEN "none" ELSE "dtor"
  /\ UNCHANGED <<m_state, m_cb, m_id, ctx, inMain, owner, threadVars, s_fiber_id>>

(***************************************************************************)
(* The main code of t returns: the thread_local t_threadFiber goes, and    *)
(* ~Fiber of the main fiber asserts that it has no callback and is EXEC.   *)
(***************************************************************************)
ThreadExit(t) ==
  /\ At(t, "user")
  /\ on[t] = t
  /\ pc' = [pc EXCEPT ![t] = "exited"]
  /\ t_threadFiber' = [t_threadFiber EXCEPT ![t] = Null]
  /\ IF Alive(t)
     THEN /\ Destroy(t)
          /\ IF t_fiber[t] = t THEN SetThis(t, Null) ELSE UNCHANGED t_fiber
          /\ fault' = IF m_cb[t] \/ m_state[t] # "EXEC" THEN "dtor" ELSE "none"
     ELSE UNCHANGED <<life, s_fiber_count, t_fiber, fault>>
  /\ UNCHANGED <<m_state, m_cb, m_id, ctx, refVars, on, arg, s_fiber_id>>

\* Every thread has returned, or an assertion has aborted the process.
Stopped ==
  /\ fault # "none" \/ \A t \in Thread : pc[t] = "exited"
  /\ UNCHANGED vars

Run(t) ==
  \/ SwapInSwitch(t)
  \/ SwapOut(t)
  \/ EndSwitch(t)
  \/ \E s \in Parked : Yield(t, s)
  \/ \E s \in Ended : Finish(t, s)

Client(t) ==
  \/ GetThis(t)
  \/ ThreadExit(t)
  \/ \E f \in Fib : \/ NewFiber(t, f)
                    \/ SwapIn(t, f)
                    \/ Reset(t, f)
                    \/ Drop(t, f)
                    \/ \E u \in Thread : HandOver(t, u, f)

Next == (\E t \in Thread : Run(t) \/ Client(t)) \/ Stopped

Spec == Init /\ [][Next]_vars

(***************************************************************************)
(* A thread is scheduled and the function of a running fiber comes to a    *)
(* yield, a return or a throw in the end.                                  *)
(***************************************************************************)
FairSpec == Spec /\ \A t \in Thread : WF_vars(Run(t))

-----------------------------------------------------------------------------
(***************************************************************************)
(* Properties                                                              *)
(***************************************************************************)

\* The variables hold values of their types.
TypeOK ==
  /\ m_state \in [Obj -> State]
  /\ m_cb \in [Obj -> BOOLEAN]
  /\ m_id \in [Obj -> Nat]
  /\ ctx \in [Obj -> [code : Obj, at : Point]]
  /\ life \in [Obj -> {"unborn", "alive", "dead"}]
  /\ held \in [Fib -> BOOLEAN]
  /\ inMain \in [Fib -> BOOLEAN]
  /\ owner \in [Fib -> Thread \cup {Null}]
  /\ t_fiber \in [Thread -> Obj \cup {Null}]
  /\ t_threadFiber \in [Thread -> Thread \cup {Null}]
  /\ on \in [Thread -> Obj]
  /\ pc \in [Thread -> Location]
  /\ arg \in [Thread -> Obj \cup {Null}]
  /\ s_fiber_id \in Nat
  /\ s_fiber_count \in Int
  /\ fault \in Faults \cup {"none"}

RunsFiber(f) == \E t \in Thread : on[t] = f

(***************************************************************************)
(* No assertion of fiber.cc fails, no fiber's stack is freed while it      *)
(* executes and no ended context is resumed: a client that looks at        *)
(* getState() and passes its handles around never aborts, although the     *)
(* states it looks at are stored by other threads.                         *)
(***************************************************************************)
NoFault == fault = "none"

(***************************************************************************)
(* GetThis() answers for the stack that executes: in client code t_fiber   *)
(* is the fiber (or the main fiber) whose code is calling.                 *)
(***************************************************************************)
GetThisIsRunning ==
  \A t \in Thread :
    At(t, "user") /\ t_fiber[t] # Null => t_fiber[t] = on[t]

(***************************************************************************)
(* No two threads execute one stack.  A yield stores HOLD or READY before  *)
(* its swapcontext: whoever reads that state meanwhile must not swap in.   *)
(***************************************************************************)
OneThreadPerStack == \A t, u \in Thread : on[t] = on[u] => t = u

(***************************************************************************)
(* While a fiber executes on t, the context that swapOut will load, the    *)
(* one of t's main fiber, resumes t's own stack right after its swapIn.    *)
(* This is what lets MainFunc return to the thread's main fiber.           *)
(***************************************************************************)
MainContextKept ==
  fault = "none" =>
    \A t \in Thread :
      on[t] \in Fib => ctx[t_threadFiber[t]] = [code |-> t, at |-> "swapIn"]

(***************************************************************************)
(* m_state tells the truth about a fiber no thread is handling: INIT iff   *)
(* its context enters MainFunc, HOLD or READY iff it resumes inside the    *)
(* callback, TERM or EXCEPT iff MainFunc is over, and never EXEC.          *)
(***************************************************************************)
StateMatchesContext ==
  \A f \in Fib :
    /\ fault = "none" /\ Alive(f)
    /\ \A t \in Thread : on[t] # f /\ arg[t] # f
    => /\ m_state[f] # "EXEC"
       /\ m_state[f] = "INIT" <=> ctx[f].at = "entry"
       /\ m_state[f] \in Parked <=> ctx[f].at = "swapOut"
       /\ m_state[f] \in Ended <=> ctx[f].at = "end"

(***************************************************************************)
(* TotalFibers() is the number of live fibers, main fibers included; the   *)
(* only ones no client can reach any more were dropped while parked.       *)
(***************************************************************************)
CountIsLive ==
  /\ s_fiber_count = Cardinality({o \in Obj : Alive(o)})
  /\ \A f \in Fib : Alive(f) /\ ~held[f] => m_state[f] \in Parked

(***************************************************************************)
(* The stack of a destroyed fiber is on no thread and nothing saved will   *)
(* ever return to it.                                                      *)
(***************************************************************************)
DeadStackUnused ==
  \A f \in Fib : life[f] = "dead" =>
    /\ ~RunsFiber(f)
    /\ \A t \in Thread : arg[t] # f /\ (Alive(t) => ctx[t].code # f)

(***************************************************************************)
(* A thread that executes a fiber gets back to its main fiber's code.      *)
(***************************************************************************)
BackToMain == \A t \in Thread : on[t] \in Fib ~> on[t] = t

(***************************************************************************)
(* The fibers implement coroutines.  The mapping reads the machine, never  *)
(* m_state: a coroutine runs when a thread executes its stack, and is      *)
(* fresh, suspended or finished by where its saved context resumes.        *)
(***************************************************************************)
PhaseOf(f) ==
  CASE life[f] = "unborn" -> "unborn"
    [] life[f] = "dead"   -> "gone"
    [] Alive(f) /\ RunsFiber(f) -> "running"
    [] Alive(f) /\ ~RunsFiber(f) /\ ctx[f].at = "entry" -> "fresh"
    [] Alive(f) /\ ~RunsFiber(f) /\ ctx[f].at = "end" -> "finished"
    [] OTHER -> "suspended"

phaseBar == [f \in Fib |-> PhaseOf(f)]
runsBar  == [t \in Thread |-> IF on[t] \in Fib THEN on[t] ELSE Null]

Abstract == INSTANCE Coroutine WITH phase <- phaseBar, runs <- runsBar, Idle <- Null

(***************************************************************************)
(* swapIn resumes, YieldToHold and YieldToReady suspend, and MainFunc      *)
(* finishes a coroutine, each back to the main code of its thread; reset   *)
(* renews it and ~Fiber releases it, neither while it is suspended.        *)
(***************************************************************************)
ImplementsCoroutine == Abstract!Spec

=============================================================================
