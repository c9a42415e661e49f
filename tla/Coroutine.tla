----------------------------- MODULE Coroutine -----------------------------
(***************************************************************************)
(* What fiber.h promises of fibers, without contexts, thread-local         *)
(* pointers or reference counts: asymmetric coroutines.  A thread runs at  *)
(* most one of them, resumed from its main code; a coroutine runs on one   *)
(* thread at most, keeps its place while it is suspended, and once its     *)
(* function is over runs again only after it has been renewed.             *)
(***************************************************************************)
CONSTANTS
  Thread,  \* the threads
  Fib,     \* the coroutines
  Idle     \* a thread in its main code

VARIABLES
  phase,   \* the phase of each coroutine
  runs     \* the coroutine each thread runs, or Idle

vars == <<phase, runs>>

Phase == {"unborn", "fresh", "running", "suspended", "finished", "gone"}

Init ==
  /\ phase = [f \in Fib |-> "unborn"]
  /\ runs = [t \in Thread |-> Idle]

Move(f, from, to) ==
  /\ phase[f] \in from
  /\ phase' = [phase EXCEPT ![f] = to]

Create(f)  == Move(f, {"unborn"}, "fresh") /\ UNCHANGED runs
Renew(f)   == Move(f, {"fresh", "finished"}, "fresh") /\ UNCHANGED runs
Release(f) == Move(f, {"fresh", "finished"}, "gone") /\ UNCHANGED runs

Resume(t, f) ==
  /\ runs[t] = Idle
  /\ Move(f, {"fresh", "suspended"}, "running")
  /\ runs' = [runs EXCEPT ![t] = f]

\* Control goes back to the main code of the thread the coroutine runs on.
Leave(t, f, to) ==
  /\ runs[t] = f
  /\ Move(f, {"running"}, to)
  /\ runs' = [runs EXCEPT ![t] = Idle]

Next ==
  \E f \in Fib :
    \/ Create(f) \/ Renew(f) \/ Release(f)
    \/ \E t \in Thread : \/ Resume(t, f)
                         \/ Leave(t, f, "suspended")
                         \/ Leave(t, f, "finished")

Spec == Init /\ [][Next]_vars
=============================================================================
