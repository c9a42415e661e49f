---------------------------- MODULE FiberProofs ----------------------------
(***************************************************************************)
(* Theorems about Fiber, for any threads and fibers, under the discipline  *)
(* of test_fiber.cpp (Liberty = {}).                                       *)
(*                                                                         *)
(* The inductive invariant says, for each thread, which of five situations *)
(* it is in and what the fiber it handles looks like there; and for each   *)
(* fiber no thread handles, how m_state, the saved context and the         *)
(* reference on its own stack go together.  What keeps two threads off one *)
(* fiber is that a thread only handles fibers whose handle it owns.        *)
(***************************************************************************)
EXTENDS Fiber, FiniteSetTheorems, TLAPS

Ctx(o, point) == [code |-> o, at |-> point]

Own(t, f) == f \in Fib /\ held[f] /\ owner[f] = t /\ Alive(f)

\* A fiber that swapIn may resume.
Resumable(f) ==
  \/ ctx[f] = Ctx(f, "entry") /\ ~inMain[f]
  \/ ctx[f] = Ctx(f, "swapOut") /\ inMain[f]

\* The main fiber of t is current, or t has none.
MainCurrent(t) ==
  \/ life[t] = "alive" /\ t_fiber[t] = t /\ t_threadFiber[t] = t
  \/ life[t] # "alive" /\ t_fiber[t] = Null /\ t_threadFiber[t] = Null

\* t is in its main code, or has returned from it.
InMainCode(t) ==
  /\ pc[t] \in {"user", "exited"}
  /\ on[t] = t /\ arg[t] = Null
  /\ MainCurrent(t)
  /\ pc[t] = "exited" => life[t] # "alive"

\* t is about to switch to a fiber it owns.
Entering(t) ==
  /\ pc[t] = "swapIn"
  /\ on[t] = t /\ life[t] = "alive" /\ t_threadFiber[t] = t
  /\ Own(t, arg[t]) /\ m_state[arg[t]] = "EXEC" /\ t_fiber[t] = arg[t]
  /\ Resumable(arg[t])

\* t executes the stack of a fiber it owns, or is about to leave it.
InFiber(t) ==
  /\ Own(t, on[t]) /\ inMain[on[t]]
  /\ life[t] = "alive" /\ t_threadFiber[t] = t /\ t_fiber[t] = on[t]
  /\ ctx[t] = Ctx(t, "swapIn")
  /\ \/ pc[t] = "user" /\ arg[t] = Null /\ m_state[on[t]] = "EXEC"
     \/ pc[t] = "swapOut" /\ arg[t] = on[t] /\ m_state[on[t]] \in Parked
     \/ pc[t] = "ending" /\ arg[t] = on[t] /\ m_state[on[t]] \in Ended

ThreadOK(t) ==
  /\ InMainCode(t) \/ Entering(t) \/ InFiber(t)
  /\ life[t] = "alive" => m_state[t] = "EXEC"
  /\ ~m_cb[t]
  /\ ctx[t].code = t

Handled(f) == \E t \in Thread : on[t] = f \/ arg[t] = f

\* The three ways a fiber no thread handles can be.
Resting(f) ==
  \/ m_state[f] = "INIT" /\ ctx[f] = Ctx(f, "entry") /\ ~inMain[f]
  \/ m_state[f] \in Parked /\ ctx[f] = Ctx(f, "swapOut") /\ inMain[f]
  \/ m_state[f] \in Ended /\ ctx[f] = Ctx(f, "end") /\ ~inMain[f]

FiberOK(f) ==
  /\ held[f] => Alive(f)
  /\ Alive(f) => held[f] \/ inMain[f]
  /\ Alive(f) /\ ~Handled(f) => Resting(f)
  /\ ~Alive(f) => ~inMain[f]

IInv ==
  /\ TypeOK
  /\ NoFault
  /\ \A t \in Thread : ThreadOK(t)
  /\ \A f \in Fib : FiberOK(f)

-----------------------------------------------------------------------------
(***************************************************************************)
(* A handled fiber is handled by its owner alone, and the states that can  *)
(* be told from where a thread stands.                                     *)
(***************************************************************************)
LEMMA HandledByOwner ==
  ASSUME IInv, NEW t \in Thread, NEW f \in Fib, on[t] = f \/ arg[t] = f
  PROVE  Own(t, f)
<1>1. ThreadOK(t)
  BY DEF IInv
<1>2. f # t /\ f # Null
  BY FiberAssumption DEF Obj
<1> QED
  BY <1>1, <1>2 DEF ThreadOK, InMainCode, Entering, InFiber, Own

\* No fiber exists and every thread is in its main code.
LEMMA InitInv == Init => IInv
<1> SUFFICES ASSUME Init PROVE IInv
  OBVIOUS
<1>1. TypeOK
  BY FiberAssumption DEF Init, TypeOK, State, Location, Point, Faults, Obj
<1>2. NoFault
  BY DEF Init, NoFault
<1>3. ASSUME NEW t \in Thread PROVE ThreadOK(t)
  BY FiberAssumption DEF Init, ThreadOK, InMainCode, MainCurrent, Obj
<1>4. ASSUME NEW f \in Fib PROVE FiberOK(f)
  BY FiberAssumption DEF Init, FiberOK, Alive, Obj
<1> QED
  BY <1>1, <1>2, <1>3, <1>4 DEF IInv

\* Fiber::GetThis() makes a main fiber that is current and EXEC.
LEMMA GetThisInv ==
  ASSUME IInv, NEW t \in Thread, GetThis(t)
  PROVE  IInv'
<1> USE FiberAssumption DEF GetThis, SetThis, At, objVars, refVars, threadVars
<1>1. TypeOK'
  BY DEF IInv, TypeOK, State, Obj
<1>2. NoFault'
  BY DEF IInv, NoFault
<1>3. ASSUME NEW u \in Thread PROVE ThreadOK(u)'
  <2>1. ThreadOK(u)
    BY DEF IInv
  <2>2. CASE u = t
    BY <2>1, <2>2 DEF IInv, TypeOK, ThreadOK, InMainCode, Entering, InFiber,
                      MainCurrent, Own, Obj
  <2>3. CASE u # t
    BY <2>1, <2>3 DEF IInv, TypeOK, ThreadOK, InMainCode, Entering, InFiber,
                      MainCurrent, Own, Alive, Resumable, Obj
  <2> QED BY <2>2, <2>3
<1>4. ASSUME NEW f \in Fib PROVE FiberOK(f)'
  BY DEF IInv, TypeOK, FiberOK, Handled, Resting, Alive, Obj
<1> QED
  BY <1>1, <1>2, <1>3, <1>4 DEF IInv

\* A new Fiber belongs to its maker and enters MainFunc.
LEMMA NewFiberInv ==
  ASSUME IInv, NEW t \in Thread, NEW f \in Fib, NewFiber(t, f)
  PROVE  IInv'
<1> USE FiberAssumption DEF NewFiber, NewId, MakeContext, At, objVars, refVars, threadVars
<1>1. TypeOK'
  BY DEF IInv, TypeOK, State, Obj, Point
<1>2. NoFault'
  BY DEF IInv, NoFault
<1>3. ~Handled(f)
  BY HandledByOwner DEF Handled, Own, Alive
<1>4. ASSUME NEW u \in Thread PROVE ThreadOK(u)'
  <2>1. ThreadOK(u) /\ on[u] # f /\ arg[u] # f
    BY <1>3 DEF IInv, Handled
  <2> QED
    BY <2>1 DEF IInv, TypeOK, ThreadOK, InMainCode, Entering, InFiber,
                MainCurrent, Own, Alive, Resumable, Obj
<1>5. ASSUME NEW g \in Fib PROVE FiberOK(g)'
  BY DEF IInv, TypeOK, FiberOK, Handled, Resting, Alive, Obj, Ctx
<1> QED
  BY <1>1, <1>2, <1>4, <1>5 DEF IInv

\* Handing over a fiber that does not run leaves no thread handling it.
LEMMA HandOverInv ==
  ASSUME IInv, NEW t \in Thread, NEW u \in Thread, NEW f \in Fib, HandOver(t, u, f)
  PROVE  IInv'
<1> USE FiberAssumption DEF HandOver, At, objVars, refVars, threadVars
<1>1. TypeOK'
  BY DEF IInv, TypeOK
<1>2. NoFault'
  BY DEF IInv, NoFault
<1>3. ASSUME NEW v \in Thread PROVE ThreadOK(v)'
  <2>1. ThreadOK(v)
    BY DEF IInv
  <2>2. on[v] # f /\ arg[v] # f
    <3>1. v # t => ~Own(v, f)
      BY DEF Own
    <3>2. arg[t] # f
      BY DEF IInv, ThreadOK, InMainCode, Entering, InFiber, Obj
    <3> QED BY <3>1, <3>2, HandledByOwner
  <2> QED
    BY <2>1, <2>2 DEF IInv, TypeOK, ThreadOK, InMainCode, Entering, InFiber,
                MainCurrent, Own, Alive, Resumable, Obj
<1>4. ASSUME NEW g \in Fib PROVE FiberOK(g)'
  BY DEF IInv, FiberOK, Handled, Resting, Alive
<1> QED
  BY <1>1, <1>2, <1>3, <1>4 DEF IInv

\* swapIn, up to its swapcontext, takes an owned and resumable fiber.
LEMMA SwapInInv ==
  ASSUME IInv, Liberty = {}, NEW t \in Thread, NEW f \in Fib, SwapIn(t, f)
  PROVE  IInv'
<1> USE FiberAssumption DEF SwapIn, SetThis, At, May, objVars, refVars, threadVars
<1>1. on[t] = t /\ m_state[f] \in Parked \cup {"INIT"} /\ m_state[f] # "EXEC"
  BY DEF Parked
<1>2. InMainCode(t) /\ MainCurrent(t)
  <2>1. t \notin Fib
    BY DEF Obj
  <2> QED BY <1>1, <2>1 DEF IInv, ThreadOK, InMainCode, Entering, InFiber, Own
<1>3. ~Handled(f)
  <2>1. ASSUME NEW u \in Thread, on[u] = f \/ arg[u] = f PROVE FALSE
    <3>1. u = t
      BY <2>1, HandledByOwner DEF Own
    <3> QED BY <1>1, <1>2, <2>1, <3>1 DEF InMainCode, Obj
  <2> QED BY <2>1 DEF Handled
<1>4. Own(t, f) /\ Resumable(f)
  <2>1. Alive(f) /\ Resting(f)
    BY <1>3 DEF IInv, FiberOK
  <2> QED BY <1>1, <2>1 DEF Own, Resting, Resumable, Parked, Ended
<1>5. TypeOK'
  BY <1>1 DEF IInv, TypeOK, State, Location, Obj
<1>6. NoFault'
  BY <1>1 DEF IInv, NoFault
<1>7. ASSUME NEW u \in Thread PROVE ThreadOK(u)'
  <2>1. ThreadOK(u)
    BY DEF IInv
  <2>2. CASE u = t
    BY <1>1, <1>2, <1>4, <2>1, <2>2
       DEF IInv, TypeOK, ThreadOK, InMainCode, MainCurrent, Entering, Own, Alive,
           Resumable, Obj
  <2>3. CASE u # t
    <3>1. on[u] # f /\ arg[u] # f
      BY <1>3 DEF Handled
    <3> QED
      BY <1>1, <2>1, <2>3, <3>1
         DEF IInv, TypeOK, ThreadOK, InMainCode, MainCurrent, Entering, InFiber,
             Own, Alive, Resumable, Obj
  <2> QED BY <2>2, <2>3
<1>8. ASSUME NEW g \in Fib PROVE FiberOK(g)'
  BY <1>1, <1>2 DEF IInv, TypeOK, FiberOK, Handled, Resting, Alive, InMainCode, Obj
<1> QED
  BY <1>5, <1>6, <1>7, <1>8 DEF IInv

(***************************************************************************)
(* What swapIn's swapcontext does: the main code of t is saved in its main *)
(* fiber, and t executes the fiber's stack, where MainFunc or a suspended  *)
(* yield of it holds a reference.                                          *)
(***************************************************************************)
LEMMA EnterFiber ==
  ASSUME IInv, NEW t \in Thread, Entering(t),
         SwapContext(t, t_threadFiber[t], arg[t], "swapIn", inMain)
  PROVE  /\ ctx' = [ctx EXCEPT ![t] = Ctx(t, "swapIn")]
         /\ on' = [on EXCEPT ![t] = arg[t]]
         /\ pc' = [pc EXCEPT ![t] = "user"]
         /\ arg' = [arg EXCEPT ![t] = Null]
         /\ inMain' \in [Fib -> BOOLEAN]
         /\ inMain'[arg[t]]
         /\ \A g \in Fib : g # arg[t] => (inMain'[g] <=> inMain[g])
         /\ fault' = "none"
<1> USE FiberAssumption
<1> DEFINE f == arg[t]
           next == [ctx EXCEPT ![t_threadFiber[t]] = [code |-> on[t], at |-> "swapIn"]][f]
<1>1. on[t] = t /\ t_threadFiber[t] = t /\ f \in Fib /\ f # t /\ Resumable(f)
  BY DEF Entering, Own, Obj
<1>2. next = ctx[f]
  BY <1>1 DEF IInv, TypeOK, Obj
<1>3. next.code = f /\ next.at # "end" /\ (next.at = "entry" \/ inMain[f])
  BY <1>1, <1>2 DEF Resumable, Ctx
<1>4. /\ ctx' = [ctx EXCEPT ![t] = Ctx(t, "swapIn")]
      /\ on' = [on EXCEPT ![t] = next.code]
      /\ pc' = [pc EXCEPT ![t] = "user"]
      /\ arg' = [arg EXCEPT ![t] = Null]
  BY <1>1 DEF SwapContext, Save, Ctx
<1>5. inMain' = [g \in Fib |-> inMain[g] \/ (next.at = "entry" /\ g = next.code)]
  BY DEF SwapContext, Save
<1>6. fault' = IF next.at = "end" THEN "neverReach" ELSE "none"
  BY DEF SwapContext, Save
<1> HIDE DEF f, next, SwapContext, Save
<1>7. /\ inMain' \in [Fib -> BOOLEAN]
      /\ inMain'[f]
      /\ \A g \in Fib : g # f => (inMain'[g] <=> inMain[g])
  BY <1>1, <1>3, <1>5 DEF IInv, TypeOK
<1> QED
  BY <1>3, <1>4, <1>6, <1>7 DEF f

\* The swapcontext of swapIn.
LEMMA SwapInSwitchInv ==
  ASSUME IInv, NEW t \in Thread, SwapInSwitch(t)
  PROVE  IInv'
<1> USE FiberAssumption DEF SwapInSwitch, MainFiber, At, objVars, refVars, threadVars
<1> DEFINE f == arg[t]
<1>1. Entering(t) /\ Own(t, f) /\ f # t
  BY DEF IInv, ThreadOK, InMainCode, Entering, InFiber, Own, Obj
<1>2. ASSUME NEW u \in Thread, u # t PROVE on[u] # f /\ arg[u] # f
  BY <1>1, <1>2, HandledByOwner DEF Own
<1>3. /\ ctx' = [ctx EXCEPT ![t] = Ctx(t, "swapIn")]
      /\ on' = [on EXCEPT ![t] = f]
      /\ pc' = [pc EXCEPT ![t] = "user"]
      /\ arg' = [arg EXCEPT ![t] = Null]
      /\ inMain' \in [Fib -> BOOLEAN]
      /\ inMain'[f]
      /\ \A g \in Fib : g # f => (inMain'[g] <=> inMain[g])
      /\ fault' = "none"
  BY <1>1, EnterFiber
<1> HIDE DEF f
<1>4. TypeOK'
  BY <1>1, <1>3 DEF IInv, TypeOK, Location, Point, Obj, Ctx, Own
<1>5. NoFault'
  BY <1>3 DEF NoFault
<1>6. ASSUME NEW u \in Thread PROVE ThreadOK(u)'
  <2>1. ThreadOK(u)
    BY DEF IInv
  <2>2. CASE u = t
    BY <1>1, <1>3, <2>1, <2>2 DEF f, IInv, TypeOK, ThreadOK, Entering, InFiber, Own,
                                  Alive, Obj, Ctx
  <2>3. CASE u # t
    BY <1>1, <1>2, <1>3, <2>1, <2>3
       DEF IInv, TypeOK, ThreadOK, InMainCode, MainCurrent, Entering, InFiber,
           Own, Alive, Resumable, Obj
  <2> QED BY <2>2, <2>3
<1>7. ASSUME NEW g \in Fib PROVE FiberOK(g)'
  <2>1. CASE g = f
    BY <1>1, <1>3, <2>1 DEF IInv, TypeOK, FiberOK, Handled, Own, Alive
  <2>2. CASE g # f
    <3>1. Handled(g) => Handled(g)'
      BY <1>1, <1>3, <2>2 DEF f, Handled, Entering, IInv, TypeOK, Obj
    <3> QED BY <1>3, <2>2, <3>1 DEF IInv, TypeOK, FiberOK, Resting, Alive, Obj
  <2> QED BY <2>1, <2>2
<1> QED
  BY <1>4, <1>5, <1>6, <1>7 DEF IInv

\* YieldToReady and YieldToHold act on the fiber that executes.
LEMMA YieldInv ==
  ASSUME IInv, Liberty = {}, NEW t \in Thread, NEW s \in Parked, Yield(t, s)
  PROVE  IInv'
<1> USE FiberAssumption DEF Yield, At, May, objVars, refVars, threadVars
<1> DEFINE f == on[t]
<1>1. InFiber(t) /\ Own(t, f) /\ t_fiber[t] = f /\ m_state[f] = "EXEC"
  BY DEF IInv, ThreadOK, InMainCode, Entering, InFiber, Own, Obj
<1>2. ASSUME NEW u \in Thread, u # t PROVE on[u] # f /\ arg[u] # f
  BY <1>1, <1>2, HandledByOwner DEF Own
<1>3. TypeOK'
  BY <1>1 DEF IInv, TypeOK, Location, State, Parked, Obj
<1>4. NoFault'
  BY <1>1 DEF IInv, NoFault
<1>5. ASSUME NEW u \in Thread PROVE ThreadOK(u)'
  <2>1. ThreadOK(u)
    BY DEF IInv
  <2>2. CASE u = t
    BY <1>1, <2>1, <2>2 DEF IInv, TypeOK, ThreadOK, InFiber, Own, Alive, Obj
  <2>3. CASE u # t
    BY <1>1, <1>2, <2>1, <2>3
       DEF IInv, TypeOK, ThreadOK, InMainCode, MainCurrent, Entering, InFiber,
           Own, Alive, Resumable, Obj
  <2> QED BY <2>2, <2>3
<1>6. ASSUME NEW g \in Fib PROVE FiberOK(g)'
  BY <1>1 DEF IInv, TypeOK, FiberOK, Handled, Resting, Alive, InFiber, Obj
<1> QED
  BY <1>3, <1>4, <1>5, <1>6 DEF IInv

(***************************************************************************)
(* What swapOut's swapcontext does from the stack of a fiber: the fiber's  *)
(* place is saved, and t is back in its main code.                         *)
(***************************************************************************)
LEMMA LeaveFiber ==
  ASSUME IInv, NEW t \in Thread, InFiber(t), arg[t] = on[t],
         NEW point \in Point, NEW refs \in [Fib -> BOOLEAN],
         SwapContext(t, arg[t], t_threadFiber[t], point, refs)
  PROVE  /\ ctx' = [ctx EXCEPT ![on[t]] = Ctx(on[t], point)]
         /\ on' = [on EXCEPT ![t] = t]
         /\ pc' = [pc EXCEPT ![t] = "user"]
         /\ arg' = [arg EXCEPT ![t] = Null]
         /\ inMain' = refs
         /\ fault' = "none"
<1> USE FiberAssumption
<1> DEFINE next == [ctx EXCEPT ![arg[t]] = [code |-> on[t], at |-> point]][t_threadFiber[t]]
<1>1. next = Ctx(t, "swapIn")
  BY DEF InFiber, Own, IInv, TypeOK, Obj
<1>2. next.code = t /\ next.at = "swapIn"
  BY <1>1 DEF Ctx
<1>3. /\ on' = [on EXCEPT ![t] = next.code]
      /\ inMain' = [f \in Fib |-> refs[f] \/ (next.at = "entry" /\ f = next.code)]
      /\ fault' = IF next.at = "end" THEN "neverReach" ELSE "none"
  BY DEF SwapContext, Save
<1>4. ctx' = [ctx EXCEPT ![on[t]] = Ctx(on[t], point)]
  BY DEF SwapContext, Save, Ctx
<1>5. pc' = [pc EXCEPT ![t] = "user"] /\ arg' = [arg EXCEPT ![t] = Null]
  BY DEF SwapContext, Save
<1> HIDE DEF next, SwapContext, Save
<1>6. inMain' = refs
  <2>1. inMain' = [f \in Fib |-> refs[f]]
    BY <1>2, <1>3
  <2> QED BY <2>1
<1>7. on' = [on EXCEPT ![t] = t] /\ fault' = "none"
  BY <1>2, <1>3
<1> QED
  BY <1>4, <1>5, <1>6, <1>7

\* The swapcontext of swapOut, after a yield.
LEMMA SwapOutInv ==
  ASSUME IInv, NEW t \in Thread, SwapOut(t)
  PROVE  IInv'
<1> USE FiberAssumption DEF SwapOut, SetThis, MainFiber, At, objVars, refVars, threadVars
<1> DEFINE f == on[t]
<1>1. InFiber(t) /\ Own(t, f) /\ f # t /\ arg[t] = f /\ m_state[f] \in Parked
  BY DEF IInv, ThreadOK, InMainCode, Entering, InFiber, Own, Obj
<1>2. ASSUME NEW u \in Thread, u # t PROVE on[u] # f /\ arg[u] # f
  BY <1>1, <1>2, HandledByOwner DEF Own
<1>3. /\ ctx' = [ctx EXCEPT ![f] = Ctx(f, "swapOut")]
      /\ on' = [on EXCEPT ![t] = t]
      /\ pc' = [pc EXCEPT ![t] = "user"]
      /\ arg' = [arg EXCEPT ![t] = Null]
      /\ inMain' = inMain
      /\ fault' = "none"
  BY <1>1, LeaveFiber DEF IInv, TypeOK, Point
<1>4. t_fiber' = [t_fiber EXCEPT ![t] = t]
  BY <1>1 DEF InFiber
<1>5. TypeOK'
  BY <1>1, <1>3, <1>4 DEF IInv, TypeOK, Location, Point, Obj, Ctx, Own
<1>6. NoFault'
  BY <1>3 DEF NoFault
<1>7. ASSUME NEW u \in Thread PROVE ThreadOK(u)'
  <2>1. ThreadOK(u)
    BY DEF IInv
  <2>2. CASE u = t
    BY <1>1, <1>3, <1>4, <2>1, <2>2
       DEF IInv, TypeOK, ThreadOK, InFiber, InMainCode, MainCurrent, Obj
  <2>3. CASE u # t
    BY <1>1, <1>2, <1>3, <1>4, <2>1, <2>3
       DEF IInv, TypeOK, ThreadOK, InMainCode, MainCurrent, Entering, InFiber,
           Own, Alive, Resumable, Obj
  <2> QED BY <2>2, <2>3
<1>8. ASSUME NEW g \in Fib PROVE FiberOK(g)'
  <2>1. CASE g = f
    BY <1>1, <1>3, <2>1
       DEF IInv, TypeOK, FiberOK, InFiber, Resting, Own, Alive, Obj
  <2>2. CASE g # f
    <3>1. Handled(g) => Handled(g)'
      BY <1>1, <1>3, <2>2 DEF Handled, IInv, TypeOK, Obj
    <3> QED BY <1>3, <2>2, <3>1 DEF IInv, TypeOK, FiberOK, Resting, Alive, Obj
  <2> QED BY <2>1, <2>2
<1> QED
  BY <1>5, <1>6, <1>7, <1>8 DEF IInv

\* The callback of MainFunc returns or throws.
LEMMA FinishInv ==
  ASSUME IInv, NEW t \in Thread, NEW s \in Ended, Finish(t, s)
  PROVE  IInv'
<1> USE FiberAssumption DEF Finish, At, objVars, refVars, threadVars
<1> DEFINE f == on[t]
<1>1. InFiber(t) /\ Own(t, f) /\ f # t
  BY DEF IInv, ThreadOK, InMainCode, Entering, InFiber, Own, Obj
<1>2. ASSUME NEW u \in Thread, u # t PROVE on[u] # f /\ arg[u] # f
  BY <1>1, <1>2, HandledByOwner DEF Own
<1>3. TypeOK'
  BY <1>1 DEF IInv, TypeOK, Location, State, Ended, Obj
<1>4. NoFault'
  BY DEF IInv, NoFault
<1>5. ASSUME NEW u \in Thread PROVE ThreadOK(u)'
  <2>1. ThreadOK(u)
    BY DEF IInv
  <2>2. CASE u = t
    BY <1>1, <2>1, <2>2 DEF IInv, TypeOK, ThreadOK, InFiber, Own, Alive, Obj
  <2>3. CASE u # t
    BY <1>1, <1>2, <2>1, <2>3
       DEF IInv, TypeOK, ThreadOK, InMainCode, MainCurrent, Entering, InFiber,
           Own, Alive, Resumable, Obj
  <2> QED BY <2>2, <2>3
<1>6. ASSUME NEW g \in Fib PROVE FiberOK(g)'
  BY <1>1 DEF IInv, TypeOK, FiberOK, Handled, Resting, Alive, InFiber, Obj
<1> QED
  BY <1>3, <1>4, <1>5, <1>6 DEF IInv

\* The end of MainFunc: the owner still holds the fiber, which only swaps out.
LEMMA EndSwitchInv ==
  ASSUME IInv, NEW t \in Thread, EndSwitch(t)
  PROVE  IInv'
<1> USE FiberAssumption DEF EndSwitch, Release, Destroy, SetThis, MainFiber, At, objVars,
                            refVars, threadVars
<1> DEFINE f == on[t]
<1>1. InFiber(t) /\ Own(t, f) /\ f # t /\ arg[t] = f /\ m_state[f] \in Ended
  BY DEF IInv, ThreadOK, InMainCode, Entering, InFiber, Own, Obj
<1>2. ASSUME NEW u \in Thread, u # t PROVE on[u] # f /\ arg[u] # f
  BY <1>1, <1>2, HandledByOwner DEF Own
<1>3. held[arg[t]]
  BY <1>1 DEF Own
<1>4. /\ ctx' = [ctx EXCEPT ![f] = Ctx(f, "end")]
      /\ on' = [on EXCEPT ![t] = t]
      /\ pc' = [pc EXCEPT ![t] = "user"]
      /\ arg' = [arg EXCEPT ![t] = Null]
      /\ inMain' = [inMain EXCEPT ![f] = FALSE]
      /\ fault' = "none"
  <2> DEFINE refs == [inMain EXCEPT ![arg[t]] = FALSE]
  <2>1. refs \in [Fib -> BOOLEAN]
    BY DEF IInv, TypeOK
  <2>2. SwapContext(t, arg[t], t_threadFiber[t], "end", refs)
    BY <1>3
  <2>3. "end" \in Point
    BY DEF Point
  <2>4. refs = [inMain EXCEPT ![f] = FALSE]
    BY <1>1
  <2> HIDE DEF refs, f
  <2> HIDE DEF EndSwitch, Release, Destroy, SetThis, MainFiber
  <2>5. InFiber(t) /\ arg[t] = on[t]
    BY <1>1 DEF f
  <2>6. /\ ctx' = [ctx EXCEPT ![on[t]] = Ctx(on[t], "end")]
        /\ on' = [on EXCEPT ![t] = t]
        /\ pc' = [pc EXCEPT ![t] = "user"]
        /\ arg' = [arg EXCEPT ![t] = Null]
        /\ inMain' = refs
        /\ fault' = "none"
    BY <2>1, <2>2, <2>3, <2>5, LeaveFiber
  <2> QED BY <2>4, <2>6 DEF f
<1>5. t_fiber' = [t_fiber EXCEPT ![t] = t] /\ life' = life /\ s_fiber_count' = s_fiber_count
  BY <1>1, <1>3 DEF InFiber
<1>6. TypeOK'
  BY <1>1, <1>4, <1>5 DEF IInv, TypeOK, Location, Point, Obj, Ctx, Own
<1>7. NoFault'
  BY <1>4 DEF NoFault
<1>8. ASSUME NEW u \in Thread PROVE ThreadOK(u)'
  <2>1. ThreadOK(u)
    BY DEF IInv
  <2>2. CASE u = t
    BY <1>1, <1>4, <1>5, <2>1, <2>2
       DEF IInv, TypeOK, ThreadOK, InFiber, InMainCode, MainCurrent, Obj
  <2>3. CASE u # t
    BY <1>1, <1>2, <1>4, <1>5, <2>1, <2>3
       DEF IInv, TypeOK, ThreadOK, InMainCode, MainCurrent, Entering, InFiber,
           Own, Alive, Resumable, Obj
  <2> QED BY <2>2, <2>3
<1>9. ASSUME NEW g \in Fib PROVE FiberOK(g)'
  <2>1. CASE g = f
    BY <1>1, <1>4, <1>5, <2>1
       DEF IInv, TypeOK, FiberOK, InFiber, Resting, Own, Alive, Obj
  <2>2. CASE g # f
    <3>1. Handled(g) => Handled(g)'
      BY <1>1, <1>4, <2>2 DEF Handled, IInv, TypeOK, Obj
    <3> QED BY <1>4, <1>5, <2>2, <3>1 DEF IInv, TypeOK, FiberOK, Resting, Alive, Obj
  <2> QED BY <2>1, <2>2
<1> QED
  BY <1>6, <1>7, <1>8, <1>9 DEF IInv

\* reset only touches a fiber that does not run.
LEMMA ResetInv ==
  ASSUME IInv, Liberty = {}, NEW t \in Thread, NEW f \in Fib, Reset(t, f)
  PROVE  IInv'
<1> USE FiberAssumption DEF Reset, MakeContext, At, May, objVars, refVars, threadVars
<1>1. m_state[f] \in Ended \cup {"INIT"}
  OBVIOUS
<1>2. arg[t] # f
  BY DEF IInv, ThreadOK, InMainCode, Entering, InFiber, Obj
<1>3. ~Handled(f)
  <2>1. ASSUME NEW u \in Thread, on[u] = f \/ arg[u] = f PROVE FALSE
    BY <1>2, <2>1, HandledByOwner DEF Own
  <2> QED BY <2>1 DEF Handled
<1>4. Alive(f) /\ ~inMain[f]
  BY <1>1, <1>3 DEF IInv, FiberOK, Resting, Parked, Ended
<1>5. TypeOK'
  <2>1. [code |-> f, at |-> "entry"] \in [code : Obj, at : Point]
    BY DEF Point, Obj
  <2>2. "INIT" \in State
    BY DEF State
  <2>3. ctx' \in [Obj -> [code : Obj, at : Point]]
    BY <1>1, <2>1 DEF IInv, TypeOK
  <2>4. m_state' = [m_state EXCEPT ![f] = "INIT"] /\ m_cb' = [m_cb EXCEPT ![f] = TRUE]
    BY <1>1
  <2>5. m_state' \in [Obj -> State]
    BY <2>2, <2>4 DEF IInv, TypeOK
  <2>6. m_cb' \in [Obj -> BOOLEAN]
    BY <2>4 DEF IInv, TypeOK
  <2> QED BY <1>1, <2>3, <2>5, <2>6 DEF IInv, TypeOK
<1>6. NoFault'
  BY <1>1 DEF IInv, NoFault
<1>7. ASSUME NEW u \in Thread PROVE ThreadOK(u)'
  <2>1. ThreadOK(u) /\ on[u] # f /\ arg[u] # f
    BY <1>3 DEF IInv, Handled
  <2> QED
    BY <1>1, <2>1 DEF IInv, TypeOK, ThreadOK, InMainCode, Entering, InFiber,
                      MainCurrent, Own, Alive, Resumable, Obj
<1>8. ASSUME NEW g \in Fib PROVE FiberOK(g)'
  BY <1>1, <1>4 DEF IInv, TypeOK, FiberOK, Handled, Resting, Alive, Obj, Ctx
<1> QED
  BY <1>5, <1>6, <1>7, <1>8 DEF IInv

\* ~Fiber of a fiber that does not run, or a drop that destroys nothing.
LEMMA DropInv ==
  ASSUME IInv, NEW t \in Thread, NEW f \in Fib, Drop(t, f)
  PROVE  IInv'
<1> USE FiberAssumption DEF Drop, Release, Destroy, At, objVars, refVars, threadVars
<1>1. ~Handled(f)
  <2>1. ASSUME NEW u \in Thread, on[u] = f \/ arg[u] = f PROVE FALSE
    <3>1. u = t
      BY <2>1, HandledByOwner DEF Own
    <3>2. ThreadOK(t)
      BY DEF IInv
    <3> QED BY <2>1, <3>1, <3>2 DEF ThreadOK, InMainCode, InFiber, Entering, Obj
  <2> QED BY <2>1 DEF Handled
<1>2. Alive(f) /\ Resting(f)
  BY <1>1 DEF IInv, FiberOK
<1>3. TypeOK'
  BY <1>2 DEF IInv, TypeOK, Faults, Obj
<1>4. NoFault'
  BY <1>2 DEF IInv, NoFault, Resting
<1>5. ASSUME NEW u \in Thread PROVE ThreadOK(u)'
  <2>1. ThreadOK(u) /\ on[u] # f /\ arg[u] # f
    BY <1>1 DEF IInv, Handled
  <2> QED
    BY <2>1 DEF IInv, TypeOK, ThreadOK, InMainCode, Entering, InFiber,
                MainCurrent, Own, Alive, Resumable, Obj
<1>6. ASSUME NEW g \in Fib PROVE FiberOK(g)'
  BY <1>1, <1>2 DEF IInv, TypeOK, FiberOK, Handled, Resting, Alive, Obj
<1> QED
  BY <1>3, <1>4, <1>5, <1>6 DEF IInv

\* ~Fiber of a main fiber: it is EXEC and current.
LEMMA ThreadExitInv ==
  ASSUME IInv, NEW t \in Thread, ThreadExit(t)
  PROVE  IInv'
<1> USE FiberAssumption DEF ThreadExit, Destroy, SetThis, At, objVars, refVars, threadVars
<1>1. ThreadOK(t) /\ InMainCode(t)
  BY DEF IInv, ThreadOK, InMainCode, Entering, InFiber, Own, Obj
<1>2. TypeOK'
  BY DEF IInv, TypeOK, Location, Faults, Obj
<1>3. NoFault'
  BY <1>1 DEF IInv, NoFault, ThreadOK, Alive
<1>4. ASSUME NEW u \in Thread PROVE ThreadOK(u)'
  <2>1. ThreadOK(u)
    BY DEF IInv
  <2>2. CASE u = t
    BY <1>1, <2>1, <2>2 DEF IInv, TypeOK, ThreadOK, InMainCode, MainCurrent, Alive, Obj
  <2>3. CASE u # t
    BY <2>1, <2>3 DEF IInv, TypeOK, ThreadOK, InMainCode, MainCurrent, Entering,
                      InFiber, Own, Alive, Resumable, Obj
  <2> QED BY <2>2, <2>3
<1>5. ASSUME NEW g \in Fib PROVE FiberOK(g)'
  BY DEF IInv, TypeOK, FiberOK, Handled, Resting, Alive, Obj
<1> QED
  BY <1>2, <1>3, <1>4, <1>5 DEF IInv

(***************************************************************************)
(* Every step of disciplined threads preserves the invariant.              *)
(***************************************************************************)
LEMMA StepInv ==
  ASSUME IInv, Liberty = {}, [Next]_vars
  PROVE  IInv'
<1>1. CASE UNCHANGED vars
  BY <1>1 DEF vars, objVars, refVars, threadVars, IInv, TypeOK, NoFault, ThreadOK,
              InMainCode, MainCurrent, Entering, InFiber, Own, Alive, Resumable,
              FiberOK, Handled, Resting
<1>2. CASE Stopped
  BY <1>1, <1>2 DEF Stopped
<1>3. ASSUME NEW t \in Thread, Run(t) PROVE IInv'
  BY <1>3, SwapInSwitchInv, SwapOutInv, EndSwitchInv, YieldInv, FinishInv DEF Run
<1>4. ASSUME NEW t \in Thread, Client(t) PROVE IInv'
  BY <1>4, GetThisInv, ThreadExitInv, NewFiberInv, SwapInInv, ResetInv, DropInv,
     HandOverInv DEF Client
<1> QED
  BY <1>1, <1>2, <1>3, <1>4 DEF Next

\* The inductive invariant holds throughout.
THEOREM Inductive ==
  ASSUME Liberty = {}
  PROVE  Spec => []IInv
<1>1. Init => IInv
  BY InitInv
<1>2. IInv /\ [Next]_vars => IInv'
  BY StepInv
<1> QED
  BY <1>1, <1>2, PTL DEF Spec

-----------------------------------------------------------------------------
(***************************************************************************)
(* What follows from the invariant in every state.                         *)
(***************************************************************************)

\* The variables of fiber.cc keep their types in every behaviour.
THEOREM TypeCorrect ==
  ASSUME Liberty = {}
  PROVE  Spec => []TypeOK
<1>1. IInv => TypeOK
  BY DEF IInv
<1> QED
  BY <1>1, Inductive, PTL

\* Client code that only looks at getState() fails no assertion of fiber.cc.
THEOREM NoFaultEver ==
  ASSUME Liberty = {}
  PROVE  Spec => []NoFault
<1>1. IInv => NoFault
  BY DEF IInv
<1> QED
  BY <1>1, Inductive, PTL

\* Fiber::GetThis() always answers for the stack that calls it.
THEOREM GetThisCorrect ==
  ASSUME Liberty = {}
  PROVE  Spec => []GetThisIsRunning
<1>1. IInv => GetThisIsRunning
  BY DEF IInv, GetThisIsRunning, ThreadOK, InMainCode, MainCurrent, Entering, InFiber, At
<1> QED
  BY <1>1, Inductive, PTL

\* swapOut always finds the context swapIn saved for the thread's main code.
THEOREM MainContextCorrect ==
  ASSUME Liberty = {}
  PROVE  Spec => []MainContextKept
<1>1. ASSUME IInv PROVE MainContextKept
  BY <1>1, FiberAssumption
     DEF MainContextKept, IInv, ThreadOK, InMainCode, Entering, InFiber, Ctx, Obj
<1> QED
  BY <1>1, Inductive, PTL

(***************************************************************************)
(* No stack is executed by two threads, although yields store HOLD and     *)
(* READY before their swapcontext: only the owner may act on that state.   *)
(***************************************************************************)
THEOREM StacksApart ==
  ASSUME Liberty = {}
  PROVE  Spec => []OneThreadPerStack
<1>1. ASSUME IInv PROVE OneThreadPerStack
  <2> SUFFICES ASSUME NEW t \in Thread, NEW u \in Thread, on[t] = on[u] PROVE t = u
    BY DEF OneThreadPerStack
  <2>1. CASE on[t] \in Fib
    BY <1>1, <2>1, HandledByOwner DEF Own
  <2>2. CASE on[t] \notin Fib
    BY <1>1, <2>2 DEF IInv, ThreadOK, InMainCode, Entering, InFiber, Own
  <2> QED BY <2>1, <2>2
<1> QED
  BY <1>1, Inductive, PTL

\* m_state tells where a fiber's saved context resumes, whichever thread asks.
THEOREM StateCorrect ==
  ASSUME Liberty = {}
  PROVE  Spec => []StateMatchesContext
<1>1. ASSUME IInv PROVE StateMatchesContext
  <2> SUFFICES ASSUME NEW f \in Fib, Alive(f), ~Handled(f)
               PROVE  /\ m_state[f] # "EXEC"
                      /\ m_state[f] = "INIT" <=> ctx[f].at = "entry"
                      /\ m_state[f] \in Parked <=> ctx[f].at = "swapOut"
                      /\ m_state[f] \in Ended <=> ctx[f].at = "end"
    BY DEF StateMatchesContext, Handled
  <2>1. Resting(f)
    BY <1>1 DEF IInv, FiberOK
  <2> QED BY <2>1 DEF Resting, Parked, Ended, Ctx
<1> QED
  BY <1>1, Inductive, PTL

\* No thread executes, enters or returns to the stack of a destroyed fiber.
THEOREM DeadStackSafe ==
  ASSUME Liberty = {}
  PROVE  Spec => []DeadStackUnused
<1>1. ASSUME IInv PROVE DeadStackUnused
  <2> SUFFICES ASSUME NEW f \in Fib, life[f] = "dead", NEW t \in Thread
               PROVE  on[t] # f /\ arg[t] # f /\ (Alive(t) => ctx[t].code # f)
    BY DEF DeadStackUnused, RunsFiber
  <2>1. on[t] # f /\ arg[t] # f
    BY <1>1, HandledByOwner DEF Own, Alive
  <2>2. Alive(t) => ctx[t].code # f
    BY <1>1, FiberAssumption DEF IInv, ThreadOK, Obj
  <2> QED BY <2>1, <2>2
<1> QED
  BY <1>1, Inductive, PTL

-----------------------------------------------------------------------------
(***************************************************************************)
(* The count.  Every constructor adds one live object and one to the       *)
(* count, every destructor takes one of each, and no other step touches    *)
(* either.                                                                 *)
(***************************************************************************)
Live == {o \in Obj : Alive(o)}

Counted == s_fiber_count = Cardinality(Live)

\* There are finitely many Fiber objects.
LEMMA LiveFinite == IsFiniteSet(Live)
<1>1. IsFiniteSet(Obj)
  BY FiberAssumption, FS_Union DEF Obj
<1> QED
  BY <1>1, FS_Subset DEF Live

\* A constructor: one more live object, ++s_fiber_count.
LEMMA Birth ==
  ASSUME TypeOK, Counted, NEW o \in Obj, ~Alive(o),
         life' = [life EXCEPT ![o] = "alive"], s_fiber_count' = s_fiber_count + 1
  PROVE  Counted'
<1>1. Live' = Live \cup {o} /\ o \notin Live
  BY DEF Live, Alive, TypeOK
<1> QED
  BY <1>1, LiveFinite, FS_AddElement DEF Counted

\* A destructor: one live object less, --s_fiber_count.
LEMMA Death ==
  ASSUME TypeOK, Counted, NEW o \in Obj, Alive(o),
         life' = [life EXCEPT ![o] = "dead"], s_fiber_count' = s_fiber_count - 1
  PROVE  Counted'
<1>1. Live' = Live \ {o} /\ o \in Live
  BY DEF Live, Alive, TypeOK
<1> QED
  BY <1>1, LiveFinite, FS_RemoveElement DEF Counted

\* Every step of the code keeps the count.
LEMMA StepCounted ==
  ASSUME IInv, Counted, [Next]_vars
  PROVE  Counted'
<1>1. TypeOK
  BY DEF IInv
<1>2. CASE UNCHANGED <<life, s_fiber_count>>
  BY <1>2 DEF Counted, Live, Alive
<1>3. ASSUME NEW t \in Thread, GetThis(t) PROVE Counted'
  BY <1>1, <1>3, Birth DEF GetThis, SetThis, Alive, Obj
<1>4. ASSUME NEW t \in Thread, NEW f \in Fib, NewFiber(t, f) PROVE Counted'
  BY <1>1, <1>4, Birth DEF NewFiber, NewId, MakeContext, Alive, Obj
<1>5. ASSUME NEW t \in Thread, NEW f \in Fib, Drop(t, f) PROVE Counted'
  <2>1. Alive(f)
    BY <1>5 DEF Drop, Release, Destroy, IInv, FiberOK
  <2>2. CASE inMain[f]
    BY <1>2, <1>5, <2>2 DEF Drop, Release, Destroy
  <2>3. CASE ~inMain[f]
    BY <1>1, <1>5, <2>1, <2>3, Death DEF Drop, Release, Destroy, Obj
  <2> QED BY <2>2, <2>3
<1>6. ASSUME NEW t \in Thread, ThreadExit(t) PROVE Counted'
  <2>1. CASE Alive(t)
    BY <1>1, <1>6, <2>1, Death DEF ThreadExit, Destroy, SetThis, Obj
  <2>2. CASE ~Alive(t)
    BY <1>2, <1>6, <2>2 DEF ThreadExit, Destroy, SetThis
  <2> QED BY <2>1, <2>2
<1>7. ASSUME NEW t \in Thread, EndSwitch(t) PROVE UNCHANGED <<life, s_fiber_count>>
  <2>1. held[arg[t]]
    BY <1>7 DEF EndSwitch, Release, Destroy, SetThis, MainFiber, At, IInv, ThreadOK,
                InMainCode, Entering, InFiber, Own
  <2> QED BY <1>7, <2>1 DEF EndSwitch, Release, Destroy, SetThis, MainFiber
<1>8. ASSUME NEW t \in Thread, Run(t) PROVE UNCHANGED <<life, s_fiber_count>>
  BY <1>7, <1>8 DEF Run, SwapInSwitch, MainFiber, SwapOut, SetThis, Yield, Finish
<1>9. ASSUME NEW t \in Thread, Client(t) PROVE Counted'
  <2>1. ASSUME NEW f \in Fib, SwapIn(t, f) \/ Reset(t, f) \/ \E u \in Thread : HandOver(t, u, f)
        PROVE  UNCHANGED <<life, s_fiber_count>>
    BY <2>1 DEF SwapIn, SetThis, Reset, MakeContext, HandOver, objVars
  <2> QED
    BY <1>2, <1>3, <1>4, <1>5, <1>6, <1>9, <2>1 DEF Client
<1>10. CASE Stopped \/ UNCHANGED vars
  BY <1>2, <1>10 DEF Stopped, vars, objVars
<1> QED
  BY <1>2, <1>8, <1>9, <1>10 DEF Next

(***************************************************************************)
(* TotalFibers() counts the live fibers, and a fiber that outlives its     *)
(* last handle was dropped while it was parked.                            *)
(***************************************************************************)
THEOREM CountCorrect ==
  ASSUME Liberty = {}
  PROVE  Spec => []CountIsLive
<1>1. Init => Counted
  <2> SUFFICES ASSUME Init PROVE Counted
    OBVIOUS
  <2>1. Live = {}
    BY DEF Init, Live, Alive
  <2> QED BY <2>1, FS_EmptySet DEF Init, Counted
<1>2. IInv /\ Counted /\ [Next]_vars => Counted'
  BY StepCounted
<1>3. ASSUME IInv, Counted PROVE CountIsLive
  <2>1. ASSUME NEW f \in Fib, Alive(f), ~held[f] PROVE m_state[f] \in Parked
    <3>1. ~Handled(f)
      BY <1>3, <2>1, HandledByOwner DEF Handled, Own
    <3> QED
      BY <1>3, <2>1, <3>1 DEF IInv, FiberOK, Resting
  <2> QED BY <1>3, <2>1 DEF CountIsLive, Counted, Live
<1> QED
  BY <1>1, <1>2, <1>3, Inductive, PTL DEF Spec

-----------------------------------------------------------------------------
(***************************************************************************)
(* Fiber implements Coroutine, for any threads and fibers, under the       *)
(* discipline of test_fiber.cpp.  The inductive invariant says where each  *)
(* saved context resumes; with it every step of the code is one step of    *)
(* one coroutine, or changes none.                                         *)
(***************************************************************************)

(***************************************************************************)
(* One coroutine moves and the others stay where they are.                 *)
(***************************************************************************)
LEMMA OneMoves ==
  ASSUME NEW f \in Fib, NEW from, NEW to, PhaseOf(f) \in from, PhaseOf(f)' = to,
         \A g \in Fib : g # f => PhaseOf(g)' = PhaseOf(g)
  PROVE  Abstract!Move(f, from, to)
<1>1. phaseBar' = [g \in Fib |-> PhaseOf(g)']
  BY DEF phaseBar
<1>2. phaseBar' = [phaseBar EXCEPT ![f] = to]
  BY <1>1 DEF phaseBar
<1> QED
  BY <1>2 DEF Abstract!Move, phaseBar

\* No coroutine moves and no thread changes the one it runs.
LEMMA NoneMoves ==
  ASSUME \A g \in Fib : PhaseOf(g)' = PhaseOf(g), on' = on
  PROVE  UNCHANGED <<phaseBar, runsBar>>
<1>1. phaseBar' = [g \in Fib |-> PhaseOf(g)']
  BY DEF phaseBar
<1> QED
  BY <1>1 DEF phaseBar, runsBar

(***************************************************************************)
(* The phase of a fiber depends on its own life, its own context and       *)
(* whether a thread executes its stack.                                    *)
(***************************************************************************)
LEMMA SamePhase ==
  ASSUME NEW f \in Fib, life'[f] = life[f], ctx'[f] = ctx[f],
         RunsFiber(f)' = RunsFiber(f)
  PROVE  PhaseOf(f)' = PhaseOf(f)
BY DEF PhaseOf, Alive

\* The constructor creates a coroutine.
LEMMA NewFiberStep ==
  ASSUME IInv, NEW t \in Thread, NEW f \in Fib, NewFiber(t, f)
  PROVE  Abstract!Create(f)
<1>1. ~RunsFiber(f) /\ ~RunsFiber(f)'
  BY HandledByOwner DEF RunsFiber, NewFiber, NewId, MakeContext, threadVars, Own, Alive
<1>2. PhaseOf(f) = "unborn" /\ PhaseOf(f)' = "fresh"
  BY <1>1 DEF NewFiber, NewId, MakeContext, PhaseOf, Alive, IInv, TypeOK, Obj
<1>3. ASSUME NEW g \in Fib, g # f PROVE PhaseOf(g)' = PhaseOf(g)
  BY <1>3, SamePhase DEF NewFiber, NewId, MakeContext, RunsFiber, threadVars, IInv, TypeOK,
                         Obj
<1>4. Abstract!Move(f, {"unborn"}, "fresh")
  BY <1>2, <1>3, OneMoves
<1> QED
  BY <1>4 DEF Abstract!Create, NewFiber, NewId, MakeContext, threadVars, runsBar

\* reset renews a fresh or finished coroutine.
LEMMA ResetStep ==
  ASSUME IInv, Liberty = {}, NEW t \in Thread, NEW f \in Fib, Reset(t, f)
  PROVE  Abstract!Renew(f)
<1>1. m_state[f] \in Ended \cup {"INIT"} /\ on[t] # f /\ owner[f] = t
  BY DEF Reset, MakeContext, May
<1>2. ~Handled(f)
  <2>1. ASSUME NEW u \in Thread, on[u] = f \/ arg[u] = f PROVE FALSE
    <3>1. u = t
      BY <1>1, <2>1, HandledByOwner DEF Own
    <3> QED BY <1>1, <2>1, <3>1, FiberAssumption
            DEF Reset, MakeContext, At, IInv, ThreadOK, InMainCode, Entering, InFiber, Obj
  <2> QED BY <2>1 DEF Handled
<1>3. ~RunsFiber(f) /\ ~RunsFiber(f)'
  BY <1>2 DEF Handled, RunsFiber, Reset, MakeContext, threadVars
<1>4. Alive(f) /\ Resting(f)
  BY <1>2 DEF Reset, MakeContext, IInv, FiberOK
<1>5. PhaseOf(f) \in {"fresh", "finished"}
  BY <1>1, <1>3, <1>4 DEF PhaseOf, Resting, Alive, Ctx, Ended, Parked
<1>6. PhaseOf(f)' = "fresh"
  BY <1>1, <1>3, <1>4 DEF Reset, MakeContext, PhaseOf, Alive, IInv, TypeOK, Obj
<1>7. ASSUME NEW g \in Fib, g # f PROVE PhaseOf(g)' = PhaseOf(g)
  BY <1>1, <1>7, SamePhase DEF Reset, MakeContext, RunsFiber, threadVars, IInv, TypeOK, Obj
<1>8. Abstract!Move(f, {"fresh", "finished"}, "fresh")
  BY <1>5, <1>6, <1>7, OneMoves
<1> QED
  BY <1>8 DEF Abstract!Renew, Reset, MakeContext, threadVars, runsBar

\* Dropping the last reference releases one; other drops move nothing.
LEMMA DropStep ==
  ASSUME IInv, NEW t \in Thread, NEW f \in Fib, Drop(t, f)
  PROVE  Abstract!Release(f) \/ UNCHANGED <<phaseBar, runsBar>>
<1>1. CASE inMain[f]
  BY <1>1, SamePhase, NoneMoves DEF Drop, Release, Destroy, RunsFiber, threadVars
<1>2. CASE ~inMain[f]
  <2>1. ~Handled(f)
    <3>1. ASSUME NEW u \in Thread, on[u] = f \/ arg[u] = f PROVE FALSE
      <4>1. u = t
        BY <3>1, HandledByOwner DEF Drop, Release, Destroy, Own
      <4> QED BY <3>1, <4>1, FiberAssumption
              DEF Drop, Release, Destroy, At, IInv, ThreadOK, InMainCode, Entering,
                  InFiber, Obj
    <3> QED BY <3>1 DEF Handled
  <2>2. ~RunsFiber(f) /\ ~RunsFiber(f)'
    BY <2>1 DEF Handled, RunsFiber, Drop, Release, Destroy, threadVars
  <2>3. Alive(f) /\ Resting(f)
    BY <2>1 DEF Drop, Release, Destroy, IInv, FiberOK
  <2>4. PhaseOf(f) \in {"fresh", "finished"}
    BY <1>2, <2>2, <2>3 DEF PhaseOf, Resting, Alive, Ctx
  <2>5. PhaseOf(f)' = "gone"
    <3>1. life'[f] = "dead"
      BY <1>2 DEF Drop, Release, Destroy, IInv, TypeOK, Obj
    <3> QED BY <3>1 DEF PhaseOf, Alive
  <2>6. ASSUME NEW g \in Fib, g # f PROVE PhaseOf(g)' = PhaseOf(g)
    BY <1>2, <2>6, SamePhase DEF Drop, Release, Destroy, RunsFiber, threadVars, IInv,
                                 TypeOK, Obj
  <2>7. Abstract!Move(f, {"fresh", "finished"}, "gone")
    BY <2>4, <2>5, <2>6, OneMoves
  <2> QED
    BY <2>7 DEF Abstract!Release, Drop, Release, Destroy, threadVars, runsBar
<1> QED
  BY <1>1, <1>2

\* The swapcontext of swapIn resumes one.
LEMMA SwapInSwitchStep ==
  ASSUME IInv, NEW t \in Thread, SwapInSwitch(t)
  PROVE  \E f \in Fib : Abstract!Resume(t, f)
<1> USE FiberAssumption
<1>1. PICK f \in Fib : f = arg[t]
  BY DEF SwapInSwitch, MainFiber, At, IInv, ThreadOK, InMainCode, Entering, InFiber, Own
<1>2. Entering(t) /\ Own(t, f) /\ on[t] = t
  BY <1>1 DEF SwapInSwitch, MainFiber, At, IInv, ThreadOK, InMainCode, Entering, InFiber,
              Own
<1>3. ctx' = [ctx EXCEPT ![t] = Ctx(t, "swapIn")] /\ on' = [on EXCEPT ![t] = f]
  BY <1>1, <1>2, EnterFiber DEF SwapInSwitch, MainFiber
<1>4. life' = life /\ \A g \in Fib : ctx'[g] = ctx[g]
  BY <1>3 DEF SwapInSwitch, MainFiber, IInv, TypeOK, Obj
<1>5. ~RunsFiber(f) /\ RunsFiber(f)'
  <2>1. \A u \in Thread : on[u] # f
    BY <1>2, HandledByOwner DEF Own, Obj
  <2> QED BY <1>3, <2>1 DEF RunsFiber, IInv, TypeOK
<1>6. PhaseOf(f) \in {"fresh", "suspended"}
  BY <1>1, <1>2, <1>5 DEF PhaseOf, Alive, Own, Entering, Resumable, Ctx
<1>7. PhaseOf(f)' = "running"
  BY <1>2, <1>4, <1>5 DEF PhaseOf, Alive, Own
<1>8. ASSUME NEW g \in Fib, g # f PROVE PhaseOf(g)' = PhaseOf(g)
  <2>1. RunsFiber(g)' = RunsFiber(g)
    BY <1>2, <1>3, <1>8 DEF RunsFiber, IInv, TypeOK, Obj
  <2> QED BY <1>4, <2>1, SamePhase
<1>9. Abstract!Move(f, {"fresh", "suspended"}, "running")
  BY <1>6, <1>7, <1>8, OneMoves
<1>10. runsBar[t] = Null /\ runsBar' = [runsBar EXCEPT ![t] = f]
  BY <1>2, <1>3 DEF runsBar, IInv, TypeOK, Obj
<1> QED
  BY <1>9, <1>10 DEF Abstract!Resume

(***************************************************************************)
(* What SwapOut and EndSwitch have in common: thread t leaves fiber on[t], *)
(* whose context is saved at `point'.                                      *)
(***************************************************************************)
LEMMA LeaveStep ==
  ASSUME IInv, NEW t \in Thread, InFiber(t), NEW point \in {"swapOut", "end"},
         ctx' = [ctx EXCEPT ![on[t]] = Ctx(on[t], point)],
         on' = [on EXCEPT ![t] = t], life' = life
  PROVE  \E f \in Fib : Abstract!Leave(t, f, IF point = "end" THEN "finished" ELSE "suspended")
<1> USE FiberAssumption
<1> DEFINE to == IF point = "end" THEN "finished" ELSE "suspended"
<1>1. PICK f \in Fib : f = on[t] /\ Own(t, f)
  BY DEF InFiber, Own
<1>2. RunsFiber(f)
  BY <1>1 DEF RunsFiber
<1>3. ~RunsFiber(f)'
  <2>1. ASSUME NEW u \in Thread PROVE on'[u] # f
    BY <1>1, HandledByOwner DEF Own, IInv, TypeOK, Obj
  <2> QED BY <2>1 DEF RunsFiber
<1>4. ctx'[f] = Ctx(f, point)
  BY <1>1 DEF IInv, TypeOK, Obj
<1>5. PhaseOf(f) = "running"
  BY <1>1, <1>2 DEF PhaseOf, Alive, Own
<1>6. PhaseOf(f)' = to
  BY <1>1, <1>3, <1>4 DEF PhaseOf, Alive, Own, Ctx
<1>7. ASSUME NEW g \in Fib, g # f PROVE PhaseOf(g)' = PhaseOf(g)
  <2>1. RunsFiber(g)' = RunsFiber(g)
    BY <1>1, <1>7 DEF RunsFiber, IInv, TypeOK, Obj
  <2>2. ctx'[g] = ctx[g]
    BY <1>1, <1>7 DEF IInv, TypeOK, Obj
  <2> QED BY <2>1, <2>2, SamePhase
<1>8. runsBar[t] = f /\ runsBar' = [runsBar EXCEPT ![t] = Null]
  BY <1>1 DEF runsBar, IInv, TypeOK, Obj
<1> HIDE DEF to
<1>9. Abstract!Move(f, {"running"}, to)
  BY <1>5, <1>6, <1>7, OneMoves
<1>10. Abstract!Leave(t, f, to)
  BY <1>8, <1>9 DEF Abstract!Leave
<1> QED
  BY <1>10 DEF to

\* The swapcontext of a yield suspends the one that runs.
LEMMA SwapOutStep ==
  ASSUME IInv, NEW t \in Thread, SwapOut(t)
  PROVE  \E f \in Fib : Abstract!Leave(t, f, "suspended")
<1>1. InFiber(t) /\ arg[t] = on[t]
  BY FiberAssumption DEF SwapOut, SetThis, MainFiber, At, IInv, ThreadOK, InMainCode,
                         Entering, InFiber
<1>2. SwapContext(t, arg[t], t_threadFiber[t], "swapOut", inMain) /\ life' = life
  BY DEF SwapOut, SetThis, MainFiber
<1>3. inMain \in [Fib -> BOOLEAN] /\ "swapOut" \in Point
  BY DEF IInv, TypeOK, Point
<1>4. ctx' = [ctx EXCEPT ![on[t]] = Ctx(on[t], "swapOut")] /\ on' = [on EXCEPT ![t] = t]
  BY <1>1, <1>2, <1>3, LeaveFiber
<1> QED
  BY <1>1, <1>2, <1>4, LeaveStep

\* The last swapcontext of MainFunc finishes it.
LEMMA EndSwitchStep ==
  ASSUME IInv, NEW t \in Thread, EndSwitch(t)
  PROVE  \E f \in Fib : Abstract!Leave(t, f, "finished")
<1> DEFINE refs == [inMain EXCEPT ![arg[t]] = FALSE]
<1>1. InFiber(t) /\ arg[t] = on[t]
  BY FiberAssumption DEF EndSwitch, Release, Destroy, SetThis, MainFiber, At, IInv,
                         ThreadOK, InMainCode, Entering, InFiber
<1>2. held[arg[t]]
  BY <1>1 DEF InFiber, Own
<1>3. SwapContext(t, arg[t], t_threadFiber[t], "end", refs) /\ life' = life
  BY <1>2 DEF EndSwitch, Release, Destroy, SetThis, MainFiber
<1>4. refs \in [Fib -> BOOLEAN] /\ "end" \in Point
  BY DEF IInv, TypeOK, Point
<1> HIDE DEF refs
<1>5. ctx' = [ctx EXCEPT ![on[t]] = Ctx(on[t], "end")] /\ on' = [on EXCEPT ![t] = t]
  BY <1>1, <1>3, <1>4, LeaveFiber
<1> QED
  BY <1>1, <1>3, <1>5, LeaveStep

(***************************************************************************)
(* The steps before a swapcontext, and those of main fibers, move nothing. *)
(***************************************************************************)
LEMMA StutterStep ==
  ASSUME IInv, NEW t \in Thread,
         \/ GetThis(t) \/ ThreadExit(t)
         \/ \E s \in Parked : Yield(t, s)
         \/ \E s \in Ended : Finish(t, s)
         \/ \E f \in Fib : SwapIn(t, f) \/ \E u \in Thread : HandOver(t, u, f)
  PROVE  UNCHANGED <<phaseBar, runsBar>>
<1>1. on' = on /\ ctx' = ctx
  BY DEF GetThis, SetThis, ThreadExit, Destroy, Yield, Finish, SwapIn, HandOver, objVars,
         threadVars
<1>2. \A g \in Fib : life'[g] = life[g]
  BY FiberAssumption DEF GetThis, SetThis, ThreadExit, Destroy, Yield, Finish, SwapIn,
                         HandOver, objVars,
                         IInv, TypeOK, Obj
<1>3. \A g \in Fib : RunsFiber(g)' = RunsFiber(g)
  BY <1>1 DEF RunsFiber
<1> QED
  BY <1>1, <1>2, <1>3, SamePhase, NoneMoves

\* Every step of the code is a step of the coroutines or a stutter.
LEMMA StepRefines ==
  ASSUME IInv, Liberty = {}, [Next]_vars
  PROVE  [Abstract!Next]_<<phaseBar, runsBar>>
<1>1. ASSUME NEW t \in Thread, Run(t) PROVE [Abstract!Next]_<<phaseBar, runsBar>>
  BY <1>1, SwapInSwitchStep, SwapOutStep, EndSwitchStep, StutterStep DEF Run, Abstract!Next
<1>2. ASSUME NEW t \in Thread, Client(t) PROVE [Abstract!Next]_<<phaseBar, runsBar>>
  BY <1>2, NewFiberStep, ResetStep, DropStep, StutterStep DEF Client, Abstract!Next
<1>3. CASE Stopped \/ UNCHANGED vars
  <2>1. on' = on /\ \A g \in Fib : PhaseOf(g)' = PhaseOf(g)
    BY <1>3 DEF Stopped, vars, objVars, threadVars, PhaseOf, RunsFiber, Alive
  <2> QED BY <2>1, NoneMoves
<1> QED
  BY <1>1, <1>2, <1>3 DEF Next

(***************************************************************************)
(* swapIn, the yields, MainFunc, reset and ~Fiber implement coroutines.    *)
(***************************************************************************)
THEOREM FibersAreCoroutines ==
  ASSUME Liberty = {}
  PROVE  Spec => ImplementsCoroutine
<1>1. Init => Abstract!Init
  <2> SUFFICES ASSUME Init PROVE Abstract!Init
    OBVIOUS
  <2>1. \A f \in Fib : PhaseOf(f) = "unborn"
    BY DEF Init, PhaseOf, Alive, Obj
  <2>2. \A t \in Thread : on[t] \notin Fib
    BY FiberAssumption DEF Init
  <2> QED BY <2>1, <2>2 DEF Abstract!Init, phaseBar, runsBar
<1>2. IInv /\ [Next]_vars => [Abstract!Next]_<<phaseBar, runsBar>>
  BY StepRefines
<1> QED
  BY <1>1, <1>2, Inductive, PTL DEF Spec, ImplementsCoroutine, Abstract!Spec, Abstract!vars
=============================================================================
