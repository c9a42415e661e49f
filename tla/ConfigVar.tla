----------------------------- MODULE ConfigVar -----------------------------
(***************************************************************************)
(* ConfigVar<T> of src/config.h: a value that listeners watch, under a     *)
(* read-write lock.  setValue compares and notifies under the read lock,   *)
(* lets it go, and stores under the write lock; listeners are numbered by  *)
(* a counter that is static in addListener, one for all the variables of   *)
(* a type, while the lock is one per variable.                             *)
(*                                                                         *)
(* m_val and m_cbs are only touched under m_mutex, so a critical section   *)
(* that calls nothing back is one step.  pthread's lock admits a reader    *)
(* whenever no writer is inside, which is what glibc does by default.      *)
(***************************************************************************)
EXTENDS Integers, FiniteSets, Functions

CONSTANTS
  Thread,     \* the threads
  Var,        \* the ConfigVar objects of one type T
  Value,      \* the values of T
  Default,    \* the default_value of every variable
  Callback,   \* the functions that are registered
  Throwing,   \* those of them that may throw
  Null,       \* no thread
  MaxCalls    \* bound: the calls each thread makes

ASSUME ConfigVarAssumption ==
  /\ Var # {} /\ Callback # {}
  /\ Default \in Value
  /\ Throwing \subseteq Callback
  /\ Null \notin Thread
  /\ MaxCalls \in Nat

VARIABLES
  m_val,      \* ConfigVar::m_val
  m_cbs,      \* ConfigVar::m_cbs, from ids to callbacks
  readers,    \* the threads that hold m_mutex for reading
  writer,     \* the thread that holds m_mutex for writing, or Null
  s_fun_id,   \* addListener's static counter
  pc,         \* where in a member function each thread stands
  self,       \* the variable it was called on
  v,          \* setValue's argument
  cb,         \* addListener's argument, or the callback setValue has called
  at,         \* the listener setValue's loop has reached
  reg,        \* the counter as addListener loaded or incremented it
  handles,    \* what the clients know: the ids addListener has returned
  called,     \* history: the listeners the current setValue has notified
  watching,   \* history: the listeners there were when it compared
  calls       \* the calls each thread has made

varVars   == <<m_val, m_cbs, readers, writer>>
localVars == <<self, v, cb, at, reg>>
history   == <<called, watching>>
vars == <<varVars, s_fun_id, pc, localVars, handles, history, calls>>

Ids == 0 .. MaxCalls * Cardinality(Thread)

Handle == [var : Var, id : Ids, cb : Callback]

Init ==
  /\ m_val = [x \in Var |-> Default]
  /\ m_cbs = [x \in Var |-> << >>]
  /\ readers = [x \in Var |-> {}]
  /\ writer = [x \in Var |-> Null]
  /\ s_fun_id = 0
  /\ pc = [t \in Thread |-> "idle"]
  /\ self = [t \in Thread |-> CHOOSE x \in Var : TRUE]
  /\ v = [t \in Thread |-> Default]
  /\ cb = [t \in Thread |-> CHOOSE f \in Callback : TRUE]
  /\ at = [t \in Thread |-> 0]
  /\ reg = [t \in Thread |-> 0]
  /\ handles = {}
  /\ called = [t \in Thread |-> {}]
  /\ watching = [t \in Thread |-> {}]
  /\ calls = [t \in Thread |-> 0]

Calls(t) ==
  /\ pc[t] = "idle"
  /\ calls[t] < MaxCalls
  /\ calls' = [calls EXCEPT ![t] = @ + 1]

(***************************************************************************)
(* The lock, the counter and the loop.  Next to a definition stands, where *)
(* a property needs one, a slip of the pen the property catches.           *)
(***************************************************************************)
CanRead(x) == writer[x] = Null

CanWrite_AmongReaders(x) == writer[x] = Null
CanWrite(x)              == writer[x] = Null /\ readers[x] = {}

RdLock(t, x) == CanRead(x) /\ readers' = [readers EXCEPT ![x] = @ \cup {t}]

RdUnlock_Not(t) == UNCHANGED readers
RdUnlock(t)     == readers' = [readers EXCEPT ![self[t]] = @ \ {t}]

NextId_Same(n) == n
NextId(n)      == n + 1

\* The listeners setValue's loop has still to call.
Ahead_OffByOne(t) == {id \in DOMAIN m_cbs[self[t]] : id > at[t] + 1}
Ahead(t)          == {id \in DOMAIN m_cbs[self[t]] : id > at[t]}

Goto(t, loc) == pc' = [pc EXCEPT ![t] = loc]

(***************************************************************************)
(* getValue(), toString() and getListener() read under the read lock.      *)
(***************************************************************************)
Read(t, x) ==
  /\ Calls(t) /\ RdLock(t, x) /\ Goto(t, "reading")
  /\ self' = [self EXCEPT ![t] = x]
  /\ UNCHANGED <<m_val, m_cbs, writer, s_fun_id, v, cb, at, reg, handles, history>>

ReadEnd(t) ==
  /\ pc[t] = "reading"
  /\ RdUnlock(t) /\ Goto(t, "idle")
  /\ UNCHANGED <<m_val, m_cbs, writer, s_fun_id, localVars, handles, history, calls>>

(***************************************************************************)
(* setValue(new): the read lock and the comparison.  An equal value is     *)
(* neither notified nor stored.                                            *)
(***************************************************************************)
SetValue(t, x, new) ==
  /\ Calls(t)
  /\ IF new = m_val[x]
     THEN /\ CanRead(x)
          /\ UNCHANGED <<readers, pc, self, v, at, history>>
     ELSE /\ RdLock(t, x) /\ Goto(t, "notify")
          /\ self' = [self EXCEPT ![t] = x]
          /\ v' = [v EXCEPT ![t] = new]
          /\ at' = [at EXCEPT ![t] = 0]
          /\ called' = [called EXCEPT ![t] = {}]
          /\ watching' = [watching EXCEPT ![t] = DOMAIN m_cbs[x]]
  /\ UNCHANGED <<m_val, m_cbs, writer, s_fun_id, cb, reg, handles>>

\* The loop over m_cbs, in the order of the ids, calls the next listener ...
Notify(t) ==
  /\ pc[t] = "notify"
  /\ \E id \in Ahead(t) :
       /\ \A other \in Ahead(t) : id <= other
       /\ at' = [at EXCEPT ![t] = id]
       /\ cb' = [cb EXCEPT ![t] = m_cbs[self[t]][id]]
  /\ Goto(t, "inCallback")
  /\ UNCHANGED <<varVars, s_fun_id, self, v, reg, handles, history, calls>>

\* ... which returns,
CallbackReturns(t) ==
  /\ pc[t] = "inCallback"
  /\ called' = [called EXCEPT ![t] = @ \cup {at[t]}]
  /\ Goto(t, "notify")
  /\ UNCHANGED <<varVars, s_fun_id, localVars, handles, watching, calls>>

\* or throws: the lock guard lets go and the call ends, without a store.
CallbackThrows(t) ==
  /\ pc[t] = "inCallback"
  /\ cb[t] \in Throwing
  /\ RdUnlock(t) /\ Goto(t, "idle")
  /\ UNCHANGED <<m_val, m_cbs, writer, s_fun_id, localVars, handles, history, calls>>

NotifyEnd(t) ==
  /\ pc[t] = "notify"
  /\ Ahead(t) = {}
  /\ RdUnlock(t) /\ Goto(t, "store")
  /\ UNCHANGED <<m_val, m_cbs, writer, s_fun_id, localVars, handles, history, calls>>

\* The store under the write lock, for which setValue waits.
Store(t) ==
  /\ pc[t] = "store"
  /\ CanWrite(self[t])
  /\ m_val' = [m_val EXCEPT ![self[t]] = v[t]]
  /\ Goto(t, "idle")
  /\ UNCHANGED <<m_cbs, readers, writer, s_fun_id, localVars, handles, history, calls>>

(***************************************************************************)
(* addListener: the write lock of this variable, under which the counter   *)
(* of all variables is loaded and incremented.  The insertion and the      *)
(* return name s_fun_id again: when another variable's addListener races,  *)
(* each reads what the compiler kept or what memory holds.                 *)
(***************************************************************************)
AddListener(t, x, f) ==
  /\ Calls(t)
  /\ CanWrite(x)
  /\ writer' = [writer EXCEPT ![x] = t]
  /\ self' = [self EXCEPT ![t] = x]
  /\ cb' = [cb EXCEPT ![t] = f]
  /\ Goto(t, "load")
  /\ UNCHANGED <<m_val, m_cbs, readers, s_fun_id, v, at, reg, handles, history>>

AddLoad(t) ==
  /\ pc[t] = "load"
  /\ reg' = [reg EXCEPT ![t] = s_fun_id]
  /\ Goto(t, "increment")
  /\ UNCHANGED <<varVars, s_fun_id, self, v, cb, at, handles, history, calls>>

AddIncrement(t) ==
  /\ pc[t] = "increment"
  /\ reg' = [reg EXCEPT ![t] = NextId(@)]
  /\ s_fun_id' = NextId(reg[t])
  /\ Goto(t, "insert")
  /\ UNCHANGED <<varVars, self, v, cb, at, handles, history, calls>>

AddInsert(t) ==
  /\ pc[t] = "insert"
  /\ \E id \in {reg[t], s_fun_id} :
       m_cbs' = [m_cbs EXCEPT ![self[t]] =
                   [i \in DOMAIN @ \cup {id} |-> IF i = id THEN cb[t] ELSE @[i]]]
  /\ Goto(t, "return")
  /\ UNCHANGED <<m_val, readers, writer, s_fun_id, localVars, handles, history, calls>>

AddReturn(t) ==
  /\ pc[t] = "return"
  /\ \E id \in {reg[t], s_fun_id} :
       handles' = handles \cup {[var |-> self[t], id |-> id, cb |-> cb[t]]}
  /\ writer' = [writer EXCEPT ![self[t]] = Null]
  /\ Goto(t, "idle")
  /\ UNCHANGED <<m_val, m_cbs, readers, s_fun_id, localVars, history, calls>>

\* delListener(id), with an id addListener returned for the variable.
DelListener(t, h) ==
  /\ Calls(t)
  /\ h \in handles
  /\ CanWrite(h.var)
  /\ m_cbs' = [m_cbs EXCEPT ![h.var] = Restrict(@, DOMAIN @ \ {h.id})]
  /\ handles' = handles \ {h}
  /\ UNCHANGED <<m_val, readers, writer, s_fun_id, pc, localVars, history>>

ClearListener(t, x) ==
  /\ Calls(t)
  /\ CanWrite(x)
  /\ m_cbs' = [m_cbs EXCEPT ![x] = << >>]
  /\ handles' = {h \in handles : h.var # x}
  /\ UNCHANGED <<m_val, readers, writer, s_fun_id, pc, localVars, history>>

Call(t) ==
  \/ \E x \in Var : \/ Read(t, x)
                    \/ \E new \in Value : SetValue(t, x, new)
                    \/ \E f \in Callback : AddListener(t, x, f)
                    \/ ClearListener(t, x)
  \/ \E h \in handles : DelListener(t, h)

Proceed(t) ==
  \/ ReadEnd(t)
  \/ Notify(t) \/ CallbackReturns(t) \/ CallbackThrows(t) \/ NotifyEnd(t) \/ Store(t)
  \/ AddLoad(t) \/ AddIncrement(t) \/ AddInsert(t) \/ AddReturn(t)

\* The bound on calls is reached.
Done ==
  /\ \A t \in Thread : pc[t] = "idle" /\ calls[t] = MaxCalls
  /\ UNCHANGED vars

Next == (\E t \in Thread : Call(t) \/ Proceed(t)) \/ Done

Spec == Init /\ [][Next]_vars

(***************************************************************************)
(* A thread inside a call is scheduled, and a callback returns or throws.  *)
(***************************************************************************)
FairSpec == Spec /\ \A t \in Thread : WF_vars(Proceed(t))

-----------------------------------------------------------------------------
(***************************************************************************)
(* Properties                                                              *)
(***************************************************************************)

(***************************************************************************)
(* While setValue notifies, the value and the listeners stay what they     *)
(* were: each callback gets the same old value, none is skipped by the     *)
(* loop, and a listener is never running when its delListener has          *)
(* returned.                                                               *)
(***************************************************************************)
NotifyUndisturbed ==
  [][\A x \in Var : (\E t \in Thread : self[t] = x /\ pc[t] \in {"notify", "inCallback"})
       => m_val'[x] = m_val[x] /\ m_cbs'[x] = m_cbs[x]]_vars

(***************************************************************************)
(* setValue stores only when every listener there was at the comparison    *)
(* has been called and has returned: one that throws vetoes the change.    *)
(***************************************************************************)
StoreAfterAllReturned ==
  [][\A x \in Var : m_val'[x] # m_val[x] =>
       \E t \in Thread : /\ pc[t] = "store" /\ self[t] = x /\ v[t] = m_val'[x]
                         /\ called[t] = watching[t]]_vars

(***************************************************************************)
(* An id addListener returned finds the callback it was returned for,      *)
(* until it is deleted or the listeners are cleared (config.h:380).        *)
(***************************************************************************)
IdFindsItsCallback ==
  \A h \in handles : h.id \in DOMAIN m_cbs[h.var] /\ m_cbs[h.var][h.id] = h.cb

(***************************************************************************)
(* Every call returns, the one that waits for the write lock to store and  *)
(* those made while callbacks throw included.                              *)
(***************************************************************************)
CallsReturn == \A t \in Thread : pc[t] # "idle" ~> pc[t] = "idle"
=============================================================================
