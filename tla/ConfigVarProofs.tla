--------------------------- MODULE ConfigVarProofs ---------------------------
(***************************************************************************)
(* Theorems about ConfigVar, for any threads, variables, values and        *)
(* callbacks.                                                              *)
(*                                                                         *)
(* A thread inside setValue's loop holds the lock of its variable for      *)
(* reading, one inside addListener for writing, and a variable that has a  *)
(* writer has no readers.  What setValue read at its comparison is then    *)
(* still so while it notifies; what addListener's counter says of the ids  *)
(* in use holds only where there is one variable of the type.              *)
(***************************************************************************)
EXTENDS ConfigVar, TLAPS

Places == {"idle", "reading", "notify", "inCallback", "store",
           "load", "increment", "insert", "return"}

\* Where a thread holds its variable's lock for reading, and where for writing.
Sharing == {"reading", "notify", "inCallback"}
Adding  == {"load", "increment", "insert", "return"}

\* The values of m_cbs; the counter is incremented before an id is used.
Listeners == UNION {[I -> Callback] : I \in SUBSET (Nat \ {0})}

TypeOK ==
  /\ m_val \in [Var -> Value]
  /\ m_cbs \in [Var -> Listeners]
  /\ readers \in [Var -> SUBSET Thread]
  /\ writer \in [Var -> Thread \cup {Null}]
  /\ s_fun_id \in Nat
  /\ pc \in [Thread -> Places]
  /\ self \in [Thread -> Var]
  /\ v \in [Thread -> Value]
  /\ cb \in [Thread -> Callback]
  /\ at \in [Thread -> Nat]
  /\ reg \in [Thread -> Nat]
  /\ called \in [Thread -> SUBSET Nat]
  /\ watching \in [Thread -> SUBSET Nat]
  /\ handles \subseteq [var : Var, id : Nat, cb : Callback]

Exclusive == \A x \in Var : writer[x] # Null => readers[x] = {}

Locked(t) ==
  /\ pc[t] \in Sharing => t \in readers[self[t]]
  /\ pc[t] \in Adding => writer[self[t]] = t

\* No id is 0, which is where setValue's loop begins.
Numbered(t) == pc[t] \in {"insert", "return"} => reg[t] > 0 /\ s_fun_id > 0

\* How far setValue's loop has come in the listeners there were at the comparison.
Notified(t) ==
  /\ pc[t] \in {"notify", "inCallback"} => watching[t] = DOMAIN m_cbs[self[t]]
  /\ pc[t] = "notify" => called[t] = {id \in watching[t] : id <= at[t]}
  /\ pc[t] = "inCallback" => /\ at[t] \in watching[t]
                             /\ called[t] = {id \in watching[t] : id < at[t]}
  /\ pc[t] = "store" => called[t] = watching[t]

IInv == TypeOK /\ Exclusive /\ \A t \in Thread : Locked(t) /\ Numbered(t) /\ Notified(t)

(***************************************************************************)
(* With one variable of the type its lock guards the counter: what a       *)
(* thread has loaded is what memory holds, and no id has been given out    *)
(* that is beyond it.                                                      *)
(***************************************************************************)
Counted(t) ==
  /\ pc[t] \in {"increment", "insert", "return"} => reg[t] = s_fun_id
  /\ pc[t] = "insert" => \A x \in Var : s_fun_id \notin DOMAIN m_cbs[x]
  /\ pc[t] = "return" => /\ s_fun_id \in DOMAIN m_cbs[self[t]]
                         /\ m_cbs[self[t]][s_fun_id] = cb[t]

IdsInv ==
  /\ IdFindsItsCallback
  /\ \A x \in Var : \A id \in DOMAIN m_cbs[x] : id <= s_fun_id
  /\ \A t \in Thread : Counted(t)

OneVar == \A x, y \in Var : x = y

-----------------------------------------------------------------------------
\* What is known of a member of Listeners, and how one is recognised.
LEMMA ListenersAre ==
  /\ \A f \in Listeners : /\ DOMAIN f \subseteq Nat \ {0}
                          /\ \A id \in DOMAIN f : f[id] \in Callback
                          /\ f = [id \in DOMAIN f |-> f[id]]
  /\ \A I \in SUBSET (Nat \ {0}) : \A f \in [I -> Callback] : f \in Listeners
<1>1. \A f \in Listeners : \E I \in SUBSET (Nat \ {0}) : f \in [I -> Callback]
  BY DEF Listeners
<1>2. \A I \in SUBSET (Nat \ {0}) : \A f \in [I -> Callback] : f \in Listeners
  BY DEF Listeners
<1> QED BY <1>1, <1>2

LEMMA EmptyListeners == << >> \in Listeners /\ DOMAIN << >> = {}
<1>1. << >> = [i \in {} |-> i]
  OBVIOUS
<1>2. << >> \in [{} -> Callback]
  BY <1>1
<1> QED BY <1>1, <1>2, ListenersAre

(***************************************************************************)
(* What a step of one thread leaves alone: what is local to the others,    *)
(* the locks they hold, and the variables that others share or add to.     *)
(***************************************************************************)
OwnOnly(t) ==
  /\ \A u \in Thread \ {t} :
       /\ pc'[u] = pc[u] /\ self'[u] = self[u] /\ v'[u] = v[u] /\ cb'[u] = cb[u]
       /\ at'[u] = at[u] /\ reg'[u] = reg[u]
       /\ called'[u] = called[u] /\ watching'[u] = watching[u]
       /\ \A x \in Var : /\ u \in readers[x] => u \in readers'[x]
                         /\ writer[x] = u => writer'[x] = u
  /\ \A x \in Var : \/ m_val'[x] = m_val[x] /\ m_cbs'[x] = m_cbs[x]
                    \/ readers[x] = {} /\ writer[x] \in {Null, t}
  /\ s_fun_id' # s_fun_id => pc[t] = "increment" /\ s_fun_id' = reg[t] + 1

Kept(t) ==
  TypeOK' /\ Exclusive' /\ OwnOnly(t) /\ Locked(t)' /\ Numbered(t)' /\ Notified(t)'

LEMMA ReadKept ==
  ASSUME IInv, NEW t \in Thread, NEW x \in Var, Read(t, x)
  PROVE  Kept(t)
<1>1. TypeOK'
  BY DEF IInv, TypeOK, Places, Read, Calls, Goto, RdLock, history, CanRead
<1>2. OwnOnly(t)
  BY DEF OwnOnly, IInv, TypeOK, Locked, Adding, Read, Calls, Goto, RdLock, history, CanRead
<1>3. Exclusive' /\ Locked(t)'
  BY ConfigVarAssumption
  DEF Exclusive, Locked, Sharing, Adding, IInv, TypeOK, Read, Calls, Goto, RdLock, history,
      CanRead
<1>4. Numbered(t)' /\ Notified(t)'
  BY DEF Numbered, Notified, IInv, TypeOK, Ahead, Read, Calls, Goto, RdLock, history, CanRead
<1> QED
  BY <1>1, <1>2, <1>3, <1>4 DEF Kept

LEMMA ReadEndKept ==
  ASSUME IInv, NEW t \in Thread, ReadEnd(t)
  PROVE  Kept(t)
<1>1. TypeOK'
  BY DEF IInv, TypeOK, Places, ReadEnd, Goto, RdUnlock, localVars, history
<1>2. OwnOnly(t)
  BY DEF OwnOnly, IInv, TypeOK, Locked, Adding, ReadEnd, Goto, RdUnlock, localVars, history
<1>3. Exclusive' /\ Locked(t)'
  BY ConfigVarAssumption
  DEF Exclusive, Locked, Sharing, Adding, IInv, TypeOK, ReadEnd, Goto, RdUnlock, localVars,
      history
<1>4. Numbered(t)' /\ Notified(t)'
  BY DEF Numbered, Notified, IInv, TypeOK, Ahead, ReadEnd, Goto, RdUnlock, localVars, history
<1> QED
  BY <1>1, <1>2, <1>3, <1>4 DEF Kept

\* The comparison is where setValue first looks at the listeners.
LEMMA SetValueKept ==
  ASSUME IInv, NEW t \in Thread, NEW x \in Var, NEW new \in Value, SetValue(t, x, new)
  PROVE  Kept(t)
<1>1. DOMAIN m_cbs[x] \subseteq Nat \ {0}
  BY ListenersAre DEF IInv, TypeOK
<1>2. UNCHANGED <<m_val, m_cbs, writer, s_fun_id, cb, reg, handles>>
  BY DEF SetValue
<1>3. CASE new = m_val[x]
  <2>1. UNCHANGED <<readers, pc, self, v, at, called, watching>>
    BY <1>3 DEF SetValue, history
  <2> QED
    BY <1>2, <2>1
    DEF Kept, IInv, TypeOK, Exclusive, OwnOnly, Locked, Numbered, Notified
<1>4. CASE new # m_val[x]
  <2>1. /\ writer[x] = Null /\ pc[t] = "idle"
        /\ readers' = [readers EXCEPT ![x] = @ \cup {t}]
        /\ pc' = [pc EXCEPT ![t] = "notify"]
        /\ self' = [self EXCEPT ![t] = x]
        /\ v' = [v EXCEPT ![t] = new]
        /\ at' = [at EXCEPT ![t] = 0]
        /\ called' = [called EXCEPT ![t] = {}]
        /\ watching' = [watching EXCEPT ![t] = DOMAIN m_cbs[x]]
    BY <1>4 DEF SetValue, RdLock, CanRead, Calls, Goto
  <2>2. TypeOK'
    <3>1. watching' \in [Thread -> SUBSET Nat] /\ readers' \in [Var -> SUBSET Thread]
      BY <1>1, <2>1 DEF IInv, TypeOK
    <3> QED BY <1>2, <2>1, <3>1 DEF IInv, TypeOK, Places
  <2>3. OwnOnly(t)
    BY <1>2, <2>1 DEF OwnOnly, IInv, TypeOK
  <2>4. Exclusive' /\ Locked(t)'
    BY <1>2, <2>1 DEF Exclusive, Locked, Sharing, Adding, IInv, TypeOK
  <2>5. Numbered(t)' /\ Notified(t)'
    BY <1>1, <1>2, <2>1 DEF Numbered, Notified, IInv, TypeOK
  <2> QED BY <2>2, <2>3, <2>4, <2>5 DEF Kept
<1> QED BY <1>3, <1>4

LEMMA NotifyKept ==
  ASSUME IInv, NEW t \in Thread, Notify(t)
  PROVE  Kept(t)
<1>1. TypeOK'
  BY ListenersAre DEF IInv, TypeOK, Places, Notify, Ahead, Goto, varVars, history
<1>2. OwnOnly(t)
  BY DEF OwnOnly, IInv, TypeOK, Locked, Adding, Notify, Ahead, Goto, varVars, history
<1>3. Exclusive' /\ Locked(t)'
  BY ConfigVarAssumption
  DEF Exclusive, Locked, Sharing, Adding, IInv, TypeOK, Notify, Ahead, Goto, varVars, history
<1>4. Numbered(t)' /\ Notified(t)'
  BY ListenersAre
  DEF Numbered, Notified, IInv, TypeOK, Ahead, Notify, Ahead, Goto, varVars, history
<1> QED
  BY <1>1, <1>2, <1>3, <1>4 DEF Kept

LEMMA CallbackReturnsKept ==
  ASSUME IInv, NEW t \in Thread, CallbackReturns(t)
  PROVE  Kept(t)
<1>1. TypeOK'
  BY DEF IInv, TypeOK, Places, CallbackReturns, Goto, varVars, localVars
<1>2. OwnOnly(t)
  BY DEF OwnOnly, IInv, TypeOK, Locked, Adding, CallbackReturns, Goto, varVars, localVars
<1>3. Exclusive' /\ Locked(t)'
  BY ConfigVarAssumption
  DEF Exclusive, Locked, Sharing, Adding, IInv, TypeOK, CallbackReturns, Goto, varVars,
      localVars
<1>4. Numbered(t)' /\ Notified(t)'
  BY DEF Numbered, Notified, IInv, TypeOK, Ahead, CallbackReturns, Goto, varVars, localVars
<1> QED
  BY <1>1, <1>2, <1>3, <1>4 DEF Kept

LEMMA CallbackThrowsKept ==
  ASSUME IInv, NEW t \in Thread, CallbackThrows(t)
  PROVE  Kept(t)
<1>1. TypeOK'
  BY DEF IInv, TypeOK, Places, CallbackThrows, Goto, RdUnlock, localVars, history
<1>2. OwnOnly(t)
  BY DEF OwnOnly, IInv, TypeOK, Locked, Adding, CallbackThrows, Goto, RdUnlock, localVars,
         history
<1>3. Exclusive' /\ Locked(t)'
  BY ConfigVarAssumption
  DEF Exclusive, Locked, Sharing, Adding, IInv, TypeOK, CallbackThrows, Goto, RdUnlock,
      localVars, history
<1>4. Numbered(t)' /\ Notified(t)'
  BY DEF Numbered, Notified, IInv, TypeOK, Ahead, CallbackThrows, Goto, RdUnlock, localVars,
         history
<1> QED
  BY <1>1, <1>2, <1>3, <1>4 DEF Kept

\* The loop is over when there is no listener beyond the last one called.
LEMMA NotifyEndKept ==
  ASSUME IInv, NEW t \in Thread, NotifyEnd(t)
  PROVE  Kept(t)
<1>1. /\ pc[t] = "notify" /\ pc' = [pc EXCEPT ![t] = "store"]
      /\ Ahead(t) = {}
      /\ readers' = [readers EXCEPT ![self[t]] = @ \ {t}]
      /\ UNCHANGED <<m_val, m_cbs, writer, s_fun_id, self, v, cb, at, reg, handles,
                     called, watching>>
  BY DEF NotifyEnd, Goto, RdUnlock, localVars, history
<1>2. TypeOK'
  BY <1>1 DEF IInv, TypeOK, Places
<1>3. OwnOnly(t)
  BY <1>1 DEF OwnOnly, IInv, TypeOK
<1>4. Exclusive' /\ Locked(t)'
  BY <1>1 DEF Exclusive, Locked, Sharing, Adding, IInv, TypeOK
<1>5. called[t] = watching[t]
  <2>1. /\ watching[t] = DOMAIN m_cbs[self[t]]
        /\ called[t] = {id \in watching[t] : id <= at[t]}
    BY <1>1 DEF IInv, Notified
  <2>2. at[t] \in Nat /\ m_cbs[self[t]] \in Listeners
    BY DEF IInv, TypeOK
  <2>3. \A id \in DOMAIN m_cbs[self[t]] : id \in Nat /\ ~(id > at[t])
    BY <1>1, <2>2, ListenersAre DEF Ahead
  <2> QED BY <2>1, <2>2, <2>3
<1>6. Numbered(t)' /\ Notified(t)'
  BY <1>1, <1>5 DEF Numbered, Notified, IInv, TypeOK
<1> QED
  BY <1>2, <1>3, <1>4, <1>6 DEF Kept

LEMMA StoreKept ==
  ASSUME IInv, NEW t \in Thread, Store(t)
  PROVE  Kept(t)
<1>1. TypeOK'
  BY DEF IInv, TypeOK, Places, Store, Goto, CanWrite, localVars, history
<1>2. OwnOnly(t)
  BY DEF OwnOnly, IInv, TypeOK, Locked, Adding, Store, Goto, CanWrite, localVars, history
<1>3. Exclusive' /\ Locked(t)'
  BY ConfigVarAssumption
  DEF Exclusive, Locked, Sharing, Adding, IInv, TypeOK, Store, Goto, CanWrite, localVars,
      history
<1>4. Numbered(t)' /\ Notified(t)'
  BY DEF Numbered, Notified, IInv, TypeOK, Ahead, Store, Goto, CanWrite, localVars, history
<1> QED
  BY <1>1, <1>2, <1>3, <1>4 DEF Kept

LEMMA AddListenerKept ==
  ASSUME IInv, NEW t \in Thread, NEW x \in Var, NEW f \in Callback, AddListener(t, x, f)
  PROVE  Kept(t)
<1>1. TypeOK'
  BY DEF IInv, TypeOK, Places, AddListener, Calls, Goto, CanWrite, history
<1>2. OwnOnly(t)
  BY ConfigVarAssumption
  DEF OwnOnly, IInv, TypeOK, Locked, Adding, AddListener, Calls, Goto, CanWrite, history
<1>3. Exclusive' /\ Locked(t)'
  BY ConfigVarAssumption
  DEF Exclusive, Locked, Sharing, Adding, IInv, TypeOK, AddListener, Calls, Goto, CanWrite,
      history
<1>4. Numbered(t)' /\ Notified(t)'
  BY DEF Numbered, Notified, IInv, TypeOK, Ahead, AddListener, Calls, Goto, CanWrite, history
<1> QED
  BY <1>1, <1>2, <1>3, <1>4 DEF Kept

LEMMA AddLoadKept ==
  ASSUME IInv, NEW t \in Thread, AddLoad(t)
  PROVE  Kept(t)
<1>1. TypeOK'
  BY DEF IInv, TypeOK, Places, AddLoad, Goto, varVars, history
<1>2. OwnOnly(t)
  BY DEF OwnOnly, IInv, TypeOK, Locked, Adding, AddLoad, Goto, varVars, history
<1>3. Exclusive' /\ Locked(t)'
  BY ConfigVarAssumption
  DEF Exclusive, Locked, Sharing, Adding, IInv, TypeOK, AddLoad, Goto, varVars, history
<1>4. Numbered(t)' /\ Notified(t)'
  BY DEF Numbered, Notified, IInv, TypeOK, Ahead, AddLoad, Goto, varVars, history
<1> QED
  BY <1>1, <1>2, <1>3, <1>4 DEF Kept

LEMMA AddIncrementKept ==
  ASSUME IInv, NEW t \in Thread, AddIncrement(t)
  PROVE  Kept(t)
<1>1. TypeOK'
  BY DEF IInv, TypeOK, Places, AddIncrement, Goto, NextId, varVars, history
<1>2. OwnOnly(t)
  BY DEF OwnOnly, IInv, TypeOK, Locked, Adding, AddIncrement, Goto, NextId, varVars, history
<1>3. Exclusive' /\ Locked(t)'
  BY ConfigVarAssumption
  DEF Exclusive, Locked, Sharing, Adding, IInv, TypeOK, AddIncrement, Goto, NextId, varVars,
      history
<1>4. Numbered(t)' /\ Notified(t)'
  BY DEF Numbered, Notified, IInv, TypeOK, Ahead, AddIncrement, Goto, NextId, varVars, history
<1> QED
  BY <1>1, <1>2, <1>3, <1>4 DEF Kept

\* An insertion under a number that is not 0.
LEMMA AddInsertKept ==
  ASSUME IInv, NEW t \in Thread, AddInsert(t)
  PROVE  Kept(t)
<1>1. PICK id \in {reg[t], s_fun_id} :
        m_cbs' = [m_cbs EXCEPT ![self[t]] =
                    [i \in DOMAIN @ \cup {id} |-> IF i = id THEN cb[t] ELSE @[i]]]
  BY DEF AddInsert
<1>2. /\ pc[t] = "insert" /\ pc' = [pc EXCEPT ![t] = "return"]
      /\ UNCHANGED <<m_val, readers, writer, s_fun_id, self, v, cb, at, reg, handles,
                     called, watching>>
  BY DEF AddInsert, Goto, localVars, history
<1>3. id \in Nat \ {0} /\ cb[t] \in Callback /\ self[t] \in Var /\ m_cbs[self[t]] \in Listeners
  BY <1>2 DEF IInv, TypeOK, Numbered
<1>4. m_cbs'[self[t]] \in Listeners
  <2> DEFINE f == m_cbs[self[t]]
             g == [i \in DOMAIN f \cup {id} |-> IF i = id THEN cb[t] ELSE f[i]]
  <2>1. DOMAIN f \cup {id} \in SUBSET (Nat \ {0})
    BY <1>3, ListenersAre
  <2>2. g \in [DOMAIN f \cup {id} -> Callback]
    BY <1>3, ListenersAre
  <2>3. m_cbs'[self[t]] = g
    BY <1>1, <1>3 DEF IInv, TypeOK
  <2> QED BY <2>1, <2>2, <2>3, ListenersAre
<1>5. \A x \in Var \ {self[t]} : m_cbs'[x] = m_cbs[x]
  BY <1>1 DEF IInv, TypeOK
<1>6. TypeOK'
  <2>1. m_cbs' \in [Var -> Listeners]
    BY <1>1, <1>4, <1>5 DEF IInv, TypeOK
  <2> QED BY <1>2, <2>1 DEF IInv, TypeOK, Places
<1>7. writer[self[t]] = t /\ readers[self[t]] = {}
  BY <1>2, <1>3, ConfigVarAssumption DEF IInv, Exclusive, Locked, Adding
<1>8. OwnOnly(t)
  BY <1>2, <1>5, <1>7 DEF OwnOnly, IInv, TypeOK
<1>9. Exclusive' /\ Locked(t)' /\ Numbered(t)' /\ Notified(t)'
  BY <1>2, <1>7
  DEF Exclusive, Locked, Numbered, Notified, Sharing, Adding, IInv, TypeOK
<1> QED
  BY <1>6, <1>8, <1>9 DEF Kept

LEMMA AddReturnKept ==
  ASSUME IInv, NEW t \in Thread, AddReturn(t)
  PROVE  Kept(t)
<1>1. TypeOK'
  BY DEF IInv, TypeOK, Places, AddReturn, Goto, localVars, history
<1>2. OwnOnly(t)
  BY DEF OwnOnly, IInv, TypeOK, Locked, Adding, AddReturn, Goto, localVars, history
<1>3. Exclusive' /\ Locked(t)'
  BY ConfigVarAssumption
  DEF Exclusive, Locked, Sharing, Adding, IInv, TypeOK, AddReturn, Goto, localVars, history
<1>4. Numbered(t)' /\ Notified(t)'
  BY DEF Numbered, Notified, IInv, TypeOK, Ahead, AddReturn, Goto, localVars, history
<1> QED
  BY <1>1, <1>2, <1>3, <1>4 DEF Kept

\* What is left of a variable's listeners are listeners.
LEMMA DelListenerKept ==
  ASSUME IInv, NEW t \in Thread, NEW h, DelListener(t, h)
  PROVE  Kept(t)
<1>1. /\ h \in handles /\ pc[t] = "idle"
      /\ writer[h.var] = Null /\ readers[h.var] = {}
      /\ m_cbs' = [m_cbs EXCEPT ![h.var] = Restrict(@, DOMAIN @ \ {h.id})]
      /\ handles' = handles \ {h}
      /\ UNCHANGED <<m_val, readers, writer, s_fun_id, pc, self, v, cb, at, reg,
                     called, watching>>
  BY DEF DelListener, CanWrite, Calls, localVars, history
<1>2. h.var \in Var
  BY <1>1 DEF IInv, TypeOK
<1>3. m_cbs'[h.var] \in Listeners
  <2> DEFINE f == m_cbs[h.var]
             I == DOMAIN f \ {h.id}
  <2>1. f \in Listeners
    BY <1>2 DEF IInv, TypeOK
  <2>2. I \in SUBSET (Nat \ {0}) /\ [i \in I |-> f[i]] \in [I -> Callback]
    BY <2>1, ListenersAre
  <2>3. m_cbs'[h.var] = [i \in I |-> f[i]]
    BY <1>1, <1>2 DEF IInv, TypeOK, Restrict
  <2> QED BY <2>2, <2>3, ListenersAre
<1>4. \A x \in Var \ {h.var} : m_cbs'[x] = m_cbs[x]
  BY <1>1 DEF IInv, TypeOK
<1>5. TypeOK'
  <2>1. m_cbs' \in [Var -> Listeners]
    BY <1>1, <1>3, <1>4 DEF IInv, TypeOK
  <2> QED BY <1>1, <2>1 DEF IInv, TypeOK
<1>6. OwnOnly(t)
  BY <1>1, <1>4 DEF OwnOnly
<1>7. Exclusive' /\ Locked(t)' /\ Numbered(t)' /\ Notified(t)'
  BY <1>1 DEF Exclusive, Locked, Numbered, Notified, Sharing, Adding, IInv, TypeOK
<1> QED
  BY <1>5, <1>6, <1>7 DEF Kept

LEMMA ClearListenerKept ==
  ASSUME IInv, NEW t \in Thread, NEW x \in Var, ClearListener(t, x)
  PROVE  Kept(t)
<1>1. /\ pc[t] = "idle" /\ writer[x] = Null /\ readers[x] = {}
      /\ m_cbs' = [m_cbs EXCEPT ![x] = << >>]
      /\ handles' = {h \in handles : h.var # x}
      /\ UNCHANGED <<m_val, readers, writer, s_fun_id, pc, self, v, cb, at, reg,
                     called, watching>>
  BY DEF ClearListener, CanWrite, Calls, localVars, history
<1>2. TypeOK'
  BY <1>1, EmptyListeners DEF IInv, TypeOK
<1>3. OwnOnly(t)
  BY <1>1 DEF OwnOnly, IInv, TypeOK
<1>4. Exclusive' /\ Locked(t)' /\ Numbered(t)' /\ Notified(t)'
  BY <1>1 DEF Exclusive, Locked, Numbered, Notified, Sharing, Adding, IInv, TypeOK
<1> QED
  BY <1>2, <1>3, <1>4 DEF Kept

LEMMA StepsKept ==
  ASSUME IInv, NEW t \in Thread, Call(t) \/ Proceed(t)
  PROVE  Kept(t)
<1>1. CASE Call(t)
  BY <1>1, ReadKept, SetValueKept, AddListenerKept, ClearListenerKept, DelListenerKept DEF Call
<1>2. CASE Proceed(t)
  BY <1>2, ReadEndKept, NotifyKept, CallbackReturnsKept, CallbackThrowsKept, NotifyEndKept,
     StoreKept, AddLoadKept, AddIncrementKept, AddInsertKept, AddReturnKept
  DEF Proceed
<1> QED BY <1>1, <1>2

LEMMA InvariantKept == IInv /\ [Next]_vars => IInv'
<1> SUFFICES ASSUME IInv, [Next]_vars PROVE IInv'
  OBVIOUS
<1>1. ASSUME NEW t \in Thread, Call(t) \/ Proceed(t)
      PROVE  IInv'
  <2>1. Kept(t)
    BY <1>1, StepsKept
  <2>2. ASSUME NEW u \in Thread \ {t}
        PROVE  Locked(u)' /\ Numbered(u)' /\ Notified(u)'
    <3>1. /\ pc'[u] = pc[u] /\ self'[u] = self[u] /\ at'[u] = at[u] /\ reg'[u] = reg[u]
          /\ called'[u] = called[u] /\ watching'[u] = watching[u] /\ self[u] \in Var
      BY <2>1 DEF Kept, OwnOnly, IInv, TypeOK
    <3>2. Locked(u)'
      BY <2>1, <3>1 DEF Kept, OwnOnly, Locked, IInv
    <3>3. Numbered(u)'
      BY <2>1, <3>1 DEF Kept, OwnOnly, Numbered, IInv, TypeOK
    <3>4. pc[u] \in {"notify", "inCallback"} => m_cbs'[self[u]] = m_cbs[self[u]]
      BY <2>1, <3>1 DEF Kept, OwnOnly, Locked, Sharing, IInv
    <3>5. Notified(u)'
      BY <3>1, <3>4 DEF Notified, IInv
    <3> QED BY <3>2, <3>3, <3>5
  <2> QED BY <2>1, <2>2 DEF Kept, IInv
<1>2. CASE UNCHANGED vars
  BY <1>2 DEF IInv, TypeOK, Exclusive, Locked, Numbered, Notified,
     vars, varVars, localVars, history
<1> QED
  BY <1>1, <1>2 DEF Next, Done

(***************************************************************************)
(* In any behaviour of the ConfigVars of config.h: setValue holds the      *)
(* read lock through its loop and addListener the write lock, never both   *)
(* on one variable, and the loop has called exactly the listeners of its   *)
(* comparison up to the place it has come to.                              *)
(***************************************************************************)
THEOREM Inductive == Spec => []IInv
<1>1. Init => IInv
  <2> SUFFICES ASSUME Init PROVE IInv
    OBVIOUS
  <2>1. (CHOOSE x \in Var : TRUE) \in Var /\ (CHOOSE f \in Callback : TRUE) \in Callback
    BY ConfigVarAssumption
  <2>2. TypeOK
    BY <2>1, EmptyListeners, ConfigVarAssumption DEF Init, TypeOK, Places
  <2> QED
    BY <2>2 DEF Init, IInv, Exclusive, Locked, Numbered, Notified, Sharing, Adding
<1> QED
  BY <1>1, InvariantKept, PTL DEF Spec

(***************************************************************************)
(* setValue's loop under the read lock: the value and the listeners do not *)
(* change while a callback runs or is about to.                            *)
(***************************************************************************)
THEOREM Undisturbed == Spec => NotifyUndisturbed
<1> DEFINE Still == \A x \in Var :
      (\E t \in Thread : self[t] = x /\ pc[t] \in {"notify", "inCallback"})
        => m_val'[x] = m_val[x] /\ m_cbs'[x] = m_cbs[x]
<1>1. IInv /\ [Next]_vars => Still
  <2> SUFFICES ASSUME IInv, [Next]_vars, NEW x \in Var, NEW u \in Thread,
                      self[u] = x, pc[u] \in {"notify", "inCallback"}
               PROVE  m_val'[x] = m_val[x] /\ m_cbs'[x] = m_cbs[x]
    OBVIOUS
  <2>1. u \in readers[x]
    BY DEF IInv, Locked, Sharing
  <2>2. CASE \E t \in Thread : Call(t) \/ Proceed(t)
    BY <2>1, <2>2, StepsKept DEF Kept, OwnOnly
  <2>3. CASE UNCHANGED vars
    BY <2>3 DEF vars, varVars
  <2> QED BY <2>2, <2>3 DEF Next, Done
<1>2. Still => [Still]_vars
  OBVIOUS
<1> HIDE DEF Still
<1>3. Spec => [][Still]_vars
  BY <1>1, <1>2, Inductive, PTL DEF Spec
<1> QED
  BY <1>3 DEF NotifyUndisturbed, Still

(***************************************************************************)
(* setValue stores after its loop only: when every listener it found at    *)
(* the comparison has been called and has returned without throwing.       *)
(***************************************************************************)
THEOREM StoredAfterAll == Spec => StoreAfterAllReturned
<1> DEFINE Stored == \A x \in Var : m_val'[x] # m_val[x] =>
      \E t \in Thread : /\ pc[t] = "store" /\ self[t] = x /\ v[t] = m_val'[x]
                        /\ called[t] = watching[t]
<1>1. IInv /\ [Next]_vars => Stored
  <2> SUFFICES ASSUME IInv, [Next]_vars PROVE Stored
    OBVIOUS
  <2>1. ASSUME NEW t \in Thread, Store(t)
        PROVE  Stored
    <3>1. /\ pc[t] = "store" /\ m_val' = [m_val EXCEPT ![self[t]] = v[t]]
          /\ called[t] = watching[t] /\ self[t] \in Var
      BY <2>1 DEF Store, IInv, TypeOK, Notified
    <3> QED BY <3>1 DEF IInv, TypeOK
  <2>2. ASSUME NEW t \in Thread, Call(t) \/ Proceed(t), ~Store(t)
        PROVE  UNCHANGED m_val
    BY <2>2 DEF Call, Proceed, Read, ReadEnd, SetValue, Notify, CallbackReturns, CallbackThrows,
       NotifyEnd, AddListener, AddLoad, AddIncrement, AddInsert, AddReturn, DelListener,
       ClearListener, varVars
  <2>3. CASE UNCHANGED vars
    BY <2>3 DEF vars, varVars
  <2> QED BY <2>1, <2>2, <2>3 DEF Next, Done
<1>2. Stored => [Stored]_vars
  OBVIOUS
<1> HIDE DEF Stored
<1>3. Spec => [][Stored]_vars
  BY <1>1, <1>2, Inductive, PTL DEF Spec
<1> QED
  BY <1>3 DEF StoreAfterAllReturned, Stored

-----------------------------------------------------------------------------
(***************************************************************************)
(* With one variable a single thread at a time is inside addListener, and  *)
(* while one is, nobody deletes or clears.                                 *)
(***************************************************************************)
LEMMA OneAdder ==
  ASSUME OneVar, IInv
  PROVE  /\ \A t, u \in Thread : pc[t] \in Adding /\ pc[u] \in Adding => t = u
         /\ \A t \in Thread, x \in Var : pc[t] \in Adding => self[t] = x /\ writer[x] # Null
<1>1. \A t \in Thread, x \in Var : self[t] = x
  BY DEF OneVar, IInv, TypeOK
<1>2. \A t \in Thread, x \in Var : pc[t] \in Adding => writer[x] = t
  BY <1>1 DEF IInv, Locked
<1>3. Var # {}
  BY ConfigVarAssumption
<1> QED
  BY <1>1, <1>2, <1>3, ConfigVarAssumption

\* The steps that touch neither the listeners nor what belongs to addListener.
LEMMA IdsRest ==
  ASSUME IInv, IdsInv, NEW t \in Thread, OwnOnly(t),
         UNCHANGED <<m_cbs, s_fun_id, handles>>, pc'[t] \notin {"increment", "insert", "return"}
  PROVE  IdsInv'
<1>1. IdFindsItsCallback'
  BY DEF IdsInv, IdFindsItsCallback
<1>2. \A x \in Var : \A id \in DOMAIN m_cbs'[x] : id <= s_fun_id'
  BY DEF IdsInv
<1>3. \A u \in Thread : Counted(u)'
  <2> SUFFICES ASSUME NEW u \in Thread PROVE Counted(u)'
    OBVIOUS
  <2>1. CASE u = t
    BY <2>1 DEF Counted
  <2>2. CASE u # t
    BY <2>2 DEF Counted, OwnOnly, IdsInv
  <2> QED BY <2>1, <2>2
<1> QED
  BY <1>1, <1>2, <1>3 DEF IdsInv

LEMMA LoadIds ==
  ASSUME IInv, IdsInv, NEW t \in Thread, AddLoad(t)
  PROVE  IdsInv'
<1>1. /\ pc[t] = "load" /\ pc' = [pc EXCEPT ![t] = "increment"]
      /\ reg' = [reg EXCEPT ![t] = s_fun_id]
      /\ UNCHANGED <<m_cbs, s_fun_id, handles, self, cb>>
  BY DEF AddLoad, Goto, varVars
<1>2. \A u \in Thread : Counted(u)'
  BY <1>1 DEF Counted, IInv, TypeOK, IdsInv
<1> QED
  BY <1>1, <1>2 DEF IdsInv, IdFindsItsCallback

LEMMA IncrementIds ==
  ASSUME OneVar, IInv, IdsInv, NEW t \in Thread, AddIncrement(t)
  PROVE  IdsInv'
<1>1. /\ pc[t] = "increment" /\ pc' = [pc EXCEPT ![t] = "insert"]
      /\ reg' = [reg EXCEPT ![t] = reg[t] + 1] /\ s_fun_id' = reg[t] + 1
      /\ UNCHANGED <<m_cbs, handles, self, cb>>
  BY DEF AddIncrement, Goto, NextId, varVars
<1>2. reg[t] = s_fun_id /\ s_fun_id \in Nat
  BY <1>1 DEF IInv, TypeOK, IdsInv, Counted
<1>3. \A x \in Var : \A id \in DOMAIN m_cbs[x] : id \in Nat /\ id <= s_fun_id
  BY ListenersAre DEF IInv, TypeOK, IdsInv
<1>4. \A u \in Thread \ {t} : pc[u] \notin Adding
  BY <1>1, OneAdder DEF Adding
<1>5. \A x \in Var : \A id \in DOMAIN m_cbs'[x] : id <= s_fun_id' /\ id # s_fun_id'
  BY <1>1, <1>2, <1>3
<1>6. Counted(t)'
  BY <1>1, <1>2, <1>5 DEF Counted, IInv, TypeOK
<1>7. \A u \in Thread \ {t} : Counted(u)'
  BY <1>1, <1>4 DEF Counted, Adding, IInv, TypeOK
<1> QED
  BY <1>1, <1>5, <1>6, <1>7 DEF IdsInv, IdFindsItsCallback

LEMMA InsertIds ==
  ASSUME OneVar, IInv, IdsInv, NEW t \in Thread, AddInsert(t)
  PROVE  IdsInv'
<1> DEFINE x == self[t]
<1>1. /\ pc[t] = "insert" /\ pc' = [pc EXCEPT ![t] = "return"]
      /\ UNCHANGED <<s_fun_id, handles, self, cb, reg>>
  BY DEF AddInsert, Goto, localVars
<1>2. reg[t] = s_fun_id /\ s_fun_id \in Nat /\ x \in Var /\ s_fun_id \notin DOMAIN m_cbs[x]
  BY <1>1 DEF IInv, TypeOK, IdsInv, Counted
<1>3. m_cbs' = [m_cbs EXCEPT ![x] =
                  [i \in DOMAIN @ \cup {s_fun_id} |-> IF i = s_fun_id THEN cb[t] ELSE @[i]]]
  BY <1>2 DEF AddInsert
<1>4. m_cbs'[x] = [i \in DOMAIN m_cbs[x] \cup {s_fun_id} |->
                     IF i = s_fun_id THEN cb[t] ELSE m_cbs[x][i]]
  BY <1>2, <1>3 DEF IInv, TypeOK
<1>5. /\ DOMAIN m_cbs'[x] = DOMAIN m_cbs[x] \cup {s_fun_id}
      /\ m_cbs'[x][s_fun_id] = cb[t]
      /\ \A i \in DOMAIN m_cbs[x] : m_cbs'[x][i] = m_cbs[x][i]
  BY <1>2, <1>4
<1>6. \A y \in Var : y = x
  BY <1>2 DEF OneVar
<1> HIDE DEF x
<1>7. IdFindsItsCallback'
  <2>1. \A h \in handles : h.var = x
    BY <1>6 DEF IInv, TypeOK
  <2> QED BY <1>1, <1>5, <2>1 DEF IdsInv, IdFindsItsCallback
<1>8. \A y \in Var : \A id \in DOMAIN m_cbs'[y] : id <= s_fun_id'
  BY <1>1, <1>2, <1>5, <1>6 DEF IdsInv
<1>9. \A u \in Thread \ {t} : pc'[u] \notin Adding
  BY <1>1, OneAdder DEF Adding, IInv, TypeOK
<1>10. Counted(t)'
  BY <1>1, <1>2, <1>5 DEF Counted, IInv, TypeOK, x
<1>11. \A u \in Thread \ {t} : Counted(u)'
  BY <1>9 DEF Counted, Adding
<1> QED
  BY <1>7, <1>8, <1>10, <1>11 DEF IdsInv

LEMMA ReturnIds ==
  ASSUME OneVar, IInv, IdsInv, NEW t \in Thread, AddReturn(t)
  PROVE  IdsInv'
<1>1. /\ pc[t] = "return" /\ pc' = [pc EXCEPT ![t] = "idle"]
      /\ UNCHANGED <<m_cbs, s_fun_id, self, cb, reg>>
  BY DEF AddReturn, Goto, localVars
<1>2. /\ reg[t] = s_fun_id
      /\ s_fun_id \in DOMAIN m_cbs[self[t]] /\ m_cbs[self[t]][s_fun_id] = cb[t]
  BY <1>1 DEF IdsInv, Counted
<1>3. handles' = handles \cup {[var |-> self[t], id |-> s_fun_id, cb |-> cb[t]]}
  BY <1>2 DEF AddReturn
<1>4. IdFindsItsCallback'
  BY <1>1, <1>2, <1>3 DEF IdsInv, IdFindsItsCallback
<1>5. \A u \in Thread : Counted(u)'
  BY <1>1 DEF Counted, IInv, TypeOK, IdsInv
<1> QED
  BY <1>1, <1>4, <1>5 DEF IdsInv

\* Two ids of one variable that are equal were returned for the same callback.
LEMMA DelIds ==
  ASSUME OneVar, IInv, IdsInv, NEW t \in Thread, NEW h, DelListener(t, h)
  PROVE  IdsInv'
<1>1. /\ h \in handles /\ writer[h.var] = Null
      /\ m_cbs' = [m_cbs EXCEPT ![h.var] = Restrict(@, DOMAIN @ \ {h.id})]
      /\ handles' = handles \ {h}
      /\ UNCHANGED <<s_fun_id, pc, self, cb, reg>>
  BY DEF DelListener, CanWrite, localVars
<1>2. \A g \in handles : g \in [var : Var, id : Nat, cb : Callback]
  BY DEF IInv, TypeOK
<1>3. h.var \in Var /\ \A y \in Var : y = h.var
  BY <1>1, <1>2 DEF OneVar
<1>4. m_cbs'[h.var] = [i \in DOMAIN m_cbs[h.var] \ {h.id} |-> m_cbs[h.var][i]]
  BY <1>1, <1>3 DEF IInv, TypeOK, Restrict
<1>5. ASSUME NEW g \in handles, g # h
      PROVE  g.id # h.id
  <2>1. g.var = h.var /\ g.cb = m_cbs[g.var][g.id] /\ h.cb = m_cbs[h.var][h.id]
    BY <1>1, <1>2, <1>3 DEF IdsInv, IdFindsItsCallback
  <2>2. /\ g = [var |-> g.var, id |-> g.id, cb |-> g.cb]
        /\ h = [var |-> h.var, id |-> h.id, cb |-> h.cb]
    BY <1>1, <1>2
  <2> QED BY <1>5, <2>1, <2>2
<1>6. IdFindsItsCallback'
  BY <1>1, <1>2, <1>3, <1>4, <1>5 DEF IdsInv, IdFindsItsCallback
<1>7. \A y \in Var : \A id \in DOMAIN m_cbs'[y] : id <= s_fun_id'
  BY <1>1, <1>3, <1>4 DEF IdsInv
<1>8. \A u \in Thread : pc[u] \notin Adding
  BY <1>1, <1>3, OneAdder
<1>9. \A u \in Thread : Counted(u)'
  BY <1>1, <1>8 DEF Counted, Adding
<1> QED
  BY <1>6, <1>7, <1>9 DEF IdsInv

LEMMA ClearIds ==
  ASSUME OneVar, IInv, IdsInv, NEW t \in Thread, NEW x \in Var, ClearListener(t, x)
  PROVE  IdsInv'
<1>1. /\ writer[x] = Null
      /\ m_cbs' = [m_cbs EXCEPT ![x] = << >>]
      /\ handles' = {h \in handles : h.var # x}
      /\ UNCHANGED <<s_fun_id, pc, self, cb, reg>>
  BY DEF ClearListener, CanWrite, localVars
<1>2. \A y \in Var : y = x
  BY DEF OneVar
<1>3. handles' = {}
  BY <1>1, <1>2 DEF IInv, TypeOK
<1>4. \A y \in Var : DOMAIN m_cbs'[y] = {}
  BY <1>1, <1>2, EmptyListeners DEF IInv, TypeOK
<1>5. \A u \in Thread : pc[u] \notin Adding
  BY <1>1, OneAdder
<1>6. \A u \in Thread : Counted(u)'
  BY <1>1, <1>5 DEF Counted, Adding
<1> QED
  BY <1>3, <1>4, <1>6 DEF IdsInv, IdFindsItsCallback

LEMMA IdsKept ==
  ASSUME OneVar, IInv, IInv', IdsInv, [Next]_vars
  PROVE  IdsInv'
<1>1. ASSUME NEW t \in Thread,
             \/ ReadEnd(t) \/ Notify(t) \/ CallbackReturns(t) \/ CallbackThrows(t)
             \/ NotifyEnd(t) \/ Store(t)
             \/ \E x \in Var : \/ Read(t, x) \/ \E new \in Value : SetValue(t, x, new)
                               \/ \E f \in Callback : AddListener(t, x, f)
      PROVE  IdsInv'
  <2>1. OwnOnly(t)
    BY <1>1, StepsKept DEF Kept, Call, Proceed
  <2>2. UNCHANGED <<m_cbs, s_fun_id, handles>>
    BY <1>1 DEF ReadEnd, Notify, CallbackReturns, CallbackThrows, NotifyEnd, Store, Read,
       SetValue, AddListener, varVars
  <2>3. pc'[t] \notin {"increment", "insert", "return"}
    BY <1>1 DEF ReadEnd, Notify, CallbackReturns, CallbackThrows, NotifyEnd, Store, Read,
       SetValue, AddListener, Calls, Goto, IInv, TypeOK
  <2> QED BY <2>1, <2>2, <2>3, IdsRest
<1>2. ASSUME NEW t \in Thread, Call(t) \/ Proceed(t)
      PROVE  IdsInv'
  BY <1>1, <1>2, LoadIds, IncrementIds, InsertIds, ReturnIds, DelIds, ClearIds DEF Call, Proceed
<1>3. CASE UNCHANGED vars
  BY <1>3 DEF IdsInv, IdFindsItsCallback, Counted, vars, varVars, localVars
<1> QED
  BY <1>2, <1>3 DEF Next, Done

(***************************************************************************)
(* addListener and delListener of config.h, for any threads and callbacks  *)
(* but one ConfigVar of the type: an id that addListener returned finds    *)
(* its callback until it is deleted.  With two variables of one type their *)
(* locks do not guard the one counter, and the run config_var_ids shows    *)
(* an id that finds another's callback.                                    *)
(***************************************************************************)
THEOREM IdsFind ==
  ASSUME OneVar
  PROVE  Spec => []IdFindsItsCallback
<1>1. Init => IdsInv
  BY EmptyListeners DEF Init, IdsInv, IdFindsItsCallback, Counted
<1>2. IInv /\ IInv' /\ IdsInv /\ [Next]_vars => IdsInv'
  BY IdsKept
<1>3. IdsInv => IdFindsItsCallback
  BY DEF IdsInv
<1> QED
  BY <1>1, <1>2, <1>3, Inductive, PTL DEF Spec
=============================================================================
