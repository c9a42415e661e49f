--------------------------- MODULE ConfigRegistry ---------------------------
(***************************************************************************)
(* Config of src/config.h and src/config.cc: the table of all variables by *)
(* name, its read-write lock, and LoadFromYaml, which goes through a       *)
(* document and sets the variables it names.                               *)
(*                                                                         *)
(* Of a ConfigVar this module keeps the type, the value and the lock, of   *)
(* its listeners that they may call Config::Lookup themselves and that     *)
(* they may throw (ConfigVar has the rest).  Lookup calls toString with    *)
(* the table locked, setValue its listeners with the variable locked: the  *)
(* locks are taken in both orders.                                         *)
(*                                                                         *)
(* A document is the list of its nodes in the order ListAllMember visits   *)
(* them, each with its full name "a.b.c" in lower case; a name is one the  *)
(* check for illegal characters accepts or it is in BadName, like every    *)
(* name below it.  LexicalCast has what a node becomes.                    *)
(***************************************************************************)
EXTENDS LexicalCast

CONSTANTS
  Thread,    \* the threads
  Name,      \* names the check accepts
  BadName,   \* names it refuses
  Type,      \* the types of variables
  Node,      \* the nodes of documents
  Default,   \* for each type the default value Lookup is called with
  Value,     \* for each type the values clients set
  Doc,       \* the documents that are loaded
  Thrown,    \* what listeners throw: "std" is a std::exception, "other" is not
  Null,      \* no thread
  MaxCalls   \* bound: the calls the threads make together

Member == [name : Name \cup BadName, node : Node]

ASSUME RegistryAssumption ==
  /\ Name \cap BadName = {}
  /\ Type \subseteq CastType
  /\ \A T \in Type : \A x \in {Default[T]} \cup Value[T] : IsOf(T, x)
  /\ \A node \in Node : IsNode(node)
  /\ \A doc \in Doc : doc \in Seq(Member)
  /\ Thrown \subseteq {"std", "other"}
  /\ Null \notin Thread /\ MaxCalls \in Nat

VARIABLES
  s_datas,   \* GetDatas(): from names to variables
  objs,     \* the variables there are, in the order they were made
  mutex,     \* the thread that holds GetMutex() for writing, or Null
  readers,   \* the threads that hold each variable's lock for reading
  writer,    \* the thread that holds it for writing, or Null
  pc,        \* where in the module's code each thread stands
  back,      \* where its Lookup returns to: its own code or a callback
  ask,       \* the name and the type its Lookup asks for
  it,        \* what Lookup's find has found: a variable, or 0
  target,    \* the variable it sets, and the value
  doing,     \* the document its LoadFromYaml goes through, or << >>
  todo,      \* the positions in it of the nodes it is not yet done with
  got,       \* what the clients know: the variables Lookup has returned
  begun,     \* history: the names there were when its load began
  alone,     \* history: whether nobody else has stored since
  refused,   \* history: the positions whose value a listener has refused by throwing
  calls      \* the calls the threads have made

tableVars  == <<s_datas, objs>>
lockVars   == <<mutex, readers, writer>>
lookupVars == <<back, ask, it>>
loadVars   == <<target, doing, todo>>
history    == <<begun, alone, refused>>
vars == <<tableVars, lockVars, pc, lookupVars, loadVars, got, history, calls>>

Init ==
  /\ s_datas = << >> /\ objs = << >>
  /\ mutex = Null
  /\ readers = << >> /\ writer = << >>
  /\ pc = [t \in Thread |-> "idle"]
  /\ back = [t \in Thread |-> "idle"]
  /\ ask = [t \in Thread |-> << >>]
  /\ it = [t \in Thread |-> 0]
  /\ target = [t \in Thread |-> << >>]
  /\ doing = [t \in Thread |-> << >>]
  /\ todo = [t \in Thread |-> {}]
  /\ got = {}
  /\ begun = [t \in Thread |-> {}]
  /\ alone = [t \in Thread |-> TRUE]
  /\ refused = [t \in Thread |-> {}]
  /\ calls = 0

(***************************************************************************)
(* Locks, conditions and the loop.  Next to a definition stands, where a   *)
(* property needs one, a slip of the pen the property catches.             *)
(***************************************************************************)
TableFree_Always == TRUE
TableFree        == mutex = Null

\* pthread's default lock lets a reader in although a writer is waiting.
CanRead_InTurn(o) == writer[o] = Null /\ \A t \in Thread : pc[t] = "store" => target[t].var # o
CanRead(o)        == writer[o] = Null

CanWrite(o) == writer[o] = Null /\ readers[o] = {}

\* std::dynamic_pointer_cast<ConfigVar<T>>.
Cast(o, T) == objs[o].type = T

\* find_first_not_of finds no illegal character.
Legal(n) == n \in Name

\* The node the loop of LoadFromYaml is at, what it visits after it, and what
\* after one for which fromString has caught an exception.
IsFirst(k, ks) == k \in ks /\ \A j \in ks : k <= j
Rest(t)        == {k \in todo[t] : ~IsFirst(k, todo[t])}

RestAfterThrow_Stop(t) == {}
RestAfterThrow(t)      == Rest(t)

Goto(t, loc) == pc' = [pc EXCEPT ![t] = loc]

\* A call from the thread's own code, or from a listener it is in.
Calls(t) ==
  /\ pc[t] \in {"idle", "callback"}
  /\ calls < MaxCalls
  /\ calls' = calls + 1

Return(t, o) ==
  got' = IF o = 0 THEN got
         ELSE got \cup {[name |-> ask[t].name, type |-> ask[t].type, var |-> o]}

-----------------------------------------------------------------------------
\* Lookup<T>(name, default): the write lock, and the search for the name.
Lookup(t, n, T) ==
  /\ Calls(t)
  /\ TableFree
  /\ mutex' = t
  /\ back' = [back EXCEPT ![t] = pc[t]]
  /\ ask' = [ask EXCEPT ![t] = [name |-> n, type |-> T]]
  /\ it' = [it EXCEPT ![t] = IF n \in DOMAIN s_datas THEN s_datas[n] ELSE 0]
  /\ Goto(t, "lookup")
  /\ UNCHANGED <<tableVars, readers, writer, loadVars, got, history>>

Found(t)  == pc[t] = "lookup" /\ it[t] # 0
Absent(t) == pc[t] = "lookup" /\ it[t] = 0

LookupReturns(t) ==
  /\ mutex' = Null
  /\ ask' = [ask EXCEPT ![t] = << >>]
  /\ it' = [it EXCEPT ![t] = 0]
  /\ back' = [back EXCEPT ![t] = "idle"]
  /\ Goto(t, back[t])
  /\ UNCHANGED <<loadVars, history, calls>>

LookupExists(t) ==
  /\ Found(t) /\ Cast(it[t], ask[t].type)
  /\ LookupReturns(t) /\ Return(t, it[t])
  /\ UNCHANGED <<tableVars, readers, writer>>

\* Of another type: the error message calls toString, which takes the read lock.
LookupMismatch(t) ==
  /\ Found(t) /\ ~Cast(it[t], ask[t].type)
  /\ CanRead(it[t])
  /\ LookupReturns(t)
  /\ UNCHANGED <<tableVars, readers, writer, got>>

\* Throws.  A listener that does not catch it throws in turn: see ThrowCaught.
LookupInvalid(t) ==
  /\ Absent(t) /\ ~Legal(ask[t].name)
  /\ LookupReturns(t)
  /\ UNCHANGED <<tableVars, readers, writer, got>>

LookupCreates(t) ==
  /\ Absent(t) /\ Legal(ask[t].name)
  /\ LookupReturns(t)
  /\ LET o == Len(objs) + 1
         n == ask[t].name
         T == ask[t].type
     IN  /\ objs' = Append(objs, [type |-> T, val |-> Default[T]])
         /\ s_datas' = [m \in DOMAIN s_datas \cup {n} |-> IF m = n THEN o ELSE s_datas[m]]
         /\ Return(t, o)
  /\ readers' = Append(readers, {})
  /\ writer' = Append(writer, Null)

\* Lookup<T>(name), under the read lock.
Find(t, n, T) ==
  /\ Calls(t)
  /\ TableFree
  /\ got' = IF n \in DOMAIN s_datas /\ Cast(s_datas[n], T)
            THEN got \cup {[name |-> n, type |-> T, var |-> s_datas[n]]} ELSE got
  /\ UNCHANGED <<tableVars, lockVars, pc, lookupVars, loadVars, history>>

-----------------------------------------------------------------------------
\* ListAllMember drops the names the check refuses.
Members(doc) == {k \in DOMAIN doc : Legal(doc[k].name)}

Load(t, doc) ==
  /\ Calls(t) /\ pc[t] = "idle"
  /\ todo' = [todo EXCEPT ![t] = Members(doc)]
  /\ Goto(t, "member")
  /\ begun' = [begun EXCEPT ![t] = DOMAIN s_datas]
  /\ doing' = [doing EXCEPT ![t] = doc]
  /\ UNCHANGED <<tableVars, lockVars, lookupVars, target, got, alone, refused>>

\* What fromString is given of a node: a scalar as it is, anything else printed.
NodeText(node) == IF node.kind = "scalar" THEN node ELSE Emit(node)

Conversion == [T \in Type |-> [node \in Node |-> FromString(T, NodeText(node))]]

Converted(o, node) == Conversion[objs[o].type][node]

\* LookupBase, under the read lock, which is let go before fromString.
LoadMember(t) ==
  /\ pc[t] = "member"
  /\ TableFree
  /\ \E k \in todo[t] :
       LET m == doing[t][k]
       IN  /\ IsFirst(k, todo[t])
           /\ IF m.name \in DOMAIN s_datas
              THEN /\ target' = [target EXCEPT ![t] = [var |-> s_datas[m.name],
                                                       val |-> Converted(s_datas[m.name], m.node)]]
                   /\ Goto(t, "apply") /\ UNCHANGED todo
              ELSE /\ todo' = [todo EXCEPT ![t] = Rest(t)]
                   /\ UNCHANGED <<target, pc>>
  /\ UNCHANGED <<tableVars, lockVars, lookupVars, doing, got, history, calls>>

\* LoadFromYaml is over, all of the document visited or not.
LoadEnds(t) ==
  /\ doing' = [doing EXCEPT ![t] = << >>]
  /\ todo' = [todo EXCEPT ![t] = {}]
  /\ begun' = [begun EXCEPT ![t] = {}]
  /\ alone' = [alone EXCEPT ![t] = TRUE]
  /\ refused' = [refused EXCEPT ![t] = {}]
  /\ Goto(t, "idle")

LoadDone(t) ==
  /\ pc[t] = "member" /\ todo[t] = {}
  /\ LoadEnds(t)
  /\ UNCHANGED <<tableVars, lockVars, lookupVars, target, got, calls>>

\* A client's own setValue.
SetValue(t, h, x) ==
  /\ Calls(t) /\ pc[t] = "idle"
  /\ target' = [target EXCEPT ![t] = [var |-> h.var, val |-> x]]
  /\ Goto(t, "apply")
  /\ UNCHANGED <<tableVars, lockVars, lookupVars, doing, todo, got, history>>

\* setValue or fromString returns, to the client or to the loop of LoadFromYaml,
\* which goes on with the nodes ks.
Loading(t) == doing[t] # << >>
Resume(t, ks) ==
  /\ Goto(t, IF Loading(t) THEN "member" ELSE "idle")
  /\ target' = [target EXCEPT ![t] = << >>]
  /\ todo' = [todo EXCEPT ![t] = ks]

\* fromString catches what the conversion throws.
Refuse(t) ==
  /\ pc[t] = "apply"
  /\ target[t].val = Bad
  /\ Resume(t, RestAfterThrow(t))
  /\ UNCHANGED <<tableVars, lockVars, lookupVars, doing, got, history, calls>>

\* setValue's read lock: an equal value is left alone, another one notified.
Compare(t) ==
  /\ pc[t] = "apply"
  /\ LET o == target[t].var
     IN  /\ target[t].val # Bad
         /\ CanRead(o)
         /\ IF objs[o].val = target[t].val
            THEN Resume(t, Rest(t)) /\ UNCHANGED readers
            ELSE /\ Goto(t, "callback") /\ UNCHANGED <<target, todo>>
                 /\ readers' = [readers EXCEPT ![o] = @ \cup {t}]
  /\ UNCHANGED <<tableVars, mutex, writer, lookupVars, doing, got, history, calls>>

\* The listeners have returned or one has thrown, and the read lock is let go.
ListenersEnd(t) ==
  /\ pc[t] = "callback"
  /\ readers' = [readers EXCEPT ![target[t].var] = @ \ {t}]

Notified(t) ==
  /\ ListenersEnd(t)
  /\ Goto(t, "store")
  /\ UNCHANGED <<tableVars, mutex, writer, lookupVars, loadVars, got, history, calls>>

\* A std::exception goes no further than fromString: nothing is stored, and the
\* loop goes on.
ThrowCaught(t) ==
  /\ ListenersEnd(t)
  /\ Loading(t) /\ "std" \in Thrown
  /\ refused' = [refused EXCEPT ![t] = @ \cup {k \in todo[t] : IsFirst(k, todo[t])}]
  /\ Resume(t, RestAfterThrow(t))
  /\ UNCHANGED <<tableVars, mutex, writer, lookupVars, doing, got, begun, alone, calls>>

\* Anything else leaves LoadFromYaml too, and whatever is thrown a client's setValue.
ThrowLeaves(t) ==
  /\ ListenersEnd(t)
  /\ IF Loading(t) THEN "other" \in Thrown ELSE Thrown # {}
  /\ target' = [target EXCEPT ![t] = << >>]
  /\ LoadEnds(t)
  /\ UNCHANGED <<tableVars, mutex, writer, lookupVars, got, calls>>

StoreLock(t) ==
  /\ pc[t] = "store"
  /\ CanWrite(target[t].var)
  /\ writer' = [writer EXCEPT ![target[t].var] = t]
  /\ Goto(t, "storing")
  /\ UNCHANGED <<tableVars, mutex, readers, lookupVars, loadVars, got, history, calls>>

Store(t) ==
  /\ pc[t] = "storing"
  /\ objs' = [objs EXCEPT ![target[t].var].val = target[t].val]
  /\ writer' = [writer EXCEPT ![target[t].var] = Null]
  /\ alone' = [u \in Thread |-> alone[u] /\ (u = t \/ ~Loading(u))]
  /\ Resume(t, Rest(t))
  /\ UNCHANGED <<s_datas, mutex, readers, lookupVars, doing, got, begun, refused, calls>>

-----------------------------------------------------------------------------
Call(t) ==
  \/ \E n \in Name \cup BadName, T \in Type : Lookup(t, n, T) \/ Find(t, n, T)
  \/ \E doc \in Doc : Load(t, doc)
  \/ \E h \in got : \E x \in Value[h.type] : SetValue(t, h, x)

Proceed(t) ==
  \/ LookupExists(t) \/ LookupMismatch(t) \/ LookupInvalid(t) \/ LookupCreates(t)
  \/ LoadMember(t) \/ LoadDone(t) \/ Refuse(t) \/ Compare(t)
  \/ Notified(t) \/ ThrowCaught(t) \/ ThrowLeaves(t) \/ StoreLock(t) \/ Store(t)

\* The bound on calls is reached.
Done ==
  /\ calls = MaxCalls /\ \A t \in Thread : pc[t] = "idle"
  /\ UNCHANGED vars

Next == (\E t \in Thread : Call(t) \/ Proceed(t)) \/ Done

Spec == Init /\ [][Next]_vars

(***************************************************************************)
(* A thread inside a call is scheduled, and listeners return or throw.     *)
(***************************************************************************)
FairSpec == Spec /\ \A t \in Thread : WF_vars(Proceed(t))

-----------------------------------------------------------------------------
(***************************************************************************)
(* Properties                                                              *)
(***************************************************************************)

(***************************************************************************)
(* Whoever has looked a name up, at whatever time and on whatever thread,  *)
(* has the same variable, the one LoadFromYaml finds, and has it with its  *)
(* own type.                                                               *)
(***************************************************************************)
OneVariablePerName ==
  \A h \in got : /\ s_datas[h.name] = h.var
                 /\ objs[h.var].type = h.type

(***************************************************************************)
(* When LoadFromYaml returns, or something a listener has thrown leaves    *)
(* it, and nobody else has set a variable since it began, every variable   *)
(* there was then has the last value, among the nodes that were done with, *)
(* that converts and that no listener has refused by throwing; a node that *)
(* is refused or does not convert keeps none of the others from being      *)
(* applied, before it or after it.  LoadFromYaml returns when it is done   *)
(* with all of the document's nodes.                                       *)
(***************************************************************************)
Visited(t) == Members(doing[t]) \ todo[t]

Fits(t, n, k) ==
  /\ doing[t][k].name = n /\ k \notin refused[t]
  /\ Converted(s_datas[n], doing[t][k].node) # Bad

LastFitting(t, n) ==
  {k \in Visited(t) : Fits(t, n, k) /\ \A j \in Visited(t) : Fits(t, n, j) => j <= k}

DocumentApplied ==
  [][\A t \in Thread : (LoadDone(t) \/ ThrowLeaves(t)) /\ alone[t] =>
       \A n \in begun[t] : \A k \in LastFitting(t, n) :
         objs[s_datas[n]].val = Converted(s_datas[n], doing[t][k].node)]_vars

(***************************************************************************)
(* What toString prints of a variable, fromString reads back as the same   *)
(* value, whatever document or client the value came from; a container     *)
(* aside with a string that YAML does not print as it reads it, such as    *)
(* an empty one, which becomes ~.                                          *)
(***************************************************************************)
RoundTrip == \A o \in DOMAIN objs : ReadsBack(objs[o].type, objs[o].val)

(***************************************************************************)
(* Every call returns, although Lookup takes a variable's lock under the   *)
(* table's, and listeners the table's under a variable's.                  *)
(***************************************************************************)
CallsReturn == \A t \in Thread : pc[t] # "idle" ~> pc[t] = "idle"
=============================================================================
