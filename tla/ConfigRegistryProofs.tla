------------------------ MODULE ConfigRegistryProofs ------------------------
(***************************************************************************)
(* Theorems about ConfigRegistry, for any threads, names, types and        *)
(* documents.                                                              *)
(*                                                                         *)
(* What Lookup's find has found is used many steps later, and a listener   *)
(* may be inside a Lookup of its own: the table's lock is what makes the   *)
(* answer still true then.  A name is entered once and never leaves the    *)
(* table, a variable never changes its type.  On that rests LoadFromYaml:  *)
(* of the members it is done with each variable has the last that converts *)
(* and that no listener has refused, unless somebody else has set one      *)
(* meanwhile.                                                              *)
(*                                                                         *)
(* That a variable's text is read back as its value needs more than        *)
(* LexicalCast: the value has to be one of the variable's type, although   *)
(* it was converted many steps before it is stored, for a variable found   *)
(* in the table, and listeners have run in between.                        *)
(***************************************************************************)
EXTENDS ConfigRegistry, SequenceTheorems, FiniteSetTheorems, WellFoundedInduction, TLAPS

Places == {"idle", "lookup", "member", "apply", "callback", "store", "storing"}

IsVariable(x) == x = [type |-> x.type, val |-> x.val] /\ x.type \in Type

TypeOK ==
  /\ objs \in Seq(Range(objs))
  /\ \A o \in 1 .. Len(objs) : IsVariable(objs[o])
  /\ s_datas = [n \in DOMAIN s_datas |-> s_datas[n]]
  /\ mutex \in Thread \cup {Null}
  /\ pc \in [Thread -> Places]
  /\ back \in [Thread -> {"idle", "callback"}]
  /\ DOMAIN ask = Thread /\ DOMAIN it = Thread

\* The table has legal names, each with a variable of its own.
Table ==
  /\ DOMAIN s_datas \subseteq Name
  /\ \A n \in DOMAIN s_datas : s_datas[n] \in 1 .. Len(objs)
  /\ \A m, n \in DOMAIN s_datas : s_datas[m] = s_datas[n] => m = n

\* A thread inside Lookup has the table's lock, and what it found is still so.
Searching(t) ==
  pc[t] = "lookup" =>
    /\ mutex = t
    /\ ask[t] \in [name : Name \cup BadName, type : Type]
    /\ it[t] = IF ask[t].name \in DOMAIN s_datas THEN s_datas[ask[t].name] ELSE 0

\* What the clients know.
Known(h) ==
  /\ h.name \in DOMAIN s_datas /\ s_datas[h.name] = h.var
  /\ objs[h.var].type = h.type

IInv ==
  /\ TypeOK /\ Table
  /\ \A t \in Thread : Searching(t)
  /\ \A h \in got : Known(h)

-----------------------------------------------------------------------------
(***************************************************************************)
(* What the steps do to the table: nothing, another value for a variable,  *)
(* or a new variable under a new name; and to the variables' types.        *)
(***************************************************************************)
SameTypes ==
  /\ objs' \in Seq(Range(objs')) /\ Len(objs') = Len(objs)
  /\ \A o \in 1 .. Len(objs) : IsVariable(objs'[o]) /\ objs'[o].type = objs[o].type

OthersWait(t) ==
  \A u \in Thread \ {t} : pc'[u] = pc[u] /\ ask'[u] = ask[u] /\ it'[u] = it[u]

\* Steps that leave the table alone, on the way in and out of Lookup or elsewhere.
LEMMA TableStays ==
  ASSUME IInv, TypeOK', NEW t \in Thread, OthersWait(t), SameTypes, UNCHANGED s_datas,
         mutex \in {Null, t} \/ UNCHANGED mutex, Searching(t)',
         \A h \in got' : h \in got \/ Known(h)
  PROVE  IInv'
<1>1. Table'
  BY DEF IInv, Table, SameTypes
<1>2. \A u \in Thread \ {t} : Searching(u)'
  BY RegistryAssumption DEF IInv, Searching, OthersWait
<1>3. \A h \in got' : Known(h)'
  <2> SUFFICES ASSUME NEW h \in got' PROVE Known(h)'
    OBVIOUS
  <2>1. Known(h)
    BY DEF IInv
  <2>2. h.var \in 1 .. Len(objs)
    BY <2>1 DEF Known, IInv, Table
  <2> QED BY <2>1, <2>2 DEF Known, SameTypes
<1> QED
  BY <1>1, <1>2, <1>3 DEF IInv

LEMMA Unchanged ==
  ASSUME IInv, UNCHANGED objs
  PROVE  SameTypes /\ objs' \in Seq(Range(objs')) /\ \A o \in 1 .. Len(objs') : IsVariable(objs'[o])
<1>1. Range(objs') = Range(objs)
  BY DEF Range
<1> QED BY <1>1 DEF SameTypes, IInv, TypeOK, IsVariable

\* The steps that are no part of Lookup and store nothing.
LEMMA ElsewhereKept ==
  ASSUME IInv, NEW t \in Thread,
         \/ \E n \in Name \cup BadName, T \in Type : Find(t, n, T)
         \/ \E doc \in Doc : Load(t, doc)
         \/ \E h \in got : \E x \in Value[h.type] : SetValue(t, h, x)
         \/ LoadMember(t) \/ LoadDone(t) \/ Refuse(t) \/ Compare(t) \/ Notified(t)
         \/ ThrowCaught(t) \/ ThrowLeaves(t) \/ StoreLock(t)
  PROVE  IInv'
<1>1. UNCHANGED <<s_datas, objs, mutex, ask, it, back>>
  BY DEF Find, Load, SetValue, LoadMember, LoadDone, Refuse, Compare, Notified,
     ThrowCaught, ThrowLeaves, ListenersEnd, LoadEnds, StoreLock,
     tableVars, lockVars, lookupVars
<1>2. /\ pc' \in [Thread -> Places] /\ (pc'[t] = "lookup" => pc[t] = "lookup")
      /\ \A u \in Thread \ {t} : pc'[u] = pc[u]
  BY DEF Find, Load, SetValue, LoadMember, LoadDone, Refuse, Compare, Notified,
     ThrowCaught, ThrowLeaves, ListenersEnd, LoadEnds, StoreLock,
     Goto, Resume, IInv, TypeOK, Places
<1>3. SameTypes /\ objs' \in Seq(Range(objs')) /\ \A o \in 1 .. Len(objs') : IsVariable(objs'[o])
  BY <1>1, Unchanged
<1>4. TypeOK'
  BY <1>1, <1>2, <1>3 DEF IInv, TypeOK
<1>5. \A h \in got' : h \in got \/ Known(h)
  <2>1. CASE \E n \in Name \cup BadName, T \in Type : Find(t, n, T)
    <3>1. PICK n \in Name \cup BadName, T \in Type : Find(t, n, T)
      BY <2>1
    <3>2. \A h \in got' : \/ h \in got
                          \/ /\ n \in DOMAIN s_datas /\ objs[s_datas[n]].type = T
                             /\ h = [name |-> n, type |-> T, var |-> s_datas[n]]
      BY <3>1 DEF Find, Cast
    <3> QED BY <3>2 DEF Known
  <2>2. CASE UNCHANGED got
    BY <2>2
  <2> QED
    BY <2>1, <2>2 DEF Load, SetValue, LoadMember, LoadDone, Refuse, Compare, Notified,
     ThrowCaught, ThrowLeaves, ListenersEnd, LoadEnds, StoreLock
<1>6. Searching(t)'
  BY <1>1, <1>2 DEF IInv, Searching
<1>7. OthersWait(t)
  BY <1>1, <1>2 DEF OthersWait
<1> QED
  BY <1>1, <1>3, <1>4, <1>5, <1>6, <1>7, TableStays

\* A store changes a value and no type.
LEMMA StoreKept ==
  ASSUME IInv, NEW t \in Thread, Store(t)
  PROVE  IInv'
<1> DEFINE o == target[t].var
           x == target[t].val
<1>1. /\ objs' = [objs EXCEPT ![o].val = x]
      /\ UNCHANGED <<s_datas, mutex, ask, it, back, got>>
      /\ pc[t] = "storing"
      /\ pc' = [pc EXCEPT ![t] = IF Loading(t) THEN "member" ELSE "idle"]
  BY DEF Store, Resume, Goto, lookupVars
<1>2. Len(objs) \in Nat /\ DOMAIN objs = 1 .. Len(objs)
  BY DEF IInv, TypeOK
<1>3. \A p \in 1 .. Len(objs) : objs'[p] = IF p = o THEN [objs[p] EXCEPT !.val = x] ELSE objs[p]
  BY <1>1, <1>2
<1>4. \A p \in 1 .. Len(objs) : IsVariable(objs'[p]) /\ objs'[p].type = objs[p].type
  <2> SUFFICES ASSUME NEW p \in 1 .. Len(objs)
               PROVE  IsVariable(objs'[p]) /\ objs'[p].type = objs[p].type
    OBVIOUS
  <2>1. objs[p] = [type |-> objs[p].type, val |-> objs[p].val] /\ objs[p].type \in Type
    BY DEF IInv, TypeOK, IsVariable
  <2>2. [objs[p] EXCEPT !.val = x] = [type |-> objs[p].type, val |-> x]
    BY <2>1
  <2> QED BY <1>3, <2>1, <2>2 DEF IsVariable
<1>5. DOMAIN objs' = 1 .. Len(objs) /\ objs' = [p \in 1 .. Len(objs) |-> objs'[p]]
  BY <1>1, <1>2
<1>6. objs' \in Seq(Range(objs')) /\ Len(objs') = Len(objs)
  <2>1. \A p \in 1 .. Len(objs) : objs'[p] \in Range(objs')
    BY <1>5 DEF Range
  <2>2. objs' \in [1 .. Len(objs) -> Range(objs')]
    BY <1>5, <2>1
  <2> QED BY <1>2, <2>2
<1>7. SameTypes
  BY <1>4, <1>6 DEF SameTypes
<1>8. TypeOK'
  BY <1>1, <1>4, <1>6 DEF IInv, TypeOK, Places
<1>9. Searching(t)' /\ OthersWait(t)
  BY <1>1 DEF IInv, TypeOK, Searching, OthersWait
<1> QED
  BY <1>1, <1>7, <1>8, <1>9, TableStays DEF IInv

\* Into Lookup,
LEMMA LookupKept ==
  ASSUME IInv, NEW t \in Thread, NEW n \in Name \cup BadName, NEW T \in Type, Lookup(t, n, T)
  PROVE  IInv'
<1>1. /\ pc[t] \in {"idle", "callback"} /\ mutex = Null /\ mutex' = t
      /\ back' = [back EXCEPT ![t] = pc[t]]
      /\ ask' = [ask EXCEPT ![t] = [name |-> n, type |-> T]]
      /\ it' = [it EXCEPT ![t] = IF n \in DOMAIN s_datas THEN s_datas[n] ELSE 0]
      /\ pc' = [pc EXCEPT ![t] = "lookup"]
      /\ UNCHANGED <<s_datas, objs, got>>
  BY DEF Lookup, Calls, TableFree, Goto, tableVars
<1>2. SameTypes /\ objs' \in Seq(Range(objs')) /\ \A o \in 1 .. Len(objs') : IsVariable(objs'[o])
  BY <1>1, Unchanged
<1>3. TypeOK'
  BY <1>1, <1>2 DEF IInv, TypeOK, Places
<1>4. Searching(t)' /\ OthersWait(t)
  BY <1>1 DEF IInv, TypeOK, Searching, OthersWait
<1> QED
  BY <1>1, <1>2, <1>3, <1>4, TableStays

\* and out of it again.
LEMMA ReturnsKept ==
  ASSUME IInv, NEW t \in Thread, LookupExists(t) \/ LookupMismatch(t) \/ LookupInvalid(t)
  PROVE  IInv'
<1>1. /\ pc[t] = "lookup" /\ mutex' = Null
      /\ ask' = [ask EXCEPT ![t] = << >>] /\ it' = [it EXCEPT ![t] = 0]
      /\ back' = [back EXCEPT ![t] = "idle"] /\ pc' = [pc EXCEPT ![t] = back[t]]
      /\ UNCHANGED <<s_datas, objs>>
  BY DEF LookupExists, LookupMismatch, LookupInvalid, Found, Absent, LookupReturns, Goto, tableVars
<1>2. SameTypes /\ objs' \in Seq(Range(objs')) /\ \A o \in 1 .. Len(objs') : IsVariable(objs'[o])
  BY <1>1, Unchanged
<1>3. TypeOK'
  BY <1>1, <1>2 DEF IInv, TypeOK, Places
<1>4. mutex = t
  BY <1>1 DEF IInv, Searching
<1>5. Searching(t)' /\ OthersWait(t)
  BY <1>1 DEF IInv, TypeOK, Searching, OthersWait
<1>6. \A h \in got' : h \in got \/ Known(h)
  <2>1. CASE LookupExists(t)
    <3>1. /\ it[t] # 0 /\ objs[it[t]].type = ask[t].type
          /\ got' = got \cup {[name |-> ask[t].name, type |-> ask[t].type, var |-> it[t]]}
      BY <2>1 DEF LookupExists, Found, Cast, Return
    <3>2. ask[t].name \in DOMAIN s_datas /\ it[t] = s_datas[ask[t].name]
      BY <1>1, <3>1 DEF IInv, Searching
    <3> QED BY <3>1, <3>2 DEF Known
  <2>2. CASE LookupMismatch(t) \/ LookupInvalid(t)
    BY <2>2 DEF LookupMismatch, LookupInvalid
  <2> QED BY <2>1, <2>2
<1> QED
  BY <1>1, <1>2, <1>3, <1>4, <1>5, <1>6, TableStays

\* A new variable: the name was absent when the lock was taken, and is now.
LEMMA CreatesKept ==
  ASSUME IInv, NEW t \in Thread, LookupCreates(t)
  PROVE  IInv'
<1> DEFINE n == ask[t].name
           T == ask[t].type
           o == Len(objs) + 1
           x == [type |-> T, val |-> Default[T]]
<1>1. /\ pc[t] = "lookup" /\ it[t] = 0 /\ n \in Name /\ mutex' = Null
      /\ ask' = [ask EXCEPT ![t] = << >>] /\ it' = [it EXCEPT ![t] = 0]
      /\ back' = [back EXCEPT ![t] = "idle"] /\ pc' = [pc EXCEPT ![t] = back[t]]
      /\ objs' = Append(objs, x)
      /\ s_datas' = [m \in DOMAIN s_datas \cup {n} |-> IF m = n THEN o ELSE s_datas[m]]
  BY DEF LookupCreates, Absent, Legal, LookupReturns, Goto
<1>2. mutex = t /\ T \in Type
  BY <1>1 DEF IInv, Searching
<1>3. Len(objs) \in Nat /\ o \in Nat \ {0}
  BY DEF IInv, TypeOK
<1>4. n \notin DOMAIN s_datas
  <2>1. it[t] = IF n \in DOMAIN s_datas THEN s_datas[n] ELSE 0
    BY <1>1 DEF IInv, Searching
  <2>2. \A m \in DOMAIN s_datas : s_datas[m] \in 1 .. Len(objs)
    BY DEF IInv, Table
  <2> QED BY <1>1, <1>3, <2>1, <2>2
<1>5. /\ Len(objs') = o /\ objs'[o] = x
      /\ \A p \in 1 .. Len(objs) : objs'[p] = objs[p]
      /\ objs' \in Seq(Range(objs'))
  <2>1. objs \in Seq(Range(objs) \cup {x})
    BY SeqMonotonic DEF IInv, TypeOK
  <2>2. /\ objs' \in Seq(Range(objs) \cup {x}) /\ Len(objs') = o /\ objs'[o] = x
        /\ \A p \in 1 .. Len(objs) : objs'[p] = objs[p]
    BY <1>1, <2>1, AppendProperties
  <2>3. \A p \in 1 .. o : objs'[p] \in Range(objs')
    BY <2>2 DEF Range
  <2>4. objs' \in [1 .. o -> Range(objs')]
    BY <2>2, <2>3
  <2> QED BY <1>3, <2>2, <2>4
<1>6. \A p \in 1 .. o : p \in 1 .. Len(objs) \/ p = o
  BY <1>3
<1>7. IsVariable(x)
  BY <1>2 DEF IsVariable
<1> HIDE DEF x, o, T
<1>8. TypeOK'
  <2>1. \A p \in 1 .. Len(objs') : IsVariable(objs'[p])
    BY <1>5, <1>6, <1>7 DEF IInv, TypeOK
  <2>2. s_datas' = [m \in DOMAIN s_datas' |-> s_datas'[m]]
    BY <1>1
  <2>3. pc' \in [Thread -> Places] /\ back' \in [Thread -> {"idle", "callback"}]
    BY <1>1 DEF IInv, TypeOK, Places
  <2> QED BY <1>1, <1>5, <2>1, <2>2, <2>3 DEF IInv, TypeOK
<1>9. /\ DOMAIN s_datas' = DOMAIN s_datas \cup {n} /\ s_datas'[n] = o
      /\ \A m \in DOMAIN s_datas : s_datas'[m] = s_datas[m]
  BY <1>1, <1>4
<1>10. \A m \in DOMAIN s_datas : s_datas[m] \in 1 .. Len(objs) /\ s_datas[m] # o
  BY <1>3 DEF IInv, Table, o
<1>11. Table'
  <2>1. DOMAIN s_datas' \subseteq Name
    BY <1>1, <1>9 DEF IInv, Table
  <2>2. \A m \in DOMAIN s_datas' : s_datas'[m] \in 1 .. Len(objs')
    BY <1>3, <1>5, <1>9, <1>10 DEF o
  <2>3. \A m, k \in DOMAIN s_datas' : s_datas'[m] = s_datas'[k] => m = k
    BY <1>9, <1>10 DEF IInv, Table
  <2> QED BY <2>1, <2>2, <2>3 DEF Table
<1>12. \A u \in Thread : Searching(u)'
  <2>1. Searching(t)'
    BY <1>1 DEF IInv, TypeOK, Searching
  <2>2. \A u \in Thread \ {t} : pc'[u] # "lookup"
    BY <1>1, <1>2 DEF IInv, TypeOK, Searching
  <2> QED BY <2>1, <2>2 DEF Searching
<1>13. \A h \in got : Known(h)'
  <2> SUFFICES ASSUME NEW h \in got PROVE Known(h)'
    OBVIOUS
  <2>1. Known(h) /\ h.var \in 1 .. Len(objs)
    BY <1>10 DEF IInv, Known
  <2> QED BY <1>5, <1>9, <2>1 DEF Known
<1>14. got' = got \cup {[name |-> n, type |-> T, var |-> o]}
  BY <1>3 DEF LookupCreates, Return, o, T
<1>15. \A h \in got' : Known(h)'
  <2> SUFFICES ASSUME NEW h \in got' PROVE Known(h)'
    OBVIOUS
  <2>1. CASE h \in got
    BY <1>13, <2>1
  <2>2. CASE h = [name |-> n, type |-> T, var |-> o]
    <3>1. /\ h.name \in DOMAIN s_datas' /\ s_datas'[h.name] = h.var
          /\ objs'[h.var].type = h.type
      BY <1>5, <1>9, <2>2 DEF x
    <3> QED BY <3>1 DEF Known
  <2> QED BY <1>14, <2>1, <2>2
<1> QED
  BY <1>8, <1>11, <1>12, <1>15 DEF IInv

LEMMA InvariantKept == IInv /\ [Next]_vars => IInv'
<1> SUFFICES ASSUME IInv, [Next]_vars PROVE IInv'
  OBVIOUS
<1>1. ASSUME NEW t \in Thread, Call(t)
      PROVE  IInv'
  BY <1>1, ElsewhereKept, LookupKept DEF Call
<1>2. ASSUME NEW t \in Thread, Proceed(t)
      PROVE  IInv'
  BY <1>2, ElsewhereKept, StoreKept, ReturnsKept, CreatesKept DEF Proceed
<1>3. CASE UNCHANGED vars
  <2>1. UNCHANGED <<s_datas, objs, mutex, pc, back, ask, it, got>>
    BY <1>3 DEF vars, tableVars, lockVars, lookupVars
  <2>2. objs' \in Seq(Range(objs')) /\ \A o \in 1 .. Len(objs') : IsVariable(objs'[o])
    BY <2>1, Unchanged
  <2> QED BY <2>1, <2>2 DEF IInv, TypeOK, Table, Searching, Known
<1> QED
  BY <1>1, <1>2, <1>3 DEF Next, Done

(***************************************************************************)
(* In any behaviour of Config: the table has legal names, each with a      *)
(* variable that no other name has, and between Lookup's search for a name *)
(* and its use of what it found nobody enters one.                         *)
(***************************************************************************)
THEOREM Inductive == Spec => []IInv
<1>1. Init => IInv
  <2> SUFFICES ASSUME Init PROVE IInv
    OBVIOUS
  <2>1. objs = << >> /\ s_datas = << >> /\ Len(<< >>) = 0 /\ DOMAIN << >> = {}
    BY DEF Init
  <2>2. objs \in Seq(Range(objs))
    BY <2>1, EmptySeq
  <2>3. s_datas = [n \in DOMAIN s_datas |-> s_datas[n]]
    BY <2>1
  <2>4. TypeOK
    BY <2>1, <2>2, <2>3 DEF Init, TypeOK, Places
  <2> QED
    BY <2>1, <2>4 DEF Init, IInv, Table, Searching
<1> QED
  BY <1>1, InvariantKept, PTL DEF Spec

(***************************************************************************)
(* Config::Lookup, from any threads and from inside listeners: whoever has *)
(* looked a name up has the one variable of that name, which LoadFromYaml  *)
(* finds too, and has it with its own type.                                *)
(***************************************************************************)
THEOREM OneVariableEver == Spec => []OneVariablePerName
<1>1. IInv => OneVariablePerName
  BY DEF IInv, Known, OneVariablePerName
<1> QED BY <1>1, Inductive, PTL

-----------------------------------------------------------------------------
(***************************************************************************)
(* LoadFromYaml goes through its document from the front.  What it is done *)
(* with is applied, unless it does not convert or a listener has thrown;   *)
(* all the while listeners may look variables up, other threads make new   *)
(* ones and set the same.                                                  *)
(***************************************************************************)
\* Where a thread is in its own code, a Lookup of its listener aside.
Spot(t)     == IF pc[t] = "lookup" THEN back[t] ELSE pc[t]
Setting(t)  == Spot(t) \in {"callback", "store", "storing"}
Targeted(t) == Spot(t) \in {"apply", "callback", "store", "storing"}

\* The thread sets what the node at position k names, to what it converts to.
Source(t, k) ==
  /\ doing[t][k].name \in DOMAIN s_datas
  /\ target[t].var = s_datas[doing[t][k].name]
  /\ target[t].val = Converted(target[t].var, doing[t][k].node)

LoadTypeOK ==
  /\ DOMAIN target = Thread
  /\ doing \in [Thread -> Seq(Member)]
  /\ todo \in [Thread -> SUBSET Nat]
  /\ begun \in [Thread -> SUBSET Name]
  /\ alone \in [Thread -> BOOLEAN]
  /\ refused \in [Thread -> SUBSET Nat]

Progress(t) ==
  /\ todo[t] \subseteq Members(doing[t])
  /\ \A k \in todo[t], j \in Members(doing[t]) : k < j => j \in todo[t]
  /\ refused[t] \subseteq Visited(t)
  /\ begun[t] \subseteq DOMAIN s_datas
  /\ Loading(t) => Spot(t) # "idle"
  /\ Loading(t) /\ Targeted(t) => \E k \in todo[t] : IsFirst(k, todo[t]) /\ Source(t, k)
  /\ Loading(t) /\ Setting(t) => target[t].val # Bad

Applied(t) ==
  alone[t] =>
    \A n \in begun[t] : \A k \in LastFitting(t, n) :
      objs[s_datas[n]].val = Converted(s_datas[n], doing[t][k].node)

LoadInv == LoadTypeOK /\ \A t \in Thread : Progress(t) /\ Applied(t)

-----------------------------------------------------------------------------
\* In every step names keep their variables, and those their types.
Grown ==
  /\ \A n \in DOMAIN s_datas : n \in DOMAIN s_datas' /\ s_datas'[n] = s_datas[n]
  /\ \A o \in 1 .. Len(objs) : o \in 1 .. Len(objs') /\ objs'[o].type = objs[o].type

SameValues == \A o \in 1 .. Len(objs) : objs'[o].val = objs[o].val

LEMMA TablesUnchanged ==
  ASSUME UNCHANGED tableVars
  PROVE  Grown /\ SameValues
BY DEF tableVars, Grown, SameValues

LEMMA CreatesGrown ==
  ASSUME IInv, NEW t \in Thread, LookupCreates(t)
  PROVE  Grown /\ SameValues
<1> DEFINE n == ask[t].name
           x == [type |-> ask[t].type, val |-> Default[ask[t].type]]
<1>1. /\ pc[t] = "lookup" /\ it[t] = 0 /\ objs' = Append(objs, x)
      /\ s_datas' = [m \in DOMAIN s_datas \cup {n} |->
                       IF m = n THEN Len(objs) + 1 ELSE s_datas[m]]
  BY DEF LookupCreates, Absent
<1>2. n \notin DOMAIN s_datas
  <2>1. it[t] = IF n \in DOMAIN s_datas THEN s_datas[n] ELSE 0
    BY <1>1 DEF IInv, Searching
  <2>2. \A m \in DOMAIN s_datas : s_datas[m] \in 1 .. Len(objs)
    BY DEF IInv, Table
  <2> QED BY <1>1, <2>1, <2>2
<1>3. /\ Len(objs') = Len(objs) + 1 /\ Len(objs) \in Nat
      /\ \A p \in 1 .. Len(objs) : objs'[p] = objs[p]
  <2>1. objs \in Seq(Range(objs) \cup {x})
    BY SeqMonotonic DEF IInv, TypeOK
  <2> QED BY <1>1, <2>1, AppendProperties
<1> HIDE DEF x, n
<1> QED BY <1>1, <1>2, <1>3 DEF Grown, SameValues

\* A store gives the variable its value, and no other variable.
LEMMA StoreGrown ==
  ASSUME IInv, NEW t \in Thread, Store(t)
  PROVE  /\ Grown
         /\ \A o \in 1 .. Len(objs) :
              objs'[o].val = IF o = target[t].var THEN target[t].val ELSE objs[o].val
<1>1. /\ objs' = [objs EXCEPT ![target[t].var].val = target[t].val]
      /\ UNCHANGED s_datas
  BY DEF Store
<1>2. Len(objs) \in Nat /\ DOMAIN objs = 1 .. Len(objs)
  BY DEF IInv, TypeOK
<1>3. Len(objs') = Len(objs)
  <2>1. DOMAIN objs' = 1 .. Len(objs)
    BY <1>1, <1>2
  <2> QED BY <1>2, <2>1
<1>4. \A o \in 1 .. Len(objs) :
        objs'[o] = IF o = target[t].var THEN [objs[o] EXCEPT !.val = target[t].val] ELSE objs[o]
  BY <1>1, <1>2
<1>5. \A o \in 1 .. Len(objs) : objs[o] = [type |-> objs[o].type, val |-> objs[o].val]
  BY DEF IInv, TypeOK, IsVariable
<1>6. ASSUME NEW o \in 1 .. Len(objs)
      PROVE  /\ objs'[o].type = objs[o].type
             /\ objs'[o].val = IF o = target[t].var THEN target[t].val ELSE objs[o].val
  <2> DEFINE T == objs[o].type
             v == objs[o].val
             w == target[t].val
  <2>1. objs[o] = [type |-> T, val |-> v]
    BY <1>5
  <2>2. [objs[o] EXCEPT !.val = w] = [type |-> T, val |-> w]
    BY <2>1
  <2>3. objs'[o] = IF o = target[t].var THEN [type |-> T, val |-> w] ELSE [type |-> T, val |-> v]
    BY <1>4, <2>1, <2>2
  <2> HIDE DEF T, v, w
  <2>4. objs'[o].type = T /\ objs'[o].val = IF o = target[t].var THEN w ELSE v
    BY <2>3
  <2> QED BY <2>4 DEF T, v, w
<1> QED
  BY <1>1, <1>3, <1>6 DEF Grown

LEMMA ConvertedStays ==
  ASSUME IInv, Grown, NEW n \in DOMAIN s_datas, NEW node
  PROVE  Conversion[objs'[s_datas'[n]].type][node] = Converted(s_datas[n], node)
<1>1. s_datas'[n] = s_datas[n] /\ s_datas[n] \in 1 .. Len(objs)
  BY DEF Grown, IInv, Table
<1> QED BY <1>1 DEF Grown, Converted

-----------------------------------------------------------------------------
\* A thread without a document, whatever else it does.
LEMMA EmptyKept ==
  ASSUME NEW t \in Thread, doing'[t] = << >>, todo'[t] = {}, refused'[t] = {},
         begun'[t] \subseteq DOMAIN s_datas'
  PROVE  Progress(t)' /\ Applied(t)'
<1>1. Members(<< >>) = {}
  BY DEF Members
<1>2. ~Loading(t)' /\ Visited(t)' = {}
  BY <1>1 DEF Loading, Visited
<1>3. Progress(t)'
  BY <1>1, <1>2 DEF Progress
<1>4. \A n : LastFitting(t, n)' = {}
  BY <1>2 DEF LastFitting
<1> QED BY <1>3, <1>4 DEF Applied

\* What a thread without a document has.
LEMMA Empty ==
  ASSUME LoadInv, NEW t \in Thread, ~Loading(t)
  PROVE  /\ doing[t] = << >> /\ todo[t] = {} /\ refused[t] = {}
         /\ begun[t] \subseteq DOMAIN s_datas
<1>1. Members(<< >>) = {}
  BY DEF Members
<1> QED BY <1>1 DEF LoadInv, Progress, Loading, Visited

\* A load that goes on being where it is.
Stands(t) ==
  /\ target'[t] = target[t] /\ doing'[t] = doing[t] /\ todo'[t] = todo[t]
  /\ begun'[t] = begun[t] /\ refused'[t] = refused[t]
  /\ Targeted(t)' = Targeted(t)
  /\ Setting(t)' => Setting(t) \/ target[t].val # Bad
  /\ Spot(t)' = "idle" => Spot(t) = "idle"

LEMMA StandsKept ==
  ASSUME IInv, LoadInv, Grown, NEW t \in Thread, Stands(t),
         alone'[t] => alone[t], alone'[t] /\ Loading(t) => SameValues
  PROVE  Progress(t)' /\ Applied(t)'
<1>1. CASE ~Loading(t)
  <2>1. /\ doing'[t] = << >> /\ todo'[t] = {} /\ refused'[t] = {}
        /\ begun'[t] \subseteq DOMAIN s_datas'
    BY <1>1, Empty DEF Stands, Grown
  <2> QED BY <2>1, EmptyKept
<1>2. CASE Loading(t)
  <2>1. /\ Loading(t)' /\ Visited(t)' = Visited(t)
        /\ Members(doing[t])' = Members(doing[t])
    BY <1>2 DEF Stands, Loading, Visited, Members
  <2>2. ASSUME NEW k, Source(t, k)
        PROVE  Source(t, k)'
    <3>1. doing[t][k].name \in DOMAIN s_datas
      BY <2>2 DEF Source
    <3>2. Conversion[objs'[s_datas'[doing[t][k].name]].type][doing[t][k].node]
            = Converted(s_datas[doing[t][k].name], doing[t][k].node)
      BY <3>1, ConvertedStays
    <3> QED BY <2>2, <3>1, <3>2 DEF Source, Stands, Grown, Converted
  <2>3. Progress(t)'
    <3>1. Progress(t)
      BY DEF LoadInv
    <3>2. /\ todo'[t] \subseteq Members(doing[t])'
          /\ \A k \in todo'[t], j \in Members(doing[t])' : k < j => j \in todo'[t]
          /\ refused'[t] \subseteq Visited(t)'
          /\ begun'[t] \subseteq DOMAIN s_datas'
          /\ Spot(t)' # "idle"
      BY <1>2, <2>1, <3>1 DEF Progress, Stands, Grown
    <3>3. Targeted(t)' => \E k \in todo'[t] : IsFirst(k, todo'[t]) /\ Source(t, k)'
      BY <1>2, <2>2, <3>1 DEF Progress, Stands
    <3>4. Setting(t)' => target'[t].val # Bad
      BY <1>2, <3>1 DEF Progress, Stands
    <3> QED BY <3>2, <3>3, <3>4 DEF Progress, IsFirst
  <2>4. ASSUME alone'[t], NEW n \in begun[t], NEW k \in LastFitting(t, n)'
        PROVE  objs'[s_datas'[n]].val = Converted(s_datas[n], doing[t][k].node)'
    <3>1. n \in DOMAIN s_datas /\ s_datas'[n] = s_datas[n] /\ s_datas[n] \in 1 .. Len(objs)
      BY DEF LoadInv, Progress, Grown, IInv, Table
    <3>2. ASSUME NEW j
          PROVE  Converted(s_datas[n], doing[t][j].node)' = Converted(s_datas[n], doing[t][j].node)
      <4>1. Conversion[objs'[s_datas'[n]].type][doing[t][j].node]
              = Converted(s_datas[n], doing[t][j].node)
        BY <3>1, ConvertedStays
      <4> QED BY <4>1 DEF Converted, Stands
    <3>3. k \in LastFitting(t, n)
      BY <2>1, <3>2 DEF LastFitting, Fits, Stands
    <3>4. objs[s_datas[n]].val = Converted(s_datas[n], doing[t][k].node)
      BY <2>4, <3>3 DEF LoadInv, Applied
    <3> QED BY <1>2, <2>4, <3>1, <3>2, <3>4 DEF SameValues
  <2>5. Applied(t)'
    <3>1. begun'[t] = begun[t]
      BY DEF Stands
    <3> QED BY <2>4, <3>1 DEF Applied
  <2> QED BY <2>3, <2>5
<1> QED BY <1>1, <1>2

\* The node the loop is at has been visited.
LEMMA VisitedGrows ==
  ASSUME LoadInv, NEW t \in Thread, NEW k \in todo[t], IsFirst(k, todo[t]),
         todo'[t] = Rest(t), doing'[t] = doing[t]
  PROVE  /\ Visited(t)' = Visited(t) \cup {k}
         /\ \A j \in Visited(t) : j < k
         /\ todo'[t] \subseteq Members(doing[t])
         /\ \A l \in todo'[t], j \in Members(doing[t]) : l < j => j \in todo'[t]
<1>1. /\ todo[t] \subseteq Members(doing[t]) /\ todo[t] \subseteq Nat
      /\ \A l \in todo[t], j \in Members(doing[t]) : l < j => j \in todo[t]
  BY DEF LoadInv, LoadTypeOK, Progress
<1>2. Members(doing[t]) \subseteq Nat
  <2>1. doing[t] \in Seq(Member)
    BY DEF LoadInv, LoadTypeOK
  <2>2. DOMAIN doing[t] \subseteq Nat
    BY <2>1
  <2> QED BY <2>2 DEF Members
<1>3. todo'[t] = todo[t] \ {k}
  BY <1>1 DEF Rest, IsFirst
<1>4. Visited(t)' = Visited(t) \cup {k}
  BY <1>1, <1>3 DEF Visited, Members
<1>5. \A j \in Visited(t) : j < k
  BY <1>1, <1>2 DEF Visited
<1>6. \A l \in todo'[t], j \in Members(doing[t]) : l < j => j \in todo'[t]
  BY <1>1, <1>2, <1>3 DEF IsFirst
<1> QED
  BY <1>1, <1>3, <1>4, <1>5, <1>6

\* A node is done with: the variable it names has its value, if it converts and no
\* listener has refused it, and nothing else changes.
LEMMA PassedKept ==
  ASSUME IInv, LoadInv, Grown, NEW t \in Thread, NEW k \in todo[t], IsFirst(k, todo[t]),
         todo'[t] = Rest(t), doing'[t] = doing[t], begun'[t] = begun[t],
         refused'[t] = refused[t] \/ refused'[t] = refused[t] \cup {k},
         Spot(t)' = "member", alone'[t] => alone[t],
         alone'[t] => \A n \in begun[t] :
           objs'[s_datas[n]].val =
             IF /\ doing[t][k].name = n /\ k \notin refused'[t]
                /\ Converted(s_datas[n], doing[t][k].node) # Bad
             THEN Converted(s_datas[n], doing[t][k].node) ELSE objs[s_datas[n]].val
  PROVE  Progress(t)' /\ Applied(t)'
<1>1. /\ Visited(t)' = Visited(t) \cup {k} /\ \A j \in Visited(t) : j < k
      /\ todo'[t] \subseteq Members(doing[t])
      /\ \A l \in todo'[t], j \in Members(doing[t]) : l < j => j \in todo'[t]
  BY VisitedGrows
<1>2. Progress(t)'
  <2>1. Spot(t)' # "idle" /\ ~Targeted(t)' /\ ~Setting(t)'
    BY DEF Setting, Targeted
  <2>2. begun'[t] \subseteq DOMAIN s_datas'
    BY DEF LoadInv, Progress, Grown
  <2>3. Members(doing[t])' = Members(doing[t])
    BY DEF Members
  <2>4. refused'[t] \subseteq Visited(t)'
    BY <1>1 DEF LoadInv, Progress
  <2> QED BY <1>1, <2>1, <2>2, <2>3, <2>4 DEF Progress
<1>3. ASSUME alone'[t], NEW n \in begun[t], NEW l \in LastFitting(t, n)'
      PROVE  objs'[s_datas'[n]].val = Converted(s_datas[n], doing[t][l].node)'
  <2>1. n \in DOMAIN s_datas /\ s_datas'[n] = s_datas[n]
    BY DEF LoadInv, Progress, Grown
  <2>2. ASSUME NEW j
        PROVE  Converted(s_datas[n], doing[t][j].node)' = Converted(s_datas[n], doing[t][j].node)
    <3>1. Conversion[objs'[s_datas'[n]].type][doing[t][j].node]
            = Converted(s_datas[n], doing[t][j].node)
      BY <2>1, ConvertedStays
    <3> QED BY <3>1 DEF Converted
  <2>3. \A j : j # k => (Fits(t, n, j)' <=> Fits(t, n, j))
    BY <2>2 DEF Fits
  <2>4. Fits(t, n, k)' <=> /\ doing[t][k].name = n /\ k \notin refused'[t]
                           /\ Converted(s_datas[n], doing[t][k].node) # Bad
    BY <2>2 DEF Fits
  <2>5. l \in Visited(t)' /\ Fits(t, n, l)' /\ \A j \in Visited(t)' : Fits(t, n, j)' => j <= l
    BY DEF LastFitting
  <2>6. CASE l = k
    BY <1>3, <2>1, <2>2, <2>4, <2>5, <2>6
  <2>7. CASE l # k
    <3>1. l \in LastFitting(t, n) /\ l < k
      <4>1. l \in Visited(t) /\ l < k /\ Fits(t, n, l)
        BY <1>1, <2>3, <2>5, <2>7
      <4>2. ASSUME NEW j \in Visited(t), Fits(t, n, j)
            PROVE  j <= l
        <5>1. j \in Visited(t)' /\ j < k
          BY <1>1
        <5>2. j # k
          <6>1. k \in Nat
            BY DEF LoadInv, LoadTypeOK
          <6> QED BY <5>1, <6>1
        <5> QED BY <2>3, <2>5, <4>2, <5>1, <5>2
      <4> QED BY <4>1, <4>2 DEF LastFitting
    <3>2. ~Fits(t, n, k)'
      <4>1. k \in Nat /\ l \in Nat
        <5>1. l \in DOMAIN doing[t] /\ doing[t] \in Seq(Member)
          BY <3>1 DEF LastFitting, Visited, Members, LoadInv, LoadTypeOK
        <5>2. l \in Nat
          BY <5>1
        <5> QED BY <5>2 DEF LoadInv, LoadTypeOK
      <4>2. Fits(t, n, k)' => k <= l
        BY <1>1, <2>5
      <4> QED BY <3>1, <4>1, <4>2
    <3>3. objs[s_datas[n]].val = Converted(s_datas[n], doing[t][l].node)
      BY <1>3, <3>1 DEF LoadInv, Applied
    <3> QED BY <1>3, <2>1, <2>2, <2>4, <3>2, <3>3
  <2> QED BY <2>6, <2>7
<1>4. Applied(t)'
  BY <1>3 DEF Applied
<1> QED BY <1>2, <1>4

-----------------------------------------------------------------------------
\* Steps on the way of a Lookup leave a load where it is.
LEMMA LookupStands ==
  ASSUME IInv, NEW t \in Thread,
         \/ \E n \in Name \cup BadName, T \in Type : Lookup(t, n, T) \/ Find(t, n, T)
         \/ LookupExists(t) \/ LookupMismatch(t) \/ LookupInvalid(t) \/ LookupCreates(t)
  PROVE  Stands(t) /\ UNCHANGED <<loadVars, history>>
<1>1. UNCHANGED <<loadVars, history>>
  BY DEF Lookup, Find, LookupExists, LookupMismatch, LookupInvalid, LookupCreates, LookupReturns
<1>2. Spot(t)' = Spot(t)
  <2>1. CASE \E n \in Name \cup BadName, T \in Type : Lookup(t, n, T)
    BY <2>1 DEF Lookup, Calls, Goto, Spot, IInv, TypeOK
  <2>2. CASE \E n \in Name \cup BadName, T \in Type : Find(t, n, T)
    BY <2>2 DEF Find, lookupVars, Spot
  <2>3. CASE LookupExists(t) \/ LookupMismatch(t) \/ LookupInvalid(t) \/ LookupCreates(t)
    <3>1. pc[t] = "lookup" /\ pc' = [pc EXCEPT ![t] = back[t]]
      BY <2>3 DEF LookupExists, LookupMismatch, LookupInvalid, LookupCreates, Found, Absent,
         LookupReturns, Goto
    <3> QED BY <3>1 DEF Spot, IInv, TypeOK
  <2> QED BY <2>1, <2>2, <2>3
<1> QED BY <1>1, <1>2 DEF Stands, Setting, Targeted, loadVars, history

\* What a step of t does to the load of another thread: it sets variables, and
\* then the load is not alone any more.
LEMMA OthersStand ==
  ASSUME IInv, LoadInv, NEW t \in Thread, Call(t) \/ Proceed(t), NEW u \in Thread \ {t}
  PROVE  /\ Stands(u)
         /\ alone'[u] => alone[u]
         /\ ~Store(t) => alone'[u] = alone[u]
         /\ Store(t) => ~(alone'[u] /\ Loading(u))
<1>1. /\ pc'[u] = pc[u] /\ back'[u] = back[u]
      /\ target'[u] = target[u] /\ doing'[u] = doing[u] /\ todo'[u] = todo[u]
      /\ begun'[u] = begun[u] /\ refused'[u] = refused[u]
      /\ alone'[u] = alone[u] \/ Store(t)
  <2>1. CASE Call(t)
    BY <2>1 DEF Call, Lookup, Find, Load, SetValue, Calls, Goto, lookupVars, loadVars, history,
       IInv, TypeOK, LoadInv, LoadTypeOK
  <2>2. CASE LookupExists(t) \/ LookupMismatch(t) \/ LookupInvalid(t) \/ LookupCreates(t)
    <3>1. /\ pc' = [pc EXCEPT ![t] = back[t]] /\ back' = [back EXCEPT ![t] = "idle"]
          /\ UNCHANGED <<loadVars, history>>
      BY <2>2 DEF LookupExists, LookupMismatch, LookupInvalid, LookupCreates, LookupReturns, Goto
    <3> QED BY <3>1 DEF loadVars, history, IInv, TypeOK
  <2>3. CASE LoadMember(t) \/ LoadDone(t) \/ ThrowLeaves(t)
    BY <2>3 DEF LoadMember, LoadDone, ThrowLeaves, LoadEnds, Goto, lookupVars, history,
       IInv, TypeOK, LoadInv, LoadTypeOK
  <2>4. CASE Refuse(t) \/ Compare(t) \/ Notified(t) \/ ThrowCaught(t) \/ StoreLock(t)
    BY <2>4 DEF Refuse, Compare, Notified, ThrowCaught, StoreLock, Resume, Goto, lookupVars,
       loadVars, history, IInv, TypeOK, LoadInv, LoadTypeOK
  <2>5. CASE Store(t)
    BY <2>5 DEF Store, Resume, Goto, lookupVars, IInv, TypeOK, LoadInv, LoadTypeOK
  <2> QED BY <2>1, <2>2, <2>3, <2>4, <2>5 DEF Proceed
<1>2. Store(t) => alone'[u] = (alone[u] /\ ~Loading(u))
  BY DEF Store
<1>3. alone[u] \in BOOLEAN
  BY DEF LoadInv, LoadTypeOK
<1>4. Stands(u)
  BY <1>1 DEF Stands, Setting, Targeted, Spot
<1> QED
  BY <1>1, <1>2, <1>3, <1>4

LEMMA StepGrown ==
  ASSUME IInv, NEW t \in Thread, Call(t) \/ Proceed(t)
  PROVE  Grown /\ (~Store(t) => SameValues)
<1>1. CASE Store(t)
  BY <1>1, StoreGrown
<1>2. CASE LookupCreates(t)
  BY <1>2, CreatesGrown
<1>3. CASE ~Store(t) /\ ~LookupCreates(t)
  <2>1. UNCHANGED tableVars
    BY <1>3 DEF Call, Proceed, Lookup, Find, Load, SetValue, LookupExists, LookupMismatch,
       LookupInvalid, LoadMember, LoadDone, Refuse, Compare, Notified, ThrowCaught,
       ThrowLeaves, StoreLock
  <2> QED BY <1>3, <2>1, TablesUnchanged
<1> QED BY <1>1, <1>2, <1>3

-----------------------------------------------------------------------------
\* The steps of a load itself.
LEMMA LoadStarts ==
  ASSUME IInv, LoadInv, NEW t \in Thread, NEW doc \in Doc, Load(t, doc)
  PROVE  Progress(t)' /\ Applied(t)'
<1>1. /\ doing'[t] = doc /\ todo'[t] = Members(doc) /\ begun'[t] = DOMAIN s_datas
      /\ pc'[t] = "member" /\ UNCHANGED <<tableVars, refused>> /\ pc[t] = "idle"
  BY DEF Load, Goto, IInv, TypeOK, LoadInv, LoadTypeOK
<1>2. Visited(t)' = {}
  BY <1>1 DEF Visited, Members
<1>3. \A n : LastFitting(t, n)' = {}
  BY <1>2 DEF LastFitting
<1>4. Spot(t)' = "member" /\ ~Setting(t)' /\ ~Targeted(t)'
  BY <1>1 DEF Spot, Setting, Targeted
<1>5. refused'[t] = {}
  <2>1. ~Loading(t)
    BY <1>1 DEF LoadInv, Progress, Spot
  <2> QED BY <1>1, <2>1, Empty
<1>6. Progress(t)'
  BY <1>1, <1>4, <1>5 DEF Progress, Members, tableVars
<1> QED BY <1>3, <1>6 DEF Applied

LEMMA MemberKept ==
  ASSUME IInv, LoadInv, NEW t \in Thread, LoadMember(t)
  PROVE  Progress(t)' /\ Applied(t)'
<1>1. /\ pc[t] = "member" /\ UNCHANGED <<tableVars, doing, begun, alone, refused, lookupVars>>
  BY DEF LoadMember, history
<1>2. PICK k \in todo[t] :
        /\ IsFirst(k, todo[t])
        /\ IF doing[t][k].name \in DOMAIN s_datas
           THEN /\ target' = [target EXCEPT ![t] =
                     [var |-> s_datas[doing[t][k].name],
                      val |-> Converted(s_datas[doing[t][k].name], doing[t][k].node)]]
                /\ pc' = [pc EXCEPT ![t] = "apply"] /\ UNCHANGED todo
           ELSE todo' = [todo EXCEPT ![t] = Rest(t)] /\ UNCHANGED <<target, pc>>
  BY DEF LoadMember, Goto
<1>3. Spot(t) = "member"
  BY <1>1 DEF Spot
<1>4. CASE doing[t][k].name \in DOMAIN s_datas
  <2>1. /\ pc'[t] = "apply" /\ todo' = todo
        /\ target'[t] = [var |-> s_datas[doing[t][k].name],
                         val |-> Converted(s_datas[doing[t][k].name], doing[t][k].node)]
    BY <1>2, <1>4 DEF IInv, TypeOK, LoadInv, LoadTypeOK
  <2>2. Spot(t)' = "apply" /\ ~Setting(t)'
    BY <2>1 DEF Spot, Setting
  <2>3. Source(t, k)'
    BY <1>1, <1>4, <2>1 DEF Source, Converted, tableVars
  <2>4. Visited(t)' = Visited(t) /\ Members(doing[t])' = Members(doing[t])
    BY <1>1, <2>1 DEF Visited, Members
  <2>5. Progress(t)'
    BY <1>1, <1>2, <2>1, <2>2, <2>3, <2>4 DEF LoadInv, Progress, tableVars
  <2>6. \A n : LastFitting(t, n)' = LastFitting(t, n)
    BY <1>1, <2>4 DEF LastFitting, Fits, Converted, tableVars
  <2>7. Applied(t)'
    BY <1>1, <2>6 DEF LoadInv, Applied, Converted, tableVars
  <2> QED BY <2>5, <2>7
<1>5. CASE doing[t][k].name \notin DOMAIN s_datas
  <2>1. todo'[t] = Rest(t) /\ Spot(t)' = "member"
    BY <1>1, <1>2, <1>3, <1>5 DEF Spot, lookupVars, LoadInv, LoadTypeOK
  <2>2. \A n \in begun[t] : n # doing[t][k].name
    BY <1>5 DEF LoadInv, Progress
  <2>3. UNCHANGED tableVars /\ doing'[t] = doing[t] /\ begun'[t] = begun[t]
        /\ refused'[t] = refused[t] /\ alone'[t] = alone[t] /\ objs' = objs
    BY <1>1 DEF tableVars
  <2>4. Grown
    BY <2>3, TablesUnchanged
  <2>5. \A n \in begun[t] :
          objs'[s_datas[n]].val =
            IF /\ doing[t][k].name = n /\ k \notin refused'[t]
               /\ Converted(s_datas[n], doing[t][k].node) # Bad
            THEN Converted(s_datas[n], doing[t][k].node) ELSE objs[s_datas[n]].val
    BY <2>2, <2>3
  <2> QED BY <1>2, <2>1, <2>3, <2>4, <2>5, PassedKept
<1> QED BY <1>4, <1>5

\* setValue or fromString returns to the loop, which is done with the node.
LEMMA ResumeKept ==
  ASSUME IInv, LoadInv, NEW t \in Thread, Loading(t), Resume(t, Rest(t)), pc[t] # "lookup",
         Targeted(t), UNCHANGED <<back, s_datas, doing, begun>>,
         Grown, alone'[t] => alone[t],
         NEW k \in todo[t], IsFirst(k, todo[t]), Source(t, k),
         refused'[t] = refused[t] \/ refused'[t] = refused[t] \cup {k},
         alone'[t] => \A o \in 1 .. Len(objs) :
           objs'[o].val = IF o = target[t].var /\ k \notin refused'[t] /\ target[t].val # Bad
                          THEN target[t].val ELSE objs[o].val
  PROVE  Progress(t)' /\ Applied(t)'
<1>1. todo'[t] = Rest(t) /\ pc'[t] = "member" /\ doing'[t] = doing[t] /\ begun'[t] = begun[t]
  BY DEF Resume, Goto, IInv, TypeOK, LoadInv, LoadTypeOK
<1>2. Spot(t)' = "member"
  BY <1>1 DEF Spot
<1>3. ASSUME alone'[t], NEW n \in begun[t]
      PROVE  objs'[s_datas[n]].val =
               IF /\ doing[t][k].name = n /\ k \notin refused'[t]
                  /\ Converted(s_datas[n], doing[t][k].node) # Bad
               THEN Converted(s_datas[n], doing[t][k].node) ELSE objs[s_datas[n]].val
  <2>1. n \in DOMAIN s_datas /\ s_datas[n] \in 1 .. Len(objs)
    BY DEF LoadInv, Progress, IInv, Table
  <2>2. /\ doing[t][k].name \in DOMAIN s_datas
        /\ target[t].var = s_datas[doing[t][k].name]
        /\ target[t].val = Converted(target[t].var, doing[t][k].node)
    BY DEF Source
  <2>3. objs'[s_datas[n]].val =
          IF s_datas[n] = target[t].var /\ k \notin refused'[t] /\ target[t].val # Bad
          THEN target[t].val ELSE objs[s_datas[n]].val
    BY <1>3, <2>1
  <2>4. CASE doing[t][k].name = n
    BY <2>2, <2>3, <2>4
  <2>5. CASE doing[t][k].name # n
    <3>1. s_datas[n] # target[t].var
      BY <2>1, <2>2, <2>5 DEF IInv, Table
    <3> QED BY <2>3, <2>5, <3>1
  <2> QED BY <2>4, <2>5
<1> QED BY <1>1, <1>2, <1>3, PassedKept

LEMMA SetKept ==
  ASSUME IInv, LoadInv, NEW t \in Thread, Loading(t),
         Refuse(t) \/ Compare(t) \/ Notified(t) \/ ThrowCaught(t) \/ StoreLock(t) \/ Store(t)
  PROVE  Progress(t)' /\ Applied(t)'
<1>1. /\ UNCHANGED <<back, doing, begun, s_datas>>
      /\ pc[t] \in {"apply", "callback", "store", "storing"}
  BY DEF Refuse, Compare, Notified, ThrowCaught, ListenersEnd, StoreLock, Store, lookupVars,
     loadVars, history, tableVars
<1>2. Targeted(t) /\ pc[t] # "lookup"
  BY <1>1 DEF Spot, Targeted
<1>3. PICK k \in todo[t] : IsFirst(k, todo[t]) /\ Source(t, k)
  BY <1>2 DEF LoadInv, Progress
<1>4. CASE Refuse(t)
  <2>1. /\ Resume(t, Rest(t)) /\ target[t].val = Bad
        /\ UNCHANGED <<tableVars, alone, refused>>
    BY <1>4 DEF Refuse, RestAfterThrow, history
  <2>2. Grown /\ objs' = objs
    BY <2>1, TablesUnchanged DEF tableVars
  <2> QED BY <1>1, <1>2, <1>3, <2>1, <2>2, ResumeKept
<1>5. CASE ThrowCaught(t)
  <2>1. /\ Resume(t, Rest(t)) /\ UNCHANGED <<tableVars, alone>>
        /\ refused' = [refused EXCEPT ![t] = @ \cup {j \in todo[t] : IsFirst(j, todo[t])}]
    BY <1>5 DEF ThrowCaught, RestAfterThrow
  <2>2. {j \in todo[t] : IsFirst(j, todo[t])} = {k}
    <3>1. todo[t] \subseteq Nat
      BY DEF LoadInv, LoadTypeOK
    <3> QED BY <1>3, <3>1 DEF IsFirst
  <2>3. refused'[t] = refused[t] \cup {k}
    BY <2>1, <2>2 DEF LoadInv, LoadTypeOK
  <2>4. Grown /\ objs' = objs
    BY <2>1, TablesUnchanged DEF tableVars
  <2> QED BY <1>1, <1>2, <1>3, <2>1, <2>3, <2>4, ResumeKept
<1>6. CASE Compare(t)
  <2>1. target[t].val # Bad /\ UNCHANGED <<tableVars, alone, refused>> /\ pc[t] = "apply"
    BY <1>6 DEF Compare, history
  <2>2. CASE objs[target[t].var].val = target[t].val
    <3>1. Resume(t, Rest(t))
      BY <1>6, <2>2 DEF Compare
    <3>2. Grown /\ objs' = objs
      BY <2>1, TablesUnchanged DEF tableVars
    <3> QED BY <1>1, <1>2, <1>3, <2>1, <2>2, <3>1, <3>2, ResumeKept
  <2>3. CASE objs[target[t].var].val # target[t].val
    <3>1. pc'[t] = "callback" /\ UNCHANGED <<target, todo>>
      BY <1>6, <2>3 DEF Compare, Goto, IInv, TypeOK
    <3>2. Targeted(t)' /\ Spot(t)' = "callback"
      BY <3>1 DEF Spot, Targeted
    <3>3. Stands(t)
      BY <1>1, <1>2, <2>1, <3>1, <3>2 DEF Stands
    <3> QED BY <2>1, <3>3, TablesUnchanged, StandsKept
  <2> QED BY <2>2, <2>3
<1>7. CASE Notified(t) \/ StoreLock(t)
  <2>1. /\ pc[t] \in {"callback", "store"} /\ pc'[t] \in {"store", "storing"}
        /\ UNCHANGED <<tableVars, target, todo, alone, refused>>
    BY <1>7 DEF Notified, ListenersEnd, StoreLock, Goto, IInv, TypeOK, loadVars, history
  <2>2. Setting(t) /\ Targeted(t)' /\ Spot(t)' # "idle"
    BY <2>1 DEF Setting, Targeted, Spot
  <2>3. Stands(t)
    BY <1>1, <1>2, <2>1, <2>2 DEF Stands
  <2> QED BY <2>1, <2>3, TablesUnchanged, StandsKept
<1>8. CASE Store(t)
  <2>1. /\ Resume(t, Rest(t)) /\ UNCHANGED refused /\ pc[t] = "storing"
        /\ alone' = [u \in Thread |-> alone[u] /\ (u = t \/ ~Loading(u))]
    BY <1>8 DEF Store
  <2>2. alone'[t] => alone[t]
    BY <2>1
  <2>3. target[t].val # Bad
    BY <2>1 DEF Spot, Setting, LoadInv, Progress
  <2>4. k \notin refused'[t]
    BY <2>1, <1>3 DEF LoadInv, Progress, Visited
  <2>5. Grown /\ \A o \in 1 .. Len(objs) :
          objs'[o].val = IF o = target[t].var THEN target[t].val ELSE objs[o].val
    BY <1>8, StoreGrown
  <2> QED BY <1>1, <1>2, <1>3, <2>1, <2>2, <2>3, <2>4, <2>5, ResumeKept
<1> QED BY <1>4, <1>5, <1>6, <1>7, <1>8

\* What is not loading sets variables only.
LEMMA ClientKept ==
  ASSUME IInv, LoadInv, NEW t \in Thread,
         \/ LoadDone(t) \/ ThrowLeaves(t)
         \/ \E h \in got : \E x \in Value[h.type] : SetValue(t, h, x)
         \/ /\ ~Loading(t)
            /\ Refuse(t) \/ Compare(t) \/ Notified(t) \/ StoreLock(t) \/ Store(t)
  PROVE  Progress(t)' /\ Applied(t)'
<1>1. CASE LoadDone(t) \/ ThrowLeaves(t)
  <2>1. LoadEnds(t)
    BY <1>1 DEF LoadDone, ThrowLeaves
  <2>2. doing'[t] = << >> /\ todo'[t] = {} /\ begun'[t] = {} /\ refused'[t] = {}
    BY <2>1 DEF LoadEnds, LoadInv, LoadTypeOK
  <2> QED BY <2>2, EmptyKept
<1>2. CASE \E h \in got : \E x \in Value[h.type] : SetValue(t, h, x)
  <2>1. pc[t] = "idle" /\ UNCHANGED <<doing, todo, begun, refused, s_datas>>
    BY <1>2 DEF SetValue, history, tableVars
  <2>2. ~Loading(t)
    BY <2>1 DEF LoadInv, Progress, Spot
  <2> QED BY <2>1, <2>2, Empty, EmptyKept
<1>3. CASE /\ ~Loading(t)
           /\ Refuse(t) \/ Compare(t) \/ Notified(t) \/ StoreLock(t) \/ Store(t)
  <2>1. UNCHANGED <<doing, begun, refused, s_datas>>
    BY <1>3 DEF Refuse, Compare, Notified, StoreLock, Store, loadVars, history, tableVars
  <2>2. todo[t] = {} /\ todo \in [Thread -> SUBSET Nat]
    BY <1>3, Empty DEF LoadInv, LoadTypeOK
  <2>3. todo' = todo \/ todo' = [todo EXCEPT ![t] = Rest(t)]
    BY <1>3 DEF Refuse, RestAfterThrow, Compare, Notified, StoreLock, Store, Resume, loadVars
  <2>4. todo'[t] = {}
    BY <2>2, <2>3 DEF Rest
  <2> QED BY <1>3, <2>1, <2>4, Empty, EmptyKept
<1> QED BY <1>1, <1>2, <1>3

LEMMA LoadTypeKept ==
  ASSUME IInv, LoadInv, NEW t \in Thread, Call(t) \/ Proceed(t)
  PROVE  LoadTypeOK'
<1>1. Rest(t) \subseteq Nat
  BY DEF LoadInv, LoadTypeOK, Rest
<1>2. CASE \E doc \in Doc : Load(t, doc)
  <2>1. PICK doc \in Doc : Load(t, doc)
    BY <1>2
  <2>2. doc \in Seq(Member)
    BY RegistryAssumption
  <2>3. Members(doc) \subseteq Nat
    <3>1. DOMAIN doc \subseteq Nat
      BY <2>2
    <3> QED BY <3>1 DEF Members
  <2>4. DOMAIN s_datas \subseteq Name
    BY DEF IInv, Table
  <2> QED BY <2>1, <2>2, <2>3, <2>4 DEF Load, LoadInv, LoadTypeOK
<1>3. CASE LoadDone(t) \/ ThrowLeaves(t)
  <2>1. << >> \in Seq(Member)
    OBVIOUS
  <2>2. LoadEnds(t) /\ DOMAIN target' = DOMAIN target
    BY <1>3 DEF LoadDone, ThrowLeaves
  <2> QED BY <2>1, <2>2 DEF LoadEnds, LoadInv, LoadTypeOK
<1>4. CASE Store(t)
  <2>1. /\ alone' = [u \in Thread |-> alone[u] /\ (u = t \/ ~Loading(u))]
        /\ UNCHANGED <<doing, begun, refused>> /\ target' = [target EXCEPT ![t] = << >>]
        /\ todo' = [todo EXCEPT ![t] = Rest(t)]
    BY <1>4 DEF Store, Resume
  <2> QED BY <1>1, <2>1 DEF LoadInv, LoadTypeOK
<1>5. CASE Refuse(t) \/ Compare(t)
  <2>1. /\ todo' = todo \/ todo' = [todo EXCEPT ![t] = Rest(t)]
        /\ UNCHANGED <<doing, begun, alone, refused>>
        /\ target' = target \/ target' = [target EXCEPT ![t] = << >>]
    BY <1>5 DEF Refuse, RestAfterThrow, Compare, Resume, history
  <2> QED BY <1>1, <2>1 DEF LoadInv, LoadTypeOK
<1>6. CASE LoadMember(t)
  <2>1. /\ UNCHANGED <<doing, begun, alone, refused>>
        /\ todo' = todo \/ todo' = [todo EXCEPT ![t] = Rest(t)]
        /\ DOMAIN target' = DOMAIN target
    BY <1>6 DEF LoadMember, history
  <2> QED BY <1>1, <2>1 DEF LoadInv, LoadTypeOK
<1>7. CASE \E h \in got : \E x \in Value[h.type] : SetValue(t, h, x)
  BY <1>7 DEF SetValue, history, LoadInv, LoadTypeOK
<1>8. CASE \/ \E n \in Name \cup BadName, T \in Type : Lookup(t, n, T) \/ Find(t, n, T)
           \/ LookupExists(t) \/ LookupMismatch(t) \/ LookupInvalid(t) \/ LookupCreates(t)
  BY <1>8, LookupStands DEF loadVars, history, LoadInv, LoadTypeOK
<1>9. CASE Notified(t) \/ StoreLock(t)
  BY <1>9 DEF Notified, StoreLock, loadVars, history, LoadInv, LoadTypeOK
<1>10. CASE ThrowCaught(t)
  <2>1. /\ UNCHANGED <<doing, begun, alone>> /\ todo' = [todo EXCEPT ![t] = Rest(t)]
        /\ target' = [target EXCEPT ![t] = << >>]
        /\ refused' = [refused EXCEPT ![t] = @ \cup {k \in todo[t] : IsFirst(k, todo[t])}]
    BY <1>10 DEF ThrowCaught, RestAfterThrow, Resume
  <2>2. todo[t] \subseteq Nat
    BY DEF LoadInv, LoadTypeOK
  <2> QED BY <1>1, <2>1, <2>2 DEF LoadInv, LoadTypeOK
<1> QED
  BY <1>2, <1>3, <1>4, <1>5, <1>6, <1>7, <1>8, <1>9, <1>10 DEF Call, Proceed

LEMMA LoadInvKept == IInv /\ LoadInv /\ [Next]_vars => LoadInv'
<1> SUFFICES ASSUME IInv, LoadInv, [Next]_vars PROVE LoadInv'
  OBVIOUS
<1>1. ASSUME NEW t \in Thread, Call(t) \/ Proceed(t)
      PROVE  LoadInv'
  <2>1. Grown /\ (~Store(t) => SameValues)
    BY <1>1, StepGrown
  <2>2. ASSUME NEW u \in Thread \ {t}
        PROVE  Progress(u)' /\ Applied(u)'
    <3>1. /\ Stands(u) /\ (alone'[u] => alone[u])
          /\ ~Store(t) => alone'[u] = alone[u]
          /\ Store(t) => ~(alone'[u] /\ Loading(u))
      BY <1>1, OthersStand
    <3>2. alone'[u] /\ Loading(u) => SameValues
      BY <2>1, <3>1
    <3> QED BY <2>1, <3>1, <3>2, StandsKept
  <2>3. Progress(t)' /\ Applied(t)'
    <3>1. CASE \/ \E n \in Name \cup BadName, T \in Type : Lookup(t, n, T) \/ Find(t, n, T)
               \/ LookupExists(t) \/ LookupMismatch(t) \/ LookupInvalid(t) \/ LookupCreates(t)
      <4>1. Stands(t) /\ alone' = alone
        BY <3>1, LookupStands DEF history
      <4>2. ~Store(t)
        <5>1. Store(t) => pc[t] = "storing"
          BY DEF Store
        <5>2. pc[t] \in {"idle", "callback", "lookup"} \/ pc' = pc
          BY <3>1 DEF Lookup, Find, Calls, LookupExists, LookupMismatch, LookupInvalid,
             LookupCreates, Found, Absent
        <5>3. Store(t) => pc'[t] # "storing"
          BY DEF Store, Resume, Goto, IInv, TypeOK
        <5> QED BY <5>1, <5>2, <5>3
      <4> QED BY <2>1, <4>1, <4>2, StandsKept
    <3>2. CASE \E doc \in Doc : Load(t, doc)
      BY <3>2, LoadStarts
    <3>3. CASE LoadMember(t)
      BY <3>3, MemberKept
    <3>4. CASE \/ LoadDone(t) \/ ThrowLeaves(t)
               \/ \E h \in got : \E x \in Value[h.type] : SetValue(t, h, x)
      BY <3>4, ClientKept
    <3>5. CASE Refuse(t) \/ Compare(t) \/ Notified(t) \/ ThrowCaught(t) \/ StoreLock(t) \/ Store(t)
      BY <3>5, SetKept, ClientKept DEF ThrowCaught
    <3> QED BY <1>1, <3>1, <3>2, <3>3, <3>4, <3>5 DEF Call, Proceed
  <2>4. LoadTypeOK'
    BY <1>1, LoadTypeKept
  <2> QED BY <2>2, <2>3, <2>4 DEF LoadInv
<1>2. CASE UNCHANGED vars
  <2>1. UNCHANGED <<tableVars, pc, back, target, doing, todo, begun, alone, refused>>
    BY <1>2 DEF vars, lookupVars, loadVars, history
  <2>2. ASSUME NEW t \in Thread
        PROVE  Progress(t)' /\ Applied(t)'
    <3>1. Stands(t)
      BY <2>1 DEF Stands, Setting, Targeted, Spot
    <3> QED BY <2>1, <3>1, TablesUnchanged, StandsKept
  <2> QED BY <2>1, <2>2 DEF LoadInv, LoadTypeOK
<1> QED
  BY <1>1, <1>2 DEF Next, Done

(***************************************************************************)
(* LoadFromYaml, among other loads, clients' own setValue and listeners    *)
(* that look variables up or throw: it goes through the members from the   *)
(* first to the last, each once, is setting the variable of the one it is  *)
(* at to what that converts to, and of those it is done with every         *)
(* variable has the last that converts and that no listener has refused,   *)
(* as long as nobody else stores.                                          *)
(***************************************************************************)
THEOREM LoadInductive == Spec => [](IInv /\ LoadInv)
<1>1. Init => LoadInv
  <2> SUFFICES ASSUME Init PROVE LoadInv
    OBVIOUS
  <2>1. LoadTypeOK
    <3>1. << >> \in Seq(Member)
      OBVIOUS
    <3> QED BY <3>1 DEF Init, LoadTypeOK
  <2>2. Members(<< >>) = {}
    BY DEF Members
  <2>3. ASSUME NEW t \in Thread
        PROVE  Progress(t) /\ Applied(t)
    <3>1. doing[t] = << >> /\ todo[t] = {} /\ begun[t] = {} /\ refused[t] = {}
      BY DEF Init
    <3> QED BY <2>2, <3>1 DEF Progress, Applied, Loading
  <2> QED BY <2>1, <2>3 DEF LoadInv
<1> QED
  BY <1>1, LoadInvKept, Inductive, PTL DEF Spec

(***************************************************************************)
(* A document that nobody disturbs is applied, whatever listeners throw:   *)
(* when LoadFromYaml returns, or is left by what one has thrown, each      *)
(* variable there was when it began has the last value, among the nodes    *)
(* that were done with, that converts and that no listener has refused.    *)
(***************************************************************************)
THEOREM DocumentAlwaysApplied == Spec => DocumentApplied
<1> DEFINE A == \A t \in Thread : (LoadDone(t) \/ ThrowLeaves(t)) /\ alone[t] =>
                  \A n \in begun[t] : \A k \in LastFitting(t, n) :
                    objs[s_datas[n]].val = Converted(s_datas[n], doing[t][k].node)
<1>1. LoadInv => A
  BY DEF LoadInv, Applied
<1> HIDE DEF A
<1>2. Spec => [][A]_vars
  BY <1>1, LoadInductive, PTL
<1> QED BY <1>2 DEF DocumentApplied, A

-----------------------------------------------------------------------------
(***************************************************************************)
(* LexicalCast, of values as deep as the types go: what is printed of a    *)
(* value is read back as that value, and what a conversion makes of a      *)
(* node, if it does not throw, is a value of the type.                     *)
(***************************************************************************)
Containers == {"vector", "list", "set", "unordered_set", "map", "unordered_map"}

\* The types of containers.
LEMMA ConstructorsAre ==
  ASSUME NEW Ts, NEW T \in Over(Ts)
  PROVE  T \notin Simple /\ T.con \in Containers /\ T.of \in Ts
<1>1. PICK E \in Ts : T \in {Vector(E), List(E), Set(E), UnorderedSet(E), Map(E), UnorderedMap(E)}
  BY DEF Over
<1>2. T.con \in Containers /\ T.of = E
  BY <1>1 DEF Vector, List, Set, UnorderedSet, Map, UnorderedMap, Containers
<1>3. T.con # "int" /\ T.con # "string"
  BY <1>2 DEF Containers
<1>4. T \notin Simple
  BY <1>3 DEF Simple, Int_, String
<1> QED BY <1>1, <1>2, <1>4

\* The elements of a finite set in the order of an iterator.
LEMMA Enumerated ==
  ASSUME NEW S, IsFiniteSet(S)
  PROVE  /\ SetToSeq(S) \in Seq(S) /\ Range(SetToSeq(S)) = S
         /\ \A a, b \in DOMAIN SetToSeq(S) : SetToSeq(S)[a] = SetToSeq(S)[b] => a = b
<1>1. PICK n \in Nat : n = Cardinality(S) /\ ExistsBijection(1 .. n, S)
  BY FS_CardinalityType
<1>2. PICK g \in [1 .. n -> S] : IsInjective(g) /\ \A y \in S : \E j \in 1 .. n : g[j] = y
  BY <1>1 DEF ExistsBijection, Bijection, Injection, Surjection, IsInjective
<1>3. PICK f : f = SetToSeq(S)
  OBVIOUS
<1>4. f \in [1 .. n -> S] /\ IsInjective(f)
  BY <1>1, <1>2, <1>3 DEF SetToSeq
<1>5. f \in Injection(1 .. n, S)
  BY <1>4 DEF Injection
<1>6. IsFiniteSet(1 .. n) /\ Cardinality(1 .. n) = n
  BY FS_Interval
<1>7. f \in Surjection(1 .. n, S)
  BY <1>1, <1>5, <1>6, FS_Injection
<1>8. \A y \in S : \E j \in 1 .. n : f[j] = y
  BY <1>7 DEF Surjection
<1>9. Range(f) = S
  BY <1>4, <1>8 DEF Range
<1>10. f \in Seq(S)
  BY <1>4
<1> QED BY <1>3, <1>4, <1>9, <1>10 DEF IsInjective

\* The elements of a container are a sequence of its values.
LEMMA ElementsAre ==
  ASSUME NEW T, T.con \in Containers, NEW x, IsContainer(T, x)
  PROVE  /\ \E len \in Nat : Elements(T, x) = [i \in 1 .. len |-> Elements(T, x)[i]]
         /\ Range(Elements(T, x)) = ValuesOf(T, x)
<1>1. CASE T.con \in {"vector", "list"}
  <2>1. Elements(T, x) = x /\ ValuesOf(T, x) = Range(x)
    BY <1>1 DEF Elements, ValuesOf
  <2>2. x \in Seq(Range(x))
    BY <1>1 DEF IsContainer, IsSeq
  <2>3. Len(x) \in Nat /\ x = [i \in 1 .. Len(x) |-> x[i]]
    BY <2>2
  <2> QED BY <2>1, <2>3
<1>2. CASE T.con \in {"set", "unordered_set"}
  <2>1. Elements(T, x) = SetToSeq(x) /\ ValuesOf(T, x) = x
    BY <1>2 DEF Elements, ValuesOf
  <2>2. IsFiniteSet(x)
    BY <1>2 DEF IsContainer
  <2>3. SetToSeq(x) \in Seq(x) /\ Range(SetToSeq(x)) = x
    BY <2>2, Enumerated
  <2>4. Len(SetToSeq(x)) \in Nat /\ SetToSeq(x) = [i \in 1 .. Len(SetToSeq(x)) |-> SetToSeq(x)[i]]
    BY <2>3
  <2> QED BY <2>1, <2>3, <2>4
<1>3. CASE T.con \in {"map", "unordered_map"}
  <2>1. Elements(T, x) = [i \in DOMAIN Keys(x) |-> x[Keys(x)[i]]] /\ ValuesOf(T, x) = Range(x)
    BY <1>3 DEF Elements, ValuesOf
  <2>2. IsFiniteSet(DOMAIN x)
    BY <1>3 DEF IsContainer
  <2>3. PICK keys : keys = Keys(x) /\ keys \in Seq(DOMAIN x) /\ Range(keys) = DOMAIN x
    BY <2>2, Enumerated DEF Keys
  <2>4. Len(keys) \in Nat /\ DOMAIN keys = 1 .. Len(keys)
    BY <2>3
  <2>5. Range(Elements(T, x)) = Range(x)
    BY <2>1, <2>3, <2>4 DEF Range
  <2>6. Elements(T, x) = [i \in 1 .. Len(keys) |-> Elements(T, x)[i]]
    BY <2>1, <2>3, <2>4
  <2> QED BY <2>1, <2>4, <2>5, <2>6
<1> QED BY <1>1, <1>2, <1>3 DEF Containers

\* What is printed of a container without keys is read back as its elements.
LEMMA SequenceReadBack ==
  ASSUME NEW T, T.con \in {"vector", "list", "set", "unordered_set"}, NEW x, IsContainer(T, x),
         Bad \notin Range(Elements(T, x)),
         NEW texts, DOMAIN texts = DOMAIN Elements(T, x),
         NEW node, node = Printed(T, x, texts)
  PROVE  /\ YamlLoad(node) = node /\ Emit(node) = node
         /\ Parts(T, node) = [i \in DOMAIN texts |-> Emit(YamlLoad(texts[i]))]
         /\ Filled(T, node, Elements(T, x)) = x
<1>1. PICK len \in Nat : Elements(T, x) = [i \in 1 .. len |-> Elements(T, x)[i]]
  BY ElementsAre DEF Containers
<1>2. DOMAIN texts = 1 .. len
  BY <1>1
<1>3. PICK items : items = [i \in 1 .. len |-> YamlLoad(texts[i])]
  OBVIOUS
<1>4. items \in Seq(Range(items)) /\ Len(items) = len
  BY <1>3 DEF Range
<1>5. node = Sequence(items)
  BY <1>2, <1>3 DEF Printed, WriteVector, WriteList, WriteSet, WriteUnorderedSet
<1>6. node.kind = "sequence" /\ node.items = items
  BY <1>5 DEF Sequence
<1>7. YamlLoad(node) = node /\ Emit(node) = node
  BY <1>6 DEF YamlLoad, Emit
<1>8. Size(node) = len
  BY <1>4, <1>6 DEF Size
<1>9. Parts(T, node) = [i \in 1 .. len |-> Emit(items[i])]
  BY <1>6, <1>8 DEF Parts, Keyless, ElementTexts
<1>10. Parts(T, node) = [i \in DOMAIN texts |-> Emit(YamlLoad(texts[i]))]
  BY <1>2, <1>3, <1>9
<1>11. Filled(T, node, Elements(T, x)) = x
  <2>1. CASE T.con \in {"vector", "list"}
    BY <2>1 DEF Filled, ReadVector, ReadList, Elements
  <2>2. CASE T.con \in {"set", "unordered_set"}
    <3>1. Elements(T, x) = SetToSeq(x) /\ IsFiniteSet(x)
      BY <2>2 DEF Elements, IsContainer
    <3>2. ToSet(SetToSeq(x)) = x
      <4>1. Range(SetToSeq(x)) = x
        BY <3>1, Enumerated
      <4> QED BY <4>1 DEF ToSet, Range
    <3> QED BY <2>2, <3>1, <3>2 DEF Filled, ReadSet, ReadUnorderedSet
  <2> QED BY <2>1, <2>2
<1> QED BY <1>7, <1>10, <1>11

\* Of a map, too: no key occurs twice.
LEMMA MapReadBack ==
  ASSUME NEW T, T.con \in {"map", "unordered_map"}, NEW x, IsContainer(T, x),
         Bad \notin Range(Elements(T, x)),
         NEW texts, DOMAIN texts = DOMAIN Elements(T, x),
         NEW node, node = Printed(T, x, texts)
  PROVE  /\ YamlLoad(node) = node /\ Emit(node) = node
         /\ Parts(T, node) = [i \in DOMAIN texts |-> Emit(YamlLoad(texts[i]))]
         /\ Filled(T, node, Elements(T, x)) = x
<1>1. IsFiniteSet(DOMAIN x) /\ x = [k \in DOMAIN x |-> x[k]]
  BY DEF IsContainer
<1>2. PICK keys : /\ keys = Keys(x) /\ keys \in Seq(DOMAIN x) /\ Range(keys) = DOMAIN x
                  /\ \A a, b \in DOMAIN keys : keys[a] = keys[b] => a = b
  BY <1>1, Enumerated DEF Keys
<1>3. PICK len \in Nat : DOMAIN keys = 1 .. len
  BY <1>2
<1>4. PICK elems : elems = Elements(T, x) /\ elems = [i \in 1 .. len |-> x[keys[i]]]
  BY <1>2, <1>3 DEF Elements
<1>5. DOMAIN texts = 1 .. len
  BY <1>4
<1>6. PICK items : items = [i \in 1 .. len |-> Entry(keys[i], YamlLoad(texts[i]))]
  OBVIOUS
<1>7. items \in Seq(Range(items)) /\ Len(items) = len
  BY <1>6 DEF Range
<1>8. node = Mapping(items)
  BY <1>2, <1>5, <1>6 DEF Printed, WriteMap, WriteUnorderedMap
<1>9. node.kind = "map" /\ node.items = items
  BY <1>8 DEF Mapping
<1>10. YamlLoad(node) = node /\ Emit(node) = node
  BY <1>9 DEF YamlLoad, Emit
<1>11. Size(node) = len
  BY <1>7, <1>9 DEF Size
<1>12. \A i \in 1 .. len : items[i].key = keys[i] /\ items[i].value = YamlLoad(texts[i])
  BY <1>6 DEF Entry
<1>13. Parts(T, node) = [i \in DOMAIN texts |-> Emit(YamlLoad(texts[i]))]
  <2>1. Parts(T, node) = [i \in 1 .. len |-> Emit(items[i].value)]
    BY <1>9, <1>11 DEF Parts, Keyless, EntryTexts
  <2> QED BY <1>5, <1>12, <2>1
<1>14. Filled(T, node, elems) = Keyed(node, elems)
  BY <1>4, <1>9 DEF Filled, ReadMap, ReadUnorderedMap
<1>15. {items[i].key : i \in DOMAIN elems} = DOMAIN x
  <2>1. DOMAIN elems = 1 .. len
    BY <1>4
  <2>2. {items[i].key : i \in 1 .. len} = {keys[i] : i \in 1 .. len}
    BY <1>12
  <2>3. {keys[i] : i \in 1 .. len} = DOMAIN x
    BY <1>2, <1>3 DEF Range
  <2> QED BY <2>1, <2>2, <2>3
<1> DEFINE first(k) == CHOOSE i \in DOMAIN elems :
                         items[i].key = k /\ \A j \in 1 .. i - 1 : items[j].key # k
<1>16. \A k \in DOMAIN x : elems[first(k)] = x[k]
  <2> SUFFICES ASSUME NEW k \in DOMAIN x PROVE elems[first(k)] = x[k]
    OBVIOUS
  <2>1. PICK i \in 1 .. len : keys[i] = k
    BY <1>2, <1>3 DEF Range
  <2>2. \A j \in 1 .. i - 1 : j \in 1 .. len /\ j # i
    BY <2>1
  <2>3. \A j \in 1 .. i - 1 : items[j].key # k
    BY <1>2, <1>3, <1>12, <2>1, <2>2
  <2>4. first(k) \in DOMAIN elems /\ items[first(k)].key = k
    BY <1>4, <1>12, <2>1, <2>3
  <2> QED BY <1>4, <1>12, <2>4
<1>17. Keyed(node, elems) = [k \in DOMAIN x |-> elems[first(k)]]
  BY <1>9, <1>15 DEF Keyed
<1>18. Filled(T, node, elems) = x
  <2> HIDE DEF first
  <2> QED BY <1>1, <1>14, <1>16, <1>17
<1> QED BY <1>4, <1>10, <1>13, <1>18

\* What is printed of any container is read back as its elements.
LEMMA ContainerReadBack ==
  ASSUME NEW T, T.con \in Containers, NEW x, IsContainer(T, x),
         Bad \notin Range(Elements(T, x)),
         NEW texts, DOMAIN texts = DOMAIN Elements(T, x),
         NEW node, node = Printed(T, x, texts)
  PROVE  /\ YamlLoad(node) = node /\ Emit(node) = node
         /\ Parts(T, node) = [i \in DOMAIN texts |-> Emit(YamlLoad(texts[i]))]
         /\ Filled(T, node, Elements(T, x)) = x
<1>1. CASE T.con \in {"vector", "list", "set", "unordered_set"}
  BY <1>1, SequenceReadBack
<1>2. CASE T.con \in {"map", "unordered_map"}
  BY <1>2, MapReadBack
<1> QED BY <1>1, <1>2 DEF Containers

\* The node of a text.
LEMMA ScalarIs ==
  ASSUME NEW s
  PROVE  Scalar(s).kind = "scalar" /\ Scalar(s).text = s
BY DEF Scalar

\* A number, or a string YAML prints as it reads it, is read back from inside a container.
LEMMA ScalarReadBack ==
  ASSUME NEW T \in Simple, NEW x, IsScalar(T, x), T = String => Reprinted(x)
  PROVE  ReadScalar(T, Emit(YamlLoad(WriteScalar(T, x)))) = x
<1>1. CASE T = String
  BY <1>1 DEF Reprinted, WriteScalar, ReadScalar
<1>2. CASE T # String
  <2>1. x \in DOMAIN Digits
    BY <1>2 DEF IsScalar
  <2>2. PICK s : s = Digits[x] /\ s \in DOMAIN Numeral /\ Numeral[s] = x /\ s \notin NullTexts
    BY <2>1, CastAssumption
  <2>3. PICK node : node = Scalar(s) /\ node.kind = "scalar" /\ node.text = s
    BY ScalarIs
  <2>4. YamlLoad(node) = node /\ Emit(node) = node
    BY <2>2, <2>3 DEF YamlLoad, Emit
  <2>5. ReadScalar(T, node) = x
    BY <1>2, <2>2, <2>3 DEF ReadScalar
  <2> QED BY <1>2, <2>2, <2>3, <2>4, <2>5 DEF WriteScalar
<1> QED BY <1>1, <1>2

\* The strings a container holds itself.
OwnStrings(T, x) == T \notin Simple /\ T.of = String => \A y \in ValuesOf(T, x) : Reprinted(y)

\* A container of scalars is read back, and its text is the node it is in another.
LEMMA ShallowReadBack ==
  ASSUME NEW T \in Over(Simple), NEW x, IsShallow(T, x), OwnStrings(T, x)
  PROVE  /\ YamlLoad(ShallowText(T, x)) = ShallowText(T, x)
         /\ Emit(ShallowText(T, x)) = ShallowText(T, x)
         /\ Shallow(T, ShallowText(T, x)) = x
<1>1. T \notin Simple /\ T.con \in Containers /\ T.of \in Simple
  BY ConstructorsAre
<1>2. IsContainer(T, x) /\ \A y \in ValuesOf(T, x) : IsScalar(T.of, y)
  BY <1>1 DEF IsShallow
<1>3. PICK elems : elems = Elements(T, x)
  OBVIOUS
<1>4. (\E len \in Nat : elems = [i \in 1 .. len |-> elems[i]]) /\ Range(elems) = ValuesOf(T, x)
  BY <1>1, <1>2, <1>3, ElementsAre
<1>5. PICK texts : texts = [i \in DOMAIN elems |-> WriteScalar(T.of, elems[i])]
  OBVIOUS
<1>6. PICK node : node = ShallowText(T, x)
  OBVIOUS
<1>7. node = Printed(T, x, texts) /\ DOMAIN texts = DOMAIN elems
  BY <1>1, <1>3, <1>5, <1>6 DEF ShallowText
<1>8. \A i \in DOMAIN elems : elems[i] \in ValuesOf(T, x)
  BY <1>4 DEF Range
<1>9. Bad \notin Range(elems)
  BY <1>2, <1>4 DEF IsScalar
<1>10. /\ YamlLoad(node) = node /\ Emit(node) = node
       /\ Parts(T, node) = [i \in DOMAIN elems |-> Emit(YamlLoad(texts[i]))]
       /\ Filled(T, node, elems) = x
  BY <1>1, <1>2, <1>3, <1>7, <1>9, ContainerReadBack
<1>11. \A i \in DOMAIN elems : ReadScalar(T.of, Emit(YamlLoad(texts[i]))) = elems[i]
  <2> SUFFICES ASSUME NEW i \in DOMAIN elems
               PROVE  ReadScalar(T.of, Emit(YamlLoad(texts[i]))) = elems[i]
    OBVIOUS
  <2>1. IsScalar(T.of, elems[i])
    BY <1>2, <1>8
  <2>2. T.of = String => Reprinted(elems[i])
    BY <1>1, <1>8 DEF OwnStrings
  <2>3. texts[i] = WriteScalar(T.of, elems[i])
    BY <1>5
  <2> QED BY <1>1, <2>1, <2>2, <2>3, ScalarReadBack
<1>12. PICK parts : parts = Parts(T, node)
  OBVIOUS
<1>13. [i \in DOMAIN parts |-> ReadScalar(T.of, parts[i])] = elems
  <2>1. DOMAIN parts = DOMAIN elems /\ \A i \in DOMAIN elems : parts[i] = Emit(YamlLoad(texts[i]))
    BY <1>10, <1>12
  <2>2. elems = [i \in DOMAIN elems |-> elems[i]]
    BY <1>4
  <2> QED BY <1>11, <2>1, <2>2
<1>14. Shallow(T, node) = x
  BY <1>1, <1>10, <1>12, <1>13 DEF Shallow
<1> QED BY <1>6, <1>10, <1>14

\* Whatever a container holds is read back.
LEMMA ElementReadBack ==
  ASSUME NEW T \in Simple \cup Over(Simple), NEW x, IsShallow(T, x), OwnStrings(T, x),
         T = String => Reprinted(x)
  PROVE  Shallow(T, Emit(YamlLoad(ShallowText(T, x)))) = x
<1>1. CASE T \in Simple
  BY <1>1, ScalarReadBack DEF Shallow, ShallowText, IsShallow
<1>2. CASE T \in Over(Simple)
  BY <1>2, ShallowReadBack
<1> QED BY <1>1, <1>2

\* Every value of every type is read back, if its strings are.
LEMMA EveryValueReadsBack ==
  ASSUME NEW T \in CastType, NEW x, IsOf(T, x)
  PROVE  ReadsBack(T, x)
<1> SUFFICES ASSUME \A s \in Strings(T, x) : Reprinted(s) PROVE FromString(T, Text(T, x)) = x
  BY DEF ReadsBack
<1>1. CASE T \in Simple
  <2>1. IsScalar(T, x)
    BY <1>1 DEF IsOf
  <2>2. CASE T = String
    BY <1>1, <2>2 DEF FromString, Text, ReadScalar, WriteScalar
  <2>3. CASE T # String
    <3>1. x \in DOMAIN Digits
      BY <2>1, <2>3 DEF IsScalar
    <3>2. PICK s : s = Digits[x] /\ s \in DOMAIN Numeral /\ Numeral[s] = x
      BY <3>1, CastAssumption
    <3>3. PICK node : node = Scalar(s) /\ node.kind = "scalar" /\ node.text = s
      BY ScalarIs
    <3>4. ReadScalar(T, node) = x
      BY <2>3, <3>2, <3>3 DEF ReadScalar
    <3> QED BY <1>1, <2>3, <3>2, <3>3, <3>4 DEF FromString, Text, WriteScalar
  <2> QED BY <2>2, <2>3
<1>2. CASE T \in Over(Simple) \cup Over(Over(Simple))
  <2>1. T \notin Simple /\ T.con \in Containers /\ T.of \in Simple \cup Over(Simple)
    BY <1>2, ConstructorsAre
  <2>2. IsContainer(T, x) /\ \A y \in ValuesOf(T, x) : IsShallow(T.of, y)
    BY <2>1 DEF IsOf
  <2>3. PICK elems : elems = Elements(T, x)
    OBVIOUS
  <2>4. (\E len \in Nat : elems = [i \in 1 .. len |-> elems[i]]) /\ Range(elems) = ValuesOf(T, x)
    BY <2>1, <2>2, <2>3, ElementsAre
  <2>5. PICK texts : texts = [i \in DOMAIN elems |-> ShallowText(T.of, elems[i])]
    OBVIOUS
  <2>6. PICK node : node = Text(T, x)
    OBVIOUS
  <2>7. node = Printed(T, x, texts) /\ DOMAIN texts = DOMAIN elems
    BY <2>1, <2>3, <2>5, <2>6 DEF Text
  <2>8. \A i \in DOMAIN elems : elems[i] \in ValuesOf(T, x)
    BY <2>4 DEF Range
  <2>9. Bad \notin Range(elems)
    BY <2>2, <2>4 DEF IsShallow, IsScalar, IsContainer
  <2>10. /\ YamlLoad(node) = node
         /\ Parts(T, node) = [i \in DOMAIN elems |-> Emit(YamlLoad(texts[i]))]
         /\ Filled(T, node, elems) = x
    BY <2>1, <2>2, <2>3, <2>7, <2>9, ContainerReadBack
  <2>11. \A y \in ValuesOf(T, x) : OwnStrings(T.of, y) /\ (T.of = String => Reprinted(y))
    <3> SUFFICES ASSUME NEW y \in ValuesOf(T, x)
                 PROVE  OwnStrings(T.of, y) /\ (T.of = String => Reprinted(y))
      OBVIOUS
    <3>1. ASSUME T.of = String PROVE Reprinted(y)
      <4>1. String # Int_
        <5>1. String.con # Int_.con
          BY DEF String, Int_
        <5> QED BY <5>1
      <4>2. T.of # Int_
        BY <3>1, <4>1
      <4>3. Strings(T, x) = ValuesOf(T, x)
        BY <2>1, <3>1, <4>2 DEF Strings
      <4> QED BY <4>3
    <3>2. ASSUME T.of \notin Simple, T.of.of = String
          PROVE  \A z \in ValuesOf(T.of, y) : Reprinted(z)
      <4>1. Strings(T, x) = UNION {ValuesOf(T.of, z) : z \in ValuesOf(T, x)}
        BY <2>1, <3>2 DEF Strings, Simple
      <4> QED BY <4>1
    <3> QED BY <3>1, <3>2 DEF OwnStrings
  <2>12. \A i \in DOMAIN elems : Shallow(T.of, Emit(YamlLoad(texts[i]))) = elems[i]
    <3> SUFFICES ASSUME NEW i \in DOMAIN elems
                 PROVE  Shallow(T.of, Emit(YamlLoad(texts[i]))) = elems[i]
      OBVIOUS
    <3>1. /\ IsShallow(T.of, elems[i]) /\ OwnStrings(T.of, elems[i])
          /\ T.of = String => Reprinted(elems[i])
      BY <2>2, <2>8, <2>11
    <3>2. texts[i] = ShallowText(T.of, elems[i])
      BY <2>5
    <3> QED BY <2>1, <3>1, <3>2, ElementReadBack
  <2>13. PICK parts : parts = Parts(T, node)
    OBVIOUS
  <2>14. [i \in DOMAIN parts |-> Shallow(T.of, parts[i])] = elems
    <3>1. DOMAIN parts = DOMAIN elems /\ \A i \in DOMAIN elems : parts[i] = Emit(YamlLoad(texts[i]))
      BY <2>10, <2>13
    <3>2. elems = [i \in DOMAIN elems |-> elems[i]]
      BY <2>4
    <3> QED BY <2>12, <3>1, <3>2
  <2>15. FromString(T, node) = x
    BY <2>1, <2>10, <2>13, <2>14 DEF FromString
  <2> QED BY <2>6, <2>15
<1> QED BY <1>1, <1>2 DEF CastType

-----------------------------------------------------------------------------
\* Every set of numbers has a least one.
LEMMA Least ==
  ASSUME NEW S \in SUBSET Nat, S # {}
  PROVE  \E m \in S : \A k \in S : m <= k
<1>1. PICK R : IsWellFoundedOn(R, Nat) /\ \A k, m \in Nat : k < m => <<k, m>> \in R
  <2>1. IsWellFoundedOn(OpToRel(<, Nat), Nat)
    BY NatLessThanWellFounded
  <2>2. \A k, m \in Nat : k < m => <<k, m>> \in OpToRel(<, Nat)
    BY DEF OpToRel
  <2> QED BY <2>1, <2>2, Zenon
<1>2. PICK m \in S : \A k \in S : ~(<<k, m>> \in R)
  <2>1. IsWellFoundedOn(R, Nat) /\ S \subseteq Nat
    BY <1>1
  <2> QED BY <2>1, WFMin, Zenon
<1>3. \A k \in S : m \in Nat /\ k \in Nat /\ ~(k < m)
  BY <1>1, <1>2
<1> QED BY <1>2, <1>3

\* The text of a node holds a node as deep.
LEMMA EmittedIs ==
  ASSUME NEW n, IsLeaf(n)
  PROVE  /\ IsLeaf(YamlLoad(Emit(n)))
         /\ IsBranch(n) => IsBranch(YamlLoad(Emit(n)))
         /\ IsNode(n) => IsNode(YamlLoad(Emit(n)))
<1>1. CASE n.kind = "null"
  <2>1. Emit(n) = Scalar("~")
    BY <1>1 DEF Emit
  <2>2. YamlLoad(Scalar("~")) = Nil
    BY ScalarIs DEF YamlLoad, NullTexts
  <2>3. Nil.kind = "null"
    BY DEF Nil
  <2>4. IsLeaf(Nil) /\ IsBranch(Nil) /\ IsNode(Nil)
    BY <2>3 DEF IsLeaf, IsBranch, IsNode, IsInner, Children
  <2> QED BY <2>1, <2>2, <2>4
<1>2. CASE n.kind = "scalar" /\ n.text \in NullTexts
  <2>1. PICK q : q = Quoted(n.text) /\ q.kind = "quoted" /\ q.text = n.text
    <3>1. Quoted(n.text).kind = "quoted" /\ Quoted(n.text).text = n.text
      BY DEF Quoted
    <3> QED BY <3>1
  <2>2. PICK s : s = Scalar(n.text) /\ s.kind = "scalar" /\ s.text = n.text
    BY ScalarIs
  <2>3. Emit(n) = q
    BY <1>2, <2>1, <2>2 DEF Emit
  <2>4. YamlLoad(q) = s
    BY <2>1, <2>2 DEF YamlLoad
  <2>5. IsLeaf(s) /\ IsBranch(s) /\ IsNode(s)
    BY <2>2 DEF IsLeaf, IsBranch, IsNode, IsInner, Children
  <2> QED BY <2>3, <2>4, <2>5
<1>3. CASE n.kind \in {"sequence", "map"} \/ (n.kind = "scalar" /\ n.text \notin NullTexts)
  <2>1. Emit(n) = n
    BY <1>3 DEF Emit
  <2>2. YamlLoad(n) = n
    BY <1>3 DEF YamlLoad
  <2> QED BY <2>1, <2>2
<1> QED BY <1>1, <1>2, <1>3 DEF IsLeaf

\* The texts a container's elements are converted from.
LEMMA PartsAre ==
  ASSUME NEW T, NEW node, IsLeaf(node), IsInner(node) => IsSeq(node.items)
  PROVE  /\ \E len \in Nat : Parts(T, node) = [i \in 1 .. len |-> Parts(T, node)[i]]
         /\ Range(Parts(T, node)) \subseteq {Scalar("")} \cup {Emit(m) : m \in Children(node)}
<1>1. CASE ~IsInner(node)
  <2>1. Size(node) = 0 /\ node.kind # "map"
    BY <1>1 DEF Size, IsInner
  <2>2. ElementTexts(node) = << >>
    BY <2>1 DEF ElementTexts
  <2>3. EntryTexts(node) = << >>
    BY <2>1 DEF EntryTexts
  <2>4. Parts(T, node) = << >>
    BY <2>2, <2>3 DEF Parts
  <2>5. << >> = [i \in 1 .. 0 |-> << >>[i]] /\ Range(<< >>) = {}
    BY DEF Range
  <2> QED BY <2>4, <2>5
<1>2. CASE IsInner(node)
  <2>1. PICK items : items = node.items /\ items \in Seq(Range(items))
    BY <1>2 DEF IsSeq
  <2>2. PICK len \in Nat : len = Len(items) /\ DOMAIN items = 1 .. len
    BY <2>1
  <2>3. Size(node) = len
    BY <1>2, <2>1, <2>2 DEF Size, IsInner
  <2>4. CASE Keyless(T) /\ node.kind = "sequence"
    <3>1. Parts(T, node) = [i \in 1 .. len |-> Emit(items[i])]
      BY <2>1, <2>3, <2>4 DEF Parts, ElementTexts
    <3>2. Children(node) = Range(items)
      BY <1>2, <2>1, <2>4 DEF Children
    <3> QED BY <2>2, <3>1, <3>2 DEF Range
  <2>5. CASE Keyless(T) /\ node.kind # "sequence"
    <3>1. Parts(T, node) = [i \in 1 .. len |-> Scalar("")]
      BY <2>3, <2>5 DEF Parts, ElementTexts
    <3> QED BY <3>1 DEF Range
  <2>6. CASE ~Keyless(T) /\ node.kind = "map"
    <3>1. Parts(T, node) = [i \in 1 .. len |-> Emit(items[i].value)]
      BY <2>1, <2>3, <2>6 DEF Parts, EntryTexts
    <3>2. Children(node) = {items[i].value : i \in 1 .. len}
      BY <1>2, <2>1, <2>2, <2>6 DEF Children
    <3> QED BY <3>1, <3>2 DEF Range
  <2>7. CASE ~Keyless(T) /\ node.kind # "map"
    <3>1. Parts(T, node) = << >>
      BY <2>7 DEF Parts, EntryTexts
    <3>2. << >> = [i \in 1 .. 0 |-> << >>[i]] /\ Range(<< >>) = {}
      BY DEF Range
    <3> QED BY <3>1, <3>2
  <2> QED BY <2>4, <2>5, <2>6, <2>7
<1> QED BY <1>1, <1>2

\* Each of them holds a node one level less deep.
LEMMA PartTexts ==
  ASSUME NEW T, NEW node, IsBranch(node), NEW text \in Range(Parts(T, node))
  PROVE  IsLeaf(YamlLoad(text)) /\ (IsNode(node) => IsBranch(YamlLoad(text)))
<1>1. text = Scalar("") \/ \E m \in Children(node) : text = Emit(m)
  <2>1. IsLeaf(node) /\ (IsInner(node) => IsSeq(node.items))
    BY DEF IsBranch
  <2>2. Range(Parts(T, node)) \subseteq {Scalar("")} \cup {Emit(m) : m \in Children(node)}
    BY <2>1, PartsAre
  <2> QED BY <2>2
<1>2. CASE text = Scalar("")
  <2>1. YamlLoad(Scalar("")) = Nil
    BY ScalarIs DEF YamlLoad, NullTexts
  <2>2. Nil.kind = "null"
    BY DEF Nil
  <2>3. IsLeaf(Nil) /\ IsBranch(Nil)
    BY <2>2 DEF IsLeaf, IsBranch, IsInner, Children
  <2> QED BY <1>2, <2>1, <2>3
<1>3. CASE \E m \in Children(node) : text = Emit(m)
  <2>1. PICK m \in Children(node) : text = Emit(m)
    BY <1>3
  <2>2. IsLeaf(m)
    BY DEF IsBranch
  <2>3. IsNode(node) => IsBranch(m)
    BY DEF IsNode
  <2> QED BY <2>1, <2>2, <2>3, EmittedIs
<1> QED BY <1>1, <1>2, <1>3

\* A scalar that converts makes a number or a string.
LEMMA ScalarFits ==
  ASSUME NEW T \in Simple, NEW text, ReadScalar(T, text) # Bad
  PROVE  IsScalar(T, ReadScalar(T, text))
<1>1. CASE T = String
  BY <1>1 DEF ReadScalar, IsScalar
<1>2. CASE T # String
  <2>1. text.text \in DOMAIN Numeral /\ ReadScalar(T, text) = Numeral[text.text]
    BY <1>2 DEF ReadScalar
  <2> QED BY <1>2, <2>1, CastAssumption DEF IsScalar
<1> QED BY <1>1, <1>2

\* A sequence has finitely many elements.
LEMMA RangeFinite ==
  ASSUME NEW len \in Nat, NEW f, f = [i \in 1 .. len |-> f[i]]
  PROVE  IsFiniteSet(Range(f)) /\ f \in Seq(Range(f)) /\ DOMAIN f = 1 .. len
<1>1. f \in [1 .. len -> Range(f)]
  BY DEF Range
<1>2. f \in Surjection(1 .. len, Range(f))
  BY <1>1 DEF Surjection, Range
<1>3. IsFiniteSet(1 .. len)
  BY FS_Interval
<1> QED BY <1>1, <1>2, <1>3, FS_Surjection

\* A map has finitely many keys, and its values are among the elements.
LEMMA KeyedFits ==
  ASSUME NEW node, NEW len \in Nat, NEW elems, elems = [i \in 1 .. len |-> elems[i]]
  PROVE  /\ IsFiniteSet(DOMAIN Keyed(node, elems))
         /\ Keyed(node, elems) = [k \in DOMAIN Keyed(node, elems) |-> Keyed(node, elems)[k]]
         /\ Range(Keyed(node, elems)) \subseteq Range(elems)
<1> DEFINE keys == [i \in 1 .. len |-> node.items[i].key]
           first(k) == CHOOSE i \in 1 .. len :
                         node.items[i].key = k /\ \A j \in 1 .. i - 1 : node.items[j].key # k
<1>1. DOMAIN elems = 1 .. len
  OBVIOUS
<1>2. Keyed(node, elems) = [k \in Range(keys) |-> elems[first(k)]]
  BY <1>1 DEF Keyed, Range
<1>3. IsFiniteSet(Range(keys))
  <2>1. keys = [i \in 1 .. len |-> keys[i]]
    OBVIOUS
  <2> HIDE DEF keys
  <2> QED BY <2>1, RangeFinite
<1>4. ASSUME NEW k \in Range(keys) PROVE first(k) \in 1 .. len
  <2> DEFINE At == {i \in 1 .. len : node.items[i].key = k}
  <2>1. At \in SUBSET Nat /\ At # {}
    BY DEF Range
  <2>2. PICK i \in At : \A j \in At : i <= j
    <3> HIDE DEF At
    <3> QED BY <2>1, Least
  <2>3. \A j \in 1 .. i - 1 : j \in 1 .. len /\ ~(i <= j)
    OBVIOUS
  <2>4. \A j \in 1 .. i - 1 : node.items[j].key # k
    BY <2>2, <2>3
  <2>5. i \in 1 .. len /\ node.items[i].key = k
    OBVIOUS
  <2> QED BY <2>4, <2>5
<1> HIDE DEF keys, first
<1>5. Range(Keyed(node, elems)) \subseteq Range(elems)
  BY <1>1, <1>2, <1>4 DEF Range
<1> QED BY <1>2, <1>3, <1>5

\* What is made of the elements is a container of them.
LEMMA FilledFits ==
  ASSUME NEW T, T.con \in Containers, NEW node,
         NEW len \in Nat, NEW elems, elems = [i \in 1 .. len |-> elems[i]],
         NEW x, x = Filled(T, node, elems), x # Bad
  PROVE  IsContainer(T, x) /\ ValuesOf(T, x) \subseteq Range(elems) /\ Bad \notin Range(elems)
<1>1. Bad \notin Range(elems)
  BY DEF Filled
<1>2. IsFiniteSet(Range(elems)) /\ elems \in Seq(Range(elems))
  BY RangeFinite
<1>3. CASE T.con \in {"vector", "list"}
  <2>1. x = elems
    BY <1>1, <1>3 DEF Filled, ReadVector, ReadList
  <2> QED BY <1>1, <1>2, <1>3, <2>1 DEF IsContainer, IsSeq, ValuesOf
<1>4. CASE T.con \in {"set", "unordered_set"}
  <2>1. x = ToSet(elems)
    BY <1>1, <1>4 DEF Filled, ReadSet, ReadUnorderedSet
  <2>2. ToSet(elems) = Range(elems)
    BY DEF ToSet, Range
  <2> QED BY <1>1, <1>2, <1>4, <2>1, <2>2 DEF IsContainer, ValuesOf
<1>5. CASE T.con \in {"map", "unordered_map"}
  <2>1. x = ReadMap(node, elems)
    BY <1>1, <1>5 DEF Filled, ReadUnorderedMap
  <2>2. x = Keyed(node, elems)
    BY <2>1 DEF ReadMap
  <2>3. IsFiniteSet(DOMAIN x) /\ x = [k \in DOMAIN x |-> x[k]] /\ Range(x) \subseteq Range(elems)
    BY <2>2, KeyedFits
  <2> QED BY <1>1, <1>5, <2>3 DEF IsContainer, ValuesOf
<1> QED BY <1>3, <1>4, <1>5 DEF Containers

\* An element that converts makes a value of its type.
LEMMA ShallowFits ==
  ASSUME NEW T \in Simple \cup Over(Simple), NEW text, IsBranch(YamlLoad(text)),
         Shallow(T, text) # Bad
  PROVE  IsShallow(T, Shallow(T, text))
<1>1. CASE T \in Simple
  BY <1>1, ScalarFits DEF Shallow, IsShallow
<1>2. CASE T \in Over(Simple)
  <2>1. T \notin Simple /\ T.con \in Containers /\ T.of \in Simple
    BY <1>2, ConstructorsAre
  <2>2. PICK node : node = YamlLoad(text)
    OBVIOUS
  <2>3. PICK parts : parts = Parts(T, node)
    OBVIOUS
  <2>4. PICK elems : elems = [i \in DOMAIN parts |-> ReadScalar(T.of, parts[i])]
    OBVIOUS
  <2>5. PICK x : x = Shallow(T, text)
    OBVIOUS
  <2>6. x = Filled(T, node, elems) /\ x # Bad
    BY <2>1, <2>2, <2>3, <2>4, <2>5 DEF Shallow
  <2>7. PICK len \in Nat : parts = [i \in 1 .. len |-> parts[i]]
    BY <2>2, <2>3, PartsAre DEF IsBranch
  <2>8. elems = [i \in 1 .. len |-> elems[i]] /\ DOMAIN elems = DOMAIN parts
    BY <2>4, <2>7
  <2>9. IsContainer(T, x) /\ ValuesOf(T, x) \subseteq Range(elems) /\ Bad \notin Range(elems)
    BY <2>1, <2>6, <2>8, FilledFits
  <2>10. ASSUME NEW i \in DOMAIN parts PROVE IsScalar(T.of, elems[i])
    <3>1. parts[i] \in Range(parts) /\ elems[i] \in Range(elems)
      BY <2>8 DEF Range
    <3>2. elems[i] = ReadScalar(T.of, parts[i]) /\ elems[i] # Bad
      BY <2>4, <2>9, <3>1
    <3> QED BY <2>1, <3>2, ScalarFits
  <2>11. \A y \in Range(elems) : IsScalar(T.of, y)
    BY <2>8, <2>10 DEF Range
  <2> QED BY <2>1, <2>5, <2>9, <2>11 DEF IsShallow
<1> QED BY <1>1, <1>2

\* Every conversion that does not throw makes a value of its type.
LEMMA ConversionFits ==
  ASSUME NEW T \in CastType, NEW text, IsNode(YamlLoad(text)),
         FromString(T, text) # Bad
  PROVE  IsOf(T, FromString(T, text))
<1>1. CASE T \in Simple
  BY <1>1, ScalarFits DEF FromString, IsOf
<1>2. CASE T \in Over(Simple) \cup Over(Over(Simple))
  <2>1. T \notin Simple /\ T.con \in Containers /\ T.of \in Simple \cup Over(Simple)
    BY <1>2, ConstructorsAre
  <2>2. PICK node : node = YamlLoad(text)
    OBVIOUS
  <2>3. PICK parts : parts = Parts(T, node)
    OBVIOUS
  <2>4. PICK elems : elems = [i \in DOMAIN parts |-> Shallow(T.of, parts[i])]
    OBVIOUS
  <2>5. PICK x : x = FromString(T, text)
    OBVIOUS
  <2>6. x = Filled(T, node, elems) /\ x # Bad
    BY <2>1, <2>2, <2>3, <2>4, <2>5 DEF FromString
  <2>7. IsBranch(node)
    BY <2>2 DEF IsNode, IsBranch
  <2>8. PICK len \in Nat : parts = [i \in 1 .. len |-> parts[i]]
    BY <2>3, <2>7, PartsAre DEF IsBranch
  <2>9. elems = [i \in 1 .. len |-> elems[i]] /\ DOMAIN elems = DOMAIN parts
    BY <2>4, <2>8
  <2>10. IsContainer(T, x) /\ ValuesOf(T, x) \subseteq Range(elems) /\ Bad \notin Range(elems)
    BY <2>1, <2>6, <2>9, FilledFits
  <2>11. ASSUME NEW i \in DOMAIN parts PROVE IsShallow(T.of, elems[i])
    <3>1. parts[i] \in Range(parts) /\ elems[i] \in Range(elems)
      BY <2>9 DEF Range
    <3>2. IsBranch(YamlLoad(parts[i]))
      BY <2>2, <2>3, <2>7, <3>1, PartTexts
    <3>3. elems[i] = Shallow(T.of, parts[i]) /\ elems[i] # Bad
      BY <2>4, <2>10, <3>1
    <3> QED BY <2>1, <3>2, <3>3, ShallowFits
  <2>12. \A y \in Range(elems) : IsShallow(T.of, y)
    BY <2>9, <2>11 DEF Range
  <2> QED BY <2>1, <2>5, <2>10, <2>12 DEF IsOf
<1> QED BY <1>1, <1>2 DEF CastType

-----------------------------------------------------------------------------
\* What a node of a document converts to is a value of the type.
LEMMA NodeTextIs ==
  ASSUME NEW node, IsNode(node)
  PROVE  IsNode(YamlLoad(NodeText(node)))
<1>1. CASE node.kind = "scalar"
  <2>1. YamlLoad(node) \in {Nil, node}
    BY <1>1 DEF YamlLoad
  <2>2. IsNode(Nil)
    BY DEF IsNode, IsLeaf, IsInner, Children, Nil
  <2> QED BY <1>1, <2>1, <2>2 DEF NodeText
<1>2. CASE node.kind # "scalar"
  <2>1. NodeText(node) = Emit(node) /\ IsLeaf(node)
    BY <1>2 DEF NodeText, IsNode
  <2> QED BY <2>1, EmittedIs
<1> QED BY <1>1, <1>2

\* The same of what LoadMember converts.
LEMMA ConvertedFits ==
  ASSUME NEW o, objs[o].type \in Type, NEW node \in Node, Converted(o, node) # Bad
  PROVE  IsOf(objs[o].type, Converted(o, node))
<1> DEFINE T == objs[o].type
<1>1. T \in CastType /\ IsNode(node)
  BY RegistryAssumption
<1>2. Converted(o, node) = FromString(T, NodeText(node))
  BY DEF Converted, Conversion
<1>3. IsNode(YamlLoad(NodeText(node)))
  BY <1>1, NodeTextIs
<1> HIDE DEF T
<1>4. IsOf(T, FromString(T, NodeText(node)))
  BY <1>1, <1>2, <1>3, ConversionFits
<1> QED BY <1>2, <1>4 DEF T

\* From where setValue is given its value to where it stores it, the value is one of
\* the variable's type, unless the conversion has thrown; then it goes no further.
Holds(t) ==
  Targeted(t) =>
    /\ target[t].var \in 1 .. Len(objs)
    /\ target[t].val # Bad => IsOf(objs[target[t].var].type, target[t].val)
    /\ Setting(t) => target[t].val # Bad

ValueInv ==
  /\ \A o \in 1 .. Len(objs) : IsOf(objs[o].type, objs[o].val)
  /\ \A t \in Thread : Holds(t)

\* A thread that is not moved holds its value.
LEMMA HoldsKept ==
  ASSUME NEW t \in Thread, Holds(t), Grown, Stands(t)
  PROVE  Holds(t)'
<1>1. /\ target'[t] = target[t] /\ (Targeted(t)' => Targeted(t))
      /\ Setting(t)' => Setting(t) \/ target[t].val # Bad
  BY DEF Stands
<1> QED BY <1>1 DEF Holds, Grown

\* setValue gets its value, from a node or from a client.
LEMMA GivenHolds ==
  ASSUME IInv, LoadInv, ValueInv, NEW t \in Thread,
         \/ LoadMember(t)
         \/ \E h \in got : \E x \in Value[h.type] : SetValue(t, h, x)
  PROVE  Holds(t)'
<1>1. UNCHANGED <<tableVars, back>> /\ DOMAIN target = Thread /\ pc[t] # "lookup"
  BY DEF LoadMember, SetValue, lookupVars, LoadInv, LoadTypeOK
<1>2. CASE LoadMember(t)
  <2>1. PICK k \in todo[t] :
          LET m == doing[t][k]
          IN  IF m.name \in DOMAIN s_datas
              THEN /\ target' = [target EXCEPT ![t] =
                       [var |-> s_datas[m.name], val |-> Converted(s_datas[m.name], m.node)]]
                   /\ pc' = [pc EXCEPT ![t] = "apply"]
              ELSE UNCHANGED pc
    BY <1>2 DEF LoadMember, Goto
  <2> DEFINE m == doing[t][k]
             o == s_datas[m.name]
  <2>2. CASE m.name \in DOMAIN s_datas
    <3>1. Spot(t)' = "apply" /\ target'[t] = [var |-> o, val |-> Converted(o, m.node)]
      BY <1>1, <2>1, <2>2 DEF Spot, IInv, TypeOK
    <3>2. o \in 1 .. Len(objs) /\ objs[o].type \in Type
      BY <2>2 DEF IInv, Table, TypeOK, IsVariable
    <3>3. m.node \in Node
      <4>1. k \in DOMAIN doing[t] /\ doing[t] \in Seq(Member)
        BY DEF LoadInv, LoadTypeOK, Progress, Members
      <4>2. m \in Member
        BY <4>1
      <4> QED BY <4>2 DEF Member
    <3>4. Converted(o, m.node) # Bad => IsOf(objs[o].type, Converted(o, m.node))
      BY <3>2, <3>3, ConvertedFits
    <3>5. ~Setting(t)'
      BY <3>1 DEF Setting
    <3> HIDE DEF o, m
    <3> QED BY <1>1, <3>1, <3>2, <3>4, <3>5 DEF Holds, tableVars
  <2>3. CASE m.name \notin DOMAIN s_datas
    <3>1. Spot(t)' = "member"
      BY <1>1, <1>2, <2>1, <2>3 DEF LoadMember, Spot, IInv, TypeOK
    <3> QED BY <3>1 DEF Holds, Targeted
  <2> QED BY <2>2, <2>3
<1>3. CASE \E h \in got : \E x \in Value[h.type] : SetValue(t, h, x)
  <2>1. PICK h \in got : \E x \in Value[h.type] : SetValue(t, h, x)
    BY <1>3
  <2>2. PICK x \in Value[h.type] : SetValue(t, h, x)
    BY <2>1
  <2>3. Spot(t)' = "apply" /\ target'[t] = [var |-> h.var, val |-> x] /\ ~Setting(t)'
    BY <1>1, <2>2 DEF SetValue, Goto, Spot, Setting, IInv, TypeOK
  <2>4. h.var \in 1 .. Len(objs) /\ objs[h.var].type = h.type /\ h.type \in Type
    <3>1. h.name \in DOMAIN s_datas /\ s_datas[h.name] = h.var /\ objs[h.var].type = h.type
      BY DEF IInv, Known
    <3>2. h.var \in 1 .. Len(objs)
      BY <3>1 DEF IInv, Table
    <3> QED BY <3>1, <3>2 DEF IInv, TypeOK, IsVariable
  <2>5. IsOf(h.type, x)
    BY <2>4, RegistryAssumption
  <2> QED BY <1>1, <2>3, <2>4, <2>5 DEF Holds, tableVars
<1> QED BY <1>2, <1>3

\* setValue hands it on until it has stored it.
LEMMA SetHolds ==
  ASSUME IInv, LoadInv, ValueInv, NEW t \in Thread,
         \/ \E doc \in Doc : Load(t, doc)
         \/ LoadDone(t) \/ Refuse(t) \/ Compare(t) \/ Notified(t) \/ ThrowCaught(t) \/ ThrowLeaves(t)
         \/ StoreLock(t) \/ Store(t)
  PROVE  Holds(t)'
<1>1. pc[t] \notin {"lookup"} /\ pc'[t] \in Places \ {"lookup"}
  BY DEF Load, Calls, LoadDone, Refuse, Compare, Notified, ThrowCaught, ThrowLeaves, ListenersEnd,
     LoadEnds, StoreLock, Store, Resume, Goto,
     IInv, TypeOK, Places
<1>2. Spot(t) = pc[t] /\ Spot(t)' = pc'[t]
  BY <1>1 DEF Spot
<1>3. CASE pc'[t] \in {"idle", "member"}
  BY <1>2, <1>3 DEF Holds, Targeted
<1>4. CASE pc'[t] \notin {"idle", "member"}
  <2>1. /\ Compare(t) \/ Notified(t) \/ StoreLock(t)
        /\ UNCHANGED <<tableVars, target>> /\ target[t].val # Bad
    <3>1. Compare(t) \/ Notified(t) \/ StoreLock(t)
      BY <1>4 DEF Load, LoadDone, ThrowCaught, ThrowLeaves, LoadEnds, Refuse, Store, Resume,
         Goto, IInv, TypeOK
    <3>2. UNCHANGED <<tableVars, target>>
      BY <1>4, <3>1 DEF Compare, Notified, StoreLock, Resume, Goto, loadVars, IInv, TypeOK
    <3>3. Notified(t) \/ StoreLock(t) => Setting(t) /\ Targeted(t)
      BY <1>2 DEF Notified, ListenersEnd, StoreLock, Setting, Targeted
    <3>4. target[t].val # Bad
      BY <3>1, <3>3 DEF Compare, ValueInv, Holds
    <3> QED BY <3>1, <3>2, <3>4
  <2>2. Targeted(t)
    BY <1>2, <2>1 DEF Compare, Notified, ListenersEnd, StoreLock, Targeted
  <2> QED BY <2>1, <2>2 DEF ValueInv, Holds, tableVars
<1> QED BY <1>3, <1>4

\* A variable has its default, or what setValue has stored.
LEMMA ValuesKept ==
  ASSUME IInv, IInv', ValueInv, NEW t \in Thread, Call(t) \/ Proceed(t)
  PROVE  \A o \in 1 .. Len(objs') : IsOf(objs'[o].type, objs'[o].val)
<1>1. CASE Store(t)
  <2>1. Grown /\ \A o \in 1 .. Len(objs) :
          objs'[o].val = IF o = target[t].var THEN target[t].val ELSE objs[o].val
    BY <1>1, StoreGrown
  <2>2. Len(objs') = Len(objs)
    <3>1. DOMAIN objs' = DOMAIN objs /\ objs \in Seq(Range(objs)) /\ objs' \in Seq(Range(objs'))
      BY <1>1 DEF Store, IInv, TypeOK
    <3>2. Len(objs) \in Nat /\ Len(objs') \in Nat /\ 1 .. Len(objs) = 1 .. Len(objs')
      BY <3>1
    <3> QED BY <3>2
  <2>3. IsOf(objs[target[t].var].type, target[t].val)
    BY <1>1 DEF Store, Spot, Setting, Targeted, ValueInv, Holds
  <2> QED BY <2>1, <2>2, <2>3 DEF ValueInv, Grown
<1>2. CASE LookupCreates(t)
  <2> DEFINE T == ask[t].type
             x == [type |-> T, val |-> Default[T]]
  <2>1. objs' = Append(objs, x) /\ T \in Type
    BY <1>2 DEF LookupCreates, Absent, IInv, Searching
  <2>2. IsOf(T, Default[T])
    BY <2>1, RegistryAssumption
  <2>3. IsOf(x.type, x.val)
    BY <2>2
  <2> HIDE DEF x, T
  <2>4. /\ Len(objs') = Len(objs) + 1 /\ Len(objs) \in Nat /\ objs'[Len(objs) + 1] = x
        /\ \A p \in 1 .. Len(objs) : objs'[p] = objs[p]
    <3>1. objs \in Seq(Range(objs) \cup {x})
      BY SeqMonotonic DEF IInv, TypeOK
    <3> QED BY <2>1, <3>1, AppendProperties
  <2>5. \A p \in 1 .. Len(objs') : p \in 1 .. Len(objs) \/ p = Len(objs) + 1
    BY <2>4
  <2> QED BY <2>3, <2>4, <2>5 DEF ValueInv
<1>3. CASE ~Store(t) /\ ~LookupCreates(t)
  <2>1. UNCHANGED tableVars
    BY <1>3 DEF Call, Proceed, Lookup, Find, Load, SetValue, LookupExists, LookupMismatch,
       LookupInvalid, LoadMember, LoadDone, Refuse, Compare, Notified, ThrowCaught,
       ThrowLeaves, StoreLock
  <2> QED BY <2>1 DEF tableVars, ValueInv
<1> QED BY <1>1, <1>2, <1>3

\* Whatever a thread does, the variables have values of their types.
LEMMA ValueInvKept == IInv /\ LoadInv /\ ValueInv /\ IInv' /\ [Next]_vars => ValueInv'
<1> SUFFICES ASSUME IInv, LoadInv, ValueInv, IInv', [Next]_vars PROVE ValueInv'
  OBVIOUS
<1>1. ASSUME NEW t \in Thread, Call(t) \/ Proceed(t)
      PROVE  ValueInv'
  <2>1. Grown
    BY <1>1, StepGrown
  <2>2. ASSUME NEW u \in Thread \ {t}
        PROVE  Holds(u)'
    <3>1. Stands(u)
      BY <1>1, OthersStand
    <3> QED BY <2>1, <3>1, HoldsKept DEF ValueInv
  <2>3. Holds(t)'
    <3>1. CASE \/ \E n \in Name \cup BadName, T \in Type : Lookup(t, n, T) \/ Find(t, n, T)
               \/ LookupExists(t) \/ LookupMismatch(t) \/ LookupInvalid(t) \/ LookupCreates(t)
      BY <2>1, <3>1, LookupStands, HoldsKept DEF ValueInv
    <3>2. CASE LoadMember(t) \/ \E h \in got : \E x \in Value[h.type] : SetValue(t, h, x)
      BY <3>2, GivenHolds
    <3>3. CASE \/ \E doc \in Doc : Load(t, doc)
               \/ LoadDone(t) \/ Refuse(t) \/ Compare(t) \/ Notified(t) \/ ThrowCaught(t)
               \/ ThrowLeaves(t) \/ StoreLock(t) \/ Store(t)
      BY <3>3, SetHolds
    <3> QED BY <1>1, <3>1, <3>2, <3>3 DEF Call, Proceed
  <2> QED BY <1>1, <2>2, <2>3, ValuesKept DEF ValueInv
<1>2. CASE UNCHANGED vars
  <2>1. UNCHANGED <<tableVars, pc, back, target>>
    BY <1>2 DEF vars, lookupVars, loadVars
  <2> QED BY <2>1 DEF ValueInv, Holds, Targeted, Setting, Spot, tableVars
<1> QED BY <1>1, <1>2 DEF Next, Done

(***************************************************************************)
(* Every variable always has a value of its type, and setValue stores no   *)
(* other: not what a conversion that threw has left, nor what was          *)
(* converted for a variable of another type.                               *)
(***************************************************************************)
THEOREM ValuesInductive == Spec => [](IInv /\ LoadInv /\ ValueInv)
<1>1. Init => ValueInv
  BY DEF Init, ValueInv, Holds, Targeted, Spot
<1> QED
  BY <1>1, ValueInvKept, LoadInductive, PTL DEF Spec

(***************************************************************************)
(* What toString prints of a variable of any type, fromString reads back   *)
(* as the same value, whatever documents and clients have set it to, in    *)
(* all its containers' elements, strings YAML prints otherwise aside.      *)
(***************************************************************************)
THEOREM RoundTripEver == Spec => []RoundTrip
<1>1. IInv /\ ValueInv => RoundTrip
  <2> SUFFICES ASSUME IInv, ValueInv, NEW o \in DOMAIN objs
               PROVE  ReadsBack(objs[o].type, objs[o].val)
    BY DEF RoundTrip
  <2>1. o \in 1 .. Len(objs)
    BY DEF IInv, TypeOK
  <2>2. objs[o].type \in CastType
    BY <2>1, RegistryAssumption DEF IInv, TypeOK, IsVariable
  <2> QED BY <2>1, <2>2, EveryValueReadsBack DEF ValueInv
<1> QED BY <1>1, ValuesInductive, PTL
=============================================================================
