---------------------------- MODULE LocksProofs ----------------------------
(***************************************************************************)
(* Theorems about Locks, for any threads, locks and guards, as long as no  *)
(* thread locks what it holds for writing (Liberty = {}).                  *)
(*                                                                         *)
(* A lock knows the number of its readers and nothing of the guards: that  *)
(* an unlock finds the lock held, and that a lock which looks free has no  *)
(* locked guard, both need GuardsTell.  A step locks one guard, unlocks    *)
(* one, or leaves all of them as they are; there is one lemma for each.    *)
(***************************************************************************)
EXTENDS Locks, FiniteSetTheorems, TLAPS

\* The guards of a lock are finitely many.
LEMMA ReadersFinite ==
  \A l \in Lock : IsFiniteSet(Readers(l)) /\ Cardinality(Readers(l)) \in Nat
BY LocksAssumption, FS_Subset, FS_CardinalityType DEF Readers

\* Locking g adds it to the readers or writers of its lock.
LEMMA Enters ==
  ASSUME TypeOK, GuardsTell, NEW g \in Guard, ~Locked(g), NEW d \in GuardObject, d.m_locked,
         guard' = [guard EXCEPT ![g] = d],
         writer[d.lock] = Null,
         d.shared => /\ readers' = [readers EXCEPT ![d.lock] = @ + 1]
                     /\ writer' = writer,
         ~d.shared => /\ readers[d.lock] = 0 /\ readers' = readers
                      /\ writer' = [writer EXCEPT ![d.lock] = d.thread]
  PROVE  GuardsTell' /\ readers' \in [Lock -> Nat] /\ writer' \in [Lock -> Thread \cup {Null}]
<1> DEFINE m == d.lock
<1>1. d.lock \in Lock /\ d.thread \in Thread /\ d.shared \in BOOLEAN /\ d # Null
  BY LocksAssumption DEF GuardObject
<1>2. readers' \in [Lock -> Nat] /\ writer' \in [Lock -> Thread \cup {Null}]
  BY <1>1 DEF TypeOK
<1>3. Locked(g)' /\ guard'[g] = d /\ \A h \in Guard \ {g} : guard'[h] = guard[h]
  BY <1>1 DEF Locked, Alive, TypeOK
<1>4. SUFFICES ASSUME NEW l \in Lock
               PROVE  /\ readers'[l] = Cardinality(Readers(l)')
                      /\ \A h \in Writers(l)' : writer'[l] = guard'[h].thread
                      /\ \A h, k \in Writers(l)' : h = k
                      /\ writer'[l] # Null => Writers(l)' # {} /\ Readers(l)' = {}
  BY <1>2, Zenon DEF GuardsTell
<1>5. CASE l # m
  <2>1. Readers(l)' = Readers(l) /\ Writers(l)' = Writers(l)
    BY <1>3, <1>5 DEF Readers, Writers, Locked, Alive
  <2>2. readers'[l] = readers[l] /\ writer'[l] = writer[l]
    BY <1>1, <1>5 DEF TypeOK
  <2>3. g \notin Writers(l)
    BY DEF Writers
  <2> QED
    BY <1>3, <2>1, <2>2, <2>3 DEF GuardsTell, Writers
<1>6. CASE l = m /\ d.shared
  <2>1. Writers(l) = {}
    BY <1>6, LocksAssumption DEF GuardsTell, Writers, Locked, Alive, TypeOK, GuardObject
  <2>2. Readers(l)' = Readers(l) \cup {g} /\ Writers(l)' = {}
    BY <1>3, <1>6, <2>1 DEF Readers, Writers, Locked, Alive
  <2>3. g \notin Readers(l)
    BY DEF Readers
  <2>4. Cardinality(Readers(l)') = Cardinality(Readers(l)) + 1
    BY <2>2, <2>3, ReadersFinite, FS_AddElement
  <2>5. readers'[l] = readers[l] + 1 /\ writer'[l] = Null
    BY <1>1, <1>6 DEF TypeOK
  <2> QED
    BY <2>2, <2>4, <2>5 DEF GuardsTell
<1>7. CASE l = m /\ ~d.shared
  <2>1. Readers(l) = {} /\ Writers(l) = {}
    <3>1. Cardinality(Readers(l)) = 0
      BY <1>7 DEF GuardsTell
    <3>2. Readers(l) = {}
      BY <3>1, ReadersFinite, FS_EmptySet
    <3> QED
      BY <3>2, <1>7, LocksAssumption DEF GuardsTell, Writers, Locked, Alive, TypeOK, GuardObject
  <2>2. Readers(l)' = {} /\ Writers(l)' = {g}
    BY <1>3, <1>7, <2>1 DEF Readers, Writers, Locked, Alive
  <2>3. readers'[l] = 0 /\ writer'[l] = d.thread
    BY <1>1, <1>7 DEF TypeOK
  <2> QED
    BY <1>3, <2>2, <2>3, FS_EmptySet
<1> QED
  BY <1>5, <1>6, <1>7

\* Unlocking g finds the lock held by it, and takes it from its readers or writers.
LEMMA Leaves ==
  ASSUME TypeOK, GuardsTell, NEW g \in Guard, Locked(g),
         guard' \in [Guard -> GuardObject \cup {Null}],
         ~Locked(g)', \A h \in Guard \ {g} : guard'[h] = guard[h],
         Release(guard[g].thread, guard[g].lock)
  PROVE  /\ GuardsTell' /\ fault' = fault
         /\ readers' \in [Lock -> Nat] /\ writer' \in [Lock -> Thread \cup {Null}]
<1>0. PICK m \in Lock, t \in Thread : m = guard[g].lock /\ t = guard[g].thread
  BY DEF TypeOK, Locked, Alive, GuardObject
<1>1. t # Null /\ guard[g].shared \in BOOLEAN
  BY LocksAssumption DEF TypeOK, Locked, Alive, GuardObject
<1>2. /\ writer' = [writer EXCEPT ![m] = IF @ = t THEN Null ELSE @]
      /\ readers' = [readers EXCEPT ![m] = IF writer[m] # t /\ @ > 0 THEN @ - 1 ELSE @]
      /\ fault' = (fault \/ (writer[m] # t /\ readers[m] = 0))
  BY <1>0 DEF Release
<1>3. readers' \in [Lock -> Nat] /\ writer' \in [Lock -> Thread \cup {Null}]
  BY <1>1, <1>2 DEF TypeOK
<1>4. ASSUME NEW l \in Lock, l # m
      PROVE  /\ Readers(l)' = Readers(l) /\ Writers(l)' = Writers(l)
             /\ readers'[l] = readers[l] /\ writer'[l] = writer[l]
  <2>1. readers'[l] = readers[l] /\ writer'[l] = writer[l]
    BY <1>2, <1>4 DEF TypeOK
  <2>2. Readers(l)' = Readers(l) /\ Writers(l)' = Writers(l)
    BY <1>0, <1>4 DEF Readers, Writers, Locked, Alive
  <2> QED BY <2>1, <2>2
<1>5. Readers(m)' = Readers(m) \ {g} /\ Writers(m)' = Writers(m) \ {g}
  BY <1>0 DEF Readers, Writers, Locked, Alive
<1>6. CASE guard[g].shared
  <2>1. g \in Readers(m)
    BY <1>0, <1>6 DEF Readers
  <2>2. writer[m] = Null
    BY <1>0, <1>1, <2>1 DEF GuardsTell
  <2>3. Writers(m) = {}
    BY <1>1, <2>2, LocksAssumption DEF GuardsTell, Writers, Locked, Alive, TypeOK, GuardObject
  <2>4. Cardinality(Readers(m)') = Cardinality(Readers(m)) - 1
    BY <1>1, <1>5, <2>1, ReadersFinite, FS_RemoveElement
  <2>5. readers[m] # 0 /\ readers[m] \in Nat
    BY <1>1, <2>1, ReadersFinite, FS_EmptySet DEF GuardsTell, TypeOK
  <2>6. readers'[m] = readers[m] - 1 /\ writer'[m] = Null /\ fault' = fault
    BY <1>1, <1>2, <2>2, <2>5 DEF TypeOK
  <2>7. readers'[m] = Cardinality(Readers(m)') /\ Writers(m)' = {} /\ writer'[m] = Null
    BY <1>1, <1>5, <2>3, <2>4, <2>6 DEF GuardsTell
  <2>8. ASSUME NEW l \in Lock
        PROVE  /\ readers'[l] = Cardinality(Readers(l)')
               /\ \A h \in Writers(l)' : writer'[l] = guard'[h].thread
               /\ \A h, k \in Writers(l)' : h = k
               /\ writer'[l] # Null => Writers(l)' # {} /\ Readers(l)' = {}
    <3>1. CASE l = m
      BY <2>7, <3>1
    <3>2. CASE l # m
      <4>1. g \notin Writers(l)
        BY <1>0, <3>2 DEF Writers
      <4> QED
        BY <1>4, <3>2, <4>1 DEF GuardsTell, Writers
    <3> QED BY <3>1, <3>2
  <2> QED
    BY <1>3, <2>6, <2>8, Zenon DEF GuardsTell
<1>7. CASE ~guard[g].shared
  <2>1. g \in Writers(m)
    BY <1>0, <1>7 DEF Writers
  <2>2. writer[m] = t /\ Writers(m) = {g}
    BY <1>0, <1>1, <2>1 DEF GuardsTell
  <2>3. Readers(m) = {} /\ readers[m] = 0
    BY <1>1, <2>2, FS_EmptySet DEF GuardsTell
  <2>4. readers'[m] = 0 /\ writer'[m] = Null /\ fault' = fault
    BY <1>1, <1>2, <2>2, <2>3 DEF TypeOK
  <2>5. readers'[m] = Cardinality(Readers(m)') /\ Writers(m)' = {} /\ writer'[m] = Null
    BY <1>5, <2>2, <2>3, <2>4, FS_EmptySet
  <2>6. ASSUME NEW l \in Lock
        PROVE  /\ readers'[l] = Cardinality(Readers(l)')
               /\ \A h \in Writers(l)' : writer'[l] = guard'[h].thread
               /\ \A h, k \in Writers(l)' : h = k
               /\ writer'[l] # Null => Writers(l)' # {} /\ Readers(l)' = {}
    <3>1. CASE l = m
      BY <2>5, <3>1
    <3>2. CASE l # m
      <4>1. g \notin Writers(l)
        BY <1>0, <3>2 DEF Writers
      <4> QED
        BY <1>4, <3>2, <4>1 DEF GuardsTell, Writers
    <3> QED BY <3>1, <3>2
  <2> QED
    BY <1>3, <2>4, <2>6, Zenon DEF GuardsTell
<1> QED
  BY <1>1, <1>6, <1>7

-----------------------------------------------------------------------------
\* The discipline: nobody locks what it holds for writing, so no call is refused.
LEMMA NotRefused ==
  ASSUME Liberty = {}, TypeOK, NEW t \in Thread, NEW l \in Lock, NEW shared \in BOOLEAN,
         Acquire(t, l, shared)
  PROVE  /\ writer[l] = Null
         /\ shared => readers' = [readers EXCEPT ![l] = @ + 1] /\ writer' = writer
         /\ ~shared => /\ readers[l] = 0 /\ readers' = readers
                       /\ writer' = [writer EXCEPT ![l] = t]
         /\ UNCHANGED <<fault, semVars>>
<1>1. ~Refused(t, l)
  BY DEF Acquire, Permitted, Refused
<1> QED
  BY <1>1 DEF Acquire, RdLock, WrLock

\* What a guard that is constructed or relocked becomes.
LEMMA Locking ==
  ASSUME Liberty = {}, IInv, NEW g \in Guard, ~Locked(g), NEW d \in GuardObject, d.m_locked,
         Acquire(d.thread, d.lock, d.shared),
         guard' = [guard EXCEPT ![g] = d]
  PROVE  IInv'
<1>1. d.thread \in Thread /\ d.lock \in Lock /\ d.shared \in BOOLEAN
  BY DEF GuardObject
<1>2. GuardsTell' /\ readers' \in [Lock -> Nat] /\ writer' \in [Lock -> Thread \cup {Null}]
  <2>1. TypeOK /\ GuardsTell
    BY DEF IInv
  <2>2. /\ writer[d.lock] = Null
        /\ d.shared => readers' = [readers EXCEPT ![d.lock] = @ + 1] /\ writer' = writer
        /\ ~d.shared => /\ readers[d.lock] = 0 /\ readers' = readers
                        /\ writer' = [writer EXCEPT ![d.lock] = d.thread]
    BY <1>1, <2>1, NotRefused
  <2> QED BY <2>1, <2>2, Enters
<1>3. UNCHANGED <<fault, semVars>>
  BY <1>1, NotRefused DEF IInv
<1>4. guard' \in [Guard -> GuardObject \cup {Null}]
  BY DEF IInv, TypeOK
<1> QED
  BY <1>2, <1>3, <1>4 DEF IInv, TypeOK, NoFault, SemaphoreExact, semVars

LEMMA Constructs ==
  ASSUME Liberty = {}, IInv, NEW t \in Thread, NEW g \in Guard, NEW l \in Lock,
         NEW shared \in BOOLEAN, Construct(t, g, l, shared)
  PROVE  IInv'
<1> DEFINE d == [thread |-> t, lock |-> l, shared |-> shared, m_locked |-> TRUE]
<1>1. d \in GuardObject /\ d.m_locked /\ d.thread = t /\ d.lock = l /\ d.shared = shared
  BY DEF GuardObject
<1>2. ~Locked(g) /\ guard' = [guard EXCEPT ![g] = d] /\ Acquire(t, l, shared)
  BY DEF Construct, Locked
<1> HIDE DEF d
<1> QED
  BY <1>1, <1>2, Locking

LEMMA Relocks ==
  ASSUME Liberty = {}, IInv, NEW g \in Guard, Relock(g)
  PROVE  IInv'
<1>1. PICK d \in GuardObject : d = [guard[g] EXCEPT !.m_locked = TRUE]
  BY DEF IInv, TypeOK, Relock, Alive, GuardObject
<1>2. guard[g] \in GuardObject
  BY DEF IInv, TypeOK, Relock, Alive
<1>3. /\ d.m_locked /\ d.thread = guard[g].thread /\ d.lock = guard[g].lock
      /\ d.shared = guard[g].shared
  BY <1>1, <1>2 DEF GuardObject
<1>4. ~Locked(g) /\ guard' = [guard EXCEPT ![g] = d]
  BY <1>1 DEF Relock, Locked
<1>5. Acquire(d.thread, d.lock, d.shared)
  BY <1>3 DEF Relock
<1> QED
  BY <1>3, <1>4, <1>5, Locking

\* What unlock() and the destructor do to the guards.
LEMMA Opens ==
  ASSUME TypeOK, NEW g \in Guard, Unlock(g) \/ Destroy(g)
  PROVE  /\ guard' \in [Guard -> GuardObject \cup {Null}]
         /\ ~Locked(g)' /\ \A h \in Guard \ {g} : guard'[h] = guard[h]
<1>1. CASE Unlock(g)
  BY <1>1 DEF TypeOK, Unlock, Opened, Locked, Alive, GuardObject
<1>2. CASE Destroy(g)
  BY <1>2 DEF TypeOK, Destroy, Locked, Alive
<1> QED BY <1>1, <1>2

LEMMA Unlocks ==
  ASSUME IInv, NEW g \in Guard, Unlock(g) \/ Destroy(g)
  PROVE  IInv'
<1>1. /\ guard' \in [Guard -> GuardObject \cup {Null}]
      /\ ~Locked(g)' /\ \A h \in Guard \ {g} : guard'[h] = guard[h]
  BY Opens DEF IInv
<1>2. CASE Locked(g)
  <2>1. Release(guard[g].thread, guard[g].lock) /\ UNCHANGED semVars
    BY <1>2 DEF Unlock, Destroy, Locked
  <2>2. /\ GuardsTell' /\ fault' = fault
        /\ readers' \in [Lock -> Nat] /\ writer' \in [Lock -> Thread \cup {Null}]
    BY <1>1, <1>2, <2>1, Leaves DEF IInv
  <2> QED
    BY <1>1, <2>1, <2>2 DEF IInv, TypeOK, NoFault, SemaphoreExact, semVars
<1>3. CASE ~Locked(g)
  <2>1. UNCHANGED <<lockVars, semVars>>
    BY <1>3 DEF Unlock, Destroy, Locked
  <2>2. \A l \in Lock : Readers(l)' = Readers(l) /\ Writers(l)' = Writers(l)
    BY <1>1, <1>3 DEF Readers, Writers, Locked, Alive
  <2>3. \A l \in Lock : \A h \in Writers(l) : guard'[h] = guard[h]
    BY <1>1, <1>3 DEF Writers
  <2>4. GuardsTell'
    BY <2>1, <2>2, <2>3 DEF IInv, GuardsTell, lockVars
  <2> QED
    BY <1>1, <2>1, <2>4 DEF IInv, TypeOK, NoFault, SemaphoreExact, lockVars, semVars
<1> QED
  BY <1>2, <1>3

\* The semaphore touches no lock, a stuttering step nothing.
LEMMA LocksAlone ==
  ASSUME IInv, UNCHANGED <<lockVars, guard>>, (TypeOK /\ NoFault /\ SemaphoreExact)'
  PROVE  IInv'
<1>1. UNCHANGED <<writer, readers, guard>>
  BY DEF lockVars
<1>2. \A l \in Lock : Readers(l)' = Readers(l) /\ Writers(l)' = Writers(l)
  BY <1>1 DEF Readers, Writers, Locked, Alive
<1>3. GuardsTell'
  BY <1>1, <1>2 DEF IInv, GuardsTell
<1> QED
  BY <1>3 DEF IInv

(***************************************************************************)
(* IInv is an inductive invariant: what the locks hold is what their       *)
(* guards believe, for any number of them.                                 *)
(***************************************************************************)
THEOREM Inductive ==
  ASSUME Liberty = {}
  PROVE  Spec => []IInv
<1>1. Init => IInv
  <2> SUFFICES ASSUME Init PROVE IInv
    OBVIOUS
  <2>1. \A l \in Lock : Readers(l) = {} /\ Writers(l) = {}
    BY DEF Init, Readers, Writers, Locked, Alive
  <2>2. GuardsTell
    BY <2>1, FS_EmptySet DEF Init, GuardsTell
  <2>3. TypeOK
    <3>1. value \in 0 .. MaxValue /\ passed \in Int
      BY LocksAssumption DEF Init
    <3>2. readers \in [Lock -> Nat]
      BY DEF Init
    <3> QED BY <3>1, <3>2, Zenon DEF Init, TypeOK
  <2>4. NoFault /\ SemaphoreExact
    BY LocksAssumption DEF Init, NoFault, SemaphoreExact
  <2> QED
    BY <2>2, <2>3, <2>4 DEF IInv
<1>2. ASSUME IInv, Next PROVE IInv'
  <2>1. ASSUME NEW g \in Guard, Use(g) PROVE IInv'
    <3>1. ASSUME NEW t \in Thread, NEW l \in Lock, NEW shared \in BOOLEAN,
                 Construct(t, g, l, shared)
          PROVE  IInv'
      BY <1>2, <3>1, Constructs
    <3>2. CASE Relock(g)
      BY <1>2, <3>2, Relocks
    <3>3. CASE Unlock(g) \/ Destroy(g)
      BY <1>2, <3>3, Unlocks
    <3> QED
      BY <2>1, <3>1, <3>2, <3>3 DEF Use, ScopedLock, ReadScopedLock, WriteScopedLock
  <2>2. CASE Semaphore
    <3>1. UNCHANGED <<lockVars, guard>>
      BY <2>2 DEF Semaphore, Wait, WaitInterrupted, Notify, NotifyOverflows
    <3>2. value' \in 0 .. MaxValue /\ passed' \in Int
      BY <1>2, <2>2, LocksAssumption
      DEF Semaphore, Wait, WaitInterrupted, Notify, NotifyOverflows, IInv, TypeOK
    <3>3. value' + passed' = Initial
      BY <1>2, <2>2, LocksAssumption
      DEF Semaphore, Wait, WaitInterrupted, Notify, NotifyOverflows, IInv, TypeOK, SemaphoreExact
    <3>4. caught' \in BOOLEAN
      BY <1>2, <2>2, Zenon
      DEF Semaphore, Wait, WaitInterrupted, Notify, NotifyOverflows, IInv, TypeOK
    <3>5. (TypeOK /\ NoFault /\ SemaphoreExact)'
      BY <1>2, <3>1, <3>2, <3>3, <3>4 DEF IInv, TypeOK, NoFault, SemaphoreExact, lockVars
    <3> QED BY <1>2, <3>1, <3>5, LocksAlone
  <2> QED BY <1>2, <2>1, <2>2 DEF Next
<1>3. ASSUME IInv, UNCHANGED vars PROVE IInv'
  <2>1. UNCHANGED <<lockVars, guard, semVars>>
    BY <1>3 DEF vars
  <2>2. (TypeOK /\ NoFault /\ SemaphoreExact)'
    BY <1>3, <2>1 DEF IInv, TypeOK, NoFault, SemaphoreExact, lockVars, semVars
  <2> QED BY <1>3, <2>1, <2>2, LocksAlone
<1> QED
  BY <1>1, <1>2, <1>3, PTL DEF Spec

\* The locks hold what their guards believe.
THEOREM GuardsCorrect ==
  ASSUME Liberty = {}
  PROVE  Spec => []GuardsTell
<1>1. IInv => GuardsTell
  BY DEF IInv
<1> QED BY <1>1, Inductive, PTL

\* No guard ever unlocks a lock that its thread does not hold.
THEOREM NoFaultEver ==
  ASSUME Liberty = {}
  PROVE  Spec => []NoFault
<1>1. IInv => NoFault
  BY DEF IInv
<1> QED BY <1>1, Inductive, PTL

-----------------------------------------------------------------------------
\* A guard that gets locked enters a section that the others leave it.
LEMMA LockingEnters ==
  ASSUME Liberty = {}, IInv, NEW g \in Guard, ~Locked(g), NEW d \in GuardObject, d.m_locked,
         Acquire(d.thread, d.lock, d.shared),
         guard' = [guard EXCEPT ![g] = d]
  PROVE  \E p \in E!Place : E!Enter(g, p)
<1> DEFINE p == [lock |-> d.lock, shared |-> d.shared]
<1>1. d.thread \in Thread /\ d.lock \in Lock /\ d.shared \in BOOLEAN /\ d # Null /\ p \in E!Place
  BY LocksAssumption DEF GuardObject, E!Place
<1>2. /\ writer[d.lock] = Null
      /\ ~d.shared => readers[d.lock] = 0
  BY <1>1, NotRefused DEF IInv
<1>3. inside[g] = Null
  BY DEF inside
<1>4. inside' = [inside EXCEPT ![g] = p]
  BY <1>1 DEF inside, Locked, Alive, IInv, TypeOK
<1>5. ASSUME NEW r \in Guard, inside[r] # Null, inside[r].lock = d.lock
      PROVE  d.shared /\ inside[r].shared
  <2>1. Locked(r) /\ guard[r].lock = d.lock /\ inside[r].shared = guard[r].shared
    BY <1>5 DEF inside
  <2>2. guard[r] \in GuardObject
    BY <2>1 DEF Locked, Alive, IInv, TypeOK
  <2>3. r \notin Writers(d.lock)
    BY <1>1, <1>2, <2>2, LocksAssumption DEF IInv, GuardsTell, GuardObject
  <2>4. r \in Readers(d.lock)
    BY <2>1, <2>3 DEF Readers, Writers
  <2>5. readers[d.lock] # 0
    BY <1>1, <2>4, ReadersFinite, FS_EmptySet DEF IInv, GuardsTell
  <2> QED
    BY <1>2, <2>1, <2>4, <2>5 DEF Readers
<1>6. p.lock = d.lock /\ p.shared = d.shared
  OBVIOUS
<1> HIDE DEF p
<1>7. E!Enter(g, p)
  BY <1>3, <1>4, <1>5, <1>6 DEF E!Enter
<1> QED
  BY <1>1, <1>7

(***************************************************************************)
(* The guards over pthread's locks implement the abstract exclusion:       *)
(* locking a guard enters its section, unlocking leaves it, and nothing    *)
(* else moves.                                                             *)
(***************************************************************************)
THEOREM LocksExclude ==
  ASSUME Liberty = {}
  PROVE  Spec => ImplementsExclusion
<1>1. Init => E!Init
  BY DEF Init, E!Init, inside, Locked, Alive
<1>2. ASSUME IInv, [Next]_vars PROVE [E!Next]_inside
  <2>1. ASSUME NEW t \in Thread, NEW g \in Guard, NEW l \in Lock, NEW shared \in BOOLEAN,
               Construct(t, g, l, shared)
        PROVE  E!Next
    <3> DEFINE d == [thread |-> t, lock |-> l, shared |-> shared, m_locked |-> TRUE]
    <3>1. d \in GuardObject /\ d.m_locked /\ d.thread = t /\ d.lock = l /\ d.shared = shared
      BY DEF GuardObject
    <3>2. ~Locked(g) /\ guard' = [guard EXCEPT ![g] = d] /\ Acquire(t, l, shared)
      BY <2>1 DEF Construct, Locked
    <3> HIDE DEF d
    <3> QED BY <1>2, <3>1, <3>2, LockingEnters DEF E!Next
  <2>2. ASSUME NEW g \in Guard, Relock(g) PROVE E!Next
    <3>1. PICK d \in GuardObject : d = [guard[g] EXCEPT !.m_locked = TRUE]
      BY <1>2, <2>2 DEF IInv, TypeOK, Relock, Alive, GuardObject
    <3>2. /\ d.m_locked /\ d.thread = guard[g].thread /\ d.lock = guard[g].lock
          /\ d.shared = guard[g].shared
      BY <1>2, <2>2, <3>1 DEF IInv, TypeOK, Relock, Alive, GuardObject
    <3>3. ~Locked(g) /\ guard' = [guard EXCEPT ![g] = d] /\ Acquire(d.thread, d.lock, d.shared)
      BY <2>2, <3>1, <3>2 DEF Relock, Locked
    <3> QED BY <1>2, <3>2, <3>3, LockingEnters DEF E!Next
  <2>3. ASSUME NEW g \in Guard, Unlock(g) \/ Destroy(g) PROVE [E!Next]_inside
    <3>1. /\ guard' \in [Guard -> GuardObject \cup {Null}]
          /\ ~Locked(g)' /\ \A h \in Guard \ {g} : guard'[h] = guard[h]
      BY <1>2, <2>3, Opens DEF IInv
    <3>2. inside' = [inside EXCEPT ![g] = Null]
      BY <3>1 DEF inside, Locked, Alive
    <3>3. CASE Locked(g)
      <4>1. inside[g] # Null
        <5>1. guard[g].lock \in Lock /\ guard[g].shared \in BOOLEAN
          BY <1>2, <3>3 DEF IInv, TypeOK, Locked, Alive, GuardObject
        <5>2. inside[g] = [lock |-> guard[g].lock, shared |-> guard[g].shared]
          BY <3>3 DEF inside
        <5> QED BY <5>1, <5>2, LocksAssumption
      <4> QED BY <3>2, <4>1 DEF E!Next, E!Leave
    <3>4. CASE ~Locked(g)
      BY <3>2, <3>4 DEF inside
    <3> QED BY <3>3, <3>4
  <2>4. CASE Semaphore \/ UNCHANGED vars
    <3>1. UNCHANGED guard
      BY <2>4 DEF Semaphore, Wait, WaitInterrupted, Notify, NotifyOverflows, vars
    <3> QED BY <3>1 DEF inside, Locked, Alive
  <2> QED
    BY <1>2, <2>1, <2>2, <2>3, <2>4
    DEF Next, Use, ScopedLock, ReadScopedLock, WriteScopedLock
<1> QED
  BY <1>1, <1>2, Inductive, PTL DEF Spec, ImplementsExclusion, E!Spec
=============================================================================
