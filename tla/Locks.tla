------------------------------- MODULE Locks -------------------------------
(***************************************************************************)
(* src/mutex.h and src/mutex.cc: the locks over pthread, the guards that   *)
(* take them for the length of a scope, and the semaphore.                 *)
(*                                                                         *)
(* What a guard believes, m_locked, is kept apart from what the lock       *)
(* holds: its writer, and for a read-write lock the number of readers,     *)
(* which does not tell who they are.  A call that has to wait is an action *)
(* that is not enabled.                                                    *)
(***************************************************************************)
EXTENDS Integers, FiniteSets

CONSTANTS
  Thread,     \* the threads
  MutexLock,  \* the locks that are a Mutex or a Spinlock
  RWLock,     \* those that are an RWMutex
  Guard,      \* the guard objects, each used for one scope after the other
  Null,       \* no thread, and no guard
  Liberty,    \* {}, or {"again"}: clients lock a lock they hold for writing
  Initial,    \* what the semaphore starts with
  MaxValue    \* SEM_VALUE_MAX

Lock == MutexLock \cup RWLock

\* The members of a guard, and the thread whose scope it belongs to.
GuardObject == [thread : Thread, lock : Lock, shared : BOOLEAN, m_locked : BOOLEAN]

ASSUME LocksAssumption ==
  /\ MutexLock \cap RWLock = {}
  /\ IsFiniteSet(Guard)
  /\ Null \notin Thread \cup GuardObject \cup [lock : Lock, shared : BOOLEAN]
  /\ Liberty \subseteq {"again"}
  /\ MaxValue \in Nat /\ Initial \in 0 .. MaxValue

VARIABLES
  writer,   \* who holds each lock for itself, or Null
  readers,  \* how many hold each read-write lock for reading
  guard,    \* the guard objects there are, or Null
  fault,    \* whether a lock was unlocked that its caller did not hold
  value,    \* Semaphore::m_semaphore
  passed,   \* history: the waits that returned, less the posts that did
  caught    \* history: whether wait or notify has thrown

lockVars == <<writer, readers, fault>>
semVars  == <<value, passed, caught>>
vars     == <<lockVars, guard, semVars>>

Init ==
  /\ writer = [l \in Lock |-> Null]
  /\ readers = [l \in Lock |-> 0]
  /\ guard = [g \in Guard |-> Null]
  /\ fault = FALSE
  /\ value = Initial /\ passed = 0 /\ caught = FALSE

(***************************************************************************)
(* pthread's locks.  A read-write lock refuses a thread that holds it for  *)
(* writing with EDEADLK, which rdlock and wrlock do not look at.  Next to  *)
(* a definition stand slips of the pen that the properties catch.          *)
(***************************************************************************)
Refused(t, l) == l \in RWLock /\ writer[l] = t

\* Mutex::lock, Spinlock::lock and RWMutex::wrlock.
WrLock_OverReaders(t, l) ==
  writer[l] = Null /\ writer' = [writer EXCEPT ![l] = t] /\ UNCHANGED readers
WrLock(t, l) ==
  \/ /\ writer[l] = Null /\ readers[l] = 0
     /\ writer' = [writer EXCEPT ![l] = t]
     /\ UNCHANGED readers
  \/ Refused(t, l) /\ UNCHANGED <<writer, readers>>

RdLock(t, l) ==
  \/ /\ writer[l] = Null
     /\ readers' = [readers EXCEPT ![l] = @ + 1]
     /\ UNCHANGED writer
  \/ Refused(t, l) /\ UNCHANGED <<writer, readers>>

\* unlock: the writer's, or one reader's, whoever that was.
Release(t, l) ==
  /\ writer' = [writer EXCEPT ![l] = IF @ = t THEN Null ELSE @]
  /\ readers' = [readers EXCEPT ![l] = IF writer[l] # t /\ @ > 0 THEN @ - 1 ELSE @]
  /\ fault' = (fault \/ (writer[l] # t /\ readers[l] = 0))

-----------------------------------------------------------------------------
(***************************************************************************)
(* ScopedLockImpl, ReadScopedLockImpl and WriteScopedLockImpl.             *)
(***************************************************************************)
Alive(g)  == guard[g] # Null
Locked(g) == Alive(g) /\ guard[g].m_locked

Permitted(t, l) == "again" \in Liberty \/ writer[l] # t

\* Whom the guard's constructor and its lock() call.
Acquire(t, l, shared) ==
  /\ Permitted(t, l)
  /\ IF shared THEN RdLock(t, l) ELSE WrLock(t, l)
  /\ UNCHANGED <<fault, semVars>>

Construct(t, g, l, shared) ==
  /\ ~Alive(g)
  /\ Acquire(t, l, shared)
  /\ guard' = [guard EXCEPT ![g] = [thread |-> t, lock |-> l, shared |-> shared,
                                    m_locked |-> TRUE]]

ScopedLock(t, g, l)      == l \in MutexLock /\ Construct(t, g, l, FALSE)
ReadScopedLock(t, g, l)  == l \in RWLock /\ Construct(t, g, l, TRUE)
WriteScopedLock(t, g, l) == l \in RWLock /\ Construct(t, g, l, FALSE)

\* lock(): nothing happens to a guard that is locked.
Relock(g) ==
  /\ Alive(g) /\ ~guard[g].m_locked
  /\ Acquire(guard[g].thread, guard[g].lock, guard[g].shared)
  /\ guard' = [guard EXCEPT ![g].m_locked = TRUE]

\* unlock(): only if m_locked, which it resets.
Opened_Not(g) == guard
Opened(g)     == [guard EXCEPT ![g].m_locked = FALSE]

Unlock(g) ==
  /\ Locked(g)
  /\ Release(guard[g].thread, guard[g].lock)
  /\ guard' = Opened(g)
  /\ UNCHANGED semVars

\* The end of the scope.
Destroy_Forgets(g) ==
  Alive(g) /\ guard' = [guard EXCEPT ![g] = Null] /\ UNCHANGED <<lockVars, semVars>>
Destroy(g) ==
  /\ Alive(g)
  /\ IF guard[g].m_locked THEN Release(guard[g].thread, guard[g].lock)
     ELSE UNCHANGED lockVars
  /\ guard' = [guard EXCEPT ![g] = Null]
  /\ UNCHANGED semVars

-----------------------------------------------------------------------------
(***************************************************************************)
(* Semaphore.  sem_wait may be interrupted by a signal, sem_post finds the *)
(* semaphore at its limit: both then throw.                                *)
(***************************************************************************)
Wait ==
  /\ value > 0
  /\ value' = value - 1 /\ passed' = passed + 1
  /\ UNCHANGED <<lockVars, guard, caught>>

WaitInterrupted ==
  /\ value = 0
  /\ caught' = TRUE
  /\ UNCHANGED <<lockVars, guard, value, passed>>

Notify ==
  /\ value < MaxValue
  /\ value' = value + 1 /\ passed' = passed - 1
  /\ UNCHANGED <<lockVars, guard, caught>>

NotifyOverflows ==
  /\ value = MaxValue
  /\ caught' = TRUE
  /\ UNCHANGED <<lockVars, guard, value, passed>>

-----------------------------------------------------------------------------
Use(g) ==
  \/ \E t \in Thread, l \in Lock :
       ScopedLock(t, g, l) \/ ReadScopedLock(t, g, l) \/ WriteScopedLock(t, g, l)
  \/ Relock(g) \/ Unlock(g) \/ Destroy(g)

Semaphore == Wait \/ WaitInterrupted \/ Notify \/ NotifyOverflows

Next == (\E g \in Guard : Use(g)) \/ Semaphore

Spec == Init /\ [][Next]_vars

-----------------------------------------------------------------------------
(***************************************************************************)
(* Properties                                                              *)
(***************************************************************************)
TypeOK ==
  /\ writer \in [Lock -> Thread \cup {Null}]
  /\ readers \in [Lock -> Nat]
  /\ guard \in [Guard -> GuardObject \cup {Null}]
  /\ fault \in BOOLEAN
  /\ value \in 0 .. MaxValue /\ passed \in Int /\ caught \in BOOLEAN

Readers(l) == {g \in Guard : Locked(g) /\ guard[g].lock = l /\ guard[g].shared}
Writers(l) == {g \in Guard : Locked(g) /\ guard[g].lock = l /\ ~guard[g].shared}

(***************************************************************************)
(* The guards tell the truth: what m_locked says of all guards of a lock   *)
(* is what the lock holds.  It counts the locked read guards, and has a    *)
(* writer exactly if one write guard, of that thread, is locked and no     *)
(* read guard.  So a lock is free once its guards are gone.                *)
(***************************************************************************)
GuardsTell ==
  \A l \in Lock :
    /\ readers[l] = Cardinality(Readers(l))
    /\ \A g \in Writers(l) : writer[l] = guard[g].thread
    /\ \A g, h \in Writers(l) : g = h
    /\ writer[l] # Null => Writers(l) # {} /\ Readers(l) = {}

\* No guard unlocks a lock that its thread does not hold, whatever the order
\* of lock(), unlock() and the destructor.
NoFault == ~fault

\* The waits that have returned were paid for by the semaphore's first value
\* and its posts, those aside that were interrupted or refused.
SemaphoreExact == value + passed = Initial

IInv == TypeOK /\ GuardsTell /\ NoFault /\ SemaphoreExact

-----------------------------------------------------------------------------
\* The section a guard stands for, as Exclusion sees it.
inside == [g \in Guard |->
             IF Locked(g) THEN [lock |-> guard[g].lock, shared |-> guard[g].shared] ELSE Null]

E == INSTANCE Exclusion WITH Section <- Guard, Out <- Null

(***************************************************************************)
(* The guarded sections exclude each other as the abstract locks do, with  *)
(* locks that know neither guards nor readers.                             *)
(***************************************************************************)
ImplementsExclusion == E!Spec
=============================================================================
