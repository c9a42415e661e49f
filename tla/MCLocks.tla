------------------------------ MODULE MCLocks ------------------------------
(* Model checking of Locks: two threads and four guards over a mutex and a *)
(* read-write lock.                                                        *)
EXTENDS Locks, TLC

CONSTANTS t1, t2, g1, g2, g3, g4, mutex, rwmutex

\* Nothing names a thread or a guard.
Alike == Permutations({t1, t2}) \cup Permutations({g1, g2, g3, g4})
=============================================================================
