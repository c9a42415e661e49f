----------------------------- MODULE Exclusion -----------------------------
(***************************************************************************)
(* What mutex.h promises: a section of code between a guard's lock and its *)
(* unlock is alone inside the lock, or shares it with readers only.        *)
(***************************************************************************)
CONSTANTS
  Section,  \* the guarded sections
  Lock,     \* the locks
  Out       \* a section nobody executes

VARIABLE
  inside    \* for each section the lock it is inside, and how, or Out

Place == [lock : Lock, shared : BOOLEAN]

Init == inside = [s \in Section |-> Out]

Enter(s, p) ==
  /\ inside[s] = Out
  /\ \A r \in Section : inside[r] # Out /\ inside[r].lock = p.lock
                          => p.shared /\ inside[r].shared
  /\ inside' = [inside EXCEPT ![s] = p]

Leave(s) ==
  /\ inside[s] # Out
  /\ inside' = [inside EXCEPT ![s] = Out]

Next == \E s \in Section : Leave(s) \/ \E p \in Place : Enter(s, p)

Spec == Init /\ [][Next]_inside
=============================================================================
