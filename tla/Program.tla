------------------------------ MODULE Program ------------------------------
(***************************************************************************)
(* A program of this library: its main code starts Threads and parses its  *)
(* command line, and every thread uses the Env the process has             *)
(* (EnvMgr::GetInstance()) from inside its callback.                       *)
(***************************************************************************)
EXTENDS Thread, Env

ASSUME ProgramAssumption == Caller \subseteq Tid /\ Initer = Main

vars == <<threadVars, envVars>>

Init == ThreadInit /\ EnvInit

\* A thread makes its calls one at a time.
Step(t) ==
  \/ (t \in Caller => ~Calling(t)) /\ (UseThreads(t) \/ JoinReturns(t)) /\ UNCHANGED envVars
  \/ t \in Object /\ Run(t) /\ UNCHANGED envVars
  \/ t \in Caller /\ InClient(t) /\ (UseEnv(t) \/ InEnv(t)) /\ UNCHANGED threadVars

Next == \E t \in Tid : Step(t)

Spec == Init /\ [][Next]_vars
=============================================================================
