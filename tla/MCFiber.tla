------------------------------ MODULE MCFiber ------------------------------
(* Model checking of Fiber on a few threads and fibers.                    *)
EXTENDS FiberProofs, TLC

CONSTANTS t1, t2, f1, f2

\* The client of test_fiber.cpp, and one whose threads share a handle.
Disciplined == {}
Shared      == {"shared"}
=============================================================================
