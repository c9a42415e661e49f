---------------------------- MODULE MCConfigVar ----------------------------
(* Model checking of ConfigVar on a few threads, values and callbacks.     *)
EXTENDS ConfigVar, TLC

CONSTANTS t1, t2, x1, x2, a, b, ok, bad

=============================================================================
