------------------------------ MODULE MCLogger ------------------------------
(* Model checking of Logger on a few loggers, appenders and threads.       *)
EXTENDS Logger, TLC

CONSTANTS t1, t2, root, sys, console, screen, file, std, mine

None == {}
=============================================================================
