----------------------------- MODULE MCProgram -----------------------------
(* Model checking of Program: main and two threads.                        *)
EXTENDS Program, TLC

CONSTANTS a, b, k, l, w, h

Threads == {a, b, Main}

\* All of up to two arguments, and what needs a third: an option repeated,
\* a word too many, a valid option before or after a bad argument.
Lines ==
  BoundedSeq(Argument, 2) \cup
  {<<k, w, k>>, <<k, k, w>>, <<k, l, w>>, <<k, w, w>>, <<k, w, Bare>>, <<k, Bare, l>>, <<l, k, Bare>>}

\* The two Thread objects, and their threads with them, are interchangeable.
Alike == Permutations({a, b})
=============================================================================
