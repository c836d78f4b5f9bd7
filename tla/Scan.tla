---------------------------------- MODULE Scan ---------------------------------
(* Loops that carry a value along.  A step is a function of the position, and   *)
(* that of what the steps before it have left.                                  *)
EXTENDS Integers

\* What a loop of n steps holds before each of them, and behind the last.
Before(n, start, step) ==
  LET held[i \in 1..(n + 1)] == IF i = 1 THEN start ELSE step[i - 1][held[i - 1]]
  IN held
After(n, start, step) == Before(n, start, step)[n + 1]

Pow2(n) == After(n, 1, [i \in 1..n |-> [x \in Nat |-> 2 * x]])
================================================================================
