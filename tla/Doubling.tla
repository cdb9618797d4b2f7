------------------------------- MODULE Doubling -------------------------------
(***************************************************************************)
(* What a buffer of c elements becomes when it is doubled again and again: *)
(* the yardstick for the loops that look for the size of a list an adapter *)
(* does not tell.                                                          *)
(***************************************************************************)
EXTENDS Integers

\* Doublings(c, n)[k] is c doubled k times, for k up to n.
Doublings(c, n) ==
  LET f[k \in 0 .. n] == IF k = 0 THEN c ELSE 2 * f[k - 1] IN f

===============================================================================
