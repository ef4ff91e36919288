--------------------------------- MODULE Sums ---------------------------------
(* Sums of quantities over a finite set of rows, as SQL's SUM computes them. *)
EXTENDS FiniteSetsExt

\* The sum of f[x] for x in S; zero if there is none (COALESCE(SUM(...), 0)).
SumOver(f, S) == MapThenSumSet(LAMBDA x : f[x], S)
===============================================================================
