--------------------------------- MODULE Sums ---------------------------------
(***************************************************************************)
(* The sum of a column of numbers, as SQL's SUM or a loop adds it up: what *)
(* several modules of the application need and what can be reasoned about, *)
(* being a recursive function.                                             *)
(***************************************************************************)
EXTENDS Integers, Sequences

Total(column) ==
  LET upTo[i \in 0..Len(column)] == IF i = 0 THEN 0 ELSE upTo[i - 1] + column[i]
  IN upTo[Len(column)]
===============================================================================
