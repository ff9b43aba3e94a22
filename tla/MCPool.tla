-------------------------------- MODULE MCPool --------------------------------
(***************************************************************************)
(* Small pools for SpinePool: book 1 has three spines, book 2 two.         *)
(***************************************************************************)
EXTENDS SpinePool, TLC

MCSpineCount == [b \in Books |-> IF b = 1 THEN 3 ELSE 2]

Symmetry == Permutations(Attempts)
===============================================================================
