------------------------------- MODULE MCEngine -------------------------------
(***************************************************************************)
(* Small books for EngineTransactions: book b1 has a two-page spine with   *)
(* two navigation entries and a one-page spine, the custom face reflows    *)
(* the first spine to one page; book b2 has one spine and no navigation.   *)
(***************************************************************************)
EXTENDS EngineTransactions

CONSTANTS b1, b2, builtin, custom

MCSpineCount == [b \in {b1, b2} |-> IF b = b1 THEN 2 ELSE 1]
MCPageCount == [b \in {b1, b2} |-> [s \in {0, 1} |-> [l \in Layouts |->
                  IF s = 0 /\ l = builtin THEN 2 ELSE 1]]]
MCToc == [b \in {b1, b2} |-> [s \in {0, 1} |->
           IF b = b2 THEN << >> ELSE IF s = 0 THEN <<1, -1>> ELSE <<4>>]]
=============================================================================
