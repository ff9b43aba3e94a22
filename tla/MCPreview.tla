------------------------------ MODULE MCPreview ------------------------------
(***************************************************************************)
(* Small libraries for PreviewSession.  Book 1 opens at the first of its   *)
(* two chapters, book 2 at the second.  The first chapter is long enough   *)
(* to be seen with one page, with two and finished; it grows with the      *)
(* layout.  With MCLongPages the second has two pages, so that a frame of  *)
(* a wrong chapter could be painted.                                       *)
(***************************************************************************)
EXTENDS PreviewSession

MCSpineCount == [b \in Books |-> 2]
MCPageCount  == [b \in Books |-> [s \in 0 .. 1 |-> [l \in Layouts |->
                    IF s = 0 THEN 2 + l ELSE 1]]]
MCLongPages  == [b \in Books |-> [s \in 0 .. 1 |-> [l \in Layouts |-> 3 - s]]]
MCStartSpine == [b \in Books |-> b - 1]
==============================================================================
