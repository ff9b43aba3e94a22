------------------------------- MODULE MCStorage -------------------------------
(***************************************************************************)
(* Small instances of EngineStorage.  Paths and handles are alike.         *)
(***************************************************************************)
EXTENDS EngineStorage, TLC

CONSTANTS section, html, h1, h2

Symmetry == Permutations(Names) \cup Permutations(Handles)

===============================================================================
