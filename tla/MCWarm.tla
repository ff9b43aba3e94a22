-------------------------------- MODULE MCWarm --------------------------------
(***************************************************************************)
(* Small instances of WarmExport.                                          *)
(***************************************************************************)
EXTENDS WarmExport

===============================================================================
