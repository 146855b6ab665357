----------------------------- MODULE MCController -----------------------------
(***************************************************************************)
(* Small instances of Controller.                                          *)
(***************************************************************************)
EXTENDS Controller

CONSTANTS d1, d2
==============================================================================
