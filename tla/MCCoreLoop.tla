------------------------------ MODULE MCCoreLoop ------------------------------
(* TLC instances of CoreLoop; the configurations give the constants. *)
EXTENDS CoreProperties
===============================================================================
