------------------------------ MODULE MCEotFlags ------------------------------
(* EotFlags needs no bound: every register is a Boolean or a machine state. *)
EXTENDS EotFlags
===============================================================================
