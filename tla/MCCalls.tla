------------------------------ MODULE MCCalls ------------------------------
(* Every request, of a class that has any of the members named. *)
EXTENDS Calls

=============================================================================
