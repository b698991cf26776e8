---------------------------- MODULE MCExceptions ----------------------------
(* Three exceptions, chains nested up to three deep. *)
EXTENDS Exceptions, TLC

Interchangeable == Permutations(Throwables)

=============================================================================
