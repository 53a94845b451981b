------------------------------ MODULE MCVolume ------------------------------
(* Two threads, a handle of the caller, and handles the library creates.   *)
EXTENDS Volume

CONSTANTS t1, t2

MCAllOperations == [t \in Threads |-> AllOps]
=============================================================================
