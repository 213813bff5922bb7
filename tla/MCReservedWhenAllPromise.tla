---------------------- MODULE MCReservedWhenAllPromise ----------------------
(* ReservedWhenAllPromise on small instances. *)
EXTENDS ReservedWhenAllPromise
=============================================================================
