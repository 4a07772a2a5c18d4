------------------------------ MODULE MCSound ------------------------------
(* Values of Sound for TLC.                                                *)
EXTENDS Sound

(* fresh and skipped are only read in the step that sets them.             *)
View == <<[i \in Adapters |-> [real[i] EXCEPT !.fresh = FALSE]], stub, queuedStops, world>>
=============================================================================
