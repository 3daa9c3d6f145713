------------------------- MODULE MCInstanceMessages -------------------------
(* Small instances of InstanceMessages.                                     *)
EXTENDS InstanceMessages

Timestamps == {"t1", "t2", "t3"}
=============================================================================
