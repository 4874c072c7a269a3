--------------------------- MODULE MCTransferCore ---------------------------
(* TransferCore on small transfers; the cfgs choose the mode and the faults. *)
EXTENDS TransferCoreInv
=============================================================================
