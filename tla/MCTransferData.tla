--------------------------- MODULE MCTransferData ---------------------------
(***************************************************************************)
(* Small instances of TransferData; the constants are in the cfg files.    *)
(***************************************************************************)
EXTENDS TransferData
=============================================================================
