--------------------------- MODULE MCWorkerThread ---------------------------
(***************************************************************************)
(* Small instances of WorkerThread; the constants are in the cfg files.    *)
(***************************************************************************)
EXTENDS WorkerThread
=============================================================================
