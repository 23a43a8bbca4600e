------------------------- MODULE MCDownloadControl -------------------------
(* A small instance of DownloadControl: two commands race on the handle of *)
(* a transfer whose tasks are in checkpoint() and cancelled().             *)
EXTENDS DownloadControl
=============================================================================
