-------------------------- MODULE MCDownloadQueue --------------------------
(* Model values for checking DownloadQueue with TLC. *)
EXTENDS DownloadQueue, TLC

CONSTANTS v1, v2

=============================================================================
