----------------------------- MODULE MCFTPTransfer -----------------------------
(* Instances of FTPTransfer for TLC.                                       *)
EXTENDS FTPTransfer

MCValid == {TRUE}
=============================================================================
