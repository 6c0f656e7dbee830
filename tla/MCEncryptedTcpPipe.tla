-------------------------- MODULE MCEncryptedTcpPipe --------------------------
(* Instance of EncryptedTcpPipe for TLC: the cfg gives the limit. *)
EXTENDS EncryptedTcpPipe
===============================================================================
