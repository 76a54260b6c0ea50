----------------------------- MODULE MCHostStream -----------------------------
(***************************************************************************)
(* An instance of HostStream, with the transfers of HostBulk, for TLC.     *)
(***************************************************************************)
EXTENDS HostStream

CONSTANT r1
MCReaders == {r1}
MCMaxSeq  == <<3, 1>>
===============================================================================
