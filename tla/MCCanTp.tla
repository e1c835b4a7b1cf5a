------------------------------ MODULE MCCanTp ------------------------------
(* CanTp with four packets: two of one group that differ in length, one     *)
(* that is too short for a connection, and one of another group.            *)
EXTENDS CanTp

MCPacks == <<3, 2, 1, 2>>
MCPgn   == <<1, 1, 2, 2>>
=============================================================================
