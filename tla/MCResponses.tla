---------------------------- MODULE MCResponses ----------------------------
(* A file of five blocks over a socket with room for five cells: with the   *)
(* header in the socket only one block fits, so a slow peer makes every     *)
(* call fall short, and one that keeps up receives every answer whole.      *)
EXTENDS Responses

MCFileLen == 5
MCPiece == 2
MCSendRoom == 5
=============================================================================
