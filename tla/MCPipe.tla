-------------------------------- MODULE MCPipe --------------------------------
(***************************************************************************)
(* PipeChat on a small instance.                                           *)
(***************************************************************************)
EXTENDS PipeChat
=============================================================================
