------------------------------- MODULE MCChatApi -------------------------------
(***************************************************************************)
(* ChatApi on a small instance.                                            *)
(***************************************************************************)
EXTENDS ChatApi
=============================================================================
