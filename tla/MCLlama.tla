-------------------------------- MODULE MCLlama --------------------------------
(***************************************************************************)
(* LlamaDriver and EngineLink on a small instance.                         *)
(***************************************************************************)
EXTENDS LlamaProperties

CONSTANTS a, b    \* tokens

MCPrompts == {<<a>>, <<a, b>>, <<a, a, b>>, <<a, b, b, a, b, a, b>>}

\* Of the run on reuse: a prompt, and the same one with more behind it.
MCResumed == {<<a>>, <<a, b>>}
=============================================================================
