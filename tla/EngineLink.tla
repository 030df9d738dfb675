----------------------------- MODULE EngineLink -----------------------------
(***************************************************************************)
(* The engine of LlamaDriver from its creation to its end: the router's    *)
(* load_model and HardwareOrchestrator, or the dispatcher, link a kernel   *)
(* (EngineManager) and have it make a RuntimeB, which loads the weights    *)
(* and makes a context (cluaiz_kernel_instantiate, load_native,            *)
(* NativeLlama).  A new booster setting replaces the context.              *)
(*                                                                         *)
(* Which of several attempts a machine lets succeed is a record of its     *)
(* own; sizes of weights, windows and batches are abstracted.              *)
(***************************************************************************)
EXTENDS LlamaDriver

VARIABLE
    engine   \* "none", "ready", or "lost": weights are loaded, but no context

linkVars == <<vars, engine>>

(***************************************************************************)
(* What the file of a model and a machine agree on: the weights fit on the *)
(* GPU, can be locked, can be mapped; a context can be made with flash     *)
(* attention, and without; the DNA admits flash attention; the weights     *)
(* leave a layer to the GPU; the library and its symbols are there.        *)
(***************************************************************************)
Machine == [{"gpu", "lock", "map", "flash", "plain", "heads", "layers", "linked"} -> BOOLEAN]
Params == [{"gpu", "lock", "map", "flash", "quant"} -> BOOLEAN]

(***************************************************************************)
(* The booster settings that reach the engine.  A caller's                 *)
(* cluaizBoosterContext does not hand on force_memory_lock, nor            *)
(* turbo_quant under a name that to_context_params knows; without one the  *)
(* engine reads engine/system_booster.json.  Both always map the file.     *)
(***************************************************************************)
OfCaller == {p \in Params : p.map /\ ~p.lock}
OfSystem == {p \in Params : p.map}

(* The hub switches flash attention off where the DNA speaks against it. *)
Guarded(p, m) == [p EXCEPT !.flash = @ /\ m.heads]

(* A quantized cache needs flash attention, and falls back to F16. *)
ContextParams(p) == [p EXCEPT !.quant = @ /\ p.flash]

-----------------------------------------------------------------------------
(* NativeLlama::load *)

(* Without the lock; on the CPU, where the lock is asked for again; in RAM. *)
Attempts(p) ==
    {p, [p EXCEPT !.lock = FALSE], [p EXCEPT !.gpu = FALSE],
     [p EXCEPT !.gpu = FALSE, !.map = FALSE]}
Holds(m, p) == (p.gpu => m.gpu) /\ (p.lock => m.lock) /\ (p.map => m.map)

ContextMade(p, m) == IF p.flash THEN m.flash ELSE m.plain

(* With flash attention, or else without and with an F16 cache. *)
Loads(p, m) ==
    /\ \E a \in Attempts(p) : Holds(m, a)
    /\ \/ ContextMade(ContextParams(p), m)
       \/ p.flash /\ ContextMade([p EXCEPT !.flash = FALSE, !.quant = FALSE], m)

(* Weights beyond the VRAM leave the GPU as many layers as it has room for. *)
LoadNative(p, m) == Loads([p EXCEPT !.gpu = @ /\ m.layers], m)

(* A pointer to a RuntimeB that has loaded its model, or null, by way of a  *)
(* library that may be missing or without the symbols.                     *)
Instance(p, m) == IF LoadNative(p, m) THEN "ready" ELSE "none"
Linked(p, m) == IF m.linked THEN Instance(p, m) ELSE "none"

ByHub == {Linked(Guarded(p, m), m) : p \in OfCaller, m \in Machine}
ByDispatcher == {Linked(p, m) : p \in OfSystem, m \in Machine}

(* resize_context frees the context before it makes the new one, at the    *)
(* first attempt or not at all.                                            *)
Resized ==
    {IF ContextMade(ContextParams(p), m) THEN "ready" ELSE "lost" :
       p \in OfSystem, m \in Machine}

-----------------------------------------------------------------------------
LinkInit == Init /\ engine = "none"

LoadModel ==
    /\ engine = "none"
    /\ engine' \in ByHub \cup ByDispatcher
    /\ UNCHANGED vars

(* The router's Backend is empty, or passes a call on: through the hub, the *)
(* manager and the kernel to the engine.                                   *)
Reached == engine = "ready"
CallStream == Reached /\ Stream /\ UNCHANGED engine
CallCache == Reached /\ Cache /\ UNCHANGED engine

(* No kernel exports cluaiz_kernel_inject_signals, and a RuntimeB without a *)
(* Lucebox bridge, which nothing attaches, skips them.                     *)
InjectSignals == pc = "idle" /\ Reached /\ UNCHANGED linkVars

(* RuntimeB.apply_booster; SovereignEngine's does nothing.  What was       *)
(* remembered of the old context stays.                                    *)
ApplyBooster ==
    /\ pc = "idle" /\ api = "trait" /\ engine # "none"
    /\ engine' \in Resized
    /\ kv' = Empty
    /\ UNCHANGED <<api, lastPrefilled, file, call, history>>

Ended ==
    /\ engine' = "none"
    /\ kv' = Empty /\ lastPrefilled' = << >>
    /\ UNCHANGED <<api, file, call, history>>

(* The engine is dropped, its context and its weights with it; a dump      *)
(* stays on disk.                                                          *)
Drop == pc = "idle" /\ engine # "none" /\ Ended

(* A dump and a load look whether there is a context; a generation and a   *)
(* prefill hand the null pointer to llama.cpp, and the process is gone.    *)
NullContext == pc = "idle" /\ engine = "lost" /\ Ended

LinkNext ==
    \/ LoadModel \/ CallStream \/ CallCache \/ InjectSignals
    \/ ApplyBooster \/ Drop \/ NullContext

LinkSpec == LinkInit /\ [][LinkNext]_linkVars
=============================================================================
