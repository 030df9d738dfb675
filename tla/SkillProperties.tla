-------------------------- MODULE SkillProperties --------------------------
(* What the compiled KV caches of SkillCache have to be. *)
EXTENDS SkillCache

(* Every variable has a value the code can give it. *)
SkillTypeOK ==
    /\ md \in 0..MaxEdits
    /\ schema \in Models \cup {None}
    /\ router \in Models \cup {None}
    /\ kv \in [Models -> File \cup {None}]
    /\ temp \in [Models -> State \cup {None}]
    /\ locks \subseteq Models
    /\ comp \in [Compilers -> Compilation \cup {None}]
    /\ index \in Indices
    /\ req \in Request
    /\ changes \in 0..MaxChanges

(***************************************************************************)
(* A path is marked in COMPILATION_LOCKS exactly while one task compiles   *)
(* it: no two tasks write the files of a path, and none leaves its mark.   *)
(***************************************************************************)
OneCompilerPerPath ==
    /\ locks = {comp[c].path : c \in Active}
    /\ \A c, d \in Active : c # d => comp[c].path # comp[d].path

(***************************************************************************)
(* A state loaded for a prompt is one the engine in the router made from   *)
(* the text as it is -- unless the text or the active model changed while  *)
(* the prompt was served or the cache compiled, or a crash left a dump     *)
(* behind, or the active model is not the router's, or enable_kvcache is   *)
(* off.                                                                    *)
(***************************************************************************)
HonestHit ==
    (/\ req.pc = "ready" /\ ~req.disturbed /\ ~req.off /\ schema = router
     /\ req.kv # None /\ req.kv.clean)
        => req.kv.by = router /\ req.kv.ver = md /\ req.kv.whole

(***************************************************************************)
(* "Inject the skill description into responses so the prompt prefix       *)
(* matches the KV prefill!": a loaded state was made from the text before  *)
(* the prompt.                                                             *)
(***************************************************************************)
PrefixMatches ==
    req.pc = "ready" /\ req.kv # None /\ req.text # None
        => req.text = req.kv.ver

(* A prompt is answered or refused, also when it waits for a compilation. *)
EveryPromptEnds == req.pc # "idle" ~> req.pc = "idle"
=============================================================================
