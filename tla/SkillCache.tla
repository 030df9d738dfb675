----------------------------- MODULE SkillCache -----------------------------
(***************************************************************************)
(* The compiled KV caches of a skill: CoreRouter::generate_stream and      *)
(* CoreFoundry::process_intent (Inference-engine/engines).                 *)
(*                                                                         *)
(* A skill has a text (SKILL.md) and, for each model, a cache file with    *)
(* the state of that model's engine after the text.  A prompt that matches *)
(* the skill uses the cache when it is there and compiles it, in its own   *)
(* thread or in a background task, when it is not.  Requests, compilers,   *)
(* the user who edits the text or switches the model, other processes that *)
(* write Permission.json, and crashes interleave.  COMPILATION_LOCKS is    *)
(* all that keeps two compilers of a file apart.                           *)
(***************************************************************************)
EXTENDS Naturals, FiniteSets, SkillIndex

CONSTANTS Models,    \* the chat models
          Compilers, \* slots for compilations in progress
          MaxEdits,  \* bound: how often the text of the skill is edited
          MaxChanges \* bound: edits, changes of the model, crashes together

\* None is also an absent cache, an empty backend, nothing loaded.

ASSUME SkillCacheAssumption ==
    MaxEdits \in Nat /\ MaxChanges \in Nat /\ None \notin Models \cup EmbModels

VARIABLES
    md,     \* the version of SKILL.md
    schema, \* active chat model in Permission.json, or None
    router, \* the model of the router's engine, or None
    kv,     \* kv[m]: <model>.kvcache.safetensors
    temp,   \* temp[m]: <model>.kvcache.temp_state
    locks,  \* COMPILATION_LOCKS, in the memory of the process
    comp,   \* comp[c]: a compilation in progress, or None
    index,  \* the semantic index of the skill (SkillIndex)
    req,    \* the prompt being served: one at a time, the router is locked
    changes \* how often the user, another process or a crash interfered

disk == <<kv, temp>>
world == <<md, schema, router, index, changes>>
vars == <<md, schema, router, kv, temp, locks, comp, index, req, changes>>

(***************************************************************************)
(* A state of an engine: which model made it, from which text, whether it  *)
(* is complete, and (history) whether the model was that of its file and   *)
(* nothing was changed from its request to the end of its compilation, and *)
(* no crash left it behind.                                                *)
(***************************************************************************)
State == [by : Models, ver : 0..MaxEdits, whole : BOOLEAN, clean : BOOLEAN]

(* `newer': modified since SKILL.md was. *)
File == [by : Models, ver : 0..MaxEdits, whole : BOOLEAN, clean : BOOLEAN,
         newer : BOOLEAN]

Compilation ==
    [path : Models, sync : BOOLEAN, state : State,
     pc : {"spawned", "dumping", "dumped", "read", "writing"}]

(***************************************************************************)
(* A request: the model whose files it uses, the text it was given, what   *)
(* it put before the prompt (text) and into the engine (kv), whether it    *)
(* found enable_kvcache off, and whether (history) somebody changed the    *)
(* text or the model since it began.                                       *)
(***************************************************************************)
Request ==
    [pc : {"idle", "check", "map", "body", "look", "lock", "pause", "await",
           "unpack", "load", "warm", "warmUnpack", "warmLoad", "ready"},
     model : Models \cup {None}, ver : 0..MaxEdits,
     text : (0..MaxEdits) \cup {None}, kv : State \cup {None},
     off : BOOLEAN, disturbed : BOOLEAN]

(* Nothing is not something. *)
ASSUME NoneAssumption == None \notin State \cup File \cup Compilation \cup Vector

Idle(m) == [pc |-> "idle", model |-> m, ver |-> 0, text |-> None, kv |-> None,
            off |-> FALSE, disturbed |-> FALSE]

(***************************************************************************)
(* Either a chat model is active and no embedding model is, or the other   *)
(* way round: the files of the two have only their directory in common,    *)
(* and are explored one after the other.                                   *)
(***************************************************************************)
Init ==
    /\ md = 0
    /\ \/ schema \in Models /\ index = NewIndex(None)
       \/ schema = None /\ \E e \in EmbModels : index = NewIndex(e)
    /\ router \in IF schema = None THEN {None} ELSE Models \cup {None}
    /\ kv = [m \in Models |-> None] /\ temp = [m \in Models |-> None]
    /\ locks = {}
    /\ comp = [c \in Compilers |-> None]
    /\ req = Idle(schema)
    /\ changes = 0

Active == {c \in Compilers : comp[c] # None}
AsState(f) == [by |-> f.by, ver |-> f.ver, whole |-> f.whole, clean |-> f.clean]
AsFile(s, whole) == [by |-> s.by, ver |-> s.ver, clean |-> s.clean,
                     whole |-> whole /\ s.whole, newer |-> TRUE]
Goto(pc) == req' = [req EXCEPT !.pc = pc]
GotoWarm == req' = [req EXCEPT !.pc = "warm", !.ver = 0]

-----------------------------------------------------------------------------
(* process_intent: a prompt, and the file of the active chat model *)

(* A prompt matches the skill, or goes to the engine as it is -- also when *)
(* no chat model is active.  The index is brought up to date first.        *)
Prompt ==
    /\ req.pc = "idle"
    /\ \/ schema # None /\ req' = [Idle(schema) EXCEPT !.pc = "check"]
       \/ req' = [Idle(schema) EXCEPT !.pc = "ready"]
    /\ index' \in Indexed(index)
    /\ UNCHANGED <<md, schema, router, changes, disk, locks, comp>>

(* With enable_kvcache off the text goes before the prompt, and that is    *)
(* all: the warm load below does not look at the setting.                  *)
TextPayload ==
    /\ req.pc = "check"
    /\ req' = [req EXCEPT !.pc = "warm", !.text = md, !.off = TRUE]
    /\ UNCHANGED <<world, disk, locks, comp>>

\* Mutant of Invalid: the modification times are not compared.
AnyAge(f) == FALSE

(* A cache older than the text is removed; so is an empty one, which is    *)
(* what a cache is at first while it is written.                           *)
Invalid(f) == ~f.newer
CheckCache ==
    /\ req.pc = "check"
    /\ LET f == kv[req.model] IN
       \/ /\ f = None /\ Goto("body") /\ UNCHANGED kv
       \/ /\ f # None /\ (Invalid(f) \/ ~f.whole)
          /\ kv' = [kv EXCEPT ![req.model] = None]
          /\ Goto("body")
       \/ /\ f # None /\ ~Invalid(f) /\ Goto("map") /\ UNCHANGED kv
    /\ UNCHANGED <<world, temp, locks, comp>>

(* A cache that is there is mapped for cluaiz_kernel_inject_signals.  No    *)
(* kernel exports that: the signal is dropped, the warm load is what loads. *)
MapCache ==
    /\ req.pc = "map"
    /\ Goto("warm")
    /\ UNCHANGED <<world, disk, locks, comp>>

(* extract_skill_body: the text the cache is to be compiled from. *)
ReadBody ==
    /\ req.pc = "body"
    /\ req' = [req EXCEPT !.pc = "look", !.ver = md]
    /\ UNCHANGED <<world, disk, locks, comp>>

-----------------------------------------------------------------------------
(* generate_stream: the missing cache *)

\* Mutant of Look: nobody asks whether the path is being compiled.
LookAway ==
    /\ req.pc = "look"
    /\ \/ req' = [req EXCEPT !.pc = "lock", !.text = req.ver]
       \/ Goto("pause")
    /\ UNCHANGED <<world, disk, locks, comp>>

(* is_compiling is read under one lock, and acted on under another.  The   *)
(* text that fits the context is put before the prompt at once.            *)
Look ==
    /\ req.pc = "look"
    /\ \/ /\ req.model \in locks /\ GotoWarm
       \/ /\ req.model \notin locks
          /\ \/ req' = [req EXCEPT !.pc = "lock", !.text = req.ver]
             \/ Goto("pause")
    /\ UNCHANGED <<world, disk, locks, comp>>

Start(sync) ==
    /\ Active # Compilers
    /\ locks' = locks \cup {req.model}
    /\ comp' = [comp EXCEPT ![CHOOSE c \in Compilers : comp[c] = None] =
           [path |-> req.model, sync |-> sync, pc |-> "spawned",
            state |-> [by |-> router, ver |-> req.ver, whole |-> FALSE,
                       clean |-> router = req.model /\ ~req.disturbed]]]

(* Zero-delay: the cache is compiled by a background task. *)
Background ==
    /\ req.pc = "lock"
    /\ GotoWarm
    /\ \/ router # None /\ Start(FALSE)
       \/ router = None /\ UNCHANGED <<locks, comp>>
    /\ UNCHANGED <<world, disk>>

(* Agentic pause: the request waits for the compilation. *)
Pause ==
    /\ req.pc = "pause"
    /\ \/ router # None /\ Goto("await") /\ Start(TRUE)
       \/ router = None /\ GotoWarm /\ UNCHANGED <<locks, comp>>
    /\ UNCHANGED <<world, disk>>

-----------------------------------------------------------------------------
(* A compilation: CPU engine, prefill, dump, read, serialize *)

Unlocked(c) == locks \ {comp[c].path}

\* Mutant of Ends: a compilation that fails does not wake its request.
EndsSilently(c, ok) ==
    /\ comp' = [comp EXCEPT ![c] = None]
    /\ locks' = Unlocked(c)
    /\ IF comp[c].sync /\ ok THEN Goto("unpack") \/ GotoWarm ELSE UNCHANGED req

(* The guard goes, whatever happened; a request that waited goes on.  The  *)
(* cache is loaded only if the engine of the router has room for it.       *)
Ends(c, ok) ==
    /\ comp' = [comp EXCEPT ![c] = None]
    /\ locks' = Unlocked(c)
    /\ IF comp[c].sync
       THEN \/ ok /\ Goto("unpack")
            \/ GotoWarm
       ELSE UNCHANGED req

CompileFails(c) ==
    /\ comp[c] # None /\ comp[c].pc # "writing"
    /\ Ends(c, FALSE)
    /\ UNCHANGED <<world, disk>>

(* The engine is loaded from the path taken when the task was made.  Only  *)
(* the index makes the .cache directory: without it there is no dump.      *)
Dump(c) ==
    /\ comp[c] # None /\ comp[c].pc = "spawned" /\ index.dir
    /\ comp' = [comp EXCEPT ![c].pc = "dumping"]
    /\ temp' = [temp EXCEPT ![comp[c].path] = comp[c].state]
    /\ UNCHANGED <<world, kv, locks, req>>

(* A router that loads a cache of the path meanwhile writes the same file: *)
(* the dump is gone, or a mixture.                                         *)
DumpEnds(c) ==
    /\ comp[c] # None /\ comp[c].pc = "dumping"
    /\ comp' = [comp EXCEPT ![c].pc = "dumped", ![c].state.whole = TRUE]
    /\ temp' = [temp EXCEPT ![comp[c].path] =
                    IF @ = None THEN None
                    ELSE [comp[c].state EXCEPT !.whole = (temp[comp[c].path] = comp[c].state)]]
    /\ UNCHANGED <<world, kv, locks, req>>

(* What is read back is what the file holds now. *)
ReadDump(c) ==
    /\ comp[c] # None /\ comp[c].pc = "dumped"
    /\ LET t == temp[comp[c].path] IN
       IF t = None
       THEN Ends(c, FALSE)
       ELSE /\ comp' = [comp EXCEPT ![c].pc = "read",
                    ![c].state = [t EXCEPT !.clean = @ /\ comp[c].state.clean]]
            /\ UNCHANGED <<locks, req>>
    /\ UNCHANGED <<world, disk>>

Serialize(c) ==
    /\ comp[c] # None /\ comp[c].pc = "read" /\ index.dir
    /\ comp' = [comp EXCEPT ![c].pc = "writing"]
    /\ kv' = [kv EXCEPT ![comp[c].path] = AsFile(comp[c].state, FALSE)]
    /\ UNCHANGED <<world, temp, locks, req>>

(* A file that was removed while it was written stays removed.  The dump   *)
(* is removed only when the cache was written.                             *)
SerializeEnds(c) ==
    /\ comp[c] # None /\ comp[c].pc = "writing"
    /\ LET p == comp[c].path IN
       \/ /\ kv' = [kv EXCEPT ![p] = IF @ = None THEN None
                                     ELSE AsFile(comp[c].state, TRUE)]
          /\ temp' = [temp EXCEPT ![p] = None]
          /\ Ends(c, TRUE)
       \/ Ends(c, FALSE) /\ UNCHANGED disk
    /\ UNCHANGED world

-----------------------------------------------------------------------------
(* Loading a cache into the router's engine *)

(* The state is unpacked from a readable cache into the temp_state file;   *)
(* from a damaged cache nothing is, and the file is left as it is.         *)
Unpacked(m) ==
    temp' = [temp EXCEPT ![m] =
                 IF kv[m] # None /\ kv[m].whole
                 THEN AsState(kv[m]) ELSE @]

Unpack ==
    /\ req.pc = "unpack"
    /\ Unpacked(req.model)
    /\ Goto("load")
    /\ UNCHANGED <<world, kv, locks, comp>>

(* A load that fails, or has nothing whole to load, resets the engine. *)
Load ==
    /\ req.pc = "load"
    /\ \E s \in {None} \cup {temp[req.model]} :
          /\ s # None => s.whole
          /\ req' = [req EXCEPT !.pc = "warm", !.kv = s]
    /\ temp' = [temp EXCEPT ![req.model] = None]
    /\ UNCHANGED <<world, kv, locks, comp>>

(* The active chat model is read again, and its cache, if it is there and  *)
(* not too long for the engine, is loaded without a look at its age.       *)
Warm ==
    /\ req.pc = "warm"
    /\ \/ schema # None /\ kv[schema] # None /\ req' = [req EXCEPT !.pc = "warmUnpack", !.model = schema]
       \/ Goto("ready")
    /\ UNCHANGED <<world, disk, locks, comp>>

WarmUnpack ==
    /\ req.pc = "warmUnpack"
    /\ Unpacked(req.model)
    /\ Goto("warmLoad")
    /\ UNCHANGED <<world, kv, locks, comp>>

(* The text that goes with the state is read again; the file goes. *)
WarmLoad ==
    /\ req.pc = "warmLoad"
    /\ \/ /\ temp[req.model] # None /\ temp[req.model].whole
          /\ req' = [req EXCEPT !.pc = "ready", !.kv = temp[req.model], !.text = md]
       \/ req' = [req EXCEPT !.pc = "ready", !.kv = None]
    /\ temp' = [temp EXCEPT ![req.model] = None]
    /\ UNCHANGED <<world, kv, locks, comp>>

(* The signals are injected and the engine generates, or refuses. *)
Answer ==
    /\ req.pc = "ready"
    /\ req' = Idle(schema)
    /\ UNCHANGED <<world, disk, locks, comp>>

-----------------------------------------------------------------------------
(* The user, other processes, crashes *)

Changed == changes < MaxChanges /\ changes' = changes + 1
Disturb == req' = [req EXCEPT !.disturbed = (req.pc # "idle")]

(* A dump that is there at an edit or a crash is clean no more. *)
LeftBehind ==
    [m \in Models |-> IF temp[m] = None THEN None ELSE [temp[m] EXCEPT !.clean = FALSE]]

EditSkill ==
    /\ Changed
    /\ md < MaxEdits
    /\ md' = md + 1
    /\ kv' = [m \in Models |->
                 IF kv[m] = None THEN None ELSE [kv[m] EXCEPT !.newer = FALSE]]
    /\ comp' = [c \in Compilers |->
                 IF comp[c] = None THEN None ELSE [comp[c] EXCEPT !.state.clean = FALSE]]
    /\ temp' = LeftBehind
    /\ index' = Outdated(index)
    /\ Disturb
    /\ UNCHANGED <<schema, router, locks>>

\* Mutant of SwitchModel: a failed load clears the active model, too.
SwitchClears(m) ==
    /\ Changed
    /\ schema # None
    /\ req.pc = "idle"
    /\ \/ router' = m /\ schema' = m
       \/ router' = None /\ schema' = "none"
    /\ index' \in {index, Requeued(index)}
    /\ UNCHANGED <<md, disk, locks, comp, req>>

(* The dashboard drops the old router, then loads; a load that fails       *)
(* leaves the router empty and Permission.json as it was.                  *)
SwitchModel(m) ==
    /\ Changed
    /\ schema # None
    /\ req.pc = "idle"
    /\ \/ router' = m /\ schema' = m /\ index' = Requeued(index)
       \/ router' = None /\ UNCHANGED <<schema, index>>
    /\ UNCHANGED <<md, disk, locks, comp, req>>

(* pull, run and the HTTP interface write Permission.json on their own. *)
SetActive(m) ==
    /\ Changed
    /\ schema # None
    /\ schema' = m
    /\ Disturb
    /\ UNCHANGED <<md, router, disk, locks, comp, index>>

(* Another embedding model is chosen: the engine and the vector stay. *)
SetEmbeddingModel(e) ==
    /\ Changed
    /\ index.model # None
    /\ index' = [index EXCEPT !.model = e]
    /\ Disturb
    /\ UNCHANGED <<md, schema, router, disk, locks, comp>>

(***************************************************************************)
(* clear_component_cache, from a command or the HTTP interface: with an id *)
(* or with force the directory goes; otherwise the files of every model    *)
(* but the active ones, and a dump left behind stays.                      *)
(***************************************************************************)
ClearCache ==
    /\ Changed
    /\ index' = Wiped(index)
    /\ kv' = [m \in Models |-> None]
    /\ temp' = [m \in Models |-> None]
    /\ UNCHANGED <<md, schema, router, locks, comp, req>>

ClearOrphans ==
    /\ Changed
    /\ index' = OrphansGone(index)
    /\ kv' = [m \in Models |-> IF m = schema THEN kv[m] ELSE None]
    /\ UNCHANGED <<md, schema, router, temp, locks, comp, req>>

(* The files stay; the next process starts with the active model, or with  *)
(* any other that is on disk, or with none.                                *)
Crash ==
    /\ Changed
    /\ \E m \in Models \cup {None} : router' = m
    /\ index' = Restarted(index)
    /\ locks' = {}
    /\ comp' = [c \in Compilers |-> None]
    /\ req' = Idle(schema)
    /\ temp' = LeftBehind
    /\ UNCHANGED <<md, schema, kv>>

-----------------------------------------------------------------------------
Serve ==
    \/ TextPayload \/ CheckCache \/ MapCache \/ ReadBody
    \/ Look \/ Background \/ Pause
    \/ Unpack \/ Load \/ Warm \/ WarmUnpack \/ WarmLoad \/ Answer

Compile(c) ==
    \/ Dump(c) \/ DumpEnds(c) \/ ReadDump(c) \/ Serialize(c) \/ SerializeEnds(c)
    \/ CompileFails(c)

(* The worker of the daemon takes the skill from its queue, or goes on. *)
Daemon ==
    /\ index' \in Worked(index, schema # None \/ index.model # None)
    /\ UNCHANGED <<md, schema, router, changes, disk, locks, comp, req>>

Others ==
    \/ EditSkill \/ ClearCache \/ ClearOrphans \/ Crash
    \/ \E e \in EmbModels : SetEmbeddingModel(e)
    \/ \E m \in Models : SwitchModel(m) \/ SetActive(m)

Next ==
    \/ Others
    \/ Prompt \/ Serve \/ Daemon
    \/ \E c \in Compilers : Compile(c)

Spec == Init /\ [][Next]_vars

(* The router's thread and the task of a compilation go on. *)
FairSpec ==
    /\ Spec
    /\ WF_vars(Serve) /\ WF_vars(Daemon)
    /\ \A c \in Compilers : WF_vars(Compile(c))
=============================================================================
