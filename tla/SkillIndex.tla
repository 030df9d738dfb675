----------------------------- MODULE SkillIndex -----------------------------
(***************************************************************************)
(* The semantic index of a skill: CoreRouter::ensure_skills_indexed,       *)
(* SkillRouter::boot_index, EmbeddingGenerator and the worker of the       *)
(* CompilerDaemon, as operators on the record that SkillCache keeps.       *)
(*                                                                         *)
(* A vector is named by the embedding model that made it.  Its file, which *)
(* is named by the model that was active, lies in the .cache directory of  *)
(* the skill, beside the KV caches.                                        *)
(***************************************************************************)
CONSTANTS EmbModels,   \* the embedding models
          None         \* no file, no vector, no active model

Vector == [by : EmbModels, newer : BOOLEAN, whole : BOOLEAN]

(***************************************************************************)
(* dir: .cache exists.  file[e]: the vector's file for e.  vec: the vector *)
(* in GLOBAL_SKILL_ROUTER.  engine: GLOBAL_EMBEDDING_ENGINE, which is made *)
(* once.  model: vector_models.text of Permission.json.  daemon: the skill *)
(* in the COMPILER_QUEUE, and the model whose vector the worker is making. *)
(***************************************************************************)
Indices ==
    [dir : BOOLEAN, file : [EmbModels -> Vector \cup {None}],
     vec : EmbModels \cup {None}, engine : EmbModels \cup {"cold", "failed"},
     model : EmbModels \cup {None},
     daemon : [pc : {"idle", "queued", "embed", "write"}, model : EmbModels \cup {None}]]

Free == [pc |-> "idle", model |-> None]

NewIndex(model) ==
    [dir |-> FALSE, file |-> [e \in EmbModels |-> None], vec |-> None,
     engine |-> "cold", model |-> model,
     daemon |-> [Free EXCEPT !.pc = "queued"]]

Made(e) == [by |-> e, newer |-> TRUE, whole |-> TRUE]

-----------------------------------------------------------------------------
(***************************************************************************)
(* boot_index: a file older than the text goes, and so does one that gives *)
(* no vector -- unless the router still has one, which it never forgets.   *)
(***************************************************************************)
Booted(i) ==
    LET f == i.file[i.model] IN
    CASE f = None -> i
      [] f # None /\ f.newer /\ f.whole -> [i EXCEPT !.vec = f.by]
      [] f # None /\ f.newer /\ ~f.whole /\ i.vec # None -> i
      [] OTHER -> [i EXCEPT !.file[i.model] = None]

(* init_engine, at the first vector that is asked for and never again. *)
Engines(i) ==
    IF i.engine = "cold" /\ i.model # None THEN {i.model, "failed"} ELSE {i.engine}

(* A vector is made if there is none, or no file, and may fail; the        *)
(* directory is made in any case.                                          *)
Indexed(i) ==
    IF i.model = None THEN {i}
    ELSE LET b == Booted(i) IN
         IF b.vec # None /\ b.file[b.model] # None THEN {b}
         ELSE UNION {LET d == [b EXCEPT !.dir = TRUE, !.engine = g] IN
                     {d} \cup {[d EXCEPT !.vec = e, !.file[b.model] = Made(e)] :
                                  e \in EmbModels \cap {g}} : g \in Engines(b)}

-----------------------------------------------------------------------------
(***************************************************************************)
(* process_skill: the worker makes the directory, asks for the vector's    *)
(* file and makes it with an engine of its own.  It is not in the lock of  *)
(* the router while it writes the file, and makes no KV cache.             *)
(***************************************************************************)
Taken(i, anyModel) ==
    LET d == [i EXCEPT !.dir = @ \/ anyModel, !.daemon = Free] IN
    {d} \cup (IF i.model # None /\ i.file[i.model] = None
              THEN {[d EXCEPT !.daemon = [pc |-> "embed", model |-> i.model]]}
              ELSE {})

Writing(i) ==
    {[i EXCEPT !.daemon = Free]} \cup
    (IF i.dir
     THEN {[i EXCEPT !.daemon.pc = "write",
                     !.file[i.daemon.model] = [Made(i.daemon.model) EXCEPT !.whole = FALSE]]}
     ELSE {})

Written(i) ==
    [i EXCEPT !.daemon = Free, !.vec = i.daemon.model,
              !.file[i.daemon.model] = IF @ = None THEN None ELSE [@ EXCEPT !.whole = TRUE]]

Worked(i, anyModel) ==
    CASE i.daemon.pc = "idle" -> {}
      [] i.daemon.pc = "queued" -> Taken(i, anyModel)
      [] OTHER -> IF i.daemon.pc = "embed" THEN Writing(i) ELSE {Written(i)}

-----------------------------------------------------------------------------
(* The text is edited; the process ends; the caches are cleared. *)
Outdated(i) ==
    [i EXCEPT !.file = [e \in EmbModels |->
        IF i.file[e] = None THEN None ELSE [i.file[e] EXCEPT !.newer = FALSE]]]

Restarted(i) == [i EXCEPT !.vec = None, !.engine = "cold", !.daemon = [Free EXCEPT !.pc = "queued"]]

(* The registry of a loaded router sends its skills to the queue again. *)
Requeued(i) == [i EXCEPT !.daemon.pc = IF @ = "idle" THEN "queued" ELSE @]

Wiped(i) == [i EXCEPT !.dir = FALSE, !.file = [e \in EmbModels |-> None]]

OrphansGone(i) ==
    [i EXCEPT !.file = [e \in EmbModels |-> IF e = i.model THEN i.file[e] ELSE None]]
=============================================================================
