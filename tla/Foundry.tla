------------------------------- MODULE Foundry -------------------------------
(***************************************************************************)
(* The neural foundry's components: the hub installer, the master registry *)
(* in registry.yaml and registry.bin, the executor, and the commands that  *)
(* change a component's manifest.                                          *)
(*                                                                         *)
(* Each operation loads the registry and may write it, and nothing locks   *)
(* it: what an operation still has to do is the sequence `todo' of its     *)
(* steps, and those of two processes interleave.  A manifest is cached in  *)
(* a .bin beside it, which the executor uses while it is not older.        *)
(***************************************************************************)
EXTENDS Naturals, Sequences, FiniteSets

CONSTANTS Workers,      \* processes: command line, terminal, daemon
          Kind,         \* Kind[c]: "mcp", "plugin" or "skill"
          MaxJobs,      \* bound: operations
          MaxJobCrashes, \* bound
          NoFile,       \* no such file
          Garbled,      \* emptied and not filled
          Foreign,      \* a cache of the installer, of another type
          Unsure        \* more than one outcome is right

ASSUME FoundryAssumption ==
    /\ MaxJobs \in Nat /\ MaxJobCrashes \in Nat
    /\ NoFile # Garbled /\ \A s \in SUBSET (DOMAIN Kind) : s \notin {NoFile, Garbled}
    /\ {NoFile, Garbled, Foreign, Unsure} \cap 0..1 = {} /\ Unsure \notin BOOLEAN

VARIABLES
    reg,     \* reg[f]: the registry in registry.yaml and in registry.bin
    dir,     \* dir[c]: the component's directory: none, part, whole
    man,     \* man[c]: the permission in its manifest
    cache,   \* cache[c]: the manifest's .bin, and whether it is not older
    job,     \* job[p]: what p is doing
    told,    \* history: told[c], what the operations reported of c
    met,     \* history: two operations ran at the same time
    jobs,    \* operations begun
    lost     \* crashes

foundryVars == <<reg, dir, man, cache, job, told, met, jobs, lost>>

Comp == DOMAIN Kind
Shipped == 1        \* the permission that a package comes with
Permission == 0..1
Readable(x) == x \notin {NoFile, Garbled}
NoJob == [op |-> "none", c |-> "none", todo |-> <<>>, mem |-> {}, val |-> Shipped,
          alone |-> TRUE]

Busy(p) == job[p].todo # <<>>
Doing(p, step) == Busy(p) /\ Head(job[p].todo) = step
Later(p) == Tail(job[p].todo)
Subject(p) == job[p].c

Files == <<reg, dir, man, cache>>
Counters == <<met, jobs, lost>>

(* MasterRegistry::save: the YAML file, then the binary one. *)
SaveBin == <<"openBin", "fillBin">>
Save == <<"openYaml", "fillYaml">> \o SaveBin

(* The operations, from their first step. *)
Program(op) ==
    CASE op = "install" -> <<"fetch", "unpack", "load", "cacheManifest", "register">>
      [] op = "remove"  -> <<"delete", "deleted", "load", "deregister">>
      [] op = "execute" -> <<"load", "resolve", "manifest">>
      [] op \in {"pipe", "cli", "http"} ->
             <<"edit", "openMan", "fillMan">> \o (IF op = "http" THEN <<>> ELSE <<"uncache">>)

FoundryInit ==
    /\ reg = [f \in {"yaml", "bin"} |-> NoFile]
    /\ dir = [c \in Comp |-> "none"]
    /\ man = [c \in Comp |-> NoFile]
    /\ cache = [c \in Comp |-> [val |-> NoFile, fresh |-> FALSE]]
    /\ job = [p \in Workers |-> NoJob]
    /\ told = [c \in Comp |-> [listed |-> FALSE, perm |-> Unsure]]
    /\ met = FALSE /\ jobs = 0 /\ lost = 0

Doubt(c) == [told EXCEPT ![c] = [listed |-> Unsure, perm |-> Unsure]]
DoubtAll == [c \in Comp |-> [listed |-> Unsure, perm |-> Unsure]]
Alone(p) == \A q \in Workers \ {p} : ~Busy(q)

(* Operations that overlap make each other's outcome, and all, unsure. *)
BeginJob(p) ==
    /\ ~Busy(p) /\ jobs < MaxJobs
    /\ \E op \in {"install", "remove", "execute", "pipe", "cli", "http"}, c \in Comp,
          v \in Permission :
        /\ op \notin {"pipe", "cli", "http"} => v = Shipped
        /\ job' = [q \in Workers |->
             IF q = p THEN [op |-> op, c |-> c, todo |-> Program(op), mem |-> {}, val |-> v,
                            alone |-> Alone(p)]
             ELSE [job[q] EXCEPT !.alone = ~Busy(q)]]
    /\ jobs' = jobs + 1
    /\ told' = IF Alone(p) THEN told ELSE DoubtAll
    /\ met' = (met \/ ~Alone(p))
    /\ UNCHANGED lost /\ UNCHANGED Files

(* What the user may believe when p reports success, or failure.           *)
Report(p, res) ==
    LET c == Subject(p) IN
    IF ~job[p].alone THEN told
    ELSE CASE job[p].op = "install" /\ res = "ok" ->
                  [told EXCEPT ![c] = [listed |-> Kind[c] # "skill", perm |-> Shipped]]
           [] job[p].op = "install" /\ res # "ok" ->
                  [told EXCEPT ![c].perm = Unsure]
           [] job[p].op = "remove" /\ res = "ok" ->
                  [told EXCEPT ![c] = [listed |-> FALSE, perm |-> Unsure]]
           [] job[p].op \in {"pipe", "cli", "http"} /\ res = "ok" ->
                  [told EXCEPT ![c].perm = job[p].val]
           [] OTHER -> told

Reported(p, res) ==
    /\ job' = [job EXCEPT ![p] = NoJob]
    /\ told' = Report(p, res)

Goto(p, todo) ==
    IF todo = <<>> THEN Reported(p, "ok")
    ELSE job' = [job EXCEPT ![p].todo = todo] /\ UNCHANGED told

-----------------------------------------------------------------------------
(***************************************************************************)
(* MasterRegistry                                                          *)
(***************************************************************************)
(* sync_with_filesystem drops what has no directory.                       *)
Installed == {c \in Comp : dir[c] # "none"}

Loaded(p, names, writes) ==
    LET sync == IF names \subseteq Installed THEN <<>> ELSE Save IN
    /\ job' = [job EXCEPT ![p].mem = names \cap Installed,
                          ![p].todo = sync \o writes \o Later(p)]
    /\ UNCHANGED told

\* Mutant of Load: without a binary file it starts again from the default.
LoadOrDefault(p) ==
    /\ Doing(p, "load")
    /\ \/ Readable(reg["bin"]) /\ Loaded(p, reg["bin"], <<>>)
       \/ ~Readable(reg["bin"]) /\ Loaded(p, {}, Save)
    /\ UNCHANGED Files /\ UNCHANGED Counters

(* What the YAML file says: a document without text is a registry without  *)
(* components, as every field of it has a default.                         *)
InYaml == IF Readable(reg["yaml"]) THEN reg["yaml"] ELSE {}

(* The binary file first, then the YAML file, then the default.            *)
Load(p) ==
    /\ Doing(p, "load")
    /\ \/ Readable(reg["bin"]) /\ Loaded(p, reg["bin"], <<>>)
       \/ ~Readable(reg["bin"]) /\ reg["yaml"] # NoFile /\ Loaded(p, InYaml, SaveBin)
       \/ ~Readable(reg["bin"]) /\ reg["yaml"] = NoFile /\ Loaded(p, {}, Save)
    /\ UNCHANGED Files /\ UNCHANGED Counters

Put(p, step, f, x) ==
    /\ Doing(p, step)
    /\ reg' = [reg EXCEPT ![f] = x]
    /\ Goto(p, Later(p))
    /\ UNCHANGED <<dir, man, cache>> /\ UNCHANGED Counters

WriteRegistry(p) ==
    \/ Put(p, "openYaml", "yaml", Garbled) \/ Put(p, "fillYaml", "yaml", job[p].mem)
    \/ Put(p, "openBin", "bin", Garbled) \/ Put(p, "fillBin", "bin", job[p].mem)

(* register_component: it knows no skills, and the error is ignored.       *)
Register(p) ==
    /\ Doing(p, "register")
    /\ IF Kind[Subject(p)] = "skill" THEN Reported(p, "ok")
       ELSE /\ job' = [job EXCEPT ![p].mem = @ \cup {Subject(p)}, ![p].todo = Save]
            /\ UNCHANGED told
    /\ UNCHANGED Files /\ UNCHANGED Counters

(* deregister_component: not found, which is ignored, or saved.            *)
Deregister(p) ==
    /\ Doing(p, "deregister")
    /\ IF Subject(p) \notin job[p].mem THEN Reported(p, "ok")
       ELSE /\ job' = [job EXCEPT ![p].mem = @ \ {Subject(p)}, ![p].todo = Save]
            /\ UNCHANGED told
    /\ UNCHANGED Files /\ UNCHANGED Counters

-----------------------------------------------------------------------------
(***************************************************************************)
(* HubInstaller                                                            *)
(***************************************************************************)
(* The package, from the registry of the hub or from the repository.       *)
Fetch(p) ==
    /\ Doing(p, "fetch")
    /\ Reported(p, "failed") \/ Goto(p, Later(p))
    /\ UNCHANGED Files /\ UNCHANGED Counters

(* tar writes into the directory as it is, and gives the files the times   *)
(* of the archive: a cache of before is not older.  When it fails, what it *)
(* has extracted stays.                                                    *)
Unpack(p) ==
    LET c == Subject(p) IN
    /\ Doing(p, "unpack")
    /\ \/ /\ dir' = [dir EXCEPT ![c] = "whole"]
          /\ man' = [man EXCEPT ![c] = Shipped]
          /\ Goto(p, Later(p))
       \/ /\ dir' = [dir EXCEPT ![c] = IF @ = "none" THEN "part" ELSE @]
          /\ man' \in {man, [man EXCEPT ![c] = Shipped]}
          /\ Reported(p, "failed")
    /\ UNCHANGED <<reg, cache>> /\ UNCHANGED Counters

(* The installer's manifest-<type>.bin does not parse as an executor's.    *)
CacheManifest(p) ==
    LET c == Subject(p) IN
    /\ Doing(p, "cacheManifest")
    /\ cache' = IF Readable(man[c]) THEN [cache EXCEPT ![c] = [val |-> Foreign, fresh |-> TRUE]]
                ELSE cache
    /\ Goto(p, Later(p))
    /\ UNCHANGED <<reg, dir, man>> /\ UNCHANGED Counters

(* remove_component: remove_dir_all takes a while, and may fail half-way,  *)
(* which is ignored.                                                       *)
Delete(p) ==
    LET c == Subject(p) IN
    /\ Doing(p, "delete")
    /\ IF dir[c] = "none" THEN Reported(p, "failed") /\ UNCHANGED <<dir, man>>
       ELSE /\ dir' = [dir EXCEPT ![c] = "part"]
            /\ man' \in {man, [man EXCEPT ![c] = NoFile]}
            /\ Goto(p, Later(p))
    /\ UNCHANGED <<reg, cache>> /\ UNCHANGED Counters

Deleted(p) ==
    LET c == Subject(p) IN
    /\ Doing(p, "deleted")
    /\ \/ UNCHANGED <<dir, man, cache>>
       \/ /\ dir' = [dir EXCEPT ![c] = "none"]
          /\ man' = [man EXCEPT ![c] = NoFile]
          /\ cache' = [cache EXCEPT ![c] = [val |-> NoFile, fresh |-> FALSE]]
    /\ Goto(p, Later(p))
    /\ UNCHANGED reg /\ UNCHANGED Counters

-----------------------------------------------------------------------------
(***************************************************************************)
(* UnifiedExecutor                                                         *)
(***************************************************************************)
(* The entry's domain is "plugin/x", where the files are in "plugins/x":   *)
(* only of an MCP server the two are the same.                             *)
Resolves(c) == Kind[c] = "mcp"

(* Nothing sets an entry's `enabled' to false. *)
Resolve(p) ==
    LET c == Subject(p) IN
    /\ Doing(p, "resolve")
    /\ IF c \in job[p].mem /\ Resolves(c) /\ dir[c] # "none"
         THEN Goto(p, Later(p))
         ELSE Reported(p, "failed")
    /\ UNCHANGED Files /\ UNCHANGED Counters

(* The mark at the place of the cache that the executor accepts.           *)
CacheUsed(c) == cache[c].fresh /\ cache[c].val \in Permission

(* load_manifest of a component without settings: the cache, else the YAML *)
(* file, of which it then writes the cache.  It looks at neither when the  *)
(* YAML file is not there, and an emptied one lacks the required fields.   *)
ReadManifest(p) ==
    LET c == Subject(p) IN
    /\ Doing(p, "manifest")
    /\ \/ CacheUsed(c) /\ man[c] # NoFile /\ UNCHANGED told
            /\ job' = [job EXCEPT ![p].val = cache[c].val, ![p].todo = <<"run">>]
       \/ ~CacheUsed(c) /\ Readable(man[c]) /\ UNCHANGED told
            /\ job' = [job EXCEPT ![p].val = man[c], ![p].todo = <<"openCache", "fillCache", "run">>]
       \/ (man[c] = Garbled => ~CacheUsed(c)) /\ ~Readable(man[c]) /\ Reported(p, "failed")
    /\ UNCHANGED Files /\ UNCHANGED Counters

WriteCache(p) ==
    LET c == Subject(p) IN
    /\ Doing(p, "openCache") \/ Doing(p, "fillCache")
    /\ cache' = IF dir[c] = "none" THEN cache
                ELSE [cache EXCEPT ![c] =
                         [val |-> IF Doing(p, "openCache") THEN Garbled ELSE job[p].val,
                          fresh |-> TRUE]]
    /\ Goto(p, Later(p))
    /\ UNCHANGED <<reg, dir, man>> /\ UNCHANGED Counters

Run(p) ==
    /\ Doing(p, "run")
    /\ Reported(p, IF dir[Subject(p)] = "whole" THEN "ran" ELSE "failed")
    /\ UNCHANGED Files /\ UNCHANGED Counters

-----------------------------------------------------------------------------
(***************************************************************************)
(* Changes of a manifest, by the pipe, the command line and the server     *)
(***************************************************************************)
(* The pipe looks in "plugin/", the others in "mcps/", which nobody makes. *)
Reaches(op, c) == IF op = "pipe" THEN Kind[c] = "mcp" ELSE Kind[c] # "mcp"

(* The server needs a mapping to change.  The pipe takes an emptied        *)
(* manifest for null and writes that, the command line writes no line, and *)
(* both go on: the manifest stays without a permission.                    *)
Edit(p) ==
    LET c == Subject(p)
        found == Reaches(job[p].op, c) /\ dir[c] # "none"
        vain == man[c] = Garbled /\ job[p].op # "http"
    IN
    /\ Doing(p, "edit")
    /\ \/ found /\ Readable(man[c]) /\ Goto(p, Later(p))
       \/ found /\ vain
            /\ Goto(p, (IF job[p].op = "pipe" THEN <<"openMan">> ELSE <<>>) \o <<"openMan", "uncache">>)
       \/ ~(found /\ (Readable(man[c]) \/ vain)) /\ Reported(p, "failed")
    /\ UNCHANGED Files /\ UNCHANGED Counters

(* The file becomes newer than its cache, unless the clock did not tick.   *)
(* A directory that is gone makes the write fail.                          *)
WriteManifest(p) ==
    LET c == Subject(p) IN
    /\ Doing(p, "openMan") \/ Doing(p, "fillMan")
    /\ IF dir[c] = "none" THEN Reported(p, "failed") /\ UNCHANGED <<man, cache>>
       ELSE /\ man' = [man EXCEPT ![c] = IF Doing(p, "openMan") THEN Garbled ELSE job[p].val]
            /\ \E tick \in BOOLEAN : cache' = [cache EXCEPT ![c].fresh = @ /\ ~tick]
            /\ Goto(p, Later(p))
    /\ UNCHANGED <<reg, dir>> /\ UNCHANGED Counters

\* Mutant of Uncache: the cache is left to its time stamp.
UncacheNever(p) ==
    /\ Doing(p, "uncache")
    /\ Goto(p, Later(p))
    /\ UNCHANGED Files /\ UNCHANGED Counters

Uncache(p) ==
    /\ Doing(p, "uncache")
    /\ cache' = [cache EXCEPT ![Subject(p)] = [val |-> NoFile, fresh |-> FALSE]]
    /\ Goto(p, Later(p))
    /\ UNCHANGED <<reg, dir, man>> /\ UNCHANGED Counters

(* What is torn stays torn; of the operation's component nothing is sure.  *)
JobCrash(p) ==
    /\ Busy(p) /\ lost < MaxJobCrashes
    /\ lost' = lost + 1
    /\ job' = [job EXCEPT ![p] = NoJob]
    /\ told' = IF job[p].op = "execute" THEN told ELSE Doubt(Subject(p))
    /\ UNCHANGED <<met, jobs>> /\ UNCHANGED Files

FoundryNext ==
    \E p \in Workers :
        \/ BeginJob(p) \/ Load(p) \/ WriteRegistry(p) \/ Register(p) \/ Deregister(p)
        \/ Fetch(p) \/ Unpack(p) \/ CacheManifest(p) \/ Delete(p) \/ Deleted(p)
        \/ Resolve(p) \/ ReadManifest(p) \/ WriteCache(p) \/ Run(p)
        \/ Edit(p) \/ WriteManifest(p) \/ Uncache(p) \/ JobCrash(p)
=============================================================================
