------------------------------ MODULE Governor ------------------------------
(***************************************************************************)
(* HardwareGovernor, PermissionSchema and their callers: the settings that *)
(* several processes (terminal, HTTP daemon, command line) share in files, *)
(* and the VRAM arbiter that each of them has in memory.                   *)
(*                                                                         *)
(* Every store is a JSON file with a binary copy.  Nothing locks them: a   *)
(* process reads a store, changes the copy it read and writes both files,  *)
(* and std::fs::write empties a file before it fills it.  What a process   *)
(* still has to do is the sequence `todo' of its file operations and       *)
(* calls; processes interleave between any two of them, and may crash.     *)
(***************************************************************************)
EXTENDS BoosterRules, Sequences, FiniteSets, FiniteSetsExt

CONSTANTS Procs,      \* the processes
          Engines,    \* engines that request VRAM, and what each requests
          Demand,
          Cap,        \* tokens the model was trained for, and the window
          Written,    \* that its structural_dna.json states, 0 if none
          Changes,    \* what users set: among MenuChanges
          Found,      \* what running processes find of the fingerprint
          MaxOps,     \* bound: operations and edits, of all processes
          MaxCrashes, \* bound
          Absent,     \* no such file
          Torn,       \* emptied and not yet filled, or garbled
          None        \* nothing read, no context

PermControl ==
    [chat : {"none", "m1", "m2"}, embed : {"none", "m1", "m2"}, lazy : {"true", "false"}]

(* A process that was started again has another pid. *)
Pids == Procs \X (0..MaxCrashes)

ASSUME GovernorAssumption ==
    /\ MaxOps \in Nat /\ MaxCrashes \in Nat /\ {Cap, Written} \subseteq Nat
    /\ IsFiniteSet(Engines) /\ Demand \in [Engines -> Nat \ {0}]
    /\ Found \subseteq [{"json", "bin"} -> {"probed", Absent}]
    /\ Absent # Torn /\ None \notin {Absent, Torn}
    /\ {Absent, Torn, None} \cap (BoosterControl \cup PermControl \cup Silicon) = {}
    /\ \A pids \in SUBSET Pids : pids \notin {Absent, Torn, None}

-----------------------------------------------------------------------------
(***************************************************************************)
(* What the menus offer to set: <<store, field, value>>.                   *)
(***************************************************************************)
EngineModes == {<<"boost", "mode", m>> : m \in {"edge", "max_boost", "balance"}}

(* The mode of large machines is offered from 40 GB on. *)
NeuralModes ==
    {<<"boost", "mode", m>> :
        m \in BoosterMode \ (IF Vram < 4000 THEN {"hyper_cluster"} ELSE {})}

ComputeDevices == {<<"boost", "layers", n>> : n \in {-1, 0}}

(* Of the features, those that the rules of the booster tell apart. *)
FeatureStates ==
    ({"boost"} \X {"turbo", "flash", "spec"} \X FeatureState)
        \cup ({"boost"} \X {"reclaim"} \X BOOLEAN)

(* The active models are chosen among those that are downloaded. *)
ActiveModels == {"chat", "embed"}

PermissionChanges ==
    ({"perm"} \X ActiveModels \X {"m1", "m2"}) \cup ({"perm"} \X {"lazy"} \X {"true", "false"})

MenuChanges ==
    EngineModes \cup NeuralModes \cup ComputeDevices \cup FeatureStates
        \cup PermissionChanges

ASSUME ChangesAssumption == \A chg \in Changes : chg \in MenuChanges

VARIABLES
    file,    \* file[<<store, extension>>]
    locked,  \* read-only files
    act,     \* act[p]: what the process is doing
    mem,     \* mem[p]: ARBITER and the context of the loaded model
    gen,     \* gen[p]: how often p was started again, a new pid each time
    crashes, \* history: how often a process crashed
    ok,      \* history: ok[s], the values that s may have; of "sys" the first
    mixed,   \* history: mixed[s], two processes used s at the same time
    ops      \* operations begun

vars == <<file, locked, act, mem, gen, crashes, ok, mixed, ops>>
history == <<gen, crashes, ok, mixed, ops>>

Stores == {"perm", "boost", "sys", "reg"}
Settings == {"perm", "boost"}

Files ==
    ((Settings \cup {"sys"}) \X {"json", "bin"})
        \cup {<<"sys", "json.tmp">>, <<"sys", "bin.tmp">>, <<"reg", "json">>}

PermDefault == [chat |-> "none", embed |-> "none", lazy |-> "true"]

Default(s) == IF s = "perm" THEN PermDefault ELSE BoosterDefault

Pid(p) == <<p, gen[p]>>

Alive(pid) == pid[2] = gen[pid[1]]

Whole(f) == file[f] \notin {Absent, Torn}

Idle == [op |-> "idle", todo |-> <<>>, perm |-> None, boost |-> None,
         sys |-> None, reg |-> None, chg |-> None, base |-> {}]

NewArbiter == [total |-> 0, alloc |-> 0, active |-> [e \in Engines |-> 0],
               held |-> FALSE, dna |-> None, ctx |-> None, booted |-> FALSE]

-----------------------------------------------------------------------------
(***************************************************************************)
(* Programs: sequences of steps <<what, store, extension>>.                *)
(***************************************************************************)
Do(what) == <<what, "", "">>

Put(s, e) == <<<<"open", s, e>>, <<"fill", s, e>>>>

(* PermissionSchema::save, save_booster_settings, persist_sovereign_state *)
SavePlain(s) == Put(s, "json") \o Put(s, "bin")

(* save_system_control *)
SaveAtomic(s) ==
    Put(s, "json.tmp") \o Put(s, "bin.tmp")
        \o <<<<"rename", s, "json">>, <<"rename", s, "bin">>>>

\* Mutant of Persist: both files are opened before either is filled.
PersistTogether ==
    <<Do("probe"), Do("writable"), <<"open", "sys", "json">>, <<"open", "sys", "bin">>,
      <<"fill", "sys", "json">>, <<"fill", "sys", "bin">>, Do("readonly")>>

(* HardwareOrchestrator::start: probe, unlock, write, lock *)
Persist ==
    <<Do("probe"), Do("writable")>> \o SavePlain("sys") \o <<Do("readonly")>>

AutoCalibrate ==
    <<Do("probe")>> \o SaveAtomic("sys")
        \o <<Do("loadBoost")>> \o SavePlain("boost")
        \o <<Do("lock"), Do("total"), Do("unlock")>>

SyncTotal == <<Do("loadSys"), Do("catch"), Do("total")>>

Negotiate ==
    <<Do("lock")>> \o SyncTotal \o <<Do("calibrateIfZero"), Do("fit")>>
        \o <<Do("loadReg"), Do("regContext"), Do("unlock")>>

Ignite == <<Do("loadBoost"), Do("loadSys"), Do("catch"), Do("tune")>>

MainBoot == <<Do("loadSys"), Do("catch")>> \o Ignite

UpdateField == Persist \o <<Do("loadBoost"), Do("change")>> \o Put("sys", "json")

ResetBooster == <<Do("loadSys"), Do("catch"), Do("change")>>

(* A pass of the dashboard's menu; the command of the pipe does the same.  *)
MenuPass == <<Do("loadBoost"), Do("change")>>

UpdateBooster == MenuPass

UpdatePermission == <<Do("loadPerm"), Do("change")>>

BoosterMenu == <<Do("loadBoost"), Do("edit")>>

PermissionMenu == <<Do("loadPerm"), Do("editPerm")>>

Discover ==
    <<Do("loadBoost"), Do("loadSys"), Do("require"), Do("forget"), Do("loadBoost")>>
        \o Negotiate

ApplyBooster == <<Do("loadBoost")>> \o Negotiate

RequestVram ==
    <<Do("lock"), Do("syncIfZero"), Do("loadBoost"), Do("allocate"), Do("unlock")>>

ReleaseVram ==
    <<Do("lock"), Do("free"), Do("loadReg"), Do("regRemove"), Do("unlock")>>

Ps == <<Do("loadReg"), Do("regPurge")>>

Program(op) ==
    CASE op = "boot" -> MainBoot
      [] op = "readPerm" -> <<Do("loadPerm")>>
      [] op = "setPerm" -> UpdatePermission
      [] op = "readBoost" -> <<Do("loadBoost")>>
      [] op = "putBoost" -> <<Do("change")>>
      [] op = "setBoost" -> UpdateBooster
      [] op = "resetBoost" -> ResetBooster
      [] op = "editBoost" -> BoosterMenu
      [] op = "editPerm" -> PermissionMenu
      [] op = "calibrate" -> AutoCalibrate
      [] op = "updateField" -> UpdateField
      [] op = "discover" -> Discover
      [] op = "applyBooster" -> ApplyBooster
      [] op = "request" -> RequestVram
      [] op = "release" -> ReleaseVram
      [] op = "ps" -> Ps

Touches(op) ==
    CASE op \in {"readPerm", "setPerm", "editPerm"} -> {"perm"}
      [] op \in {"readBoost", "putBoost", "setBoost", "editBoost"} -> {"boost"}
      [] op \in {"release", "ps"} -> {"reg"}
      [] op \in {"discover", "applyBooster", "request"} -> {"boost", "sys", "reg"}
      [] op = "idle" -> {}
      [] OTHER -> {"boost", "sys"}

-----------------------------------------------------------------------------
(* discover_from_path: the DNA is believed up to what the weights say.     *)
Truth == IF Written \in 1..Cap THEN Written ELSE Cap

Loaded ==
    LET ctx == Envelope(Optimal("probed"), Vram, 0, Truth) IN
    [NewArbiter EXCEPT !.total = Vram, !.booted = TRUE, !.dna = ctx, !.ctx = ctx]

(* The first start; or processes that run, one with a model, after a reset *)
(* of the booster.  The user may have deleted the fingerprint, or a file   *)
(* of it: there is a recovery scan for that.  The free memory of the card, *)
(* which calibration takes for the total, is the total here.               *)
FirstStart ==
    /\ file = [f \in Files |-> Absent]
    /\ mem = [p \in Procs |-> NewArbiter]

Running ==
    /\ \E truth \in Found :
        file = [f \in Files |->
                CASE f[1] = "boost" -> Optimal("probed")
                  [] f \in {<<"sys", "json">>, <<"sys", "bin">>} -> truth[f[2]]
                  [] OTHER -> Absent]
    /\ LET q == CHOOSE q \in Procs : TRUE IN
        mem = [p \in Procs |-> IF p = q THEN Loaded
                               ELSE [NewArbiter EXCEPT !.booted = TRUE]]

Init ==
    /\ FirstStart \/ Running
    /\ locked = {}
    /\ act = [p \in Procs |-> Idle]
    /\ gen = [p \in Procs |-> 0] /\ crashes = 0
    /\ ok = [s \in Settings \cup {"sys"} |->
                IF s = "sys" THEN {file[<<s, "bin">>]}
                ELSE IF Whole(<<s, "json">>) THEN {file[<<s, "json">>]}
                ELSE {Default(s)}]
    /\ mixed = [s \in Stores |-> FALSE]
    /\ ops = 0

At(p, what) == act[p].todo # <<>> /\ Head(act[p].todo)[1] = what

(* Steps on memory that no other process sees happen at once: one process  *)
(* cannot tell when another did them.                                      *)
Private ==
    {"probe", "orBlank", "catch", "require", "change", "tune", "saved", "lock",
     "unlock", "total", "syncIfZero", "calibrateIfZero", "allocate", "free",
     "fit", "forget", "regAdd", "regRemove", "regContext", "regPurge"}

Settled ==
    \A p \in Procs :
        \/ act[p].op = "idle"
        \/ /\ act[p].todo # <<>>
           /\ Head(act[p].todo)[1] \in Private => At(p, "lock") /\ mem[p].held

(* A step that other processes see. *)
Turn(p, what) == Settled /\ At(p, what)

Target(p) == <<Head(act[p].todo)[2], Head(act[p].todo)[3]>>

(* p has become a, and does `more' before the rest. *)
Continue(p, a, more) ==
    act' = [act EXCEPT ![p] = [a EXCEPT !.todo = more \o Tail(@)]]

(* The error of a call goes to the caller that looks at it. *)
Caught(todo) ==
    LET callers == {i \in 1..Len(todo) : todo[i][1] \in {"catch", "require"}}
    IN  IF callers = {} THEN <<>> ELSE SubSeq(todo, Min(callers), Len(todo))

Throw(p) ==
    act' = [act EXCEPT ![p] = [act[p] EXCEPT !.todo = Caught(act[p].todo), !.sys = None]]

-----------------------------------------------------------------------------
(***************************************************************************)
(* Files.                                                                  *)
(***************************************************************************)
Open(p) ==
    /\ Turn(p, "open")
    /\ IF Target(p) \in locked
       THEN Throw(p) /\ UNCHANGED file
       ELSE /\ file' = [file EXCEPT ![Target(p)] = Torn]
            /\ Continue(p, act[p], <<>>)
    /\ UNCHANGED <<locked, mem, history>>

(* A file that another process filled since it was opened keeps the end of *)
(* that content if it is longer; one that was removed stays removed.       *)
Fill(p) ==
    LET f == Target(p)
        new == act[p][f[1]]
    IN  /\ Turn(p, "fill")
        /\ \E c \in CASE file[f] = Torn -> {new}
                      [] file[f] = Absent -> {Absent}
                      [] OTHER -> {new, Torn} :
              file' = [file EXCEPT ![f] = c]
        /\ Continue(p, act[p], <<>>)
        /\ UNCHANGED <<locked, mem, history>>

Tmp(f) == <<f[1], IF f[2] = "json" THEN "json.tmp" ELSE "bin.tmp">>

(* Who has the temporary file open goes on writing under its new name. *)
Rename(p) ==
    LET f == Target(p)
        Follow(a) == IF a.todo # <<>> /\ Head(a.todo) = <<"fill", f[1], Tmp(f)[2]>>
                     THEN [a EXCEPT !.todo[1] = <<"fill", f[1], f[2]>>] ELSE a
    IN  /\ Turn(p, "rename")
        /\ IF file[Tmp(f)] = Absent
           THEN Throw(p) /\ UNCHANGED <<file, locked>>
           ELSE /\ file' = [file EXCEPT ![f] = file[Tmp(f)], ![Tmp(f)] = Absent]
                /\ locked' = locked \ {f}
                /\ act' = [q \in Procs |->
                            IF q = p THEN [act[p] EXCEPT !.todo = Tail(@)]
                                     ELSE Follow(act[q])]
        /\ UNCHANGED <<mem, history>>

RemoveFile(p) ==
    /\ Turn(p, "remove")
    /\ file' = [file EXCEPT ![Target(p)] = Absent]
    /\ Continue(p, act[p], <<>>)
    /\ UNCHANGED <<locked, mem, history>>

SetFileLock(p) ==
    /\ \/ Turn(p, "writable") /\ locked' = locked \ {<<"sys", "json">>, <<"sys", "bin">>}
       \/ Turn(p, "readonly") /\ locked' = locked \cup {<<"sys", "json">>, <<"sys", "bin">>}
    /\ Continue(p, act[p], <<>>)
    /\ UNCHANGED <<file, mem, history>>

-----------------------------------------------------------------------------
(***************************************************************************)
(* Loads.                                                                  *)
(***************************************************************************)
Got(p, a, more) == Continue(p, a, more) /\ UNCHANGED <<file, locked, mem, history>>

(* PermissionSchema::load: the binary copy is never read. *)
LoadPerm(p) ==
    LET json == <<"perm", "json">> IN
    /\ Turn(p, "loadPerm")
    /\ Got(p, [act[p] EXCEPT !.perm = IF Whole(json) THEN file[json] ELSE PermDefault],
           IF file[json] = Absent THEN SavePlain("perm") ELSE <<>>)

(* load_booster_settings: what it could parse it writes back.  The binary  *)
(* copy never decodes: SmartState is an untagged enum, which bincode can   *)
(* write and not read.  It is tried, then removed.                         *)
LoadBoost(p) ==
    LET json == <<"boost", "json">>
        Take(c) == [act[p] EXCEPT !.boost = c]
    IN  /\ Turn(p, "loadBoost")
        /\ IF Whole(json) THEN Got(p, Take(file[json]), SavePlain("boost"))
           ELSE Got(p, Take(BoosterDefault),
                    IF file[<<"boost", "bin">>] = Absent THEN <<>>
                    ELSE <<<<"remove", "boost", "bin">>>>)

(* load_binary_truth *)
Heal == <<<<"remove", "sys", "bin">>, Do("probe")>> \o SaveAtomic("sys")

FromBinary(p, more) ==
    IF Whole(<<"sys", "bin">>)
    THEN Got(p, [act[p] EXCEPT !.sys = "probed"], <<>>)
    ELSE Got(p, act[p], Heal \o more)

\* Mutant of LoadSys: the recovery scan starts when the JSON file is missing,
\* whether or not there is a binary.
LoadSysScan(p) ==
    LET json == file[<<"sys", "json">>]
        bin == file[<<"sys", "bin">>]
    IN  /\ Turn(p, "loadSys")
        /\ CASE json \notin {Absent, Torn} ->
                    Got(p, [act[p] EXCEPT !.sys = "probed"], <<>>)
             [] json = Torn /\ bin = Absent ->
                    Got(p, [act[p] EXCEPT !.sys = "blank"], <<>>)
             [] json = Torn /\ bin # Absent ->
                    FromBinary(p, <<Do("catch"), Do("orBlank")>>)
             [] json = Absent ->
                    Got(p, act[p], AutoCalibrate \o <<Do("loadSys")>>)

(* load_system_control.  The recovery scan leaves a file to be read, which  *)
(* nobody removes.  A torn JSON file and no binary: the default, no GPU.    *)
LoadSys(p) ==
    LET json == file[<<"sys", "json">>]
        bin == file[<<"sys", "bin">>]
    IN  /\ Turn(p, "loadSys")
        /\ CASE json \notin {Absent, Torn} ->
                    Got(p, [act[p] EXCEPT !.sys = "probed"], <<>>)
             [] json = Torn /\ bin = Absent ->
                    Got(p, [act[p] EXCEPT !.sys = "blank"], <<>>)
             [] json = Torn /\ bin # Absent ->
                    FromBinary(p, <<Do("catch"), Do("orBlank")>>)
             [] json = Absent /\ bin = Absent ->
                    Got(p, act[p], AutoCalibrate \o <<Do("loadSys")>>)
             [] json = Absent /\ bin # Absent ->
                    FromBinary(p, <<>>)

Probe(p) ==
    \/ /\ At(p, "probe")
       /\ Got(p, [act[p] EXCEPT !.sys = "probed"], <<>>)
    \/ /\ At(p, "orBlank")
       /\ Got(p, [act[p] EXCEPT !.sys = IF @ = None THEN "blank" ELSE @], <<>>)
    \/ /\ At(p, "catch")
       /\ Got(p, act[p], <<>>)
    \/ /\ At(p, "require")
       /\ Got(p, IF act[p].sys = None THEN [act[p] EXCEPT !.todo = <<Do("")>>]
                 ELSE act[p], <<>>)

LoadRegistry(p) ==
    LET f == <<"reg", "json">> IN
    /\ Turn(p, "loadReg")
    /\ Got(p, [act[p] EXCEPT !.reg = IF Whole(f) THEN file[f] ELSE {}], <<>>)

-----------------------------------------------------------------------------
(***************************************************************************)
(* Changes.  `Intended' is what the user means, whatever the process read. *)
(***************************************************************************)
Changed(chg, c, silicon) ==
    CASE chg[2] = "tune" -> Resolve(Tune(c, silicon), silicon)
      [] chg[2] = "reset" -> Optimal(silicon)
      [] chg[2] = "all" -> chg[3]
      [] OTHER -> [c EXCEPT ![chg[2]] = chg[3]]

Intended(chg, values) == {Changed(chg, c, "probed") : c \in values}

\* Mutant of Change: the start tunes the default, not what it loaded.
ChangeForgets(p) ==
    LET a == act[p]
        chg == IF At(p, "tune") THEN <<"boost", "tune", "">> ELSE a.chg
        s == chg[1]
        new == IF At(p, "tune")
               THEN (IF a.sys = None THEN a.boost ELSE Changed(chg, BoosterDefault, a.sys))
               ELSE Changed(chg, a[s], IF a.sys = None THEN "blank" ELSE a.sys)
    IN  /\ At(p, "change") \/ At(p, "tune")
        /\ Continue(p, [a EXCEPT ![s] = new, !.chg = chg, !.base = ok[s]],
                    SavePlain(s) \o <<Do("saved")>>)
        /\ ok' = [ok EXCEPT ![s] = @ \cup Intended(chg, @)]
        /\ UNCHANGED <<file, locked, mem, gen, crashes, mixed, ops>>

Change(p) ==
    LET a == act[p]
        chg == IF At(p, "tune") THEN <<"boost", "tune", "">> ELSE a.chg
        s == chg[1]
        new == IF At(p, "tune") /\ a.sys = None THEN a.boost
               ELSE Changed(chg, a[s], IF a.sys = None THEN "blank" ELSE a.sys)
    IN  /\ At(p, "change") \/ At(p, "tune")
        /\ Continue(p, [a EXCEPT ![s] = new, !.chg = chg, !.base = ok[s]],
                    SavePlain(s) \o <<Do("saved")>>)
        /\ ok' = [ok EXCEPT ![s] = @ \cup Intended(chg, @)]
        /\ UNCHANGED <<file, locked, mem, gen, crashes, mixed, ops>>

Saved(p) ==
    LET a == act[p] IN
    /\ At(p, "saved")
    /\ ok' = [ok EXCEPT ![a.chg[1]] = Intended(a.chg, a.base)]
    /\ Continue(p, [a EXCEPT !.base = {}], <<>>)
    /\ UNCHANGED <<file, locked, mem, gen, crashes, mixed, ops>>

(* The menu of `booster': one copy, changed and saved again and again. *)
Edit(p) ==
    /\ Turn(p, "edit")
    /\ \/ Got(p, act[p], <<>>)
       \/ \E chg \in Changes :
            /\ ops < MaxOps /\ chg[1] = "boost"
            /\ ops' = ops + 1
            /\ act' = [act EXCEPT ![p].chg = chg, ![p].todo = <<Do("change")>> \o @]
            /\ UNCHANGED <<file, locked, mem, gen, crashes, ok, mixed>>

(* The menu of permissions loads the schema for each choice, and keeps it  *)
(* while the user thinks.  An active model is set in a schema loaded anew, *)
(* anything else in the one that was shown.                                *)
EditPermission(p) ==
    /\ Turn(p, "editPerm")
    /\ \/ Got(p, act[p], <<>>)
       \/ \E chg \in Changes :
            /\ ops < MaxOps /\ chg[1] = "perm"
            /\ ops' = ops + 1
            /\ act' = [act EXCEPT ![p].chg = chg,
                                  ![p].todo = (IF chg[2] \in ActiveModels
                                               THEN UpdatePermission \o <<Do("loadPerm")>>
                                               ELSE <<Do("change")>>) \o PermissionMenu]
            /\ UNCHANGED <<file, locked, mem, gen, crashes, ok, mixed>>

-----------------------------------------------------------------------------
(***************************************************************************)
(* The arbiter.  Its lock is that of one process, which has one thread     *)
(* here: a lock that is held is held by the caller.                        *)
(***************************************************************************)
Arbiter(p, m, more) ==
    /\ mem' = [mem EXCEPT ![p] = m]
    /\ Continue(p, act[p], more)
    /\ UNCHANGED <<file, locked, history>>

Lock(p) ==
    \/ At(p, "lock") /\ ~mem[p].held /\ Arbiter(p, [mem[p] EXCEPT !.held = TRUE], <<>>)
    \/ At(p, "unlock") /\ Arbiter(p, [mem[p] EXCEPT !.held = FALSE], <<>>)

\* Mutant of Sync: a synchronisation adds the card to the total.
SyncAdds(p) ==
    \/ /\ At(p, "total")
       /\ Arbiter(p, [mem[p] EXCEPT !.total =
                        IF act[p].sys = None THEN @ ELSE @ + VramOf(act[p].sys)], <<>>)
    \/ /\ At(p, "syncIfZero")
       /\ Arbiter(p, mem[p], IF mem[p].total # 0 THEN <<>>
                             ELSE SyncTotal \o <<Do("calibrateIfZero")>>)
    \/ /\ At(p, "calibrateIfZero")
       /\ Arbiter(p, mem[p], IF act[p].sys # None \/ mem[p].total # 0 THEN <<>>
                             ELSE AutoCalibrate \o <<Do("catch")>>)

Sync(p) ==
    \/ /\ At(p, "total")
       /\ Arbiter(p, [mem[p] EXCEPT !.total =
                        IF act[p].sys = None THEN @ ELSE VramOf(act[p].sys)], <<>>)
    \/ /\ At(p, "syncIfZero")
       /\ Arbiter(p, mem[p], IF mem[p].total # 0 THEN <<>>
                             ELSE SyncTotal \o <<Do("calibrateIfZero")>>)
    \/ /\ At(p, "calibrateIfZero")
       /\ Arbiter(p, mem[p], IF act[p].sys # None \/ mem[p].total # 0 THEN <<>>
                             ELSE AutoCalibrate \o <<Do("catch")>>)

RequestMargin(mode, total) ==
    CASE mode \in {"ultra_max_boost", "hyper_cluster"} -> (total * 25) \div 1000
      [] mode = "max_boost" -> (total * 5) \div 100
      [] mode = "balance" -> (total * 7) \div 100
      [] OTHER -> (total * 12) \div 100

(* The sum of what the arbiter m has granted to the engines of S. *)
Taken(m, S) == Cardinality(UNION {{e} \X (1..m.active[e]) : e \in S})

(* request_vram: a second request of an engine replaces its entry. *)
Allocate(p) ==
    LET m == mem[p]
        e == act[p].chg[2]
        available == m.total - RequestMargin(act[p].boost.mode, m.total) - m.alloc
    IN  /\ At(p, "allocate")
        /\ IF Demand[e] > available THEN Arbiter(p, m, <<>>)
           ELSE Arbiter(p, [m EXCEPT !.alloc = @ + Demand[e], !.active[e] = Demand[e]],
                        <<Do("loadReg"), Do("regAdd")>>)

\* Mutant of Free: what is returned is the demand, requested or not.
FreeDemand(p) ==
    LET e == act[p].chg[2] IN
    /\ At(p, "free")
    /\ Arbiter(p, [mem[p] EXCEPT !.alloc = @ - Demand[e], !.active[e] = 0], <<>>)

(* release_vram *)
Free(p) ==
    LET e == act[p].chg[2] IN
    /\ At(p, "free")
    /\ Arbiter(p, [mem[p] EXCEPT !.alloc = @ - mem[p].active[e], !.active[e] = 0], <<>>)

Fit(p) ==
    LET m == mem[p]
        others == Taken(m, Engines \ {"llama", "onnx", "whisper"})
        ctx == Envelope(act[p].boost, m.total, others, IF m.dna = None THEN Truth ELSE m.dna)
    IN  \/ /\ At(p, "fit")
           /\ Arbiter(p, [m EXCEPT !.ctx = ctx, !.dna = IF @ = None THEN ctx ELSE @], <<>>)
        \/ /\ At(p, "forget")
           /\ Arbiter(p, [m EXCEPT !.dna = None], <<>>)

\* Mutant of Registry: a release leaves the entry of the process.
RegistryKeeps(p) ==
    LET a == act[p]
        Write(pids) == Got(p, [a EXCEPT !.reg = pids], Put("reg", "json"))
        Leave == Got(p, a, <<>>)
        dead == {pid \in a.reg : ~Alive(pid)}
    IN  \/ At(p, "regAdd") /\ Write(a.reg \cup {Pid(p)})
        \/ At(p, "regRemove") /\ Write(a.reg)
        \/ At(p, "regContext") /\ IF Pid(p) \in a.reg THEN Write(a.reg) ELSE Leave
        \/ At(p, "regPurge") /\ IF dead # {} THEN Write(a.reg \ dead) ELSE Leave

(* The process registry. *)
Registry(p) ==
    LET a == act[p]
        Write(pids) == Got(p, [a EXCEPT !.reg = pids], Put("reg", "json"))
        Leave == Got(p, a, <<>>)
        dead == {pid \in a.reg : ~Alive(pid)}
    IN  \/ At(p, "regAdd") /\ Write(a.reg \cup {Pid(p)})
        \/ At(p, "regRemove") /\ Write(a.reg \ {Pid(p)})
        \/ At(p, "regContext") /\ IF Pid(p) \in a.reg THEN Write(a.reg) ELSE Leave
        \/ At(p, "regPurge") /\ IF dead # {} THEN Write(a.reg \ dead) ELSE Leave

-----------------------------------------------------------------------------
(***************************************************************************)
(* Operations begin and end; crashes; the user.                            *)
(***************************************************************************)
Overlap(p, op) ==
    [s \in Stores |->
        mixed[s] \/ /\ s \in Touches(op)
                    /\ \E q \in Procs \ {p} : s \in Touches(act[q].op)]

Enter(p, op, chg) ==
    /\ act[p].op = "idle"
    /\ act' = [act EXCEPT ![p] = [Idle EXCEPT !.op = op, !.todo = Program(op),
                                              !.chg = chg]]
    /\ mixed' = Overlap(p, op)
    /\ UNCHANGED <<file, locked, mem, gen, crashes, ok>>

Boot(p) ==
    /\ Settled /\ ~mem[p].booted /\ ops < MaxOps
    /\ ops' = ops + 1
    /\ Enter(p, "boot", None)

Begin(p) ==
    /\ Settled /\ mem[p].booted /\ ops < MaxOps
    /\ ops' = ops + 1
    /\ \/ \E op \in {"readPerm", "readBoost", "editBoost", "editPerm", "calibrate",
                     "discover", "ps"} : Enter(p, op, None)
       \/ mem[p].dna # None /\ Enter(p, "applyBooster", None)
       \/ Enter(p, "resetBoost", <<"boost", "reset", "">>)
       \/ Enter(p, "putBoost", <<"boost", "all", BoosterDefault>>)
       \/ \E chg \in Changes :
            \/ Enter(p, IF chg[1] = "perm" THEN "setPerm" ELSE "setBoost", chg)
            \/ chg[1] = "boost" /\ Enter(p, "updateField", chg)
       \/ \E e \in Engines :
            \/ Enter(p, "request", <<"engine", e, "">>)
            \/ Enter(p, "release", <<"engine", e, "">>)

End(p) ==
    /\ act[p].op # "idle" /\ act[p].todo = <<>>
    /\ act' = [act EXCEPT ![p] = Idle]
    /\ mem' = [mem EXCEPT ![p].booted = TRUE]
    /\ UNCHANGED <<file, locked, history>>

(* A process dies between two steps.  A setting that it was working on may *)
(* from then on be its default, since a torn file loads as that.           *)
Crash(p) ==
    /\ Settled /\ crashes < MaxCrashes
    /\ crashes' = crashes + 1
    /\ gen' = [gen EXCEPT ![p] = @ + 1]
    /\ act' = [act EXCEPT ![p] = Idle]
    /\ mem' = [mem EXCEPT ![p] = NewArbiter]
    /\ ok' = [s \in Settings \cup {"sys"} |->
                ok[s] \cup IF s \in Settings \cap Touches(act[p].op) THEN {Default(s)} ELSE {}]
    /\ UNCHANGED <<file, locked, mixed, ops>>

Step(p) ==
    \/ Open(p) \/ Fill(p) \/ Rename(p) \/ RemoveFile(p) \/ SetFileLock(p)
    \/ LoadPerm(p) \/ LoadBoost(p) \/ LoadSys(p) \/ LoadRegistry(p)
    \/ Probe(p) \/ Change(p) \/ Saved(p)
    \/ Lock(p) \/ Sync(p) \/ Allocate(p) \/ Free(p) \/ Fit(p) \/ Registry(p)
    \/ End(p)

Next == \E p \in Procs : Step(p) \/ Edit(p) \/ EditPermission(p) \/ Boot(p) \/ Begin(p) \/ Crash(p)

Spec == Init /\ [][Next]_vars

FairSpec == Spec /\ \A p \in Procs : WF_vars(Step(p))
=============================================================================
