---------------------------- MODULE SkillProofs -----------------------------
(***************************************************************************)
(* The compilation of a skill's caches, proved for every number of models, *)
(* compilers, edits and crashes: the types, that no two tasks write the    *)
(* files of one model, and that a loaded state is honest.                  *)
(***************************************************************************)
EXTENDS SkillProperties, TLAPS

-----------------------------------------------------------------------------
(* The index *)

(* A new index has its type. *)
LEMMA NewIndexType ==
    ASSUME NEW e \in EmbModels \cup {None}
    PROVE  NewIndex(e) \in Indices
BY DEF NewIndex, Indices, Free

(* An index that was compared with its files keeps it. *)
LEMMA BootedType ==
    ASSUME NEW i \in Indices, i.model # None
    PROVE  Booted(i) \in Indices /\ Booted(i).model = i.model
<1> DEFINE f == i.file[i.model]
           known == [i EXCEPT !.vec = f.by]
           gone == [i EXCEPT !.file[i.model] = None]
<1>1. f \in Vector \cup {None} /\ i.model \in EmbModels
  BY DEF Indices
<1>2. gone \in Indices /\ gone.model = i.model
  BY DEF Indices
<1>3. f # None => known \in Indices /\ known.model = i.model
  <2>1. f # None => f.by \in EmbModels
    BY <1>1 DEF Vector
  <2> HIDE DEF f
  <2> QED
    BY <2>1 DEF Indices
<1>4. \/ Booted(i) = i
      \/ f # None /\ Booted(i) = known
      \/ Booted(i) = gone
  <2> HIDE DEF known, gone
  <2>1. Booted(i) = CASE f = None -> i
                      [] f # None /\ f.newer /\ f.whole -> known
                      [] f # None /\ f.newer /\ ~f.whole /\ i.vec # None -> i
                      [] OTHER -> gone
    BY Zenon DEF Booted, known, gone
  <2> HIDE DEF f
  <2> QED
    BY <2>1
<1> QED
  BY <1>2, <1>3, <1>4

(* One that was brought up to date, too. *)
LEMMA IndexedType ==
    ASSUME NEW i \in Indices, NEW j \in Indexed(i)
    PROVE  j \in Indices
<1>1. CASE i.model = None
  BY <1>1 DEF Indexed
<1>2. CASE i.model # None
  <2> DEFINE b == Booted(i)
  <2>1. b \in Indices /\ b.model \in EmbModels
    BY <1>2, BootedType DEF Indices
  <2>2. CASE b.vec # None /\ b.file[b.model] # None
    BY <1>2, <2>1, <2>2 DEF Indexed
  <2>3. CASE ~(b.vec # None /\ b.file[b.model] # None)
    <3>1. PICK g \in Engines(b) :
              LET d == [b EXCEPT !.dir = TRUE, !.engine = g] IN
              j \in {d} \cup {[d EXCEPT !.vec = e, !.file[b.model] = Made(e)] :
                                e \in EmbModels \cap {g}}
      BY <1>2, <2>3 DEF Indexed
    <3> HIDE DEF b
    <3> DEFINE d == [b EXCEPT !.dir = TRUE, !.engine = g]
    <3>2. g \in EmbModels \cup {"cold", "failed"}
      BY <2>1 DEF Engines, Indices
    <3>3. d \in Indices
      BY <2>1, <3>2 DEF Indices
    <3> HIDE DEF d
    <3>4. CASE j = d
      BY <3>3, <3>4
    <3>5. CASE \E e \in EmbModels : j = [d EXCEPT !.vec = e, !.file[b.model] = Made(e)]
      <4>1. PICK e \in EmbModels : j = [d EXCEPT !.vec = e, !.file[b.model] = Made(e)]
        BY <3>5
      <4>2. Made(e) \in Vector
        BY DEF Made, Vector
      <4> QED
        BY <2>1, <3>3, <4>1, <4>2 DEF Indices
    <3> QED
      BY <3>1, <3>4, <3>5 DEF d
  <2> QED
    BY <2>2, <2>3
<1> QED
  BY <1>1, <1>2

(* The daemon keeps the type. *)
LEMMA WorkedType ==
    ASSUME NEW i \in Indices, NEW any \in BOOLEAN, NEW j \in Worked(i, any)
    PROVE  j \in Indices
<1>1. CASE j \in Taken(i, any)
  <2> DEFINE d == [i EXCEPT !.dir = @ \/ any, !.daemon = Free]
  <2>1. d \in Indices
    BY DEF Indices, Free
  <2>2. [d EXCEPT !.daemon = [pc |-> "embed", model |-> i.model]] \in Indices
    <3>1. i.model \in EmbModels \cup {None}
      BY DEF Indices
    <3> HIDE DEF d
    <3> QED
      BY <2>1, <3>1 DEF Indices
  <2>3. j = d \/ j = [d EXCEPT !.daemon = [pc |-> "embed", model |-> i.model]]
    BY <1>1 DEF Taken
  <2> QED
    BY <2>1, <2>2, <2>3
<1>2. CASE j \in Writing(i)
  <2> DEFINE w == [i EXCEPT !.daemon.pc = "write",
                       !.file[i.daemon.model] = [Made(i.daemon.model) EXCEPT !.whole = FALSE]]
  <2>1. [i EXCEPT !.daemon = Free] \in Indices
    BY DEF Indices, Free
  <2>2. w \in Indices
    <3>1. i.daemon.model \in EmbModels =>
              [Made(i.daemon.model) EXCEPT !.whole = FALSE] \in Vector
      BY DEF Made, Vector
    <3>2. [i.file EXCEPT ![i.daemon.model] = [Made(i.daemon.model) EXCEPT !.whole = FALSE]]
              \in [EmbModels -> Vector \cup {None}]
      BY <3>1 DEF Indices
    <3> QED
      BY <3>2 DEF Indices
  <2>3. j = [i EXCEPT !.daemon = Free] \/ j = w
    BY <1>2 DEF Writing
  <2> QED
    BY <2>1, <2>2, <2>3
<1>3. CASE j = Written(i)
  <2>1. [i.file EXCEPT ![i.daemon.model] = IF @ = None THEN None ELSE [@ EXCEPT !.whole = TRUE]]
            \in [EmbModels -> Vector \cup {None}]
    <3>1. \A v \in Vector : [v EXCEPT !.whole = TRUE] \in Vector
      BY DEF Vector
    <3> QED
      BY <3>1 DEF Indices
  <2> QED
    BY <1>3, <2>1 DEF Written, Indices, Free
<1>4. j \in Taken(i, any) \/ j \in Writing(i) \/ j = Written(i)
  BY DEF Worked
<1> QED
  BY <1>1, <1>2, <1>3, <1>4

(* What happens to the text, the process and the files keeps it. *)
LEMMA DisturbedType ==
    ASSUME NEW i \in Indices
    PROVE  /\ Outdated(i) \in Indices /\ Restarted(i) \in Indices /\ Requeued(i) \in Indices
           /\ Wiped(i) \in Indices /\ OrphansGone(i) \in Indices
<1>1. Outdated(i) \in Indices
  <2>1. \A v \in Vector : [v EXCEPT !.newer = FALSE] \in Vector
    BY DEF Vector
  <2>2. [e \in EmbModels |-> IF i.file[e] = None THEN None ELSE [i.file[e] EXCEPT !.newer = FALSE]]
            \in [EmbModels -> Vector \cup {None}]
    BY <2>1 DEF Indices
  <2> QED
    BY <2>2 DEF Outdated, Indices
<1>2. Restarted(i) \in Indices
  BY DEF Restarted, Indices, Free
<1>3. Requeued(i) \in Indices
  BY DEF Requeued, Indices
<1>4. Wiped(i) \in Indices
  BY DEF Wiped, Indices
<1>5. OrphansGone(i) \in Indices
  BY DEF OrphansGone, Indices
<1> QED
  BY <1>1, <1>2, <1>3, <1>4, <1>5

-----------------------------------------------------------------------------
(***************************************************************************)
(* The inductive invariant.  A request that is about to start a task has   *)
(* seen that its path is not marked, and nobody else marks one: a task is  *)
(* started by a request, and one request is served at a time.  It waits    *)
(* for at most one task.                                                   *)
(***************************************************************************)
OneWaits ==
    \A c \in Active : comp[c].sync =>
        req.pc = "await" /\ \A d \in Active : comp[d].sync => c = d

SkillInv ==
    /\ SkillTypeOK
    /\ OneCompilerPerPath
    /\ req.pc \in {"lock", "pause"} => req.model \notin locks
    /\ req.pc \notin {"idle", "ready"} => req.model \in Models
    /\ OneWaits

(* What there is has its type. *)
LEMMA SomethingType ==
    /\ \A m \in Models : SkillTypeOK =>
          (kv[m] # None => kv[m] \in File) /\ (temp[m] # None => temp[m] \in State)
    /\ \A c \in Compilers : SkillTypeOK /\ comp[c] # None => comp[c] \in Compilation
BY DEF SkillTypeOK

(* A state in a file, and back. *)
LEMMA Conversions ==
    /\ \A s \in State, whole \in BOOLEAN : AsFile(s, whole) \in File
    /\ \A f \in File : AsState(f) \in State
BY DEF AsFile, AsState, State, File

(* At the start nothing is compiled. *)
LEMMA SkillInit == Init => SkillInv
<1> SUFFICES ASSUME Init PROVE SkillInv
  OBVIOUS
<1>1. /\ md = 0 /\ changes = 0 /\ schema \in Models \cup {None} /\ router \in Models \cup {None}
      /\ kv = [m \in Models |-> None] /\ temp = [m \in Models |-> None]
      /\ locks = {} /\ comp = [c \in Compilers |-> None] /\ req = Idle(schema)
  BY DEF Init
<1>2. index \in Indices
  BY NewIndexType DEF Init
<1>3. req \in Request /\ req.pc = "idle"
  BY <1>1, SkillCacheAssumption DEF Idle, Request
<1>4. OneCompilerPerPath /\ OneWaits
  BY <1>1 DEF OneCompilerPerPath, OneWaits, Active
<1>5. SkillTypeOK
  BY <1>1, <1>2, <1>3, SkillCacheAssumption DEF SkillTypeOK
<1> QED
  BY <1>3, <1>4, <1>5 DEF SkillInv

(* A task that goes on has its path and its mark. *)
LEMMA TasksKept ==
    ASSUME OneCompilerPerPath, UNCHANGED locks, Active' = Active,
           \A c \in Active : comp'[c].path = comp[c].path /\ comp'[c].sync = comp[c].sync,
           OneWaits, UNCHANGED req
    PROVE  OneCompilerPerPath' /\ OneWaits'
BY DEF OneCompilerPerPath, OneWaits

(* A task that ends takes its mark with it. *)
LEMMA TaskEnds ==
    ASSUME SkillInv, NEW c \in Compilers, comp[c] # None, NEW ok, Ends(c, ok)
    PROVE  /\ comp' \in [Compilers -> Compilation \cup {None}]
           /\ OneCompilerPerPath' /\ OneWaits' /\ locks' \subseteq locks
           /\ \/ UNCHANGED req
              \/ /\ req.pc = "await"
                 /\ req' = [req EXCEPT !.pc = "unpack"] \/ GotoWarm
<1>1. comp' = [comp EXCEPT ![c] = None] /\ locks' = locks \ {comp[c].path}
  BY DEF Ends, Unlocked
<1>2. comp \in [Compilers -> Compilation \cup {None}]
  BY DEF SkillInv, SkillTypeOK
<1>3. Active' = Active \ {c} /\ \A d \in Active' : comp'[d] = comp[d]
  BY <1>1, <1>2 DEF Active
<1>4. c \in Active
  BY DEF Active
<1>5. OneCompilerPerPath'
  BY <1>1, <1>3, <1>4 DEF SkillInv, OneCompilerPerPath
<1>6. \/ UNCHANGED req /\ ~comp[c].sync
      \/ /\ req.pc = "await" /\ comp[c].sync
         /\ req' = [req EXCEPT !.pc = "unpack"] \/ GotoWarm
  BY <1>4 DEF SkillInv, OneWaits, Ends, Goto
<1>7. OneWaits'
  BY <1>3, <1>4, <1>6 DEF SkillInv, OneWaits
<1> QED
  BY <1>1, <1>2, <1>5, <1>6, <1>7

(* A task that is started has a path of its own. *)
LEMMA TaskStarts ==
    ASSUME SkillInv, req.pc \in {"lock", "pause"}, router # None, NEW sync \in BOOLEAN, Start(sync)
    PROVE  /\ comp' \in [Compilers -> Compilation \cup {None}] /\ locks' \subseteq Models
           /\ OneCompilerPerPath'
           /\ ~sync \/ req'.pc = "await" => OneWaits'
<1> DEFINE c == CHOOSE d \in Compilers : comp[d] = None
           task == [path |-> req.model, sync |-> sync, pc |-> "spawned",
                    state |-> [by |-> router, ver |-> req.ver, whole |-> FALSE,
                               clean |-> router = req.model /\ ~req.disturbed]]
<1>1. Active # Compilers /\ locks' = locks \cup {req.model} /\ comp' = [comp EXCEPT ![c] = task]
  BY DEF Start
<1>2. c \in Compilers /\ comp[c] = None
  BY <1>1 DEF Active
<1>3. req \in Request /\ router \in Models /\ req.model \in Models
  BY DEF SkillInv, SkillTypeOK
<1>4. task \in Compilation
  <2>1. req.ver \in 0..MaxEdits /\ req.disturbed \in BOOLEAN
    BY <1>3 DEF Request
  <2> QED
    BY <1>3, <2>1 DEF Compilation, State
<1>5. task # None /\ task.path = req.model /\ task.sync = sync
  BY <1>4, NoneAssumption
<1>6. comp \in [Compilers -> Compilation \cup {None}] /\ locks \subseteq Models
  BY DEF SkillInv, SkillTypeOK
<1> HIDE DEF c, task
<1>7. Active' = Active \cup {c} /\ c \notin Active
  BY <1>1, <1>2, <1>5, <1>6 DEF Active
<1>8. comp'[c].path = req.model /\ comp'[c].sync = sync /\ \A d \in Active : comp'[d] = comp[d]
  BY <1>1, <1>2, <1>5, <1>6, <1>7 DEF Active
<1>9. OneCompilerPerPath'
  <2>1. locks = {comp[d].path : d \in Active} /\ req.model \notin locks
    BY DEF SkillInv, OneCompilerPerPath
  <2>2. locks' = {comp'[d].path : d \in Active'}
    BY <1>1, <1>7, <1>8, <2>1
  <2>3. ASSUME NEW d \in Active', NEW e \in Active', d # e PROVE comp'[d].path # comp'[e].path
    BY <1>7, <1>8, <2>1, <2>3 DEF SkillInv, OneCompilerPerPath
  <2> QED
    BY <2>2, <2>3 DEF OneCompilerPerPath
<1>10. \A d \in Active : ~comp[d].sync
  BY DEF SkillInv, OneWaits
<1>11. ASSUME ~sync \/ req'.pc = "await" PROVE OneWaits'
  BY <1>7, <1>8, <1>10, <1>11 DEF OneWaits
<1> QED
  BY <1>1, <1>3, <1>4, <1>6, <1>9, <1>11

(* The request goes on. *)
LEMMA RequestGoes ==
    ASSUME req \in Request
    PROVE  /\ GotoWarm => req' \in Request /\ req'.pc = "warm" /\ req'.model = req.model
           /\ [req EXCEPT !.pc = "lock", !.text = req.ver] \in Request
           /\ \A pc \in {"pause", "await", "unpack"} :
                 [req EXCEPT !.pc = pc] \in Request
<1>1. 0 \in 0..MaxEdits
  BY SkillCacheAssumption
<1>2. GotoWarm => req' \in Request /\ req'.pc = "warm" /\ req'.model = req.model
  BY <1>1 DEF GotoWarm, Request
<1>3. [req EXCEPT !.pc = "lock", !.text = req.ver] \in Request
  <2>1. req.ver \in 0..MaxEdits
    BY DEF Request
  <2> QED
    BY <2>1 DEF Request
<1>4. ASSUME NEW pc \in {"pause", "await", "unpack"} PROVE [req EXCEPT !.pc = pc] \in Request
  BY DEF Request
<1> QED
  BY <1>2, <1>3, <1>4

(* The steps of the request that start no task. *)
LEMMA ServeStep ==
    ASSUME SkillInv,
           Prompt \/ TextPayload \/ CheckCache \/ MapCache \/ ReadBody \/ Look
             \/ Unpack \/ Load \/ Warm \/ WarmUnpack \/ WarmLoad \/ Answer
    PROVE  SkillInv'
<1>1. /\ SkillTypeOK /\ req \in Request /\ schema \in Models \cup {None} /\ md \in 0..MaxEdits
      /\ kv \in [Models -> File \cup {None}] /\ temp \in [Models -> State \cup {None}]
      /\ index \in Indices
  BY DEF SkillInv, SkillTypeOK
<1>2. UNCHANGED <<md, schema, router, changes, locks, comp>>
  BY DEF Prompt, TextPayload, CheckCache, MapCache, ReadBody, Look, Unpack, Load, Warm,
         WarmUnpack, WarmLoad, Answer, world, disk
<1>3. OneCompilerPerPath' /\ OneWaits'
  <2>1. req.pc # "await" /\ Active' = Active
    BY <1>2 DEF Prompt, TextPayload, CheckCache, MapCache, ReadBody, Look, Unpack, Load, Warm,
                WarmUnpack, WarmLoad, Answer, Active
  <2> QED
    BY <1>2, <2>1 DEF SkillInv, OneCompilerPerPath, OneWaits
<1>steps. ASSUME req' \in Request, req'.pc \in {"lock", "pause"} => req'.model \notin locks,
                 req'.pc \notin {"idle", "ready"} => req'.model \in Models,
                 kv' \in [Models -> File \cup {None}], temp' \in [Models -> State \cup {None}],
                 index' \in Indices
          PROVE  SkillInv'
  BY <1>1, <1>2, <1>3, <1>steps DEF SkillInv, SkillTypeOK
<1>idle. Idle(schema) \in Request /\ Idle(schema).pc = "idle" /\ Idle(schema).model = schema
  BY <1>1, SkillCacheAssumption DEF Idle, Request
<1>4. CASE Prompt
  <2>1. index' \in Indices
    BY <1>1, <1>4, IndexedType DEF Prompt
  <2>2. /\ req' \in Request /\ req'.pc \in {"check", "ready"}
        /\ req'.pc = "check" => req'.model \in Models
    <3>1. CASE schema # None /\ req' = [Idle(schema) EXCEPT !.pc = "check"]
      BY <1>1, <1>idle, <3>1 DEF Request
    <3>2. CASE req' = [Idle(schema) EXCEPT !.pc = "ready"]
      BY <1>idle, <3>2 DEF Request
    <3> QED
      BY <1>4, <3>1, <3>2 DEF Prompt
  <2> QED
    BY <1>1, <1>4, <2>1, <2>2, <1>steps DEF Prompt, disk
<1>5. CASE TextPayload
  BY <1>1, <1>5, <1>steps DEF TextPayload, world, disk, Request, SkillInv
<1>6. CASE CheckCache
  <2>1. req' \in Request /\ req'.pc \in {"body", "map"} /\ req'.model = req.model /\ req.pc = "check"
    BY <1>1, <1>6 DEF CheckCache, Goto, Request
  <2>2. kv' \in [Models -> File \cup {None}]
    BY <1>1, <1>6 DEF CheckCache
  <2> QED
    BY <1>1, <1>6, <2>1, <2>2, <1>steps DEF CheckCache, world, SkillInv
<1>7. CASE MapCache \/ ReadBody
  <2>1. req' \in Request /\ req'.pc \in {"warm", "look"} /\ req'.model = req.model
        /\ req.pc \in {"map", "body"}
    BY <1>1, <1>7 DEF MapCache, ReadBody, Goto, Request
  <2> QED
    BY <1>1, <1>7, <2>1, <1>steps DEF MapCache, ReadBody, world, disk, SkillInv
<1>8. CASE Look
  <2>1. /\ req' \in Request /\ req'.pc \in {"warm", "lock", "pause"} /\ req'.model = req.model
        /\ req.pc = "look" /\ (req'.pc # "warm" => req.model \notin locks)
    <3>1. CASE GotoWarm
      BY <1>1, <1>8, <3>1, RequestGoes DEF Look
    <3>2. CASE req.model \notin locks /\ req' = [req EXCEPT !.pc = "lock", !.text = req.ver]
      BY <1>1, <1>8, <3>2, RequestGoes DEF Look, Request
    <3>3. CASE req.model \notin locks /\ Goto("pause")
      BY <1>1, <1>8, <3>3, RequestGoes DEF Look, Goto, Request
    <3> QED
      BY <1>8, <3>1, <3>2, <3>3 DEF Look
  <2> QED
    BY <1>1, <1>8, <2>1, <1>steps DEF Look, world, disk, SkillInv
<1>9. CASE Unpack \/ WarmUnpack
  <2>1. req' \in Request /\ req'.pc \in {"load", "warmLoad"} /\ req'.model = req.model
        /\ req.pc \in {"unpack", "warmUnpack"}
    BY <1>1, <1>9 DEF Unpack, WarmUnpack, Goto, Request
  <2>2. req.model \in Models /\ Unpacked(req.model)
    BY <1>9, <2>1 DEF Unpack, WarmUnpack, SkillInv
  <2>3. temp' \in [Models -> State \cup {None}]
    BY <1>1, <2>2, Conversions DEF Unpacked
  <2> QED
    BY <1>1, <1>9, <2>1, <2>2, <2>3, <1>steps DEF Unpack, WarmUnpack, world
<1>10. CASE Load
  <2>1. PICK s \in {None} \cup {temp[req.model]} : req' = [req EXCEPT !.pc = "warm", !.kv = s]
    BY <1>10 DEF Load
  <2>2. req.model \in Models /\ s \in State \cup {None}
    BY <1>1, <1>10, <2>1 DEF Load, SkillInv
  <2>3. req' \in Request /\ req'.pc = "warm" /\ req'.model = req.model
    BY <1>1, <2>1, <2>2 DEF Request
  <2>4. temp' \in [Models -> State \cup {None}]
    BY <1>1, <1>10 DEF Load
  <2> QED
    BY <1>1, <1>10, <2>2, <2>3, <2>4, <1>steps DEF Load, world
<1>11. CASE Warm
  <2>1. /\ req' \in Request /\ req'.pc \in {"warmUnpack", "ready"}
        /\ req'.pc = "warmUnpack" => req'.model \in Models
    BY <1>1, <1>11 DEF Warm, Goto, Request
  <2> QED
    BY <1>1, <1>11, <2>1, <1>steps DEF Warm, world, disk
<1>12. CASE WarmLoad
  <2>1. req.model \in Models /\ temp[req.model] \in State \cup {None}
    BY <1>1, <1>12 DEF WarmLoad, SkillInv
  <2>2. req' \in Request /\ req'.pc = "ready"
    BY <1>1, <1>12, <2>1 DEF WarmLoad, Request
  <2>3. temp' \in [Models -> State \cup {None}]
    BY <1>1, <1>12 DEF WarmLoad
  <2> QED
    BY <1>1, <1>12, <2>2, <2>3, <1>steps DEF WarmLoad, world
<1>13. CASE Answer
  BY <1>1, <1>13, <1>idle, <1>steps DEF Answer, world, disk
<1> QED
  BY <1>4, <1>5, <1>6, <1>7, <1>8, <1>9, <1>10, <1>11, <1>12, <1>13

(* The steps that start a task. *)
LEMMA StartStep ==
    ASSUME SkillInv, Background \/ Pause
    PROVE  SkillInv'
<1>1. /\ req \in Request /\ req.pc \in {"lock", "pause"} /\ req.model \in Models
      /\ UNCHANGED <<md, schema, router, index, changes, kv, temp>>
  BY DEF Background, Pause, SkillInv, SkillTypeOK, world, disk
<1>2. /\ req' \in Request /\ req'.pc \in {"warm", "await"} /\ req'.model = req.model
  <2>1. CASE GotoWarm
    BY <1>1, <2>1, RequestGoes
  <2>2. CASE Goto("await")
    BY <1>1, <2>2, RequestGoes DEF Goto, Request
  <2> QED
    BY <2>1, <2>2 DEF Background, Pause
<1>3. CASE UNCHANGED <<locks, comp>>
  BY <1>1, <1>2, <1>3 DEF SkillInv, SkillTypeOK, OneCompilerPerPath, OneWaits, Active
<1>4. ASSUME NEW sync \in BOOLEAN, router # None, Start(sync), sync => Goto("await")
      PROVE  SkillInv'
  <2>1. ~sync \/ req'.pc = "await"
    BY <1>1, <1>4 DEF Goto, Request
  <2>2. /\ comp' \in [Compilers -> Compilation \cup {None}] /\ locks' \subseteq Models
        /\ OneCompilerPerPath' /\ OneWaits'
    BY <1>1, <1>4, <2>1, TaskStarts
  <2> QED
    BY <1>1, <1>2, <2>2 DEF SkillInv, SkillTypeOK
<1>5. CASE Background /\ Start(FALSE)
  <2>1. router # None \/ UNCHANGED <<locks, comp>>
    BY <1>5 DEF Background
  <2> QED
    BY <1>3, <1>4, <1>5, <2>1
<1>6. CASE Pause /\ Start(TRUE)
  <2>1. (router # None /\ Goto("await")) \/ UNCHANGED <<locks, comp>>
    BY <1>6 DEF Pause
  <2> QED
    BY <1>3, <1>4, <1>6, <2>1
<1> QED
  BY <1>3, <1>5, <1>6 DEF Background, Pause

(* The steps of the task. *)
LEMMA CompileStep ==
    ASSUME SkillInv, NEW c \in Compilers, Compile(c)
    PROVE  SkillInv'
<1> DEFINE t == comp[c]
           m == comp[c].path
<1>1. /\ SkillTypeOK /\ req \in Request
      /\ kv \in [Models -> File \cup {None}] /\ temp \in [Models -> State \cup {None}]
      /\ comp \in [Compilers -> Compilation \cup {None}]
  BY DEF SkillInv, SkillTypeOK
<1>2. t \in Compilation /\ t # None /\ c \in Active
  BY <1>1 DEF Compile, Dump, DumpEnds, ReadDump, Serialize, SerializeEnds, CompileFails, Active
<1>3. m \in Models /\ t.state \in State /\ t.sync \in BOOLEAN
  BY <1>2 DEF Compilation
<1>4. UNCHANGED <<md, schema, router, index, changes>>
  BY DEF Compile, Dump, DumpEnds, ReadDump, Serialize, SerializeEnds, CompileFails, world
<1>goes. ASSUME NEW u \in Compilation, u.path = m, u.sync = t.sync,
                comp' = [comp EXCEPT ![c] = u], UNCHANGED <<locks, req>>,
                kv' \in [Models -> File \cup {None}], temp' \in [Models -> State \cup {None}]
         PROVE  SkillInv'
  <2>1. u # None
    BY NoneAssumption
  <2>2. /\ comp' \in [Compilers -> Compilation \cup {None}] /\ Active' = Active
        /\ \A d \in Active : comp'[d].path = comp[d].path /\ comp'[d].sync = comp[d].sync
    BY <1>1, <1>2, <1>goes, <2>1 DEF Active
  <2>3. OneCompilerPerPath' /\ OneWaits'
    BY <1>goes, <2>2, TasksKept DEF SkillInv
  <2> QED
    BY <1>1, <1>4, <1>goes, <2>2, <2>3 DEF SkillInv, SkillTypeOK
<1>ends. ASSUME NEW ok, Ends(c, ok),
                kv' \in [Models -> File \cup {None}], temp' \in [Models -> State \cup {None}]
         PROVE  SkillInv'
  <2>1. /\ comp' \in [Compilers -> Compilation \cup {None}]
        /\ OneCompilerPerPath' /\ OneWaits' /\ locks' \subseteq locks
        /\ \/ UNCHANGED req
           \/ req.pc = "await" /\ (req' = [req EXCEPT !.pc = "unpack"] \/ GotoWarm)
    BY <1>2, <1>ends, TaskEnds
  <2>2. CASE UNCHANGED req
    BY <1>1, <1>4, <1>ends, <2>1, <2>2 DEF SkillInv, SkillTypeOK
  <2>3. CASE req.pc = "await" /\ (req' = [req EXCEPT !.pc = "unpack"] \/ GotoWarm)
    <3>1. /\ req' \in Request /\ req'.pc \in {"unpack", "warm"} /\ req'.model = req.model
          /\ req.model \in Models
      <4>1. CASE req' = [req EXCEPT !.pc = "unpack"]
        BY <1>1, <2>3, <4>1, RequestGoes DEF Request, SkillInv
      <4>2. CASE GotoWarm
        BY <1>1, <2>3, <4>2, RequestGoes DEF SkillInv
      <4> QED
        BY <2>3, <4>1, <4>2
    <3> QED
      BY <1>1, <1>4, <1>ends, <2>1, <3>1 DEF SkillInv, SkillTypeOK
  <2> QED
    BY <2>1, <2>2, <2>3
<1>5. CASE CompileFails(c)
  BY <1>1, <1>5, <1>ends DEF CompileFails, disk
<1>6. CASE Dump(c)
  <2> DEFINE u == [t EXCEPT !.pc = "dumping"]
  <2>1. u \in Compilation /\ u.path = m /\ u.sync = t.sync
    BY <1>2 DEF Compilation
  <2>2. comp' = [comp EXCEPT ![c] = u]
    BY <1>6 DEF Dump
  <2>3. temp' \in [Models -> State \cup {None}]
    BY <1>1, <1>3, <1>6 DEF Dump
  <2> QED
    BY <1>1, <1>6, <2>1, <2>2, <2>3, <1>goes DEF Dump
<1>7. CASE DumpEnds(c)
  <2> DEFINE u == [t EXCEPT !.pc = "dumped", !.state.whole = TRUE]
  <2>1. u \in Compilation /\ u.path = m /\ u.sync = t.sync
    BY <1>2 DEF Compilation, State
  <2>2. comp' = [comp EXCEPT ![c] = u]
    BY <1>7 DEF DumpEnds
  <2>3. [t.state EXCEPT !.whole = (temp[m] = t.state)] \in State
    BY <1>3 DEF State
  <2>4. temp' \in [Models -> State \cup {None}]
    BY <1>1, <1>7, <2>3 DEF DumpEnds
  <2> QED
    BY <1>1, <1>7, <2>1, <2>2, <2>4, <1>goes DEF DumpEnds
<1>8. CASE ReadDump(c)
  <2>1. CASE temp[m] = None
    BY <1>1, <1>8, <2>1, <1>ends DEF ReadDump, disk
  <2>2. CASE temp[m] # None
    <3> DEFINE s == [temp[m] EXCEPT !.clean = @ /\ t.state.clean]
               u == [t EXCEPT !.pc = "read", !.state = s]
    <3>1. temp[m] \in State
      BY <1>1, <1>3, <2>2
    <3>2. s \in State
      BY <1>3, <3>1 DEF State
    <3>3. comp' = [comp EXCEPT ![c] = u] /\ UNCHANGED <<locks, req>>
      BY <1>8, <2>2 DEF ReadDump
    <3> HIDE DEF s
    <3>4. u \in Compilation /\ u.path = m /\ u.sync = t.sync
      BY <1>2, <3>2 DEF Compilation
    <3> QED
      BY <1>1, <1>8, <3>3, <3>4, <1>goes DEF ReadDump, disk
  <2> QED
    BY <2>1, <2>2
<1>9. CASE Serialize(c)
  <2> DEFINE u == [t EXCEPT !.pc = "writing"]
  <2>1. u \in Compilation /\ u.path = m /\ u.sync = t.sync
    BY <1>2 DEF Compilation
  <2>2. comp' = [comp EXCEPT ![c] = u]
    BY <1>9 DEF Serialize
  <2>3. kv' \in [Models -> File \cup {None}]
    BY <1>1, <1>3, <1>9, Conversions DEF Serialize
  <2> QED
    BY <1>1, <1>9, <2>1, <2>2, <2>3, <1>goes DEF Serialize
<1>10. CASE SerializeEnds(c)
  <2>1. CASE Ends(c, FALSE) /\ UNCHANGED disk
    BY <1>1, <2>1, <1>ends DEF disk
  <2>2. CASE /\ kv' = [kv EXCEPT ![m] = IF @ = None THEN None ELSE AsFile(t.state, TRUE)]
             /\ temp' = [temp EXCEPT ![m] = None]
             /\ Ends(c, TRUE)
    <3>1. kv' \in [Models -> File \cup {None}] /\ temp' \in [Models -> State \cup {None}]
      BY <1>1, <1>3, <2>2, Conversions
    <3> QED
      BY <2>2, <3>1, <1>ends
  <2> QED
    BY <1>10, <2>1, <2>2 DEF SerializeEnds
<1> QED
  BY <1>5, <1>6, <1>7, <1>8, <1>9, <1>10 DEF Compile

(* The user, other processes, crashes and the daemon. *)
LEMMA OthersStep ==
    ASSUME SkillInv, Others \/ Daemon
    PROVE  SkillInv'
<1>1. /\ SkillTypeOK /\ req \in Request /\ schema \in Models \cup {None} /\ md \in 0..MaxEdits
      /\ kv \in [Models -> File \cup {None}] /\ temp \in [Models -> State \cup {None}]
      /\ index \in Indices /\ changes \in 0..MaxChanges
      /\ comp \in [Compilers -> Compilation \cup {None}]
      /\ OneCompilerPerPath /\ OneWaits
  BY DEF SkillInv, SkillTypeOK
<1>types. /\ Outdated(index) \in Indices /\ Restarted(index) \in Indices /\ Requeued(index) \in Indices
          /\ Wiped(index) \in Indices /\ OrphansGone(index) \in Indices
  BY <1>1, DisturbedType
<1>changed. Changed => changes' \in 0..MaxChanges
  BY <1>1, SkillCacheAssumption DEF Changed
<1>disturb. Disturb => req' \in Request /\ req'.pc = req.pc /\ req'.model = req.model
  BY <1>1 DEF Disturb, Request
<1>left. LeftBehind \in [Models -> State \cup {None}]
  <2>1. \A s \in State : [s EXCEPT !.clean = FALSE] \in State
    BY DEF State
  <2> QED
    BY <1>1, <2>1 DEF LeftBehind
<1>keep. ASSUME UNCHANGED <<locks, comp>>,
                UNCHANGED req \/ Disturb,
                md' \in 0..MaxEdits, schema' \in Models \cup {None}, router' \in Models \cup {None},
                kv' \in [Models -> File \cup {None}], temp' \in [Models -> State \cup {None}],
                index' \in Indices, changes' \in 0..MaxChanges
         PROVE  SkillInv'
  <2>1. req' \in Request /\ req'.pc = req.pc /\ req'.model = req.model
    BY <1>1, <1>keep, <1>disturb
  <2>2. Active' = Active
    BY <1>keep DEF Active
  <2>3. OneCompilerPerPath' /\ OneWaits'
    BY <1>1, <1>keep, <2>1, <2>2 DEF OneCompilerPerPath, OneWaits
  <2> QED
    BY <1>1, <1>keep, <2>1, <2>3 DEF SkillInv, SkillTypeOK
<1>2. CASE EditSkill
  <2>1. md' \in 0..MaxEdits
    BY <1>1, <1>2, SkillCacheAssumption DEF EditSkill
  <2>2. kv' \in [Models -> File \cup {None}]
    <3>1. \A f \in File : [f EXCEPT !.newer = FALSE] \in File
      BY DEF File
    <3> QED
      BY <1>1, <1>2, <3>1 DEF EditSkill
  <2>3. temp' \in [Models -> State \cup {None}]
    BY <1>2, <1>left DEF EditSkill
  <2>4. ASSUME NEW c \in Compilers
        PROVE  /\ comp'[c] \in Compilation \cup {None} /\ (comp'[c] = None <=> comp[c] = None)
               /\ comp[c] # None => comp'[c].path = comp[c].path /\ comp'[c].sync = comp[c].sync
    <3>1. comp'[c] = IF comp[c] = None THEN None ELSE [comp[c] EXCEPT !.state.clean = FALSE]
      BY <1>2 DEF EditSkill
    <3>2. CASE comp[c] = None
      BY <3>1, <3>2
    <3>3. CASE comp[c] # None
      <4> DEFINE u == [comp[c] EXCEPT !.state.clean = FALSE]
      <4>1. comp[c] \in Compilation
        BY <1>1, <3>3
      <4>2. u \in Compilation /\ u.path = comp[c].path /\ u.sync = comp[c].sync
        BY <4>1 DEF Compilation, State
      <4>3. u # None
        BY <4>2, NoneAssumption
      <4> QED
        BY <3>1, <3>3, <4>2, <4>3
    <3> QED
      BY <3>2, <3>3
  <2>5. comp' \in [Compilers -> Compilation \cup {None}]
    BY <1>2, <2>4 DEF EditSkill
  <2>6. Active' = Active /\ \A c \in Active : comp'[c].path = comp[c].path /\ comp'[c].sync = comp[c].sync
    BY <2>4 DEF Active
  <2>7. /\ UNCHANGED <<schema, router, locks>> /\ Disturb /\ changes' \in 0..MaxChanges
        /\ index' \in Indices
    BY <1>2, <1>types, <1>changed DEF EditSkill
  <2>8. req' \in Request /\ req'.pc = req.pc /\ req'.model = req.model
    BY <2>7, <1>disturb
  <2>9. OneCompilerPerPath' /\ OneWaits'
    BY <1>1, <2>6, <2>7, <2>8 DEF OneCompilerPerPath, OneWaits
  <2> QED
    BY <1>1, <2>1, <2>2, <2>3, <2>5, <2>7, <2>8, <2>9 DEF SkillInv, SkillTypeOK
<1>3. CASE ClearCache
  BY <1>1, <1>3, <1>types, <1>changed, <1>keep DEF ClearCache, SkillTypeOK
<1>4. CASE ClearOrphans
  BY <1>1, <1>4, <1>types, <1>changed, <1>keep DEF ClearOrphans, SkillTypeOK
<1>5. CASE Crash
  <2>1. /\ req' = Idle(schema) /\ req' \in Request /\ req'.pc = "idle"
    BY <1>1, <1>5, SkillCacheAssumption DEF Crash, Idle, Request
  <2>2. Active' = {} /\ locks' = {} /\ comp' \in [Compilers -> Compilation \cup {None}]
    BY <1>5 DEF Crash, Active
  <2>3. OneCompilerPerPath' /\ OneWaits'
    BY <2>2 DEF OneCompilerPerPath, OneWaits
  <2> QED
    BY <1>1, <1>5, <1>types, <1>left, <1>changed, <2>1, <2>2, <2>3 DEF Crash, SkillInv, SkillTypeOK
<1>6. ASSUME NEW e \in EmbModels, SetEmbeddingModel(e) PROVE SkillInv'
  <2>1. [index EXCEPT !.model = e] \in Indices
    BY <1>1 DEF Indices
  <2> QED
    BY <1>1, <1>6, <1>changed, <1>keep, <2>1 DEF SetEmbeddingModel, disk, SkillTypeOK
<1>7. ASSUME NEW m \in Models, SwitchModel(m) PROVE SkillInv'
  BY <1>1, <1>7, <1>types, <1>changed, <1>keep DEF SwitchModel, disk
<1>8. ASSUME NEW m \in Models, SetActive(m) PROVE SkillInv'
  BY <1>1, <1>8, <1>changed, <1>keep DEF SetActive, disk, SkillTypeOK
<1>9. CASE Daemon
  <2>1. index' \in Indices
    BY <1>1, <1>9, WorkedType DEF Daemon
  <2> QED
    BY <1>1, <1>9, <1>keep, <2>1 DEF Daemon, disk, SkillTypeOK
<1> QED
  BY <1>2, <1>3, <1>4, <1>5, <1>6, <1>7, <1>8, <1>9 DEF Others

(* No step breaks the invariant. *)
LEMMA SkillStep == SkillInv /\ [Next]_vars => SkillInv'
<1> SUFFICES ASSUME SkillInv, [Next]_vars PROVE SkillInv'
  OBVIOUS
<1>1. CASE Others \/ Daemon
  BY <1>1, OthersStep
<1>2. CASE Prompt \/ Serve
  BY <1>2, ServeStep, StartStep DEF Serve
<1>3. ASSUME NEW c \in Compilers, Compile(c) PROVE SkillInv'
  BY <1>3, CompileStep
<1>4. CASE UNCHANGED vars
  BY <1>4 DEF vars, SkillInv, SkillTypeOK, OneCompilerPerPath, OneWaits, Active
<1> QED
  BY <1>1, <1>2, <1>3, <1>4 DEF Next

(***************************************************************************)
(* The variables keep their types (CoreRouter::generate_stream, the index  *)
(* and the compilation).                                                   *)
(***************************************************************************)
THEOREM SkillTypes == Spec => []SkillTypeOK
<1>1. SkillInv => SkillTypeOK
  BY DEF SkillInv
<1> QED
  BY SkillInit, SkillStep, <1>1, PTL DEF Spec

(***************************************************************************)
(* No two tasks compile the cache of one model, whatever is edited,        *)
(* switched, cleared or crashes meanwhile (COMPILATION_LOCKS of router.rs).*)
(***************************************************************************)
THEOREM CompilersApart == Spec => []OneCompilerPerPath
<1>1. SkillInv => OneCompilerPerPath
  BY DEF SkillInv
<1> QED
  BY SkillInit, SkillStep, <1>1, PTL DEF Spec

-----------------------------------------------------------------------------
(***************************************************************************)
(* What is loaded for a prompt.  A file is stale once the text was edited  *)
(* and is then removed by the next prompt, before it is compiled again: so *)
(* that a task that nobody disturbed has no stale file beside it.  Only a  *)
(* disturbed prompt, or one with enable_kvcache off, copies a stale file   *)
(* into the dump's, and it removes the copy itself.                        *)
(***************************************************************************)
Upset == req.off \/ req.disturbed

FilesHonest ==
    \A m \in Models : kv[m] # None /\ kv[m].clean =>
        kv[m].by = m /\ (kv[m].newer => kv[m].ver = md)

TasksHonest ==
    \A c \in Active : comp[c].state.clean =>
        /\ comp[c].state.by = comp[c].path /\ comp[c].state.ver = md
        /\ kv[comp[c].path] # None => kv[comp[c].path].newer

Copied(m) ==
    /\ req.pc \in {"load", "warmLoad"} /\ req.model = m /\ Upset
    /\ \A c \in Active : comp[c].path = m => ~comp[c].state.clean

DumpsHonest ==
    \A m \in Models : temp[m] # None /\ temp[m].clean =>
        temp[m].by = m /\ (temp[m].ver = md \/ Copied(m))

RequestHonest ==
    /\ req.kv # None => req.kv.whole
    /\ req.off => req.pc \in {"warm", "warmUnpack", "warmLoad", "ready"}
    /\ req.pc # "idle" /\ ~Upset =>
        /\ req.model = schema
        /\ req.kv # None /\ req.kv.clean => req.kv.by = schema /\ req.kv.ver = md
        /\ req.pc \in {"look", "lock", "pause"} => req.ver = md
        /\ req.pc \notin {"check", "ready"} /\ kv[schema] # None => kv[schema].newer

HonestInv == SkillInv /\ FilesHonest /\ TasksHonest /\ DumpsHonest /\ RequestHonest

(* At the start there is nothing to load. *)
LEMMA HonestInit == Init => HonestInv
<1> SUFFICES ASSUME Init PROVE HonestInv
  OBVIOUS
<1>1. SkillInv
  BY SkillInit
<1>2. /\ kv = [m \in Models |-> None] /\ temp = [m \in Models |-> None]
      /\ comp = [c \in Compilers |-> None] /\ req = Idle(schema)
  BY DEF Init
<1>3. FilesHonest /\ TasksHonest /\ DumpsHonest
  BY <1>2 DEF FilesHonest, TasksHonest, DumpsHonest, Active
<1>4. RequestHonest
  BY <1>2 DEF RequestHonest, Idle
<1> QED
  BY <1>1, <1>3, <1>4 DEF HonestInv

(* The files stay as they were, or go; a copy goes with its request. *)
LEMMA FilesLess ==
    ASSUME HonestInv, UNCHANGED <<md, comp>>,
           \A m \in Models : kv'[m] \in {kv[m], None} /\ temp'[m] \in {temp[m], None},
           req.pc \in {"load", "warmLoad"} =>
               \/ req'.pc = req.pc /\ req'.model = req.model /\ (Upset => Upset')
               \/ temp'[req.model] = None
    PROVE  FilesHonest' /\ TasksHonest' /\ DumpsHonest'
<1>1. Active' = Active
  BY DEF Active
<1>2. FilesHonest'
  BY DEF HonestInv, FilesHonest
<1>3. TasksHonest'
  <2>1. \A c \in Active : comp[c].path \in Models
    BY DEF HonestInv, SkillInv, SkillTypeOK, Active, Compilation
  <2> QED
    BY <1>1, <2>1 DEF HonestInv, TasksHonest
<1>4. DumpsHonest'
  <2> SUFFICES ASSUME NEW m \in Models, temp'[m] # None, temp'[m].clean
               PROVE  temp'[m].by = m /\ (temp'[m].ver = md' \/ Copied(m)')
    BY DEF DumpsHonest
  <2>1. temp'[m] = temp[m] /\ temp[m].by = m /\ (temp[m].ver = md \/ Copied(m))
    BY DEF HonestInv, DumpsHonest
  <2>2. Copied(m) => Copied(m)'
    BY <1>1, <2>1 DEF Copied
  <2> QED
    BY <2>1, <2>2
<1> QED
  BY <1>2, <1>3, <1>4

(* The steps of the request that make no files. *)
LEMMA HonestServe ==
    ASSUME HonestInv,
           Prompt \/ TextPayload \/ CheckCache \/ MapCache \/ ReadBody \/ Look
             \/ Load \/ Warm \/ WarmLoad \/ Answer
    PROVE  FilesHonest' /\ TasksHonest' /\ DumpsHonest' /\ RequestHonest'
<1>1. /\ req \in Request /\ schema \in Models \cup {None} /\ RequestHonest
      /\ kv \in [Models -> File \cup {None}] /\ temp \in [Models -> State \cup {None}]
      /\ req.pc \notin {"idle", "ready"} => req.model \in Models
  BY DEF HonestInv, SkillInv, SkillTypeOK
<1>2. UNCHANGED <<md, schema, router, locks, comp>>
  BY DEF Prompt, TextPayload, CheckCache, MapCache, ReadBody, Look, Load, Warm,
         WarmLoad, Answer, world, disk
<1>3. FilesHonest' /\ TasksHonest' /\ DumpsHonest'
  <2>1. \A m \in Models : kv'[m] \in {kv[m], None} /\ temp'[m] \in {temp[m], None}
    BY <1>1 DEF Prompt, TextPayload, CheckCache, MapCache, ReadBody, Look, Load, Warm,
                WarmLoad, Answer, world, disk
  <2>2. req.pc \in {"load", "warmLoad"} => temp'[req.model] = None
    BY <1>1 DEF Prompt, TextPayload, CheckCache, MapCache, ReadBody, Look, Load, Warm,
                WarmLoad, Answer
  <2> QED
    BY <1>2, <2>1, <2>2, FilesLess
<1>4. CASE Prompt
  <2>1. /\ req'.off = FALSE /\ req'.kv = None /\ req'.model = schema /\ req'.pc \in {"check", "ready"}
    BY <1>4 DEF Prompt, Idle
  <2> QED
    BY <1>2, <1>3, <2>1 DEF RequestHonest
<1>5. CASE TextPayload
  <2>1. /\ req'.off = TRUE /\ req'.kv = req.kv /\ req'.pc = "warm"
    BY <1>1, <1>5 DEF TextPayload, Request
  <2> QED
    BY <1>1, <1>3, <2>1 DEF RequestHonest, Upset
<1>6. CASE CheckCache
  <2>1. /\ req.pc = "check" /\ req' = [req EXCEPT !.pc = req'.pc] /\ req'.pc \in {"body", "map"}
        /\ kv'[req.model] # None => kv'[req.model].newer
    BY <1>1, <1>6 DEF CheckCache, Goto, Invalid, Request
  <2>2. /\ req'.off = req.off /\ req'.kv = req.kv /\ req'.model = req.model
        /\ req'.disturbed = req.disturbed
    BY <1>1, <2>1 DEF Request
  <2> QED
    BY <1>1, <1>2, <1>3, <2>1, <2>2 DEF RequestHonest, Upset
<1>7. CASE MapCache
  <2>1. /\ req.pc = "map" /\ req'.pc = "warm" /\ req'.off = req.off /\ req'.kv = req.kv
        /\ req'.model = req.model /\ req'.disturbed = req.disturbed /\ kv' = kv
    BY <1>1, <1>7 DEF MapCache, Goto, Request, disk
  <2> QED
    BY <1>1, <1>2, <1>3, <2>1 DEF RequestHonest, Upset
<1>8. CASE ReadBody
  <2>1. /\ req.pc = "body" /\ req'.pc = "look" /\ req'.off = req.off /\ req'.kv = req.kv
        /\ req'.model = req.model /\ req'.disturbed = req.disturbed /\ req'.ver = md /\ kv' = kv
    BY <1>1, <1>8 DEF ReadBody, Request, disk
  <2> QED
    BY <1>1, <1>2, <1>3, <2>1 DEF RequestHonest, Upset
<1>9. CASE Look
  <2>0. /\ req.pc = "look" /\ kv' = kv
        /\ \/ GotoWarm
           \/ req' = [req EXCEPT !.pc = "lock", !.text = req.ver]
           \/ req' = [req EXCEPT !.pc = "pause"]
    BY <1>9 DEF Look, Goto, disk
  <2>1. /\ req.pc = "look" /\ req'.off = req.off /\ req'.kv = req.kv
        /\ req'.model = req.model /\ req'.disturbed = req.disturbed /\ kv' = kv
        /\ \/ req'.pc \in {"lock", "pause"} /\ req'.ver = req.ver
           \/ req'.pc = "warm"
    <3>1. CASE GotoWarm
      BY <1>1, <2>0, <3>1 DEF GotoWarm, Request
    <3>2. CASE req' = [req EXCEPT !.pc = "lock", !.text = req.ver]
      BY <1>1, <2>0, <3>2 DEF Request
    <3>3. CASE req' = [req EXCEPT !.pc = "pause"]
      BY <1>1, <2>0, <3>3 DEF Request
    <3> QED
      BY <2>0, <3>1, <3>2, <3>3
  <2>2. /\ ~Upset' => ~Upset
        /\ req'.pc \in {"look", "lock", "pause"} => req'.ver = req.ver
    BY <2>1 DEF Upset
  <2>3. RequestHonest'
    BY <1>1, <1>2, <2>1, <2>2 DEF RequestHonest
  <2> QED
    BY <1>3, <2>3
<1>10. CASE Load
  <2>1. PICK s \in {None} \cup {temp[req.model]} :
            (s # None => s.whole) /\ req' = [req EXCEPT !.pc = "warm", !.kv = s]
    BY <1>10 DEF Load
  <2>2. /\ req.pc = "load" /\ req.model \in Models /\ req'.pc = "warm" /\ req'.off = req.off
        /\ req'.kv = s /\ req'.model = req.model /\ req'.disturbed = req.disturbed /\ kv' = kv
    BY <1>1, <1>10, <2>1 DEF Load, Request
  <2>3. s # None /\ s.clean /\ ~Upset => s.by = req.model /\ s.ver = md
    BY <2>1, <2>2 DEF HonestInv, DumpsHonest, Copied
  <2> QED
    BY <1>1, <1>2, <1>3, <2>1, <2>2, <2>3 DEF RequestHonest, Upset
<1>11. CASE Warm
  <2>1. /\ req.pc = "warm" /\ req'.off = req.off /\ req'.kv = req.kv
        /\ req'.disturbed = req.disturbed /\ kv' = kv
        /\ \/ req'.pc = "warmUnpack" /\ req'.model = schema
           \/ req'.pc = "ready" /\ req'.model = req.model
    BY <1>1, <1>11 DEF Warm, Goto, Request, disk
  <2> QED
    BY <1>1, <1>2, <1>3, <2>1 DEF RequestHonest, Upset
<1>12. CASE WarmLoad
  <2>1. /\ req.pc = "warmLoad" /\ req.model \in Models /\ req'.pc = "ready" /\ req'.off = req.off
        /\ req'.model = req.model /\ req'.disturbed = req.disturbed
        /\ \/ req'.kv = None
           \/ req'.kv = temp[req.model] /\ temp[req.model] # None /\ temp[req.model].whole
    BY <1>1, <1>12 DEF WarmLoad, Request
  <2>2. req'.kv # None /\ req'.kv.clean /\ ~Upset => req'.kv.by = req.model /\ req'.kv.ver = md
    BY <2>1 DEF HonestInv, DumpsHonest, Copied
  <2> QED
    BY <1>1, <1>2, <1>3, <2>1, <2>2 DEF RequestHonest, Upset
<1>13. CASE Answer
  <2>1. req'.pc = "idle" /\ req'.off = FALSE /\ req'.kv = None
    BY <1>13 DEF Answer, Idle
  <2> QED
    BY <1>3, <2>1 DEF RequestHonest
<1> QED
  BY <1>3, <1>4, <1>5, <1>6, <1>7, <1>8, <1>9, <1>10, <1>11, <1>12, <1>13

(* A cache is copied into the dump's file. *)
LEMMA HonestUnpack ==
    ASSUME HonestInv, Unpack \/ WarmUnpack
    PROVE  FilesHonest' /\ TasksHonest' /\ DumpsHonest' /\ RequestHonest'
<1> DEFINE m == req.model
<1>1. /\ req \in Request /\ m \in Models /\ req.pc \in {"unpack", "warmUnpack"}
      /\ kv \in [Models -> File \cup {None}] /\ temp \in [Models -> State \cup {None}]
      /\ FilesHonest /\ TasksHonest /\ DumpsHonest /\ RequestHonest
  BY DEF HonestInv, SkillInv, SkillTypeOK, Unpack, WarmUnpack
<1>2. UNCHANGED <<md, schema, router, kv, comp>> /\ Unpacked(m)
  BY DEF Unpack, WarmUnpack, world
<1>3. /\ req'.pc \in {"load", "warmLoad"} /\ req'.off = req.off /\ req'.kv = req.kv
      /\ req'.model = req.model /\ req'.disturbed = req.disturbed
      /\ req'.pc = "load" <=> req.pc = "unpack"
  BY <1>1 DEF Unpack, WarmUnpack, Goto, Request
<1>4. FilesHonest' /\ TasksHonest'
  BY <1>1, <1>2 DEF FilesHonest, TasksHonest, Active
<1>5. RequestHonest'
  BY <1>1, <1>2, <1>3 DEF RequestHonest, Upset
<1>6. DumpsHonest'
  <2> SUFFICES ASSUME NEW n \in Models, temp'[n] # None, temp'[n].clean
               PROVE  temp'[n].by = n /\ (temp'[n].ver = md' \/ Copied(n)')
    BY DEF DumpsHonest
  <2>1. CASE temp'[n] = temp[n]
    BY <1>1, <1>2, <2>1 DEF DumpsHonest, Copied
  <2>2. CASE n = m /\ kv[m] # None /\ temp'[n] = AsState(kv[m])
    <3>1. temp'[n].by = kv[m].by /\ temp'[n].ver = kv[m].ver /\ kv[m].clean
      BY <2>2 DEF AsState
    <3>2. kv[m].by = m /\ (kv[m].newer => kv[m].ver = md)
      BY <1>1, <2>2, <3>1 DEF FilesHonest
    <3>3. CASE kv[m].newer
      BY <1>2, <2>2, <3>1, <3>2, <3>3
    <3>4. CASE ~kv[m].newer
      <4>1. Upset
        BY <1>1, <2>2, <3>4 DEF RequestHonest
      <4>2. \A c \in Active : comp[c].path = m => ~comp[c].state.clean
        BY <1>1, <2>2, <3>4 DEF TasksHonest
      <4>3. Copied(n)'
        BY <1>2, <1>3, <2>2, <4>1, <4>2 DEF Copied, Upset, Active
      <4> QED
        BY <2>2, <3>1, <3>2, <4>3
    <3> QED
      BY <3>3, <3>4
  <2> QED
    BY <1>1, <1>2, <2>1, <2>2 DEF Unpacked
<1> QED
  BY <1>4, <1>5, <1>6

(* A task is started on a path without a stale file. *)
LEMMA HonestStart ==
    ASSUME HonestInv, Background \/ Pause
    PROVE  FilesHonest' /\ TasksHonest' /\ DumpsHonest' /\ RequestHonest'
<1>1. /\ req \in Request /\ req.model \in Models /\ req.pc \in {"lock", "pause"}
      /\ FilesHonest /\ TasksHonest /\ DumpsHonest /\ RequestHonest /\ SkillInv
      /\ comp \in [Compilers -> Compilation \cup {None}] /\ router \in Models \cup {None}
  BY DEF HonestInv, SkillInv, SkillTypeOK, Background, Pause
<1>2. UNCHANGED <<md, schema, router, kv, temp>>
  BY DEF Background, Pause, world, disk
<1>3. /\ req'.pc \in {"warm", "await"} /\ req'.off = req.off /\ req'.kv = req.kv
      /\ req'.model = req.model /\ req'.disturbed = req.disturbed
  BY <1>1 DEF Background, Pause, Goto, GotoWarm, Request
<1>4. FilesHonest' /\ DumpsHonest'
  BY <1>1, <1>2 DEF FilesHonest, DumpsHonest, Copied
<1>5. RequestHonest'
  BY <1>1, <1>2, <1>3 DEF RequestHonest, Upset
<1>6. CASE UNCHANGED comp
  BY <1>1, <1>2, <1>4, <1>5, <1>6 DEF TasksHonest, Active
<1>7. ASSUME NEW sync \in BOOLEAN, router # None, Start(sync)
      PROVE  TasksHonest'
  <2> DEFINE c == CHOOSE d \in Compilers : comp[d] = None
             state == [by |-> router, ver |-> req.ver, whole |-> FALSE,
                       clean |-> router = req.model /\ ~req.disturbed]
             task == [path |-> req.model, sync |-> sync, pc |-> "spawned", state |-> state]
  <2>1. Active # Compilers /\ comp' = [comp EXCEPT ![c] = task]
    BY <1>7 DEF Start
  <2>2. c \in Compilers /\ comp[c] = None
    BY <2>1 DEF Active
  <2>3. state.clean => router = req.model /\ ~req.disturbed
    OBVIOUS
  <2>4. ~req.off
    BY <1>1 DEF RequestHonest
  <2>5. state.clean => /\ state.by = req.model /\ state.ver = md
                       /\ kv[req.model] # None => kv[req.model].newer
    BY <1>1, <2>3, <2>4 DEF RequestHonest, Upset
  <2>6. task.path = req.model /\ task.state = state
    OBVIOUS
  <2> HIDE DEF c, task, state
  <2>7. ASSUME NEW d \in Active' PROVE (d \in Active /\ comp'[d] = comp[d]) \/ comp'[d] = task
    BY <1>1, <2>1, <2>2 DEF Active
  <2> QED
    BY <1>1, <1>2, <2>5, <2>6, <2>7 DEF TasksHonest
<1> QED
  BY <1>4, <1>5, <1>6, <1>7 DEF Background, Pause

(* A task dumps what it computes, and serializes what it reads. *)
LEMMA HonestCompile ==
    ASSUME HonestInv, NEW c \in Compilers, Compile(c)
    PROVE  FilesHonest' /\ TasksHonest' /\ DumpsHonest' /\ RequestHonest'
<1> DEFINE t == comp[c]
           m == comp[c].path
           Fresh == \A n \in Models : kv'[n] = kv[n] \/ (kv'[n] # None /\ kv'[n].newer)
           Kept == /\ TasksHonest' /\ RequestHonest'
                   /\ \A n \in Models : Copied(n) => Copied(n)'
           Dumps == \A n \in Models :
                       \/ temp'[n] \in {temp[n], None}
                       \/ n = m /\ temp'[n] \in State
                          /\ (temp'[n].clean => temp'[n].by = m /\ temp'[n].ver = md)
<1>1. /\ req \in Request /\ FilesHonest /\ TasksHonest /\ DumpsHonest /\ RequestHonest /\ SkillInv
      /\ kv \in [Models -> File \cup {None}] /\ temp \in [Models -> State \cup {None}]
      /\ comp \in [Compilers -> Compilation \cup {None}]
      /\ req.pc \notin {"idle", "ready"} => req.model \in Models
  BY DEF HonestInv, SkillInv, SkillTypeOK
<1>2. t \in Compilation /\ t # None /\ c \in Active
  BY <1>1 DEF Compile, Dump, DumpEnds, ReadDump, Serialize, SerializeEnds, CompileFails, Active
<1>3. m \in Models /\ t.state \in State
  BY <1>2 DEF Compilation
<1>4. UNCHANGED <<md, schema, router>>
  BY DEF Compile, Dump, DumpEnds, ReadDump, Serialize, SerializeEnds, CompileFails, world
<1>5. t.state.clean => t.state.by = m /\ t.state.ver = md /\ (kv[m] # None => kv[m].newer)
  BY <1>1, <1>2 DEF TasksHonest
<1>goes. ASSUME NEW u \in Compilation, u.path = m, comp' = [comp EXCEPT ![c] = u], UNCHANGED req,
                u.state.clean => t.state.clean /\ u.state.by = m /\ u.state.ver = md,
                Fresh
         PROVE  Kept
  <2>1. u # None
    BY NoneAssumption
  <2>2. Active' = Active /\ comp'[c] = u /\ \A d \in Active : d # c => comp'[d] = comp[d]
    BY <1>1, <1>2, <1>goes, <2>1 DEF Active
  <2>3. \A d \in Active : comp[d].path \in Models
    BY <1>1 DEF Active, Compilation
  <2>4. TasksHonest'
    BY <1>1, <1>3, <1>4, <1>5, <1>goes, <2>2, <2>3 DEF TasksHonest
  <2>5. RequestHonest'
    <3>1. \A n \in Models : kv'[n] # None => kv'[n].newer \/ kv'[n] = kv[n]
      BY <1>goes
    <3> QED
      BY <1>1, <1>4, <1>goes, <3>1 DEF RequestHonest, Upset
  <2>6. \A n \in Models : Copied(n) => Copied(n)'
    BY <1>goes, <2>2 DEF Copied, Upset
  <2> QED
    BY <2>4, <2>5, <2>6
<1>ends. ASSUME NEW ok, Ends(c, ok), Fresh
         PROVE  Kept
  <2>1. /\ \/ UNCHANGED req
           \/ req.pc = "await" /\ (req' = [req EXCEPT !.pc = "unpack"] \/ GotoWarm)
    BY <1>1, <1>2, <1>ends, TaskEnds
  <2>2. Active' = Active \ {c} /\ \A d \in Active' : comp'[d] = comp[d]
    BY <1>1, <1>ends DEF Ends, Active
  <2>3. \A d \in Active : comp[d].path \in Models
    BY <1>1 DEF Active, Compilation
  <2>4. TasksHonest'
    BY <1>1, <1>4, <1>ends, <2>2, <2>3 DEF TasksHonest
  <2>5. CASE UNCHANGED req
    <3>1. RequestHonest'
      BY <1>1, <1>4, <1>ends, <2>5 DEF RequestHonest, Upset
    <3>2. \A n \in Models : Copied(n) => Copied(n)'
      BY <2>2, <2>5 DEF Copied, Upset
    <3> QED
      BY <2>4, <3>1, <3>2
  <2>6. CASE req.pc = "await" /\ (req' = [req EXCEPT !.pc = "unpack"] \/ GotoWarm)
    <3>1. /\ req'.pc \in {"unpack", "warm"} /\ req'.off = req.off /\ req'.kv = req.kv
          /\ req'.model = req.model /\ req'.disturbed = req.disturbed
      BY <1>1, <2>6 DEF GotoWarm, Request
    <3>2. RequestHonest'
      BY <1>1, <1>4, <1>ends, <2>6, <3>1 DEF RequestHonest, Upset
    <3> QED
      BY <2>4, <2>6, <3>2 DEF Copied
  <2> QED
    BY <2>1, <2>5, <2>6
<1>files. ASSUME UNCHANGED kv PROVE FilesHonest'
  BY <1>1, <1>4, <1>files DEF FilesHonest
<1>dumps. ASSUME Kept, Dumps PROVE DumpsHonest'
  BY <1>1, <1>4, <1>dumps DEF DumpsHonest
<1>same. (UNCHANGED kv => Fresh) /\ (UNCHANGED temp => Dumps)
  <2>1. UNCHANGED kv => \A n \in Models : kv'[n] = kv[n]
    OBVIOUS
  <2>2. UNCHANGED temp => \A n \in Models : temp'[n] = temp[n]
    OBVIOUS
  <2> QED
    BY <2>1, <2>2, Zenon
<1>done. Kept => TasksHonest' /\ RequestHonest'
  OBVIOUS
<1> HIDE DEF Fresh, Kept, Dumps
<1>6. CASE CompileFails(c)
  <2>1. UNCHANGED <<kv, temp>> /\ Ends(c, FALSE)
    BY <1>6 DEF CompileFails, disk
  <2> QED
    BY <2>1, <1>ends, <1>files, <1>dumps, <1>same, <1>done, Zenon
<1>7. CASE Dump(c)
  <2> DEFINE u == [t EXCEPT !.pc = "dumping"]
  <2>1. u \in Compilation /\ u.path = m /\ u.state = t.state
    BY <1>2 DEF Compilation
  <2>2. comp' = [comp EXCEPT ![c] = u] /\ UNCHANGED <<kv, req>> /\ temp' = [temp EXCEPT ![m] = t.state]
    BY <1>7 DEF Dump
  <2> HIDE DEF u
  <2>3. Kept
    BY <1>5, <1>goes, <1>same, <2>1, <2>2
  <2>4. DumpsHonest'
    BY <1>1, <1>3, <1>5, <2>2, <2>3, <1>dumps DEF Dumps
  <2> QED
    BY <1>files, <1>done, <2>2, <2>3, <2>4
<1>8. CASE DumpEnds(c)
  <2> DEFINE u == [t EXCEPT !.pc = "dumped", !.state.whole = TRUE]
             s == [t.state EXCEPT !.whole = (temp[m] = t.state)]
  <2>1. /\ u \in Compilation /\ u.path = m /\ u.state.clean = t.state.clean
        /\ u.state.by = t.state.by /\ u.state.ver = t.state.ver
    BY <1>2 DEF Compilation, State
  <2>2. s \in State /\ s.clean = t.state.clean /\ s.by = t.state.by /\ s.ver = t.state.ver
    BY <1>3 DEF State
  <2>3. /\ comp' = [comp EXCEPT ![c] = u] /\ UNCHANGED <<kv, req>>
        /\ temp' = [temp EXCEPT ![m] = IF @ = None THEN None ELSE s]
    BY <1>8 DEF DumpEnds
  <2> HIDE DEF u, s
  <2>4. Kept
    BY <1>5, <1>goes, <1>same, <2>1, <2>3
  <2>5. DumpsHonest'
    BY <1>1, <1>3, <1>5, <2>2, <2>3, <2>4, <1>dumps DEF Dumps
  <2> QED
    BY <1>files, <1>done, <2>3, <2>4, <2>5
<1>9. CASE ReadDump(c)
  <2>1. UNCHANGED <<kv, temp>>
    BY <1>9 DEF ReadDump, disk
  <2>2. CASE temp[m] = None
    <3>1. Ends(c, FALSE)
      BY <1>9, <2>2 DEF ReadDump
    <3> QED
      BY <2>1, <3>1, <1>ends, <1>files, <1>dumps, <1>same, <1>done, Zenon
  <2>3. CASE temp[m] # None
    <3> DEFINE s == [temp[m] EXCEPT !.clean = @ /\ t.state.clean]
               u == [t EXCEPT !.pc = "read", !.state = s]
    <3>1. temp[m] \in State
      BY <1>1, <1>3, <2>3
    <3>2. s \in State /\ s.by = temp[m].by /\ s.ver = temp[m].ver
          /\ (s.clean => temp[m].clean /\ t.state.clean)
      BY <1>3, <3>1 DEF State
    <3>3. comp' = [comp EXCEPT ![c] = u] /\ UNCHANGED req
      BY <1>9, <2>3 DEF ReadDump
    <3> HIDE DEF s
    <3>4. u \in Compilation /\ u.path = m /\ u.state = s
      BY <1>2, <3>2 DEF Compilation
    <3> HIDE DEF u
    <3>5. s.clean => s.by = m /\ s.ver = md
      <4>1. t.state.clean => ~Copied(m)
        BY <1>2 DEF Copied
      <4> QED
        BY <1>1, <1>3, <2>3, <3>2, <4>1 DEF DumpsHonest
    <3>6. Kept
      BY <1>goes, <1>same, <2>1, <3>2, <3>3, <3>4, <3>5
    <3> QED
      BY <1>files, <1>dumps, <1>same, <1>done, <2>1, <3>6, Zenon
  <2> QED
    BY <2>2, <2>3
<1>10. CASE Serialize(c)
  <2> DEFINE u == [t EXCEPT !.pc = "writing"]
             f == AsFile(t.state, FALSE)
  <2>1. u \in Compilation /\ u.path = m /\ u.state = t.state
    BY <1>2 DEF Compilation
  <2>2. /\ f \in File /\ f.newer /\ f.clean = t.state.clean /\ f.by = t.state.by
        /\ f.ver = t.state.ver
    BY <1>3, Conversions DEF AsFile
  <2>3. f # None
    BY <2>2, NoneAssumption
  <2>4. comp' = [comp EXCEPT ![c] = u] /\ UNCHANGED <<temp, req>> /\ kv' = [kv EXCEPT ![m] = f]
    BY <1>10 DEF Serialize
  <2> HIDE DEF u, f
  <2>5. Fresh
    <3>1. \A n \in Models : kv'[n] = kv[n] \/ kv'[n] = f
      BY <1>1, <2>4
    <3> QED
      BY <2>2, <2>3, <3>1, Zenon DEF Fresh
  <2>6. Kept
    BY <1>5, <1>goes, <2>1, <2>4, <2>5
  <2>7. FilesHonest'
    BY <1>1, <1>3, <1>4, <1>5, <2>2, <2>4 DEF FilesHonest
  <2> QED
    BY <1>dumps, <1>same, <1>done, <2>4, <2>6, <2>7
<1>11. CASE SerializeEnds(c)
  <2>1. CASE Ends(c, FALSE) /\ UNCHANGED disk
    <3>1. UNCHANGED <<kv, temp>> /\ Ends(c, FALSE)
      BY <2>1 DEF disk
    <3> QED
      BY <3>1, <1>ends, <1>files, <1>dumps, <1>same, <1>done, Zenon
  <2>2. CASE /\ kv' = [kv EXCEPT ![m] = IF @ = None THEN None ELSE AsFile(t.state, TRUE)]
             /\ temp' = [temp EXCEPT ![m] = None]
             /\ Ends(c, TRUE)
    <3> DEFINE f == AsFile(t.state, TRUE)
    <3>1. /\ f \in File /\ f.newer /\ f.clean = t.state.clean /\ f.by = t.state.by
          /\ f.ver = t.state.ver
      BY <1>3, Conversions DEF AsFile
    <3>2. f # None
      BY <3>1, NoneAssumption
    <3>3. kv' = [kv EXCEPT ![m] = IF @ = None THEN None ELSE f]
      BY <2>2
    <3> HIDE DEF f
    <3>4. Fresh
      <4>1. \A n \in Models : kv'[n] = kv[n] \/ kv'[n] = f
        BY <1>1, <3>3
      <4> QED
        BY <3>1, <3>2, <4>1, Zenon DEF Fresh
    <3>5. Kept
      BY <1>ends, <2>2, <3>4
    <3>6. FilesHonest'
      BY <1>1, <1>3, <1>4, <1>5, <3>1, <3>3 DEF FilesHonest
    <3>7. DumpsHonest'
      BY <1>1, <1>dumps, <2>2, <3>5 DEF Dumps
    <3> QED
      BY <1>done, <3>5, <3>6, <3>7
  <2> QED
    BY <1>11, <2>1, <2>2 DEF SerializeEnds
<1> QED
  BY <1>6, <1>7, <1>8, <1>9, <1>10, <1>11 DEF Compile

(* An edit and a crash take the honour of every dump; the others leave the *)
(* files, or remove them.                                                  *)
LEMMA HonestOthers ==
    ASSUME HonestInv, Others \/ Daemon
    PROVE  FilesHonest' /\ TasksHonest' /\ DumpsHonest' /\ RequestHonest'
<1>1. /\ req \in Request /\ FilesHonest /\ TasksHonest /\ DumpsHonest /\ RequestHonest
      /\ kv \in [Models -> File \cup {None}] /\ temp \in [Models -> State \cup {None}]
      /\ comp \in [Compilers -> Compilation \cup {None}]
      /\ req.pc \notin {"idle", "ready"} => req.model \in Models
  BY DEF HonestInv, SkillInv, SkillTypeOK
<1>left. ASSUME temp' = LeftBehind
         PROVE  DumpsHonest'
  <2>1. \A m \in Models : temp'[m] # None => ~temp'[m].clean
    BY <1>1, <1>left DEF LeftBehind, State
  <2> QED
    BY <2>1 DEF DumpsHonest
<1>disturb. ASSUME Disturb
            PROVE  /\ req'.pc = req.pc /\ req'.model = req.model /\ req'.off = req.off
                   /\ req'.kv = req.kv
                   /\ Upset => req.pc = "idle" \/ Upset'
                   /\ RequestHonest'
  <2>1. /\ req'.pc = req.pc /\ req'.model = req.model /\ req'.off = req.off
        /\ req'.kv = req.kv /\ req'.disturbed = (req.pc # "idle")
    BY <1>1, <1>disturb DEF Disturb, Request
  <2>2. req.pc # "idle" => Upset'
    BY <2>1 DEF Upset
  <2> QED
    BY <1>1, <2>1, <2>2 DEF RequestHonest
<1>2. CASE EditSkill
  <2>1. FilesHonest'
    <3>1. \A m \in Models : kv'[m] # None =>
              kv[m] # None /\ ~kv'[m].newer /\ kv'[m].by = kv[m].by /\ kv'[m].clean = kv[m].clean
      BY <1>1, <1>2 DEF EditSkill, File
    <3> QED
      BY <1>1, <3>1 DEF FilesHonest
  <2>2. TasksHonest'
    <3>1. \A c \in Active' : ~comp'[c].state.clean
      BY <1>1, <1>2 DEF EditSkill, Active, Compilation, State
    <3> QED
      BY <3>1 DEF TasksHonest
  <2> QED
    BY <1>2, <2>1, <2>2, <1>left, <1>disturb DEF EditSkill
<1>3. CASE ClearCache \/ ClearOrphans
  <2>1. /\ UNCHANGED <<md, schema, comp, req>>
        /\ \A m \in Models : kv'[m] \in {kv[m], None} /\ temp'[m] \in {temp[m], None}
    BY <1>1, <1>3 DEF ClearCache, ClearOrphans
  <2>2. RequestHonest'
    <3>1. schema \in Models => kv'[schema] \in {kv[schema], None}
      BY <2>1
    <3> QED
      BY <1>1, <2>1, <3>1 DEF RequestHonest, Upset
  <2>3. Upset' = Upset
    BY <2>1 DEF Upset
  <2> QED
    BY <2>1, <2>2, <2>3, FilesLess
<1>4. CASE Crash
  <2>1. Active' = {} /\ UNCHANGED <<md, kv>> /\ temp' = LeftBehind /\ req' = Idle(schema)
    BY <1>4 DEF Crash, Active
  <2>2. FilesHonest' /\ TasksHonest'
    BY <1>1, <2>1 DEF FilesHonest, TasksHonest
  <2>3. RequestHonest'
    BY <2>1 DEF RequestHonest, Idle
  <2> QED
    BY <1>left, <2>1, <2>2, <2>3
<1>5. CASE (\E e \in EmbModels : SetEmbeddingModel(e)) \/ (\E m \in Models : SetActive(m))
  <2>1. UNCHANGED <<md, comp, kv, temp>> /\ Disturb
    BY <1>5 DEF SetEmbeddingModel, SetActive, disk
  <2>2. \A m \in Models : kv'[m] \in {kv[m], None} /\ temp'[m] \in {temp[m], None}
    BY <2>1
  <2> QED
    BY <2>1, <2>2, <1>disturb, FilesLess
<1>6. CASE (\E m \in Models : SwitchModel(m)) \/ Daemon
  <2>1. UNCHANGED <<md, comp, kv, temp, req>> /\ (req.pc = "idle" \/ UNCHANGED schema)
    BY <1>6 DEF SwitchModel, Daemon, disk
  <2>2. /\ \A m \in Models : kv'[m] \in {kv[m], None} /\ temp'[m] \in {temp[m], None}
        /\ Upset' = Upset
    BY <2>1 DEF Upset
  <2>3. RequestHonest'
    BY <1>1, <2>1 DEF RequestHonest, Upset
  <2> QED
    BY <2>1, <2>2, <2>3, FilesLess
<1> QED
  BY <1>2, <1>3, <1>4, <1>5, <1>6 DEF Others

(* No step breaks the invariant. *)
LEMMA HonestStep == HonestInv /\ [Next]_vars => HonestInv'
<1> SUFFICES ASSUME HonestInv, [Next]_vars PROVE HonestInv'
  OBVIOUS
<1>1. SkillInv'
  BY SkillStep DEF HonestInv
<1>2. FilesHonest' /\ TasksHonest' /\ DumpsHonest' /\ RequestHonest'
  <2>1. CASE Others \/ Daemon
    BY <2>1, HonestOthers
  <2>2. CASE Prompt \/ Serve
    BY <2>2, HonestServe, HonestUnpack, HonestStart DEF Serve
  <2>3. ASSUME NEW c \in Compilers, Compile(c)
        PROVE  FilesHonest' /\ TasksHonest' /\ DumpsHonest' /\ RequestHonest'
    BY <2>3, HonestCompile
  <2>4. CASE UNCHANGED vars
    BY <2>4 DEF vars, HonestInv, FilesHonest, TasksHonest, DumpsHonest, RequestHonest,
                Copied, Upset, Active
  <2> QED
    BY <2>1, <2>2, <2>3, <2>4 DEF Next
<1> QED
  BY <1>1, <1>2 DEF HonestInv

(***************************************************************************)
(* What is loaded for a prompt that nobody disturbed was made by the model *)
(* of the router, from the text as it is, however often the text, the      *)
(* model and the caches were changed before (generate_stream, router.rs).  *)
(***************************************************************************)
THEOREM HonestHits == Spec => []HonestHit
<1>1. HonestInv => HonestHit
  BY DEF HonestInv, RequestHonest, Upset, HonestHit
<1> QED
  BY HonestInit, HonestStep, <1>1, PTL DEF Spec
=============================================================================
