------------------------------ MODULE Session -------------------------------
(***************************************************************************)
(* The terminal session (src/cmd): main and the commands that open the     *)
(* dashboard, App::run, the dashboard's input loop, the model list, the    *)
(* switch of the model, and the answer to a message, generated in pieces   *)
(* through the agentic loop of module ToolStream.                          *)
(*                                                                         *)
(* One thread does it all.  What interleaves with it is the engine's text, *)
(* the user (lines, pasted lines, choices, Ctrl+C), and other processes    *)
(* that install and delete models.  The kernel is a library with statics   *)
(* of its own and is given the pointer to GLOBAL_SKIP_THINKING_SIGNAL only *)
(* (interface-engines/manager/mod.rs): Ctrl+C stops an answer through the  *)
(* callback, never through the kernel's poll of its GLOBAL_CANCEL_SIGNAL.  *)
(***************************************************************************)
EXTENDS ToolStream, FiniteSets

CONSTANTS Models,    \* chat models
          None,      \* no model
          Symbols,   \* what texts are made of
          Pieces,    \* the texts that the engine generates at a time
          Grammars,  \* what dynamic_triggers may be
          MaxLines,  \* bound: lines of one process
          MaxSteps   \* bound: inputs, pieces and changes by others together

ASSUME SessionAssumption == None \notin Models /\ MaxSteps \in Nat /\ MaxLines \in Nat

(* A piece, which is one token in the engine, has nothing before the end   *)
(* of a trigger and no other trigger behind it; a skill's trigger has      *)
(* nothing of "<TRIGGER:" but its '<'.                                     *)
ASSUME TextAssumption ==
    /\ Pieces \subseteq Seq(Symbols)
    /\ \A p \in Pieces : \A i, j \in 1..Len(p) : p[i] = "E" => i = 1 /\ p[j] # "R"
    /\ Grammars \subseteq Seq(Seq(Symbols \ {"E", "R"}))

VARIABLES
    at,      \* where the thread is
    engine,  \* Core_engine: router (its model) and is_loaded
    active,  \* _active_model_id
    perm,    \* Permission.json: the active chat model
    lazy,    \* Permission.json: lazy_load_model
    disk,    \* the models whose files are in ./models
    roster,  \* sorted_models: known, and those with is_cached
    paste,   \* chat_paste_buffer
    cancel,  \* GLOBAL_CANCEL_SIGNAL
    stream,  \* the answer in progress, of ToolStream
    tty,     \* the terminal's input: the lines that no prompt has read yet
    inquire, \* the lines that the prompt's library has read ahead
    heard,   \* history: how each line of the user came
    done,    \* history: the lines taken out for a message, in that order
    steps    \* inputs, pieces and changes by others so far

vars == <<at, engine, active, perm, lazy, disk, roster, paste, cancel, stream,
          tty, inquire, heard, done, steps>>
answering == <<cancel, stream>>
input == <<tty, inquire>>
lines == <<paste, input, heard, done>>
settings == <<perm, lazy>>
ModelOrNone == Models \cup {None}

NoEngine == [router |-> None, loaded |-> FALSE]
NoRoster == [known |-> {}, cached |-> {}]
NoStream == Start(<<>>)

\* Mutant of Listed: the entries are those on disk, and all count as cached.
ListedCached == [known |-> disk, cached |-> Models]

(* CoreRoster::get_recommendations: all models, cached or not. *)
Listed == [known |-> Models, cached |-> disk]

Count == steps < MaxSteps /\ steps' = steps + 1

\* Mutant of Load: a load that fails leaves is_loaded as it was.
LoadKeeps(m, e) ==
    {e} \cup (IF m \in disk THEN {[router |-> m, loaded |-> TRUE]} ELSE {})

(***************************************************************************)
(* CoreEngine::load_model: not loaded while it runs; when it fails the     *)
(* router keeps the engine it had.  It fails without the file, and may     *)
(* fail with it.                                                           *)
(***************************************************************************)
Load(m, e) ==
    {[e EXCEPT !.loaded = FALSE]} \cup
        (IF m \in disk THEN {[router |-> m, loaded |-> TRUE]} ELSE {})

(***************************************************************************)
(* A process begins: AppState::new takes the active model from             *)
(* Permission.json.                                                        *)
(***************************************************************************)
NewProcess ==
    /\ at' = "launch" /\ engine' = NoEngine /\ active' = perm
    /\ roster' = NoRoster /\ paste' = <<>> /\ cancel' = FALSE
    /\ stream' = NoStream /\ tty' = <<>> /\ inquire' = <<>>

Init ==
    /\ at = "launch" /\ engine = NoEngine /\ roster = NoRoster /\ paste = <<>>
    /\ perm \in ModelOrNone /\ active = perm /\ lazy \in BOOLEAN
    /\ disk \in SUBSET Models
    /\ cancel = FALSE /\ stream = NoStream
    /\ tty = <<>> /\ inquire = <<>>
    /\ heard = <<>> /\ done = <<>> /\ steps = 0

(***************************************************************************)
(* App::run from `cluaiz` and its menu.  The list of models is filled only *)
(* by the dashboard, so that the active model is never found in it: the    *)
(* background mount is never begun, and without lazy_load_model the active *)
(* model is forgotten.                                                     *)
(***************************************************************************)
LaunchMenu ==
    /\ at = "launch" /\ at' = "menu"
    /\ UNCHANGED <<engine, active, settings, disk, roster, answering, lines,
                   steps>>

OpenDashboard ==
    /\ at' = "boot"
    /\ active' = IF lazy THEN active ELSE None
    /\ UNCHANGED <<engine, settings, disk, roster, answering, lines, steps>>

(* Esc, Ctrl+C or "Quit" at the main menu. *)
MenuQuit ==
    /\ at = "menu" /\ at' = "quit"
    /\ UNCHANGED <<engine, active, settings, disk, roster, answering, lines,
                   steps>>

StartChat == at = "launch" /\ OpenDashboard

MenuChat == at = "menu" /\ OpenDashboard

(***************************************************************************)
(* `cluaiz run m' in a dashboard.  The model is made the active one before *)
(* the audit of the machine and the download, which may not come about:    *)
(* Permission.json then names a model that is not there.                   *)
(***************************************************************************)
LaunchRun(m) ==
    /\ at = "launch" /\ at' = IF m \in disk THEN "local" ELSE "audit"
    /\ active' = m /\ perm' = m
    /\ UNCHANGED <<engine, lazy, disk, roster, answering, lines, steps>>

(* Not enough memory, no consent, no download, or the file is gone. *)
RunDenied ==
    /\ at \in {"local", "audit"} /\ at' = "quit"
    /\ UNCHANGED <<engine, active, settings, disk, roster, answering, lines,
                   steps>>

(* Without lazy_load_model a model that does not load ends the program. *)
RunReady ==
    /\ at \in {"local", "audit"}
    /\ disk' = IF at = "audit" THEN disk \cup {active} ELSE disk
    /\ active \in disk'
    /\ IF lazy THEN at' = "boot" /\ UNCHANGED engine
       ELSE \E loaded \in BOOLEAN :
            /\ engine' = IF loaded THEN [router |-> active, loaded |-> TRUE]
                         ELSE [engine EXCEPT !.loaded = FALSE]
            /\ at' = IF loaded THEN "boot" ELSE "quit"
    /\ UNCHANGED <<active, settings, roster, answering, lines, steps>>

(* `cluaiz pull m': the model is downloaded if need be, loaded whatever    *)
(* lazy_load_model says, and the only one of the list.                     *)
Pull(m) ==
    /\ \/ disk' = disk \cup {m}
       \/ m \in disk /\ UNCHANGED disk
    /\ active' = m /\ roster' = [known |-> {m}, cached |-> {m}]
    /\ \/ engine' = [router |-> m, loaded |-> TRUE] /\ perm' = m /\ at' = "boot"
       \/ UNCHANGED <<engine, perm>> /\ at' = "quit"
    /\ UNCHANGED <<lazy, answering, lines, steps>>

LaunchPull(m) == at = "launch" /\ Pull(m)

(* The menu pulls in an App of its own, with a dashboard of its own, and   *)
(* goes on when that is left: as a new start, but for its older `active'.  *)
MenuPull(m) == at = "menu" /\ Pull(m)

(* A download that fails, or an unknown id, ends the command. *)
LaunchPullFails ==
    /\ at = "launch" /\ at' = "quit"
    /\ UNCHANGED <<engine, active, settings, disk, roster, answering, lines,
                   steps>>

(***************************************************************************)
(* The head of run_native: the model of Permission.json is booted if it is *)
(* on disk, or else any other; the active model stays what it was.         *)
(***************************************************************************)
BootTargets ==
    IF perm \in roster'.cached THEN {perm} ELSE roster'.cached

Boot ==
    /\ at = "boot" /\ at' = "prompt"
    /\ roster' = IF roster.known = {} THEN Listed ELSE roster
    /\ IF engine.loaded \/ lazy \/ BootTargets = {} THEN UNCHANGED engine
       ELSE \E m \in BootTargets : engine' \in {engine} \cup Load(m, engine)
    /\ UNCHANGED <<active, settings, disk, answering, lines, steps>>

(***************************************************************************)
(* The input loop.  Before each prompt the loop throws away what has come  *)
(* to the terminal in the meantime; the lines that the prompt's library    *)
(* has read together with the last one stay with the library, which reads  *)
(* the terminal by itself (external: inquire, with its own event queue).   *)
(* A line that comes within 50 ms of the one before is taken for a pasted  *)
(* one and waits for the next slow line.  A pivot at the head of the       *)
(* buffer is taken without asking the user: it was typed long after the    *)
(* line before.                                                            *)
(***************************************************************************)
Line(kind, id) == [kind |-> kind, id |-> id]
Ids(buffer) == [i \in DOMAIN buffer |-> buffer[i].id]

(* What the loop does with a message: its first line decides; a command    *)
(* with more than its own line is unknown.                                 *)
Dispatch(message) ==
    CASE Head(message).kind \in {"text", "pivot"} -> "message"
      [] Head(message).kind = "switch" -> "switch"
      [] Head(message).kind = "models" /\ Len(message) = 1 -> "models"
      [] Head(message).kind = "quit" /\ Len(message) = 1 -> "quit"
      [] OTHER -> "prompt"

PivotWaits == paste # <<>> /\ Head(paste).kind = "pivot"

(* The user enters a line, at a prompt that waits for it, behind another   *)
(* one that a prompt has still to read, or with no prompt there: while an  *)
(* answer is written, or before the loop comes round to the next prompt.   *)
Prompting == at \in {"reading", "paused"}
Waiting == Prompting /\ tty = <<>> /\ inquire = <<>>

TypeLine ==
    /\ Prompting \/ at \in {"prompt", "stream"}
    /\ Len(heard) < MaxLines /\ Count
    /\ heard' = Append(heard, CASE Waiting -> "awaited"
                                 [] Prompting /\ ~Waiting -> "behind"
                                 [] OTHER -> "ahead")
    /\ tty' = Append(tty, Len(heard'))
    /\ UNCHANGED <<at, engine, active, settings, disk, roster, answering, paste,
                   inquire, done>>

\* Mutant of Flush: it comes when the prompt is there already.
FlushLate ==
    /\ at \in {"prompt", "reading"} /\ ~PivotWaits
    /\ at' = "reading" /\ tty' = <<>>
    /\ UNCHANGED <<engine, active, settings, disk, roster, answering, paste,
                   inquire, heard, done, steps>>

Flush ==
    /\ at = "prompt" /\ ~PivotWaits
    /\ at' = "reading" /\ tty' = <<>>
    /\ UNCHANGED <<engine, active, settings, disk, roster, answering, paste,
                   inquire, heard, done, steps>>

(* The prompt returns a line: the next one that its library has, or else   *)
(* the first of those that the library reads from the terminal now.        *)
NextLine(id) ==
    \/ /\ inquire # <<>> /\ id = Head(inquire)
       /\ inquire' = Tail(inquire) /\ UNCHANGED tty
    \/ /\ inquire = <<>> /\ tty # <<>> /\ id = Head(tty)
       /\ \E n \in 1..Len(tty) : /\ inquire' = SubSeq(tty, 2, n)
                                 /\ tty' = SubSeq(tty, n + 1, Len(tty))

Take(buffer, line) ==
    /\ done' = done \o Ids(buffer) \o <<line.id>>
    /\ at' = Dispatch(buffer \o <<line>>)
    /\ paste' = <<>>

TakePivot ==
    /\ at = "prompt" /\ PivotWaits
    /\ Take(Tail(paste), Head(paste))
    /\ UNCHANGED <<engine, active, settings, disk, roster, answering, input,
                   heard, steps>>

EnterLine(kind, fast) ==
    /\ at = "reading"
    /\ \E id \in 1..Len(heard) :
        /\ NextLine(id)
        /\ IF fast THEN /\ paste' = Append(paste, Line(kind, id))
                        /\ at' = "prompt" /\ UNCHANGED done
           ELSE Take(paste, Line(kind, id))
    /\ UNCHANGED <<engine, active, settings, disk, roster, answering, heard,
                   steps>>

(* An empty line. *)
EnterNothing ==
    /\ at = "reading" /\ Waiting
    /\ at' = "prompt"
    /\ UNCHANGED <<engine, active, settings, disk, roster, answering, lines,
                   steps>>

(* Esc or Ctrl+C at the prompt. *)
Leave ==
    /\ at = "reading" /\ Waiting
    /\ at' = "quit"
    /\ UNCHANGED <<engine, active, settings, disk, roster, answering, lines,
                   steps>>

(* The keys of a line that waits go to a menu. *)
MenuKeys ==
    /\ at \in {"models", "switch"}
    /\ \E id \in 1..Len(heard) : NextLine(id)
    /\ UNCHANGED <<at, engine, active, settings, disk, roster, answering, paste,
                   heard, done, steps>>

(***************************************************************************)
(* The model list (/menu).  The list is made anew after each entry; a      *)
(* model to be loaded is made the active one before it is loaded.          *)
(***************************************************************************)
CloseModels ==
    /\ at \in {"models", "switch"} /\ at' = "prompt"
    /\ UNCHANGED <<engine, active, settings, disk, roster, answering, lines,
                   steps>>

Activate(m) ==
    /\ active' = m /\ perm' = m /\ engine' \in Load(m, engine)

LoadEntry(m) ==
    /\ at = "models" /\ m \in roster.cached /\ Count
    /\ roster' = Listed
    /\ Activate(m)
    /\ UNCHANGED <<at, lazy, disk, answering, lines>>

(* A download that succeeds is loaded at once. *)
Download(m) ==
    /\ at = "models" /\ m \in roster.known \ roster.cached /\ Count
    /\ disk' = disk \cup {m}
    /\ roster' = [Listed EXCEPT !.cached = disk']
    /\ active' = m /\ perm' = m
    /\ engine' \in {[engine EXCEPT !.loaded = FALSE],
                    [router |-> m, loaded |-> TRUE]}
    /\ UNCHANGED <<at, lazy, answering, lines>>

Delete(m) ==
    /\ at = "models" /\ m \in roster.cached /\ Count
    /\ disk' = disk \ {m}
    /\ roster' = [Listed EXCEPT !.cached = disk']
    /\ UNCHANGED <<at, engine, active, settings, answering, lines>>

(***************************************************************************)
(* The switch of the chat model (@): the old engine goes first.  After a   *)
(* successful load the router is locked with blocking_lock on a thread of  *)
(* the runtime, which panics.                                              *)
(***************************************************************************)
Switch(m) ==
    /\ at = "switch" /\ m \in roster.cached
    /\ ~(active = m /\ engine.loaded)
    /\ Count
    /\ engine' \in Load(m, NoEngine)
    /\ IF engine'.loaded THEN active' = m /\ perm' = m /\ at' = "crashed"
       ELSE at' = "prompt" /\ UNCHANGED <<active, perm>>
    /\ UNCHANGED <<lazy, disk, roster, answering, lines>>

(***************************************************************************)
(* A message: Ctrl+C counts from here on.  (The reload for new booster     *)
(* settings watches a file that is never written.)  The active model is    *)
(* loaded if none is; that it fails is not looked at.                      *)
(***************************************************************************)
BeginMessage ==
    /\ at = "message" /\ at' = "loading" /\ cancel' = FALSE
    /\ UNCHANGED <<engine, active, settings, disk, roster, stream, lines,
                   steps>>

Respond ==
    /\ at = "loading"
    /\ IF ~engine.loaded /\ active \in roster.cached
       THEN engine' \in Load(active, engine) ELSE UNCHANGED engine
    /\ IF engine'.router = None THEN at' = "answered" /\ UNCHANGED stream
       ELSE at' = "stream" /\ \E dyn \in Grammars : stream' = Start(dyn)
    /\ UNCHANGED <<active, settings, disk, roster, cancel, lines, steps>>

CtrlC ==
    /\ at \in {"loading", "stream"} /\ ~cancel /\ cancel' = TRUE
    /\ UNCHANGED <<at, engine, active, settings, disk, roster, stream, lines,
                   steps>>

(***************************************************************************)
(* The answer.                                                             *)
(***************************************************************************)
Generating == at = "stream" /\ stream.phase # "done" /\ stream.go

(* The callback looks for Ctrl+T and Ctrl+C, and forgets any other key: of *)
(* a line that was typed meanwhile nothing may be left.                    *)
KeysForgotten == tty' = tty \/ (tty # <<>> /\ tty' = Tail(tty))

Generate(piece) ==
    /\ Generating /\ Count
    /\ \/ stream' = Feed(stream, piece, cancel)
       \/ SlicePanics(stream, piece) /\ stream' = [stream EXCEPT !.crashed = TRUE]
    /\ at' = IF stream'.crashed THEN "crashed" ELSE at
    /\ KeysForgotten
    /\ UNCHANGED <<engine, active, settings, disk, roster, cancel, paste,
                   inquire, heard, done>>

(* The engine ends: end of text, max_tokens, or a callback that said no.   *)
EndPhase ==
    /\ at = "stream" /\ stream.phase # "done"
    /\ LET s == IF stream.phase = "first" THEN Fallback(stream, cancel)
                ELSE stream
       IN /\ at' = CASE s.crashed -> "crashed"
                     [] ~s.crashed /\ s.tool = "none" -> "answered"
                     [] OTHER -> at
          /\ \E planned \in BOOLEAN :
                stream' = IF at' = at THEN RunTool(s, planned, cancel)
                          ELSE [s EXCEPT !.phase = "done"]
    /\ UNCHANGED <<engine, active, settings, disk, roster, cancel, lines,
                   steps>>

(* The engine fails: the error is shown instead of an answer. *)
EngineFails ==
    /\ Generating /\ at' = "answered"
    /\ stream' = [stream EXCEPT !.phase = "done"]
    /\ UNCHANGED <<engine, active, settings, disk, roster, cancel, lines,
                   steps>>

(* After Ctrl+C the user is asked for an instruction. *)
EndMessage ==
    /\ at = "answered" /\ at' = IF cancel THEN "paused" ELSE "prompt"
    /\ stream' = NoStream
    /\ UNCHANGED <<engine, active, settings, disk, roster, cancel, lines,
                   steps>>

Instruct ==
    /\ at = "paused" /\ at' = "prompt"
    /\ \E id \in 1..Len(heard) :
        NextLine(id) /\ paste' = Append(paste, Line("pivot", id))
    /\ UNCHANGED <<engine, active, settings, disk, roster, answering, heard,
                   done, steps>>

Return ==
    /\ at = "paused" /\ Waiting /\ at' = "prompt"
    /\ UNCHANGED <<engine, active, settings, disk, roster, answering, lines,
                   steps>>

(***************************************************************************)
(* The program is started again; other processes install and delete models *)
(* and set the active one (when, while an answer is written, makes no      *)
(* difference: the answer reads neither).                                  *)
(***************************************************************************)
Restart ==
    /\ at \in {"quit", "crashed"} /\ Count
    /\ NewProcess
    /\ heard' = <<>> /\ done' = <<>>
    /\ UNCHANGED <<settings, disk>>

Others ==
    /\ at \notin {"message", "stream", "answered", "paused"} /\ Count
    /\ \/ \E m \in Models : perm' = m /\ UNCHANGED disk
       \/ \E m \in Models : disk' \in {disk \cup {m}, disk \ {m}}
                            /\ UNCHANGED perm
    /\ UNCHANGED <<at, engine, active, lazy, roster, answering, lines>>

Commands == {"text", "models", "switch", "quit"}

(* What the program and the engine do of themselves. *)
System ==
    \/ Boot \/ TakePivot \/ Flush \/ MenuKeys \/ BeginMessage \/ Respond
    \/ \E kind \in Commands, fast \in BOOLEAN : EnterLine(kind, fast)
    \/ Instruct \/ EndPhase \/ EngineFails \/ EndMessage

User ==
    \/ LaunchMenu \/ StartChat \/ MenuChat \/ MenuQuit \/ LaunchPullFails
    \/ RunDenied \/ RunReady
    \/ \E m \in Models : \/ LaunchRun(m) \/ LaunchPull(m) \/ MenuPull(m)
                         \/ LoadEntry(m) \/ Download(m) \/ Delete(m) \/ Switch(m)
    \/ TypeLine \/ EnterNothing \/ Leave \/ CloseModels \/ CtrlC \/ Return
    \/ Restart \/ Others

Next == System \/ User \/ \E piece \in Pieces : Generate(piece)

Spec == Init /\ [][Next]_vars
=============================================================================
