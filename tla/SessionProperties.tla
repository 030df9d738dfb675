-------------------------- MODULE SessionProperties -------------------------
(***************************************************************************)
(* What a terminal session promises.                                       *)
(***************************************************************************)
EXTENDS Session

(* The variables have their types. *)
SessionTypeOK ==
    /\ at \in {"launch", "menu", "local", "audit", "boot", "prompt", "reading",
               "models", "switch", "message", "loading", "stream", "answered", "paused", "quit",
               "crashed"}
    /\ engine \in [router : ModelOrNone, loaded : BOOLEAN]
    /\ active \in ModelOrNone /\ perm \in ModelOrNone /\ lazy \in BOOLEAN
    /\ disk \subseteq Models
    /\ roster \in [known : SUBSET Models, cached : SUBSET Models]
    /\ roster.cached \subseteq roster.known
    /\ cancel \in BOOLEAN
    /\ stream.phase \in {"first", "final", "done"}
    /\ stream.tool \in {"none", "legacy", "cel"}
    /\ heard \in Seq({"awaited", "behind", "ahead"}) /\ steps \in 0..MaxSteps
    /\ tty \in Seq(1..Len(heard)) /\ inquire \in Seq(1..Len(heard))
    /\ \A i \in DOMAIN paste : paste[i].id \in 1..Len(heard)

(***************************************************************************)
(* The lines that are in messages, in the buffer and still to be read, in  *)
(* that order.                                                             *)
(***************************************************************************)
Kept == done \o Ids(paste) \o inquire \o tty

(***************************************************************************)
(* A line that a prompt waited for counts (dashboard.rs:144-205, 671-685): *)
(* it comes into the messages, whatever was pasted, given as an            *)
(* instruction or thrown away around it.  No line, awaited or not, comes   *)
(* twice or before one that was entered earlier.                           *)
(***************************************************************************)
AwaitedLinesCount ==
    /\ \A i, j \in DOMAIN Kept : i < j => Kept[i] < Kept[j]
    /\ \A id \in DOMAIN heard : heard[id] = "awaited" => \E i \in DOMAIN Kept : Kept[i] = id

(***************************************************************************)
(* An engine that counts as loaded is there and is that of the active      *)
(* model, if there is an active one (state.rs:60-84, dashboard.rs:252-282, *)
(* app.rs:112-160), through failed loads, switches and deletions.  So an   *)
(* answer from another model than the active one can only come after a     *)
(* load that failed, when the engine does not count as loaded: then the    *)
(* router still has the engine of before, and lets it answer (Respond).    *)
(***************************************************************************)
LoadedIsActive ==
    engine.loaded => /\ engine.router # None
                     /\ active \in {None, engine.router}

(***************************************************************************)
(* Nothing of the text is lost, doubled or moved by the interceptor        *)
(* (router.rs:788-931), however the engine cuts it: what the callback was  *)
(* given and what is still held back is what was generated.                *)
(***************************************************************************)
NothingLost ==
    at = "stream" /\ stream.phase = "first" =>
        stream.gen = stream.passed
                     \o (IF stream.capture THEN stream.json ELSE stream.cache)

(***************************************************************************)
(* The trigger that is looked for first, the first one of the skills or    *)
(* "<TRIGGER:" when they have none, is never shown, in however many pieces *)
(* it comes; nor is "<TRIGGER:" in the final answer (router.rs:747-768).   *)
(***************************************************************************)
TriggerHidden ==
    LET first == IF stream.phase = "final" \/ stream.dyn = <<>> THEN Legacy
                 ELSE Head(stream.dyn)
    IN at = "stream" => Occurs(first, stream.passed) = {}

(***************************************************************************)
(* A prompt runs one tool at most (router.rs:735-768), and only one whose  *)
(* trigger the engine has written: the final answer runs none.             *)
(***************************************************************************)
OneTool ==
    /\ stream.runs <= 1
    /\ stream.runs = 1 => stream.phase # "first"
    /\ stream.tool # "none" => stream.phase = "first" /\ stream.capture
=============================================================================
