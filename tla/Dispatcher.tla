------------------------------ MODULE Dispatcher ------------------------------
(***************************************************************************)
(* NeuralDispatcher (interface-engines/dispatcher/src/lib.rs): the tasks   *)
(* that `dispatch_stream` spawns, the inference semaphore, the engine      *)
(* mutex with the one cached engine behind it, the cancel flag that every  *)
(* request of the dispatcher shares, and the channel of each stream.       *)
(*                                                                         *)
(* A request is one call of dispatch_stream that reached a native backend. *)
(* An engine is named by the request that instantiated it: a task          *)
(* instantiates at most once.  Token text is reduced to what the           *)
(* interception buffer tells apart.  Everything between two awaits, under  *)
(* the engine mutex, is one step; the cancel flag is not under the mutex,  *)
(* so each of its loads and stores is a step of its own.                   *)
(***************************************************************************)
EXTENDS Naturals, Sequences, SequencesExt

CONSTANTS
    Req,        \* calls of dispatch_stream
    Model,      \* paths of model files
    None,       \* no model configured / no engine cached
    Permits,    \* slots of the inference semaphore (4 in the code)
    ChanCap,    \* capacity of a stream's channel (100 in the code)
    MaxPieces   \* callbacks of one generation (bounds the model; 4096 tokens)

ASSUME SizesAssumption ==
    /\ Permits \in Nat \ {0}
    /\ ChanCap \in Nat \ {0}
    /\ MaxPieces \in Nat
ASSUME NoneAssumption == None \notin Req \cup Model

VARIABLES
    up,          \* the process runs: a panic inside the C callback aborts it
    cancel,      \* NeuralDispatcher.cancel_flag
    semQ,        \* FIFO of the semaphore: holders and waiters, oldest first
    lockQ,       \* FIFO of the engine mutex: its head holds the lock
    cache,       \* NeuralDispatcher.cached_engine
    live,        \* engines instantiated and not freed
    activeModel, \* what Permission.json and the model directories resolve to
    pc,          \* where each task is
    path,        \* model_path resolved by each task
    buf,         \* interception buffer: before, inside or past a trigger
    out,         \* messages a task is about to send
    made,        \* callbacks made so far by each generation
    chan,        \* messages in each stream's channel
    rxOpen,      \* the receiver of the stream exists
    sent,        \* history: messages sent to it, a run of tokens counted once
    cut,         \* history: the generation was stopped by the cancel flag
    solo,        \* history: no other request in progress since the dispatch
    since        \* history: models configured at some time since the dispatch

shared == <<up, cancel, semQ, lockQ, cache, live>>
task   == <<pc, path, buf, out, made>>
stream == <<chan, rxOpen, sent>>
history == <<cut, solo, since>>
vars == <<shared, activeModel, task, stream, history>>

Text == "text"           \* one token, or an error text of the kernel
Trigger == "trigger"     \* "<TRIGGER:...>...</TRIGGER>"
Fragment == "fragment"   \* "<TRIGGER:..." that the model never closed
Error == "error"
Done == "\n[DONE]\n"
Message == {Text, Trigger, Fragment, Error, Done}

Finished == {"ended", "panicked"}
InService == {"generating", "callback", "storing", "returned"}
Phase == {"idle", "spawned", "queued", "resolved", "waiting", "closing"}
           \cup InService \cup Finished

InProgress(r) == pc[r] \notin {"idle"} \cup Finished

\* The semaphore serves its waiters in order, so a task holds a permit exactly
\* when fewer than Permits of the tasks before it have not returned theirs.
HasPermit(r) == \E i \in DOMAIN semQ : i <= Permits /\ semQ[i] = r

\* Mutant of HasLock: a lock for readers, which every task that waits gets.
HasReadLock(r) == \E i \in DOMAIN lockQ : lockQ[i] = r

HasLock(r) == lockQ # << >> /\ Head(lockQ) = r

\* Mutant of Without: a permit that is never returned.
KeepPermit(s, r) == s

Without(s, r) ==
    IF \E i \in 1 .. Len(s) : s[i] = r
      THEN RemoveAt(s, CHOOSE i \in 1 .. Len(s) : s[i] = r)
      ELSE s

\* Dropping _permit, engine_lock when the task holds it, and the locals.
Release(r) ==
    /\ semQ' = Without(semQ, r)
    /\ lockQ' = IF HasLock(r) THEN Tail(lockQ) ELSE lockQ
    /\ buf' = [buf EXCEPT ![r] = "before"]
    /\ out' = [out EXCEPT ![r] = << >>]
    /\ made' = [made EXCEPT ![r] = 0]
    /\ solo' = [solo EXCEPT ![r] = FALSE]
    /\ since' = [since EXCEPT ![r] = {}]
    /\ cut' = [cut EXCEPT ![r] = FALSE]

\* Mutant of CanSend: an unbounded channel.
AlwaysRoom(r) == TRUE

\* A send waits for room and fails at once when the receiver is gone.
CanSend(r) == ~rxOpen[r] \/ Len(chan[r]) < ChanCap
Recorded(log, m) ==
    IF m = Text /\ log # << >> /\ log[Len(log)] = Text THEN log ELSE Append(log, m)
Deliver(r, m) ==
    IF rxOpen[r]
      THEN /\ chan' = [chan EXCEPT ![r] = Append(@, m)]
           /\ sent' = [sent EXCEPT ![r] = Recorded(@, m)]
      ELSE UNCHANGED <<chan, sent>>

-----------------------------------------------------------------------------
Init ==
    /\ up = TRUE /\ cancel = FALSE
    /\ semQ = << >> /\ lockQ = << >>
    /\ cache = None /\ live = {}
    /\ activeModel \in Model \cup {None}
    /\ pc = [r \in Req |-> "idle"]
    /\ path = [r \in Req |-> None]
    /\ buf = [r \in Req |-> "before"]
    /\ out = [r \in Req |-> << >>]
    /\ made = [r \in Req |-> 0]
    /\ chan = [r \in Req |-> << >>]
    /\ sent = [r \in Req |-> << >>]
    /\ rxOpen = [r \in Req |-> FALSE]
    /\ cut = [r \in Req |-> FALSE]
    /\ solo = [r \in Req |-> FALSE]
    /\ since = [r \in Req |-> {}]

\* dispatch_stream up to tokio::spawn.  The flag is reset here, before the new
\* task is queued, whatever the other requests are doing.
DispatchStream(r) ==
    /\ pc[r] = "idle"
    /\ pc' = [pc EXCEPT ![r] = "spawned"]
    /\ cancel' = FALSE
    /\ rxOpen' = [rxOpen EXCEPT ![r] = TRUE]
    /\ solo' = [q \in Req |-> IF q = r THEN \A p \in Req : ~InProgress(p)
                                       ELSE solo[q] /\ ~InProgress(q)]
    /\ since' = [since EXCEPT ![r] = {activeModel} \ {None}]
    /\ UNCHANGED <<up, semQ, lockQ, cache, live, activeModel, path, buf, out, made,
                   chan, sent, cut>>

\* semaphore.acquire().await: the task joins the queue.
AskPermit(r) ==
    /\ pc[r] = "spawned"
    /\ pc' = [pc EXCEPT ![r] = "queued"]
    /\ semQ' = Append(semQ, r)
    /\ UNCHANGED <<up, cancel, lockQ, cache, live, activeModel, path, buf, out, made,
                   stream, history>>

\* resolve_active_model_path, with the permit and before the engine mutex.
Resolve(r) ==
    /\ pc[r] = "queued" /\ HasPermit(r)
    /\ IF activeModel = None
         THEN /\ pc' = [pc EXCEPT ![r] = "closing"]
              /\ out' = [out EXCEPT ![r] = <<Error, Done>>]
              /\ UNCHANGED path
         ELSE /\ pc' = [pc EXCEPT ![r] = "resolved"]
              /\ path' = [path EXCEPT ![r] = activeModel]
              /\ UNCHANGED out
    /\ UNCHANGED <<shared, activeModel, buf, made, stream, history>>

\* cached_engine_lock.lock().await: the task joins the queue.
AskLock(r) ==
    /\ pc[r] = "resolved"
    /\ pc' = [pc EXCEPT ![r] = "waiting"]
    /\ lockQ' = Append(lockQ, r)
    /\ UNCHANGED <<up, cancel, semQ, cache, live, activeModel, path, buf, out, made,
                   stream, history>>

\* An unwinding task drops its guards and its sender, and sends nothing more.
Panic(r) ==
    /\ pc' = [pc EXCEPT ![r] = "panicked"]
    /\ Release(r)

\* The kernel is called, unless CString::new(prompt).unwrap() panics on a prompt
\* that holds a NUL character.
Generate(r) ==
    \/ /\ pc' = [pc EXCEPT ![r] = "generating"]
       /\ UNCHANGED <<semQ, lockQ, buf, out, made, history>>
    \/ Panic(r)

\* Mutant of CacheHit: any cached engine will do.
AnyEngine(r) == cache # None

CacheHit(r) == cache # None /\ path[cache] = path[r]

\* The engine cached for this very path is used again.
ReuseEngine(r) ==
    /\ pc[r] = "waiting" /\ HasLock(r) /\ CacheHit(r)
    /\ Generate(r)
    /\ UNCHANGED <<up, cancel, cache, live, activeModel, path, stream>>

\* A path that is not the cached one.  cached_engine.take() and
\* cluaiz_kernel_free come first, whatever follows.
LoadEngine(r) ==
    /\ pc[r] = "waiting" /\ HasLock(r) /\ ~CacheHit(r)
    /\ cache' = r
    /\ live' = (live \ {cache}) \cup {r}
    /\ Generate(r)
    /\ UNCHANGED <<up, cancel, activeModel, path, stream>>

\* The library does not load, or the kernel does not instantiate the model.
LoadFails(r) ==
    /\ pc[r] = "waiting" /\ HasLock(r) /\ ~CacheHit(r)
    /\ cache' = None
    /\ live' = live \ {cache}
    /\ pc' = [pc EXCEPT ![r] = "closing"]
    /\ out' = [out EXCEPT ![r] = <<Error, Done>>]
    /\ UNCHANGED <<up, cancel, semQ, lockQ, activeModel, path, buf, made, stream, history>>

\* The kernel binary or its .ready marker is missing.  The failure is reported
\* with blocking_send inside the async task: tokio panics there, before the
\* error or "[DONE]" is in the channel.
KernelMissing(r) ==
    /\ pc[r] = "waiting" /\ HasLock(r) /\ ~CacheHit(r)
    /\ cache' = None
    /\ live' = live \ {cache}
    /\ Panic(r)
    /\ UNCHANGED <<up, cancel, activeModel, path, stream>>

Calls(r) ==
    /\ pc[r] = "generating" /\ made[r] < MaxPieces
    /\ made' = [made EXCEPT ![r] = @ + 1]

\* callback: the flag is loaded first; set, it stops the generation.
CallbackCancelled(r) ==
    /\ Calls(r) /\ cancel
    /\ pc' = [pc EXCEPT ![r] = "returned"]
    /\ cut' = [cut EXCEPT ![r] = TRUE]
    /\ UNCHANGED <<shared, activeModel, path, buf, out, stream, solo, since>>

\* callback on a token outside a trigger: it is going to be sent.
CallbackText(r) ==
    /\ Calls(r) /\ ~cancel /\ buf[r] = "before"
    /\ out' = [out EXCEPT ![r] = <<Text>>]
    /\ pc' = [pc EXCEPT ![r] = "callback"]
    /\ UNCHANGED <<shared, activeModel, path, buf, stream, history>>

\* callback on a token of a trigger that is not closed yet: hidden.
CallbackHidden(r) ==
    /\ Calls(r) /\ ~cancel /\ buf[r] # "past"
    /\ buf' = [buf EXCEPT ![r] = "inside"]
    /\ UNCHANGED <<shared, activeModel, pc, path, out, stream, history>>

\* callback on the token that brings "</TRIGGER>".
CallbackCloses(r) ==
    /\ Calls(r) /\ ~cancel /\ buf[r] # "past"
    /\ buf' = [buf EXCEPT ![r] = "past"]
    /\ out' = [out EXCEPT ![r] = <<Trigger>>]
    /\ pc' = [pc EXCEPT ![r] = "callback"]
    /\ UNCHANGED <<shared, activeModel, path, stream, history>>

\* The sliding window `buffer[buffer.len() - 100..]` may start inside a
\* character, and `buffer[start_idx..end_idx + 10]` may end before it starts:
\* the slice panics inside an extern "C" function, which aborts the process.
CallbackAborts(r) ==
    /\ Calls(r) /\ ~cancel /\ buf[r] = "before"
    /\ up' = FALSE
    /\ UNCHANGED <<cancel, semQ, lockQ, cache, live, activeModel, pc, path, buf, out,
                   stream, history>>

\* blocking_send inside the callback.  For a token the result decides whether
\* the generation goes on; for a trigger it is ignored.
CallbackSend(r) ==
    /\ pc[r] = "callback" /\ CanSend(r)
    /\ Deliver(r, Head(out[r]))
    /\ out' = [out EXCEPT ![r] = << >>]
    /\ pc' = [pc EXCEPT ![r] = IF Head(out[r]) = Trigger THEN "storing"
                               ELSE IF rxOpen[r] THEN "generating" ELSE "returned"]
    /\ UNCHANGED <<shared, activeModel, path, buf, made, rxOpen, history>>

\* cancel_flag.store(true), after the trigger is already in the channel.
StoreCancel(r) ==
    /\ pc[r] = "storing"
    /\ cancel' = TRUE
    /\ pc' = [pc EXCEPT ![r] = "returned"]
    /\ UNCHANGED <<up, semQ, lockQ, cache, live, activeModel, path, buf, out, made,
                   stream, history>>

\* The kernel stops by itself (end of text, token budget), or panics and the
\* panic is caught, which adds an error message.
GenerationEnds(r) ==
    /\ pc[r] = "generating"
    /\ pc' = [pc EXCEPT ![r] = "returned"]
    /\ \E caught \in BOOLEAN :
         out' = [out EXCEPT ![r] = IF caught THEN <<Error>> ELSE << >>]
    /\ UNCHANGED <<shared, activeModel, path, buf, made, stream, history>>

\* Mutant of LastMessages: a trigger that the callback handed over is sent again.
LastMessagesUnchecked(r) ==
    CASE buf[r] = "past"   -> <<Trigger, Done>>
      [] buf[r] = "inside" -> <<Fragment, Done>>
      [] OTHER             -> <<Done>>

\* "Final Buffer Check": the flag is loaded again, now to tell whether the
\* callback already handed the trigger over.
LastMessages(r) ==
    CASE ~cancel /\ buf[r] = "past"   -> <<Trigger, Done>>
      [] ~cancel /\ buf[r] = "inside" -> <<Fragment, Done>>
      [] OTHER                        -> <<Done>>

FinalCheck(r) ==
    /\ pc[r] = "returned" /\ out[r] = << >>
    /\ pc' = [pc EXCEPT ![r] = "closing"]
    /\ out' = [out EXCEPT ![r] = LastMessages(r)]
    /\ UNCHANGED <<shared, activeModel, path, buf, made, stream, history>>

\* tx.send(..).await of the task itself.
TaskSend(r) ==
    /\ pc[r] \in {"returned", "closing"} /\ out[r] # << >>
    /\ CanSend(r)
    /\ Deliver(r, Head(out[r]))
    /\ out' = [out EXCEPT ![r] = Tail(@)]
    /\ UNCHANGED <<shared, activeModel, pc, path, buf, made, rxOpen, history>>

\* Mutant of TaskEnds: the future of the last send is dropped, not awaited.
TaskEndsUnsent(r) ==
    /\ pc[r] = "closing"
    /\ pc' = [pc EXCEPT ![r] = "ended"]
    /\ Release(r)
    /\ UNCHANGED <<up, cancel, cache, live, activeModel, path, stream>>

\* The task returns: the guards and the sender are dropped.
TaskEnds(r) ==
    /\ pc[r] = "closing" /\ out[r] = << >>
    /\ pc' = [pc EXCEPT ![r] = "ended"]
    /\ Release(r)
    /\ UNCHANGED <<up, cancel, cache, live, activeModel, path, stream>>

-----------------------------------------------------------------------------
(* The callers and the files the dispatcher reads.                         *)

\* rx.recv() returns the next message.
Receive(r) ==
    /\ rxOpen[r] /\ chan[r] # << >>
    /\ chan' = [chan EXCEPT ![r] = Tail(@)]
    /\ UNCHANGED <<shared, activeModel, task, rxOpen, sent, history>>

\* The receiver is dropped, and the messages in the channel with it.
HangUp(r) ==
    /\ rxOpen[r]
    /\ rxOpen' = [rxOpen EXCEPT ![r] = FALSE]
    /\ chan' = [chan EXCEPT ![r] = << >>]
    /\ sent' = [sent EXCEPT ![r] = << >>]
    /\ UNCHANGED <<shared, activeModel, task, history>>

\* The user selects another model, or removes the one in use.
SwitchModel(m) ==
    /\ activeModel # m
    /\ activeModel' = m
    /\ since' = [r \in Req |-> IF InProgress(r) THEN since[r] \cup ({m} \ {None})
                                                ELSE since[r]]
    /\ UNCHANGED <<shared, task, stream, cut, solo>>

Task(r) ==
    \/ AskPermit(r) \/ Resolve(r) \/ AskLock(r)
    \/ ReuseEngine(r) \/ LoadEngine(r) \/ LoadFails(r) \/ KernelMissing(r)
    \/ CallbackCancelled(r) \/ CallbackText(r) \/ CallbackHidden(r)
    \/ CallbackCloses(r) \/ CallbackAborts(r) \/ CallbackSend(r) \/ StoreCancel(r)
    \/ GenerationEnds(r) \/ FinalCheck(r) \/ TaskSend(r) \/ TaskEnds(r)

Next ==
    /\ up
    /\ \/ \E r \in Req : DispatchStream(r) \/ Task(r) \/ Receive(r) \/ HangUp(r)
       \/ \E m \in Model \cup {None} : SwitchModel(m)

Spec == Init /\ [][Next]_vars
=============================================================================
