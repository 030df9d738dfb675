-------------------------------- MODULE ChatApi --------------------------------
(***************************************************************************)
(* The HTTP chat handlers (Inference-engine/api/src/handlers/chat.rs) on   *)
(* top of the dispatcher:                                                  *)
(*   "agent"   chat_completions with stream: true, which runs the tool of  *)
(*             each trigger it receives and dispatches the prompt again;   *)
(*   "drain"   chat_completions without streaming and chat_stream, which   *)
(*             read their stream until it closes;                          *)
(*   "prompt"  chat, through dispatch_prompt, which reads up to "[DONE]".  *)
(* A handler holds the receiver of the dispatch it reads and, between a    *)
(* resumption and `rx = new_rx`, that of the next one.                     *)
(***************************************************************************)
EXTENDS Dispatcher

CONSTANTS
    Client,     \* requests to the HTTP server
    Agents,     \* those that chat_completions streams to
    MaxIters    \* max_iters of the tool loop (3 in the code)

ASSUME AgentsAssumption == Agents \subseteq Client
ASSUME MaxItersAssumption == MaxIters \in Nat \ {0}

VARIABLES
    mode,       \* which handler serves the client
    at,         \* where the handler is
    rx,         \* dispatch whose receiver the handler reads
    newRx,      \* dispatch made to resume, not read yet
    left,       \* max_iters
    tools       \* history: the dispatches whose trigger each handler ran a tool for

chat == <<mode, at, rx, newRx, left, tools>>
allVars == <<vars, chat>>

Mode == {"agent", "drain", "prompt"}

ChatInit ==
    /\ Init
    /\ mode \in [Client -> Mode]
    /\ \A c \in Client : mode[c] = "agent" <=> c \in Agents
    /\ at = [c \in Client |-> "new"]
    /\ rx = [c \in Client |-> None]
    /\ newRx = [c \in Client |-> None]
    /\ left = [c \in Client |-> MaxIters]
    /\ tools = [c \in Client |-> << >>]

\* Dispatches have no identity of their own: any unused name will do.
Fresh(r) == r = CHOOSE q \in Req : pc[q] = "idle"

\* The initial dispatch; the agent's loop is entered with max_iters -= 1.
Begin(c) ==
    /\ at[c] = "new"
    /\ \E r \in Req : Fresh(r) /\ DispatchStream(r) /\ rx' = [rx EXCEPT ![c] = r]
    /\ at' = [at EXCEPT ![c] = "reading"]
    /\ left' = [left EXCEPT ![c] = @ - 1]
    /\ UNCHANGED <<mode, newRx, tools>>

NextMessage(c) == Head(chan[rx[c]])
Reading(c) == at[c] = "reading" /\ chan[rx[c]] # << >>

\* A message that the handler forwards.  "[DONE]" is one for all but dispatch_prompt.
Forward(c) ==
    /\ Reading(c)
    /\ ~(mode[c] = "agent" /\ NextMessage(c) = Trigger)
    /\ ~(mode[c] = "prompt" /\ NextMessage(c) = Done)
    /\ Receive(rx[c])
    /\ UNCHANGED chat

\* Mutant of RunTool: the handler reads on.
RunToolReadsOn(c) ==
    /\ Reading(c) /\ mode[c] = "agent" /\ NextMessage(c) = Trigger
    /\ Receive(rx[c])
    /\ tools' = [tools EXCEPT ![c] = Append(@, rx[c])]
    /\ UNCHANGED <<mode, at, rx, newRx, left>>

\* A complete trigger: the tool runs, whatever it answers, and the loop over
\* the stream is left.
RunTool(c) ==
    /\ Reading(c) /\ mode[c] = "agent" /\ NextMessage(c) = Trigger
    /\ Receive(rx[c])
    /\ tools' = [tools EXCEPT ![c] = Append(@, rx[c])]
    /\ at' = [at EXCEPT ![c] = "tool"]
    /\ UNCHANGED <<mode, rx, newRx, left>>

\* dispatch_stream of the prompt with the tool result, the old receiver still held.
Resume(c) ==
    /\ at[c] = "tool"
    /\ \E r \in Req : Fresh(r) /\ DispatchStream(r) /\ newRx' = [newRx EXCEPT ![c] = r]
    /\ at' = [at EXCEPT ![c] = "switching"]
    /\ UNCHANGED <<mode, rx, left, tools>>

\* Mutant of MoreIterations: the loop condition admits one iteration more.
OneIterationMore(c) == left[c] >= 0

MoreIterations(c) == left[c] > 0

\* rx = new_rx; continue.  After the last iteration nobody reads the new one.
Switch(c) ==
    /\ at[c] = "switching"
    /\ HangUp(rx[c])
    /\ rx' = [rx EXCEPT ![c] = newRx[c]]
    /\ newRx' = [newRx EXCEPT ![c] = None]
    /\ IF MoreIterations(c)
         THEN /\ left' = [left EXCEPT ![c] = @ - 1]
              /\ at' = [at EXCEPT ![c] = "reading"]
         ELSE /\ at' = [at EXCEPT ![c] = "leaving"]
              /\ UNCHANGED left
    /\ UNCHANGED <<mode, tools>>

\* The response ends and the receiver is dropped: the stream is closed and
\* read to its end, "[DONE]" reached dispatch_prompt, or the loop is over.
Leave(c) ==
    /\ \/ at[c] = "leaving"
       \/ at[c] = "reading" /\ chan[rx[c]] = << >> /\ pc[rx[c]] \in Finished
       \/ Reading(c) /\ mode[c] = "prompt" /\ NextMessage(c) = Done
    /\ HangUp(rx[c])
    /\ at' = [at EXCEPT ![c] = "finished"]
    /\ UNCHANGED <<mode, rx, newRx, left, tools>>

\* Mutant of Disconnect: the handler's receiver outlives it.
DisconnectLeaks(c) ==
    /\ at[c] = "reading"
    /\ at' = [at EXCEPT ![c] = "finished"]
    /\ UNCHANGED <<vars, mode, rx, newRx, left, tools>>

\* The HTTP client goes away: the server drops the handler at an await or a yield.
Disconnect(c) ==
    /\ at[c] \in {"reading", "tool", "leaving"}
    /\ HangUp(rx[c])
    /\ at' = [at EXCEPT ![c] = "finished"]
    /\ UNCHANGED <<mode, rx, newRx, left, tools>>

Handler(c) == Begin(c) \/ Forward(c) \/ RunTool(c) \/ Resume(c) \/ Switch(c) \/ Leave(c)

ChatNext ==
    /\ up
    /\ \/ \E r \in Req : Task(r) /\ UNCHANGED chat
       \/ \E c \in Client : Handler(c) \/ Disconnect(c)

\* Tasks are scheduled, and so are the handlers: the HTTP client reads.
ChatSpec == ChatInit /\ [][ChatNext]_allVars
FairChatSpec ==
    /\ ChatSpec
    /\ \A r \in Req : WF_allVars(up /\ Task(r) /\ UNCHANGED chat)
    /\ \A c \in Client : WF_allVars(up /\ Handler(c))
-----------------------------------------------------------------------------
(* Properties.                                                             *)

\* Every handler variable keeps its type, and a reading handler has a stream.
ChatTypeOK ==
    /\ mode \in [Client -> Mode]
    /\ at \in [Client -> {"new", "reading", "tool", "switching", "leaving", "finished"}]
    /\ rx \in [Client -> Req \cup {None}] /\ newRx \in [Client -> Req \cup {None}]
    /\ left \in [Client -> 0 .. MaxIters]
    /\ tools \in [Client -> Seq(Req)]
    /\ \A c \in Client : at[c] # "new" => rx[c] # None

\* Every receiver that is open belongs to one handler that is going to read it
\* or to drop it: a forgotten one would hold the engine mutex for ever once its
\* channel is full.
NoForgottenReceiver ==
    \A r \in Req : rxOpen[r] =>
      \E c \in Client : /\ at[c] \notin {"new", "finished"}
                        /\ r \in {rx[c], newRx[c]}
                        /\ \A d \in Client \ {c} : r \notin {rx[d], newRx[d]}

\* The tool of a dispatch runs at most once, even when the dispatcher hands the
\* trigger over twice, and a completion runs at most MaxIters tools.
ToolOnce ==
    \A c \in Client :
      /\ Len(tools[c]) <= MaxIters
      /\ \A i, j \in DOMAIN tools[c] : tools[c][i] = tools[c][j] => i = j

\* Every client is answered, unless the process aborts.
AllServed ==
    \A c \in Client : (at[c] = "reading") ~> (at[c] = "finished" \/ ~up)

\* Every dispatch comes to its end, the one that nobody reads included: the
\* engine is free again for the next client.
EngineComesFree == []<>(lockQ = << >> \/ ~up)

\* A conversation alone on the server is never cut by the cancel flag, which
\* each dispatch resets "for this new request".
AloneNotCut == (\A c, d \in Client : c = d) => \A r \in Req : ~cut[r]
=============================================================================
