------------------------------- MODULE PipeChat -------------------------------
(***************************************************************************)
(* A prompt of the interactive CLI (cmd/src/cli/run.rs) through the named  *)
(* pipe of the daemon (Inference-engine/api/src/ffi_bridge.rs).  The CLI   *)
(* opens a connection for each prompt and reads lines from it; the daemon  *)
(* relays the stream of one dispatch and reads the next command from the   *)
(* same connection.                                                        *)
(***************************************************************************)
EXTENDS Dispatcher

CONSTANTS
    Cli,        \* connections: one for each prompt typed
    PipeCap     \* lines that fit in the buffer of a pipe

VARIABLES
    cli,        \* the prompt: not typed yet, being answered, answered, interrupted
    asked,      \* the command is in the pipe
    server,     \* handle_client: before a command, relaying a stream, gone
    relayed,    \* the dispatch it relays
    lines       \* JSON lines on their way to the CLI

pipe == <<cli, asked, server, relayed, lines>>
pipeVars == <<vars, pipe>>

PipeInit ==
    /\ Init
    /\ cli = [c \in Cli |-> "typing"]
    /\ asked = [c \in Cli |-> FALSE]
    /\ server = [c \in Cli |-> "command"]
    /\ relayed = [c \in Cli |-> None]
    /\ lines = [c \in Cli |-> << >>]

\* client.write_all(prompt) on a connection of its own.
Prompt(c) ==
    /\ up /\ cli[c] = "typing"
    /\ cli' = [cli EXCEPT ![c] = "waiting"]
    /\ asked' = [asked EXCEPT ![c] = TRUE]
    /\ UNCHANGED <<vars, server, relayed, lines>>

\* handle_client reads it and dispatches it.
Command(c) ==
    /\ server[c] = "command" /\ asked[c]
    /\ asked' = [asked EXCEPT ![c] = FALSE]
    /\ \E r \in Req : /\ r = CHOOSE q \in Req : pc[q] = "idle"
                      /\ DispatchStream(r)
                      /\ relayed' = [relayed EXCEPT ![c] = r]
    /\ server' = [server EXCEPT ![c] = "streaming"]
    /\ UNCHANGED <<cli, lines>>

Incoming(c) == server[c] = "streaming" /\ cli[c] # "gone" /\ chan[relayed[c]] # << >>
Room(c) == Len(lines[c]) < PipeCap

\* A token, or a piece of a <cel> block, which is not written.
Relay(c) ==
    /\ Incoming(c) /\ Head(chan[relayed[c]]) # Done
    /\ Room(c)
    /\ Receive(relayed[c])
    /\ \/ lines' = [lines EXCEPT ![c] = Append(@, "token")]
       \/ UNCHANGED lines
    /\ UNCHANGED <<cli, asked, server, relayed>>

\* "[DONE]": the done line is written, and the next command awaited.
RelayDone(c) ==
    /\ Incoming(c) /\ Head(chan[relayed[c]]) = Done
    /\ Room(c)
    /\ HangUp(relayed[c])
    /\ lines' = [lines EXCEPT ![c] = Append(@, "done")]
    /\ server' = [server EXCEPT ![c] = "command"]
    /\ UNCHANGED <<cli, asked, relayed>>

\* The stream closes without "[DONE]": nothing is written.
StreamEnds(c) ==
    /\ server[c] = "streaming" /\ chan[relayed[c]] = << >> /\ pc[relayed[c]] \in Finished
    /\ HangUp(relayed[c])
    /\ server' = [server EXCEPT ![c] = "command"]
    /\ UNCHANGED <<cli, asked, relayed, lines>>

\* A write or a read fails once the CLI is gone.
ClientGone(c) ==
    /\ cli[c] = "gone" /\ server[c] # "closed"
    /\ IF server[c] = "streaming" THEN HangUp(relayed[c]) ELSE UNCHANGED vars
    /\ server' = [server EXCEPT ![c] = "closed"]
    /\ UNCHANGED <<cli, asked, relayed, lines>>

\* The CLI reads a line.  `break` on `done` leaves the loop over the lines of
\* one read, not the loop over the reads.
ReadLine(c) ==
    /\ cli[c] = "waiting" /\ lines[c] # << >>
    /\ lines' = [lines EXCEPT ![c] = Tail(@)]
    /\ UNCHANGED <<vars, cli, asked, server, relayed>>

\* The read loop ends when the pipe is closed, by the daemon or with it.
PipeClosed(c) ==
    /\ cli[c] = "waiting" /\ lines[c] = << >>
    /\ server[c] = "closed" \/ ~up
    /\ cli' = [cli EXCEPT ![c] = "answered"]
    /\ UNCHANGED <<vars, asked, server, relayed, lines>>

\* The user interrupts the CLI.
Interrupt(c) ==
    /\ cli[c] = "waiting"
    /\ cli' = [cli EXCEPT ![c] = "gone"]
    /\ UNCHANGED <<vars, asked, server, relayed, lines>>

Daemon(c) == up /\ (Command(c) \/ Relay(c) \/ RelayDone(c) \/ StreamEnds(c) \/ ClientGone(c))
ReadLoop(c) == ReadLine(c) \/ PipeClosed(c)

PipeNext ==
    \/ \E c \in Cli : Prompt(c) \/ Daemon(c) \/ ReadLoop(c) \/ Interrupt(c)
    \/ up /\ \E r \in Req : Task(r) /\ UNCHANGED pipe

\* The tasks of the daemon are scheduled, and the CLI reads.
PipeSpec ==
    /\ PipeInit /\ [][PipeNext]_pipeVars
    /\ \A r \in Req : WF_pipeVars(up /\ Task(r) /\ UNCHANGED pipe)
    /\ \A c \in Cli : WF_pipeVars(Daemon(c)) /\ WF_pipeVars(ReadLoop(c))
-----------------------------------------------------------------------------
(* Properties.                                                             *)

\* "Read prompts line-by-line from stdin": once the done line of a prompt is on
\* its way to a CLI that waits for it, the CLI comes back for the next prompt.
PromptReturns ==
    \A c \in Cli :
      (cli[c] = "waiting" /\ lines[c] # << >> /\ Head(lines[c]) = "done") ~> (cli[c] # "waiting")
=============================================================================
