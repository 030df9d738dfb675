# Verification of the Cluaiz inference engine

TLA+ modules, TLC configurations and TLAPS proofs about the program in this
repository: a local inference engine for language models in Rust, with a
daemon, an HTTP API, a terminal interface, an agentic tool loop, compiled
caches of skills, an installer of models and components, and a kernel around
llama.cpp that is loaded as a dynamic library.

    tlc -workers 2 -config MCDispatcher.cfg      MCDispatcher
    tlc -workers 2 -config MCChatApi.cfg         MCChatApi
    tlc -workers 2 -config MCChatCut.cfg         MCChatApi      # finds a violation
    tlc -workers 2 -config MCLlama.cfg           MCLlama
    tlc -workers 2 -config MCLlamaReuse.cfg      MCLlama        # finds a violation
    tlc -workers 2 -config MCPipe.cfg            MCPipe         # finds a violation
    tlc -workers 2 -config MCSkillCache.cfg      MCSkillCache
    tlc -workers 2 -config MCSkillPrefix.cfg     MCSkillCache   # finds a violation
    tlc -workers 2 -config MCGovernor.cfg        MCGovernor
    tlc -workers 2 -config MCGovernorDeleted.cfg MCGovernor     # finds a violation
    tlc -workers 2 -config MCSession.cfg         MCSession
    tlc -workers 2 -config MCInstall.cfg         MCInstall
    for m in DispatcherProofs LlamaProofs SkillProofs SessionProofs \
             InstallProofs FoundryProofs GovernorProofs SharingProofs
    do tlapm $m.tla; done

`PROJECT.json` lists the components, the runs, the mutation of the model that
each checked property detects, the source lines behind each definition, the
hazards, the findings and the theorems.

## 1. Inventory

| Component | Where | State | Operations | What is hard | What makes it correct |
|---|---|---|---|---|---|
| Neural dispatcher | `interface-engines/dispatcher` | one cached engine behind an async mutex, a semaphore of 4, one cancel flag, a channel of 100 for each stream | `dispatch_stream`, its task, the C callback, `dispatch_prompt` | tasks interleave at each await; the flag is outside the mutex; the callback runs on the blocking pool with a raw engine pointer; panics on both sides of the FFI | no use of a freed engine; the right model; a stream that ends with `[DONE]`; a request cancelled only by itself |
| HTTP chat handlers | `Inference-engine/api/src/handlers/chat.rs` | receiver, prompt and iterations left of each response | completions (streaming, with tools), chat, stream | a resumption is dispatched while the stopped generation is still running; disconnections | each tool once; each client answered; no forgotten receiver |
| Pipe daemon and CLI | `api/src/ffi_bridge.rs`, `cmd/src/cli/run.rs` | one connection for each prompt | command, relay, done line, read loop | each side waits for the other | the prompt comes back |
| llama engine | `interface-engines/llama` | KV cache, remembered prompt, position counter, drafts, dump file, context | instantiate, prefill, generate, dump, load, resize, free | positions are kept by hand on three sides (driver, llama.cpp, memory of the last prompt); shifts, drafts and failures move them; a resize may lose the context | the cache is a window of the conversation |
| API router, skills | `engines/src/api/router.rs`, `neural_foundry/mod.rs`, `skills/router.rs`, `compiler_daemon.rs` | `COMPILATION_LOCKS`, caches and `temp_state` files for each model, the semantic index, active engine | load model, prompt, background compilation, agentic pause, warm load, index, clear | check-then-act on the locks; one temporary file name for all; files compared by time; other processes change the active model | one compilation at a time; a loaded cache is of this text and this model |
| Agentic loop | `router.rs:735-1145` | buffers of the interceptor, tool state | intercept a piece, run a tool, final answer | triggers cut anywhere by the tokenizer | no text lost, no trigger shown, one tool |
| Terminal session | `cmd/src` | two queues of terminal input, paste buffer, active model, router, roster, signals | start, menus, lines, pasted lines, switch, Ctrl+C | input is thrown away before a prompt and during an answer; loads that fail half-way | every line that a prompt waited for counts; an engine that counts as loaded is the active one |
| VRAM arbiter | `cluaiz-shared/src/hardware/governor.rs` | allocations, process registry file | calibrate, request, negotiate, release | nested locking; a registry shared by processes | memory that is taken is never promised; who is listed holds some; no self-deadlock |
| Settings, fingerprint, permissions | `system_control.rs`, `booster.rs`, `permission_schema.rs` | a JSON and a binary file for each | load, save, tune, recover, set active model | crash between two files; read-modify-write by several writers, also by readers | without overlaps, what is read was last saved; a fingerprint survives |
| Model files | `models/` | manifest, weights, partial files, DNA of a model, in one directory or in two | fetch, resume, pull, purge, list | one partial file for all downloaders; an unflushed last piece; a crash between files | visible weights lack at most what nobody waited for; a unit has its weights |
| Binaries | `bootstrapper.rs`, `driver_provisioner.rs`, `manager` | engine, kernel, driver and their version markers | start, development copy, provision, prepare | marker and file are written one after the other by every start | a start skips only what is current |
| Components | `hub_installer.rs`, `registry_index.rs`, `sandbox.rs` | registry in two files, directories, manifests and their caches | install, remove, execute, change a permission | steps that fail one by one; caches compared by time | the registry names what is installed; a permission is in force |
| CEL | `inference-cel` | none (parser) | lex, plan | malformed input in the middle of a stream | plan and text agree |
| Drivers, ONNX, numeric kernels, prober, templates, build tool | see `PROJECT.json` | little or none | | I/O, rendering, numerics | |

**How they interact.** The CLI writes a prompt to the pipe daemon, a browser
or a program posts to the HTTP handlers; both call the dispatcher and read its
channel. The dispatcher resolves the active model from the permission file,
which the API and the CLI write, loads the llama kernel through its C
functions and receives tokens in a C callback. A `<TRIGGER:...>` in the text
stops the generation; the handler runs the tool in a sandbox and dispatches the
prompt again. The router, which the terminal session owns, is a second client of
the kernel, with its own agentic loop and with caches compiled by background
engines. All engines ask one arbiter for VRAM, across processes through a
registry file. Terminal, daemon and command line share the settings, the
permissions, the models and the components through files, without locks.

## 2. Modules

    Dispatcher <- ChatApi, PipeChat           LlamaDriver <- EngineLink
    SkillIndex <- SkillCache                  ToolStream  <- Session
    BoosterRules <- Governor                  ModelFiles, Artifacts, Foundry <- Install

`<- M` is extended by M. Properties are in `*Properties`, proofs in `*Proofs`,
instances for TLC in `MC*`.

### `Dispatcher`: NeuralDispatcher

One request is one call of `dispatch_stream` that reached a native backend. Its
task goes through the phases of `pc`:

| `pc` | the task is at |
|---|---|
| `spawned`, `queued` | `tokio::spawn`; `semaphore.acquire().await` (`semQ`) |
| `resolved`, `waiting` | `resolve_active_model_path` done; `cached_engine.lock().await` (`lockQ`) |
| `generating`, `callback`, `storing` | inside `cluaiz_kernel_generate_stream`; in `blocking_send` of the callback; before `cancel_flag.store(true)` |
| `returned`, `closing` | the kernel returned, "Final Buffer Check" ahead; only the last messages are left |
| `ended`, `panicked` | the guards and the sender are dropped |

Tokio's semaphore and mutex serve in order, hence the two queues: the first
`Permits` of `semQ` hold a permit and the head of `lockQ` the engine. What
happens between two awaits with the mutex held is one action; loads and stores
of the cancel flag are actions of their own, since the flag is under no lock.
An engine is named by the request that instantiated it. The buffer of the
callback is reduced to `before`, `inside` and `past` a trigger, a stream's text
to `Text`, `Trigger`, `Fragment`, `Error`, `Done`.

The panics of the code are actions: `CString::new(prompt).unwrap()`,
`blocking_send` in the async task when the kernel is missing, and the string
slices inside the `extern "C"` callback, which abort the process (`up`).
`HangUp` and `SwitchModel` are the environment: a receiver dropped at any time,
the user choosing or removing a model at any time. History variables (`sent`,
`cut`, `solo`, `since`) are read by no guard.

Abstracted: a closed semaphore (it is never closed), a kernel library without one of its three
functions, the text of the messages, the engine arguments.

### `InferenceService`, `DispatcherProperties`

`InferenceService` is what the dispatcher is for: requests served one at a time,
each by the model loaded for it, the model in memory changing only between two.
`DispatcherProperties` states the properties and the refinement mapping
(`phaseOf`, `loadedModel`).

### `ChatApi`: the HTTP chat handlers over `Dispatcher`

Composes clients with the dispatcher by conjoining its actions: a handler's step
is a step of the handler and of the dispatcher at once (`Begin` is
`DispatchStream`, `Forward` is `Receive`, ...). `Resume` and `Switch` are two
steps because the old receiver lives until `rx = new_rx`. `Disconnect` is the
server dropping a handler at an await or a yield.

### `PipeChat`: a prompt through the named pipe

The CLI's batch mode and the daemon's `handle_client`, over `Dispatcher`. A
connection carries one command of the CLI and lines back.

### `LlamaDriver`, `EngineLink`, `LlamaProperties`: one llama engine

`kv` maps occupied positions to tokens; `llama_memory_seq_rm`, `seq_add` and
`llama_decode` are the operators `Upto`, `ShiftedKv` and `Placed`. Tokens of
prompts are model values, and a generated token is the number of its place in
the conversation `conv`, so a lost, repeated or displaced cell is visible.
`Generate` is the driver up to the decode of the prompt; `IngestChunk`,
`NextToken`, `Decode` and `Verify` are the loop, cut where a decode can fail or
the loop can be left. `api` tells an engine behind the kernel's C functions from
one used through the Rust trait, which has `prefill` and `apply_booster` too.

`EngineLink` is the engine's life around that: the booster parameters that reach
`cluaiz_kernel_instantiate`, on either of the two ways there (the hub, the
dispatcher), the fallbacks of `NativeLlama::load` and of the context, and the
resize that frees the old context before it makes the new one. What a machine
lets succeed is a record (`Machine`); the engine ends `ready`, `none`, or `lost`.

Abstracted: sampling and what the model says (nondeterministic), templates,
UTF-8 assembly, injected tokens (they are tokens without drafts), the sizes of
weights and windows.

### `SkillIndex`, `SkillCache`, `SkillProperties`: the compiled caches of a skill

A skill has a text (version `md`) and, for each chat model, a cache `kv[m]` and a
dump `temp[m]` on disk. A prompt (`req`) goes through `process_intent` and
`generate_stream` in the steps between which other threads or processes can act:
look at the cache, map it, read the text, look at `COMPILATION_LOCKS`, start a
compilation in the background or wait for it, unpack, load, warm load. A
compilation (`comp[c]`) dumps, reads the dump and serializes it; a file is there
from the first of its two write steps. `newer` stands for the modification times.
Versions, makers and `clean`, a history flag (nobody interfered), are carried by
every state of an engine, so a stale or foreign state shows when it is loaded.

`SkillIndex` holds the vector of the skill, its file, the embedding engine, which
is made once for a process, and the queue of the `CompilerDaemon`. The
environment edits the text, switches the model (dashboard), writes
`Permission.json` (other processes), changes the embedding model, clears caches
and crashes.

### `ToolStream`, `Session`, `SessionProperties`: the terminal session

`ToolStream` is the interceptor as operators on a record: a text is a sequence of
symbols, `<<"<","R">>` is `<TRIGGER:`, `"E"` is `</TRIGGER>`; the engine may cut
between any two symbols. The final answer slices its text at a byte offset, which
panics inside a character (`SlicePanics`). `Session` is the dashboard's thread:
the launch through its menus and audits, the prompt, the buffer of pasted lines,
the model list, a switch, a message and its stream, Ctrl+C and what follows.

Input has two queues. `tty` is what the terminal holds; `inquire` is what the
line editor, which has an event queue of its own (it links another version of
crossterm), has read but not used. Before a prompt the dashboard throws `tty`
away (`Flush`), and during an answer the callback reads keys and drops what is
not Ctrl+C (`KeysForgotten`). A line may come while a prompt waits for it, right
behind another (pasted), or ahead of a prompt; `heard` remembers which. The text
of a user is its number, so a lost or reordered line shows. Other processes
install and delete models; `disk` takes the two directories of models
(`ModelFiles`) for one.

### `BoosterRules`, `Governor`, `GovernorProperties`: shared settings, arbiter

Each operation of a process (start, request, negotiate, release, tune, menus,
HTTP and pipe commands, save, recover) is a program of file operations and calls,
`act[p].todo`; a file is emptied before it is filled. Processes interleave
between any two, and crash. The arbiter is the memory of a process (`mem`),
guarded by a mutex that is not reentrant (`held`). `BoosterRules` has the rules
that derive a setting from another with the thresholds of the code, in units of
10 MB. No binary copy of a setting is ever read back: that of the permissions is
never looked at, and that of the booster cannot be decoded, because its
`SmartState` fields are untagged, which bincode refuses; a load finds that out,
removes it and returns the default. History: which values a store may have
(`ok`; a crash in an operation on a setting adds its default), and whether two
processes used it at the same time (`mixed`).

### `ModelFiles`, `Artifacts`, `Foundry`, `Install`, `InstallProperties`

Three kinds of installed files that share no file, hence one module each and
`Install`, in which a behaviour is about one of them. `ModelFiles`: names
(`link`), inodes (`body`: the pieces of the weights that are right), manifest and
DNA; two downloaders, each of which empties its partial file first, a purge. The
fetch and the purge use `models` below the working directory (`visible`), the
manager and the roster that of the `EnvironmentManager` (`home`): the same one
in a checkout, two in an installation (`shared`). The manager renames without
flushing, so its last piece is written later, or never (`late`, `short`).
`Artifacts`: engine, kernel and driver with their markers, each start a program
of steps. `Foundry`: installer, registry in two files, executor with its cached
manifests, and the three commands that change a permission. An emptied YAML
file is not an error in either place: every field of the registry has a default,
so it loads as an empty one, and a manifest is changed as a value, which for
an empty document is null and takes no change, but is written and confirmed.

## 3. Runs

| Run | Bounds | What it shows |
|---|---|---|
| `dispatcher` | 2 requests, 2 models, 2 permits, channel of 1, 2 callbacks; symmetric in requests and models | safety and refinement of the dispatcher |
| `chat` | 1 tool client, 1 other of either kind, 4 dispatches, 1 model, 2 tool rounds, channel of 1, 1 callback | safety and liveness of the handlers |
| `chat_resume_cut` | 1 client, 3 dispatches | finding 1 |
| `llama_kv` | context 6, batch 2, margin 2, discard 1, up to 2 drafts, budgets 0 and 2, think cap 2, dumps of up to 2 cells, four prompts, of which one overflows the context | the window of the conversation |
| `llama_reuse` | as `llama_kv`, a prompt and one that begins with it | finding 2 |
| `pipe` | 1 connection | finding 3 |
| `skills` | 2 chat models, 2 embedding models, 2 compilations at a time, 1 edit, switch, clearing or crash | safety and liveness of the caches |
| `skills_prefix` | the same | finding 4 |
| `governor` | 2 processes, 2 operations, 1 crash, a card of 4 GB, two engines of 2 and 1.5 GB, four settings to change | what the stores and the arbiter keep |
| `governor_deleted` | 1 process, the fingerprint deleted | finding 5 |
| `session` | 2 models, 8 pieces of text, three sets of triggers, 2 lines, 5 inputs, pieces or changes by others | the session and the interceptor |
| `install` | models: one directory or two, 2 processes, 4 operations, 2 pieces, 1 crash; binaries: 2 starts, 2 versions, 1 crash; components: 3 (an MCP server, a plugin, a skill), 2 workers, 3 operations, 2 crashes | what installed files are worth |

*Why the bounds are enough.* Two requests and two models let each request free
the engine of the other, switch models in between and meet at every lock; the
theorems of section 5 remove these bounds. A channel of 1 is full after each
message, so every send can block. With a permit for each request the semaphore never
makes one wait in these instances; waiting for a permit is covered by the proofs, and by
`chat`, whose 4 dispatches have 2 permits. Four dispatches allow the
tool client two rounds with a resumption that nobody reads, next to one
dispatch of the other client. In `llama_kv` the context holds a prompt, its
answer and one overflow of every kind: a shift before it is full (margin), an
emergency shift, drafts at the end, a prompt longer than the context; the prompts
share prefixes of length 1 and none, so that prefix matching takes every
branch. The real sizes are 32 (margin), 256 (reserve), 4 (drafts), 4096 (think
cap), 100 (channel), 4 (permits), 3 (rounds).

In `skills` one interference falls between any two steps of a prompt and two
compilations, of the same model or of different ones; with two of them safety was
checked once, and the proofs cover any number. In `governor` two operations
overlap in every way, or one follows another after a crash at any file
operation; the card is one that the second engine does not fit on. In `session`
five steps are enough for a trigger in three pieces with text before and after,
or for a switch that fails between two lines; two lines are one that is waited
for and one that is pasted behind it or typed ahead. Three lines were checked once,
and the proofs cover any number. In `install` the fourth
download follows a crash, a purge and an overlap; three operations on components
are one that is cut, one that repairs, and one that looks.

All runs set `CHECK_DEADLOCK FALSE`: the systems stop when every request is
served, the process is aborted or the bound is reached.

**Properties.**
`EngineSafe`: the raw pointer handed to the blocking pool is neither freed,
replaced nor shared during a generation, and no engine leaks.
`FreshModel`: whatever it waited for, a request runs on a model configured at
some time since its dispatch. `DoneIsLast`: `[DONE]` once, last, and always
unless the task panics. `SoloUndisturbed`: without another request in progress
the shared flag neither cuts a generation nor duplicates its trigger; with
another one both do happen. `ImplementsService`: refinement.

`NoForgottenReceiver`, `ToolOnce`, `AllServed`, `EngineComesFree` for the
handlers: tools run once for each trigger even where the dispatcher sends it
twice (the handler stops reading), and a last resumption that nobody reads still
ends.

`Contiguous`, `SlidingWindow`: `n_cur` is the next free cell and the cells
are the head and the tail of the conversation, after any sequence of shifts,
drafts, failures, pivots, dumps and loads, as long as `last_prefilled_tokens`
described the cache at the start of the call (`sound`; through the Rust trait a failed
load or a new context breaks it). `FfiIsCold`: over the kernel's C
functions nothing is remembered, because `generate_stream` clears it and
prefill is not exported: the tokens of a dump are always empty and each prompt is
decoded in full (finding 2); nor is a context ever lost, because a resize is not
exported either. `NeverFull`: shifting leaves room for a token and its drafts.
`BudgetKept`: `max_tokens` is overrun by at most one batch of drafts.

`OneCompilerPerPath`: a path is marked exactly while one task compiles it.
`HonestHit`: a state loaded for a prompt was made by the router's model, whole
and from the text as it is. It makes four exceptions, each of which the code
does run into: the text or the model changed while the prompt was served or the
cache compiled; a dump that a crash or an edit left is loaded beside a
cache that is not whole; the active model of `Permission.json` is not the
router's; `enable_kvcache` is off, which the warm load does not look at.
`EveryPromptEnds`: also a prompt that waits for a compilation which fails at any
step or whose files are removed.

`SettingsKept`: while operations do not overlap, a load gives what was last set;
a crash costs only the setting whose operation it cut, which may then have its
value of before, or its default; one setting at a time, since a save writes one.
Where operations overlap nothing of the kind holds: updates are lost.
`NeverUndercounts`: the arbiter may leak but never promises taken memory.
`ListedHolds`, `TruthSurvives`, `NeverSelfLocked`: see the module.

`AwaitedLinesCount`: a line that a prompt waited for comes into the messages,
and no line comes twice or out of order; one that was pasted behind it or typed
ahead may be thrown away. `LoadedIsActive`: an engine that counts as
loaded is the active model's. It does not say who answers: after a load that
failed the router keeps the engine of before, which answers although it counts
as not loaded (`Respond`).
`NothingLost`, `TriggerHidden`, `OneTool` for the interceptor.

`WeightsComplete`: visible weights lack at most the last piece of a manager that
did not wait for it. `UnitHasWeights`, `PullHonest`: each downloader's own
directory has what it reports; where the two are one, so does the list of
models. `MarkerCurrent`. `RegistryKept`: through one crash. `PermissionInForce`:
what executes is the permission that was last confirmed, or the manifest was
emptied by a crash and nothing executes. Each names, in its comment, the overlaps
and crashes for which the code gives no such promise; section 4 lists them.

**Fairness.** Safety runs assume none. `chat`
assumes weak fairness of each task (tokio schedules every task that is ready, a
blocking thread runs, and a generation ends since it has a budget of 4096
tokens) and of each handler (the HTTP client reads, or its connection is
dropped). Weak fairness is enough because the semaphore and the mutex are FIFO:
a task at the head stays enabled. `pipe` assumes the same of the daemon and
the CLI; the user's interruption is never assumed. `skills` assumes that the
thread of the router, the worker of the daemon and the tasks of compilations go
on; nothing is assumed of the user or of other processes. `governor_deleted`
assumes that each process goes on.

## 4. Findings

Runs that show a disagreement between the code and what the repository says of it:

1. **A resumed conversation is cut** (`chat_resume_cut`, `AloneNotCut`). The callback sends the
   trigger and then stores `true` in the dispatcher's flag; the handler can
   dispatch the resumption in between, which resets the flag "for this new
   request", and the late store stops the new generation at its first token.
2. **A prefix is never reused** (`llama_reuse`, `PrefixReused`). "The native
   backend will automatically perform prefix-matching KV cache reuse"
   (`router.rs:1052`), but over the C functions `generate_stream` forgets the
   prompt at its end (`llama/src/lib.rs:365`): the cache is emptied and each
   prompt decoded from its first token.
3. **The batch CLI does not come back** (`pipe`, `PromptReturns`). `break` at the
   done line leaves the inner loop only, and the daemon keeps the connection.
4. **An old cache under a new text** (`skills_prefix`, `PrefixMatches`). A cache
   whose compilation ends after SKILL.md was edited is younger than the text, so
   it passes for current (`neural_foundry/mod.rs:185`); the state of the old text
   is loaded and the new text put before the prompt, "so the prompt prefix
   matches the KV prefill".
5. **A negotiation that never returns** (`governor_deleted`, `EveryOpReturns`).
   `negotiate_vram_envelope_with_booster` loads the fingerprint under the
   arbiter's mutex; when it is gone, the recovery scan takes the mutex again on
   the same thread.

Met while modelling. The modules contain the behaviour and no run is about it;
where a property makes an exception for it, TLC finds it when the exception is
taken out:

- *Engine.* "Extreme" shifting never shifts for long prompts: `n_discard` is half
  the context and `n_keep` up to the other half, so `n_keep + n_discard < n_cur`
  (`context.rs:26`) cannot hold, while `docs/engine/booster.md:75` promises a
  shift just before overflow. `NeverFull` fails with `Discard = 3` and a prompt of
  five tokens, and is a theorem under `RoomToShift`. A failed resize leaves weights
  without a context, and the next generation hands a null pointer to llama.cpp (`core.rs:206`, state `lost`).
  `force_memory_lock` and `turbo_quant` do not reach the engine through
  `cluaizBoosterContext` (`docs/engine/booster.md:41-47`). After a warm load
  over the C functions the next generation drops the loaded cache.
- *Caches.* A cache that is being written counts as valid, cannot be read and is
  not compiled again. Clearing the caches takes the directory from under a
  compilation. The comments at `run.rs:90` and `97` have the daemon compile KV
  caches, which it never does.
- *Settings.* A crash while a setting is saved resets it, because no binary copy
  is ever read: nobody looks at that of the permissions, and "Falling back to
  binary" (`governor.rs:586`) ends in bincode refusing an untagged enum. "Update
  one field" (`commands_reference.md:243-244`) loads, changes and saves the whole
  store, so a change in between is undone; and where a reader that writes back
  what it read has the booster's file empty (`governor.rs:582`), the update
  starts from the default. `update_field` fails at its last write.
  `cluaiz booster --mode` does not save.
  The process registry gets entries only from `request_vram`, which nothing calls.
- *Session.* Pasted lines are to be merged (`dashboard.rs:189`), but for a line
  that waits to be merged the loop comes round and throws away what the terminal
  holds, the next line of the paste with it (`dashboard.rs:156-159`). Ctrl+C is
  not seen while a trigger is captured. What is withheld at
  the end of a text is not shown. A load that fails leaves the old engine to
  answer. A piece with the end of one trigger and the start of another
  repeats text (`TextAssumption` excludes it). `max_iters = 3` is never
  reached.
- *Models.* In an installation a model that `run` fetched is not in the list of
  models: the fetch writes below the working directory (`fetch/mod.rs:30`), the roster
  reads below `BITSHIT_HOME`. The manager renames without a flush
  (`installer.rs:64`), against its ".part atomic protocol" (`installer.rs:16`): on
  a full disk, or in a kill, weights without their last piece become visible and
  nobody is told. Two downloads share one `.part` file. A purge that is cut leaves
  a manifest without weights.
- *Components.* A manifest that a crash emptied takes no change, yet the pipe
  (`ffi_bridge.rs:354`) and the command line (`config_cmd.rs:173-184`) report
  success. A load that finds the binary registry emptied writes it from the YAML
  file that it read; an installation may have registered its component in both
  in between, and two installations save what each loaded: an entry is lost
  that was to "persist to disk" (`registry_index.rs:231`). A first save of the
  registry that is cut leaves an empty registry, which the next load takes for
  whole and copies. An execution that read a manifest before a change writes its
  cache after the change removed it (`sandbox.rs:263`), so the old permission is in
  force again, which the removal is to exclude (`config_cmd.rs:177-178`).
  Plugins are registered under `plugin/` and looked up
  under `plugins/`. The drivers' downloads do not look at the HTTP status.

## 5. Proofs

### The dispatcher (`DispatcherProofs`)

For any sets of requests and models, any number of permits, any capacity and any
length of a generation, from `SizesAssumption` and `NoneAssumption` only:

| Theorem | Property |
|---|---|
| `TypeCorrect` | `TypeOK` |
| `EngineIsSafe` | `EngineSafe` |
| `ModelIsFresh` | `FreshModel` |
| `DoneEndsStream` | `DoneIsLast` |
| `SoloIsUndisturbed` | `SoloUndisturbed` |
| `DispatcherImplementsService` | `ImplementsService` |

All follow from `Inductive`: `Spec => []IInv`, where `IInv` conjoins

- `TypeOK`;
- `OutShape`: which messages a task may be about to send in each phase. A step
  that sends `Head(out[r])` says nothing about it, so what has reached the
  channel is bounded by what `out` can hold;
- `EngineInv`: a task in service is at the head of `lockQ`, and the cached
  engine, the only one alive, has the path that this task resolved. Two tasks in service
  would both be the head, hence no sharing;
- `SinceInv`: a path that was resolved was configured since the dispatch;
- `StreamInv`: `[DONE]` is not in `sent` before a task is closing, and what is
  left to send ends in it;
- `SoloInv`: while no other request is in progress the flag is raised only by
  the callback of the request itself, after its trigger is in the channel.

Each conjunct has an `Init` lemma and a `Step` lemma with one step for each
action; the refinement has one for the initial states and one for the steps
(`ServiceInit`, `ServiceStep`).

### The handlers (`DispatcherProofs`, second part)

`HandlersUseDispatcher` (`ChatSpec => Spec`): every step of the composition is one
of the dispatcher or leaves it alone, so the theorems above hold under the handlers.
`ReceiversAreKept` (`NoForgottenReceiver`), `ToolsRunOnce` (`ToolOnce`) and
`HandlersTyped` follow from `HandlersInductive`, the invariant
`IInv /\ HandlerInv`. `NoForgottenReceiver` is not inductive: that a resumption
takes an unused dispatch needs that an idle dispatch has no open receiver and is
held by nobody, and that two handlers never hold the same one (`ReceiverInv`).
`ToolOnce` needs that the dispatch a handler reads is in none of its past tool
rounds, and that rounds and iterations left add up to at most `MaxIters`
(`ToolInv`).

### The llama engine (`LlamaProofs`)

From `DriverAssumption`, for any context, batch, margin, discard, drafts, prompts
and budgets: `EngineTyped` (`LlamaTypeOK`), `BudgetIsKept`, `CounterIsNext`
(`Contiguous`), `CacheIsWindow` (`SlidingWindow`) and `FfiRemembersNothing`
(`FfiIsCold`). They follow from `EngineInductive`, whose invariant has three parts:

- `TypeInv`: types, the type of the dump on disk, and the counts at each place
  of the loop (`CountInv`);
- `WindowInv`: during the prompt, the cache is the beginning of the conversation and
  what is left of the prompt is its rest; in the loop, the cells are a window
  (`Window`); under verification, the drafts lie behind it in order;
- `FfiInv`: with nothing remembered and no hole in the cache, `Remembered` holds
  of every call, so the window is kept without the history flag `sound`.

The lemmas before them say what the operators of the cache do to cells:
cut (`UptoCells`), decode (`PlacedCells`), shift (`ShiftCells`), prompt
(`GenerateFacts`), and that both a decode and a shift keep a window
(`GrownWindow`, `ShiftedWindow`).

`RoomForEveryToken` is `NeverFull` under `RoomToShift`: half of the context and
`n_discard` together are less than the context. It is the other side of
what "Extreme" shifting does: with a context of more than 32 tokens
every mode but that one meets the hypothesis.

### The caches of skills (`SkillProofs`)

From `SkillCacheAssumption` and `NoneAssumption` (nothing is not a file), for any
models, compilers, edits and changes: `SkillTypes`, `CompilersApart`
(`OneCompilerPerPath`) and `HonestHits` (`HonestHit`). `OneCompilerPerPath` needs
that no mark is set between the look at the locks and the mark of the one
request, and that at most one compilation is waited for (`OneWaits`).
`HonestHit` relates what is loaded to the text, and what is loaded may come from
a file, a dump, or a compilation. `HonestInv` says of each of the three, as far
as nobody interfered with it, whose it is and of which text: a file that counts as newer than the text
is of this text (`FilesHonest`); a compilation has the text as it is and no stale
file beside it (`TasksHonest`); a dump is of the text too, but for the one
that an upset request has copied from a stale file (`DumpsHonest`); an
undisturbed request has found what it is going to load (`RequestHonest`).

### The session (`SessionProofs`)

From `SessionAssumption` and `TextAssumption`: `LoadedEngineIsActive`
(`LoadedIsActive`, by `EngineInv`: no engine before the boot, the active model
set before each load), `AwaitedLinesAreKept` (`AwaitedLinesCount`, by `LinesInv`:
messages, buffer and the two queues hold lines in the order of entry, a line that
was waited for and is not yet taken is at the head of the terminal's queue, which
the prompt then reads, and nothing is left in the buffer while an answer is
given), `TextIsWhole` (`NothingLost`), `OneToolAtMost` (`OneTool`) and `TriggerIsHidden`
(`TriggerHidden`), all three by `StreamInv`, and `SessionTypesHold`.
Before them are the lemmas on the interceptor for any piece and any
triggers: the record stays well formed, what was generated is what was passed
on, held or captured, no end of a trigger and none of `<TRIGGER:` but its `<` is held
outside a capture. The last is what makes the next piece end a trigger only at
its own beginning. `TriggerHidden` needs no induction over the text either: the
invariant says that at every place of what was passed on the trigger is contradicted
by a character that was already generated (`Apart`), which no later text undoes.

### The directory of a model (`InstallProofs`)

From `ModelAssumption`, for any set of processes and any number of pieces, in one
directory or in two:
`WeightsAreComplete` (`WeightsComplete`), `UnitsHaveWeights` (`UnitHasWeights`)
and `PullsAreHonest` (the action property `PullHonest`), over the `Spec` of
`Install`, whose other topics leave the directories alone (`DirectoryIsSound`).
`DirectoryInv` has four parts:

- `PullTypes`: types, and what the place of an operation says of it.
- `RoomForInodes`: inodes in use and downloads yet to open their file are no more
  than the operations begun, so that the `CHOOSE` of a free inode in `Open` has
  one to choose (`FreeInode`, a counting argument).
- `Apart`: no inode has two names, and while no two downloads of a kind have met,
  one process of a kind writes, to an inode whose only name is its own partial
  file, and has written, or owes (`Owed`), every piece up to where it is.
  `WeightsComplete` alone is not inductive: `Rename` makes weights of an inode of
  which only `Apart` says that it is complete but for that, and that nobody else
  goes on writing it.
- `Units`: a purge that meets nothing lists all there is in its directory; otherwise,
  and always in the directory that no purge touches, manifest and DNA follow the
  weights (`UnitsOf`). `OpenApart`, `ChunkApart` and `RenameApart` are the three steps
  that can disturb the third part, `PurgeUnits` those that disturb the fourth.

### The program's own binaries (`InstallProofs`)

From `ArtifactAssumption` (the marks of files are not versions, and only engine and
kernel are built): `SkippedIsCurrent` (`MarkerCurrent`), for any number of
starts, versions and crashes. A start is a sequence of steps that others are put in front of, so
`MarkerCurrent` says nothing of what a start is about to do. `ArtifactInv` does,
for any rest of a start:

- `Ordered`: a mark follows the fill of the same file, a fill its emptying, and
  of a binary that is not built only one is being written, at the front;
  `Asked`: no check without an answer of the registry.
- `Solo`: a start that meets no other empties or fills only what is not marked
  as the newest, and marks as the newest only what it filled with that. The
  lemmas before it say it of each step (`CheckStep`, `CopyStep`, `MarkStep`, ...), and that
  it is kept when something is put in front (`Joined`).
- while no two starts met, one is running, `Solo` holds of it, and markers
  vouch for files.

### Components (`FoundryProofs`)

From `FoundryAssumption` (no mark of a file is a permission or a set of
components): `RegistryIsKept` (`RegistryKept`), `PermissionsAreInForce`
(`PermissionInForce`), and with the two sections before, `InstallTypesHold`
(`InstallTypeOK`), for any number of components, processes, operations and
crashes. All follow from `ComponentsAreSound`, the invariant `FoundryInv`:

- `FilesInv` and `WorkerInv`: what holds of the files and of each operation
  whoever else works. An operation is what is left of its program; `Links` and `Finals` say
  what may follow what and what comes last, so that a step knows its
  successor (`Remainder`, `StoredFirst`).
- `Crowd`: an operation that met another one leaves nothing sure; one that met
  none is the only one.
- `Tears`: a file that is torn with nobody about to fill it cost a crash, and two
  of them two crashes. It is why `RegistryKept` may count crashes: after one, the
  other file is whole, or was never there, and then there was nothing to lose.
- `Still`: with nobody at work the registry that a load would find agrees with
  what was reported (`Quiet`), and so do the permissions (`InForce`).
- `Lone`: the same for one operation at work, but for the component it is
  changing, and what it has in memory is what it found (`LoneFiles`,
  `LoneKept`, `LonePerm`).

The two properties speak of settled states only. They are not inductive: an
operation that is half done has written one of two files, or a manifest whose
old cache is still there. `PermissionInForce` needs no count of crashes: an
emptied manifest is a manifest without a permission, whatever was confirmed
after it was emptied, and nothing is executed with it.

### The arbiter and the settings (`GovernorProofs`)

From `GovernorAssumption` and `ChangesAssumption` (marks of files are not values of
a setting, engines are finitely many and demand something): `GovernorTypesHold` (`GovTypeOK`) and
`NothingUndercounted` (`NeverUndercounts`), for any processes, engines, changes and
crashes. What a process still has to do is a sequence of steps, of which
some put others in front (a recovery scan inside a load inside a negotiation), so no invariant
can list the places of a program. Instead `TypeInv` says that what is left is a
*path*: there is a label before and after each step, saying what is known there
(the booster was read, a change was chosen) and what is known wherever an error is
caught, and the rules of the operation (`TypeRule`) let each step follow
the label before it. A path can be entered at its head (`PathHead`), continued by another
(`PathCat`) and cut where an error is caught (`PathCut`), so each action has only
to show that what it puts in front is a path from what it knows to what the rest
needs. Every program is a path (`TypeProgram`). `NeverUndercounts` needs no more
than these types and the counting of grants (`GrantsSplit`).

`NobodyLocksItselfOut` (`NeverSelfLocked`) is about one process that meets itself:
the recovery scan takes the arbiter's lock, and may be started by a load under it. Its
statement has a condition, `FingerprintThere`: in every pair of files that a
process may find at first one file is there. It is needed, and it is the code's own: with
both files deleted `governor_deleted` shows the process that waits for itself. `LockInv`
is again a path for each process, with other claims: `free`, the process
does not hold the lock; `sure`, it has a fingerprint; `json`, `tmp` and `pres`,
which file of the fingerprint is there. A load starts no scan where `pres` is known, and
is a path otherwise only from `free`. Files of the fingerprint only come (`FilesStay`): the
JSON file is never removed, its temporary file only becomes it, the binary one goes
only while the JSON file is there. So what a process knows of them stays true whoever
else works.

### The process registry (`SharingProofs`)

`ListedProcessesHold` (`ListedHolds`), from the same assumptions. `ListedHolds`
speaks of processes between two operations; within one, the registry's
file, the copy that the process read and its arbiter disagree in turn. `RegInv` has four parts:

- `RegApart`: while nobody met another one in the registry, one process uses it.
- `RegPids`: no pid of a later start is in the file or in a copy. It is why
  a crash is harmless: a process comes again with a pid that nobody lists.
- `RegListed`: a process that does not use the registry holds VRAM if it is listed.
- `RegWalk`: a path with the claims `listed` (if the file lists the process, it holds
  VRAM), `others` and `self` (the same of the copy that it read, for the others
  and for itself) and `holding`. A step that has nothing to do with the registry
  is taken only where `listed` and nothing else is claimed (`Rest`), so
  all of these are one case (`RegNeutralKeeps`); a return makes no claim until its entry is removed.

### The settings and the fingerprint (`SharingProofs`)

`SettingsAreKept` (`SettingsKept`) and `FingerprintSurvives` (`TruthSurvives`), from
the same assumptions and one invariant, `KeptInv`. They go together: a recovery
scan, which writes the fingerprint, is inserted into operations that change the
booster, and a start tunes the booster to what the scan found. Four parts:

- `KeptApart`: where nobody met another one in a store, one process uses it.
- `SysFacts`, `SetFacts`: what holds of the files whoever is at work. While nobody
  crashed, a fingerprint that was there can be read at *every* step (`Safe`), and
  wherever the JSON file of a setting is whole it holds a value that the setting may
  have (`Held`): the step at which a crash comes is arbitrary, so this is
  what a crash leaves, an allowed value or a torn file, and then the default, which
  is allowed since the crash. Where nobody uses a store, its files are `SysCalm`
  (a torn JSON file of the fingerprint has a whole binary one beside it) or
  `Even` (a load gives a value that the setting may have).
- `KeptWalk`: a path with claims of the files (`jsonTorn`, `jsonWhole`, `tmpWhole` and so on)
  and of the copy in memory (`mine`: the setting may have this value; `meant`: it is
  what the user asked for; `both`: both files have it). A save starts from `calm`
  and `even`, loses them where it empties a file and has them again at its end;
  `saved`, where the model takes the new value for the one to keep, needs `both`.

The claims hold under a gate: for a setting that no two processes met in it
(`SetGate`), for the fingerprint also that nobody crashed, or one process did in a
group that had a fingerprint (`SysGate`), which the booster, tuned to it, needs
too. Behind a closed gate a step may find anything, an empty file among the rest,
so each rule also has a way on that claims nothing (`lost`). `KeptFollow` is for
the rename under an open descriptor: the other process then fills the file of the
new name, and it is shown that this happens only where two processes met.

### Only model-checked

- The liveness properties that hold (`AllServed`, `EngineComesFree`,
  `EveryPromptEnds`) and those that the code violates (`PromptReturns`,
  `EveryOpReturns`): fairness and ENABLED are beyond this prover.
- The other violations (`AloneNotCut`, `PrefixMatches`, `PrefixReused`) are
  counterexamples that TLC found.

Every invariant and action property of a passing run is a theorem.

## 6. Not modelled, and the plan

Every component that keeps state which two steps can disagree on is in a module;
most are `partly` modelled because what only reads, formats or prints is left
out, as noted at each component in `PROJECT.json`. Not modelled at all:

- *Circuit breaker*: each caller makes one for a single call, so its state is never
  seen again. *KV paging*: without a caller, but for the mapping of a cache
  file, which is `MapCache` of `SkillCache`.
- *CEL lexer, planner, metadata parser*: pure functions from a text to a list,
  whose specification would repeat them character by character. *CEL registry,
  activation bus, sandboxes*: second copies of the foundry's without a caller.
- *Driver resolution, ONNX engine, numeric kernels*: commands to the operating system,
  wrappers of a runtime, arithmetic; nothing is kept between calls.
- *Rendering, benchmark, help, templates, build tool*: text.

Code without a caller in the program (`BinaryProvisioner`, `cluaizRunner`,
`GGUFLoader`, `fetch_asset_auto_heal`, `cleanup_partial_download`) is not
modelled either. `EmbeddingDispatcher` keeps nothing between calls.

What could come next: a refinement of the settings' two files to one register,
under the condition of `SettingsKept`; that a captured trigger ends (a liveness
property of `Session`, too slow for TLC with the present texts).
