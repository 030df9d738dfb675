----------------------------- MODULE LlamaDriver -----------------------------
(***************************************************************************)
(* The KV cache of one llama engine (interface-engines/llama): RuntimeB    *)
(* (lib.rs), its context (native/core.rs) and one generation after another *)
(* (native/stream.rs, context.rs, speculative.rs).                         *)
(*                                                                         *)
(* A token of a prompt is a model value.  A generated token is named by    *)
(* its place in the conversation of its call, so that a token which is     *)
(* lost, repeated or out of place shows; a draft that the model does not   *)
(* confirm is Wrong.  Chunks of the prompt, decodes and the verification   *)
(* of drafts are steps of their own, since each of them can be the last.   *)
(***************************************************************************)
EXTENDS Integers, Sequences

CONSTANTS
    Token,       \* tokens of prompts
    Prompts,     \* token sequences that a caller may prompt with
    NoFile,      \* nothing dumped yet
    NCtx,        \* n_ctx: cells of the KV cache
    Batch,       \* n_batch: tokens of one decode of the prompt
    Shifting,    \* context_shifting_mode # 0
    Margin,      \* a shift is due this near to the end of the context (32)
    Discard,     \* n_discard: tokens that a shift drops
    Reserve,     \* cap of gen_reserve (256)
    MaxDrafts,   \* drafts of one step (4, or 0 without lookahead)
    MaxTokens,   \* values of max_tokens
    ThinkCap,    \* suppressed_count at which a generation gives up (4096)
    MaxDump      \* bound of the model: no cache with more cells is dumped

ASSUME DriverAssumption ==
    /\ NCtx \in Nat \ {0} /\ Batch \in Nat \ {0} /\ Discard \in Nat \ {0}
    /\ Margin \in Nat /\ Reserve \in Nat /\ MaxDrafts \in Nat
    /\ MaxTokens \subseteq Nat /\ ThinkCap \in Nat \ {0} /\ MaxDump \in Nat
    /\ Shifting \in BOOLEAN
    /\ Prompts \subseteq Seq(Token) \ {<< >>}    \* a prompt has its BOS or its turn marker

VARIABLES
    api,         \* what the engine is used through: the kernel FFI, or RuntimeB itself
    kv,          \* KV cache: token at each occupied position
    lastPrefilled,  \* RuntimeB.last_prefilled_tokens
    file,        \* the dump on disk
    pc,          \* where the generation is
    rest,        \* tokens of the prompt not decoded yet
    nCur,        \* next position
    promptLen,   \* original_prompt_len
    budget,      \* max_tokens of the call
    nGen, suppressed,   \* tokens generated, and those inside a think block
    drafts,      \* drafts of the batch, the confirmed ones first
    conv,        \* history: what the context should hold, were it unbounded
    sound,       \* history: last_prefilled_tokens described the cache at the start
    fresh        \* history: this call has decoded something

call == <<pc, rest, nCur, promptLen, budget, nGen, suppressed, drafts>>
history == <<conv, sound, fresh>>
vars == <<api, kv, lastPrefilled, file, call, history>>

Wrong == 0
Lesser(a, b) == IF a < b THEN a ELSE b
Greater(a, b) == IF a < b THEN b ELSE a

\* llama_memory_seq_rm(mem, 0, n, -1), llama_memory_seq_pos_max + 1, and
\* llama_decode of tokens at consecutive positions, a cell for each.
Upto(cells, n) == [p \in {q \in DOMAIN cells : q < n} |-> cells[p]]
Empty == Upto(<< >>, 0)
NextPos(cells) ==
    CHOOSE n \in 0 .. NCtx :
      (\A p \in DOMAIN cells : p < n) /\ (n > 0 => n - 1 \in DOMAIN cells)
Placed(cells, at, toks) ==
    [p \in DOMAIN cells \cup at .. at + Len(toks) - 1 |->
       IF p \in at .. at + Len(toks) - 1 THEN toks[p - at + 1] ELSE cells[p]]
Contents(cells, n) == [i \in 1 .. n |-> IF i - 1 \in DOMAIN cells THEN cells[i - 1] ELSE Wrong]

Common(s, t) ==
    CHOOSE n \in 0 .. Lesser(Len(s), Len(t)) :
      /\ \A i \in 1 .. n : s[i] = t[i]
      /\ n < Lesser(Len(s), Len(t)) => s[n + 1] # t[n + 1]
LastOf(s, n) == SubSeq(s, Len(s) - Lesser(Len(s), n) + 1, Len(s))

MaxPrompt(max) == Greater(NCtx - Lesser(max, Reserve), 1)

\* Where shift_context leaves the position counter and the cache.
NKeep == Greater(Lesser(promptLen, NCtx \div 2), 1)

\* Mutant of Shifts: only a failed decode makes room.
ShiftsLate(force) == Shifting /\ force /\ NKeep + Discard < nCur

Shifts(force) ==
    Shifting /\ (force \/ nCur >= NCtx - Margin) /\ NKeep + Discard < nCur
ShiftedCur(force) == IF Shifts(force) THEN nCur - Discard ELSE nCur

\* Mutant of ShiftedKv: the newest tokens are dropped.
DropsNewest(force) == IF Shifts(force) THEN Upto(kv, nCur - Discard) ELSE kv

ShiftedKv(force) ==
    IF ~Shifts(force) THEN kv
    ELSE [p \in {q \in DOMAIN kv : q < NKeep} \cup {q - Discard : q \in {q \in DOMAIN kv : q >= NKeep + Discard}} |->
            IF p < NKeep THEN kv[p] ELSE kv[p + Discard]]

-----------------------------------------------------------------------------
Init ==
    /\ api \in {"ffi", "trait"}
    /\ kv = Empty /\ lastPrefilled = << >> /\ file = NoFile
    /\ pc = "idle" /\ rest = << >> /\ nCur = 0 /\ promptLen = 0 /\ budget = 0
    /\ nGen = 0 /\ suppressed = 0 /\ drafts = << >>
    /\ conv = << >> /\ sound = TRUE /\ fresh = FALSE

\* generate_stream returns, with or without an error; the locals are gone.
Return ==
    /\ lastPrefilled' = << >>
    /\ pc' = "idle" /\ rest' = << >> /\ nCur' = 0 /\ promptLen' = 0 /\ budget' = 0
    /\ nGen' = 0 /\ suppressed' = 0 /\ drafts' = << >>
    /\ conv' = << >> /\ sound' = TRUE /\ fresh' = FALSE
    /\ UNCHANGED <<api, file>>

\* The cache has no hole and begins with the remembered prompt.
Remembered ==
    /\ DOMAIN kv = 0 .. NextPos(kv) - 1
    /\ Len(lastPrefilled) <= NextPos(kv)
    /\ \A i \in 1 .. Len(lastPrefilled) : kv[i - 1] = lastPrefilled[i]

\* stream_tokens up to the decode of the prompt.  A pivot goes on after what is
\* cached; any other prompt keeps the prefix it shares with the remembered one;
\* one that is too long for the context starts over with its last tokens.
Generate(p, max, pivot) ==
    /\ pc = "idle"
    /\ LET over    == Len(p) > MaxPrompt(max)
           resumes == pivot /\ ~over
           match   == IF pivot \/ over THEN 0 ELSE Common(lastPrefilled, p)
           start   == IF resumes THEN NextPos(kv) ELSE match
       IN  /\ kv' = IF resumes THEN kv ELSE Upto(kv, match)
           /\ rest' = LastOf(p, Lesser(Len(p) - match, MaxPrompt(max)))
           /\ nCur' = start
           /\ promptLen' = start + Len(rest')
           /\ conv' = IF resumes THEN Contents(kv, start) \o p ELSE LastOf(p, MaxPrompt(max))
    /\ sound' = Remembered
    /\ pc' = "ingest" /\ budget' = max
    /\ UNCHANGED <<api, lastPrefilled, file, nGen, suppressed, drafts, fresh>>

\* The prompt cannot be tokenized; the cache is cleared already.
Rejected(pivot) ==
    /\ pc = "idle"
    /\ kv' = IF pivot THEN kv ELSE Upto(kv, Len(lastPrefilled))
    /\ Return

\* llama_decode of the next chunk of the prompt.
IngestChunk ==
    /\ pc = "ingest" /\ rest # << >>
    /\ LET n == Lesser(Batch, Len(rest)) IN
         /\ nCur + n <= NCtx
         /\ kv' = Placed(kv, nCur, SubSeq(rest, 1, n))
         /\ rest' = SubSeq(rest, n + 1, Len(rest))
         /\ nCur' = nCur + n
    /\ fresh' = TRUE
    /\ UNCHANGED <<api, lastPrefilled, file, pc, promptLen, budget, nGen, suppressed, drafts,
                   conv, sound>>

\* It fails: for want of cells, or in the backend.
IngestFails ==
    /\ pc = "ingest" /\ rest # << >>
    /\ UNCHANGED kv
    /\ Return

\* The first token is sampled from the logits of the last decode.
FirstSample ==
    /\ pc = "ingest" /\ rest = << >>
    /\ pc' = "loop"
    /\ UNCHANGED <<api, kv, lastPrefilled, file, rest, nCur, promptLen, budget, nGen, suppressed,
                   drafts, history>>

\* Mutant of MoreTokens: one token too many.
OneTokenMore == nGen <= budget

MoreTokens == nGen < budget

\* The loop is left at its head: the budget is used up, or an interrupt.
Stop ==
    /\ pc = "loop"
    /\ UNCHANGED kv
    /\ Return

\* shift_context, and the token goes to the callback.  The callback refuses it,
\* or it is a stop tag or the end of the text.
LastToken ==
    /\ pc = "loop" /\ MoreTokens
    /\ kv' = ShiftedKv(FALSE)
    /\ Return

\* generate_drafts looks the last tokens up in the history and finds any number
\* of drafts, cut to what is left of the context.
DraftCap(cur) == Lesser(MaxDrafts, Greater(NCtx - cur - 2, 0))

\* Or the token is going to be decoded, with drafts of which the model will
\* confirm the first ones.  Injected tokens get no drafts.
NextToken ==
    /\ pc = "loop" /\ MoreTokens
    /\ kv' = ShiftedKv(FALSE)
    /\ nCur' = ShiftedCur(FALSE)
    /\ \E d \in 0 .. DraftCap(ShiftedCur(FALSE)), good \in 0 .. MaxDrafts :
         /\ good <= d
         /\ drafts' = [i \in 1 .. d |-> IF i <= good THEN Len(conv) + 1 + i ELSE Wrong]
    /\ pc' = "decode"
    /\ UNCHANGED <<api, lastPrefilled, file, rest, promptLen, budget, nGen, suppressed, history>>

\* llama_decode of the token and its drafts, tried again after an emergency
\* shift.  Decoded, the token counts against the budget or, inside a think
\* block, against ThinkCap.
Decode ==
    /\ pc = "decode"
    /\ \E emergency \in {FALSE} \cup {Shifting}, thinking \in BOOLEAN :
         LET at == IF emergency THEN ShiftedCur(TRUE) ELSE nCur
         IN  /\ at + 1 + Len(drafts) <= NCtx
             /\ kv' = Placed(IF emergency THEN ShiftedKv(TRUE) ELSE kv, at,
                             <<Len(conv) + 1>> \o drafts)
             /\ nCur' = at + 1
             /\ conv' = Append(conv, Len(conv) + 1)
             /\ nGen' = IF thinking THEN nGen ELSE nGen + 1
             /\ suppressed' = IF thinking THEN suppressed + 1 ELSE suppressed
    /\ pc' = "verify"
    /\ UNCHANGED <<api, lastPrefilled, file, rest, promptLen, budget, drafts, sound, fresh>>

DecodeFails ==
    /\ pc = "decode"
    /\ kv' = IF Shifting THEN ShiftedKv(TRUE) ELSE kv
    /\ Return

\* Mutant of GivesUp: one token too many.
GivesUpLate == suppressed > ThinkCap

GivesUp == suppressed >= ThinkCap

\* A think block that never ends: the loop is left with the drafts in the cache.
GiveUp ==
    /\ pc = "verify" /\ GivesUp
    /\ UNCHANGED kv
    /\ Return

\* Mutant of RollBack: the cache keeps the drafts that were not accepted.
KeepDrafts(cur) == kv

\* llama_memory_seq_rm(mem, 0, n_cur, -1) at the end of an iteration.
RollBack(cur) == Upto(kv, cur)

Confirmed == {i \in DOMAIN drafts : drafts[i] # Wrong}

\* Every confirmed draft is accepted.
Verify ==
    /\ pc = "verify" /\ ~GivesUp
    /\ \E n \in 0 .. MaxDrafts, thought \in 0 .. MaxDrafts :
         /\ n <= Len(drafts) /\ \A i \in DOMAIN drafts : i \in Confirmed <=> i <= n
         /\ thought <= n /\ (thought > 0 => suppressed + thought < ThinkCap)
         /\ nCur' = nCur + n
         /\ conv' = conv \o SubSeq(drafts, 1, n)
         /\ nGen' = nGen + n - thought
         /\ suppressed' = suppressed + thought
    /\ kv' = RollBack(nCur')
    /\ drafts' = << >>
    /\ pc' = "loop"
    /\ UNCHANGED <<api, lastPrefilled, file, rest, promptLen, budget, sound, fresh>>

\* Or the generation ends at one of them: refused, a stop tag, the end of the
\* text or ThinkCap.
VerifyLast ==
    /\ pc = "verify" /\ ~GivesUp
    /\ \E n \in 0 .. MaxDrafts :
         /\ Confirmed # {} /\ \A i \in 1 .. n : i \in Confirmed
         /\ kv' = RollBack(nCur + n)
    /\ Return

-----------------------------------------------------------------------------
\* cluaiz_kernel_dump_kv_cache / dump_kv_cache.
DumpCache ==
    /\ pc = "idle" /\ NextPos(kv) <= MaxDump
    /\ file' = [cells |-> kv, tokens |-> lastPrefilled]
    /\ UNCHANGED <<api, kv, lastPrefilled, call, history>>

\* cluaiz_kernel_load_kv_cache / load_kv_cache.
LoadCache ==
    /\ pc = "idle" /\ file # NoFile
    /\ kv' = file.cells
    /\ lastPrefilled' = file.tokens
    /\ UNCHANGED <<api, file, call, history>>

\* A file that cannot be read leaves the cache alone or empties it; what is
\* remembered of it stays.
LoadFails ==
    /\ pc = "idle"
    /\ kv' \in {kv, Empty}
    /\ UNCHANGED <<api, lastPrefilled, file, call, history>>

\* Mutant of Prefill: the kernel FFI exports it.
PrefillOverFfi(p) ==
    /\ pc = "idle" /\ Len(p) <= NCtx
    /\ kv' = Placed(Empty, 0, p)
    /\ lastPrefilled' = p
    /\ UNCHANGED <<api, file, call, history>>

\* RuntimeB.prefill, which the kernel FFI does not export.
Prefill(p) ==
    /\ pc = "idle" /\ api = "trait" /\ Len(p) <= NCtx
    /\ kv' = Placed(Empty, 0, p)
    /\ lastPrefilled' = p
    /\ UNCHANGED <<api, file, call, history>>

\* A decode of it fails after some chunks.
PrefillFails(p) ==
    /\ pc = "idle" /\ api = "trait"
    /\ \E n \in 0 .. NCtx :
         /\ n < Len(p) /\ n % Batch = 0
         /\ kv' = Placed(Empty, 0, SubSeq(p, 1, n))
    /\ UNCHANGED <<api, lastPrefilled, file, call, history>>

Stream ==
    \/ \E p \in Prompts, max \in MaxTokens, pivot \in BOOLEAN : Generate(p, max, pivot)
    \/ \E pivot \in BOOLEAN : Rejected(pivot)
    \/ IngestChunk \/ IngestFails \/ FirstSample
    \/ Stop \/ LastToken \/ NextToken \/ Decode \/ DecodeFails
    \/ GiveUp \/ Verify \/ VerifyLast

Cache ==
    \/ DumpCache \/ LoadCache \/ LoadFails
    \/ \E p \in Prompts : Prefill(p) \/ PrefillFails(p)
=============================================================================
