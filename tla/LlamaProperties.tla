--------------------------- MODULE LlamaProperties ---------------------------
(***************************************************************************)
(* What the KV cache of a llama engine must hold.                          *)
(***************************************************************************)
EXTENDS EngineLink

\* Every variable keeps its type, and the cache its size.
LlamaTypeOK ==
    /\ engine \in {"none", "ready", "lost"}
    /\ api \in {"ffi", "trait"}
    /\ DOMAIN kv \subseteq 0 .. NCtx - 1
    /\ \A p \in DOMAIN kv : kv[p] \in Token \cup Nat
    /\ lastPrefilled \in Seq(Token)
    /\ pc \in {"idle", "ingest", "loop", "decode", "verify"}
    /\ rest \in Seq(Token) /\ drafts \in Seq(Nat) /\ Len(drafts) <= MaxDrafts
    /\ nCur \in 0 .. NCtx /\ promptLen \in Nat /\ budget \in Nat
    /\ nGen \in Nat /\ suppressed \in 0 .. ThinkCap
    /\ conv \in Seq(Token \cup Nat)
    /\ sound \in BOOLEAN /\ fresh \in BOOLEAN

\* The counter n_cur of the driver is the next free position: the cache has
\* neither a hole nor, but for drafts under verification, a cell beyond it.
Contiguous ==
    sound /\ pc # "idle" =>
      DOMAIN kv = 0 .. (IF pc = "verify" THEN nCur + Len(drafts) ELSE nCur) - 1

\* Whatever was shifted out, drafted or rolled back, the model sees the first
\* tokens of the conversation and its last ones, in order and without a gap
\* other than the one between them.
SlidingWindow ==
    sound /\ pc = "loop" =>
      LET keep == IF nCur = Len(conv) THEN nCur ELSE NKeep
      IN  /\ keep <= nCur /\ nCur <= Len(conv)
          /\ \A p \in 0 .. nCur - 1 :
               kv[p] = conv[IF p < keep THEN p + 1 ELSE p + 1 + Len(conv) - nCur]

\* Over the kernel FFI nothing is remembered of the cache at any time, so that
\* no prompt is matched with it and each is decoded before a token is sampled:
\* no stale cell is ever taken for a token of the prompt.  That is safe, but
\* not what the callers say of it (PrefixReused).  Nor does an engine in use
\* ever lose its context.
FfiIsCold ==
    api = "ffi" =>
      lastPrefilled = << >> /\ sound /\ (pc = "loop" => fresh) /\ engine # "lost"

\* What the router's comment says of the prompt that resumes after a tool ("The
\* native backend will automatically perform prefix-matching KV cache reuse"):
\* over the kernel FFI the decode of a prompt that fits begins behind what the
\* cache already has of it.
PrefixReused ==
    [][api = "ffi" /\ pc = "idle" /\ pc' = "ingest" /\ conv' \in Prompts
         => nCur' >= Common(Contents(kv, NextPos(kv)), conv')]_linkVars

\* Context shifting leaves room for the token and its drafts in every step:
\* a generation is not cut short by a full context.
NeverFull ==
    Shifting /\ sound /\ pc = "decode" => nCur + 1 + Len(drafts) <= NCtx

\* Drafts overrun max_tokens by no more than one batch of them.
BudgetKept ==
    pc # "idle" => nGen <= budget + MaxDrafts
=============================================================================
