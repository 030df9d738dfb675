----------------------------- MODULE ToolStream -----------------------------
(***************************************************************************)
(* The agentic loop of CoreRouter::generate_stream (engines/src/api/       *)
(* router.rs) and the callback that the dashboard gives it                 *)
(* (cmd/src/core/dashboard.rs).                                            *)
(*                                                                         *)
(* The engine generates text in pieces.  An interceptor between the engine *)
(* and the callback holds back what may become a trigger, captures a       *)
(* trigger until it is complete, and then stops the generation: the tool   *)
(* is run, its result is put after the prompt, and the engine generates    *)
(* the final answer, in which no trigger is allowed.                       *)
(*                                                                         *)
(* A text is a sequence of symbols.  <<"<", "R">> is "<TRIGGER:", which    *)
(* the engine may generate in parts, "E" is "</TRIGGER>", which ends in    *)
(* the character '>' and is looked for only in all of the captured text.   *)
(***************************************************************************)
EXTENDS Naturals, SequencesExt

CONSTANT StopText  \* the stop sequence of the model

Legacy == <<"<", "R">>

\* Mutant of Begun: only a text that is all the beginning of t is held back.
BegunWhole(t, s) == {i \in 1..Len(s) : i = 1 /\ IsPrefix(s, t)}

(* The places where t begins in s, and those where s ends in the middle of *)
(* t or with all of it.                                                    *)
From(s, i) == SubSeq(s, i, Len(s))
Before(s, i) == SubSeq(s, 1, i - 1)
Occurs(t, s) == {i \in 1..Len(s) : IsPrefix(t, From(s, i))}
Begun(t, s) == {i \in 1..Len(s) : IsPrefix(From(s, i), t)}
Has(s, symbols) == ToSet(s) \cap symbols # {}
Greater == {">", "E"}  \* symbols with the character '>'

(***************************************************************************)
(* The state of a stream:                                                  *)
(*   phase    "first", "final" after a tool, "done" when the engine ended  *)
(*   dyn      the triggers of the matched skills, dynamic_triggers         *)
(*   gen      history: what the engine generated in this phase             *)
(*   passed   history: what the callback was given of it                   *)
(*   cache, json, capture   buffer_state of the interceptor                *)
(*   acc      trig_acc: the end of the final answer                        *)
(*   tool     tool_state                                                   *)
(*   runs     history: the tools run for this prompt                       *)
(*   res, eos full_response and reached_eos of the callback                *)
(*   go       the last result of the callback                              *)
(*   crashed  the bounds of a slice of a text are no good                  *)
(***************************************************************************)
Start(dyn) ==
    [phase |-> "first", dyn |-> dyn, gen |-> <<>>, passed |-> <<>>,
     cache |-> <<>>, json |-> <<>>, capture |-> FALSE, acc |-> <<>>,
     tool |-> "none", runs |-> 0, res |-> <<>>, eos |-> FALSE, go |-> TRUE,
     crashed |-> FALSE]

(***************************************************************************)
(* The callback.  It takes nothing after a stop sequence or Ctrl+C, and    *)
(* sees a stop sequence only where it ends the answer; "P" is the token    *)
(* __ENGINE_PAUSE_EXECUTE__, which it takes after a stop sequence too.     *)
(***************************************************************************)
Stopped(s, text, cancel) == cancel \/ (s.eos /\ text # <<"P">>)

Callback(s, text, cancel) ==
    IF Stopped(s, text, cancel) THEN [s EXCEPT !.go = FALSE]
    ELSE IF IsSuffix(StopText, s.res \o text)
    THEN [s EXCEPT !.eos = TRUE, !.go = FALSE]
    ELSE [s EXCEPT !.res = @ \o text, !.go = TRUE,
                   !.eos = @ /\ text # <<"P">>]

(* Text of the model; the engine's own words are passed with Callback. *)
Pass(s, text, cancel) ==
    Callback([s EXCEPT !.passed = @ \o text], text, cancel)

PassIfAny(s, text, cancel) ==
    IF text = <<>> THEN s ELSE Pass(s, text, cancel)

(* What an interceptor returns: whether the engine goes on. *)
Go(s, go) == [s EXCEPT !.go = go]

(***************************************************************************)
(* A captured trigger.  The last "<TRIGGER:" counts; its header ends at    *)
(* the first '>'.  Without one before "</TRIGGER>" the payload begins      *)
(* behind its end, and the slice panics.                                   *)
(***************************************************************************)
IsLegacy(json) == IsPrefix(Legacy, json)

Actual(json) == From(json, Max(Occurs(Legacy, json)))

Headed(json) == IsLegacy(json) /\ Has(Actual(json), Greater)

Payload(s, cancel) ==
    LET text == Actual(s.json)
        headerEnd == Min({i \in DOMAIN text : text[i] \in Greater})
    IN IF text[headerEnd] = "E" THEN Go([s EXCEPT !.crashed = TRUE], FALSE)
       ELSE Go(Callback([s EXCEPT !.tool = "legacy"], <<"N">>, cancel), FALSE)

Complete(json) ==
    IF IsLegacy(json) THEN Has(json, {"E"})
    ELSE IF Has(json, {"{"}) THEN Has(json, {"}"})
    ELSE Has(json, Greater \cup {"\n"})

(* The end of the interceptor while a trigger is being captured. *)
Captured(s, cancel) ==
    CASE ~Complete(s.json) -> Go(s, TRUE)
      [] Complete(s.json) /\ Headed(s.json) -> Payload(s, cancel)
      [] Complete(s.json) /\ ~IsLegacy(s.json) ->
            Go(Callback([s EXCEPT !.tool = "cel"], <<"N">>, cancel), FALSE)
      [] OTHER -> Go(Pass([s EXCEPT !.capture = FALSE, !.json = <<>>],
                          s.json, cancel), TRUE)

(* The trigger at i begins a capture; the text before it is passed on. *)
Capture(s, i, cancel) ==
    PassIfAny([s EXCEPT !.capture = TRUE, !.json = @ \o From(s.cache, i),
                        !.cache = <<>>],
              Before(s.cache, i), cancel)

\* Mutant of Hold: what was passed on stays in the buffer.
HoldAll(s, i, cancel) == Go(PassIfAny(s, Before(s.cache, i), cancel), TRUE)

(* The text from i may become a trigger: it waits for the next piece. *)
Hold(s, i, cancel) ==
    Go(PassIfAny([s EXCEPT !.cache = From(@, i)], Before(s.cache, i), cancel),
       TRUE)

(***************************************************************************)
(* The interceptor: triggers of skills first, in their order, then those   *)
(* that are begun, and only without one of these "<TRIGGER:".  A complete  *)
(* "<TRIGGER:" begins a capture, but its end is not looked for before the  *)
(* next piece: the rest of the branch passes an empty text.                *)
(***************************************************************************)
FirstDyn(s, Places(_, _)) ==
    LET hits == {k \in DOMAIN s.dyn : Places(s.dyn[k], s.cache) # {}}
    IN IF hits = {} THEN 0 ELSE Min(Places(s.dyn[Min(hits)], s.cache))

Scan(s, cancel) ==
    LET full == FirstDyn(s, Occurs)
        part == FirstDyn(s, Begun)
        legacy == Occurs(Legacy, s.cache)
        begun == Begun(Legacy, s.cache)
    IN CASE full # 0 -> Captured(Capture(s, full, cancel), cancel)
         [] full = 0 /\ part # 0 -> Hold(s, part, cancel)
         [] full = 0 /\ part = 0 /\ legacy # {} ->
                Pass(Capture(s, Min(legacy), cancel), <<>>, cancel)
         [] full = 0 /\ part = 0 /\ legacy = {} /\ begun # {} ->
                Hold(s, Min(begun), cancel)
         [] OTHER -> Pass([s EXCEPT !.cache = <<>>], s.cache, cancel)

Intercept(s, piece, cancel) ==
    LET heard == [s EXCEPT !.gen = @ \o piece, !.cache = @ \o piece]
    IN IF s.capture
       THEN Captured([heard EXCEPT !.json = @ \o piece], cancel)
       ELSE Scan(heard, cancel)

(***************************************************************************)
(* The final answer.  trig_acc keeps the end of what was generated, long   *)
(* enough for all of "<TRIGGER:" but its last character.                   *)
(***************************************************************************)
Trim(acc) == IF Len(acc) > 3 THEN From(acc, Len(acc) - 1) ELSE acc

Final(s, piece, cancel) ==
    LET acc == s.acc \o piece
        heard == [s EXCEPT !.gen = @ \o piece, !.acc = Trim(acc)]
    IN IF Occurs(Legacy, acc) # {} THEN Go(heard, FALSE)
       ELSE Pass(heard, piece, cancel)

(* The slice counts bytes, and panics where it begins inside a character.  *)
SlicePanics(s, piece) ==
    s.phase = "final" /\ Len(s.acc \o piece) > 3 /\ Occurs(Legacy, s.acc \o piece) = {}

(* The engine generates one piece. *)
Feed(s, piece, cancel) ==
    IF s.phase = "first" THEN Intercept(s, piece, cancel)
    ELSE Final(s, piece, cancel)

(***************************************************************************)
(* The engine has ended the first phase: an unclosed "<TRIGGER:" whose     *)
(* payload has a '}' counts, and one that was taken is taken once more.    *)
(***************************************************************************)
Fallback(s, cancel) ==
    IF s.capture /\ Headed(s.json) /\ Has(s.json, {"}"})
    THEN Payload(s, cancel) ELSE s

\* Mutant of RunTool: the next phase is not the final one.
RunToolAgain(s, planned, cancel) ==
    [s EXCEPT !.runs = @ + 1, !.gen = <<>>, !.passed = <<>>, !.cache = <<>>,
              !.json = <<>>, !.capture = FALSE, !.tool = "none", !.go = TRUE]

(***************************************************************************)
(* The tool is run and reported: a <TRIGGER:> always, a CEL macro when it  *)
(* parses and can be planned.  Then the KV cache is cleared and the final  *)
(* answer generated, whatever the callback said.                           *)
(***************************************************************************)
RunTool(s, planned, cancel) ==
    LET ran == [s EXCEPT !.runs = IF s.tool = "legacy" \/ planned
                                  THEN @ + 1 ELSE @]
        told == CASE s.tool = "legacy" -> Callback(ran, <<"P">>, cancel)
                  [] s.tool = "cel" /\ planned -> Callback(ran, <<"N">>, cancel)
                  [] OTHER -> ran
    IN [told EXCEPT !.phase = "final", !.gen = <<>>, !.passed = <<>>,
                    !.cache = <<>>, !.json = <<>>, !.capture = FALSE,
                    !.tool = "none", !.go = TRUE]
=============================================================================
