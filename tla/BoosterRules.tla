---------------------------- MODULE BoosterRules ----------------------------
(***************************************************************************)
(* The settings of the booster and the rules that derive one from another: *)
(* AutoTuner, ConflictResolver, the flash attention guard of the hub, the  *)
(* defaults that a reset writes, and the context window that fits.         *)
(* Sizes are in units of 10 MB: the thresholds are exact in them.          *)
(***************************************************************************)
EXTENDS Integers, SequencesExt
CONSTANTS Nvidia,  \* a GPU of NVIDIA is there
          Vram,    \* its memory
          Ram,     \* free system memory
          Weights, \* size of the model
          PerK     \* KV cache of 1024 tokens

ASSUME BoosterAssumption ==
    /\ Nvidia \in BOOLEAN
    /\ {Vram, Ram, Weights} \subseteq Nat /\ PerK \in Nat \ {0}

FeatureState == {"On", "Off", "Auto"}

BoosterMode == {"edge", "multitasking", "balance", "max_boost",
                "ultra_max_boost", "hyper_cluster"}

BoosterControl ==
    [mode : BoosterMode, turbo : FeatureState, flash : FeatureState,
     spec : FeatureState, reclaim : BOOLEAN, layers : {-1, 0}]

BoosterDefault ==
    [mode |-> "balance", turbo |-> "Auto", flash |-> "Auto", spec |-> "Off",
     reclaim |-> FALSE, layers |-> -1]

(* What a process knows of the hardware: the probe's result, or the        *)
(* default of SystemControl, which has no GPU.                             *)
Silicon == {"probed", "blank"}

VramOf(silicon) == IF silicon = "probed" THEN Vram ELSE 0

HasNvidia(silicon) == silicon = "probed" /\ Nvidia

(* AutoTuner::tune *)
Tune(c, silicon) ==
    [c EXCEPT
        !.flash = IF @ # "Auto" THEN @ ELSE IF HasNvidia(silicon) THEN "On" ELSE "Off",
        !.turbo = IF @ # "Auto" THEN @ ELSE IF VramOf(silicon) < 800 THEN "On" ELSE "Off"]

(* ConflictResolver::resolve, for the signature of no model in particular. *)
Resolve(c, silicon) ==
    IF c.spec # "On" THEN c
    ELSE [c EXCEPT
            !.turbo = IF VramOf(silicon) < 1200 THEN "On" ELSE @,
            !.flash = IF @ = "Auto" THEN "On" ELSE @]

(* RESET_BOOSTER *)
Optimal(silicon) ==
    LET vram == VramOf(silicon) IN
    [BoosterDefault EXCEPT
        !.mode = CASE vram >= 2400 -> "max_boost"
                   [] vram >= 800 /\ vram < 2400 -> "balance"
                   [] vram >= 200 /\ vram < 800 -> "multitasking"
                   [] vram < 200 -> "edge",
        !.flash = IF vram > 0 THEN "On" ELSE "Auto",
        !.spec = IF vram >= 800 THEN "Auto" ELSE "Off",
        !.layers = IF vram > 0 THEN -1 ELSE 0]

-----------------------------------------------------------------------------
AtMost(a, b) == IF a < b THEN a ELSE b

AtLeast(a, b) == IF a > b THEN a ELSE b

(* The margin in memory: the code has it as a fraction of the total. *)
ModeMargin(mode, total) ==
    LET ultra == AtLeast(total \div 100, 25) IN
    CASE mode = "edge" -> AtMost(total \div 20, 20)
      [] mode = "multitasking" -> AtMost((total * 30) \div 100, 150)
      [] mode = "balance" -> AtMost((total * 15) \div 100, 200)
      [] mode = "max_boost" -> AtLeast(total \div 10, 60)
      [] mode = "ultra_max_boost" -> ultra
      [] mode = "hyper_cluster" ->
            IF total < 4000 THEN ultra ELSE (total * 15) \div 100

Margin(c, total) ==
    LET floor == IF c.mode \in {"ultra_max_boost", "hyper_cluster"} THEN 25 ELSE 60
        margin == ModeMargin(c.mode, total)
    IN  IF c.reclaim THEN AtLeast(total \div 200, floor)
        ELSE IF total < 2400 THEN AtLeast(margin, floor) ELSE margin

(* negotiate_vram_envelope_with_booster: with no VRAM the fractions are    *)
(* not numbers, and the window is empty.                                   *)
Envelope(c, total, others, cap) ==
    LET Tokens(room) == (AtLeast(room, 0) * 1024) \div PerK
        margin == Margin(c, total)
        hybrid == c.reclaim \/ Weights > total - margin
    IN  IF c.layers = 0 THEN cap
        ELSE IF total = 0 THEN 0
        ELSE IF hybrid
        THEN AtMost(Tokens(((total + Ram) * (total - margin)) \div total - Weights), cap)
        ELSE AtMost(Tokens(total - margin - others - Weights), cap)
=============================================================================
