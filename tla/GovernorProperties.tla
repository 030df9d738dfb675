------------------------- MODULE GovernorProperties -------------------------
(***************************************************************************)
(* What the shared settings, the fingerprint of the hardware, the arbiter  *)
(* and the process registry keep, and what they keep only while one        *)
(* process at a time uses them.                                            *)
(***************************************************************************)
EXTENDS Governor

(* What a process that loads the store now gets. *)
Effective(s) == IF Whole(<<s, "json">>) THEN file[<<s, "json">>] ELSE Default(s)

(* No operation that uses s is under way. *)
Quiet(s) == \A p \in Procs : s \notin Touches(act[p].op)

(* Types: the arbiter knows no card or the card, not a sum of probes.      *)
GovTypeOK ==
    /\ locked \subseteq Files
    /\ \A p \in Procs :
        /\ mem[p].total \in {0, Vram} /\ mem[p].held \in BOOLEAN
        /\ act[p].boost \in BoosterControl \cup {None}
    /\ \A f \in Files : f[1] = "boost" => file[f] \in BoosterControl \cup {Absent, Torn}
    /\ ok["boost"] \subseteq BoosterControl
    /\ ops \in 0..MaxOps

(* While operations do not overlap, a load gives what the users set: each  *)
(* setting has the value of the last change, or, once a crash cut an       *)
(* operation on that setting, of the last two, or what they would have     *)
(* made of the default.  A crash anywhere else takes nothing.  The booster *)
(* is tuned to the fingerprint, so it also needs that one as TruthSurvives *)
(* does: untouched by overlaps, and by a second crash.                     *)
SettingsKept ==
    \A s \in Settings :
        (/\ ~mixed[s] /\ Quiet(s)
         /\ s = "boost" => /\ ~mixed["sys"]
                           /\ crashes = 0 \/ (crashes = 1 /\ ok["sys"] = {"probed"}))
            => Effective(s) \in ok[s]

(* However engines request and return VRAM (twice, never requested, after  *)
(* another one), the load that the arbiter counts is not below what the    *)
(* engines hold: it does not promise memory that is taken.                 *)
NeverUndercounts ==
    \A p \in Procs :
        mem[p].alloc >= Taken(mem[p], Engines)

(* While registry updates do not overlap, a process that is listed and     *)
(* between two operations holds VRAM for some engine, whatever crashed.    *)
ListedHolds ==
    ~mixed["reg"] /\ Whole(<<"reg", "json">>) =>
        \A p \in Procs :
            Pid(p) \in file[<<"reg", "json">>] /\ act[p].op = "idle"
                => \E e \in Engines : mem[p].active[e] # 0

(* A fingerprint that was there is not lost by a crash: when the JSON file *)
(* is torn and nobody is at work, the binary one is whole, through the     *)
(* files that are written in place and those that are renamed.             *)
TruthSurvives ==
    (/\ ok["sys"] = {"probed"} /\ ~mixed["sys"] /\ crashes <= 1
     /\ Quiet("sys")
     /\ file[<<"sys", "json">>] = Torn)
        => Whole(<<"sys", "bin">>)

(* No process waits for the arbiter's lock while it holds it, as long as a *)
(* file of the fingerprint is there: the recovery scan takes the lock, and *)
(* negotiations load the fingerprint under it.                             *)
NeverSelfLocked ==
    \A p \in Procs : ~(At(p, "lock") /\ mem[p].held)

(* Every operation returns, but the menus, which the user leaves.  "If     *)
(* missing, it triggers an automatic "Self-Healing" recovery scan"         *)
(* (start of governor.rs): not when a negotiation finds it missing, which  *)
(* then waits for its own lock.                                            *)
EveryOpReturns ==
    \A p \in Procs :
        act[p].op \notin {"idle", "editBoost", "editPerm"} ~> act[p].op = "idle"
=============================================================================
