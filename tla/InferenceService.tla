--------------------------- MODULE InferenceService ---------------------------
(***************************************************************************)
(* What the dispatcher is for, without its queues, caches and channels:    *)
(* requests are served one at a time, each by the model loaded for it, and *)
(* the model in memory changes only while no request is being served.      *)
(***************************************************************************)
CONSTANTS Req, Model, None

VARIABLES
    phase,     \* of each request
    loaded     \* the model in memory

vars == <<phase, loaded>>

Init ==
    /\ phase = [r \in Req |-> "new"]
    /\ loaded = None

Quiet == \A r \in Req : phase[r] # "serving"

Submit(r) ==
    /\ phase[r] = "new"
    /\ phase' = [phase EXCEPT ![r] = "pending"]
    /\ UNCHANGED loaded

\* A pending request is served by the model it needs.
Serve(r) ==
    /\ phase[r] = "pending" /\ Quiet
    /\ phase' = [phase EXCEPT ![r] = "serving"]
    /\ loaded' \in Model

\* A pending request is given up; the attempt may have replaced the model.
Refuse(r) ==
    /\ phase[r] = "pending"
    /\ phase' = [phase EXCEPT ![r] = "over"]
    /\ \/ UNCHANGED loaded
       \/ Quiet /\ loaded' \in Model \cup {None}

Finish(r) ==
    /\ phase[r] = "serving"
    /\ phase' = [phase EXCEPT ![r] = "over"]
    /\ UNCHANGED loaded

Next == \E r \in Req : Submit(r) \/ Serve(r) \/ Refuse(r) \/ Finish(r)

Spec == Init /\ [][Next]_vars
=============================================================================
