------------------------- MODULE DispatcherProperties -------------------------
(***************************************************************************)
(* What NeuralDispatcher promises its callers.                             *)
(***************************************************************************)
EXTENDS Dispatcher

\* Every variable keeps its type, and a channel its capacity.
TypeOK ==
    /\ up \in BOOLEAN /\ cancel \in BOOLEAN
    /\ semQ \in Seq(Req) /\ lockQ \in Seq(Req)
    /\ cache \in Req \cup {None} /\ live \in SUBSET Req
    /\ activeModel \in Model \cup {None}
    /\ pc \in [Req -> Phase]
    /\ path \in [Req -> Model \cup {None}]
    /\ buf \in [Req -> {"before", "inside", "past"}]
    /\ out \in [Req -> Seq(Message)]
    /\ made \in [Req -> Nat]
    /\ chan \in [Req -> Seq(Message)] /\ sent \in [Req -> Seq(Message)]
    /\ \A r \in Req : Len(chan[r]) <= ChanCap
    /\ rxOpen \in [Req -> BOOLEAN]
    /\ cut \in [Req -> BOOLEAN] /\ solo \in [Req -> BOOLEAN]
    /\ since \in [Req -> SUBSET Model]

\* The raw engine pointer that a generation carries to the blocking pool is
\* never freed, replaced or shared while it runs, and belongs to the model that
\* the request resolved; no engine is leaked.
EngineSafe ==
    /\ live = {cache} \ {None}
    /\ \A r \in Req : pc[r] \in InService =>
         /\ cache # None /\ path[cache] = path[r]
         /\ \A q \in Req : pc[q] \in InService => q = r

\* A request runs on a model that was configured at some time since its
\* dispatch, however long it waited and whatever the cache held.
FreshModel ==
    \A r \in Req : pc[r] \in InService => path[cache] \in since[r]

\* "[DONE]" is the last message of a stream, it is sent once, and a task that
\* ends without a panic has sent it to a receiver that is still there.
DoneIsLast ==
    \A r \in Req :
      /\ \A i \in DOMAIN sent[r] : sent[r][i] = Done => i = Len(sent[r])
      /\ pc[r] = "ended" /\ rxOpen[r] =>
           sent[r] # << >> /\ sent[r][Len(sent[r])] = Done

\* A request that never shares the dispatcher with another one in progress is
\* not stopped by the cancel flag, and its trigger is handed over once.
SoloUndisturbed ==
    \A r \in Req : solo[r] =>
      /\ ~cut[r]
      /\ \A i, j \in DOMAIN sent[r] :
           {sent[r][i], sent[r][j]} \subseteq {Trigger, Fragment} => i = j

\* The dispatcher implements InferenceService: one request is served at a time
\* and the cached model changes only between two of them.
phaseOf == [r \in Req |->
    IF pc[r] = "idle" THEN "new"
    ELSE IF pc[r] \in InService THEN "serving"
    ELSE IF pc[r] \in Finished \cup {"closing"} THEN "over" ELSE "pending"]
loadedModel == IF cache = None THEN None ELSE path[cache]

Service == INSTANCE InferenceService WITH phase <- phaseOf, loaded <- loadedModel
ImplementsService == Service!Spec
=============================================================================
