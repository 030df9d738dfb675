------------------------------- MODULE Install -------------------------------
(***************************************************************************)
(* What the program installs: models, its own binaries, and components.    *)
(* The three use different files and no operation of one needs another, so *)
(* a behaviour is about one of them, the topic.                            *)
(***************************************************************************)
EXTENDS ModelFiles, Artifacts, Foundry, Functions

VARIABLE topic

installVars == <<topic, modelVars, artifactVars, foundryVars>>

Init ==
    /\ topic \in {"models", "artifacts", "components"}
    /\ ModelInit /\ ArtifactInit /\ FoundryInit
    /\ topic # "models" => shared
    /\ topic # "artifacts" => built = {} /\ Range(bin) = {Absent} /\ Range(offered) = {TRUE}

Next ==
    /\ UNCHANGED topic
    /\ \/ topic = "models" /\ ModelNext /\ UNCHANGED <<artifactVars, foundryVars>>
       \/ topic = "artifacts" /\ ArtifactNext /\ UNCHANGED <<modelVars, foundryVars>>
       \/ topic = "components" /\ FoundryNext /\ UNCHANGED <<modelVars, artifactVars>>

Spec == Init /\ [][Next]_installVars
=============================================================================
