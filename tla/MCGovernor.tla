------------------------------ MODULE MCGovernor ------------------------------
EXTENDS GovernorProperties
MCChanges == {<<"perm", "chat", "m1">>, <<"perm", "lazy", "false">>,
              <<"boost", "mode", "ultra_max_boost">>, <<"boost", "spec", "On">>}
MCEngines == {"llama", "draft"}
MCDemand == [e \in MCEngines |-> IF e = "llama" THEN 200 ELSE 150]
MCProbed == {[json |-> "probed", bin |-> "probed"], [json |-> Absent, bin |-> "probed"]}
MCDeleted == {[json |-> Absent, bin |-> Absent]}
=============================================================================
