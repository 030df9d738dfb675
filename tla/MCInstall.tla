------------------------------ MODULE MCInstall ------------------------------
EXTENDS InstallProperties, TLC
MCKind == [tools |-> "mcp", draw |-> "plugin", poems |-> "skill"]
MCSymmetry == Permutations(Workers)
=============================================================================
