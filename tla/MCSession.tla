----------------------------- MODULE MCSession ------------------------------
EXTENDS SessionProperties, TLC

MCSymmetry == Permutations(Models)
MCStop == <<"s">>
MCSymbols == {"s", "<", "R", ">", "}", "E", "u", "x"}
MCPieces == {<<"s">>, <<"<">>, <<"R">>, <<">", "}">>, <<"E">>,
             <<"u", "<">>, <<"x", "R">>, <<"<", "R", ">", "}">>}
MCGrammars == {<<>>, <<<<"u", "x">>>>, <<<<"u", "<", "x">>, <<"x", "<">>>>}
=============================================================================
