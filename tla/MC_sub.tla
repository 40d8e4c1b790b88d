------------------------------- MODULE MC_sub -------------------------------
(* A handler of a filter f, one of a wildcard w that matches f, and two    *)
(* threads, for the run of MqttSubscribe.                                  *)
EXTENDS MqttSubscribe, TLC

Symmetry   == Permutations(Threads)
MCFilterOf == [h \in Handlers |-> IF h = "hf" THEN "f" ELSE "w"]
MCMatches  == [f \in Filters |-> {f, "w"}]
MCRemoves  == [f \in Filters |-> {f, "w"}]
MCApis     == {<<"sync", "hf">>, <<"local", "hf">>, <<"unsub", "hf">>, <<"sub", "hw">>}
=============================================================================
