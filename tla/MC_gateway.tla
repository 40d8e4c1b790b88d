---------------------------- MODULE MC_gateway ----------------------------
EXTENDS Gateway, TLC
CONSTANTS a, b, d1
CallsMade == a :> Kinds \cup {"slave_open", "slave_close"} @@ b :> {"login", "close"}
===========================================================================
